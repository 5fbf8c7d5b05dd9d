------------------------- MODULE SharedMemory_proofs ------------------------
(***************************************************************************)
(* Proofs about SharedMemory for any number of producers and consumers,    *)
(* any segment size and any bound on crashes.                              *)
(***************************************************************************)
EXTENDS SharedMemory, FiniteSetTheorems, TLAPS

\* The calls a process makes on objects it has opened.
Attached == DOMAIN Section \cup Critical

\* Handles point to objects before they are used, and a producer works on its
\* own.
Handles ==
    /\ \A p \in Procs : pc[p] \in Attached =>
          semOf[p] \in Producers /\ shmOf[p] \in Producers
    /\ \A p \in Producers : pc[p] \in Attached => semOf[p] = p /\ shmOf[p] = p
    /\ \A c \in Consumers : pc[c] = "open_shm" => semOf[c] \in Producers

TypeInv == TypeOK /\ Handles

-----------------------------------------------------------------------------
(* Facts about the list.                                                   *)

\* A block's size is a natural number of whole 8-byte units, at least its
\* fields.
LEMMA BlockWordsType ==
    ASSUME NEW count \in Nat
    PROVE  /\ BlockWords(count) \in Nat
           /\ BlockWords(count) >= BareBlockWords
           /\ BlockWords(count) % 2 = 0
  BY DEF BlockWords, BareBlockWords

\* A valid header's free_offset is an offset, and adding a block that fits keeps
\* it inside the segment.
LEMMA FreeOffset ==
    ASSUME TypeOK, NEW m \in Producers, HeaderValid(m)
    PROVE  /\ header[m].free \in Offsets
           /\ \A length \in 0 .. MaxLength : Fits(m, length) =>
                 header[m].free + BlockWords(length) \in 0 .. SegmentWords
  <1>1. header[m] \in HeaderType
    BY DEF TypeOK, MemoryOK
  <1>2. header[m].free \in Offsets
    BY <1>1, ConfigAssumption DEF HeaderValid, Offsets, HeaderType, HeaderWords
  <1>3. ASSUME NEW length \in 0 .. MaxLength, Fits(m, length)
        PROVE  header[m].free + BlockWords(length) \in 0 .. SegmentWords
    <2>1. BlockWords(length) \in Nat
      BY BlockWordsType, ConfigAssumption
    <2> QED
      BY <1>1, <1>3, <2>1, ConfigAssumption DEF Fits, HeaderType
  <1> QED
    BY <1>2, <1>3

-----------------------------------------------------------------------------
(* Types.                                                                  *)

LEMMA AppendedHeaderType ==
    ASSUME NEW h \in HeaderType, NEW last, NEW length, NEW k \in 0 .. 3,
           h.free \in Offsets, h.free + BlockWords(length) \in 0 .. SegmentWords
    PROVE  AppendedHeader(h, last, length, k) \in HeaderType
  <1> DEFINE free == IF k >= 1 THEN h.free + BlockWords(length) ELSE h.free
             first == IF k >= 2 /\ last = NullOffset THEN h.free ELSE h.first
             published == IF k >= 3 THEN h.published + 1 ELSE h.published
  <1>1. free \in 0 .. SegmentWords /\ first \in Offsets \cup {NullOffset}
    BY DEF HeaderType
  <1>2. published \in Nat
    BY DEF HeaderType
  <1>3. AppendedHeader(h, last, length, k) =
          [h EXCEPT !.free = free, !.first = first, !.published = published]
    BY DEF AppendedHeader
  <1> HIDE DEF free, first, published
  <1> QED
    BY <1>1, <1>2, <1>3 DEF HeaderType

LEMMA AppendedBlocksType ==
    ASSUME NEW blocks \in [Offsets -> BlockType], NEW new \in Offsets, NEW last,
           NEW length \in 1 .. MaxLength, NEW k \in 0 .. 3
    PROVE  AppendedBlocks(blocks, new, last, length, k) \in [Offsets -> BlockType]
  <1> SUFFICES ASSUME NEW o \in Offsets
               PROVE  AppendedBlocks(blocks, new, last, length, k)[o] \in BlockType
    BY DEF AppendedBlocks
  <1>1. blocks[o] \in BlockType
    OBVIOUS
  <1>2. [blocks[o] EXCEPT !.next = new] \in BlockType
    BY <1>1 DEF BlockType
  <1>3. [next |-> NullOffset, count |-> length, original |-> length,
         state |-> "READY"] \in BlockType
    BY ConfigAssumption DEF BlockType
  <1> QED
    BY <1>1, <1>2, <1>3 DEF AppendedBlocks

\* The stores of an append that passed its checks keep the segment well typed.
LEMMA AppendStoresType ==
    ASSUME TypeOK, NEW m \in Producers, NEW last, NEW length \in 1 .. MaxLength,
           NEW k \in 0 .. 3, CanAppend(m, length), AppendStores(m, last, length, k)
    PROVE  /\ header' \in [Producers -> HeaderType]
           /\ block' \in [Producers -> [Offsets -> BlockType]]
  <1>1. header[m] \in HeaderType /\ block[m] \in [Offsets -> BlockType]
    BY DEF TypeOK, MemoryOK
  <1>2. header[m].free \in Offsets
    BY FreeOffset DEF CanAppend
  <1>3. header[m].free + BlockWords(length) \in 0 .. SegmentWords
    BY FreeOffset, ConfigAssumption DEF CanAppend
  <1>4. AppendedHeader(header[m], last, length, k) \in HeaderType
    BY <1>1, <1>2, <1>3, AppendedHeaderType
  <1>5. AppendedBlocks(block[m], header[m].free, last, length, k)
          \in [Offsets -> BlockType]
    BY <1>1, <1>2, AppendedBlocksType
  <1> QED
    BY <1>4, <1>5 DEF AppendStores, TypeOK, MemoryOK

\* So do the stores of a finish, and leaving.
LEMMA FinishedBlockType ==
    ASSUME NEW b \in BlockType, NEW k \in 0 .. 3
    PROVE  FinishedBlock(b, k) \in BlockType
  <1> DEFINE count == IF k >= 1 THEN 0 ELSE b.count
             state == IF k >= 2 THEN "PROCESSED" ELSE b.state
  <1>1. count \in 0 .. MaxLength /\ state \in {"READY", "IN_PROGRESS", "PROCESSED"}
    BY ConfigAssumption DEF BlockType
  <1>2. FinishedBlock(b, k) = [b EXCEPT !.count = count, !.state = state]
    BY DEF FinishedBlock
  <1> HIDE DEF count, state
  <1> QED
    BY <1>1, <1>2 DEF BlockType

LEMMA LeftHeaderType ==
    ASSUME NEW h \in HeaderType, NEW k \in 0 .. 3
    PROVE  FinishedHeader(h, k) \in HeaderType /\ Unregister(h) \in HeaderType
  <1>1. FinishedHeader(h, k) \in HeaderType
    BY DEF FinishedHeader, HeaderType
  <1>2. Unregister(h) \in HeaderType
    BY DEF Unregister, HeaderType
  <1> QED
    BY <1>1, <1>2

LEMMA InitType == Init => TypeInv
  BY ProcessesAssumption, ConfigAssumption
  DEF Init, TypeInv, TypeOK, PcOK, ObjectsOK, MemoryOK, LocalsOK, Handles, Attached, Procs,
      Section, Critical, ProducerPC, ConsumerPC, Registered, HeaderType, BlockType,
      ZeroHeader, ZeroBlock, NullOffset

\* A process only ever jumps to a call of its own program.
LEMMA PcStep == PcOK /\ [Next]_vars => PcOK'
  <1> SUFFICES ASSUME PcOK, [Next]_vars PROVE PcOK'
    OBVIOUS
  <1> USE ProcessesAssumption DEF PcOK, Procs
  <1>1. ASSUME NEW p \in Producers, NEW w \in ProducerPC, Goto(p, w)
        PROVE  PcOK'
    BY <1>1 DEF Goto
  <1>2. ASSUME NEW c \in Consumers, NEW w \in ConsumerPC, Goto(c, w)
        PROVE  PcOK'
    BY <1>2 DEF Goto
  <1> HIDE DEF PcOK, Procs
  <1>3. ASSUME NEW p \in Producers, Producer(p)
        PROVE  PcOK'
    BY <1>1, <1>3 DEF Producer, CreateSemaphore, CreateSharedMemory, InitializeHeader,
         FindSpace, AppendBlock, CheckFinished, RemoveSharedMemory, RemoveSemaphore, ProducerPC
  <1>4. ASSUME NEW c \in Consumers, Consumer(c)
        PROVE  PcOK'
    BY <1>2, <1>4 DEF Consumer, OpenSemaphore, OpenSharedMemory, Register, TakeBlock,
         TakeNoData, TakeFinished, TakeError, FinishBlock, ConsumerPC, Registered
  <1>5. ASSUME NEW p \in Procs, Lock(p)
        PROVE  PcOK'
    <2>1. CASE p \in Producers
      <3>1. pc[p] \in ProducerPC /\ pc[p] \in DOMAIN Section
        BY <1>5, <2>1 DEF Lock, PcOK
      <3>2. Section[pc[p]] \in ProducerPC
        BY <3>1 DEF Section, ProducerPC
      <3> QED
        BY <1>1, <1>5, <2>1, <3>2 DEF Lock
    <2>2. CASE p \in Consumers
      <3>1. pc[p] \in ConsumerPC /\ pc[p] \in DOMAIN Section
        BY <1>5, <2>2 DEF Lock, PcOK
      <3>2. Section[pc[p]] \in ConsumerPC
        BY <3>1 DEF Section, ConsumerPC, Registered
      <3> QED
        BY <1>2, <1>5, <2>2, <3>2 DEF Lock
    <2> QED
      BY <2>1, <2>2 DEF Procs
  <1>6. ASSUME NEW p \in Procs, LockFails(p) \/ Crash(p)
        PROVE  PcOK'
    BY <1>1, <1>2, <1>6 DEF LockFails, Crash, ProducerPC, ConsumerPC, Procs
  <1>7. CASE UNCHANGED vars
    BY <1>7 DEF vars, PcOK
  <1> QED
    BY <1>3, <1>4, <1>5, <1>6, <1>7 DEF Next, AllGone

\* What the call a process is at says of the process.
LEMMA WhoIsWhere ==
    ASSUME PcOK, NEW p \in Procs
    PROVE  /\ pc[p] \in {"init", "space", "append", "check"} => p \in Producers
           /\ pc[p] \in {"register", "take", "finish"} => p \in Consumers
  BY DEF PcOK, ProducerPC, ConsumerPC, Registered, Procs

LEMMA ObjectsStep == ObjectsOK /\ [Next]_vars => ObjectsOK'
  <1> SUFFICES ASSUME ObjectsOK, [Next]_vars PROVE ObjectsOK'
    OBVIOUS
  <1> USE ProcessesAssumption DEF ObjectsOK, Procs, Unlock
  <1>1. ASSUME NEW p \in Producers, Producer(p)
        PROVE  ObjectsOK'
    <2>1. CASE CreateSemaphore(p)
      BY <2>1 DEF CreateSemaphore
    <2>2. CASE CreateSharedMemory(p)
      BY <2>2 DEF CreateSharedMemory
    <2>3. CASE InitializeHeader(p) \/ FindSpace(p) \/ AppendBlock(p) \/ CheckFinished(p)
      BY <2>3 DEF InitializeHeader, FindSpace, AppendBlock, CheckFinished, names, handles
    <2>4. CASE RemoveSharedMemory(p) \/ RemoveSemaphore(p)
      BY <2>4 DEF RemoveSharedMemory, RemoveSemaphore, handles
    <2> QED
      BY <1>1, <2>1, <2>2, <2>3, <2>4 DEF Producer
  <1>2. ASSUME NEW c \in Consumers, Consumer(c)
        PROVE  ObjectsOK'
    <2>1. CASE OpenSemaphore(c) \/ OpenSharedMemory(c)
      BY <2>1 DEF OpenSemaphore, OpenSharedMemory, names
    <2>2. CASE Register(c) \/ TakeBlock(c) \/ TakeNoData(c) \/ TakeFinished(c)
               \/ TakeError(c) \/ FinishBlock(c)
      BY <2>2 DEF Register, TakeBlock, TakeNoData, TakeFinished, TakeError, FinishBlock,
                  names, handles
    <2> QED
      BY <1>2, <2>1, <2>2 DEF Consumer
  <1>3. ASSUME NEW p \in Procs, Lock(p) \/ LockFails(p) \/ Crash(p)
        PROVE  ObjectsOK'
    BY <1>3 DEF Lock, LockFails, Crash, names, handles
  <1>4. CASE UNCHANGED vars
    BY <1>4 DEF vars
  <1> QED
    BY <1>1, <1>2, <1>3, <1>4 DEF Next, AllGone

LEMMA HandlesStep == TypeInv /\ [Next]_vars => Handles'
  <1> SUFFICES ASSUME TypeInv, [Next]_vars PROVE Handles'
    OBVIOUS
  <1> USE ProcessesAssumption DEF TypeInv, TypeOK, PcOK, ObjectsOK, Handles, Procs,
          Attached, Goto
  <1>1. ASSUME NEW p \in Producers, Producer(p)
        PROVE  Handles'
    <2>1. CASE CreateSemaphore(p)
      BY <2>1 DEF CreateSemaphore, Section, Critical
    <2>2. CASE CreateSharedMemory(p)
      BY <2>2 DEF CreateSharedMemory, CreatedSemaphore, Section, Critical
    <2>3. CASE InitializeHeader(p) \/ FindSpace(p) \/ AppendBlock(p) \/ CheckFinished(p)
      <3>1. UNCHANGED handles /\ pc[p] \in Attached /\ \E w \in ProducerPC : Goto(p, w)
        BY <2>3 DEF InitializeHeader, FindSpace, AppendBlock, CheckFinished, Critical,
                    ProducerPC
      <3> QED
        BY <3>1 DEF handles
    <2>4. CASE RemoveSharedMemory(p) \/ RemoveSemaphore(p)
      BY <2>4 DEF RemoveSharedMemory, RemoveSemaphore, handles, Section, Critical
    <2> QED
      BY <1>1, <2>1, <2>2, <2>3, <2>4 DEF Producer
  <1>2. ASSUME NEW c \in Consumers, Consumer(c)
        PROVE  Handles'
    <2>1. CASE OpenSemaphore(c)
      BY <2>1 DEF OpenSemaphore, Section, Critical
    <2>2. CASE OpenSharedMemory(c)
      BY <2>2 DEF OpenSharedMemory, Section, Critical
    <2>3. CASE Register(c) \/ TakeBlock(c) \/ TakeNoData(c) \/ TakeFinished(c)
               \/ TakeError(c) \/ FinishBlock(c)
      <3>1. /\ UNCHANGED handles /\ pc[c] \in Attached
            /\ \E w \in ConsumerPC : w # "open_shm" /\ Goto(c, w)
        BY <2>3 DEF Register, TakeBlock, TakeNoData, TakeFinished, TakeError, FinishBlock,
                    Critical, ConsumerPC, Registered
      <3> QED
        BY <3>1 DEF handles
    <2> QED
      BY <1>2, <2>1, <2>2, <2>3 DEF Consumer
  <1>3. ASSUME NEW p \in Procs, Lock(p)
        PROVE  Handles'
    <2>1. UNCHANGED handles /\ Goto(p, Section[pc[p]]) /\ pc[p] \in DOMAIN Section
      BY <1>3 DEF Lock
    <2>2. Section[pc[p]] # "open_shm"
      BY <2>1 DEF Section
    <2> QED
      BY <2>1, <2>2 DEF handles
  <1>4. ASSUME NEW p \in Procs, LockFails(p) \/ Crash(p)
        PROVE  Handles'
    BY <1>4 DEF LockFails, Crash, handles, Section, Critical
  <1>5. CASE UNCHANGED vars
    BY <1>5 DEF vars
  <1> QED
    BY <1>1, <1>2, <1>3, <1>4, <1>5 DEF Next, AllGone

LEMMA LocalsStep == TypeInv /\ [Next]_vars => LocalsOK'
  <1> SUFFICES ASSUME TypeInv, [Next]_vars PROVE LocalsOK'
    OBVIOUS
  <1> USE ProcessesAssumption, ConfigAssumption DEF TypeInv, TypeOK, LocalsOK, Procs, locals
  <1>1. ASSUME NEW p \in Producers, Producer(p)
        PROVE  LocalsOK'
    BY <1>1 DEF Producer, CreateSemaphore, CreateSharedMemory, InitializeHeader, FindSpace,
                AppendBlock, CheckFinished, RemoveSharedMemory, RemoveSemaphore
  <1>2. ASSUME NEW c \in Consumers, TakeBlock(c)
        PROVE  LocalsOK'
    <2>1. PICK n \in 0 .. header[shmOf[c]].published :
             /\ TakesAt(shmOf[c], n)
             /\ taken' = [taken EXCEPT ![c] = Walk(shmOf[c])[n]]
      BY <1>2 DEF TakeBlock
    <2>2. n \in 0 .. (n + 1) - 1
      BY <2>1 DEF TakesAt
    <2>3. BlockValid(shmOf[c], Walk(shmOf[c])[n])
      BY <2>1, <2>2 DEF TakesAt, WalkIntact
    <2>4. Walk(shmOf[c])[n] \in Offsets
      BY <2>3 DEF BlockValid
    <2> QED
      BY <1>2, <2>1, <2>4 DEF TakeBlock
  <1>3. ASSUME NEW c \in Consumers, Consumer(c), ~TakeBlock(c)
        PROVE  LocalsOK'
    BY <1>3 DEF Consumer, OpenSemaphore, OpenSharedMemory, Register, TakeNoData,
                TakeFinished, TakeError, FinishBlock
  <1>4. ASSUME NEW p \in Procs, Lock(p) \/ LockFails(p) \/ Crash(p)
        PROVE  LocalsOK'
    BY <1>4 DEF Lock, LockFails, Crash
  <1>5. CASE UNCHANGED vars
    BY <1>5 DEF vars
  <1> QED
    BY <1>1, <1>2, <1>3, <1>4, <1>5 DEF Next, AllGone

\* A process inside a critical section works on a segment that exists.
LEMMA InsideSegment ==
    ASSUME TypeInv, NEW p \in Procs, pc[p] \in Critical
    PROVE  shmOf[p] \in Producers /\ semOf[p] \in Producers
  BY DEF TypeInv, Handles, Attached

LEMMA MemoryStep == TypeInv /\ [Next]_vars => MemoryOK'
  <1> SUFFICES ASSUME TypeInv, [Next]_vars PROVE MemoryOK'
    OBVIOUS
  <1>1. MemoryOK /\ TypeOK
    BY DEF TypeInv, TypeOK
  <1>2. ASSUME NEW p \in Producers, Producer(p)
        PROVE  MemoryOK'
    <2> DEFINE m == shmOf[p]
    <2>1. CASE CreateSemaphore(p) \/ CreateSharedMemory(p) \/ CheckFinished(p)
               \/ RemoveSharedMemory(p) \/ RemoveSemaphore(p)
      BY <1>1, <2>1 DEF CreateSemaphore, CreateSharedMemory, CheckFinished,
           RemoveSharedMemory, RemoveSemaphore, memory, MemoryOK
    <2>2. CASE InitializeHeader(p)
      <3> DEFINE h == [ZeroHeader EXCEPT !.ready = TRUE, !.free = HeaderWords]
      <3>1. ZeroHeader \in HeaderType /\ HeaderWords \in 0 .. SegmentWords
        BY ConfigAssumption DEF ZeroHeader, HeaderType, HeaderWords
      <3>2. h \in HeaderType
        BY <3>1 DEF HeaderType
      <3>3. header' = [header EXCEPT ![p] = h] /\ UNCHANGED block
        BY <2>2 DEF InitializeHeader
      <3> QED
        BY <1>1, <3>2, <3>3 DEF MemoryOK
    <2>3. CASE FindSpace(p)
      <3>1. m \in Producers
        BY <2>3, InsideSegment DEF FindSpace, Critical, Procs
      <3> HIDE DEF m
      <3>2. UNCHANGED block /\ \/ UNCHANGED header
                               \/ \E d \in BOOLEAN : header' = [header EXCEPT ![m].done = d]
        BY <1>1, <2>3, <3>1 DEF FindSpace, MemoryOK, HeaderType, m
      <3> QED
        BY <1>1, <3>1, <3>2 DEF MemoryOK, HeaderType
    <2>4. CASE AppendBlock(p)
      <3>1. m \in Producers
        BY <2>4, InsideSegment DEF AppendBlock, Critical, Procs
      <3>2. PICK length \in MinLength .. fitting[p] :
               IF CanAppend(m, length)
               THEN \E last \in Offsets \cup {NullOffset} : AppendStores(m, last, length, 3)
               ELSE UNCHANGED memory
        BY <2>4 DEF AppendBlock
      <3>3. length \in 1 .. MaxLength
        BY <1>1, ConfigAssumption DEF TypeOK, LocalsOK
      <3> QED
        BY <1>1, <3>1, <3>2, <3>3, AppendStoresType DEF MemoryOK, memory
    <2> QED
      BY <1>2, <2>1, <2>2, <2>3, <2>4 DEF Producer
  <1>3. ASSUME NEW c \in Consumers, Consumer(c)
        PROVE  MemoryOK'
    <2> DEFINE m == shmOf[c]
    <2>1. CASE OpenSemaphore(c) \/ OpenSharedMemory(c)
      BY <1>1, <2>1 DEF OpenSemaphore, OpenSharedMemory, memory, MemoryOK
    <2>2. ASSUME pc[c] \in Critical
          PROVE  /\ m \in Producers
                 /\ header[m] \in HeaderType
                 /\ Unregister(header[m]) \in HeaderType
                 /\ block[m] \in [Offsets -> BlockType]
      <3>1. m \in Producers
        BY <2>2, InsideSegment DEF Procs
      <3>2. header[m] \in HeaderType /\ block[m] \in [Offsets -> BlockType]
        BY <1>1, <3>1 DEF MemoryOK
      <3> QED
        BY <3>1, <3>2, LeftHeaderType
    <2> HIDE DEF m
    <2>3. CASE Register(c)
      <3>1. m \in Producers /\ header[m] \in HeaderType
        BY <2>2, <2>3 DEF Register, Critical
      <3>2. UNCHANGED block /\ \/ UNCHANGED header
                               \/ header' = [header EXCEPT ![m].active = @ + 1]
        BY <2>3 DEF Register, m
      <3> QED
        BY <1>1, <3>1, <3>2 DEF MemoryOK, HeaderType
    <2>4. CASE TakeNoData(c) \/ TakeFinished(c) \/ TakeError(c)
      <3>1. m \in Producers /\ Unregister(header[m]) \in HeaderType
        BY <2>2, <2>4 DEF TakeNoData, TakeFinished, TakeError, Critical
      <3>2. UNCHANGED block /\ \/ UNCHANGED header
                               \/ header' = [header EXCEPT ![m] = Unregister(header[m])]
        BY <2>4 DEF TakeNoData, TakeFinished, TakeError, m
      <3> QED
        BY <1>1, <3>1, <3>2 DEF MemoryOK
    <2>5. CASE TakeBlock(c)
      <3>1. m \in Producers /\ Unregister(header[m]) \in HeaderType
            /\ block[m] \in [Offsets -> BlockType]
        BY <2>2, <2>5 DEF TakeBlock, Critical
      <3>2. PICK o : block' = [block EXCEPT ![m][o].state = "IN_PROGRESS"]
        BY <2>5 DEF TakeBlock, m
      <3>3. \/ UNCHANGED header
            \/ header' = [header EXCEPT ![m] = Unregister(header[m])]
        BY <2>5 DEF TakeBlock, m
      <3>4. block' \in [Producers -> [Offsets -> BlockType]]
        <4>1. ASSUME NEW q \in Offsets
              PROVE  [block[m][q] EXCEPT !.state = "IN_PROGRESS"] \in BlockType
          <5>1. block[m][q] \in BlockType
            BY <3>1
          <5> QED
            BY <5>1 DEF BlockType
        <4>2. [block[m] EXCEPT ![o].state = "IN_PROGRESS"] \in [Offsets -> BlockType]
          BY <3>1, <4>1
        <4>3. block' = [block EXCEPT ![m] = [block[m] EXCEPT ![o].state = "IN_PROGRESS"]]
          BY <3>2
        <4> QED
          BY <1>1, <4>2, <4>3 DEF MemoryOK
      <3> QED
        BY <1>1, <3>1, <3>3, <3>4 DEF MemoryOK
    <2>6. CASE FinishBlock(c)
      <3>1. m \in Producers /\ header[m] \in HeaderType /\ block[m] \in [Offsets -> BlockType]
        BY <2>2, <2>6 DEF FinishBlock, Critical
      <3> DEFINE done == CanFinish(m, taken[c])
                 h == IF done THEN FinishedHeader(header[m], 3) ELSE header[m]
      <3>2. h \in HeaderType
        BY <3>1, LeftHeaderType
      <3>3. Unregister(h) \in HeaderType
        BY <3>2, LeftHeaderType
      <3>4. \/ header' = [header EXCEPT ![m] = h]
            \/ header' = [header EXCEPT ![m] = Unregister(h)]
        BY <2>6 DEF FinishBlock, m
      <3>5. CASE done
        <4>1. taken[c] \in Offsets
          BY <3>5 DEF CanFinish, BlockValid
        <4>2. FinishedBlock(block[m][taken[c]], 3) \in BlockType
          BY <3>1, <4>1, FinishedBlockType
        <4>3. block' = [block EXCEPT ![m][taken[c]] = FinishedBlock(block[m][taken[c]], 3)]
          BY <2>6, <3>5 DEF FinishBlock, m
        <4>4. block' \in [Producers -> [Offsets -> BlockType]]
          BY <1>1, <3>1, <4>1, <4>2, <4>3 DEF MemoryOK
        <4> HIDE DEF h, done
        <4> QED
          BY <1>1, <3>2, <3>3, <3>4, <4>4 DEF MemoryOK
      <3>6. CASE ~done
        <4>1. UNCHANGED block
          BY <2>6, <3>6 DEF FinishBlock, m
        <4> HIDE DEF h, done
        <4> QED
          BY <1>1, <3>2, <3>3, <3>4, <4>1 DEF MemoryOK
      <3> QED
        BY <3>5, <3>6
    <2> QED
      BY <1>3, <2>1, <2>3, <2>4, <2>5, <2>6 DEF Consumer
  <1>4. ASSUME NEW p \in Procs, Lock(p) \/ LockFails(p)
        PROVE  MemoryOK'
    BY <1>1, <1>4 DEF Lock, LockFails, memory, MemoryOK
  <1>5. ASSUME NEW p \in Procs, Crash(p)
        PROVE  MemoryOK'
    <2> DEFINE m == shmOf[p]
    <2>1. LosesStores(p)
      BY <1>5 DEF Crash
    <2>2. CASE pc[p] = "append"
      <3>1. m \in Producers /\ p \in Producers
        BY <1>1, <2>2, InsideSegment, WhoIsWhere DEF Critical, TypeOK
      <3>2. PICK k \in 0 .. 2, length \in MinLength .. fitting[p],
                 last \in Offsets \cup {NullOffset} :
               CanAppend(m, length) /\ IsLast(m, last) /\ AppendStores(m, last, length, k)
        BY <2>1, <2>2 DEF LosesStores
      <3>3. length \in 1 .. MaxLength /\ k \in 0 .. 3
        BY <1>1, <3>1, ConfigAssumption DEF TypeOK, LocalsOK
      <3> QED
        BY <1>1, <3>1, <3>2, <3>3, AppendStoresType DEF MemoryOK
    <2>3. CASE pc[p] = "finish" /\ CanFinish(m, taken[p])
      <3>1. m \in Producers /\ taken[p] \in Offsets
        BY <2>3, InsideSegment DEF Critical, CanFinish, BlockValid
      <3>2. PICK k \in 0 .. 2 :
               /\ block' = [block EXCEPT ![m][taken[p]] = FinishedBlock(block[m][taken[p]], k)]
               /\ UNCHANGED header
        BY <2>1, <2>3 DEF LosesStores
      <3>3. block[m][taken[p]] \in BlockType /\ k \in 0 .. 3 /\ header[m] \in HeaderType
        BY <1>1, <3>1 DEF MemoryOK
      <3>4. FinishedBlock(block[m][taken[p]], k) \in BlockType
        BY <3>3, FinishedBlockType
      <3> QED
        BY <1>1, <3>1, <3>2, <3>4 DEF MemoryOK
    <2>4. CASE pc[p] # "append" /\ ~(pc[p] = "finish" /\ CanFinish(m, taken[p]))
      BY <1>1, <2>1, <2>4 DEF LosesStores, memory, MemoryOK
    <2> QED
      BY <2>2, <2>3, <2>4
  <1>6. CASE UNCHANGED vars
    BY <1>1, <1>6 DEF vars, MemoryOK
  <1> QED
    BY <1>2, <1>3, <1>4, <1>5, <1>6 DEF Next, AllGone

LEMMA TypeStep == TypeInv /\ [Next]_vars => TypeInv'
  BY PcStep, ObjectsStep, MemoryStep, LocalsStep, HandlesStep DEF TypeInv, TypeOK

\* The structures of ipc.h keep their types in every state of both programs, with
\* any number of processes: offsets stay inside the segment and free_offset never
\* passes its end, also when processes are killed between two stores.
THEOREM TypeCorrect == Spec => []TypeOK
  <1>1. TypeInv => TypeOK
    BY DEF TypeInv
  <1> QED
    BY <1>1, InitType, TypeStep, PTL DEF Spec

-----------------------------------------------------------------------------
(* Mutual exclusion.  The semaphore's value and its holders add up; and in *)
(* System V whoever gets through to the lock holds the semaphore that was  *)
(* created together with the segment, because a producer removes the       *)
(* segment's name before the semaphore and a removed semaphore cannot be   *)
(* locked.  POSIX has no such last line of defence, hence the restriction  *)
(* to one producer.                                                        *)

SemInv ==
    /\ \A s \in Producers : sem[s] <= 1
    /\ \A p \in Procs : pc[p] \in Critical => sem[semOf[p]] = 0
    /\ \A p, q \in Procs :
          p # q /\ pc[p] \in Critical /\ pc[q] \in Critical => semOf[p] # semOf[q]
    /\ \A s \in Producers : pc[s] = "create_sem" =>
          semName # s /\ \A q \in Procs : semOf[q] # s

NameInv ==
    /\ \A m \in Producers : shmName = m /\ CreatedSemaphore(m) => semName = m
    /\ \A m \in Producers : pc[m] = "create_shm" /\ CreatedSemaphore(m) => semName = m
    /\ \A m \in Producers : pc[m] = "remove_sem" => shmName # m
    /\ \A m \in Producers : shmName = m => shmOf[m] = m
    /\ \A m \in Producers, q \in Procs : shmOf[q] = m =>
          pc[m] \notin {"create_sem", "create_shm"}
    /\ \A p \in Procs : pc[p] \in Attached /\ CreatedSemaphore(shmOf[p]) =>
          \/ semOf[p] = shmOf[p]
          \/ pc[p] = "lock_register" /\ semName # semOf[p]

\* Every step seen from the semaphore: the calls that touch names and handles,
\* taking the lock, leaving a critical section, or ending without it.
Outside == DOMAIN Section \cup {"remove_shm", "exited", "crashed"}
Leave(p) ==
    /\ pc[p] \in Critical
    /\ Unlock(p)
    /\ \E w \in Outside : Goto(p, w)
    /\ UNCHANGED <<names, handles>>
Quit(p) ==
    /\ \/ Goto(p, "crashed")
       \/ pc[p] \in DOMAIN Section /\ \E w \in {"remove_shm", "exited"} : Goto(p, w)
    /\ UNCHANGED <<names, handles, sem>>

LEMMA StepShapes ==
    ASSUME Next
    PROVE  \/ \E p \in Producers : \/ CreateSemaphore(p) \/ CreateSharedMemory(p)
                                   \/ RemoveSharedMemory(p) \/ RemoveSemaphore(p)
           \/ \E c \in Consumers : OpenSemaphore(c) \/ OpenSharedMemory(c)
           \/ \E p \in Procs : Lock(p) \/ Leave(p) \/ Quit(p)
           \/ UNCHANGED vars
  <1>1. ASSUME NEW p \in Producers,
               InitializeHeader(p) \/ FindSpace(p) \/ AppendBlock(p) \/ CheckFinished(p)
        PROVE  Leave(p)
    BY <1>1 DEF InitializeHeader, FindSpace, AppendBlock, CheckFinished, Leave, Critical,
                Outside, Section
  <1>2. ASSUME NEW c \in Consumers,
               \/ Register(c) \/ TakeBlock(c) \/ TakeNoData(c) \/ TakeFinished(c)
               \/ TakeError(c) \/ FinishBlock(c)
        PROVE  Leave(c)
    BY <1>2 DEF Register, TakeBlock, TakeNoData, TakeFinished, TakeError, FinishBlock, Leave,
                Critical, Outside, Section
  <1>3. ASSUME NEW p \in Procs, LockFails(p) \/ Crash(p)
        PROVE  Leave(p) \/ Quit(p)
    BY <1>3 DEF LockFails, Crash, Undone, Leave, Quit, Outside
  <1> QED
    BY <1>1, <1>2, <1>3 DEF Next, Producer, Consumer, AllGone, Procs

LEMMA InitMutex == Init => SemInv /\ NameInv
  BY ProcessesAssumption DEF Init, SemInv, NameInv, Critical, CreatedSemaphore, Attached,
                             Section, Procs

LEMMA SemInvStep == TypeInv /\ SemInv /\ [Next]_vars => SemInv'
  <1> SUFFICES ASSUME TypeInv, SemInv, [Next]_vars PROVE SemInv'
    OBVIOUS
  <1> USE ProcessesAssumption DEF SemInv, TypeInv, TypeOK, PcOK, ObjectsOK, Procs, Goto
  <1>1. ASSUME NEW p \in Producers, CreateSemaphore(p)
        PROVE  SemInv'
    <2>1. pc' = [pc EXCEPT ![p] = "create_shm"] \/ pc' = [pc EXCEPT ![p] = "exited"]
      BY <1>1 DEF CreateSemaphore
    <2>2. ~ \E q \in Procs : semOf[q] = p
      BY <1>1 DEF CreateSemaphore
    <2>3. CASE NoSemaphore
      <3>1. semName' = p /\ sem' = [sem EXCEPT ![p] = 1] /\ semOf' = [semOf EXCEPT ![p] = p]
        BY <1>1, <2>3 DEF CreateSemaphore
      <3> QED
        BY <1>1, <2>1, <2>2, <3>1 DEF Critical, CreateSemaphore, Handles, Attached
    <2>4. CASE ~NoSemaphore
      <3>1. /\ UNCHANGED <<semName, sem>>
            /\ UNCHANGED semOf \/ semOf' = [semOf EXCEPT ![p] = semName]
        BY <1>1, <2>4 DEF CreateSemaphore
      <3> QED
        BY <1>1, <2>1, <2>4, <3>1 DEF Critical, CreateSemaphore, NoSemaphore
    <2> QED
      BY <2>3, <2>4
  <1>2. ASSUME NEW p \in Producers,
               CreateSharedMemory(p) \/ RemoveSharedMemory(p) \/ RemoveSemaphore(p)
        PROVE  SemInv'
    BY <1>2 DEF CreateSharedMemory, RemoveSharedMemory, RemoveSemaphore, Critical, handles
  <1>3. ASSUME NEW c \in Consumers, OpenSemaphore(c) \/ OpenSharedMemory(c)
        PROVE  SemInv'
    BY <1>3 DEF OpenSemaphore, OpenSharedMemory, Critical, names
  <1>4. ASSUME NEW p \in Procs, Lock(p)
        PROVE  SemInv'
    <2>1. semOf[p] \in Producers
      BY <1>4 DEF Lock, Handles, Attached
    <2>2. sem[semOf[p]] = 1
      BY <1>4, <2>1 DEF Lock, LockFree
    <2>3. sem' = [sem EXCEPT ![semOf[p]] = 0]
      BY <1>4, <2>2 DEF Lock
    <2>4. Section[pc[p]] # "create_sem"
      BY <1>4 DEF Lock, Section
    <2> QED
      BY <1>4, <2>1, <2>2, <2>3, <2>4 DEF Lock, names, handles
  <1>5. ASSUME NEW p \in Procs, Leave(p)
        PROVE  SemInv'
    <2>1. semOf[p] \in Producers /\ sem[semOf[p]] = 0
      BY <1>5, InsideSegment DEF Leave
    <2>2. sem' = [sem EXCEPT ![semOf[p]] = 1]
      BY <1>5, <2>1 DEF Leave, Unlock
    <2>3. PICK w \in Outside : Goto(p, w)
      BY <1>5 DEF Leave
    <2>4. w \notin Critical /\ w # "create_sem"
      BY DEF Outside, Section, Critical
    <2> QED
      BY <1>5, <2>1, <2>2, <2>3, <2>4 DEF Leave, names, handles
  <1>6. ASSUME NEW p \in Procs, Quit(p)
        PROVE  SemInv'
    BY <1>6 DEF Quit, names, handles, Critical
  <1>7. CASE UNCHANGED vars
    BY <1>7 DEF vars
  <1> QED
    BY <1>1, <1>2, <1>3, <1>4, <1>5, <1>6, <1>7, StepShapes

LEMMA NameInvStep ==
    ASSUME SystemV PROVE TypeInv /\ SemInv /\ NameInv /\ [Next]_vars => NameInv'
  <1> SUFFICES ASSUME TypeInv, SemInv, NameInv, [Next]_vars PROVE NameInv'
    OBVIOUS
  <1> USE ProcessesAssumption
      DEF NameInv, TypeInv, TypeOK, PcOK, ObjectsOK, Procs, Goto, CreatedSemaphore, Attached
  <1>1. ASSUME NEW p \in Producers, CreateSemaphore(p)
        PROVE  NameInv'
    BY <1>1 DEF CreateSemaphore, NoSemaphore, SemInv, Critical, Section, Handles
  <1>2. ASSUME NEW p \in Producers, CreateSharedMemory(p)
        PROVE  NameInv'
    BY <1>2 DEF CreateSharedMemory, Critical, Section, Handles
  <1>3. ASSUME NEW p \in Producers, RemoveSharedMemory(p)
        PROVE  NameInv'
    BY <1>3, SystemV DEF RemoveSharedMemory, Removes, Critical, Section, handles
  <1>4. ASSUME NEW p \in Producers, RemoveSemaphore(p)
        PROVE  NameInv'
    <2>1. pc' = [pc EXCEPT ![p] = "exited"] /\ UNCHANGED <<shmName, semOf, shmOf>>
      BY <1>4 DEF RemoveSemaphore, handles
    <2>2. semName' = semName \/ (semName = p /\ semName' = None)
      BY <1>4, SystemV DEF RemoveSemaphore, Removes
    <2>3. pc[p] = "remove_sem" /\ shmName # p
      BY <1>4 DEF RemoveSemaphore
    <2>4. "exited" \notin Critical \cup DOMAIN Section
      BY DEF Critical, Section
    <2>5. \A q \in Procs : pc'[q] \in Attached => pc'[q] = pc[q] /\ semOf[q] # None
      BY <2>1, <2>4 DEF Handles
    <2> QED
      BY <2>1, <2>2, <2>3, <2>4, <2>5
  <1>5. ASSUME NEW c \in Consumers, OpenSemaphore(c)
        PROVE  NameInv'
    BY <1>5 DEF OpenSemaphore, Critical, Section, names, Handles
  <1>6. ASSUME NEW c \in Consumers, OpenSharedMemory(c)
        PROVE  NameInv'
    BY <1>6 DEF OpenSharedMemory, Critical, Section, names
  <1>7. ASSUME NEW p \in Procs, Lock(p)
        PROVE  NameInv'
    <2>1. Section[pc[p]] \notin {"create_sem", "create_shm", "remove_sem"}
      BY <1>7 DEF Lock, Section
    <2>2. CreatedSemaphore(shmOf[p]) => semOf[p] = shmOf[p]
      BY <1>7, SystemV DEF Lock, SemaphoreUsable
    <2> QED
      BY <1>7, <2>1, <2>2 DEF Lock, names, handles
  <1>8. ASSUME NEW p \in Procs, Leave(p)
        PROVE  NameInv'
    <2>1. PICK w \in Outside : Goto(p, w)
      BY <1>8 DEF Leave
    <2>2. w \notin {"create_sem", "create_shm", "remove_sem"}
      BY DEF Outside, Section
    <2>3. CreatedSemaphore(shmOf[p]) => semOf[p] = shmOf[p]
      BY <1>8 DEF Leave, Critical
    <2> QED
      BY <1>8, <2>1, <2>2, <2>3 DEF Leave, names, handles
  <1>9. ASSUME NEW p \in Procs, Quit(p)
        PROVE  NameInv'
    BY <1>9 DEF Quit, names, handles, Critical, Section
  <1>10. CASE UNCHANGED vars
    BY <1>10 DEF vars
  <1> QED
    BY <1>1, <1>2, <1>3, <1>4, <1>5, <1>6, <1>7, <1>8, <1>9, <1>10, StepShapes

\* In System V, and in POSIX as long as the producer is not run again, two
\* processes are never inside a critical section on the same segment, with any
\* number of processes and crashes.
THEOREM SemaphoreProtectsSegment ==
    ASSUME SystemV \/ \A p, q \in Producers : p = q
    PROVE  Spec => []MutualExclusion
  <1>1. CASE SystemV
    <2>1. TypeInv /\ SemInv /\ NameInv => MutualExclusion
      BY DEF TypeInv, Handles, SemInv, NameInv, MutualExclusion, Attached, Critical
    <2>2. TypeInv /\ SemInv /\ NameInv /\ [Next]_vars => NameInv'
      BY <1>1, NameInvStep
    <2> QED
      BY <2>1, <2>2, InitType, InitMutex, TypeStep, SemInvStep, PTL DEF Spec
  <1>2. CASE \A p, q \in Producers : p = q
    <2>1. TypeInv /\ SemInv => MutualExclusion
      <3> SUFFICES ASSUME TypeInv, SemInv, NEW p \in Procs, NEW q \in Procs, p # q,
                          pc[p] \in Critical, pc[q] \in Critical
                   PROVE  FALSE
        BY DEF MutualExclusion
      <3>1. semOf[p] \in Producers /\ semOf[q] \in Producers
        BY InsideSegment
      <3> QED
        BY <1>2, <3>1 DEF SemInv
    <2> QED
      BY <2>1, InitType, InitMutex, TypeStep, SemInvStep, PTL DEF Spec
  <1> QED
    BY <1>1, <1>2

-----------------------------------------------------------------------------
(* A block is taken by one consumer.  Blocks that are not READY lie below  *)
(* free_offset of an initialised segment, so that neither initialising the *)
(* header nor appending touches them.                                      *)

Starting == {"create_sem", "create_shm", "lock_init", "init"}

TakenInv ==
    /\ \A m \in Producers, o \in Offsets : block[m][o].state # "READY" =>
          header[m].ready /\ o < header[m].free
    /\ \A m \in Producers : pc[m] \in Starting => ~header[m].ready
    /\ TakenByOne

\* A step that leaves ready and the state of every block below free_offset alone.
Quiet ==
    /\ \A m \in Producers, o \in Offsets :
          \/ block'[m][o].state = block[m][o].state
          \/ block'[m][o].state = "READY" /\ ~(o < header[m].free)
    /\ \A m \in Producers :
          header'[m].ready = header[m].ready /\ header[m].free <= header'[m].free
    /\ UNCHANGED taken
    /\ \A c \in Consumers : Holding(c)' => Holding(c) /\ shmOf'[c] = shmOf[c]
    /\ \A m \in Producers : pc'[m] \in Starting => pc[m] \in Starting

\* What a consumer holds lies in a segment, below its free_offset.
LEMMA HeldBlock ==
    ASSUME TypeInv, TakenInv, NEW c \in Consumers, Holding(c)
    PROVE  /\ shmOf[c] \in Producers /\ taken[c] \in Offsets
           /\ block[shmOf[c]][taken[c]].state = "IN_PROGRESS"
           /\ header[shmOf[c]].ready /\ taken[c] < header[shmOf[c]].free
  <1>1. shmOf[c] \in Producers
    BY DEF TypeInv, Handles, Attached, Section, Critical, Holding, Procs
  <1>2. taken[c] \in Offsets /\ block[shmOf[c]][taken[c]].state = "IN_PROGRESS"
    BY DEF TakenInv, TakenByOne
  <1> QED
    BY <1>1, <1>2 DEF TakenInv

LEMMA QuietStep == TypeInv /\ MemoryOK' /\ TakenInv /\ Quiet => TakenInv'
  <1> SUFFICES ASSUME TypeInv, MemoryOK', TakenInv, Quiet PROVE TakenInv'
    OBVIOUS
  <1>1. TakenByOne'
    <2> SUFFICES ASSUME NEW c \in Consumers, Holding(c)'
                 PROVE  /\ taken'[c] \in Offsets
                        /\ block'[shmOf'[c]][taken'[c]].state = "IN_PROGRESS"
                        /\ \A d \in Consumers \ {c} :
                              Holding(d)' /\ shmOf'[d] = shmOf'[c] => taken'[d] # taken'[c]
      BY DEF TakenByOne
    <2>1. Holding(c) /\ shmOf'[c] = shmOf[c] /\ taken' = taken
      BY DEF Quiet
    <2>2. shmOf[c] \in Producers /\ taken[c] \in Offsets
          /\ block[shmOf[c]][taken[c]].state = "IN_PROGRESS"
          /\ taken[c] < header[shmOf[c]].free
      BY <2>1, HeldBlock
    <2>3. block'[shmOf'[c]][taken'[c]].state = "IN_PROGRESS"
      BY <2>1, <2>2 DEF Quiet
    <2>4. ASSUME NEW d \in Consumers \ {c}, Holding(d)', shmOf'[d] = shmOf'[c]
          PROVE  taken'[d] # taken'[c]
      BY <2>1, <2>4 DEF Quiet, TakenInv, TakenByOne
    <2> QED
      BY <2>1, <2>2, <2>3, <2>4
  <1>2. \A m \in Producers, o \in Offsets : block'[m][o].state # "READY" =>
           header'[m].ready /\ o < header'[m].free
    <2> SUFFICES ASSUME NEW m \in Producers, NEW o \in Offsets,
                        block'[m][o].state # "READY"
                 PROVE  header'[m].ready /\ o < header'[m].free
      OBVIOUS
    <2>1. header[m].ready /\ o < header[m].free /\ header[m].free <= header'[m].free
          /\ header'[m].ready
      BY DEF Quiet, TakenInv
    <2>2. o \in Int /\ header[m].free \in Int /\ header'[m].free \in Int
      BY ConfigAssumption DEF TypeInv, TypeOK, MemoryOK, HeaderType, Offsets, HeaderWords
    <2> QED
      BY <2>1, <2>2
  <1>3. \A m \in Producers : pc'[m] \in Starting => ~header'[m].ready
    BY DEF TakenInv, Quiet
  <1> QED
    BY <1>1, <1>2, <1>3 DEF TakenInv

\* The calls of a producer that are quiet.
LEMMA QuietProducer ==
    ASSUME TypeInv, NEW p \in Producers,
           \/ CreateSemaphore(p) \/ CreateSharedMemory(p) \/ FindSpace(p)
           \/ CheckFinished(p) \/ RemoveSharedMemory(p) \/ RemoveSemaphore(p)
    PROVE  Quiet
  <1> USE ProcessesAssumption DEF Procs
  <1>1. TypeOK
    BY DEF TypeInv
  <1>2. UNCHANGED block /\ UNCHANGED taken
    BY DEF CreateSemaphore, CreateSharedMemory, FindSpace, CheckFinished, RemoveSharedMemory,
           RemoveSemaphore, memory, locals
  <1>3. \A m \in Producers :
           header'[m].ready = header[m].ready /\ header'[m].free = header[m].free
    <2>1. CASE FindSpace(p)
      <3>1. shmOf[p] \in Producers
        BY <2>1, InsideSegment DEF FindSpace, Critical
      <3>2. PICK d : \/ UNCHANGED header
                     \/ header' = [header EXCEPT ![shmOf[p]].done = d]
        BY <2>1 DEF FindSpace
      <3> QED
        BY <1>1, <3>1, <3>2 DEF TypeOK, MemoryOK, HeaderType
    <2>2. CASE ~FindSpace(p)
      BY <2>2 DEF CreateSemaphore, CreateSharedMemory, CheckFinished, RemoveSharedMemory,
           RemoveSemaphore, memory
    <2> QED
      BY <2>1, <2>2
  <1>4. \E w : Goto(p, w) /\ (w \in Starting => pc[p] \in Starting)
    <2>1. CASE CreateSemaphore(p) \/ CreateSharedMemory(p)
      BY <2>1 DEF CreateSemaphore, CreateSharedMemory, Starting
    <2>2. CASE FindSpace(p)
      <3>1. Goto(p, "remove_shm") \/ Goto(p, "lock_check") \/ Goto(p, "lock_append")
        BY <2>2 DEF FindSpace
      <3> QED
        BY <3>1 DEF Starting
    <2>3. CASE CheckFinished(p)
      <3>1. Goto(p, "remove_shm") \/ Goto(p, "lock_check")
        BY <2>3 DEF CheckFinished
      <3> QED
        BY <3>1 DEF Starting
    <2>4. CASE RemoveSharedMemory(p) \/ RemoveSemaphore(p)
      BY <2>4 DEF RemoveSharedMemory, RemoveSemaphore, Starting
    <2> QED
      BY <2>1, <2>2, <2>3, <2>4
  <1>5. \A q \in Procs : q # p => pc'[q] = pc[q]
    BY <1>1, <1>4 DEF Goto, TypeOK, PcOK
  <1>6. \A c \in Consumers : pc'[c] = pc[c] /\ shmOf'[c] = shmOf[c]
    BY <1>1, <1>5 DEF CreateSemaphore, CreateSharedMemory, FindSpace, CheckFinished,
         RemoveSharedMemory, RemoveSemaphore, handles, TypeOK, ObjectsOK
  <1>7. \A m \in Producers : pc'[m] \in Starting => pc[m] \in Starting
    BY <1>1, <1>4, <1>5 DEF Goto, TypeOK, PcOK
  <1>8. \A m \in Producers : header[m].free \in Int
    BY <1>1, ConfigAssumption DEF TypeOK, MemoryOK, HeaderType
  <1> QED
    BY <1>2, <1>3, <1>6, <1>7, <1>8 DEF Quiet, Holding

\* A consumer's header changes are to active_consumers and processed_blocks.
LEMMA ConsumerHeader ==
    ASSUME TypeInv, NEW c \in Consumers, Consumer(c)
    PROVE  \A m \in Producers :
              header'[m].ready = header[m].ready /\ header'[m].free = header[m].free
  <1>1. CASE OpenSemaphore(c) \/ OpenSharedMemory(c)
    BY <1>1 DEF OpenSemaphore, OpenSharedMemory, memory
  <1>2. ASSUME pc[c] \in Critical
        PROVE  \E h : /\ h.ready = header[shmOf[c]].ready /\ h.free = header[shmOf[c]].free
                      /\ UNCHANGED header \/ header' = [header EXCEPT ![shmOf[c]] = h]
    <2>1. shmOf[c] \in Producers /\ header[shmOf[c]] \in HeaderType
      BY <1>2, InsideSegment DEF TypeInv, TypeOK, MemoryOK, Procs
    <2> QED
      BY <1>2, <2>1 DEF Consumer, OpenSemaphore, OpenSharedMemory, Register, TakeBlock,
           TakeNoData, TakeFinished, TakeError, FinishBlock, Unregister, FinishedHeader,
           HeaderType, Critical
  <1>3. CASE pc[c] \in Critical
    <2>1. PICK h : /\ h.ready = header[shmOf[c]].ready /\ h.free = header[shmOf[c]].free
                   /\ UNCHANGED header \/ header' = [header EXCEPT ![shmOf[c]] = h]
      BY <1>2, <1>3
    <2> QED
      BY <2>1 DEF TypeInv, TypeOK, MemoryOK
  <1> QED
    BY <1>1, <1>3 DEF Consumer, Register, TakeBlock, TakeNoData, TakeFinished, TakeError,
         FinishBlock, Critical

\* Where each call of a consumer leads.
LEMMA ConsumerGoes ==
    ASSUME TypeInv, NEW c \in Consumers, Consumer(c)
    PROVE  /\ \E w \in ConsumerPC : Goto(c, w) /\ (w \in {"lock_finish", "finish"} => TakeBlock(c))
           /\ \A m \in Producers : pc'[m] = pc[m]
           /\ \A d \in Consumers \ {c} : pc'[d] = pc[d] /\ shmOf'[d] = shmOf[d]
  <1>1. \E w \in ConsumerPC : Goto(c, w) /\ (w \in {"lock_finish", "finish"} => TakeBlock(c))
    <2>1. ASSUME ~TakeBlock(c)
          PROVE  \/ Goto(c, "open_shm") \/ Goto(c, "exited") \/ Goto(c, "lock_register")
                 \/ Goto(c, "lock_take")
      BY <2>1 DEF Consumer, OpenSemaphore, OpenSharedMemory, Register, TakeNoData,
           TakeFinished, TakeError, FinishBlock
    <2>2. ASSUME TakeBlock(c)
          PROVE  Goto(c, "lock_finish") \/ Goto(c, "exited")
      BY <2>2 DEF TakeBlock
    <2> QED
      BY <2>1, <2>2 DEF ConsumerPC, Registered
  <1>2. \A p \in Procs : p # c => pc'[p] = pc[p]
    BY <1>1 DEF Goto, TypeInv, TypeOK, PcOK
  <1>3. \A d \in Consumers \ {c} : shmOf'[d] = shmOf[d]
    BY DEF Consumer, OpenSemaphore, OpenSharedMemory, Register, TakeBlock, TakeNoData,
         TakeFinished, TakeError, FinishBlock, handles, TypeInv, TypeOK, ObjectsOK, Procs
  <1> QED
    BY <1>1, <1>2, <1>3, ProcessesAssumption DEF Procs

\* The calls of a consumer that are quiet.
LEMMA QuietConsumer ==
    ASSUME TypeInv, NEW c \in Consumers, Consumer(c), ~TakeBlock(c), ~FinishBlock(c)
    PROVE  Quiet
  <1>1. UNCHANGED block /\ UNCHANGED taken
    BY DEF Consumer, OpenSemaphore, OpenSharedMemory, Register, TakeNoData, TakeFinished,
         TakeError, memory, locals
  <1>2. ~Holding(c)'
    <2>1. PICK w \in ConsumerPC : Goto(c, w) /\ w \notin {"lock_finish", "finish"}
      BY ConsumerGoes
    <2> QED
      BY <2>1 DEF Holding, Goto, TypeInv, TypeOK, PcOK, Procs
  <1>3. \A d \in Consumers : Holding(d)' => Holding(d) /\ shmOf'[d] = shmOf[d]
    BY <1>2, ConsumerGoes DEF Holding
  <1>4. \A m \in Producers : header[m].free \in Int
    BY ConfigAssumption DEF TypeInv, TypeOK, MemoryOK, HeaderType
  <1> QED
    BY <1>1, <1>3, <1>4, ConsumerHeader, ConsumerGoes DEF Quiet

\* Waiting for the lock and getting it is quiet, and so is any step of a process
\* that only moves to another place and writes nothing.
LEMMA QuietLock ==
    ASSUME TypeInv, NEW p \in Procs, Lock(p) \/ LockFails(p)
    PROVE  Quiet
  <1>1. UNCHANGED <<memory, locals, handles>>
    BY DEF Lock, LockFails
  <1>2. \A q \in Procs : q # p => pc'[q] = pc[q]
    BY DEF Lock, LockFails, Goto, TypeInv, TypeOK, PcOK
  <1>3. \/ pc'[p] = Section[pc[p]] /\ pc[p] \in DOMAIN Section
        \/ pc'[p] \in {"remove_shm", "exited"}
    BY DEF Lock, LockFails, Goto, TypeInv, TypeOK, PcOK
  <1>4. pc'[p] \in {"lock_finish", "finish"} => pc[p] = "lock_finish"
    BY <1>3 DEF Section
  <1>5. pc'[p] \in Starting => pc[p] \in Starting
    BY <1>3 DEF Section, Starting
  <1>6. \A m \in Producers : header[m].free \in Int
    BY ConfigAssumption DEF TypeInv, TypeOK, MemoryOK, HeaderType
  <1> QED
    BY <1>1, <1>2, <1>4, <1>5, <1>6 DEF Quiet, Holding, memory, locals, handles, Procs

\* The stores of an append, complete or not, leave every earlier block in its
\* state and free_offset where it is or further.
LEMMA AppendIsQuiet ==
    ASSUME TypeInv, NEW m \in Producers, NEW last, NEW length \in 1 .. MaxLength,
           NEW k \in 0 .. 3, CanAppend(m, length), AppendStores(m, last, length, k)
    PROVE  /\ \A q \in Producers, o \in Offsets :
                 \/ block'[q][o].state = block[q][o].state
                 \/ block'[q][o].state = "READY" /\ ~(o < header[q].free)
           /\ \A q \in Producers :
                 header'[q].ready = header[q].ready /\ header[q].free <= header'[q].free
  <1>1. header \in [Producers -> HeaderType] /\ block \in [Producers -> [Offsets -> BlockType]]
    BY DEF TypeInv, TypeOK, MemoryOK
  <1>2. header[m].free \in Offsets
    BY FreeOffset DEF CanAppend, TypeInv
  <1>3. \A q \in Producers : header[q].free \in Int
    BY <1>1, ConfigAssumption DEF HeaderType
  <1>4. BlockWords(length) \in Nat
    BY BlockWordsType, ConfigAssumption
  <1>5. ASSUME NEW o \in Offsets
        PROVE  \/ block'[m][o].state = block[m][o].state
               \/ block'[m][o].state = "READY" /\ ~(o < header[m].free)
    <2>1. block'[m] = AppendedBlocks(block[m], header[m].free, last, length, k)
      BY <1>1 DEF AppendStores
    <2>2. CASE o = header[m].free
      BY <1>3, <2>1, <2>2 DEF AppendedBlocks
    <2>3. CASE o # header[m].free
      <3>1. block[m][o] \in BlockType
        BY <1>1
      <3>2. block'[m][o] = block[m][o]
            \/ block'[m][o] = [block[m][o] EXCEPT !.next = header[m].free]
        BY <2>1, <2>3 DEF AppendedBlocks
      <3> QED
        BY <3>1, <3>2 DEF BlockType
    <2> QED
      BY <2>2, <2>3
  <1>6. header'[m].ready = header[m].ready /\ header[m].free <= header'[m].free
    <2>1. header'[m] = AppendedHeader(header[m], last, length, k) /\ header[m] \in HeaderType
      BY <1>1 DEF AppendStores
    <2> QED
      BY <1>3, <1>4, <2>1 DEF AppendedHeader, HeaderType
  <1>7. \A q \in Producers : q # m => block'[q] = block[q] /\ header'[q] = header[q]
    BY <1>1 DEF AppendStores
  <1> QED
    BY <1>3, <1>5, <1>6, <1>7

LEMMA QuietAppend ==
    ASSUME TypeInv, NEW p \in Producers, AppendBlock(p)
    PROVE  Quiet
  <1> DEFINE m == shmOf[p]
  <1>1. m \in Producers
    BY InsideSegment DEF AppendBlock, Critical, Procs
  <1>2. PICK length \in MinLength .. fitting[p] :
           IF CanAppend(m, length)
           THEN /\ \E last \in Offsets \cup {NullOffset} :
                      IsLast(m, last) /\ AppendStores(m, last, length, 3)
                /\ Goto(p, "lock_space")
           ELSE Goto(p, "remove_shm") /\ UNCHANGED memory
    BY DEF AppendBlock
  <1>3. length \in 1 .. MaxLength
    BY ConfigAssumption DEF TypeInv, TypeOK, LocalsOK
  <1>4. \A q \in Producers : header[q].free \in Int
    BY ConfigAssumption DEF TypeInv, TypeOK, MemoryOK, HeaderType
  <1>5. /\ \A q \in Producers, o \in Offsets :
              \/ block'[q][o].state = block[q][o].state
              \/ block'[q][o].state = "READY" /\ ~(o < header[q].free)
        /\ \A q \in Producers :
              header'[q].ready = header[q].ready /\ header[q].free <= header'[q].free
    <2>1. CASE CanAppend(m, length)
      <3>1. PICK last : AppendStores(m, last, length, 3)
        BY <1>2, <2>1
      <3> HIDE DEF m
      <3> QED
        BY <1>1, <1>3, <2>1, <3>1, AppendIsQuiet
    <2>2. CASE ~CanAppend(m, length)
      BY <1>2, <1>4, <2>2 DEF memory
    <2> QED
      BY <2>1, <2>2
  <1>6. Goto(p, "lock_space") \/ Goto(p, "remove_shm")
    BY <1>2
  <1>7. /\ \A q \in Procs : q # p => pc'[q] = pc[q]
        /\ pc'[p] \notin Starting
    BY <1>6 DEF Goto, Starting, TypeInv, TypeOK, PcOK, Procs
  <1>8. UNCHANGED taken /\ UNCHANGED shmOf
    BY DEF AppendBlock, locals, handles
  <1> HIDE DEF m
  <1> QED
    BY <1>5, <1>7, <1>8, ProcessesAssumption DEF Quiet, Holding, Procs

\* Initialising the header finds a segment without blocks.
LEMMA TakenInitialize ==
    ASSUME TypeInv, MemoryOK', TakenInv, NEW p \in Producers, InitializeHeader(p)
    PROVE  TakenInv'
  <1>1. pc[p] = "init" /\ Goto(p, "lock_space") /\ UNCHANGED <<block, taken, shmOf>>
    BY DEF InitializeHeader, locals, handles
  <1>2. \A q \in Procs : q # p => pc'[q] = pc[q]
    BY <1>1 DEF Goto, TypeInv, TypeOK, PcOK
  <1>3. pc'[p] \notin Starting
    BY <1>1 DEF Goto, Starting, TypeInv, TypeOK, PcOK, Procs
  <1>4. \A q \in Producers : q # p => header'[q] = header[q]
    BY DEF InitializeHeader, TypeInv, TypeOK, MemoryOK
  <1>5. \A o \in Offsets : block[p][o].state = "READY"
    BY <1>1 DEF TakenInv, Starting
  <1>6. \A c \in Consumers : Holding(c)' = Holding(c)
    BY <1>2, ProcessesAssumption DEF Holding, Procs
  <1>7. TakenByOne'
    BY <1>1, <1>6 DEF TakenInv, TakenByOne
  <1>8. \A m \in Producers, o \in Offsets : block'[m][o].state # "READY" =>
           header'[m].ready /\ o < header'[m].free
    BY <1>1, <1>4, <1>5 DEF TakenInv
  <1>9. \A m \in Producers : pc'[m] \in Starting => ~header'[m].ready
    BY <1>2, <1>3, <1>4 DEF TakenInv, Procs
  <1> QED
    BY <1>7, <1>8, <1>9 DEF TakenInv

\* The block a consumer takes was READY, so nobody held it.
LEMMA TakenTake ==
    ASSUME TypeInv, MemoryOK', TakenInv, NEW c \in Consumers, TakeBlock(c)
    PROVE  TakenInv'
  <1> DEFINE m == shmOf[c]
  <1>1. m \in Producers /\ pc[c] = "take" /\ HeaderValid(m)
    BY InsideSegment DEF TakeBlock, Critical, Procs
  <1>2. PICK n \in 0 .. header[m].published :
           /\ TakesAt(m, n)
           /\ block' = [block EXCEPT ![m][Walk(m)[n]].state = "IN_PROGRESS"]
           /\ taken' = [taken EXCEPT ![c] = Walk(m)[n]]
    BY DEF TakeBlock
  <1> DEFINE o == Walk(m)[n]
  <1>3. BlockValid(m, o) /\ block[m][o].state = "READY"
    BY <1>1, <1>2 DEF TakesAt, WalkIntact, IsReady, TypeInv, TypeOK, MemoryOK, HeaderType
  <1>4. block' = [block EXCEPT ![m][o].state = "IN_PROGRESS"] /\ taken' = [taken EXCEPT ![c] = o]
    BY <1>2
  <1> HIDE DEF m, o
  <1>5. header[m].free \in Int
    BY <1>1, ConfigAssumption DEF TypeInv, TypeOK, MemoryOK, HeaderType
  <1>6. o \in Offsets /\ o < header[m].free
    BY <1>3, <1>5 DEF BlockValid, Offsets, BareBlockWords, HeaderWords
  <1>7. header[m].ready
    BY <1>1 DEF HeaderValid
  <1>8. /\ block'[m][o].state = "IN_PROGRESS"
        /\ \A q \in Producers, r \in Offsets :
              ~(q = m /\ r = o) => block'[q][r] = block[q][r]
    BY <1>1, <1>4, <1>6 DEF TypeInv, TypeOK, MemoryOK, BlockType
  <1>9. Consumer(c)
    BY DEF Consumer
  <1>10. /\ taken'[c] = o
         /\ \A d \in Consumers \ {c} : /\ taken'[d] = taken[d] /\ shmOf'[d] = shmOf[d]
                                       /\ Holding(d)' = Holding(d)
    BY <1>4, <1>9, ConsumerGoes DEF TypeInv, TypeOK, LocalsOK, Holding
  <1>11. shmOf'[c] = m
    BY DEF TakeBlock, handles, m
  <1>12. \A d \in Consumers \ {c} : Holding(d) /\ shmOf[d] = m => taken[d] # o
    BY <1>3 DEF TakenInv, TakenByOne
  <1>13. TakenByOne'
    <2>1. ASSUME NEW d \in Consumers \ {c}, Holding(d)
          PROVE  /\ taken[d] \in Offsets /\ shmOf[d] \in Producers
                 /\ block'[shmOf[d]][taken[d]].state = "IN_PROGRESS"
      BY <1>8, <1>12, <2>1, HeldBlock
    <2> QED
      BY <1>6, <1>8, <1>10, <1>11, <1>12, <2>1 DEF TakenInv, TakenByOne
  <1>14. /\ \A q \in Producers, r \in Offsets : block'[q][r].state # "READY" =>
               header'[q].ready /\ r < header'[q].free
         /\ \A q \in Producers : pc'[q] \in Starting => ~header'[q].ready
    BY <1>1, <1>6, <1>7, <1>8, <1>9, ConsumerHeader, ConsumerGoes DEF TakenInv
  <1> QED
    BY <1>13, <1>14 DEF TakenInv

\* A consumer that writes to the block it holds and holds it no longer disturbs
\* nobody: the others hold different blocks.
Ending(c) ==
    /\ Holding(c) /\ ~Holding(c)'
    /\ \A m \in Producers, o \in Offsets :
          ~(m = shmOf[c] /\ o = taken[c]) => block'[m][o] = block[m][o]
    /\ \A m \in Producers :
          header'[m].ready = header[m].ready /\ header'[m].free = header[m].free
    /\ \A d \in Consumers \ {c} : /\ taken'[d] = taken[d] /\ shmOf'[d] = shmOf[d]
                                  /\ Holding(d)' = Holding(d)
    /\ \A m \in Producers : pc'[m] = pc[m]

LEMMA TakenEnding ==
    ASSUME TypeInv, TakenInv, NEW c \in Consumers, Ending(c)
    PROVE  TakenInv'
  <1>1. shmOf[c] \in Producers /\ taken[c] \in Offsets
        /\ header[shmOf[c]].ready /\ taken[c] < header[shmOf[c]].free
    BY HeldBlock DEF Ending
  <1>2. ASSUME NEW d \in Consumers \ {c}, Holding(d)
        PROVE  /\ taken[d] \in Offsets /\ shmOf[d] \in Producers
               /\ block[shmOf[d]][taken[d]].state = "IN_PROGRESS"
               /\ ~(shmOf[d] = shmOf[c] /\ taken[d] = taken[c])
    BY <1>2, HeldBlock DEF Ending, TakenInv, TakenByOne
  <1>3. TakenByOne'
    BY <1>2 DEF Ending, TakenInv, TakenByOne
  <1>4. \A m \in Producers, o \in Offsets : block'[m][o].state # "READY" =>
           header'[m].ready /\ o < header'[m].free
    BY <1>1 DEF Ending, TakenInv
  <1>5. \A m \in Producers : pc'[m] \in Starting => ~header'[m].ready
    BY DEF Ending, TakenInv
  <1> QED
    BY <1>3, <1>4, <1>5 DEF TakenInv

LEMMA FinishIsEnding ==
    ASSUME TypeInv, NEW c \in Consumers, FinishBlock(c)
    PROVE  Ending(c)
  <1>1. Consumer(c) /\ ~TakeBlock(c) /\ pc[c] = "finish"
    BY DEF Consumer, FinishBlock, TakeBlock
  <1>2. ~Holding(c)'
    <2>1. PICK w \in ConsumerPC : Goto(c, w) /\ w \notin {"lock_finish", "finish"}
      BY <1>1, ConsumerGoes
    <2> QED
      BY <2>1 DEF Holding, Goto, TypeInv, TypeOK, PcOK, Procs
  <1>3. \/ UNCHANGED <<block, taken>>
        \/ /\ \E b : block' = [block EXCEPT ![shmOf[c]][taken[c]] = b]
           /\ taken' = [taken EXCEPT ![c] = NullOffset]
    BY DEF FinishBlock
  <1>4. \A m \in Producers, o \in Offsets :
           ~(m = shmOf[c] /\ o = taken[c]) => block'[m][o] = block[m][o]
    <2>1. CASE UNCHANGED block
      BY <2>1
    <2>2. CASE \E b : block' = [block EXCEPT ![shmOf[c]][taken[c]] = b]
      <3>1. PICK b : block' = [block EXCEPT ![shmOf[c]][taken[c]] = b]
        BY <2>2
      <3> QED
        BY <3>1 DEF TypeInv, TypeOK, MemoryOK
    <2> QED
      BY <1>3, <2>1, <2>2
  <1>5. \A d \in Consumers \ {c} : taken'[d] = taken[d]
    BY <1>3 DEF TypeInv, TypeOK, LocalsOK
  <1> QED
    BY <1>1, <1>2, <1>4, <1>5, ConsumerHeader, ConsumerGoes DEF Ending, Holding

\* A crash, wherever it cuts a critical section.
LEMMA TakenCrash ==
    ASSUME TypeInv, MemoryOK', TakenInv, NEW p \in Procs, Crash(p)
    PROVE  TakenInv'
  <1> DEFINE m == shmOf[p]
  <1>1. LosesStores(p) /\ Goto(p, "crashed") /\ UNCHANGED <<taken, shmOf>>
    BY DEF Crash, handles, locals
  <1>2. (\A q \in Procs : q # p => pc'[q] = pc[q]) /\ pc'[p] = "crashed"
    BY <1>1 DEF Goto, TypeInv, TypeOK, PcOK
  <1>3. /\ \A c \in Consumers : Holding(c)' => Holding(c)
        /\ \A c \in Consumers : c # p => Holding(c)' = Holding(c)
        /\ ~Holding(p)'
        /\ \A q \in Producers : pc'[q] \in Starting => pc[q] \in Starting
    BY <1>2 DEF Holding, Starting, Procs
  <1>4. \A q \in Producers : header[q].free \in Int
    BY ConfigAssumption DEF TypeInv, TypeOK, MemoryOK, HeaderType
  <1>5. CASE pc[p] = "append"
    <2>1. m \in Producers /\ p \in Producers
      BY <1>5, InsideSegment, WhoIsWhere DEF Critical, TypeInv, TypeOK
    <2>2. PICK k \in 0 .. 2, length \in MinLength .. fitting[p],
               last \in Offsets \cup {NullOffset} :
             CanAppend(m, length) /\ IsLast(m, last) /\ AppendStores(m, last, length, k)
      BY <1>1, <1>5 DEF LosesStores
    <2>3. length \in 1 .. MaxLength /\ k \in 0 .. 3
      BY <2>1, ConfigAssumption DEF TypeInv, TypeOK, LocalsOK
    <2> HIDE DEF m
    <2>4. Quiet
      BY <1>1, <1>3, <2>1, <2>2, <2>3, AppendIsQuiet DEF Quiet
    <2> QED
      BY <2>4, QuietStep
  <1>6. CASE pc[p] = "finish" /\ CanFinish(m, taken[p])
    <2>1. p \in Consumers
      BY <1>6, WhoIsWhere DEF Critical, TypeInv, TypeOK
    <2>2. UNCHANGED header /\ \E b : block' = [block EXCEPT ![m][taken[p]] = b]
      BY <1>1, <1>6 DEF LosesStores
    <2>3. \A q \in Producers, o \in Offsets :
             ~(q = shmOf[p] /\ o = taken[p]) => block'[q][o] = block[q][o]
      BY <2>2 DEF TypeInv, TypeOK, MemoryOK
    <2>4. \A q \in Producers : pc'[q] = pc[q]
      BY <1>2, <2>1, ProcessesAssumption DEF Procs
    <2>5. Ending(p)
      BY <1>1, <1>3, <1>6, <2>1, <2>2, <2>3, <2>4 DEF Ending, Holding
    <2> QED
      BY <2>1, <2>5, TakenEnding
  <1>7. CASE pc[p] # "append" /\ ~(pc[p] = "finish" /\ CanFinish(m, taken[p]))
    <2>1. UNCHANGED memory
      BY <1>1, <1>7 DEF LosesStores
    <2>2. Quiet
      BY <1>1, <1>3, <1>4, <2>1 DEF Quiet, memory
    <2> QED
      BY <2>2, QuietStep
  <1> QED
    BY <1>5, <1>6, <1>7

LEMMA TakenStep == TypeInv /\ TakenInv /\ [Next]_vars => TakenInv'
  <1> SUFFICES ASSUME TypeInv, TakenInv, [Next]_vars PROVE TakenInv'
    OBVIOUS
  <1>1. MemoryOK'
    BY MemoryStep
  <1>2. ASSUME NEW p \in Producers, Producer(p)
        PROVE  TakenInv'
    BY <1>1, <1>2, TakenInitialize, QuietProducer, QuietAppend, QuietStep DEF Producer
  <1>3. ASSUME NEW c \in Consumers, Consumer(c)
        PROVE  TakenInv'
    BY <1>1, <1>3, TakenTake, FinishIsEnding, TakenEnding, QuietConsumer, QuietStep
  <1>4. ASSUME NEW p \in Procs, Lock(p) \/ LockFails(p)
        PROVE  TakenInv'
    BY <1>1, <1>4, QuietLock, QuietStep
  <1>5. ASSUME NEW p \in Procs, Crash(p)
        PROVE  TakenInv'
    BY <1>1, <1>5, TakenCrash
  <1>6. CASE UNCHANGED vars
    BY <1>6 DEF vars, TakenInv, TakenByOne, Holding
  <1> QED
    BY <1>2, <1>3, <1>4, <1>5, <1>6 DEF Next, AllGone

\* A block is never computed on by two consumers, and stays IN_PROGRESS in the
\* segment for as long as its consumer holds it: for any number of processes,
\* in both programs, across crashes and restarts.
THEOREM TakenOnce == Spec => []TakenByOne
  <1>1. Init => TakenInv
    BY ProcessesAssumption DEF Init, TakenInv, TakenByOne, Holding, Starting, ZeroHeader,
       ZeroBlock, Procs
  <1>2. TakenInv => TakenByOne
    BY DEF TakenInv
  <1> QED
    BY <1>1, <1>2, InitType, TypeStep, TakenStep, PTL DEF Spec

-----------------------------------------------------------------------------
(* Producers keep out of each other's way.  The name of an object stands    *)
(* for it from its creation to its creator's cleanup: creation waits for    *)
(* the name to be free, and whoever removes by name has created what the    *)
(* name stands for.                                                         *)

OwnInv ==
    /\ \A p \in Producers :
          shmOf[p] = p /\ pc[p] \notin {"remove_sem", "exited", "crashed"} => shmName = p
    /\ \A p \in Producers :
          semOf[p] = p /\ pc[p] \notin {"exited", "crashed"} => semName = p

LEMMA OwnStep == TypeInv /\ OwnInv /\ [Next]_vars => OwnInv'
  <1> SUFFICES ASSUME TypeInv, OwnInv, [Next]_vars PROVE OwnInv'
    OBVIOUS
  <1> USE ProcessesAssumption DEF OwnInv, TypeInv, TypeOK, PcOK, ObjectsOK, Procs, Goto
  <1>1. ASSUME NEW p \in Producers, CreateSemaphore(p)
        PROVE  OwnInv'
    BY <1>1 DEF CreateSemaphore, NoSemaphore
  <1>2. ASSUME NEW p \in Producers, CreateSharedMemory(p)
        PROVE  OwnInv'
    BY <1>2 DEF CreateSharedMemory
  <1>3. ASSUME NEW p \in Producers, RemoveSharedMemory(p)
        PROVE  OwnInv'
    BY <1>3 DEF RemoveSharedMemory, Removes, handles
  <1>4. ASSUME NEW p \in Producers, RemoveSemaphore(p)
        PROVE  OwnInv'
    BY <1>4 DEF RemoveSemaphore, Removes, handles
  <1>5. ASSUME NEW c \in Consumers, OpenSemaphore(c) \/ OpenSharedMemory(c)
        PROVE  OwnInv'
    BY <1>5 DEF OpenSemaphore, OpenSharedMemory, names
  <1>6. ASSUME NEW p \in Procs, Lock(p) \/ Leave(p)
        PROVE  OwnInv'
    <2>1. pc[p] \notin {"remove_sem", "exited", "crashed"} /\ UNCHANGED <<names, handles>>
      BY <1>6 DEF Lock, Leave, Section, Critical
    <2>2. PICK w : pc' = [pc EXCEPT ![p] = w]
      BY <1>6 DEF Lock, Leave
    <2> QED
      BY <2>1, <2>2 DEF names, handles
  <1>7. ASSUME NEW p \in Procs, Quit(p)
        PROVE  OwnInv'
    <2>1. CASE Goto(p, "crashed")
      BY <1>7, <2>1 DEF Quit, names, handles
    <2>2. CASE pc[p] \in DOMAIN Section
      <3>1. pc[p] \notin {"remove_sem", "exited", "crashed"} /\ UNCHANGED <<names, handles>>
        BY <1>7, <2>2 DEF Quit, Section
      <3>2. PICK w : pc' = [pc EXCEPT ![p] = w]
        BY <1>7 DEF Quit
      <3> QED
        BY <3>1, <3>2 DEF names, handles
    <2> QED
      BY <1>7, <2>1, <2>2 DEF Quit
  <1>8. CASE UNCHANGED vars
    BY <1>8 DEF vars
  <1> QED
    BY <1>1, <1>2, <1>3, <1>4, <1>5, <1>6, <1>7, <1>8, StepShapes

\* A producer removes the objects it created and no other, and one producer at
\* a time runs the exchange under the two names: for any number of producers,
\* however their starts, ends and deaths overlap.
THEOREM OwnersKeepApart == Spec => []OwnersApart
  <1>1. Init => OwnInv
    BY ProcessesAssumption DEF Init, OwnInv, Procs
  <1>2. TypeInv /\ OwnInv => OwnersApart
    <2> SUFFICES ASSUME TypeInv, OwnInv PROVE OwnersApart
      OBVIOUS
    <2>1. RemovesItsOwn
      BY DEF OwnInv, RemovesItsOwn
    <2>2. \A p \in Producers : Owns(p) => semName = p /\ shmName = p
      BY DEF OwnInv, Owns, TypeInv, Handles, Attached, Section, Critical
    <2> QED
      BY <2>1, <2>2 DEF OwnersApart, OneOwner
  <1> QED
    BY <1>1, <1>2, InitType, TypeStep, OwnStep, PTL DEF Spec
-----------------------------------------------------------------------------
(***************************************************************************)
(* The list in the segments: what its walk visits, what its counters       *)
(* count, and that the exchange implements BlockPool.                      *)
(***************************************************************************)

-----------------------------------------------------------------------------
(* The inductive invariant.                                                *)

\* W is the walk over a list of whole blocks that lie one behind the other
\* below free_offset.
IsChain(h, b, W) ==
    /\ W \in [0 .. h.published -> Offsets \cup {NullOffset}]
    /\ W[0] = h.first
    /\ \A n \in 0 .. h.published - 1 :
          /\ W[n] \in Offsets /\ W[n + 1] = b[W[n]].next
          /\ b[W[n]].original # 0
          /\ W[n] + BlockWords(b[W[n]].original) <= h.free
    /\ \A i, j \in 0 .. h.published - 1 :
          i < j => W[i] + BlockWords(b[W[i]].original) <= W[j]

\* A walk ends where the list does, unless the owner died between two stores.
ChainInv ==
    \A m \in Producers :
       /\ IsChain(header[m], block[m], Walk(m))
       /\ pc[m] # "crashed" => Walk(m)[header[m].published] = NullOffset
       /\ ~header[m].ready => header[m].published = 0
       /\ header[m].ready => header[m].free >= HeaderWords /\ header[m].free % 2 = 0

\* The calls a producer makes on an initialised segment.
Working == {"lock_space", "space", "lock_append", "append", "lock_check", "check"}

PhaseOf(p) ==
    /\ pc[p] \in Starting \cup {"lock_space", "space", "lock_append", "append"} =>
          ~header[p].done
    /\ pc[p] \in Working => header[p].ready
    /\ pc[p] \in {"lock_append", "append"} => Fits(p, fitting[p]) /\ fitting[p] >= MinLength
    /\ pc[p] \in {"lock_check", "check"} => header[p].done
    /\ result[p] = 0 => pc[p] \in {"remove_shm", "remove_sem", "exited", "crashed"}

PhaseInv ==
    /\ \A p \in Producers : PhaseOf(p)
    /\ \A c \in Consumers : pc[c] \in Registered => header[shmOf[c]].ready

\* Where a consumer is that has a block, or had one when it ended.
HasTaken == {"lock_finish", "finish", "exited", "crashed"}

\* taken_offset names a published block of the consumer's own segment, until the
\* block is finished or the consumer is gone, and no two consumers name one block.
HoldInv ==
    /\ \A c \in Consumers : taken[c] # NullOffset =>
          /\ shmOf[c] \in Producers /\ taken[c] \in Published(shmOf[c])
          /\ block[shmOf[c]][taken[c]].state # "READY"
          /\ pc[c] \in HasTaken
    /\ \A c, d \in Consumers :
          c # d /\ taken[c] # NullOffset /\ shmOf[c] = shmOf[d] => taken[c] # taken[d]

ProcessedIn(m) == {o \in Published(m) : block[m][o].state = "PROCESSED"}
RegisteredWith(m) == {c \in Consumers : pc[c] \in Registered /\ shmOf[c] = m}

\* published_blocks counts the list, processed_blocks what is PROCESSED in it; a
\* consumer that is killed before its last store leaves the latter behind.
CountInv ==
    \A m \in Producers :
       /\ IsFiniteSet(Published(m)) /\ header[m].published = Cardinality(Published(m))
       /\ header[m].processed <= Cardinality(ProcessedIn(m))
       /\ crashes = 0 => header[m].processed = Cardinality(ProcessedIn(m))

SuccessInv ==
    \A m \in Producers : result[m] = 0 => header[m].done /\ ProcessedIn(m) = Published(m)

\* A name stands for an object its creator has opened, and nobody is registered
\* with a header that is not initialised.
NamedInv ==
    \A m \in Producers :
       /\ semName = m => CreatedSemaphore(m)
       /\ ~header[m].ready => header[m].active = 0

NobodyCrashed == crashes = 0 => \A p \in Procs : pc[p] # "crashed"

\* Without crashes a block's count is 0 exactly when it is PROCESSED, and the
\* registered consumers of a semaphore that still exists are counted.
UncrashedInv == crashes = 0 =>
    \A m \in Producers :
       /\ \A o \in Published(m) :
             block[m][o].count =
                IF block[m][o].state = "PROCESSED" THEN 0 ELSE block[m][o].original
       /\ (SystemV => semName = m) => header[m].active = Cardinality(RegisteredWith(m))

-----------------------------------------------------------------------------
(* Induction over the natural numbers, for one set at a time.              *)

\* A non-empty set of natural numbers has a least element.
LEMMA LeastNatural ==
    ASSUME NEW S \in SUBSET Nat, S # {}
    PROVE  \E n \in S : \A k \in S : n <= k
  <1> DEFINE R == OpToRel(<, Nat)
  <1>1. IsWellFoundedOn(R, Nat)
    BY NatLessThanWellFounded
  <1>2. R = {pair \in Nat \X Nat : pair[1] < pair[2]}
    BY Zenon DEF OpToRel
  <1> HIDE DEF R
  <1>3. PICK n \in S : \A k \in S : <<k, n>> \notin R
    BY <1>1, WFMin
  <1>4. ASSUME NEW k \in S PROVE n <= k
    <2>1. n \in Nat /\ k \in Nat
      OBVIOUS
    <2>2. <<k, n>> \notin {pair \in Nat \X Nat : pair[1] < pair[2]}
      BY <1>2, <1>3, Zenon
    <2> QED
      BY <2>1, <2>2, SMT
  <1> QED
    BY <1>4

\* A set that holds 0 and the successors of its elements holds every number.
LEMMA InductiveSet ==
    ASSUME NEW S \in SUBSET Nat, 0 \in S, \A n \in S : n + 1 \in S
    PROVE  S = Nat
  <1> SUFFICES ASSUME Nat \ S # {} PROVE FALSE
    OBVIOUS
  <1>1. PICK n \in Nat \ S : \A k \in Nat \ S : n <= k
    BY LeastNatural, Nat \ S \in SUBSET Nat, Zenon
  <1>2. n # 0
    OBVIOUS
  <1>3. n - 1 \in Nat /\ n - 1 \notin Nat \ S
    BY <1>1, <1>2
  <1> QED
    BY <1>3

-----------------------------------------------------------------------------
(* The walk.                                                               *)

\* The equation that defines Walk, for a header h and blocks b.
IsWalk(h, b, W) ==
    W = [n \in 0 .. h.published |->
            IF n = 0 THEN h.first
            ELSE IF W[n - 1] \in Offsets THEN b[W[n - 1]].next
            ELSE NullOffset]

\* The equation has one solution at most.
LEMMA OneWalk ==
    ASSUME NEW h, NEW b, NEW V, NEW W, h.published \in Nat,
           IsWalk(h, b, V), IsWalk(h, b, W)
    PROVE  V = W
  <1> DEFINE N == h.published
             S == {n \in Nat : n <= N => V[n] = W[n]}
  <1>1. 0 \in S
    BY DEF IsWalk
  <1>2. ASSUME NEW n \in S PROVE n + 1 \in S
    <2> SUFFICES ASSUME n + 1 <= N PROVE V[n + 1] = W[n + 1]
      OBVIOUS
    <2>1. n + 1 \in 0 .. N /\ n + 1 # 0 /\ (n + 1) - 1 = n
      OBVIOUS
    <2>2. V[n] = W[n]
      OBVIOUS
    <2> HIDE DEF N, S
    <2>3. V[n + 1] = IF V[n] \in Offsets THEN b[V[n]].next ELSE NullOffset
      BY <2>1 DEF IsWalk, N
    <2>4. W[n + 1] = IF W[n] \in Offsets THEN b[W[n]].next ELSE NullOffset
      BY <2>1 DEF IsWalk, N
    <2> QED
      BY <2>2, <2>3, <2>4
  <1>3. S = Nat
    <2> HIDE DEF S
    <2>1. S \in SUBSET Nat
      BY DEF S
    <2> QED
      BY <1>1, <1>2, <2>1, InductiveSet
  <1>4. \A n \in 0 .. N : V[n] = W[n]
    BY <1>3
  <1>5. V = [n \in 0 .. N |-> V[n]] /\ W = [n \in 0 .. N |-> W[n]]
    BY DEF IsWalk
  <1> QED
    BY <1>4, <1>5

\* A chain is a walk.
LEMMA ChainIsWalk ==
    ASSUME NEW h, NEW b, NEW W, h.published \in Nat, IsChain(h, b, W)
    PROVE  IsWalk(h, b, W)
  <1>1. ASSUME NEW n \in 0 .. h.published, n # 0
        PROVE  W[n] = IF W[n - 1] \in Offsets THEN b[W[n - 1]].next ELSE NullOffset
    <2>1. n - 1 \in 0 .. h.published - 1 /\ (n - 1) + 1 = n
      BY <1>1
    <2> QED
      BY <2>1 DEF IsChain
  <1>2. W = [n \in 0 .. h.published |-> W[n]] /\ W[0] = h.first
    BY DEF IsChain
  <1> QED
    BY <1>1, <1>2 DEF IsWalk

\* Walk finds the chain.
LEMMA WalkIsChain ==
    ASSUME NEW m, NEW W, header[m].published \in Nat, IsChain(header[m], block[m], W)
    PROVE  Walk(m) = W
  <1>1. Walk(m) = CHOOSE V : IsWalk(header[m], block[m], V)
    BY DEF Walk, IsWalk
  <1>2. IsWalk(header[m], block[m], W)
    BY ChainIsWalk
  <1>3. IsWalk(header[m], block[m], CHOOSE V : IsWalk(header[m], block[m], V))
    BY <1>2, Zenon
  <1> QED
    BY <1>1, <1>2, <1>3, OneWalk

LEMMA NextWalkIsChain ==
    ASSUME NEW m, NEW W, header'[m].published \in Nat, IsChain(header'[m], block'[m], W)
    PROVE  Walk(m)' = W
  <1>1. Walk(m)' = CHOOSE V : IsWalk(header'[m], block'[m], V)
    BY DEF Walk, IsWalk
  <1>2. IsWalk(header'[m], block'[m], W)
    BY ChainIsWalk
  <1>3. IsWalk(header'[m], block'[m], CHOOSE V : IsWalk(header'[m], block'[m], V))
    BY <1>2, Zenon
  <1> QED
    BY <1>1, <1>2, <1>3, OneWalk

\* What a chain visits are offsets in rising order, each once, all below free.
LEMMA ChainOrder ==
    ASSUME NEW h \in HeaderType, NEW b \in [Offsets -> BlockType], NEW W, IsChain(h, b, W)
    PROVE  /\ \A n \in 0 .. h.published - 1 :
                 W[n] \in Offsets /\ W[n] + BareBlockWords <= h.free
           /\ \A i, j \in 0 .. h.published - 1 : i < j => W[i] < W[j]
  <1>1. ASSUME NEW n \in 0 .. h.published - 1
        PROVE  /\ W[n] \in Offsets
               /\ W[n] \in Int /\ BlockWords(b[W[n]].original) \in Nat
               /\ BlockWords(b[W[n]].original) >= BareBlockWords
    <2>1. W[n] \in Offsets
      BY DEF IsChain
    <2>2. W[n] \in Int
      BY <2>1 DEF Offsets
    <2>3. b[W[n]].original \in Nat
      BY <2>1, ConfigAssumption DEF BlockType
    <2> QED
      BY <2>1, <2>2, <2>3, BlockWordsType
  <1>2. h.free \in Int /\ BareBlockWords = 6
    BY ConfigAssumption DEF HeaderType, BareBlockWords
  <1>3. \A n \in 0 .. h.published - 1 : W[n] \in Offsets /\ W[n] + BareBlockWords <= h.free
    <2> SUFFICES ASSUME NEW n \in 0 .. h.published - 1
                 PROVE  W[n] \in Offsets /\ W[n] + BareBlockWords <= h.free
      OBVIOUS
    <2>1. W[n] + BlockWords(b[W[n]].original) <= h.free
      BY DEF IsChain
    <2> QED
      BY <1>1, <1>2, <2>1
  <1>4. \A i, j \in 0 .. h.published - 1 : i < j => W[i] < W[j]
    <2> SUFFICES ASSUME NEW i \in 0 .. h.published - 1, NEW j \in 0 .. h.published - 1, i < j
                 PROVE  W[i] < W[j]
      OBVIOUS
    <2>1. W[i] + BlockWords(b[W[i]].original) <= W[j]
      BY DEF IsChain
    <2> QED
      BY <1>1, <1>2, <2>1
  <1> QED
    BY <1>3, <1>4

\* The first k stores of an append extend a chain that ends in NULL: with two of
\* them its last link leads to the new block, with three the block counts.
LEMMA ChainAppend ==
    ASSUME NEW h \in HeaderType, NEW b \in [Offsets -> BlockType], NEW W, IsChain(h, b, W),
           W[h.published] = NullOffset, h.free \in Offsets,
           NEW length \in 1 .. MaxLength, NEW k \in 0 .. 3, NEW last,
           last = IF h.published = 0 THEN NullOffset ELSE W[h.published - 1],
           NEW h2, NEW b2, NEW V
    PROVE  /\ h2 = AppendedHeader(h, last, length, k)
           /\ b2 = AppendedBlocks(b, h.free, last, length, k)
           /\ V = [n \in 0 .. h2.published |->
                      IF n < h.published THEN W[n]
                      ELSE IF n = h.published /\ k >= 2 THEN h.free ELSE NullOffset]
           => IsChain(h2, b2, V)
  <1> DEFINE N == h.published
  <1>0. SUFFICES ASSUME h2 = AppendedHeader(h, last, length, k),
                        b2 = AppendedBlocks(b, h.free, last, length, k),
                        V = [n \in 0 .. h2.published |->
                               IF n < h.published THEN W[n]
                               ELSE IF n = h.published /\ k >= 2 THEN h.free ELSE NullOffset]
                 PROVE  IsChain(h2, b2, V)
    OBVIOUS
  <1>1. /\ N \in Nat /\ h.free \in Int
        /\ h2.published = (IF k = 3 THEN N + 1 ELSE N)
        /\ h2.free = (IF k >= 1 THEN h.free + BlockWords(length) ELSE h.free)
        /\ h2.first = (IF k >= 2 /\ last = NullOffset THEN h.free ELSE h.first)
    BY <1>0, ConfigAssumption DEF HeaderType, AppendedHeader
  <1>2. BlockWords(length) \in Nat
    BY BlockWordsType, ConfigAssumption
  <1>3. \A n \in 0 .. N - 1 : W[n] \in Offsets /\ W[n] < h.free
    BY <1>1, ChainOrder DEF Offsets, BareBlockWords
  <1>4. \A n \in 0 .. N - 2 : N > 0 => W[n] # last
    <2> SUFFICES ASSUME NEW n \in 0 .. N - 2, N > 0 PROVE W[n] # last
      OBVIOUS
    <2>1. n \in 0 .. N - 1 /\ N - 1 \in 0 .. N - 1 /\ n < N - 1 /\ N # 0
      BY <1>1
    <2>2. W[n] < W[N - 1] /\ W[n] \in Int /\ W[N - 1] \in Int
      BY <1>3, <2>1, ChainOrder DEF Offsets
    <2> QED
      BY <2>1, <2>2
  <1>5. \A n \in 0 .. N - 1 :
           /\ b2[W[n]].original = b[W[n]].original
           /\ b2[W[n]].next = IF n = N - 1 /\ k >= 2 THEN h.free ELSE b[W[n]].next
    <2> SUFFICES ASSUME NEW n \in 0 .. N - 1
                 PROVE  /\ b2[W[n]].original = b[W[n]].original
                        /\ b2[W[n]].next = IF n = N - 1 /\ k >= 2 THEN h.free ELSE b[W[n]].next
      OBVIOUS
    <2>1. W[n] \in Offsets /\ W[n] # h.free /\ b[W[n]] \in BlockType
      BY <1>1, <1>3 DEF Offsets
    <2>2. b2[W[n]] = IF W[n] = last /\ k >= 2 THEN [b[W[n]] EXCEPT !.next = h.free]
                     ELSE b[W[n]]
      BY <1>0, <2>1 DEF AppendedBlocks
    <2>3. W[n] = last <=> n = N - 1
      <3>1. N # 0
        BY <1>1
      <3> QED
        BY <1>1, <1>4, <3>1
    <2> QED
      BY <2>1, <2>2, <2>3 DEF BlockType
  <1>6. b2[h.free] = [next |-> NullOffset, count |-> length, original |-> length,
                      state |-> "READY"]
    BY <1>0 DEF AppendedBlocks
  <1>7. \A n \in 0 .. N - 1 :
           /\ W[n + 1] = b[W[n]].next /\ b[W[n]].original # 0
           /\ BlockWords(b[W[n]].original) \in Nat
           /\ W[n] + BlockWords(b[W[n]].original) <= h.free
    <2> SUFFICES ASSUME NEW n \in 0 .. N - 1
                 PROVE  /\ W[n + 1] = b[W[n]].next /\ b[W[n]].original # 0
                        /\ BlockWords(b[W[n]].original) \in Nat
                        /\ W[n] + BlockWords(b[W[n]].original) <= h.free
      OBVIOUS
    <2>1. b[W[n]].original \in Nat
      BY <1>3, ConfigAssumption DEF BlockType
    <2>2. /\ W[n + 1] = b[W[n]].next /\ b[W[n]].original # 0
          /\ W[n] + BlockWords(b[W[n]].original) <= h.free
      BY DEF IsChain
    <2> QED
      BY <2>1, <2>2, BlockWordsType
  <1>8. /\ W[N] = NullOffset /\ h2.published \in Nat
        /\ V \in [0 .. h2.published -> Offsets \cup {NullOffset}]
        /\ \A n \in 0 .. h2.published :
              V[n] = IF n < N THEN W[n]
                     ELSE IF n = N /\ k >= 2 THEN h.free ELSE NullOffset
    <2>1. h2.published \in Nat /\ N <= h2.published /\ h2.published <= N + 1
      BY <1>1
    <2>2. \A n \in 0 .. h2.published : n < N => W[n] \in Offsets
      BY <1>1, <1>3, <2>1
    <2> QED
      BY <1>0, <2>1, <2>2
  <1>9. V[0] = h2.first
    <2>1. CASE N = 0
      <3>1. last = NullOffset /\ W[0] = h.first
        BY <2>1 DEF IsChain
      <3> HIDE DEF N
      <3> QED
        BY <1>1, <1>8, <2>1, <3>1
    <2>2. CASE N > 0
      <3>1. N - 1 \in 0 .. N - 1 /\ last = W[N - 1]
        BY <1>1, <2>2
      <3>2. last # NullOffset
        BY <1>3, <3>1 DEF Offsets, HeaderWords, NullOffset
      <3>3. W[0] = h.first
        BY DEF IsChain
      <3> HIDE DEF N
      <3> QED
        BY <1>1, <1>8, <2>2, <3>2, <3>3
    <2> HIDE DEF N
    <2> QED
      BY <1>1, <2>1, <2>2
  <1>10. ASSUME NEW n \in 0 .. h2.published - 1
         PROVE  /\ V[n] \in Offsets /\ V[n + 1] = b2[V[n]].next
                /\ b2[V[n]].original # 0
                /\ V[n] + BlockWords(b2[V[n]].original) <= h2.free
    <2> HIDE DEF N
    <2>1. n \in 0 .. h2.published /\ n + 1 \in 0 .. h2.published /\ n \in Nat
      BY <1>8
    <2>2. CASE n < N
      <3>1. n \in 0 .. N - 1 /\ V[n] = W[n]
        BY <1>1, <1>8, <2>1, <2>2
      <3>2. /\ W[n] \in Offsets /\ W[n] \in Int /\ W[n + 1] = b[W[n]].next
            /\ b[W[n]].original # 0 /\ BlockWords(b[W[n]].original) \in Nat
            /\ W[n] + BlockWords(b[W[n]].original) <= h.free
        BY <1>3, <1>7, <3>1 DEF Offsets
      <3>3. /\ b2[W[n]].original = b[W[n]].original
            /\ b2[W[n]].next = IF n = N - 1 /\ k >= 2 THEN h.free ELSE b[W[n]].next
        BY <1>5, <3>1
      <3>4. V[n + 1] = b2[V[n]].next
        <4>1. CASE n + 1 < N
          BY <1>1, <1>8, <2>1, <3>1, <3>2, <3>3, <4>1
        <4>2. CASE n + 1 = N
          BY <1>1, <1>8, <2>1, <3>1, <3>2, <3>3, <4>2
        <4> QED
          BY <1>1, <2>1, <2>2, <4>1, <4>2
      <3>5. W[n] + BlockWords(b[W[n]].original) <= h2.free
        BY <1>1, <1>2, <3>2
      <3> QED
        BY <3>1, <3>2, <3>3, <3>4, <3>5
    <2>3. CASE n = N
      <3>1. k = 3 /\ V[n] = h.free /\ V[n + 1] = NullOffset /\ h2.free = h.free + BlockWords(length)
        BY <1>1, <1>8, <2>1, <2>3
      <3>2. b2[V[n]].next = NullOffset /\ b2[V[n]].original = length
        BY <1>6, <3>1
      <3> QED
        BY <1>1, <1>2, <3>1, <3>2
    <2> QED
      BY <1>1, <2>1, <2>2, <2>3
  <1>11. ASSUME NEW i \in 0 .. h2.published - 1, NEW j \in 0 .. h2.published - 1, i < j
         PROVE  V[i] + BlockWords(b2[V[i]].original) <= V[j]
    <2>1. \A x, y \in 0 .. N - 1 : x < y => W[x] + BlockWords(b[W[x]].original) <= W[y]
      BY DEF IsChain
    <2> HIDE DEF N
    <2>2. /\ i \in 0 .. h2.published /\ j \in 0 .. h2.published /\ i \in 0 .. N - 1
          /\ j \in Nat /\ j <= N
      BY <1>1, <1>11
    <2>3. V[i] = W[i] /\ b2[V[i]].original = b[W[i]].original
      BY <1>1, <1>5, <1>8, <2>2
    <2>4. CASE j < N
      <3>1. j \in 0 .. N - 1 /\ V[j] = W[j]
        BY <1>1, <1>8, <2>2, <2>4
      <3> QED
        BY <1>11, <2>1, <2>2, <2>3, <3>1
    <2>5. CASE j = N
      <3>1. k = 3 /\ V[j] = h.free
        BY <1>1, <1>8, <1>11, <2>2, <2>5
      <3> QED
        BY <1>7, <2>2, <2>3, <3>1
    <2> QED
      BY <1>1, <2>2, <2>4, <2>5
  <1> QED
    BY <1>8, <1>9, <1>10, <1>11 DEF IsChain

-----------------------------------------------------------------------------
(* Every step seen from one segment.                                       *)

KeepsList(m) ==
    /\ header'[m].ready = header[m].ready /\ header'[m].first = header[m].first
    /\ header'[m].free = header[m].free /\ header'[m].published = header[m].published

Idle(m) ==
    /\ KeepsList(m) /\ block'[m] = block[m]
    /\ header'[m].processed = header[m].processed

\* The owner's first k stores; with k < 3 it dies of it.
Appends(m, k) ==
    /\ pc[m] = "append"
    /\ pc' = [pc EXCEPT ![m] = IF k = 3 THEN "lock_space" ELSE "crashed"]
    /\ crashes' = IF k = 3 THEN crashes ELSE crashes + 1
    /\ \E length \in 1 .. MaxLength, last \in Offsets \cup {NullOffset} :
          CanAppend(m, length) /\ IsLast(m, last) /\ AppendStores(m, last, length, k)

Takes(c, m, o) ==
    /\ TakeBlock(c) /\ shmOf[c] = m
    /\ o \in Published(m) /\ block[m][o].state = "READY"
    /\ taken' = [taken EXCEPT ![c] = o]
    /\ KeepsList(m) /\ header'[m].processed = header[m].processed
    /\ block'[m] = [block[m] EXCEPT ![o].state = "IN_PROGRESS"]

\* The first k stores of a finish; with k < 3 the consumer dies of it.
Marks(c, m, k) ==
    /\ pc[c] = "finish" /\ shmOf[c] = m /\ CanFinish(m, taken[c])
    /\ taken' = IF k = 3 THEN [taken EXCEPT ![c] = NullOffset] ELSE taken
    /\ crashes' = IF k = 3 THEN crashes ELSE crashes + 1
    /\ KeepsList(m)
    /\ header'[m].processed = IF k = 3 THEN header[m].processed + 1 ELSE header[m].processed
    /\ block'[m] = [block[m] EXCEPT ![taken[c]] = FinishedBlock(block[m][taken[c]], k)]

\* A process writes to the segment it has opened.
LEMMA OtherSegments ==
    ASSUME TypeInv, NEW p \in Procs, NEW m \in Producers, m # shmOf[p],
           \/ p \in Producers /\ Producer(p)
           \/ p \in Consumers /\ Consumer(p)
           \/ Lock(p) \/ LockFails(p) \/ Crash(p)
    PROVE  Idle(m)
  <1>1. header'[m] = header[m] /\ block'[m] = block[m]
    <2> USE DEF TypeInv, TypeOK, MemoryOK
    <2>1. CASE p \in Producers /\ Producer(p)
      <3>1. pc[p] = "init" => shmOf[p] = p
        BY <2>1 DEF Handles, Attached, Critical
      <3> QED
        BY <2>1, <3>1 DEF Producer, CreateSemaphore, CreateSharedMemory, InitializeHeader,
             FindSpace, AppendBlock, AppendStores, CheckFinished, RemoveSharedMemory,
             RemoveSemaphore, memory
    <2>2. CASE p \in Consumers /\ Consumer(p)
      BY <2>2 DEF Consumer, OpenSemaphore, OpenSharedMemory, Register, TakeBlock, TakeNoData,
           TakeFinished, TakeError, FinishBlock, memory
    <2>3. CASE Lock(p) \/ LockFails(p)
      BY <2>3 DEF Lock, LockFails, memory
    <2>4. CASE Crash(p)
      <3>1. LosesStores(p)
        BY <2>4 DEF Crash
      <3>2. CASE pc[p] = "append"
        BY <3>1, <3>2 DEF LosesStores, AppendStores
      <3>3. CASE pc[p] = "finish" /\ CanFinish(shmOf[p], taken[p])
        BY <3>1, <3>3 DEF LosesStores
      <3>4. CASE pc[p] # "append" /\ ~(pc[p] = "finish" /\ CanFinish(shmOf[p], taken[p]))
        BY <3>1, <3>4 DEF LosesStores, memory
      <3> QED
        BY <3>2, <3>3, <3>4
    <2> QED
      BY <2>1, <2>2, <2>3, <2>4
  <1> QED
    BY <1>1 DEF Idle, KeepsList

LEMMA ProducerOnSegment ==
    ASSUME TypeInv, NEW m \in Producers, Producer(m), shmOf[m] = m
    PROVE  Idle(m) \/ InitializeHeader(m) \/ Appends(m, 3)
  <1> USE DEF TypeInv, TypeOK, MemoryOK, Idle, KeepsList
  <1>1. CASE CreateSemaphore(m) \/ CreateSharedMemory(m) \/ CheckFinished(m)
             \/ RemoveSharedMemory(m) \/ RemoveSemaphore(m)
    BY <1>1 DEF CreateSemaphore, CreateSharedMemory, CheckFinished, RemoveSharedMemory,
         RemoveSemaphore, memory
  <1>2. CASE FindSpace(m)
    <2>1. UNCHANGED block /\ \E d : \/ UNCHANGED header
                                    \/ header' = [header EXCEPT ![m].done = d]
      BY <1>2 DEF FindSpace
    <2> QED
      BY <2>1 DEF HeaderType
  <1>3. CASE AppendBlock(m)
    <2>1. PICK length \in MinLength .. fitting[m] :
             IF CanAppend(m, length)
             THEN /\ \E last \in Offsets \cup {NullOffset} :
                        IsLast(m, last) /\ AppendStores(m, last, length, 3)
                  /\ Goto(m, "lock_space")
             ELSE Goto(m, "remove_shm") /\ UNCHANGED memory
      BY <1>3 DEF AppendBlock
    <2>2. length \in 1 .. MaxLength
      BY ConfigAssumption DEF LocalsOK
    <2>3. pc[m] = "append" /\ crashes' = crashes
      BY <1>3 DEF AppendBlock
    <2>4. CASE CanAppend(m, length)
      BY <2>1, <2>2, <2>3, <2>4 DEF Appends, Goto
    <2>5. CASE ~CanAppend(m, length)
      BY <2>1, <2>5 DEF memory
    <2> QED
      BY <2>4, <2>5
  <1> QED
    BY <1>1, <1>2, <1>3 DEF Producer

\* What a consumer takes was READY and published.
LEMMA TakesPublished ==
    ASSUME TypeInv, NEW c \in Consumers, TakeBlock(c)
    PROVE  /\ shmOf[c] \in Producers
           /\ \E o \in Offsets : Takes(c, shmOf[c], o)
  <1> DEFINE m == shmOf[c]
  <1>1. m \in Producers /\ pc[c] = "take"
    BY InsideSegment DEF TakeBlock, Critical, Procs
  <1>2. PICK n \in 0 .. header[m].published :
           /\ TakesAt(m, n)
           /\ block' = [block EXCEPT ![m][Walk(m)[n]].state = "IN_PROGRESS"]
           /\ taken' = [taken EXCEPT ![c] = Walk(m)[n]]
    BY DEF TakeBlock
  <1> DEFINE o == Walk(m)[n]
  <1>3. header[m] \in HeaderType /\ block[m] \in [Offsets -> BlockType]
    BY <1>1 DEF TypeInv, TypeOK, MemoryOK
  <1>4. n \in 0 .. header[m].published - 1 /\ BlockValid(m, o) /\ block[m][o].state = "READY"
    BY <1>2, <1>3 DEF TakesAt, WalkIntact, IsReady, HeaderType
  <1>5. o \in Offsets
    BY <1>4 DEF BlockValid
  <1>6. o \in Published(m)
    BY <1>4 DEF Published
  <1>7. taken' = [taken EXCEPT ![c] = o] /\ block' = [block EXCEPT ![m][o].state = "IN_PROGRESS"]
    BY <1>2
  <1>8. header' = header \/ header' = [header EXCEPT ![m] = Unregister(header[m])]
    BY DEF TakeBlock
  <1> HIDE DEF m, o
  <1>9. block'[m] = [block[m] EXCEPT ![o].state = "IN_PROGRESS"]
    BY <1>1, <1>7 DEF TypeInv, TypeOK, MemoryOK
  <1>10. KeepsList(m) /\ header'[m].processed = header[m].processed
    BY <1>1, <1>3, <1>8 DEF KeepsList, Unregister, HeaderType, TypeInv, TypeOK, MemoryOK
  <1>11. Takes(c, m, o)
    BY <1>4, <1>6, <1>7, <1>9, <1>10 DEF Takes, m
  <1> QED
    BY <1>1, <1>5, <1>11 DEF m

LEMMA ConsumerOnSegment ==
    ASSUME TypeInv, NEW c \in Consumers, Consumer(c), ~TakeBlock(c),
           NEW m \in Producers, shmOf[c] = m
    PROVE  (Idle(m) /\ UNCHANGED taken) \/ Marks(c, m, 3)
  <1>1. /\ header \in [Producers -> HeaderType] /\ header[m] \in HeaderType
        /\ block \in [Producers -> [Offsets -> BlockType]]
    BY DEF TypeInv, TypeOK, MemoryOK
  <1>2. CASE ~FinishBlock(c)
    <2>1. UNCHANGED block /\ UNCHANGED taken
      BY <1>2 DEF Consumer, OpenSemaphore, OpenSharedMemory, Register, TakeNoData,
           TakeFinished, TakeError, memory, locals
    <2>2. \/ UNCHANGED header
          \/ header' = [header EXCEPT ![m].active = @ + 1]
          \/ header' = [header EXCEPT ![m] = Unregister(header[m])]
      BY <1>2 DEF Consumer, OpenSemaphore, OpenSharedMemory, Register, TakeNoData,
           TakeFinished, TakeError, memory
    <2> QED
      BY <1>1, <2>1, <2>2 DEF Idle, KeepsList, Unregister, HeaderType
  <1>3. CASE FinishBlock(c) /\ ~CanFinish(m, taken[c])
    <2>1. /\ UNCHANGED <<block, taken>>
          /\ header' = [header EXCEPT ![m] = Unregister(header[m])]
      BY <1>3 DEF FinishBlock
    <2> QED
      BY <1>1, <2>1 DEF Idle, KeepsList, Unregister, HeaderType
  <1>4. CASE FinishBlock(c) /\ CanFinish(m, taken[c])
    <2> DEFINE h == FinishedHeader(header[m], 3)
    <2>1. /\ pc[c] = "finish" /\ taken' = [taken EXCEPT ![c] = NullOffset]
          /\ crashes' = crashes
          /\ block' = [block EXCEPT ![m][taken[c]] = FinishedBlock(block[m][taken[c]], 3)]
          /\ header' = [header EXCEPT ![m] = h] \/ header' = [header EXCEPT ![m] = Unregister(h)]
      BY <1>4 DEF FinishBlock
    <2>2. /\ h.ready = header[m].ready /\ h.first = header[m].first
          /\ h.free = header[m].free /\ h.published = header[m].published
          /\ h.processed = header[m].processed + 1
      BY <1>1 DEF FinishedHeader, HeaderType
    <2>5. h \in HeaderType
      BY <1>1, LeftHeaderType, 3 \in 0 .. 3
    <2> HIDE DEF h
    <2>6. header'[m] = h \/ header'[m] = [h EXCEPT !.active = IF h.active > 0 THEN h.active - 1 ELSE 0]
      BY <1>1, <2>1 DEF Unregister
    <2>3. KeepsList(m) /\ header'[m].processed = header[m].processed + 1
      BY <2>2, <2>5, <2>6 DEF KeepsList, HeaderType
    <2>4. block'[m] = [block[m] EXCEPT ![taken[c]] = FinishedBlock(block[m][taken[c]], 3)]
      BY <1>1, <2>1
    <2> QED
      BY <1>4, <2>1, <2>3, <2>4 DEF Marks
  <1> QED
    BY <1>2, <1>3, <1>4

\* A process dies inside a critical section: some of its stores are done.
LEMMA CrashOnSegment ==
    ASSUME TypeInv, NEW p \in Procs, Crash(p), NEW m \in Producers, shmOf[p] = m
    PROVE  \/ Idle(m) /\ UNCHANGED taken
           \/ p = m /\ \E k \in 0 .. 2 : Appends(m, k) /\ UNCHANGED taken
           \/ p \in Consumers /\ \E k \in 0 .. 2 : Marks(p, m, k)
  <1>1. /\ header \in [Producers -> HeaderType] /\ header[m] \in HeaderType
        /\ block \in [Producers -> [Offsets -> BlockType]]
    BY DEF TypeInv, TypeOK, MemoryOK
  <1>2. LosesStores(p) /\ UNCHANGED taken /\ crashes' = crashes + 1 /\ Goto(p, "crashed")
    BY DEF Crash, locals
  <1>3. CASE pc[p] = "append"
    <2>1. p \in Producers /\ p = m
      BY <1>3, WhoIsWhere DEF TypeInv, TypeOK, Handles, Attached, Critical
    <2>2. PICK k \in 0 .. 2, length \in MinLength .. fitting[p],
               last \in Offsets \cup {NullOffset} :
             CanAppend(m, length) /\ IsLast(m, last) /\ AppendStores(m, last, length, k)
      BY <1>2, <1>3 DEF LosesStores
    <2>3. length \in 1 .. MaxLength
      BY <2>1, ConfigAssumption DEF TypeInv, TypeOK, LocalsOK
    <2>4. Appends(m, k)
      <3>1. k # 3
        OBVIOUS
      <3>2. pc[m] = "append" /\ pc' = [pc EXCEPT ![m] = "crashed"] /\ crashes' = crashes + 1
        BY <1>2, <1>3, <2>1 DEF Goto
      <3> QED
        BY <2>2, <2>3, <3>1, <3>2 DEF Appends
    <2> QED
      BY <1>2, <2>1, <2>4
  <1>4. CASE pc[p] = "finish" /\ CanFinish(m, taken[p])
    <2>1. PICK k \in 0 .. 2 :
             /\ block' = [block EXCEPT ![m][taken[p]] = FinishedBlock(block[m][taken[p]], k)]
             /\ UNCHANGED header
      BY <1>2, <1>4 DEF LosesStores
    <2>2. block'[m] = [block[m] EXCEPT ![taken[p]] = FinishedBlock(block[m][taken[p]], k)]
      BY <1>1, <2>1
    <2>3. p \in Consumers
      BY <1>4, WhoIsWhere DEF TypeInv, TypeOK
    <2>4. Marks(p, m, k)
      BY <1>2, <1>4, <2>1, <2>2 DEF Marks, KeepsList
    <2> QED
      BY <2>3, <2>4
  <1>5. CASE pc[p] # "append" /\ ~(pc[p] = "finish" /\ CanFinish(m, taken[p]))
    <2>1. UNCHANGED memory
      BY <1>2, <1>5 DEF LosesStores
    <2> QED
      BY <1>2, <2>1 DEF Idle, KeepsList, memory
  <1> QED
    BY <1>3, <1>4, <1>5

\* All there is to know of a step for the list in segment m.
LEMMA SegmentSteps ==
    ASSUME TypeInv, [Next]_vars, NEW m \in Producers
    PROVE  \/ Idle(m)
           \/ InitializeHeader(m)
           \/ \E k \in 0 .. 3 : Appends(m, k)
           \/ \E c \in Consumers, o \in Offsets : Takes(c, m, o)
           \/ \E c \in Consumers, k \in 0 .. 3 : Marks(c, m, k)
  <1>1. ASSUME NEW p \in Producers, Producer(p)
        PROVE  Idle(m) \/ InitializeHeader(m) \/ Appends(m, 3)
    <2>1. CASE shmOf[p] # m
      BY <1>1, <2>1, OtherSegments DEF Procs
    <2>2. CASE shmOf[p] = m /\ p = m
      BY <1>1, <2>2, ProducerOnSegment
    <2>3. CASE shmOf[p] = m /\ p # m
      <3>1. pc[p] \notin Attached
        BY <2>3 DEF TypeInv, Handles
      <3>2. CreateSemaphore(p) \/ CreateSharedMemory(p) \/ RemoveSharedMemory(p)
            \/ RemoveSemaphore(p)
        BY <1>1, <3>1 DEF Producer, InitializeHeader, FindSpace, AppendBlock, CheckFinished,
             Attached, Critical
      <3> QED
        BY <3>2 DEF CreateSemaphore, CreateSharedMemory, RemoveSharedMemory, RemoveSemaphore,
             memory, Idle, KeepsList
    <2> QED
      BY <2>1, <2>2, <2>3
  <1>2. ASSUME NEW c \in Consumers, Consumer(c)
        PROVE  \/ Idle(m) \/ \E o \in Offsets : Takes(c, m, o) \/ Marks(c, m, 3)
    <2>1. CASE shmOf[c] # m
      BY <1>2, <2>1, OtherSegments DEF Procs
    <2>2. CASE shmOf[c] = m /\ TakeBlock(c)
      BY <2>2, TakesPublished
    <2>3. CASE shmOf[c] = m /\ ~TakeBlock(c)
      <3>1. Idle(m) \/ Marks(c, m, 3)
        BY <1>2, <2>3, ConsumerOnSegment
      <3>2. Marks(c, m, 3) => taken[c] \in Offsets
        BY DEF Marks, CanFinish, BlockValid
      <3> QED
        BY <3>1, <3>2
    <2> QED
      BY <2>1, <2>2, <2>3
  <1>3. ASSUME NEW p \in Procs, Lock(p) \/ LockFails(p)
        PROVE  Idle(m)
    BY <1>3 DEF Lock, LockFails, memory, Idle, KeepsList
  <1>4. ASSUME NEW p \in Procs, Crash(p)
        PROVE  \/ Idle(m) \/ \E k \in 0 .. 2 : Appends(m, k)
               \/ \E c \in Consumers, k \in 0 .. 2 : Marks(c, m, k)
    <2>1. CASE shmOf[p] # m
      BY <1>4, <2>1, OtherSegments
    <2>2. CASE shmOf[p] = m
      BY <1>4, <2>2, CrashOnSegment
    <2> QED
      BY <2>1, <2>2
  <1>5. CASE UNCHANGED vars
    BY <1>5 DEF vars, Idle, KeepsList
  <1>6. 3 \in 0 .. 3 /\ \A k \in 0 .. 2 : k \in 0 .. 3
    OBVIOUS
  <1> QED
    BY <1>1, <1>2, <1>3, <1>4, <1>5, <1>6 DEF Next, AllGone

-----------------------------------------------------------------------------
(* The chain is kept.                                                      *)

LEMMA ChainKept ==
    ASSUME NEW h, NEW h2, NEW b, NEW b2, NEW W, IsChain(h, b, W),
           h2.first = h.first, h2.free = h.free, h2.published = h.published,
           \A o \in Offsets : b2[o].next = b[o].next /\ b2[o].original = b[o].original
    PROVE  IsChain(h2, b2, W)
  <1>1. \A n \in 0 .. h.published - 1 :
           /\ W[n] \in Offsets /\ W[n + 1] = b2[W[n]].next
           /\ b2[W[n]].original # 0
           /\ W[n] + BlockWords(b2[W[n]].original) <= h.free
    BY DEF IsChain
  <1>2. \A i, j \in 0 .. h.published - 1 :
           i < j => W[i] + BlockWords(b2[W[i]].original) <= W[j]
    BY DEF IsChain
  <1>3. W \in [0 .. h.published -> Offsets \cup {NullOffset}] /\ W[0] = h.first
    BY DEF IsChain
  <1> QED
    BY <1>1, <1>2, <1>3 DEF IsChain

\* A step that marks blocks keeps every link.
LEMMA MarksKeepLinks ==
    ASSUME TypeInv, NEW m \in Producers,
           \/ Idle(m)
           \/ \E c \in Consumers, o \in Offsets : Takes(c, m, o)
           \/ \E c \in Consumers, k \in 0 .. 3 : Marks(c, m, k)
    PROVE  /\ KeepsList(m)
           /\ \A o \in Offsets : /\ block'[m][o].next = block[m][o].next
                                 /\ block'[m][o].original = block[m][o].original
  <1>1. block[m] \in [Offsets -> BlockType]
    BY DEF TypeInv, TypeOK, MemoryOK
  <1>2. CASE Idle(m)
    BY <1>2 DEF Idle
  <1>3. ASSUME NEW c \in Consumers, NEW r \in Offsets, Takes(c, m, r)
        PROVE  /\ KeepsList(m)
               /\ \A o \in Offsets : /\ block'[m][o].next = block[m][o].next
                                     /\ block'[m][o].original = block[m][o].original
    BY <1>1, <1>3 DEF Takes, BlockType
  <1>4. ASSUME NEW c \in Consumers, NEW k \in 0 .. 3, Marks(c, m, k)
        PROVE  /\ KeepsList(m)
               /\ \A o \in Offsets : /\ block'[m][o].next = block[m][o].next
                                     /\ block'[m][o].original = block[m][o].original
    <2>1. \A o \in Offsets : block'[m][o] = block[m][o]
                             \/ block'[m][o] = FinishedBlock(block[m][o], k)
      BY <1>1, <1>4 DEF Marks
    <2>2. \A x \in BlockType : /\ FinishedBlock(x, k).next = x.next
                               /\ FinishedBlock(x, k).original = x.original
      BY DEF FinishedBlock, BlockType
    <2>3. KeepsList(m)
      BY <1>4 DEF Marks
    <2> QED
      BY <1>1, <2>1, <2>2, <2>3
  <1> QED
    BY <1>2, <1>3, <1>4

\* producer_find_last_block finds the last block of a chain.
LEMMA LastOfChain ==
    ASSUME TypeInv, ChainInv, NEW m \in Producers, pc[m] # "crashed", HeaderValid(m),
           NEW last \in Offsets \cup {NullOffset}, IsLast(m, last)
    PROVE  last = IF header[m].published = 0 THEN NullOffset
                  ELSE Walk(m)[header[m].published - 1]
  <1>1. header[m].published \in Nat
    BY DEF TypeInv, TypeOK, MemoryOK, HeaderType
  <1>2. CASE header[m].published = 0
    BY <1>2 DEF HeaderValid, IsLast
  <1>3. CASE header[m].published # 0
    <2>1. PICK n \in 0 .. header[m].published - 1 :
             last = Walk(m)[n] /\ block[m][last].next = NullOffset
      BY <1>3 DEF HeaderValid, IsLast
    <2>2. Walk(m)[n + 1] = NullOffset
      BY <2>1 DEF ChainInv, IsChain
    <2>3. n + 1 \in 0 .. header[m].published - 1 => Walk(m)[n + 1] \in Offsets
      BY DEF ChainInv, IsChain
    <2>4. NullOffset \notin Offsets
      BY DEF Offsets, HeaderWords, NullOffset
    <2>5. n = header[m].published - 1
      BY <1>1, <2>2, <2>3, <2>4
    <2> QED
      BY <1>3, <2>1, <2>5
  <1> QED
    BY <1>2, <1>3

\* The new walk of a segment that is appended to.
LEMMA AppendedWalk ==
    ASSUME TypeInv, ChainInv, MemoryOK', NEW m \in Producers, NEW k \in 0 .. 3, Appends(m, k)
    PROVE  LET N == header[m].published
               V == [n \in 0 .. header'[m].published |->
                        IF n < N THEN Walk(m)[n]
                        ELSE IF n = N /\ k >= 2 THEN header[m].free ELSE NullOffset]
           IN  /\ Walk(m)' = V /\ IsChain(header'[m], block'[m], V)
               /\ header'[m].published = (IF k = 3 THEN N + 1 ELSE N)
               /\ header[m].free \in Offsets
               /\ header'[m].ready /\ header'[m].free \in Nat
               /\ header'[m].free >= HeaderWords /\ header'[m].free % 2 = 0
  <1> DEFINE h == header[m]
             b == block[m]
  <1>1. PICK length \in 1 .. MaxLength, last \in Offsets \cup {NullOffset} :
           CanAppend(m, length) /\ IsLast(m, last) /\ AppendStores(m, last, length, k)
    BY DEF Appends
  <1>2. h \in HeaderType /\ b \in [Offsets -> BlockType] /\ IsChain(h, b, Walk(m))
    BY DEF TypeInv, TypeOK, MemoryOK, ChainInv
  <1>3. HeaderValid(m) /\ pc[m] # "crashed"
    BY <1>1 DEF CanAppend, Appends
  <1>4. Walk(m)[h.published] = NullOffset
    BY <1>3 DEF ChainInv
  <1>5. h.free \in Offsets
    BY <1>3, FreeOffset DEF TypeInv
  <1>6. last = IF h.published = 0 THEN NullOffset ELSE Walk(m)[h.published - 1]
    BY <1>1, <1>3, LastOfChain
  <1>7. header'[m] = AppendedHeader(h, last, length, k)
        /\ block'[m] = AppendedBlocks(b, h.free, last, length, k)
    BY <1>1 DEF AppendStores, TypeInv, TypeOK, MemoryOK
  <1> DEFINE V == [n \in 0 .. header'[m].published |->
                      IF n < h.published THEN Walk(m)[n]
                      ELSE IF n = h.published /\ k >= 2 THEN h.free ELSE NullOffset]
  <1>8. IsChain(header'[m], block'[m], V)
    <2> HIDE DEF h, b
    <2> QED
      BY <1>2, <1>4, <1>5, <1>6, <1>7, ChainAppend
  <1>9. header'[m].published \in Nat
    BY DEF MemoryOK, HeaderType
  <1>10. Walk(m)' = V
    <2> HIDE DEF V
    <2> QED
      BY <1>8, <1>9, NextWalkIsChain
  <1>11. BlockWords(length) \in Nat /\ BlockWords(length) % 2 = 0
    BY BlockWordsType, ConfigAssumption
  <1>12. /\ header'[m].published = (IF k = 3 THEN h.published + 1 ELSE h.published)
         /\ header'[m].free = (IF k >= 1 THEN h.free + BlockWords(length) ELSE h.free)
         /\ header'[m].ready = h.ready
    BY <1>2, <1>7 DEF AppendedHeader, HeaderType
  <1>13. h.ready /\ h.free \in Nat /\ h.free >= HeaderWords /\ h.free % 2 = 0
    BY <1>2, <1>3, ConfigAssumption DEF HeaderValid, HeaderType
  <1>14. header'[m].free \in Nat /\ header'[m].free >= HeaderWords /\ header'[m].free % 2 = 0
    BY <1>11, <1>12, <1>13 DEF HeaderWords
  <1> QED
    BY <1>5, <1>8, <1>10, <1>12, <1>13, <1>14

\* The dead stay dead.
LEMMA CrashedStays ==
    ASSUME TypeInv, [Next]_vars, NEW p \in Procs, pc[p] = "crashed"
    PROVE  pc'[p] = "crashed"
  <1> USE DEF TypeInv, TypeOK, PcOK
  <1>1. ASSUME NEW q \in Procs, NEW w, Goto(q, w), pc[q] # "crashed"
        PROVE  pc'[p] = "crashed"
    BY <1>1 DEF Goto
  <1>2. ASSUME NEW q \in Producers, Producer(q)
        PROVE  pc'[p] = "crashed"
    <2>1. pc[q] # "crashed" /\ \E w : Goto(q, w)
      BY <1>2 DEF Producer, CreateSemaphore, CreateSharedMemory, InitializeHeader, FindSpace,
           AppendBlock, CheckFinished, RemoveSharedMemory, RemoveSemaphore
    <2> QED
      BY <1>1, <2>1 DEF Procs
  <1>3. ASSUME NEW c \in Consumers, Consumer(c)
        PROVE  pc'[p] = "crashed"
    <2>1. pc[c] # "crashed" /\ \E w : Goto(c, w)
      BY <1>3 DEF Consumer, OpenSemaphore, OpenSharedMemory, Register, TakeBlock, TakeNoData,
           TakeFinished, TakeError, FinishBlock
    <2> QED
      BY <1>1, <2>1 DEF Procs
  <1>4. ASSUME NEW q \in Procs, Lock(q) \/ LockFails(q) \/ Crash(q)
        PROVE  pc'[p] = "crashed"
    BY <1>1, <1>4 DEF Lock, LockFails, Crash, Section
  <1>5. CASE UNCHANGED vars
    BY <1>5 DEF vars
  <1> QED
    BY <1>2, <1>3, <1>4, <1>5 DEF Next, AllGone

LEMMA ChainInit == Init => ChainInv
  <1> SUFFICES ASSUME Init, NEW m \in Producers
               PROVE  /\ IsChain(header[m], block[m], Walk(m))
                      /\ Walk(m)[header[m].published] = NullOffset
                      /\ header[m].published = 0 /\ ~header[m].ready
    BY DEF ChainInv
  <1> DEFINE V == [n \in 0 .. 0 |-> NullOffset]
  <1>1. header[m] = ZeroHeader
    BY DEF Init
  <1>2. /\ header[m].published = 0 /\ header[m].first = NullOffset /\ ~header[m].ready
    BY <1>1 DEF ZeroHeader
  <1>3. IsChain(header[m], block[m], V)
    BY <1>2 DEF IsChain
  <1>4. Walk(m) = V
    <2> HIDE DEF V
    <2> QED
      BY <1>2, <1>3, WalkIsChain
  <1> QED
    BY <1>2, <1>3, <1>4

LEMMA ChainStep == TypeInv /\ MemoryOK' /\ ChainInv /\ [Next]_vars => ChainInv'
  <1> SUFFICES ASSUME TypeInv, MemoryOK', ChainInv, [Next]_vars, NEW m \in Producers
               PROVE  /\ IsChain(header'[m], block'[m], Walk(m)')
                      /\ pc'[m] # "crashed" => Walk(m)'[header'[m].published] = NullOffset
                      /\ ~header'[m].ready => header'[m].published = 0
                      /\ header'[m].ready =>
                            header'[m].free >= HeaderWords /\ header'[m].free % 2 = 0
    BY DEF ChainInv
  <1>1. header'[m].published \in Nat
    BY DEF MemoryOK, HeaderType
  <1>2. CASE \/ Idle(m)
             \/ \E c \in Consumers, o \in Offsets : Takes(c, m, o)
             \/ \E c \in Consumers, k \in 0 .. 3 : Marks(c, m, k)
    <2>1. KeepsList(m) /\ \A o \in Offsets : /\ block'[m][o].next = block[m][o].next
                                             /\ block'[m][o].original = block[m][o].original
      BY <1>2, MarksKeepLinks
    <2>2. IsChain(header'[m], block'[m], Walk(m))
      BY <2>1, ChainKept DEF KeepsList, ChainInv
    <2>3. Walk(m)' = Walk(m)
      BY <1>1, <2>2, NextWalkIsChain
    <2>4. pc'[m] # "crashed" => pc[m] # "crashed"
      BY CrashedStays DEF Procs
    <2> QED
      BY <2>1, <2>2, <2>3, <2>4 DEF ChainInv, KeepsList
  <1>3. CASE InitializeHeader(m)
    <2>1. header'[m] = [ZeroHeader EXCEPT !.ready = TRUE, !.free = HeaderWords]
      BY <1>3 DEF InitializeHeader, TypeInv, TypeOK, MemoryOK
    <2>2. /\ header'[m].ready /\ header'[m].published = 0 /\ header'[m].first = NullOffset
          /\ header'[m].free = HeaderWords
      BY <2>1 DEF ZeroHeader
    <2> DEFINE V == [n \in 0 .. 0 |-> NullOffset]
    <2>3. IsChain(header'[m], block'[m], V)
      BY <2>2 DEF IsChain
    <2>4. Walk(m)' = V
      <3> HIDE DEF V
      <3> QED
        BY <1>1, <2>3, NextWalkIsChain
    <2> QED
      BY <2>2, <2>3, <2>4 DEF HeaderWords
  <1>4. ASSUME NEW k \in 0 .. 3, Appends(m, k)
        PROVE  /\ IsChain(header'[m], block'[m], Walk(m)')
               /\ pc'[m] # "crashed" => Walk(m)'[header'[m].published] = NullOffset
               /\ header'[m].ready
               /\ header'[m].free >= HeaderWords /\ header'[m].free % 2 = 0
    <2> DEFINE N == header[m].published
               V == [n \in 0 .. header'[m].published |->
                        IF n < N THEN Walk(m)[n]
                        ELSE IF n = N /\ k >= 2 THEN header[m].free ELSE NullOffset]
    <2>1. /\ Walk(m)' = V /\ IsChain(header'[m], block'[m], V)
          /\ header'[m].published = (IF k = 3 THEN N + 1 ELSE N)
          /\ header'[m].ready
          /\ header'[m].free >= HeaderWords /\ header'[m].free % 2 = 0
      BY <1>4, AppendedWalk
    <2>2. pc'[m] # "crashed" => k = 3
      BY <1>4 DEF Appends, TypeInv, TypeOK, PcOK, Procs
    <2>3. N \in Nat
      BY DEF TypeInv, TypeOK, MemoryOK, HeaderType
    <2>4. k = 3 => V[header'[m].published] = NullOffset
      BY <2>1, <2>3
    <2> HIDE DEF V, N
    <2> QED
      BY <2>1, <2>2, <2>4
  <1> QED
    BY <1>2, <1>3, <1>4, SegmentSteps

-----------------------------------------------------------------------------
(* The published blocks.                                                   *)

\* A step in which nothing happens to the blocks that consumers can find.
Unnoticed(m) ==
    /\ Published(m)' = Published(m)
    /\ header'[m].published = header[m].published
    /\ \A o \in Published(m) : block'[m][o] \in {block[m][o]} \cup
          {[block[m][o] EXCEPT !.next = n] : n \in Offsets \cup {NullOffset}}

Publishes(m, o) ==
    /\ pc[m] = "append" /\ pc' = [pc EXCEPT ![m] = "lock_space"]
    /\ o \notin Published(m) /\ Published(m)' = Published(m) \cup {o}
    /\ header'[m].published = header[m].published + 1
    /\ header'[m].processed = header[m].processed
    /\ block'[m][o].state = "READY" /\ block'[m][o].count = block'[m][o].original
    /\ \A r \in Published(m) : block'[m][r] \in {block[m][r]} \cup
          {[block[m][r] EXCEPT !.next = n] : n \in Offsets \cup {NullOffset}}

LEMMA PublishedOffsets ==
    ASSUME TypeInv, ChainInv, NEW m \in Producers
    PROVE  Published(m) \subseteq Offsets
  BY DEF ChainInv, IsChain, Published

LEMMA PublishedKept ==
    ASSUME TypeInv, ChainInv, MemoryOK', NEW m \in Producers,
           \/ Idle(m)
           \/ \E c \in Consumers, o \in Offsets : Takes(c, m, o)
           \/ \E c \in Consumers, k \in 0 .. 3 : Marks(c, m, k)
    PROVE  /\ Published(m)' = Published(m)
           /\ header'[m].published = header[m].published
  <1>1. KeepsList(m) /\ \A o \in Offsets : /\ block'[m][o].next = block[m][o].next
                                           /\ block'[m][o].original = block[m][o].original
    BY MarksKeepLinks
  <1>2. IsChain(header'[m], block'[m], Walk(m))
    BY <1>1, ChainKept DEF KeepsList, ChainInv
  <1>3. header'[m].published \in Nat
    BY DEF MemoryOK, HeaderType
  <1>4. Walk(m)' = Walk(m)
    BY <1>2, <1>3, NextWalkIsChain
  <1> QED
    BY <1>1, <1>4 DEF Published, KeepsList

LEMMA PublishedAppend ==
    ASSUME TypeInv, ChainInv, MemoryOK', NEW m \in Producers, NEW k \in 0 .. 3, Appends(m, k)
    PROVE  IF k = 3 THEN \E o \in Offsets : Publishes(m, o)
           ELSE Unnoticed(m) /\ header'[m].processed = header[m].processed
  <1> DEFINE N == header[m].published
             new == header[m].free
             V == [n \in 0 .. header'[m].published |->
                     IF n < N THEN Walk(m)[n]
                     ELSE IF n = N /\ k >= 2 THEN new ELSE NullOffset]
  <1>1. /\ header[m] \in HeaderType /\ block[m] \in [Offsets -> BlockType]
        /\ N \in Nat /\ new \in Int
    BY ConfigAssumption DEF TypeInv, TypeOK, MemoryOK, HeaderType
  <1>2. /\ Walk(m)' = V /\ header'[m].published = (IF k = 3 THEN N + 1 ELSE N)
        /\ new \in Offsets
    BY AppendedWalk
  <1>3. PICK length \in 1 .. MaxLength, last \in Offsets \cup {NullOffset} :
           AppendStores(m, last, length, k)
    BY DEF Appends
  <1>4. header'[m] = AppendedHeader(header[m], last, length, k)
        /\ block'[m] = AppendedBlocks(block[m], new, last, length, k)
    BY <1>3 DEF AppendStores, TypeInv, TypeOK, MemoryOK
  <1>5. header'[m].processed = header[m].processed
    BY <1>1, <1>4 DEF AppendedHeader, HeaderType
  <1>6. \A n \in 0 .. N - 1 : Walk(m)[n] \in Offsets /\ Walk(m)[n] # new
    <2>1. \A n \in 0 .. N - 1 : Walk(m)[n] \in Offsets /\ Walk(m)[n] + BareBlockWords <= new
      BY <1>1, ChainOrder DEF ChainInv
    <2> QED
      BY <1>1, <2>1 DEF Offsets, BareBlockWords
  <1>7. new \notin Published(m) /\ Published(m) \subseteq Offsets
    BY <1>6 DEF Published
  <1>8. \A r \in Published(m) : block'[m][r] \in {block[m][r]} \cup
           {[block[m][r] EXCEPT !.next = n] : n \in Offsets \cup {NullOffset}}
    <2> HIDE DEF new
    <2> SUFFICES ASSUME NEW r \in Published(m)
                 PROVE  \/ block'[m][r] = block[m][r]
                        \/ \E n \in Offsets \cup {NullOffset} :
                              block'[m][r] = [block[m][r] EXCEPT !.next = n]
      OBVIOUS
    <2>1. r \in Offsets /\ r # new
      BY <1>7
    <2>2. block'[m][r] = IF r = last /\ k >= 2 THEN [block[m][r] EXCEPT !.next = new]
                         ELSE block[m][r]
      BY <1>4, <2>1 DEF AppendedBlocks
    <2> QED
      BY <1>2, <2>2
  <1>9. CASE k = 3
    <2>1. Published(m)' = {V[n] : n \in 0 .. N}
      <3>1. header'[m].published - 1 = N
        BY <1>1, <1>2, <1>9
      <3>2. Published(m)' = {Walk(m)'[n] : n \in 0 .. header'[m].published - 1}
        BY DEF Published
      <3> HIDE DEF V, N
      <3> QED
        BY <1>2, <3>1, <3>2
    <2>2. \A n \in 0 .. N : V[n] = IF n < N THEN Walk(m)[n] ELSE new
      BY <1>1, <1>2, <1>9
    <2>3. Published(m)' = Published(m) \cup {new}
      <3> HIDE DEF V, new
      <3>1. \A n \in 0 .. N - 1 : n \in 0 .. N /\ n < N
        BY <1>1
      <3>2. N \in 0 .. N /\ ~(N < N)
        BY <1>1
      <3>3. \A n \in 0 .. N : n \in 0 .. N - 1 \/ ~(n < N)
        BY <1>1
      <3>4. Published(m) = {Walk(m)[n] : n \in 0 .. N - 1}
        BY DEF Published
      <3> HIDE DEF N
      <3> QED
        BY <2>1, <2>2, <3>1, <3>2, <3>3, <3>4
    <2>4. block'[m][new] = [next |-> NullOffset, count |-> length, original |-> length,
                            state |-> "READY"]
      BY <1>2, <1>4 DEF AppendedBlocks
    <2>5. Publishes(m, new)
      BY SMTT(20), <1>2, <1>5, <1>7, <1>8, <1>9, <2>3, <2>4 DEF Publishes, Appends
    <2> QED
      BY <1>2, <1>9, <2>5
  <1>10. CASE k # 3
    <2>1. \A n \in 0 .. N - 1 : V[n] = Walk(m)[n]
      BY <1>1, <1>2, <1>10
    <2>2. Published(m)' = Published(m)
      <3> HIDE DEF V
      <3> QED
        BY <1>2, <1>10, <2>1 DEF Published
    <2> QED
      BY <1>2, <1>5, <1>8, <1>10, <2>2 DEF Unnoticed
  <1> QED
    BY <1>9, <1>10

-----------------------------------------------------------------------------
(* What the place of a process says of its segment.                        *)

LEMMA ReadyStays ==
    ASSUME TypeInv, ChainInv, MemoryOK', [Next]_vars, NEW m \in Producers, header[m].ready
    PROVE  header'[m].ready
  <1>1. KeepsList(m) => header'[m].ready
    BY DEF KeepsList
  <1>2. CASE InitializeHeader(m)
    <2>1. header'[m] = [ZeroHeader EXCEPT !.ready = TRUE, !.free = HeaderWords]
      BY <1>2 DEF InitializeHeader, TypeInv, TypeOK, MemoryOK
    <2> QED
      BY <2>1 DEF ZeroHeader
  <1>3. ASSUME NEW k \in 0 .. 3, Appends(m, k)
        PROVE  header'[m].ready
    BY <1>3, AppendedWalk
  <1> QED
    BY <1>1, <1>2, <1>3, SegmentSteps, MarksKeepLinks

\* Nobody but its owner changes what a segment's header says of publishing.
LEMMA OwnerPublishes ==
    ASSUME TypeInv, NEW m \in Producers,
           \/ \E p \in Producers \ {m} : Producer(p)
           \/ \E c \in Consumers : Consumer(c)
           \/ \E p \in Procs : Lock(p) \/ LockFails(p) \/ (p # m /\ Crash(p))
    PROVE  header'[m].done = header[m].done /\ header'[m].free = header[m].free
  <1> USE DEF TypeInv, TypeOK, MemoryOK
  <1>1. ASSUME NEW p \in Producers, p # m, Producer(p)
        PROVE  header'[m] = header[m]
    <2>1. pc[p] \in Attached => shmOf[p] = p
      BY DEF Handles
    <2> QED
      BY <1>1, <2>1 DEF Producer, CreateSemaphore, CreateSharedMemory, InitializeHeader,
           FindSpace, AppendBlock, AppendStores, CheckFinished, RemoveSharedMemory,
           RemoveSemaphore, memory, Attached, Critical
  <1>2. ASSUME NEW c \in Consumers, Consumer(c)
        PROVE  header'[m].done = header[m].done /\ header'[m].free = header[m].free
    <2>1. CASE shmOf[c] = m
      <3> DEFINE h == FinishedHeader(header[m], 3)
      <3>1. \/ UNCHANGED header
            \/ header' = [header EXCEPT ![m].active = @ + 1]
            \/ header' = [header EXCEPT ![m] = Unregister(header[m])]
            \/ header' = [header EXCEPT ![m] = h]
            \/ header' = [header EXCEPT ![m] = Unregister(h)]
        BY <1>2, <2>1 DEF Consumer, OpenSemaphore, OpenSharedMemory, Register, TakeBlock,
             TakeNoData, TakeFinished, TakeError, FinishBlock, memory
      <3>2. header[m] \in HeaderType /\ h \in HeaderType /\ 3 \in 0 .. 3
        BY LeftHeaderType
      <3>3. h.done = header[m].done /\ h.free = header[m].free
        BY <3>2 DEF FinishedHeader, HeaderType
      <3>4. \A g \in HeaderType : Unregister(g).done = g.done /\ Unregister(g).free = g.free
        BY DEF Unregister, HeaderType
      <3> HIDE DEF h
      <3> QED
        BY <3>1, <3>2, <3>3, <3>4 DEF HeaderType
    <2>2. CASE shmOf[c] # m
      BY <1>2, <2>2 DEF Consumer, OpenSemaphore, OpenSharedMemory, Register, TakeBlock,
           TakeNoData, TakeFinished, TakeError, FinishBlock, memory
    <2> QED
      BY <2>1, <2>2
  <1>3. ASSUME NEW p \in Procs, Lock(p) \/ LockFails(p)
        PROVE  header' = header
    BY <1>3 DEF Lock, LockFails, memory
  <1>4. ASSUME NEW p \in Procs, p # m, Crash(p)
        PROVE  header'[m] = header[m]
    <2>1. LosesStores(p)
      BY <1>4 DEF Crash
    <2>2. CASE pc[p] = "append"
      <3>1. shmOf[p] = p
        BY <2>2, WhoIsWhere DEF Handles, Attached, Critical
      <3> QED
        BY <1>4, <2>1, <2>2, <3>1 DEF LosesStores, AppendStores
    <2>3. CASE pc[p] # "append"
      BY <2>1, <2>3 DEF LosesStores, memory
    <2> QED
      BY <2>2, <2>3
  <1> QED
    BY <1>1, <1>2, <1>3, <1>4

\* The owner's own steps.
LEMMA PhaseOwn ==
    ASSUME TypeInv, MemoryOK', ChainInv, NEW p \in Producers, PhaseOf(p), Producer(p)
    PROVE  PhaseOf(p)'
  <1> USE DEF TypeInv, TypeOK, MemoryOK, PcOK, LocalsOK, Goto, Procs
  <1>1. header[p].ready => header'[p].ready
    BY ReadyStays DEF Next
  <1>2. CASE CreateSemaphore(p) \/ CreateSharedMemory(p)
    BY <1>2 DEF CreateSemaphore, CreateSharedMemory, memory, locals, PhaseOf, Starting, Working
  <1>3. CASE InitializeHeader(p)
    <2>1. header'[p] = [ZeroHeader EXCEPT !.ready = TRUE, !.free = HeaderWords]
          /\ pc'[p] = "lock_space" /\ result'[p] = result[p] /\ pc[p] = "init"
      BY <1>3 DEF InitializeHeader
    <2>2. header'[p].ready /\ ~header'[p].done
      BY <2>1 DEF ZeroHeader
    <2> QED
      BY <2>1, <2>2 DEF PhaseOf, Starting, Working
  <1>4. CASE FindSpace(p)
    <2>1. shmOf[p] = p /\ pc[p] = "space" /\ result' = result
      BY <1>4 DEF FindSpace, Handles, Attached, Critical
    <2>2. result[p] # 0
      BY <2>1 DEF PhaseOf
    <2>3. CASE ~HeaderValid(p)
      BY <1>4, <2>1, <2>3 DEF FindSpace, PhaseOf, Starting, Working
    <2>4. CASE HeaderValid(p)
      <3>1. PICK count \in 0 .. MaxLength :
               /\ IsMaxFitting(p, count)
               /\ header' = [header EXCEPT ![p].done = @ \/ count < MinLength]
               /\ fitting' = [fitting EXCEPT ![p] = count]
               /\ pc' = [pc EXCEPT ![p] = IF count < MinLength THEN "lock_check"
                                          ELSE "lock_append"]
        BY <1>4, <2>1, <2>4 DEF FindSpace
      <3>2. /\ header'[p].done = (header[p].done \/ count < MinLength)
            /\ header'[p].free = header[p].free
            /\ fitting'[p] = count
        BY <3>1 DEF HeaderType
      <3>3. count >= MinLength => header[p].free + BlockWords(count) <= SegmentWords
        BY <3>1, ConfigAssumption DEF IsMaxFitting, Fits
      <3>4. header[p].ready /\ ~header[p].done
        BY <2>1 DEF PhaseOf, Starting, Working
      <3>5. CASE count < MinLength
        <4>1. pc'[p] = "lock_check"
          BY <3>1, <3>5
        <4> QED
          BY <1>1, <2>1, <2>2, <3>2, <3>4, <3>5, <4>1 DEF PhaseOf, Starting, Working
      <3>6. CASE ~(count < MinLength)
        <4>1. pc'[p] = "lock_append" /\ count >= MinLength
          BY <3>1, <3>6, ConfigAssumption
        <4>2. Fits(p, fitting[p])'
          BY <3>2, <3>3, <4>1 DEF Fits
        <4> QED
          BY <1>1, <2>1, <2>2, <3>2, <3>4, <3>6, <4>1, <4>2 DEF PhaseOf, Starting, Working
      <3> QED
        BY <3>5, <3>6
    <2> QED
      BY <2>3, <2>4
  <1>5. CASE AppendBlock(p)
    <2>1. shmOf[p] = p /\ pc[p] = "append" /\ result' = result
      BY <1>5 DEF AppendBlock, Handles, Attached, Critical
    <2>2. result[p] # 0 /\ header[p].ready /\ ~header[p].done
      BY <2>1 DEF PhaseOf, Starting, Working
    <2>3. \/ pc'[p] = "remove_shm"
          \/ /\ pc'[p] = "lock_space"
             /\ \E length, last : header'[p] = AppendedHeader(header[p], last, length, 3)
      BY <1>5, <2>1 DEF AppendBlock, AppendStores
    <2>4. \A length, last : AppendedHeader(header[p], last, length, 3).done = header[p].done
      BY DEF AppendedHeader, HeaderType
    <2> QED
      BY <1>1, <2>1, <2>2, <2>3, <2>4 DEF PhaseOf, Starting, Working
  <1>6. CASE CheckFinished(p)
    <2>1. /\ shmOf[p] = p /\ pc[p] = "check" /\ header' = header
          /\ pc'[p] \in {"lock_check", "remove_shm"}
          /\ pc'[p] = "lock_check" => result'[p] = 1
      BY <1>6 DEF CheckFinished, Handles, Attached, Critical, memory
    <2> QED
      BY <2>1 DEF PhaseOf, Starting, Working
  <1>7. CASE RemoveSharedMemory(p) \/ RemoveSemaphore(p)
    BY <1>7 DEF RemoveSharedMemory, RemoveSemaphore, PhaseOf, Starting, Working
  <1> QED
    BY <1>2, <1>3, <1>4, <1>5, <1>6, <1>7 DEF Producer

\* The steps of everybody else, and the owner's on the lock.
LEMMA PhaseOthers ==
    ASSUME TypeInv, MemoryOK', ChainInv, NEW p \in Producers, PhaseOf(p), [Next]_vars,
           \/ \E q \in Producers \ {p} : Producer(q)
           \/ \E c \in Consumers : Consumer(c)
           \/ \E q \in Procs : Lock(q) \/ LockFails(q) \/ (q # p /\ Crash(q))
    PROVE  PhaseOf(p)'
  <1> USE ProcessesAssumption DEF TypeInv, TypeOK, MemoryOK, PcOK, LocalsOK, Procs
  <1>1. header[p].ready => header'[p].ready
    BY ReadyStays
  <1>2. header'[p].done = header[p].done /\ header'[p].free = header[p].free
    BY OwnerPublishes
  <1>3. ASSUME pc'[p] = pc[p], fitting'[p] = fitting[p], result'[p] = result[p]
        PROVE  PhaseOf(p)'
    BY <1>1, <1>2, <1>3 DEF PhaseOf, Fits
  <1>4. ASSUME NEW q \in Producers \ {p}, Producer(q)
        PROVE  PhaseOf(p)'
    <2>1. pc'[p] = pc[p] /\ fitting'[p] = fitting[p] /\ result'[p] = result[p]
      BY <1>4 DEF Producer, CreateSemaphore, CreateSharedMemory, InitializeHeader, FindSpace,
           AppendBlock, CheckFinished, RemoveSharedMemory, RemoveSemaphore, locals, Goto
    <2> QED
      BY <1>3, <2>1
  <1>5. ASSUME NEW c \in Consumers, Consumer(c)
        PROVE  PhaseOf(p)'
    <2>1. c # p
      OBVIOUS
    <2>2. pc'[p] = pc[p] /\ fitting'[p] = fitting[p] /\ result'[p] = result[p]
      BY ZenonT(40), <1>5, <2>1 DEF Consumer, OpenSemaphore, OpenSharedMemory, Register, TakeBlock,
           TakeNoData, TakeFinished, TakeError, FinishBlock, locals, Goto
    <2> QED
      BY <1>3, <2>2
  <1>6. ASSUME NEW q \in Procs, q # p, Lock(q) \/ LockFails(q) \/ Crash(q)
        PROVE  PhaseOf(p)'
    <2>1. pc'[p] = pc[p] /\ fitting'[p] = fitting[p] /\ result'[p] = result[p]
      BY <1>6 DEF Lock, LockFails, Crash, locals, Goto
    <2> QED
      BY <1>3, <2>1
  <1>7. ASSUME Lock(p)
        PROVE  PhaseOf(p)'
    <2>1. /\ pc'[p] = Section[pc[p]] /\ pc[p] \in DOMAIN Section
          /\ fitting'[p] = fitting[p] /\ result'[p] = result[p]
      BY <1>7 DEF Lock, locals, Goto
    <2>2. /\ pc'[p] = "init" => pc[p] = "lock_init"
          /\ pc'[p] = "space" => pc[p] = "lock_space"
          /\ pc'[p] = "append" => pc[p] = "lock_append"
          /\ pc'[p] = "check" => pc[p] = "lock_check"
          /\ pc'[p] \in Critical
          /\ pc[p] \notin {"remove_shm", "remove_sem", "exited", "crashed"}
      BY <2>1 DEF Section, Critical
    <2>3. result[p] # 0
      BY <2>2 DEF PhaseOf
    <2>4. \A w \in Critical : w \notin {"lock_init", "lock_space", "lock_append", "lock_check",
                                        "create_sem", "create_shm"}
      BY DEF Critical
    <2> QED
      BY <1>1, <1>2, <2>1, <2>2, <2>3, <2>4 DEF PhaseOf, Fits, Starting, Working
  <1>8. ASSUME LockFails(p)
        PROVE  PhaseOf(p)'
    <2>1. pc'[p] = "remove_shm"
      BY <1>8 DEF LockFails, Goto
    <2> QED
      BY <2>1 DEF PhaseOf, Starting, Working
  <1> QED
    BY <1>4, <1>5, <1>6, <1>7, <1>8

LEMMA PhaseStep == TypeInv /\ MemoryOK' /\ ChainInv /\ PhaseInv /\ [Next]_vars => PhaseInv'
  <1> SUFFICES ASSUME TypeInv, MemoryOK', ChainInv, PhaseInv, [Next]_vars PROVE PhaseInv'
    OBVIOUS
  <1>1. ASSUME NEW p \in Producers PROVE PhaseOf(p)'
    <2>1. PhaseOf(p)
      BY DEF PhaseInv
    <2>2. CASE Crash(p)
      <3>1. pc'[p] = "crashed"
        BY <2>2 DEF Crash, Goto, TypeInv, TypeOK, PcOK, Procs
      <3> QED
        BY <3>1 DEF PhaseOf, Starting, Working
    <2>3. CASE UNCHANGED vars
      BY <2>1, <2>3 DEF vars, PhaseOf, Fits
    <2>4. CASE Producer(p)
      BY <2>1, <2>4, PhaseOwn
    <2>5. CASE \/ \E q \in Producers \ {p} : Producer(q)
               \/ \E c \in Consumers : Consumer(c)
               \/ \E q \in Procs : Lock(q) \/ LockFails(q) \/ (q # p /\ Crash(q))
      BY <2>1, <2>5, PhaseOthers
    <2>6. ASSUME NEW q \in Producers, Producer(q)
          PROVE  PhaseOf(p)'
      BY <2>4, <2>5, <2>6
    <2>7. ASSUME NEW q \in Procs, Lock(q) \/ LockFails(q) \/ Crash(q)
          PROVE  PhaseOf(p)'
      <3>1. CASE q = p /\ Crash(q)
        BY <2>2, <3>1
      <3>2. CASE Lock(q) \/ LockFails(q) \/ (q # p /\ Crash(q))
        BY <2>5, <3>2
      <3> QED
        BY <2>7, <3>1, <3>2
    <2> QED
      BY <2>3, <2>5, <2>6, <2>7 DEF Next, AllGone
  <1>2. ASSUME NEW c \in Consumers, pc'[c] \in Registered
        PROVE  header'[shmOf'[c]].ready
    <2> USE ProcessesAssumption DEF TypeInv, TypeOK, PcOK, ObjectsOK, Procs
    <2>1. \/ pc[c] \in Registered /\ shmOf'[c] = shmOf[c]
          \/ Register(c) /\ HeaderValid(shmOf[c])
      <3>1. ASSUME NEW q \in Producers, Producer(q)
            PROVE  pc'[c] = pc[c] /\ shmOf'[c] = shmOf[c]
        BY <3>1 DEF Producer, CreateSemaphore, CreateSharedMemory, InitializeHeader, FindSpace,
             AppendBlock, CheckFinished, RemoveSharedMemory, RemoveSemaphore, handles, Goto
      <3>2. ASSUME NEW d \in Consumers, d # c, Consumer(d)
            PROVE  pc'[c] = pc[c] /\ shmOf'[c] = shmOf[c]
        BY <3>2, ConsumerGoes DEF Goto
      <3>3. ASSUME Consumer(c), ~Register(c)
            PROVE  pc[c] \in Registered /\ shmOf'[c] = shmOf[c]
        BY <1>2, <3>3 DEF Consumer, OpenSemaphore, OpenSharedMemory, TakeBlock, TakeNoData,
             TakeFinished, TakeError, FinishBlock, handles, Goto, Registered
      <3>4. ASSUME Register(c)
            PROVE  HeaderValid(shmOf[c])
        BY <1>2, <3>4 DEF Register, Goto, Registered
      <3>5. ASSUME NEW q \in Procs, Lock(q) \/ LockFails(q) \/ Crash(q)
            PROVE  pc[c] \in Registered /\ shmOf'[c] = shmOf[c]
        <4>1. shmOf' = shmOf
          BY <3>5 DEF Lock, LockFails, Crash, handles
        <4>2. CASE q # c
          BY <1>2, <3>5, <4>1, <4>2 DEF Lock, LockFails, Crash, Goto
        <4>3. CASE q = c /\ Lock(q)
          <5>1. pc[c] \in DOMAIN Section /\ Section[pc[c]] \in Registered
            BY <1>2, <4>3 DEF Lock, Goto
          <5> QED
            BY <4>1, <5>1 DEF Section, Registered
        <4>4. CASE q = c /\ (LockFails(q) \/ Crash(q))
          BY <1>2, <4>4 DEF LockFails, Crash, Goto, Registered
        <4> QED
          BY <3>5, <4>2, <4>3, <4>4
      <3>6. CASE UNCHANGED vars
        BY <1>2, <3>6 DEF vars
      <3> QED
        BY <1>2, <3>1, <3>2, <3>3, <3>4, <3>5, <3>6 DEF Next, AllGone
    <2>2. CASE pc[c] \in Registered /\ shmOf'[c] = shmOf[c]
      <3>1. shmOf[c] \in Producers
        BY <2>2 DEF Handles, Attached, Registered, Section, Critical
      <3> QED
        BY <2>2, <3>1, ReadyStays DEF PhaseInv
    <2>3. CASE Register(c) /\ HeaderValid(shmOf[c])
      <3>1. shmOf[c] \in Producers /\ shmOf'[c] = shmOf[c]
        BY <2>3, InsideSegment DEF Register, Critical, handles
      <3> QED
        BY <2>3, <3>1, ReadyStays DEF HeaderValid
    <2> QED
      BY <2>1, <2>2, <2>3
  <1> QED
    BY <1>1, <1>2 DEF PhaseInv

-----------------------------------------------------------------------------
(* What consumers have taken.                                              *)

LEMMA TakenSteps ==
    ASSUME TypeInv, [Next]_vars, NEW c \in Consumers
    PROVE  \/ taken'[c] = NullOffset
           \/ /\ taken'[c] = taken[c]
              /\ pc[c] \in HasTaken => pc'[c] \in HasTaken /\ shmOf'[c] = shmOf[c]
           \/ /\ \E o \in Offsets : Takes(c, shmOf[c], o) /\ taken'[c] = o
              /\ shmOf' = shmOf /\ shmOf[c] \in Producers /\ pc'[c] \in HasTaken
  <1> USE ProcessesAssumption
      DEF TypeInv, TypeOK, PcOK, ObjectsOK, LocalsOK, Procs, Goto, HasTaken
  <1>1. ASSUME NEW p \in Producers, Producer(p)
        PROVE  taken' = taken /\ pc'[c] = pc[c] /\ shmOf'[c] = shmOf[c]
    BY <1>1 DEF Producer, CreateSemaphore, CreateSharedMemory, InitializeHeader, FindSpace,
         AppendBlock, CheckFinished, RemoveSharedMemory, RemoveSemaphore, locals, handles
  <1>2. ASSUME NEW d \in Consumers, d # c, Consumer(d)
        PROVE  taken'[c] = taken[c] /\ pc'[c] = pc[c] /\ shmOf'[c] = shmOf[c]
    <2>1. taken'[c] = taken[c]
      BY <1>2 DEF Consumer, OpenSemaphore, OpenSharedMemory, Register, TakeBlock, TakeNoData,
           TakeFinished, TakeError, FinishBlock, locals
    <2> QED
      BY <1>2, <2>1, ConsumerGoes
  <1>3. CASE TakeBlock(c)
    <2>1. PICK o \in Offsets : Takes(c, shmOf[c], o)
      BY <1>3, TakesPublished
    <2>2. taken'[c] = o
      BY <2>1 DEF Takes
    <2>3. shmOf' = shmOf /\ pc'[c] \in HasTaken
      BY <1>3 DEF TakeBlock, handles
    <2>4. shmOf[c] \in Producers
      BY <1>3, TakesPublished
    <2> QED
      BY <2>1, <2>2, <2>3, <2>4
  <1>4. CASE FinishBlock(c)
    <2>1. \/ taken' = [taken EXCEPT ![c] = NullOffset]
          \/ taken' = taken /\ pc' = [pc EXCEPT ![c] = "exited"] /\ shmOf' = shmOf
      BY <1>4 DEF FinishBlock, handles
    <2> QED
      BY <2>1
  <1>5. ASSUME Consumer(c), ~TakeBlock(c), ~FinishBlock(c)
        PROVE  taken' = taken /\ pc[c] \notin HasTaken
    BY <1>5 DEF Consumer, OpenSemaphore, OpenSharedMemory, Register, TakeNoData,
         TakeFinished, TakeError, locals
  <1>6. ASSUME NEW q \in Procs, Lock(q) \/ LockFails(q) \/ Crash(q)
        PROVE  /\ taken' = taken /\ shmOf' = shmOf
               /\ pc[c] \in HasTaken => pc'[c] \in HasTaken
    <2>1. taken' = taken /\ shmOf' = shmOf
      BY <1>6 DEF Lock, LockFails, Crash, locals, handles
    <2>2. pc'[c] = pc[c] \/ q = c
      BY <1>6 DEF Lock, LockFails, Crash
    <2>3. CASE Lock(c)
      BY <2>1, <2>3 DEF Lock, Section
    <2>4. CASE LockFails(c) \/ Crash(c)
      BY <2>1, <2>4 DEF LockFails, Crash
    <2> QED
      BY <1>6, <2>1, <2>2, <2>3, <2>4
  <1>7. CASE UNCHANGED vars
    BY <1>7 DEF vars
  <1> QED
    BY <1>1, <1>2, <1>3, <1>4, <1>5, <1>6, <1>7 DEF Next, AllGone

\* The published blocks only grow, and what was taken once is never READY again.
LEMMA PublishedStays ==
    ASSUME TypeInv, ChainInv, MemoryOK', TakenInv, [Next]_vars,
           NEW m \in Producers, NEW o \in Published(m)
    PROVE  /\ o \in Published(m)'
           /\ block[m][o].state # "READY" => block'[m][o].state # "READY"
           /\ block[m][o].state = "PROCESSED" => block'[m][o].state = "PROCESSED"
  <1>1. o \in Offsets /\ block[m] \in [Offsets -> BlockType] /\ block[m][o] \in BlockType
    BY PublishedOffsets DEF TypeInv, TypeOK, MemoryOK
  <1>2. CASE Idle(m)
    BY <1>2, PublishedKept DEF Idle
  <1>3. CASE InitializeHeader(m)
    <2>1. ~header[m].ready
      BY <1>3 DEF InitializeHeader, TakenInv, Starting
    <2> QED
      BY <2>1 DEF ChainInv, Published
  <1>4. ASSUME NEW b \in {block[m][o]} \cup
               {[block[m][o] EXCEPT !.next = n] : n \in Offsets \cup {NullOffset}}
        PROVE  b.state = block[m][o].state
    BY <1>1, <1>4 DEF BlockType
  <1>5. ASSUME NEW k \in 0 .. 3, Appends(m, k)
        PROVE  o \in Published(m)' /\ block'[m][o].state = block[m][o].state
    <2>1. CASE k = 3
      <3>1. PICK new \in Offsets : Publishes(m, new)
        BY <1>5, <2>1, PublishedAppend
      <3> QED
        BY <1>4, <3>1 DEF Publishes
    <2>2. CASE k # 3
      <3>1. Unnoticed(m)
        BY <1>5, <2>2, PublishedAppend
      <3> QED
        BY <1>4, <3>1 DEF Unnoticed
    <2> QED
      BY <2>1, <2>2
  <1>6. ASSUME NEW c \in Consumers, NEW r \in Offsets, Takes(c, m, r)
        PROVE  /\ o \in Published(m)'
               /\ block[m][o].state # "READY" => block'[m][o].state = block[m][o].state
    <2>1. Published(m)' = Published(m)
      BY <1>6, PublishedKept
    <2> QED
      BY <1>1, <1>6, <2>1 DEF Takes
  <1>7. ASSUME NEW c \in Consumers, NEW k \in 0 .. 3, Marks(c, m, k)
        PROVE  /\ o \in Published(m)'
               /\ block'[m][o].state \in {block[m][o].state, "PROCESSED"}
    <2>1. Published(m)' = Published(m)
      BY <1>7, PublishedKept
    <2>2. block'[m][o] = block[m][o] \/ block'[m][o] = FinishedBlock(block[m][o], k)
      BY <1>1, <1>7 DEF Marks
    <2>3. FinishedBlock(block[m][o], k).state \in {block[m][o].state, "PROCESSED"}
      BY <1>1 DEF FinishedBlock, BlockType
    <2> QED
      BY <2>1, <2>2, <2>3
  <1> QED
    BY <1>2, <1>3, <1>5, <1>6, <1>7, SegmentSteps

LEMMA HoldStep ==
    TypeInv /\ ChainInv /\ MemoryOK' /\ TakenInv /\ HoldInv /\ [Next]_vars => HoldInv'
  <1> SUFFICES ASSUME TypeInv, ChainInv, MemoryOK', TakenInv, HoldInv, [Next]_vars
               PROVE  HoldInv'
    OBVIOUS
  <1> DEFINE Kept(c) == /\ taken'[c] = taken[c]
                        /\ pc[c] \in HasTaken => pc'[c] \in HasTaken /\ shmOf'[c] = shmOf[c]
             Took(c) == /\ \E o \in Offsets : Takes(c, shmOf[c], o) /\ taken'[c] = o
                        /\ shmOf' = shmOf /\ shmOf[c] \in Producers /\ pc'[c] \in HasTaken
  <1>1. ASSUME NEW c \in Consumers PROVE taken'[c] = NullOffset \/ Kept(c) \/ Took(c)
    BY TakenSteps
  <1>2. ASSUME NEW c \in Consumers, taken[c] # NullOffset
        PROVE  /\ shmOf[c] \in Producers /\ taken[c] \in Published(shmOf[c])
               /\ block[shmOf[c]][taken[c]].state # "READY" /\ pc[c] \in HasTaken
    BY <1>2 DEF HoldInv
  <1>3. ASSUME NEW c \in Consumers, taken'[c] # NullOffset, Kept(c)
        PROVE  /\ taken'[c] = taken[c] /\ shmOf'[c] = shmOf[c] /\ shmOf[c] \in Producers
               /\ taken[c] \in Published(shmOf[c])'
               /\ block'[shmOf[c]][taken[c]].state # "READY" /\ pc'[c] \in HasTaken
               /\ block[shmOf[c]][taken[c]].state # "READY"
    BY <1>2, <1>3, PublishedStays
  <1>4. ASSUME NEW c \in Consumers, Took(c)
        PROVE  /\ shmOf'[c] = shmOf[c] /\ shmOf[c] \in Producers
               /\ taken'[c] \in Published(shmOf[c])'
               /\ block'[shmOf[c]][taken'[c]].state # "READY" /\ pc'[c] \in HasTaken
               /\ block[shmOf[c]][taken'[c]].state = "READY"
               /\ \A d \in Consumers \ {c} : taken'[d] = taken[d] /\ shmOf'[d] = shmOf[d]
    <2>1. PICK o \in Offsets : Takes(c, shmOf[c], o) /\ taken'[c] = o
      BY <1>4
    <2>2. Published(shmOf[c])' = Published(shmOf[c])
      BY <1>4, <2>1, PublishedKept
    <2>3. block[shmOf[c]] \in [Offsets -> BlockType]
      BY <1>4 DEF TypeInv, TypeOK, MemoryOK
    <2>4. block'[shmOf[c]][o].state = "IN_PROGRESS"
      BY <2>1, <2>3 DEF Takes, BlockType
    <2>5. \A d \in Consumers \ {c} : taken'[d] = taken[d]
      BY <2>1 DEF Takes, TypeInv, TypeOK, LocalsOK
    <2> QED
      BY <1>4, <2>1, <2>2, <2>4, <2>5 DEF Takes
  <1> HIDE DEF Kept, Took
  <1>5. ASSUME NEW c \in Consumers, taken'[c] # NullOffset
        PROVE  /\ shmOf'[c] \in Producers /\ taken'[c] \in Published(shmOf[c])'
               /\ block'[shmOf'[c]][taken'[c]].state # "READY"
               /\ pc'[c] \in HasTaken
    BY <1>1, <1>3, <1>4, <1>5
  <1>6. ASSUME NEW c \in Consumers, NEW d \in Consumers, c # d, taken'[c] # NullOffset,
               shmOf'[c] = shmOf'[d], taken'[c] = taken'[d]
        PROVE  FALSE
    <2>1. CASE Kept(c) /\ Kept(d)
      BY <1>3, <1>6, <2>1 DEF HoldInv
    <2>2. CASE Took(c)
      <3>1. taken[d] = taken'[c] /\ shmOf[d] = shmOf[c] /\ taken[d] # NullOffset
        BY <1>4, <1>6, <2>2
      <3> QED
        BY <1>2, <1>4, <2>2, <3>1
    <2>3. CASE Took(d)
      <3>1. taken[c] = taken'[d] /\ shmOf[c] = shmOf[d] /\ taken[c] # NullOffset
        BY <1>4, <1>6, <2>3
      <3> QED
        BY <1>2, <1>4, <2>3, <3>1
    <2> QED
      BY <1>1, <1>6, <2>1, <2>2, <2>3
  <1> QED
    BY <1>5, <1>6 DEF HoldInv

-----------------------------------------------------------------------------
(* The counters.                                                           *)

LEMMA CrashesGrow ==
    ASSUME TypeInv, [Next]_vars
    PROVE  crashes \in Nat /\ crashes' \in {crashes, crashes + 1}
  <1>1. crashes \in Nat
    BY ConfigAssumption DEF TypeInv, TypeOK, LocalsOK
  <1>2. ASSUME NEW p \in Producers, Producer(p)
        PROVE  crashes' = crashes
    BY <1>2 DEF Producer, CreateSemaphore, CreateSharedMemory, InitializeHeader, FindSpace,
         AppendBlock, CheckFinished, RemoveSharedMemory, RemoveSemaphore
  <1>3. ASSUME NEW c \in Consumers, Consumer(c)
        PROVE  crashes' = crashes
    BY <1>3 DEF Consumer, OpenSemaphore, OpenSharedMemory, Register, TakeBlock, TakeNoData,
         TakeFinished, TakeError, FinishBlock
  <1>4. ASSUME NEW q \in Procs, Lock(q) \/ LockFails(q) \/ Crash(q)
        PROVE  crashes' \in {crashes, crashes + 1}
    <2>1. Lock(q) \/ LockFails(q) => crashes' = crashes
      BY DEF Lock, LockFails
    <2>2. Crash(q) => crashes' = crashes + 1
      BY DEF Crash
    <2> QED
      BY <1>4, <2>1, <2>2
  <1>5. UNCHANGED vars => crashes' = crashes
    BY DEF vars
  <1> QED
    BY <1>1, <1>2, <1>3, <1>4, <1>5 DEF Next, AllGone

LEMMA CountStep ==
    TypeInv /\ ChainInv /\ MemoryOK' /\ TakenInv /\ HoldInv /\ CountInv /\ [Next]_vars
       => CountInv'
  <1> SUFFICES ASSUME TypeInv, ChainInv, MemoryOK', TakenInv, HoldInv, CountInv, [Next]_vars,
                      NEW m \in Producers
               PROVE  /\ IsFiniteSet(Published(m)')
                      /\ header'[m].published = Cardinality(Published(m)')
                      /\ header'[m].processed <= Cardinality(ProcessedIn(m)')
                      /\ crashes' = 0 => header'[m].processed = Cardinality(ProcessedIn(m)')
    BY DEF CountInv
  <1>1. /\ IsFiniteSet(Published(m)) /\ header[m].published = Cardinality(Published(m))
        /\ header[m].processed <= Cardinality(ProcessedIn(m))
        /\ crashes = 0 => header[m].processed = Cardinality(ProcessedIn(m))
    BY DEF CountInv
  <1>2. IsFiniteSet(ProcessedIn(m)) /\ Cardinality(ProcessedIn(m)) \in Nat
    BY <1>1, FS_Subset, FS_CardinalityType DEF ProcessedIn
  <1>3. header[m].processed \in Nat /\ crashes \in Nat /\ crashes' \in {crashes, crashes + 1}
    BY CrashesGrow DEF TypeInv, TypeOK, MemoryOK, HeaderType
  <1>4. Published(m) \subseteq Offsets /\ block[m] \in [Offsets -> BlockType]
    BY PublishedOffsets DEF TypeInv, TypeOK, MemoryOK
  <1>5. ASSUME NEW o \in Published(m),
               NEW b \in {block[m][o]} \cup
                  {[block[m][o] EXCEPT !.next = n] : n \in Offsets \cup {NullOffset}}
        PROVE  b.state = block[m][o].state
    BY <1>4, <1>5 DEF BlockType
  <1>6. ASSUME Published(m)' = Published(m), header'[m].published = header[m].published,
               header'[m].processed = header[m].processed,
               ProcessedIn(m)' = ProcessedIn(m)
        PROVE  /\ IsFiniteSet(Published(m)')
               /\ header'[m].published = Cardinality(Published(m)')
               /\ header'[m].processed <= Cardinality(ProcessedIn(m)')
               /\ crashes' = 0 => header'[m].processed = Cardinality(ProcessedIn(m)')
    BY <1>1, <1>3, <1>6
  <1>7. CASE Idle(m)
    <2>1. Published(m)' = Published(m) /\ header'[m].published = header[m].published
      BY <1>7, PublishedKept
    <2>2. ProcessedIn(m)' = ProcessedIn(m)
      BY <1>7, <2>1 DEF ProcessedIn, Idle
    <2> QED
      BY <1>6, <1>7, <2>1, <2>2 DEF Idle
  <1>8. CASE InitializeHeader(m)
    <2>1. header'[m] = [ZeroHeader EXCEPT !.ready = TRUE, !.free = HeaderWords]
      BY <1>8 DEF InitializeHeader, TypeInv, TypeOK, MemoryOK
    <2>2. header'[m].published = 0 /\ header'[m].processed = 0
      BY <2>1 DEF ZeroHeader
    <2>3. Published(m)' = {} /\ ProcessedIn(m)' = {}
      BY <2>2 DEF Published, ProcessedIn
    <2> QED
      BY <2>2, <2>3, FS_EmptySet
  <1>9. ASSUME NEW k \in 0 .. 3, Appends(m, k)
        PROVE  /\ IsFiniteSet(Published(m)')
               /\ header'[m].published = Cardinality(Published(m)')
               /\ header'[m].processed <= Cardinality(ProcessedIn(m)')
               /\ crashes' = 0 => header'[m].processed = Cardinality(ProcessedIn(m)')
    <2>1. CASE k = 3
      <3>1. PICK o \in Offsets : Publishes(m, o)
        BY <1>9, <2>1, PublishedAppend
      <3>2. ProcessedIn(m)' = ProcessedIn(m)
        BY <1>5, <3>1 DEF Publishes, ProcessedIn
      <3>3. /\ IsFiniteSet(Published(m)')
            /\ Cardinality(Published(m)') = Cardinality(Published(m)) + 1
        BY <1>1, <3>1, FS_AddElement DEF Publishes
      <3> QED
        BY <1>1, <1>3, <3>1, <3>2, <3>3 DEF Publishes
    <2>2. CASE k # 3
      <3>1. Unnoticed(m) /\ header'[m].processed = header[m].processed
        BY <1>9, <2>2, PublishedAppend
      <3>2. ProcessedIn(m)' = ProcessedIn(m)
        BY SMTT(30), <1>5, <3>1 DEF Unnoticed, ProcessedIn
      <3> QED
        BY <1>6, <3>1, <3>2 DEF Unnoticed
    <2> QED
      BY <2>1, <2>2
  <1>10. ASSUME NEW c \in Consumers, NEW o \in Offsets, Takes(c, m, o)
         PROVE  /\ IsFiniteSet(Published(m)')
                /\ header'[m].published = Cardinality(Published(m)')
                /\ header'[m].processed <= Cardinality(ProcessedIn(m)')
                /\ crashes' = 0 => header'[m].processed = Cardinality(ProcessedIn(m)')
    <2>1. Published(m)' = Published(m) /\ header'[m].published = header[m].published
      BY <1>10, PublishedKept
    <2>2. /\ block'[m] = [block[m] EXCEPT ![o].state = "IN_PROGRESS"]
          /\ block[m][o].state = "READY" /\ block[m][o] \in BlockType
      BY <1>4, <1>10 DEF Takes
    <2>3. block'[m][o].state = "IN_PROGRESS" /\ \A r \in Offsets \ {o} : block'[m][r] = block[m][r]
      BY <1>4, <2>2 DEF BlockType
    <2>4. ProcessedIn(m)' = ProcessedIn(m)
      BY <1>4, <2>1, <2>2, <2>3 DEF ProcessedIn
    <2> QED
      BY <1>6, <1>10, <2>1, <2>4 DEF Takes
  <1>11. ASSUME NEW c \in Consumers, NEW k \in 0 .. 3, Marks(c, m, k)
         PROVE  /\ IsFiniteSet(Published(m)')
                /\ header'[m].published = Cardinality(Published(m)')
                /\ header'[m].processed <= Cardinality(ProcessedIn(m)')
                /\ crashes' = 0 => header'[m].processed = Cardinality(ProcessedIn(m)')
    <2> DEFINE o == taken[c]
    <2>1. Published(m)' = Published(m) /\ header'[m].published = header[m].published
      BY <1>11, PublishedKept
    <2>2. o \in Offsets /\ block[m][o].state = "IN_PROGRESS"
      BY <1>11 DEF Marks, CanFinish, BlockValid
    <2>3. o \in Published(m)
      <3>1. o # NullOffset
        BY <2>2 DEF Offsets, HeaderWords, NullOffset
      <3> QED
        BY <1>11, <3>1 DEF HoldInv, Marks
    <2>4. /\ block'[m] = [block[m] EXCEPT ![o] = FinishedBlock(block[m][o], k)]
          /\ crashes' = (IF k = 3 THEN crashes ELSE crashes + 1)
          /\ header'[m].processed = IF k = 3 THEN header[m].processed + 1 ELSE header[m].processed
      BY <1>11 DEF Marks
    <2> HIDE DEF o
    <2>5. block'[m][o] = FinishedBlock(block[m][o], k)
          /\ \A r \in Offsets \ {o} : block'[m][r] = block[m][r]
      BY <1>4, <2>2, <2>4
    <2>6. FinishedBlock(block[m][o], k).state = IF k >= 2 THEN "PROCESSED" ELSE "IN_PROGRESS"
      BY <1>4, <2>2 DEF FinishedBlock, BlockType
    <2>7. CASE k >= 2
      <3>1. ProcessedIn(m)' = ProcessedIn(m) \cup {o} /\ o \notin ProcessedIn(m)
        BY <1>4, <2>1, <2>2, <2>3, <2>5, <2>6, <2>7 DEF ProcessedIn
      <3>2. Cardinality(ProcessedIn(m)') = Cardinality(ProcessedIn(m)) + 1
        BY <1>2, <3>1, FS_AddElement
      <3> QED
        BY <1>1, <1>2, <1>3, <2>1, <2>4, <3>2
    <2>8. CASE ~(k >= 2)
      <3>1. ProcessedIn(m)' = ProcessedIn(m)
        BY <1>4, <2>1, <2>2, <2>5, <2>6, <2>8 DEF ProcessedIn
      <3>2. k # 3
        BY <2>8
      <3> QED
        BY <1>6, <2>1, <2>4, <3>1, <3>2
    <2> QED
      BY <2>7, <2>8
  <1> QED
    BY <1>7, <1>8, <1>9, <1>10, <1>11, SegmentSteps

-----------------------------------------------------------------------------
(* Success.                                                                *)

LEMMA ResultSteps ==
    ASSUME TypeInv, [Next]_vars, NEW m \in Producers
    PROVE  result'[m] = result[m] \/ CheckFinished(m)
  <1> USE ProcessesAssumption DEF TypeInv, TypeOK, LocalsOK, Procs
  <1>1. ASSUME NEW p \in Producers, Producer(p), ~CheckFinished(m)
        PROVE  result'[m] = result[m]
    BY <1>1 DEF Producer, CreateSemaphore, CreateSharedMemory, InitializeHeader, FindSpace,
         AppendBlock, CheckFinished, RemoveSharedMemory, RemoveSemaphore
  <1>2. ASSUME NEW c \in Consumers, Consumer(c)
        PROVE  result'[m] = result[m]
    BY <1>2 DEF Consumer, OpenSemaphore, OpenSharedMemory, Register, TakeBlock, TakeNoData,
         TakeFinished, TakeError, FinishBlock
  <1>3. ASSUME NEW q \in Procs, Lock(q) \/ LockFails(q) \/ Crash(q)
        PROVE  result'[m] = result[m]
    BY <1>3 DEF Lock, LockFails, Crash
  <1>4. CASE UNCHANGED vars
    BY <1>4 DEF vars
  <1> QED
    BY <1>1, <1>2, <1>3, <1>4 DEF Next, AllGone

\* A producer that has come to its cleanup leaves its segment's list alone.
LEMMA CleanupKeeps ==
    ASSUME TypeInv, ChainInv, MemoryOK', [Next]_vars, NEW m \in Producers,
           pc[m] \in {"remove_shm", "remove_sem", "exited", "crashed"}
    PROVE  header'[m].done = header[m].done /\ Published(m)' = Published(m)
  <1>1. ~InitializeHeader(m) /\ \A k \in 0 .. 3 : ~Appends(m, k)
    BY DEF InitializeHeader, Appends
  <1>2. Published(m)' = Published(m)
    BY <1>1, SegmentSteps, PublishedKept
  <1>3. CASE Producer(m)
    <2>1. UNCHANGED memory
      BY <1>3 DEF Producer, CreateSemaphore, CreateSharedMemory, InitializeHeader, FindSpace,
           AppendBlock, CheckFinished, RemoveSharedMemory, RemoveSemaphore
    <2> QED
      BY <1>2, <2>1 DEF memory
  <1>4. CASE Crash(m)
    <2>1. UNCHANGED memory
      BY <1>4 DEF Crash, LosesStores
    <2> QED
      BY <1>2, <2>1 DEF memory
  <1>5. CASE \/ \E p \in Producers \ {m} : Producer(p)
             \/ \E c \in Consumers : Consumer(c)
             \/ \E p \in Procs : Lock(p) \/ LockFails(p) \/ (p # m /\ Crash(p))
    BY <1>2, <1>5, OwnerPublishes
  <1>6. CASE UNCHANGED vars
    BY <1>2, <1>6 DEF vars
  <1> QED
    BY <1>3, <1>4, <1>5, <1>6 DEF Next, AllGone

LEMMA SuccessStep ==
    TypeInv /\ ChainInv /\ MemoryOK' /\ TakenInv /\ PhaseInv /\ CountInv /\ SuccessInv
       /\ [Next]_vars => SuccessInv'
  <1> SUFFICES ASSUME TypeInv, ChainInv, MemoryOK', TakenInv, PhaseInv, CountInv, SuccessInv,
                      [Next]_vars, NEW m \in Producers, result'[m] = 0
               PROVE  header'[m].done /\ ProcessedIn(m)' = Published(m)'
    BY DEF SuccessInv
  <1>1. CASE result[m] = 0
    <2>1. pc[m] \in {"remove_shm", "remove_sem", "exited", "crashed"}
      BY <1>1 DEF PhaseInv, PhaseOf
    <2>2. header'[m].done = header[m].done /\ Published(m)' = Published(m)
      BY <2>1, CleanupKeeps
    <2>3. header[m].done /\ \A o \in Published(m) : block[m][o].state = "PROCESSED"
      BY <1>1 DEF SuccessInv, ProcessedIn
    <2>4. \A o \in Published(m) : block'[m][o].state = "PROCESSED"
      BY <2>3, PublishedStays
    <2> QED
      BY <2>2, <2>3, <2>4 DEF ProcessedIn
  <1>2. CASE result[m] # 0
    <2>1. CheckFinished(m)
      BY <1>2, ResultSteps
    <2>2. pc[m] = "check" /\ shmOf[m] = m /\ UNCHANGED memory
      BY <2>1 DEF CheckFinished, TypeInv, Handles, Attached, Critical
    <2>3. Finished(m)
      BY <2>1, <2>2 DEF CheckFinished, TypeInv, TypeOK, LocalsOK, Procs
    <2>4. header[m].done
      BY <2>2 DEF PhaseInv, PhaseOf
    <2>5. header'[m] = header[m] /\ block'[m] = block[m]
      BY <2>2 DEF memory
    <2>6. Published(m)' = Published(m)
      BY <2>5, PublishedKept DEF Idle, KeepsList
    <2>7. ProcessedIn(m) = Published(m)
      <3>1. ProcessedIn(m) \subseteq Published(m)
        BY DEF ProcessedIn
      <3>2. /\ IsFiniteSet(Published(m)) /\ header[m].published = Cardinality(Published(m))
            /\ header[m].processed <= Cardinality(ProcessedIn(m))
        BY DEF CountInv
      <3>3. /\ IsFiniteSet(ProcessedIn(m))
            /\ Cardinality(ProcessedIn(m)) <= Cardinality(Published(m))
            /\ Cardinality(ProcessedIn(m)) = Cardinality(Published(m))
                  => ProcessedIn(m) = Published(m)
        BY <3>1, <3>2, FS_Subset
      <3>4. Cardinality(ProcessedIn(m)) \in Nat /\ Cardinality(Published(m)) \in Nat
        BY <3>2, <3>3, FS_CardinalityType
      <3>5. header[m].processed = header[m].published
        BY <2>3 DEF Finished, AllProcessed
      <3> QED
        BY <3>2, <3>3, <3>4, <3>5
    <2> QED
      BY <2>4, <2>5, <2>6, <2>7 DEF ProcessedIn
  <1> QED
    BY <1>1, <1>2

ListInv == TakenInv /\ ChainInv /\ PhaseInv /\ HoldInv /\ CountInv /\ SuccessInv

LEMMA ListInit == Init => ListInv
  <1> SUFFICES ASSUME Init PROVE ListInv
    OBVIOUS
  <1> USE ProcessesAssumption DEF Procs
  <1>1. TakenInv
    BY DEF Init, TakenInv, TakenByOne, Holding, Starting, ZeroHeader, ZeroBlock
  <1>2. PhaseInv
    BY DEF Init, PhaseInv, PhaseOf, Starting, Working, Registered, ZeroHeader
  <1>3. HoldInv
    BY DEF Init, HoldInv
  <1>4. ASSUME NEW m \in Producers
        PROVE  /\ header[m].published = 0 /\ header[m].processed = 0
               /\ Published(m) = {} /\ ProcessedIn(m) = {}
    <2>1. header[m].published = 0 /\ header[m].processed = 0
      BY DEF Init, ZeroHeader
    <2> QED
      BY <2>1 DEF Published, ProcessedIn
  <1>5. CountInv
    BY <1>4, FS_EmptySet DEF CountInv
  <1>6. SuccessInv
    BY DEF Init, SuccessInv
  <1> QED
    BY <1>1, <1>2, <1>3, <1>5, <1>6, ChainInit DEF ListInv

LEMMA ListStep == TypeInv /\ ListInv /\ [Next]_vars => ListInv'
  BY MemoryStep, TakenStep, ChainStep, PhaseStep, HoldStep, CountStep, SuccessStep DEF ListInv

\* A producer that reports success has closed its list, every block in it is
\* PROCESSED, and no consumer of the segment holds one: for any number of
\* processes, across crashes, although the producer only compares two counters.
THEOREM Drained == Spec => []DrainedBeforeRemoval
  <1>1. TypeInv /\ ListInv => DrainedBeforeRemoval
    <2> SUFFICES ASSUME TypeInv, ListInv, NEW p \in Producers, result[p] = 0
                 PROVE  /\ header[p].done
                        /\ \A o \in Published(p) : block[p][o].state = "PROCESSED"
                        /\ \A c \in Consumers : shmOf[c] = p => ~Holding(c)
      BY DEF DrainedBeforeRemoval
    <2>1. header[p].done /\ \A o \in Published(p) : block[p][o].state = "PROCESSED"
      BY DEF ListInv, SuccessInv, ProcessedIn
    <2>2. ASSUME NEW c \in Consumers, shmOf[c] = p, Holding(c)
          PROVE  FALSE
      <3>1. taken[c] \in Offsets /\ block[p][taken[c]].state = "IN_PROGRESS"
        BY <2>2 DEF ListInv, TakenInv, TakenByOne
      <3>2. taken[c] # NullOffset
        BY <3>1 DEF Offsets, HeaderWords, NullOffset
      <3>3. taken[c] \in Published(p)
        BY <2>2, <3>2 DEF ListInv, HoldInv
      <3> QED
        BY <2>1, <3>1, <3>3
    <2> QED
      BY <2>1, <2>2
  <1> QED
    BY <1>1, InitType, TypeStep, ListInit, ListStep, PTL DEF Spec

-----------------------------------------------------------------------------
(* The exchange implements BlockPool.                                      *)

\* A step that the pool does not see in segment m, one that changes block b to
\* status s with worker w, and the two that only the owner takes.
SameBlocks(m) ==
    \A o \in Offsets : StatusOf(m, o)' = StatusOf(m, o) /\ WorkerOf(m, o)' = WorkerOf(m, o)
SameOwner(m) ==
    /\ header'[m].done = header[m].done
    /\ (result'[m] = 0) = (result[m] = 0)
SameInPool(m) == SameBlocks(m) /\ SameOwner(m)
ChangesTo(m, b, s, w) ==
    /\ \A o \in Offsets :
          /\ StatusOf(m, o)' = IF o = b THEN s ELSE StatusOf(m, o)
          /\ WorkerOf(m, o)' = IF o = b THEN w ELSE WorkerOf(m, o)
    /\ SameOwner(m)
Closes(m) ==
    /\ SameBlocks(m) /\ (result'[m] = 0) = (result[m] = 0)
    /\ header[m].done = FALSE /\ header'[m].done = TRUE
Succeeds(m) ==
    /\ SameBlocks(m) /\ header'[m].done = header[m].done
    /\ header[m].done = TRUE /\ \A o \in Offsets : StatusOf(m, o) \in {"absent", "complete"}
    /\ result'[m] = 0

StepsInPool(m) ==
    \/ SameInPool(m)
    \/ \E b \in Offsets : /\ StatusOf(m, b) = "absent" /\ WorkerOf(m, b) = None
                          /\ header[m].done = FALSE /\ ChangesTo(m, b, "ready", None)
    \/ \E b \in Offsets, c \in Consumers :
          StatusOf(m, b) = "ready" /\ ChangesTo(m, b, "taken", c)
    \/ \E b \in Offsets : /\ StatusOf(m, b) = "taken" /\ WorkerOf(m, b) # None
                          /\ ChangesTo(m, b, "complete", None)
    \/ Closes(m)
    \/ Succeeds(m)

\* One segment's step is the pool's.
LEMMA PoolLifts ==
    ASSUME NEW m \in Producers, \A q \in Producers \ {m} : SameInPool(q), StepsInPool(m)
    PROVE  [Pool!Next]_(Pool!poolVars)
  <1> DEFINE status == [q \in Producers |-> [o \in Offsets |-> StatusOf(q, o)]]
             worker == [q \in Producers |-> [o \in Offsets |-> WorkerOf(q, o)]]
             closed == [q \in Producers |-> header[q].done]
             success == [q \in Producers |-> result[q] = 0]
  <1>1. ASSUME SameBlocks(m) PROVE status' = status /\ worker' = worker
    BY <1>1 DEF SameInPool, SameBlocks
  <1>2. ASSUME NEW b \in Offsets, NEW s, NEW w, ChangesTo(m, b, s, w)
        PROVE  status' = [status EXCEPT ![m][b] = s] /\ worker' = [worker EXCEPT ![m][b] = w]
    BY <1>2 DEF SameInPool, SameBlocks, ChangesTo
  <1>3. ASSUME header'[m].done = header[m].done PROVE closed' = closed
    BY <1>3 DEF SameInPool, SameOwner
  <1>4. ASSUME (result'[m] = 0) = (result[m] = 0) PROVE success' = success
    BY <1>4 DEF SameInPool, SameOwner
  <1>5. /\ \A o \in Offsets : status[m][o] = StatusOf(m, o) /\ worker[m][o] = WorkerOf(m, o)
        /\ closed[m] = header[m].done
    OBVIOUS
  <1>6. CASE SameInPool(m)
    BY <1>1, <1>3, <1>4, <1>6 DEF SameInPool, SameOwner, Pool!poolVars
  <1>7. ASSUME NEW b \in Offsets, StatusOf(m, b) = "absent", WorkerOf(m, b) = None,
               header[m].done = FALSE, ChangesTo(m, b, "ready", None)
        PROVE  Pool!Publish(m, b)
    <2>1. status' = [status EXCEPT ![m][b] = "ready"]
      BY <1>2, <1>7
    <2>2. worker' = worker
      BY <1>7 DEF SameInPool, SameBlocks, ChangesTo
    <2>3. closed' = closed /\ success' = success
      BY <1>3, <1>4, <1>7 DEF ChangesTo, SameOwner
    <2>4. status[m][b] = "absent" /\ ~closed[m]
      BY <1>5, <1>7
    <2> QED
      BY <2>1, <2>2, <2>3, <2>4 DEF Pool!Publish
  <1>8. ASSUME NEW b \in Offsets, NEW c \in Consumers, StatusOf(m, b) = "ready",
               ChangesTo(m, b, "taken", c)
        PROVE  Pool!Take(m, b, c)
    <2>1. closed' = closed /\ success' = success
      BY <1>3, <1>4, <1>8 DEF ChangesTo, SameOwner
    <2>2. status' = [status EXCEPT ![m][b] = "taken"] /\ worker' = [worker EXCEPT ![m][b] = c]
      <3> HIDE DEF status, worker
      <3> QED
        BY <1>2, <1>8
    <2>3. status[m][b] = "ready"
      BY <1>5, <1>8
    <2> QED
      BY <2>1, <2>2, <2>3 DEF Pool!Take
  <1>9. ASSUME NEW b \in Offsets, StatusOf(m, b) = "taken", WorkerOf(m, b) # None,
               ChangesTo(m, b, "complete", None)
        PROVE  Pool!Complete(m, b)
    <2>1. closed' = closed /\ success' = success
      BY <1>3, <1>4, <1>9 DEF ChangesTo, SameOwner
    <2>2. status' = [status EXCEPT ![m][b] = "complete"] /\ worker' = [worker EXCEPT ![m][b] = None]
      <3> HIDE DEF status, worker
      <3> QED
        BY <1>2, <1>9
    <2>3. status[m][b] = "taken" /\ worker[m][b] # None
      BY <1>5, <1>9
    <2> QED
      BY <2>1, <2>2, <2>3 DEF Pool!Complete
  <1>10. ASSUME Closes(m)
         PROVE  Pool!Close(m)
    <2>1. closed' = [closed EXCEPT ![m] = TRUE] /\ ~closed[m]
      BY <1>10 DEF Closes, SameInPool, SameOwner
    <2> QED
      BY <1>1, <1>4, <1>10, <2>1 DEF Closes, Pool!Close
  <1>11. ASSUME Succeeds(m)
         PROVE  Pool!Succeed(m)
    <2>1. success' = [success EXCEPT ![m] = TRUE] /\ closed[m]
      BY <1>11 DEF Succeeds, SameInPool, SameOwner
    <2> QED
      BY <1>1, <1>3, <1>5, <1>11, <2>1 DEF Succeeds, Pool!Succeed
  <1> QED
    BY <1>6, <1>7, <1>8, <1>9, <1>10, <1>11 DEF StepsInPool, Pool!Next

\* The pool does not see a step that leaves a block in its state, published or
\* not, and in the hands that hold it.
LEMMA UnseenByPool ==
    ASSUME NEW m \in Producers, NEW o \in Offsets,
           (o \in Published(m)') <=> (o \in Published(m)),
           o \in Published(m) => block'[m][o].state = block[m][o].state,
           \A c \in Consumers :
              (shmOf'[c] = m /\ taken'[c] = o) <=> (shmOf[c] = m /\ taken[c] = o)
    PROVE  StatusOf(m, o)' = StatusOf(m, o) /\ WorkerOf(m, o)' = WorkerOf(m, o)
  <1>1. StatusOf(m, o)' = StatusOf(m, o)
    BY DEF StatusOf
  <1>2. (CHOOSE c \in Consumers : shmOf'[c] = m /\ taken'[c] = o)
        = (CHOOSE c \in Consumers : shmOf[c] = m /\ taken[c] = o)
    OBVIOUS
  <1> QED
    BY <1>1, <1>2, Zenon DEF WorkerOf

\* A consumer gives up the block it has by finishing it.
LEMMA DroppedIsMarked ==
    ASSUME TypeInv, [Next]_vars, NEW c \in Consumers,
           taken[c] # NullOffset, taken'[c] = NullOffset
    PROVE  FinishBlock(c) /\ shmOf[c] \in Producers /\ Marks(c, shmOf[c], 3)
  <1> USE ProcessesAssumption DEF TypeInv, TypeOK, LocalsOK, Procs
  <1>1. ASSUME NEW p \in Producers, Producer(p)
        PROVE  taken' = taken
    BY <1>1 DEF Producer, CreateSemaphore, CreateSharedMemory, InitializeHeader, FindSpace,
         AppendBlock, CheckFinished, RemoveSharedMemory, RemoveSemaphore, locals
  <1>2. ASSUME NEW d \in Consumers, d # c, Consumer(d)
        PROVE  taken'[c] = taken[c]
    BY <1>2 DEF Consumer, OpenSemaphore, OpenSharedMemory, Register, TakeBlock, TakeNoData,
         TakeFinished, TakeError, FinishBlock, locals
  <1>3. CASE TakeBlock(c)
    <2>1. PICK o \in Offsets : taken' = [taken EXCEPT ![c] = o]
      BY <1>3, TakesPublished DEF Takes
    <2> QED
      BY <2>1 DEF Offsets, HeaderWords, NullOffset
  <1>4. ASSUME Consumer(c), ~TakeBlock(c), ~FinishBlock(c)
        PROVE  taken' = taken
    BY <1>4 DEF Consumer, OpenSemaphore, OpenSharedMemory, Register, TakeNoData, TakeFinished,
         TakeError, locals
  <1>5. CASE FinishBlock(c)
    <2>1. shmOf[c] \in Producers /\ ~TakeBlock(c)
      BY <1>5, InsideSegment DEF FinishBlock, TakeBlock, Critical
    <2> QED
      BY <1>5, <2>1, ConsumerOnSegment DEF Consumer
  <1>6. ASSUME NEW q \in Procs, Lock(q) \/ LockFails(q) \/ Crash(q)
        PROVE  taken' = taken
    BY <1>6 DEF Lock, LockFails, Crash, locals
  <1>7. CASE UNCHANGED vars
    BY <1>7 DEF vars
  <1> QED
    BY <1>1, <1>2, <1>3, <1>4, <1>5, <1>6, <1>7 DEF Next, AllGone

\* Who holds what, before and after a step.
LEMMA Hands ==
    ASSUME TypeInv, HoldInv, [Next]_vars, NEW m \in Producers, NEW o \in Offsets,
           NEW c \in Consumers
    PROVE  \/ (shmOf'[c] = m /\ taken'[c] = o) <=> (shmOf[c] = m /\ taken[c] = o)
           \/ Takes(c, m, o) /\ shmOf'[c] = m /\ taken'[c] = o
           \/ FinishBlock(c) /\ Marks(c, m, 3) /\ taken[c] = o
  <1>1. o # NullOffset
    BY DEF Offsets, HeaderWords, NullOffset
  <1>2. CASE taken'[c] = NullOffset
    <2>1. taken[c] # NullOffset => FinishBlock(c) /\ Marks(c, shmOf[c], 3)
      BY <1>2, DroppedIsMarked
    <2> QED
      BY <1>1, <1>2, <2>1
  <1>3. CASE /\ taken'[c] = taken[c]
             /\ pc[c] \in HasTaken => pc'[c] \in HasTaken /\ shmOf'[c] = shmOf[c]
    BY <1>1, <1>3 DEF HoldInv
  <1>4. CASE /\ \E r \in Offsets : Takes(c, shmOf[c], r) /\ taken'[c] = r
             /\ shmOf' = shmOf /\ shmOf[c] \in Producers /\ pc'[c] \in HasTaken
    <2>1. PICK r \in Offsets : Takes(c, shmOf[c], r) /\ taken'[c] = r
      BY <1>4
    <2>2. taken[c] = NullOffset
      BY <2>1 DEF HoldInv, HasTaken, Takes, TakeBlock
    <2> QED
      BY <1>1, <1>4, <2>1, <2>2
  <1> QED
    BY <1>2, <1>3, <1>4, TakenSteps

\* A segment that a step does not touch.
LEMMA UntouchedSegment ==
    ASSUME TypeInv, ListInv, MemoryOK', NEW m \in Producers, Idle(m),
           header'[m].done = header[m].done, result'[m] = result[m],
           \A c \in Consumers, o \in Offsets :
              (shmOf'[c] = m /\ taken'[c] = o) <=> (shmOf[c] = m /\ taken[c] = o)
    PROVE  SameInPool(m)
  <1>1. Published(m)' = Published(m) /\ block'[m] = block[m]
    BY PublishedKept DEF Idle, ListInv
  <1>2. \A o \in Offsets : StatusOf(m, o)' = StatusOf(m, o) /\ WorkerOf(m, o)' = WorkerOf(m, o)
    BY <1>1, UnseenByPool
  <1> QED
    BY <1>2 DEF SameInPool, SameBlocks, SameOwner

LEMMA PoolProducer ==
    ASSUME TypeInv, ListInv, ListInv', MemoryOK', NEW p \in Producers, Producer(p)
    PROVE  [Pool!Next]_(Pool!poolVars)
  <1>1. taken' = taken /\ \A c \in Consumers : shmOf'[c] = shmOf[c]
    BY ProcessesAssumption DEF Producer, CreateSemaphore, CreateSharedMemory, InitializeHeader,
       FindSpace, AppendBlock, CheckFinished, RemoveSharedMemory, RemoveSemaphore, locals,
       handles, TypeInv, TypeOK, ObjectsOK, Procs
  <1>2. ASSUME NEW m \in Producers, Idle(m), header'[m].done = header[m].done,
               result'[m] = result[m]
        PROVE  SameInPool(m)
    BY <1>1, <1>2, UntouchedSegment
  <1>3. ASSUME NEW m \in Producers \ {p}
        PROVE  SameInPool(m)
    <2>1. result'[m] = result[m]
      BY DEF Producer, CreateSemaphore, CreateSharedMemory, InitializeHeader,
         FindSpace, AppendBlock, CheckFinished, RemoveSharedMemory, RemoveSemaphore, TypeInv,
         TypeOK, LocalsOK, Procs
    <2>2. header'[m].done = header[m].done
      BY OwnerPublishes
    <2>3. Idle(m)
      <3>1. CASE pc[p] \in Attached
        <4>1. shmOf[p] = p
          BY <3>1 DEF TypeInv, Handles
        <4> QED
          BY <4>1, OtherSegments DEF Procs
      <3>2. CASE pc[p] \notin Attached
        BY <3>2 DEF Producer, CreateSemaphore, CreateSharedMemory, InitializeHeader, FindSpace,
           AppendBlock, CheckFinished, RemoveSharedMemory, RemoveSemaphore, memory, Attached,
           Critical, Idle, KeepsList
      <3> QED
        BY <3>1, <3>2
    <2> QED
      BY <1>2, <2>1, <2>2, <2>3
  <1>4. /\ header[p] \in HeaderType /\ header \in [Producers -> HeaderType]
        /\ block[p] \in [Offsets -> BlockType] /\ result \in [Procs -> {0, 1}]
    BY DEF TypeInv, TypeOK, MemoryOK, LocalsOK
  <1>5. CASE \/ CreateSemaphore(p) \/ CreateSharedMemory(p) \/ RemoveSharedMemory(p)
             \/ RemoveSemaphore(p)
    <2>1. UNCHANGED memory /\ UNCHANGED result
      BY <1>5 DEF CreateSemaphore, CreateSharedMemory, RemoveSharedMemory, RemoveSemaphore
    <2>2. SameInPool(p)
      BY <1>2, <2>1 DEF memory, Idle, KeepsList
    <2> QED
      BY <1>3, <2>2, PoolLifts DEF StepsInPool
  <1>6. CASE InitializeHeader(p)
    <2>1. pc[p] = "init" /\ result' = result /\ block' = block
          /\ header'[p] = [ZeroHeader EXCEPT !.ready = TRUE, !.free = HeaderWords]
      BY <1>4, <1>6 DEF InitializeHeader
    <2>2. ~header[p].ready /\ ~header[p].done
      BY <2>1 DEF ListInv, TakenInv, PhaseInv, PhaseOf, Starting
    <2>3. header'[p].done = header[p].done /\ header'[p].published = 0
      BY <1>4, <2>1, <2>2 DEF ZeroHeader, HeaderType
    <2>4. Published(p) = {}
      BY <2>2 DEF ListInv, ChainInv, Published
    <2>5. Published(p)' = {}
      BY <2>3 DEF Published
    <2>6. SameBlocks(p)
      BY <1>1, <2>4, <2>5, UnseenByPool DEF SameBlocks
    <2>7. SameInPool(p)
      BY <2>1, <2>3, <2>6 DEF SameInPool, SameOwner
    <2> QED
      BY <1>3, <2>7, PoolLifts DEF StepsInPool
  <1>7. CASE FindSpace(p)
    <2>1. shmOf[p] = p /\ pc[p] = "space" /\ result' = result /\ block' = block
      BY <1>7 DEF FindSpace, TypeInv, Handles, Attached, Critical
    <2>2. \/ header' = header
          \/ \E d \in BOOLEAN : header' = [header EXCEPT ![p].done = d]
      BY <1>7, <2>1 DEF FindSpace
    <2>3. header[p].done = FALSE
      BY <1>4, <2>1 DEF ListInv, PhaseInv, PhaseOf, HeaderType
    <2>4. Idle(p) /\ (header'[p].done = header[p].done \/ header'[p].done = TRUE)
      <3>1. CASE header' = header
        BY <2>1, <3>1 DEF Idle, KeepsList
      <3>2. ASSUME NEW d \in BOOLEAN, header' = [header EXCEPT ![p].done = d]
            PROVE  Idle(p) /\ (header'[p].done = header[p].done \/ header'[p].done = TRUE)
        <4>1. header'[p] = [header[p] EXCEPT !.done = d]
          BY <1>4, <3>2
        <4>2. header'[p].done = d /\ Idle(p)
          BY <1>4, <2>1, <4>1 DEF Idle, KeepsList, HeaderType
        <4> QED
          BY <2>3, <4>2
      <3> QED
        BY <2>2, <3>1, <3>2
    <2>5. Published(p)' = Published(p)
      BY <2>4, PublishedKept DEF ListInv
    <2>6. SameBlocks(p)
      BY <1>1, <2>1, <2>5, UnseenByPool DEF SameBlocks
    <2>7. SameInPool(p) \/ Closes(p)
      BY <2>1, <2>4, <2>6, <2>3 DEF SameInPool, SameOwner, Closes
    <2> QED
      BY <1>3, <2>7, PoolLifts DEF StepsInPool
  <1>8. CASE AppendBlock(p)
    <2>1. shmOf[p] = p /\ pc[p] = "append" /\ result' = result /\ Producer(p)
      BY <1>8 DEF AppendBlock, TypeInv, Handles, Attached, Critical
    <2>2. \/ UNCHANGED memory
          \/ \E length, last : AppendStores(p, last, length, 3)
      BY <1>8, <2>1 DEF AppendBlock
    <2>3. header[p].done = FALSE
      BY <1>4, <2>1 DEF ListInv, PhaseInv, PhaseOf, HeaderType
    <2>4. header'[p].done = header[p].done
      <3>1. \A length, last : AppendedHeader(header[p], last, length, 3).done = header[p].done
        BY <1>4 DEF AppendedHeader, HeaderType
      <3> QED
        BY <1>4, <2>2, <3>1 DEF AppendStores, memory
    <2>5. ~InitializeHeader(p)
      BY <2>1 DEF InitializeHeader
    <2>6. Idle(p) \/ Appends(p, 3)
      BY <2>1, <2>5, ProducerOnSegment
    <2>7. CASE Idle(p)
      <3>1. SameInPool(p)
        BY <1>2, <2>1, <2>4, <2>7
      <3> QED
        BY <1>3, <3>1, PoolLifts DEF StepsInPool
    <2>8. CASE Appends(p, 3)
      <3>1. PICK b \in Offsets : Publishes(p, b)
        <4>1. 3 \in 0 .. 3
          OBVIOUS
        <4> QED
          BY <2>8, <4>1, PublishedAppend DEF ListInv
      <3>2. Published(p) \subseteq Offsets
        BY PublishedOffsets DEF ListInv
      <3>3. \A o \in Offsets \ {b} :
               StatusOf(p, o)' = StatusOf(p, o) /\ WorkerOf(p, o)' = WorkerOf(p, o)
        <4>1. ASSUME NEW o \in Offsets \ {b}
              PROVE  /\ (o \in Published(p)') <=> (o \in Published(p))
                     /\ o \in Published(p) => block'[p][o].state = block[p][o].state
          BY <1>4, <3>1 DEF Publishes, BlockType
        <4> QED
          BY <1>1, <4>1, UnseenByPool
      <3>4. StatusOf(p, b) = "absent" /\ WorkerOf(p, b) = None
        BY <3>1 DEF Publishes, StatusOf, WorkerOf
      <3>5. StatusOf(p, b)' = "ready" /\ WorkerOf(p, b)' = None
        BY <3>1 DEF Publishes, StatusOf, WorkerOf
      <3>6. ChangesTo(p, b, "ready", None)
        BY <2>1, <2>4, <3>3, <3>5 DEF ChangesTo, SameOwner
      <3> QED
        BY <1>3, <2>3, <3>4, <3>6, PoolLifts DEF StepsInPool
    <2> QED
      BY <2>6, <2>7, <2>8
  <1>9. CASE CheckFinished(p)
    <2>1. UNCHANGED memory /\ pc[p] = "check"
      BY <1>9 DEF CheckFinished
    <2>2. Idle(p) /\ header'[p].done = header[p].done /\ block' = block
      BY <2>1 DEF memory, Idle, KeepsList
    <2>3. CASE result'[p] = result[p]
      <3>1. SameInPool(p)
        BY <1>2, <2>2, <2>3
      <3> QED
        BY <1>3, <3>1, PoolLifts DEF StepsInPool
    <2>4. CASE result'[p] # result[p]
      <3>1. result'[p] = 0
        BY <1>4, <1>9, <2>1, <2>4 DEF CheckFinished, ListInv, PhaseInv, PhaseOf, Procs
      <3>2. Published(p)' = Published(p)
        BY <2>2, PublishedKept DEF ListInv
      <3>3. header[p].done /\ \A o \in Published(p) : block[p][o].state = "PROCESSED"
        BY <2>2, <3>1, <3>2 DEF ListInv, SuccessInv, ProcessedIn
      <3>4. \A o \in Offsets : StatusOf(p, o) \in {"absent", "complete"}
        BY <3>3 DEF StatusOf
      <3>5. SameBlocks(p)
        BY <1>1, <2>2, <3>2, UnseenByPool DEF SameBlocks
      <3>6. Succeeds(p)
        BY <1>4, <2>2, <3>1, <3>3, <3>4, <3>5 DEF Succeeds, HeaderType
      <3> QED
        BY <1>3, <3>6, PoolLifts DEF StepsInPool
    <2> QED
      BY <2>3, <2>4
  <1> QED
    BY <1>5, <1>6, <1>7, <1>8, <1>9 DEF Producer

\* A block that is finished goes from its worker to complete, and one whose
\* worker dies on the first two stores stays as it was.
LEMMA PoolMarks ==
    ASSUME TypeInv, ListInv, ListInv', MemoryOK', NEW c \in Consumers, NEW m \in Producers,
           NEW k \in 0 .. 3, Marks(c, m, k), SameOwner(m),
           \A d \in Consumers : shmOf'[d] = shmOf[d],
           \A q \in Producers \ {m} : SameInPool(q)
    PROVE  [Pool!Next]_(Pool!poolVars)
  <1>0. PICK b : b = taken[c]
    OBVIOUS
  <1>1. b \in Offsets /\ block[m][b].state = "IN_PROGRESS" /\ b # NullOffset
    BY <1>0 DEF Marks, CanFinish, BlockValid, Offsets, HeaderWords, NullOffset
  <1>2. b \in Published(m) /\ shmOf[c] = m
    BY <1>0, <1>1 DEF ListInv, HoldInv, Marks
  <1>3. Published(m)' = Published(m)
    BY PublishedKept DEF ListInv
  <1>4. block[m] \in [Offsets -> BlockType]
    BY DEF TypeInv, TypeOK, MemoryOK
  <1>5. \A d \in Consumers, o \in Offsets \ {b} :
           (shmOf'[d] = m /\ taken'[d] = o) <=> (shmOf[d] = m /\ taken[d] = o)
    <2>1. taken' = taken \/ taken' = [taken EXCEPT ![c] = NullOffset]
      BY DEF Marks
    <2>2. NullOffset \notin Offsets
      BY DEF Offsets, HeaderWords, NullOffset
    <2> QED
      BY <1>0, <2>1, <2>2 DEF TypeInv, TypeOK, LocalsOK
  <1>6. block'[m] = [block[m] EXCEPT ![b] = FinishedBlock(block[m][b], k)]
    BY <1>0 DEF Marks
  <1>7. \A o \in Offsets \ {b} :
           StatusOf(m, o)' = StatusOf(m, o) /\ WorkerOf(m, o)' = WorkerOf(m, o)
    <2>1. \A o \in Offsets \ {b} : block'[m][o] = block[m][o]
      BY <1>4, <1>6
    <2> QED
      BY <1>3, <1>5, <2>1, UnseenByPool
  <1>8. block'[m][b].state = IF k >= 2 THEN "PROCESSED" ELSE "IN_PROGRESS"
    BY <1>1, <1>4, <1>6 DEF FinishedBlock, BlockType
  <1>9. CASE k >= 2
    <2>1. StatusOf(m, b)' = "complete" /\ WorkerOf(m, b)' = None
      BY <1>2, <1>3, <1>8, <1>9 DEF StatusOf, WorkerOf
    <2>2. StatusOf(m, b) = "taken"
      BY <1>1, <1>2 DEF StatusOf
    <2>3. WorkerOf(m, b) \in Consumers
      BY <1>0, <1>2, <2>2 DEF WorkerOf
    <2>4. WorkerOf(m, b) # None
      BY <2>3, ProcessesAssumption
    <2>5. ChangesTo(m, b, "complete", None)
      BY <1>7, <2>1 DEF ChangesTo
    <2> QED
      BY <1>1, <2>2, <2>4, <2>5, PoolLifts DEF StepsInPool
  <1>10. CASE ~(k >= 2)
    <2>1. taken' = taken
      <3>1. k # 3
        BY <1>10
      <3> QED
        BY <3>1 DEF Marks
    <2>2. StatusOf(m, b)' = StatusOf(m, b) /\ WorkerOf(m, b)' = WorkerOf(m, b)
      BY <1>1, <1>3, <1>8, <1>10, <2>1, UnseenByPool
    <2>3. SameInPool(m)
      BY <1>7, <2>2 DEF SameInPool, SameBlocks
    <2> QED
      BY <2>3, PoolLifts DEF StepsInPool
  <1> QED
    BY <1>9, <1>10

LEMMA PoolConsumer ==
    ASSUME TypeInv, ListInv, ListInv', MemoryOK', NEW c \in Consumers, Consumer(c)
    PROVE  [Pool!Next]_(Pool!poolVars)
  <1>0. PICK m : m = shmOf[c]
    OBVIOUS
  <1>1. Next
    BY DEF Next
  <1>2. \A d \in Consumers \ {c} : taken'[d] = taken[d] /\ shmOf'[d] = shmOf[d]
    <2>1. \A d \in Consumers \ {c} : taken'[d] = taken[d]
      BY DEF Consumer, OpenSemaphore, OpenSharedMemory, Register, TakeBlock, TakeNoData,
         TakeFinished, TakeError, FinishBlock, locals, TypeInv, TypeOK, LocalsOK
    <2> QED
      BY <2>1, ConsumerGoes
  <1>3. \A q \in Producers : SameOwner(q)
    <2>1. \A q \in Producers : result'[q] = result[q]
      BY ProcessesAssumption DEF Consumer, OpenSemaphore, OpenSharedMemory, Register,
         TakeBlock, TakeNoData, TakeFinished, TakeError, FinishBlock, TypeInv, TypeOK,
         LocalsOK, Procs
    <2>2. \A q \in Producers : header'[q].done = header[q].done
      BY OwnerPublishes
    <2> QED
      BY <2>1, <2>2 DEF SameOwner
  <1>4. ASSUME NEW q \in Producers, q # m
        PROVE  SameInPool(q)
    <2>1. Idle(q)
      BY <1>0, <1>4, OtherSegments DEF Procs
    <2>2. \A o \in Offsets :
             (shmOf'[c] = q /\ taken'[c] = o) <=> (shmOf[c] = q /\ taken[c] = o)
      <3>1. ~Marks(c, q, 3) /\ \A o \in Offsets : ~Takes(c, q, o)
        BY <1>0, <1>4 DEF Takes, Marks
      <3> QED
        BY <1>1, <3>1, Hands DEF ListInv
    <2>3. Published(q)' = Published(q) /\ block'[q] = block[q]
      BY <2>1, PublishedKept DEF Idle, ListInv
    <2>4. SameBlocks(q)
      BY <1>2, <2>2, <2>3, UnseenByPool DEF SameBlocks
    <2> QED
      BY <1>3, <2>4 DEF SameInPool
  <1>5. CASE m \notin Producers
    <2>1. \A q \in Producers : SameInPool(q)
      BY <1>4, <1>5
    <2>2. CASE Producers = {}
      BY <2>2 DEF Pool!poolVars
    <2>3. CASE Producers # {}
      <3>1. PICK q \in Producers : TRUE
        BY <2>3
      <3> QED
        BY <2>1, <3>1, PoolLifts DEF StepsInPool
    <2> QED
      BY <2>2, <2>3
  <1>6. CASE m \in Producers /\ ~TakeBlock(c)
    <2>1. (Idle(m) /\ UNCHANGED taken) \/ Marks(c, m, 3)
      BY <1>0, <1>6, ConsumerOnSegment
    <2>2. CASE Idle(m) /\ UNCHANGED taken
      <3>1. Published(m)' = Published(m) /\ block'[m] = block[m]
        BY <1>6, <2>2, PublishedKept DEF Idle, ListInv
      <3>2. \A o \in Offsets :
               (shmOf'[c] = m /\ taken'[c] = o) <=> (shmOf[c] = m /\ taken[c] = o)
        <4>1. ASSUME NEW o \in Offsets, Marks(c, m, 3), taken[c] = o
              PROVE  FALSE
          <5>1. taken'[c] = NullOffset
            BY <4>1 DEF Marks, TypeInv, TypeOK, LocalsOK
          <5> QED
            BY <2>2, <4>1, <5>1 DEF Offsets, HeaderWords, NullOffset
        <4> QED
          BY <1>1, <1>6, <4>1, Hands DEF ListInv, Takes
      <3>3. SameBlocks(m)
        BY <1>2, <1>6, <3>1, <3>2, UnseenByPool DEF SameBlocks
      <3>4. SameInPool(m)
        BY <1>3, <1>6, <3>3 DEF SameInPool
      <3> QED
        BY <1>4, <1>6, <3>4, PoolLifts DEF StepsInPool
    <2>3. CASE Marks(c, m, 3)
      <3>1. pc[c] = "finish"
        BY <2>3 DEF Marks
      <3>2. shmOf'[c] = shmOf[c]
        BY <3>1 DEF Consumer, OpenSemaphore, OpenSharedMemory, Register, TakeBlock, TakeNoData,
           TakeFinished, TakeError, FinishBlock, handles
      <3>3. 3 \in 0 .. 3
        OBVIOUS
      <3> QED
        BY <1>0, <1>2, <1>3, <1>4, <1>6, <2>3, <3>2, <3>3, PoolMarks
    <2> QED
      BY <2>1, <2>2, <2>3
  <1>7. CASE TakeBlock(c)
    <2>1. m \in Producers
      BY <1>0, <1>7, TakesPublished
    <2>2. PICK b \in Offsets : Takes(c, m, b)
      BY <1>0, <1>7, TakesPublished
    <2>3. /\ b \in Published(m) /\ block[m][b].state = "READY"
          /\ taken'[c] = b
          /\ block'[m] = [block[m] EXCEPT ![b].state = "IN_PROGRESS"]
      BY <2>2 DEF Takes, TypeInv, TypeOK, LocalsOK
    <2>4. Published(m)' = Published(m)
      BY <2>1, <2>2, PublishedKept DEF ListInv
    <2>5. shmOf' = shmOf /\ taken[c] = NullOffset
      BY <1>7 DEF TakeBlock, handles, ListInv, HoldInv, HasTaken
    <2>6. block[m] \in [Offsets -> BlockType]
      BY <2>1 DEF TypeInv, TypeOK, MemoryOK
    <2>7. NullOffset \notin Offsets
      BY DEF Offsets, HeaderWords, NullOffset
    <2>8. block'[m][b].state = "IN_PROGRESS"
          /\ \A o \in Offsets \ {b} : block'[m][o] = block[m][o]
      BY <2>3, <2>6 DEF BlockType
    <2>9. \A o \in Offsets \ {b} :
             StatusOf(m, o)' = StatusOf(m, o) /\ WorkerOf(m, o)' = WorkerOf(m, o)
      <3>1. \A d \in Consumers, o \in Offsets \ {b} :
               (shmOf'[d] = m /\ taken'[d] = o) <=> (shmOf[d] = m /\ taken[d] = o)
        BY <1>0, <1>2, <2>3, <2>5, <2>7
      <3> QED
        BY <2>1, <2>4, <2>8, <3>1, UnseenByPool
    <2>10. StatusOf(m, b) = "ready" /\ StatusOf(m, b)' = "taken"
      BY <2>3, <2>4, <2>8 DEF StatusOf
    <2>11. \A d \in Consumers : (shmOf'[d] = m /\ taken'[d] = b) <=> d = c
      <3>1. ASSUME NEW d \in Consumers, d # c, shmOf'[d] = m, taken'[d] = b
            PROVE  FALSE
        <4>1. shmOf[d] = m /\ taken[d] = b /\ taken[d] # NullOffset
          BY <1>2, <2>5, <2>7, <3>1
        <4> QED
          BY <2>3, <4>1 DEF ListInv, HoldInv
      <3>2. shmOf'[c] = m
        BY <1>0, <2>5
      <3> QED
        BY <2>3, <3>1, <3>2
    <2>12. WorkerOf(m, b)' = c
      <3>1. (CHOOSE d \in Consumers : shmOf'[d] = m /\ taken'[d] = b) = c
        BY <2>11
      <3> QED
        BY <2>10, <2>11, <3>1, Zenon DEF WorkerOf
    <2>13. ChangesTo(m, b, "taken", c)
      BY <1>3, <2>1, <2>9, <2>10, <2>12 DEF ChangesTo
    <2>14. \A q \in Producers \ {m} : SameInPool(q)
      BY <1>4
    <2> QED
      BY <2>1, <2>10, <2>13, <2>14, PoolLifts DEF StepsInPool
  <1> QED
    BY <1>0, <1>5, <1>6, <1>7

LEMMA PoolCrash ==
    ASSUME TypeInv, ListInv, ListInv', MemoryOK', NEW p \in Procs, Crash(p)
    PROVE  [Pool!Next]_(Pool!poolVars)
  <1>0. PICK m : m = shmOf[p]
    OBVIOUS
  <1>1. shmOf' = shmOf /\ taken' = taken /\ result' = result
    BY DEF Crash, handles, locals
  <1>2. \A q \in Producers : header'[q].done = header[q].done
    <2> SUFFICES ASSUME NEW q \in Producers PROVE header'[q].done = header[q].done
      OBVIOUS
    <2>1. CASE p # q
      BY <2>1, OwnerPublishes
    <2>2. CASE p = q
      <3>1. header \in [Producers -> HeaderType]
        BY DEF TypeInv, TypeOK, MemoryOK
      <3>2. \A h \in HeaderType : \A length, last, k : AppendedHeader(h, last, length, k).done = h.done
        BY DEF AppendedHeader, HeaderType
      <3>3. LosesStores(p)
        BY DEF Crash
      <3>4. CASE pc[p] = "append"
        <4>1. \E h, length, last, k : h = header[shmOf[p]] /\
                 header' = [header EXCEPT ![shmOf[p]] = AppendedHeader(h, last, length, k)]
          BY <3>3, <3>4 DEF LosesStores, AppendStores
        <4> QED
          BY <3>1, <3>2, <4>1
      <3>5. CASE pc[p] # "append"
        BY <3>3, <3>5 DEF LosesStores, memory
      <3> QED
        BY <3>4, <3>5
    <2> QED
      BY <2>1, <2>2
  <1>3. ASSUME NEW q \in Producers, Idle(q)
        PROVE  SameInPool(q)
    BY <1>1, <1>2, <1>3, UntouchedSegment
  <1>4. ASSUME NEW q \in Producers, q # m
        PROVE  SameInPool(q)
    BY <1>0, <1>3, <1>4, OtherSegments
  <1>5. \A q \in Producers : SameOwner(q)
    BY <1>1, <1>2 DEF SameOwner
  <1>6. CASE \A q \in Producers : SameInPool(q)
    <2>1. CASE Producers = {}
      BY <2>1 DEF Pool!poolVars
    <2>2. CASE Producers # {}
      <3>1. PICK q \in Producers : TRUE
        BY <2>2
      <3> QED
        BY <1>6, <3>1, PoolLifts DEF StepsInPool
    <2> QED
      BY <2>1, <2>2
  <1>7. CASE m \in Producers /\ ~SameInPool(m)
    <2>1. ~Idle(m)
      BY <1>3, <1>7
    <2>2. CASE \E k \in 0 .. 2 : Appends(m, k)
      <3>1. PICK k \in 0 .. 2 : Appends(m, k)
        BY <2>2
      <3>2. k \in 0 .. 3 /\ k # 3
        OBVIOUS
      <3>3. Unnoticed(m)
        BY <1>7, <3>1, <3>2, PublishedAppend DEF ListInv
      <3>4. \A o \in Published(m) : block'[m][o].state = block[m][o].state
        <4>1. Published(m) \subseteq Offsets /\ block[m] \in [Offsets -> BlockType]
          BY <1>7, PublishedOffsets DEF ListInv, TypeInv, TypeOK, MemoryOK
        <4> QED
          BY <3>3, <4>1 DEF Unnoticed, BlockType
      <3>5. SameBlocks(m)
        BY <1>1, <1>7, <3>3, <3>4, UnseenByPool DEF SameBlocks, Unnoticed
      <3> QED
        BY <1>5, <1>7, <3>5 DEF SameInPool
    <2>3. CASE p \in Consumers /\ \E k \in 0 .. 2 : Marks(p, m, k)
      <3>1. PICK k \in 0 .. 2 : Marks(p, m, k)
        BY <2>3
      <3>2. k \in 0 .. 3
        OBVIOUS
      <3> QED
        BY <1>1, <1>4, <1>5, <1>7, <2>3, <3>1, <3>2, PoolMarks
    <2> QED
      BY <1>0, <1>7, <2>1, <2>2, <2>3, CrashOnSegment
  <1> QED
    BY <1>4, <1>6, <1>7

LEMMA PoolStep ==
    TypeInv /\ ListInv /\ [Next]_vars /\ MemoryOK' /\ ListInv' => [Pool!Next]_(Pool!poolVars)
  <1> SUFFICES ASSUME TypeInv, ListInv, [Next]_vars, MemoryOK', ListInv'
               PROVE  [Pool!Next]_(Pool!poolVars)
    OBVIOUS
  <1>1. ASSUME UNCHANGED <<memory, taken, shmOf, result>>
        PROVE  UNCHANGED Pool!poolVars
    BY <1>1 DEF Pool!poolVars, memory, StatusOf, WorkerOf, Published, Walk
  <1>2. ASSUME NEW p \in Procs, Lock(p) \/ LockFails(p)
        PROVE  UNCHANGED <<memory, taken, shmOf, result>>
    BY <1>2 DEF Lock, LockFails, memory, locals, handles
  <1>3. UNCHANGED vars => UNCHANGED <<memory, taken, shmOf, result>>
    BY DEF vars, memory
  <1> QED
    BY <1>1, <1>2, <1>3, PoolProducer, PoolConsumer, PoolCrash DEF Next, AllGone

LEMMA PoolInit == Init => Pool!Init
  <1> SUFFICES ASSUME Init PROVE Pool!Init
    OBVIOUS
  <1>1. ASSUME NEW m \in Producers
        PROVE  /\ \A o \in Offsets : StatusOf(m, o) = "absent" /\ WorkerOf(m, o) = None
               /\ header[m].done = FALSE /\ (result[m] = 0) = FALSE
    <2>1. header[m] = ZeroHeader /\ result[m] = 1
      BY DEF Init, Procs
    <2>2. header[m].published = 0 /\ header[m].done = FALSE
      BY <2>1 DEF ZeroHeader
    <2>3. Published(m) = {}
      BY <2>2 DEF Published
    <2> QED
      BY <2>1, <2>2, <2>3 DEF StatusOf, WorkerOf
  <1> QED
    BY <1>1 DEF Pool!Init

\* The shared-memory exchange implements the block pool: for any number of
\* processes, segment size and crashes, what the programs do to the words of a
\* segment is publishing, taking, completing, closing and succeeding.
THEOREM Implements == Spec => ImplementsPool
  BY InitType, TypeStep, ListInit, ListStep, MemoryStep, PoolInit, PoolStep, PTL
     DEF Spec, ImplementsPool, Pool!Spec

-----------------------------------------------------------------------------
(* Without crashes.                                                        *)

LEMMA NobodyCrashedStep == TypeInv /\ NobodyCrashed /\ [Next]_vars => NobodyCrashed'
  <1> SUFFICES ASSUME TypeInv, NobodyCrashed, [Next]_vars, crashes' = 0, NEW p \in Procs,
                      pc'[p] = "crashed"
               PROVE  FALSE
    BY DEF NobodyCrashed
  <1>1. crashes = 0 /\ crashes \in Nat
    BY CrashesGrow
  <1>2. pc[p] # "crashed"
    BY <1>1 DEF NobodyCrashed
  <1> USE DEF TypeInv, TypeOK, PcOK, Goto
  <1>3. ASSUME NEW q \in Producers, Producer(q)
        PROVE  FALSE
    BY <1>2, <1>3 DEF Producer, CreateSemaphore, CreateSharedMemory, InitializeHeader,
       FindSpace, AppendBlock, CheckFinished, RemoveSharedMemory, RemoveSemaphore
  <1>4. ASSUME NEW c \in Consumers, Consumer(c)
        PROVE  FALSE
    BY <1>2, <1>4 DEF Consumer, OpenSemaphore, OpenSharedMemory, Register, TakeBlock,
       TakeNoData, TakeFinished, TakeError, FinishBlock
  <1>5. ASSUME NEW q \in Procs, Lock(q) \/ LockFails(q)
        PROVE  FALSE
    BY <1>2, <1>5 DEF Lock, LockFails, Section
  <1>6. ASSUME NEW q \in Procs, Crash(q)
        PROVE  FALSE
    BY <1>1, <1>6 DEF Crash
  <1>7. CASE UNCHANGED vars
    BY <1>2, <1>7 DEF vars
  <1> QED
    BY <1>3, <1>4, <1>5, <1>6, <1>7 DEF Next, AllGone

\* The steps of a behaviour in which nobody is killed, seen from the count of
\* active consumers of segment m.
LEMMA ActiveSteps ==
    ASSUME TypeInv, ListInv, [Next]_vars, crashes' = crashes, NEW m \in Producers
    PROVE  \/ /\ header'[m].active = header[m].active
              /\ RegisteredWith(m)' = RegisteredWith(m)
           \/ \E c \in Consumers \ RegisteredWith(m) :
                 /\ header'[m].active = header[m].active + 1
                 /\ RegisteredWith(m)' = RegisteredWith(m) \cup {c}
                 /\ header[m].ready
           \/ \E c \in RegisteredWith(m) :
                 /\ header'[m].active = Unregister(header[m]).active
                 /\ RegisteredWith(m)' = RegisteredWith(m) \ {c}
           \/ /\ header'[m].active = 0
              /\ RegisteredWith(m)' = {} /\ RegisteredWith(m) = {}
           \/ \E c \in RegisteredWith(m) :
                 /\ LockFails(c)
                 /\ header'[m].active = header[m].active
                 /\ RegisteredWith(m)' = RegisteredWith(m) \ {c}
  <1> USE ProcessesAssumption DEF Procs
  <1>1. /\ header \in [Producers -> HeaderType] /\ header[m] \in HeaderType
        /\ pc \in [Procs -> ProducerPC \cup ConsumerPC]
    BY DEF TypeInv, TypeOK, MemoryOK, PcOK
  <1>2. ASSUME NEW p \in Producers, Producer(p)
        PROVE  /\ RegisteredWith(m)' = RegisteredWith(m)
               /\ \/ header'[m].active = header[m].active
                  \/ header'[m].active = 0 /\ RegisteredWith(m) = {}
    <2>1. RegisteredWith(m)' = RegisteredWith(m)
      <3>1. \A c \in Consumers : pc'[c] = pc[c] /\ shmOf'[c] = shmOf[c]
        BY <1>1, <1>2 DEF Producer, CreateSemaphore, CreateSharedMemory, InitializeHeader,
           FindSpace, AppendBlock, CheckFinished, RemoveSharedMemory, RemoveSemaphore, handles,
           Goto, TypeInv, TypeOK, ObjectsOK
      <3> QED
        BY <3>1 DEF RegisteredWith
    <2>2. CASE InitializeHeader(p) /\ p = m
      <3>1. header'[m].active = 0
        BY <1>1, <2>2 DEF InitializeHeader, ZeroHeader
      <3>2. ~header[m].ready
        BY <2>2 DEF InitializeHeader, ListInv, TakenInv, Starting
      <3>3. RegisteredWith(m) = {}
        BY <3>2 DEF RegisteredWith, ListInv, PhaseInv
      <3> QED
        BY <2>1, <3>1, <3>3
    <2>3. CASE InitializeHeader(p) /\ p # m
      BY <1>1, <2>1, <2>3 DEF InitializeHeader
    <2>4. CASE FindSpace(p)
      <3>1. header' = header \/ \E d : header' = [header EXCEPT ![shmOf[p]].done = d]
        BY <2>4 DEF FindSpace
      <3>2. header'[m] = header[m] \/ \E d : header'[m] = [header[m] EXCEPT !.done = d]
        BY <1>1, <3>1
      <3> QED
        BY <1>1, <2>1, <3>2 DEF HeaderType
    <2>5. CASE AppendBlock(p)
      <3>1. \/ header' = header
            \/ \E last, length : header' = [header EXCEPT ![shmOf[p]] =
                                    AppendedHeader(header[shmOf[p]], last, length, 3)]
        BY <2>5 DEF AppendBlock, AppendStores, memory
      <3>2. \A last, length : AppendedHeader(header[m], last, length, 3).active = header[m].active
        BY <1>1 DEF AppendedHeader, HeaderType
      <3> QED
        BY <1>1, <2>1, <3>1, <3>2
    <2>6. CASE ~InitializeHeader(p) /\ ~FindSpace(p) /\ ~AppendBlock(p)
      <3>1. header' = header
        BY <1>2, <2>6 DEF Producer, CreateSemaphore, CreateSharedMemory, CheckFinished,
           RemoveSharedMemory, RemoveSemaphore, memory
      <3> QED
        BY <2>1, <3>1
    <2> QED
      BY <2>2, <2>3, <2>4, <2>5, <2>6
  <1>3. ASSUME NEW c \in Consumers,
               \A d \in Consumers \ {c} : pc'[d] = pc[d] /\ shmOf'[d] = shmOf[d]
        PROVE  /\ (c \in RegisteredWith(m)') <=> (c \in RegisteredWith(m))
                     => RegisteredWith(m)' = RegisteredWith(m)
               /\ c \in RegisteredWith(m)' => RegisteredWith(m)' = RegisteredWith(m) \cup {c}
               /\ c \notin RegisteredWith(m)' => RegisteredWith(m)' = RegisteredWith(m) \ {c}
    BY <1>3 DEF RegisteredWith
  <1>4. ASSUME NEW c \in Consumers, Consumer(c)
        PROVE  \/ /\ header'[m].active = header[m].active
                  /\ (c \in RegisteredWith(m)') <=> (c \in RegisteredWith(m))
               \/ /\ header'[m].active = header[m].active + 1 /\ header[m].ready
                  /\ c \in RegisteredWith(m)' /\ c \notin RegisteredWith(m)
               \/ /\ header'[m].active = Unregister(header[m]).active
                  /\ c \notin RegisteredWith(m)' /\ c \in RegisteredWith(m)
    <2>1. pc' = [pc EXCEPT ![c] = pc'[c]]
      BY <1>1, <1>4, ConsumerGoes DEF Goto
    <2>2. CASE OpenSemaphore(c) \/ OpenSharedMemory(c)
      <3>1. header' = header /\ pc[c] \notin Registered
        BY <2>2 DEF OpenSemaphore, OpenSharedMemory, memory, Registered
      <3>2. pc'[c] \notin Registered
        BY <1>1, <2>2 DEF OpenSemaphore, OpenSharedMemory, Goto, Registered
      <3> QED
        BY <3>1, <3>2 DEF RegisteredWith
    <2> DEFINE s == shmOf[c]
    <2>3. CASE ~OpenSemaphore(c) /\ ~OpenSharedMemory(c)
      <3>1. s \in Producers /\ shmOf' = shmOf
        BY <1>4, <2>3, InsideSegment DEF Consumer, Register, TakeBlock, TakeNoData,
           TakeFinished, TakeError, FinishBlock, Critical, handles
      <3>2. CASE s # m
        <4>1. header'[m] = header[m]
          BY <1>1, <1>4, <2>3, <3>2 DEF Consumer, Register, TakeBlock, TakeNoData,
             TakeFinished, TakeError, FinishBlock
        <4> QED
          BY <3>1, <3>2, <4>1 DEF RegisteredWith
      <3>3. CASE s = m
        <4> DEFINE h == IF CanFinish(m, taken[c]) THEN FinishedHeader(header[m], 3)
                        ELSE header[m]
        <4>1. CASE Register(c)
          <5>1. pc[c] \notin Registered
            BY <4>1 DEF Register, Registered
          <5>2. CASE HeaderValid(m) /\ SemaphoreUsable(c)
            <6>1. header' = [header EXCEPT ![m].active = @ + 1] /\ Goto(c, "lock_take")
                  /\ header[m].ready
              BY <3>3, <4>1, <5>2 DEF Register, HeaderValid
            <6>2. header'[m].active = header[m].active + 1 /\ pc'[c] \in Registered
              BY <1>1, <6>1 DEF HeaderType, Goto, Registered
            <6> QED
              BY <3>1, <3>3, <5>1, <6>1, <6>2 DEF RegisteredWith
          <5>3. CASE ~(HeaderValid(m) /\ SemaphoreUsable(c))
            <6>1. header' = header /\ pc'[c] \notin Registered
              BY <1>1, <3>3, <4>1, <5>3 DEF Register, Goto, Registered
            <6> QED
              BY <3>1, <5>1, <6>1 DEF RegisteredWith
          <5> QED
            BY <5>2, <5>3
        <4>2. CASE \/ TakeBlock(c) \/ TakeNoData(c) \/ TakeFinished(c) \/ TakeError(c)
          <5>1. pc[c] \in Registered
            BY <4>2 DEF TakeBlock, TakeNoData, TakeFinished, TakeError, Registered
          <5>2. \/ header' = header /\ pc'[c] \in Registered
                \/ /\ header' = [header EXCEPT ![m] = Unregister(header[m])]
                   /\ pc'[c] \notin Registered
            BY <1>1, <3>3, <4>2 DEF TakeBlock, TakeNoData, TakeFinished, TakeError, Goto,
               Registered
          <5> QED
            BY <1>1, <3>1, <3>3, <5>1, <5>2 DEF RegisteredWith
        <4>3. CASE FinishBlock(c)
          <5>1. pc[c] \in Registered
            BY <4>3 DEF FinishBlock, Registered
          <5>2. \/ header' = [header EXCEPT ![m] = h] /\ pc'[c] \in Registered
                \/ /\ header' = [header EXCEPT ![m] = Unregister(h)]
                   /\ pc'[c] \notin Registered
            BY <1>1, <3>3, <4>3 DEF FinishBlock, Goto, Registered
          <5>3. h.active = header[m].active /\ h \in HeaderType
            <6>1. 3 \in 0 .. 3
              OBVIOUS
            <6>2. FinishedHeader(header[m], 3) \in HeaderType
              BY <1>1, <6>1, LeftHeaderType
            <6>3. FinishedHeader(header[m], 3).active = header[m].active
              BY <1>1 DEF FinishedHeader, HeaderType
            <6> QED
              BY <1>1, <6>2, <6>3
          <5>4. Unregister(h).active = Unregister(header[m]).active
            <6> HIDE DEF h
            <6> QED
              BY <1>1, <5>3 DEF Unregister, HeaderType
          <5> HIDE DEF h
          <5> QED
            BY <1>1, <3>1, <3>3, <5>1, <5>2, <5>3, <5>4 DEF RegisteredWith
        <4> QED
          BY <1>4, <2>3, <4>1, <4>2, <4>3 DEF Consumer
      <3> QED
        BY <3>2, <3>3
    <2> QED
      BY <2>2, <2>3
  <1>5. ASSUME NEW q \in Procs, Lock(q)
        PROVE  header'[m].active = header[m].active /\ RegisteredWith(m)' = RegisteredWith(m)
    <2>1. \A c \in Consumers : pc'[c] \in Registered <=> pc[c] \in Registered
      <3>1. pc[q] \in DOMAIN Section /\ pc' = [pc EXCEPT ![q] = Section[pc[q]]]
        BY <1>5 DEF Lock, Goto
      <3>2. Section[pc[q]] \in Registered <=> pc[q] \in Registered
        BY <3>1 DEF Section, Registered
      <3> QED
        BY <1>1, <3>1, <3>2
    <2> QED
      BY <1>5, <2>1 DEF Lock, memory, handles, RegisteredWith
  <1>6. ASSUME NEW q \in Procs, LockFails(q)
        PROVE  /\ header'[m].active = header[m].active
               /\ \/ RegisteredWith(m)' = RegisteredWith(m)
                  \/ q \in RegisteredWith(m) /\ RegisteredWith(m)' = RegisteredWith(m) \ {q}
    <2>1. header' = header /\ shmOf' = shmOf
          /\ \E w \in {"remove_shm", "exited"} : pc' = [pc EXCEPT ![q] = w]
      BY <1>6 DEF LockFails, memory, handles, Goto
    <2>2. "remove_shm" \notin Registered /\ "exited" \notin Registered
      BY DEF Registered
    <2>3. RegisteredWith(m)' = RegisteredWith(m) \ {q}
      BY <1>1, <2>1, <2>2 DEF RegisteredWith
    <2> QED
      BY <2>1, <2>3
  <1>7. ASSUME NEW q \in Procs, Crash(q)
        PROVE  FALSE
    BY <1>7, CrashesGrow DEF Crash
  <1>8. CASE UNCHANGED vars
    BY <1>8 DEF vars, RegisteredWith
  <1>9. ASSUME NEW c \in Consumers, Consumer(c)
        PROVE  \/ /\ header'[m].active = header[m].active
                  /\ RegisteredWith(m)' = RegisteredWith(m)
               \/ /\ c \notin RegisteredWith(m)
                  /\ header'[m].active = header[m].active + 1
                  /\ RegisteredWith(m)' = RegisteredWith(m) \cup {c}
                  /\ header[m].ready
               \/ /\ c \in RegisteredWith(m)
                  /\ header'[m].active = Unregister(header[m]).active
                  /\ RegisteredWith(m)' = RegisteredWith(m) \ {c}
    <2>1. \A d \in Consumers \ {c} : pc'[d] = pc[d] /\ shmOf'[d] = shmOf[d]
      BY <1>9, ConsumerGoes
    <2> QED
      BY <1>3, <1>4, <1>9, <2>1
  <1> QED
    BY <1>2, <1>5, <1>6, <1>7, <1>8, <1>9 DEF Next, AllGone, RegisteredWith

LEMMA NamedStep ==
    TypeInv /\ ListInv /\ MemoryOK' /\ NamedInv /\ [Next]_vars /\ crashes' = crashes => NamedInv'
  <1> SUFFICES ASSUME TypeInv, ListInv, MemoryOK', NamedInv, [Next]_vars, crashes' = crashes,
                      NEW m \in Producers
               PROVE  /\ semName' = m => semOf'[m] = m
                      /\ ~header'[m].ready => header'[m].active = 0
    BY DEF NamedInv, CreatedSemaphore
  <1>1. semName' = m => semOf'[m] = m
    <2> USE DEF NamedInv, CreatedSemaphore, TypeInv, TypeOK, ObjectsOK, Procs
    <2>1. ASSUME NEW p \in Producers, CreateSemaphore(p)
          PROVE  semName' = m => semOf'[m] = m
      BY <2>1 DEF CreateSemaphore, NoSemaphore
    <2>2. ASSUME NEW p \in Producers, CreateSharedMemory(p) \/ RemoveSharedMemory(p)
          PROVE  semName' = m => semOf'[m] = m
      BY <2>2 DEF CreateSharedMemory, RemoveSharedMemory, handles
    <2>3. ASSUME NEW p \in Producers, RemoveSemaphore(p)
          PROVE  semName' = m => semOf'[m] = m
      BY <2>3, ProcessesAssumption DEF RemoveSemaphore, handles
    <2>4. ASSUME NEW c \in Consumers, OpenSemaphore(c) \/ OpenSharedMemory(c)
          PROVE  semName' = m => semOf'[m] = m
      BY <2>4, ProcessesAssumption DEF OpenSemaphore, OpenSharedMemory, names
    <2>5. ASSUME NEW p \in Procs, Lock(p) \/ Leave(p) \/ Quit(p)
          PROVE  semName' = m => semOf'[m] = m
      BY <2>5 DEF Lock, Leave, Quit, names, handles
    <2>6. CASE UNCHANGED vars
      BY <2>6 DEF vars
    <2> QED
      BY <2>1, <2>2, <2>3, <2>4, <2>5, <2>6, StepShapes
  <1>2. ASSUME ~header'[m].ready PROVE header'[m].active = 0
    <2>1. ~header[m].ready
      BY <1>2, ReadyStays DEF ListInv
    <2>2. header[m].active = 0
      BY <2>1 DEF NamedInv
    <2>3. Unregister(header[m]).active = 0
      BY <2>2 DEF Unregister, TypeInv, TypeOK, MemoryOK, HeaderType
    <2> QED
      BY <2>1, <2>2, <2>3, ActiveSteps
  <1> QED
    BY <1>1, <1>2

LEMMA ActiveCounted ==
    ASSUME TypeInv, ListInv, SystemV => NameInv, NamedInv, UncrashedInv, [Next]_vars,
           crashes' = 0, crashes = 0, NEW m \in Producers, SystemV => semName' = m
    PROVE  header'[m].active = Cardinality(RegisteredWith(m)')
  <1>1. IsFiniteSet(RegisteredWith(m)) /\ Cardinality(RegisteredWith(m)) \in Nat
    BY ProcessesAssumption, FS_Subset, FS_CardinalityType DEF RegisteredWith
  <1>2. header[m] \in HeaderType
    BY DEF TypeInv, TypeOK, MemoryOK
  <1>3. header[m].active = Cardinality(RegisteredWith(m))
    <2>1. CASE SystemV => semName = m
      BY <2>1 DEF UncrashedInv
    <2>2. CASE SystemV /\ semName # m
      <3>1. CreateSemaphore(m)
        <4> USE DEF TypeInv, TypeOK, ObjectsOK
        <4>1. ASSUME NEW p \in Producers, CreateSemaphore(p) \/ CreateSharedMemory(p)
                        \/ RemoveSharedMemory(p) \/ RemoveSemaphore(p)
              PROVE  semName' \in {semName, None} \/ (semName' = p /\ CreateSemaphore(p))
          BY <4>1 DEF CreateSemaphore, CreateSharedMemory, RemoveSharedMemory, RemoveSemaphore
        <4>2. ASSUME NEW c \in Consumers, OpenSemaphore(c) \/ OpenSharedMemory(c)
              PROVE  semName' = semName
          BY <4>2 DEF OpenSemaphore, OpenSharedMemory, names
        <4>3. ASSUME NEW p \in Procs, Lock(p) \/ Leave(p) \/ Quit(p)
              PROVE  semName' = semName
          BY <4>3 DEF Lock, Leave, Quit, names
        <4>4. CASE UNCHANGED vars
          BY <2>2, <4>4 DEF vars
        <4> QED
          BY <2>2, <4>1, <4>2, <4>3, <4>4, StepShapes, ProcessesAssumption
      <3>2. ~header[m].ready
        BY <3>1 DEF CreateSemaphore, ListInv, TakenInv, Starting
      <3>3. RegisteredWith(m) = {} /\ header[m].active = 0
        BY <3>2 DEF NamedInv, RegisteredWith, ListInv, PhaseInv
      <3> QED
        BY <3>3, FS_EmptySet
    <2> QED
      BY <2>1, <2>2
  <1>4. CASE /\ header'[m].active = header[m].active
             /\ RegisteredWith(m)' = RegisteredWith(m)
    BY <1>3, <1>4
  <1>5. ASSUME NEW c \in Consumers \ RegisteredWith(m),
               header'[m].active = header[m].active + 1,
               RegisteredWith(m)' = RegisteredWith(m) \cup {c}
        PROVE  header'[m].active = Cardinality(RegisteredWith(m)')
    BY <1>1, <1>3, <1>5, FS_AddElement
  <1>6. ASSUME NEW c \in RegisteredWith(m),
               header'[m].active = Unregister(header[m]).active,
               RegisteredWith(m)' = RegisteredWith(m) \ {c}
        PROVE  header'[m].active = Cardinality(RegisteredWith(m)')
    <2>1. Cardinality(RegisteredWith(m)') = Cardinality(RegisteredWith(m)) - 1
      BY <1>1, <1>6, FS_RemoveElement
    <2>2. IsFiniteSet(RegisteredWith(m)')
      BY <1>1, <1>6, FS_RemoveElement
    <2>3. Cardinality(RegisteredWith(m)') \in Nat
      BY <2>2, FS_CardinalityType
    <2>4. Unregister(header[m]).active = header[m].active - 1
      BY <1>1, <1>2, <1>3, <2>1, <2>3 DEF Unregister, HeaderType
    <2> QED
      BY <1>3, <1>6, <2>1, <2>4
  <1>7. CASE header'[m].active = 0 /\ RegisteredWith(m)' = {}
    BY <1>7, FS_EmptySet
  <1>8. ASSUME NEW c \in RegisteredWith(m), LockFails(c)
        PROVE  FALSE
    <2>1. SystemV /\ semName # semOf[c] /\ pc[c] \in DOMAIN Section /\ semName' = semName
      BY <1>8 DEF LockFails, SemaphoreUsable, names
    <2>2. semName = m /\ CreatedSemaphore(m)
      BY <2>1 DEF NamedInv
    <2>3. c \in Consumers /\ pc[c] \in Registered /\ shmOf[c] = m
      BY DEF RegisteredWith
    <2>4. pc[c] # "lock_register"
      BY <2>3 DEF Registered
    <2> QED
      BY <2>1, <2>2, <2>3, <2>4 DEF NameInv, Attached, Procs
  <1> QED
    BY <1>4, <1>5, <1>6, <1>7, <1>8, ActiveSteps

LEMMA UncrashedStep ==
    TypeInv /\ ListInv /\ (SystemV => NameInv) /\ NamedInv /\ UncrashedInv /\ MemoryOK'
       /\ [Next]_vars => UncrashedInv'
  <1> SUFFICES ASSUME TypeInv, ListInv, SystemV => NameInv, NamedInv, UncrashedInv, MemoryOK',
                      [Next]_vars, crashes' = 0, NEW m \in Producers
               PROVE  /\ \A o \in Published(m)' :
                            block'[m][o].count =
                               IF block'[m][o].state = "PROCESSED" THEN 0
                               ELSE block'[m][o].original
                      /\ (SystemV => semName' = m) =>
                            header'[m].active = Cardinality(RegisteredWith(m)')
    BY DEF UncrashedInv
  <1>1. crashes = 0 /\ crashes' = crashes
    BY CrashesGrow
  <1>2. (SystemV => semName' = m) => header'[m].active = Cardinality(RegisteredWith(m)')
    BY <1>1, ActiveCounted
  <1>3. Published(m) \subseteq Offsets /\ block[m] \in [Offsets -> BlockType]
    BY PublishedOffsets DEF ListInv, TypeInv, TypeOK, MemoryOK
  <1> DEFINE Whole(x) == x.count = IF x.state = "PROCESSED" THEN 0 ELSE x.original
  <1>4. \A o \in Published(m) : Whole(block[m][o])
    BY <1>1 DEF UncrashedInv
  <1>5. ASSUME NEW x \in BlockType, Whole(x)
        PROVE  /\ \A n : Whole([x EXCEPT !.next = n])
               /\ x.state = "READY" => Whole([x EXCEPT !.state = "IN_PROGRESS"])
               /\ Whole(FinishedBlock(x, 3))
    BY <1>5 DEF BlockType, FinishedBlock
  <1> HIDE DEF Whole
  <1>6. ASSUME NEW o \in Published(m)'
        PROVE  Whole(block'[m][o])
    <2>1. CASE Idle(m)
      BY <1>4, <2>1, PublishedKept DEF Idle, ListInv
    <2>2. CASE InitializeHeader(m)
      <3>1. header'[m] = [ZeroHeader EXCEPT !.ready = TRUE, !.free = HeaderWords]
        BY <2>2 DEF InitializeHeader, TypeInv, TypeOK, MemoryOK
      <3>2. header'[m].published = 0
        BY <3>1 DEF ZeroHeader
      <3> QED
        BY <3>2 DEF Published
    <2>3. ASSUME NEW k \in 0 .. 3, Appends(m, k)
          PROVE  Whole(block'[m][o])
      <3>1. k = 3
        BY <1>1, <2>3 DEF Appends
      <3>2. PICK new \in Offsets : Publishes(m, new)
        BY <2>3, <3>1, PublishedAppend DEF ListInv
      <3>3. CASE o = new
        <4>1. block'[m][o].state = "READY" /\ block'[m][o].count = block'[m][o].original
          BY <3>2, <3>3 DEF Publishes
        <4> QED
          BY <4>1 DEF Whole
      <3>4. CASE o # new
        <4>1. o \in Published(m)
          BY <3>2, <3>4 DEF Publishes
        <4>2. block'[m][o] = block[m][o] \/ \E n : block'[m][o] = [block[m][o] EXCEPT !.next = n]
          BY <3>2, <4>1 DEF Publishes
        <4>3. block[m][o] \in BlockType /\ Whole(block[m][o])
          BY <1>3, <1>4, <4>1
        <4>4. \A n : Whole([block[m][o] EXCEPT !.next = n])
          BY <1>5, <4>3, Zenon
        <4> QED
          BY <4>2, <4>3, <4>4
      <3> QED
        BY <3>3, <3>4
    <2>4. ASSUME NEW c \in Consumers, NEW r \in Offsets, Takes(c, m, r)
          PROVE  Whole(block'[m][o])
      <3>1. o \in Published(m)
        BY <2>4, PublishedKept DEF ListInv
      <3>2. /\ block'[m] = [block[m] EXCEPT ![r].state = "IN_PROGRESS"]
            /\ block[m][r].state = "READY"
        BY <2>4 DEF Takes
      <3>3. \/ block'[m][o] = block[m][o]
            \/ /\ block'[m][o] = [block[m][o] EXCEPT !.state = "IN_PROGRESS"]
               /\ block[m][o].state = "READY"
        BY <1>3, <3>1, <3>2
      <3> QED
        BY <1>3, <1>4, <1>5, <3>1, <3>3
    <2>5. ASSUME NEW c \in Consumers, NEW k \in 0 .. 3, Marks(c, m, k)
          PROVE  Whole(block'[m][o])
      <3>1. o \in Published(m)
        BY <2>5, PublishedKept DEF ListInv
      <3>2. k = 3
        BY <1>1, <2>5 DEF Marks
      <3>3. block'[m] = [block[m] EXCEPT ![taken[c]] = FinishedBlock(block[m][taken[c]], 3)]
        BY <2>5, <3>2 DEF Marks
      <3>4. block'[m][o] = block[m][o] \/ block'[m][o] = FinishedBlock(block[m][o], 3)
        BY <1>3, <3>1, <3>3
      <3> QED
        BY <1>3, <1>4, <1>5, <3>1, <3>4
    <2> QED
      BY <2>1, <2>2, <2>3, <2>4, <2>5, SegmentSteps
  <1> QED
    BY <1>2, <1>6 DEF Whole

-----------------------------------------------------------------------------
(* The checks of the programs.                                             *)

\* A larger array needs no smaller block.
LEMMA BlockWordsMonotone ==
    ASSUME NEW a \in Nat, NEW b \in Nat, a <= b
    PROVE  BlockWords(a) <= BlockWords(b)
  <1>1. (5 + a) % 2 \in 0 .. 1 /\ (5 + b) % 2 \in 0 .. 1
    <2>1. \A x \in Nat : x % 2 \in 0 .. 1
      OBVIOUS
    <2>2. 5 + a \in Nat /\ 5 + b \in Nat
      OBVIOUS
    <2> QED
      BY <2>1, <2>2, Zenon
  <1>2. CASE a = b
    <2>1. BlockWords(a) \in Nat
      BY BlockWordsType
    <2> QED
      BY <1>2, <2>1
  <1>3. CASE a < b
    <2>1. BlockWords(a) <= 5 + a + 1 /\ BlockWords(b) >= 5 + b
      BY <1>1 DEF BlockWords
    <2>2. BlockWords(a) \in Nat /\ BlockWords(b) \in Nat
      BY BlockWordsType
    <2> QED
      BY <1>3, <2>1, <2>2
  <1> QED
    BY <1>2, <1>3

\* A segment in which nobody has died.
Sound == TypeInv /\ ListInv /\ UncrashedInv /\ NobodyCrashed /\ crashes = 0

LEMMA HeaderPasses ==
    ASSUME Sound, NEW m \in Producers, header[m].ready
    PROVE  HeaderValid(m)
  <1> DEFINE h == header[m]
             N == h.published
  <1>1. h \in HeaderType /\ block[m] \in [Offsets -> BlockType]
    BY DEF Sound, TypeInv, TypeOK, MemoryOK
  <1>2. /\ IsChain(h, block[m], Walk(m)) /\ Walk(m)[N] = NullOffset
        /\ h.free >= HeaderWords /\ h.free % 2 = 0
    BY DEF Sound, NobodyCrashed, ListInv, ChainInv, Procs
  <1>3. h.free \in Int /\ h.free <= SegmentWords /\ N \in Nat /\ h.processed \in Nat
    BY <1>1, ConfigAssumption DEF HeaderType
  <1>4. h.processed <= N
    <2>1. /\ IsFiniteSet(Published(m)) /\ N = Cardinality(Published(m))
          /\ h.processed <= Cardinality(ProcessedIn(m))
      BY DEF Sound, ListInv, CountInv
    <2>2. /\ Cardinality(ProcessedIn(m)) <= Cardinality(Published(m))
          /\ IsFiniteSet(ProcessedIn(m))
      <3>1. ProcessedIn(m) \subseteq Published(m)
        BY DEF ProcessedIn
      <3> QED
        BY <2>1, <3>1, FS_Subset
    <2>3. Cardinality(ProcessedIn(m)) \in Nat
      BY <2>2, FS_CardinalityType
    <2> QED
      BY <1>3, <2>1, <2>2, <2>3
  <1>5. Walk(m)[0] = h.first /\ NullOffset \notin Offsets
    BY <1>2 DEF IsChain, Offsets, HeaderWords, NullOffset
  <1>6. CASE N = 0
    BY <1>2, <1>3, <1>4, <1>5, <1>6 DEF HeaderValid
  <1>7. CASE N # 0
    <2>1. 0 \in 0 .. N - 1
      BY <1>3, <1>7
    <2>2. h.first \in Offsets /\ h.first + BareBlockWords <= h.free
      <3> HIDE DEF h
      <3> QED
        BY <1>1, <1>2, <1>5, <2>1, ChainOrder
    <2>3. h.first >= HeaderWords /\ h.first % 2 = 0 /\ h.first # NullOffset
      BY <2>2 DEF Offsets, HeaderWords, NullOffset
    <2> QED
      BY <1>2, <1>3, <1>4, <1>7, <2>2, <2>3 DEF HeaderValid
  <1> QED
    BY <1>6, <1>7

LEMMA BlockPasses ==
    ASSUME Sound, NEW m \in Producers, NEW n \in 0 .. header[m].published - 1
    PROVE  BlockValid(m, Walk(m)[n])
  <1> DEFINE h == header[m]
             N == h.published
             W == Walk(m)
             o == W[n]
             b == block[m][o]
  <1>1. h \in HeaderType /\ block[m] \in [Offsets -> BlockType] /\ N \in Nat
    BY DEF Sound, TypeInv, TypeOK, MemoryOK, HeaderType
  <1>2. IsChain(h, block[m], W) /\ W[N] = NullOffset
    BY DEF Sound, NobodyCrashed, ListInv, ChainInv, Procs
  <1>3. \A k \in 0 .. N - 1 : W[k] \in Offsets /\ W[k] + BareBlockWords <= h.free
    <2> HIDE DEF h, W
    <2> QED
      BY <1>1, <1>2, ChainOrder DEF N
  <1>4. /\ o \in Offsets /\ o + BareBlockWords <= h.free /\ b.original # 0
        /\ o + BlockWords(b.original) <= h.free /\ b.next = W[n + 1]
    BY <1>2, <1>3 DEF IsChain
  <1>5. o % 2 = 0
    BY <1>4 DEF Offsets
  <1>6. b.count = IF b.state = "PROCESSED" THEN 0 ELSE b.original
    BY DEF Sound, UncrashedInv, Published
  <1>7. \/ b.next = NullOffset
        \/ /\ b.next >= o + BlockWords(b.original) /\ b.next % 2 = 0
           /\ b.next + BareBlockWords <= h.free
    <2>1. CASE n + 1 = N
      BY <1>2, <1>4, <2>1
    <2>2. CASE n + 1 < N
      <3>1. n + 1 \in 0 .. N - 1 /\ n < n + 1 /\ n \in 0 .. N - 1
        BY <1>1, <2>2
      <3>2. W[n] + BlockWords(block[m][W[n]].original) <= W[n + 1]
        BY <1>2, <3>1 DEF IsChain
      <3>3. W[n + 1] \in Offsets /\ W[n + 1] + BareBlockWords <= h.free
        BY <1>3, <3>1
      <3>4. W[n + 1] \in Int /\ W[n + 1] % 2 = 0 /\ o \in Int
        BY <1>4, <3>3 DEF Offsets
      <3>5. BlockWords(b.original) \in Nat
        <4>1. b.original \in Nat
          BY <1>1, <1>4, ConfigAssumption DEF BlockType
        <4> QED
          BY <4>1, BlockWordsType
      <3>6. W[n + 1] >= o + BlockWords(b.original)
        <4> HIDE DEF W
        <4> QED
          BY <3>2, <3>4, <3>5
      <3> QED
        BY <1>4, <3>3, <3>4, <3>6
    <2>3. n + 1 = N \/ n + 1 < N
      BY <1>1
    <2> QED
      BY <2>1, <2>2, <2>3
  <1> QED
    BY <1>4, <1>5, <1>6, <1>7 DEF BlockValid

\* A consumer's search either finds a READY block or passes the whole list.
LEMMA SearchSucceeds ==
    ASSUME Sound, NEW m \in Producers, header[m].ready
    PROVE  ~TakeFails(m)
  <1> DEFINE N == header[m].published
             S == {n \in 0 .. N - 1 : IsReady(m, Walk(m)[n])}
  <1>1. HeaderValid(m) /\ \A n \in 0 .. N - 1 : BlockValid(m, Walk(m)[n])
    BY HeaderPasses, BlockPasses
  <1>2. N \in Nat /\ Walk(m)[N] = NullOffset
    BY DEF Sound, NobodyCrashed, ListInv, ChainInv, Procs, TypeInv, TypeOK, MemoryOK, HeaderType
  <1> HIDE DEF N
  <1>3. CASE S = {}
    <2>1. NothingReady(m)
      BY <1>1, <1>2, <1>3 DEF NothingReady, WalkIntact, N
    <2> QED
      BY <1>1, <2>1 DEF TakeFails
  <1>4. CASE S # {}
    <2>1. S \in SUBSET Nat
      BY <1>2
    <2>2. PICK n \in S : \A k \in S : n <= k
      <3> HIDE DEF S
      <3> QED
        BY <1>4, <2>1, LeastNatural
    <2>3. n \in 0 .. N - 1 /\ IsReady(m, Walk(m)[n])
      BY <2>2
    <2>4. \A k \in 0 .. n - 1 : ~IsReady(m, Walk(m)[k])
      <3> SUFFICES ASSUME NEW k \in 0 .. n - 1, IsReady(m, Walk(m)[k]) PROVE FALSE
        OBVIOUS
      <3>1. k \in S /\ k \in Nat /\ n \in Nat /\ k < n
        BY <1>2, <2>3
      <3> QED
        BY <2>2, <3>1
    <2>5. TakesAt(m, n)
      BY <1>1, <1>2, <2>3, <2>4 DEF TakesAt, WalkIntact, N
    <2>6. n \in 0 .. header[m].published
      BY <1>2, <2>3 DEF N
    <2> QED
      BY <1>1, <2>5, <2>6 DEF TakeFails
  <1> QED
    BY <1>3, <1>4

\* There is a last block to append to, and room behind it.
LEMMA AppendSucceeds ==
    ASSUME Sound, NEW p \in Producers, pc[p] = "append",
           NEW length \in MinLength .. fitting[p]
    PROVE  CanAppend(p, length)
  <1> DEFINE N == header[p].published
  <1>1. /\ header[p].ready /\ header[p].done = FALSE /\ Fits(p, fitting[p])
        /\ header[p] \in HeaderType /\ fitting[p] \in 0 .. MaxLength
    BY DEF Sound, ListInv, PhaseInv, PhaseOf, Working, TypeInv, TypeOK, MemoryOK, HeaderType,
       LocalsOK
  <1>2. HeaderValid(p)
    BY <1>1, HeaderPasses
  <1>3. Fits(p, length)
    <2>1. length \in Nat /\ fitting[p] \in Nat /\ length <= fitting[p]
      BY <1>1, ConfigAssumption
    <2>2. BlockWords(length) <= BlockWords(fitting[p])
      BY <2>1, BlockWordsMonotone
    <2>3. BlockWords(length) \in Nat /\ BlockWords(fitting[p]) \in Nat
      BY <2>1, BlockWordsType
    <2>4. header[p].free \in Int /\ SegmentWords \in Int
      BY <1>1, ConfigAssumption DEF HeaderType
    <2> QED
      BY <1>1, <2>2, <2>3, <2>4 DEF Fits
  <1>4. \E last \in Offsets \cup {NullOffset} : IsLast(p, last)
    <2>1. CASE header[p].first = NullOffset
      BY <2>1 DEF IsLast
    <2>2. CASE header[p].first # NullOffset
      <3>1. N \in Nat /\ N # 0 /\ Walk(p)[N] = NullOffset
        BY <1>1, <1>2, <2>2
        DEF HeaderValid, HeaderType, Sound, NobodyCrashed, ListInv, ChainInv, Procs
      <3>2. \A n \in 0 .. N - 1 : BlockValid(p, Walk(p)[n])
        BY BlockPasses
      <3>3. N - 1 \in 0 .. N - 1 /\ (N - 1) + 1 = N
        BY <3>1
      <3>4. Walk(p)[N - 1] \in Offsets /\ block[p][Walk(p)[N - 1]].next = NullOffset
        BY ZenonT(40), <3>1, <3>3 DEF Sound, ListInv, ChainInv, IsChain
      <3>5. WalkIntact(p, (N - 1) + 1)
        BY <3>2, <3>3 DEF WalkIntact
      <3>6. IsLast(p, Walk(p)[N - 1])
        BY <2>2, <3>3, <3>4, <3>5 DEF IsLast
      <3> QED
        BY <3>4, <3>6
    <2> QED
      BY <2>1, <2>2
  <1> QED
    BY <1>1, <1>2, <1>3, <1>4 DEF CanAppend

\* While nobody is killed, in both programs and for any number of processes, the
\* shared structure passes every validity check of the code, none of its "cannot
\* happen" error paths is taken, and its three counters count what is there.
THEOREM StaysConsistent == Spec => []Consistent
  <1>1. ASSUME Sound PROVE Consistent
    <2>1. ASSUME NEW p \in Producers, pc[p] \in {"space", "check"}
          PROVE  HeaderValid(shmOf[p])
      <3>1. header[p].ready /\ shmOf[p] = p
        BY <1>1, <2>1
        DEF Sound, ListInv, PhaseInv, PhaseOf, Working, TypeInv, Handles, Attached, Critical
      <3> QED
        BY <1>1, <3>1, HeaderPasses
    <2>2. ASSUME NEW p \in Producers, pc[p] = "append",
                 NEW length \in MinLength .. fitting[p]
          PROVE  CanAppend(shmOf[p], length)
      <3>1. shmOf[p] = p
        BY <1>1, <2>2 DEF Sound, TypeInv, Handles, Attached, Critical
      <3> QED
        BY <1>1, <2>2, <3>1, AppendSucceeds
    <2>3. ASSUME NEW c \in Consumers, pc[c] \in Registered
          PROVE  shmOf[c] \in Producers /\ header[shmOf[c]].ready
      BY <1>1, <2>3
      DEF Sound, ListInv, PhaseInv, TypeInv, Handles, Attached, Section, Critical, Registered,
          Procs
    <2>4. ASSUME NEW c \in Consumers, pc[c] = "take"
          PROVE  ~TakeFails(shmOf[c])
      BY <1>1, <2>3, <2>4, SearchSucceeds DEF Registered
    <2>5. ASSUME NEW c \in Consumers, pc[c] = "finish"
          PROVE  CanFinish(shmOf[c], taken[c])
      <3>1. shmOf[c] \in Producers /\ HeaderValid(shmOf[c])
        BY <1>1, <2>3, <2>5, HeaderPasses DEF Registered
      <3>2. taken[c] \in Offsets /\ block[shmOf[c]][taken[c]].state = "IN_PROGRESS"
        BY <1>1, <2>5 DEF Sound, ListInv, TakenInv, TakenByOne, Holding
      <3>3. taken[c] \in Published(shmOf[c])
        <4>1. taken[c] # NullOffset
          BY <3>2 DEF Offsets, HeaderWords, NullOffset
        <4> QED
          BY <1>1, <4>1 DEF Sound, ListInv, HoldInv
      <3>4. BlockValid(shmOf[c], taken[c])
        BY <1>1, <3>1, <3>3, BlockPasses DEF Published
      <3> QED
        BY <3>1, <3>2, <3>4 DEF CanFinish
    <2>6. ChecksNeverFail
      BY <2>1, <2>2, <2>4, <2>5 DEF ChecksNeverFail
    <2>7. ASSUME NEW m \in Producers
          PROVE  /\ header[m].published = Cardinality(Published(m))
                 /\ header[m].processed = Cardinality(ProcessedIn(m))
                 /\ semName = m => header[m].active = Cardinality(RegisteredWith(m))
      BY <1>1 DEF Sound, ListInv, CountInv, UncrashedInv
    <2>8. CountersExact
      BY <2>7 DEF CountersExact, ProcessedIn, RegisteredWith
    <2> QED
      BY <2>6, <2>8 DEF Consistent
  <1>2. crashes # 0 => Consistent
    BY DEF Consistent, ChecksNeverFail, CountersExact, Undisturbed
  <1> DEFINE Inv == /\ TypeInv /\ ListInv /\ SemInv /\ (SystemV => NameInv)
                    /\ (crashes = 0 => NamedInv) /\ UncrashedInv /\ NobodyCrashed
  <1>3. Init => Inv
    <2> SUFFICES ASSUME Init PROVE Inv
      OBVIOUS
    <2>1. \A m \in Producers : /\ header[m] = ZeroHeader /\ Published(m) = {}
                               /\ RegisteredWith(m) = {} /\ semName # m
      <3> SUFFICES ASSUME NEW m \in Producers
                   PROVE  /\ header[m] = ZeroHeader /\ Published(m) = {}
                          /\ RegisteredWith(m) = {} /\ semName # m
        OBVIOUS
      <3>1. header[m] = ZeroHeader /\ semName # m
        BY ProcessesAssumption DEF Init
      <3>2. header[m].published = 0
        BY <3>1 DEF ZeroHeader
      <3>3. \A c \in Consumers : pc[c] = "open_sem"
        BY ProcessesAssumption DEF Init, Procs
      <3> QED
        BY <3>1, <3>2, <3>3 DEF Published, RegisteredWith, Registered
    <2>2. UncrashedInv /\ NamedInv
      BY <2>1, FS_EmptySet DEF UncrashedInv, NamedInv, ZeroHeader
    <2>3. NobodyCrashed
      BY DEF Init, NobodyCrashed
    <2> QED
      BY <2>2, <2>3, InitType, ListInit, InitMutex
  <1>4. Inv /\ [Next]_vars => Inv'
    <2> SUFFICES ASSUME Inv, [Next]_vars PROVE Inv'
      OBVIOUS
    <2>1. TypeInv' /\ MemoryOK' /\ ListInv' /\ SemInv' /\ (SystemV => NameInv)'
      BY TypeStep, MemoryStep, ListStep, SemInvStep, NameInvStep
    <2>2. crashes' = 0 => crashes = 0 /\ crashes' = crashes
      BY CrashesGrow
    <2>3. (crashes = 0 => NamedInv)'
      BY <2>1, <2>2, NamedStep
    <2>4. UncrashedInv'
      <3>1. CASE crashes = 0
        BY <2>1, <3>1, UncrashedStep
      <3>2. CASE crashes # 0
        BY <2>2, <3>2 DEF UncrashedInv
      <3> QED
        BY <3>1, <3>2
    <2>5. NobodyCrashed'
      BY NobodyCrashedStep
    <2> QED
      BY <2>1, <2>3, <2>4, <2>5
  <1>5. Inv => Consistent
    BY <1>1, <1>2 DEF Sound
  <1> HIDE DEF Inv
  <1> QED
    BY <1>3, <1>4, <1>5, PTL DEF Spec
=============================================================================
