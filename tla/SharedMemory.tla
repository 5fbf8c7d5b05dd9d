---------------------------- MODULE SharedMemory ----------------------------
(***************************************************************************)
(* Producer and consumers of 03-ipc-and-network-programming/               *)
(* 04-system-v-shared-memory (SystemV = TRUE) and of                       *)
(* 05-posix-shared-memory (SystemV = FALSE).  The two programs share their *)
(* algorithm and differ in the life of the IPC objects: System V creation  *)
(* falls back to opening what exists, its semaphore is undone when the     *)
(* holder dies (SEM_UNDO) and its removal makes later calls fail; POSIX    *)
(* creation is exclusive, nothing is undone, and unlinking removes a name  *)
(* while open objects live on.                                             *)
(*                                                                         *)
(* Every producer process runs once, so an IPC object is identified by the *)
(* producer that created it.  Offsets and sizes are counted in 4-byte      *)
(* words.  The values of an array are abstracted to its length.            *)
(***************************************************************************)
EXTENDS Integers, FiniteSets

CONSTANTS
    Producers, Consumers,  \* the processes
    None,                  \* no object under this name
    SegmentWords,          \* config->segment_size
    MinLength, MaxLength,  \* config->min_array_length, max_array_length
    SystemV,               \* which of the two programs
    MaxCrashes             \* bound on the processes killed in a behaviour

HeaderWords == 14          \* sizeof(shared_header_t)
BareBlockWords == 6        \* sizeof(shared_block_t), its padding included
NullOffset == 0            \* SHM_NULL_OFFSET

ASSUME ProcessesAssumption ==
    /\ Producers \cap Consumers = {}
    /\ None \notin Producers \cup Consumers
    /\ IsFiniteSet(Consumers)

\* producer_config_is_valid, and shared_header_initialize's size check.
ASSUME ConfigAssumption ==
    /\ SegmentWords \in Nat /\ SegmentWords >= HeaderWords
    /\ MinLength \in Nat \ {0} /\ MaxLength \in Nat /\ MinLength <= MaxLength
    /\ SystemV \in BOOLEAN
    /\ MaxCrashes \in Nat

Procs == Producers \cup Consumers
Offsets == {o \in HeaderWords .. SegmentWords : o % 2 = 0}  \* alignof is 8 bytes

VARIABLES
    pc,       \* the call each process is about to make
    semName, shmName,  \* the creator of the object the name stands for
    sem,      \* value of each creator's semaphore
    semOf, shmOf,      \* the objects each process has opened
    header,   \* shared_header_t of each creator's segment
    block,    \* shared_block_t at each offset of each segment
    fitting,  \* max_fitting_count of each producer
    taken,    \* taken_offset of each consumer
    result,   \* exit status of each process
    crashes   \* processes killed so far

vars == <<pc, semName, shmName, sem, semOf, shmOf, header, block, fitting,
          taken, result, crashes>>
names == <<semName, shmName>>
handles == <<semOf, shmOf>>
memory == <<header, block>>
locals == <<fitting, taken>>

\* Where ipc_semaphore_lock leads: the critical sections of both programs.
Section == [lock_init |-> "init", lock_space |-> "space",
            lock_append |-> "append", lock_check |-> "check",
            lock_register |-> "register", lock_take |-> "take",
            lock_finish |-> "finish"]
Critical == {"init", "space", "append", "check", "register", "take", "finish"}
Registered == {"lock_take", "take", "lock_finish", "finish"}
ProducerPC == {"create_sem", "create_shm", "lock_init", "init", "lock_space",
               "space", "lock_append", "append", "lock_check", "check",
               "remove_shm", "remove_sem", "exited", "crashed"}
ConsumerPC == {"open_sem", "open_shm", "lock_register", "register",
               "exited", "crashed"} \cup Registered

ZeroHeader == [ready |-> FALSE, first |-> NullOffset, free |-> 0,
               published |-> 0, processed |-> 0, done |-> FALSE, active |-> 0]
ZeroBlock == [next |-> NullOffset, count |-> 0, original |-> 0,
              state |-> "READY"]

Init ==
    /\ pc = [p \in Procs |-> IF p \in Producers THEN "create_sem" ELSE "open_sem"]
    /\ semName = None /\ shmName = None
    /\ sem = [s \in Producers |-> 0]
    /\ semOf = [p \in Procs |-> None] /\ shmOf = [p \in Procs |-> None]
    /\ header = [m \in Producers |-> ZeroHeader]
    /\ block = [m \in Producers |-> [o \in Offsets |-> ZeroBlock]]
    /\ fitting = [p \in Producers |-> 0]
    /\ taken = [c \in Consumers |-> NullOffset]
    /\ result = [p \in Procs |-> 1]
    /\ crashes = 0

-----------------------------------------------------------------------------
(* Faulty variants of definitions below: each property is checked to fail  *)
(* when one of them replaces the definition it is named after.             *)

Fits_WithoutPadding(m, count) == header[m].free + 5 + count <= SegmentWords
IsReady_IgnoresInProgress(m, o) == block[m][o].state # "PROCESSED"
FinishedBlock_KeepsCount(b, k) == [b EXCEPT !.state = IF k >= 2 THEN "PROCESSED" ELSE @]
FinishedHeader_NotCounted(h, k) == h
Unregister_Forgotten(h) == h
Finished_IgnoresBlocks(m) == header[m].active = 0
SemaphoreUsable_AfterRemoval(p) == TRUE
Undone_Never(p) == FALSE
Undone_UnlockNotTracked(p) == SystemV
NoSemaphore_WithoutExcl == TRUE
CreatedSemaphore_NotChecked(p) == TRUE
Removes_Unconditionally(p, opened, name) == TRUE

-----------------------------------------------------------------------------
(* The list in the segment.                                                *)

\* shared_block_size: five words of fields, the array, 8-byte alignment.
BlockWords(count) == (5 + count) + ((5 + count) % 2)

HeaderValid(m) ==
    LET h == header[m] IN
    /\ h.ready
    /\ h.free >= HeaderWords /\ h.free <= SegmentWords /\ h.free % 2 = 0
    /\ h.processed <= h.published
    /\ IF h.first = NullOffset
       THEN h.published = 0
       ELSE /\ h.published # 0
            /\ h.first >= HeaderWords /\ h.first % 2 = 0
            /\ h.first + BareBlockWords <= h.free

BlockValid(m, o) ==
    LET b == block[m][o] IN
    /\ o \in Offsets /\ o % 2 = 0
    /\ o + BareBlockWords <= header[m].free
    /\ b.original # 0
    /\ b.count = IF b.state = "PROCESSED" THEN 0 ELSE b.original
    /\ o + BlockWords(b.original) <= header[m].free
    /\ \/ b.next = NullOffset
       \/ /\ b.next >= o + BlockWords(b.original)
          /\ b.next % 2 = 0
          /\ b.next + BareBlockWords <= header[m].free

\* Hop[n] is the offset the walk over next_offset reaches after n hops.
Walk(m) ==
    LET Hop[n \in 0 .. header[m].published] ==
            IF n = 0 THEN header[m].first
            ELSE IF Hop[n - 1] \in Offsets THEN block[m][Hop[n - 1]].next
            ELSE NullOffset
    IN  Hop

\* Every block before the n-th was there and passed shared_block_at.
WalkIntact(m, n) == \A k \in 0 .. n - 1 : BlockValid(m, Walk(m)[k])

IsReady(m, o) == block[m][o].state = "READY"

\* consumer_take_block stops at the first READY block ...
TakesAt(m, n) ==
    /\ n < header[m].published
    /\ WalkIntact(m, n + 1)
    /\ IsReady(m, Walk(m)[n])
    /\ \A k \in 0 .. n - 1 : ~IsReady(m, Walk(m)[k])

\* ... or passes the whole list and finds nothing to take.
NothingReady(m) ==
    /\ WalkIntact(m, header[m].published)
    /\ Walk(m)[header[m].published] = NullOffset
    /\ \A k \in 0 .. header[m].published - 1 : ~IsReady(m, Walk(m)[k])

AllProcessed(m) == header[m].processed = header[m].published

\* producer_find_last_block; NullOffset when there is no such block.
IsLast(m, o) ==
    IF header[m].first = NullOffset THEN o = NullOffset
    ELSE \E n \in 0 .. header[m].published - 1 :
            /\ WalkIntact(m, n + 1)
            /\ o = Walk(m)[n] /\ block[m][o].next = NullOffset

Fits(m, count) == header[m].free + BlockWords(count) <= SegmentWords

\* producer_max_fitting_count: the binary search over a monotonic size.
IsMaxFitting(m, count) ==
    /\ count = 0 \/ Fits(m, count)
    /\ count = MaxLength \/ ~Fits(m, count + 1)

\* The first k of producer_append_block's stores: free_offset, the link, and
\* published_blocks (the block's own fields are unreachable before the link).
AppendedHeader(h, last, length, k) ==
    [h EXCEPT !.free = IF k >= 1 THEN @ + BlockWords(length) ELSE @,
              !.first = IF k >= 2 /\ last = NullOffset THEN h.free ELSE @,
              !.published = IF k >= 3 THEN @ + 1 ELSE @]

AppendedBlocks(blocks, new, last, length, k) ==
    [o \in Offsets |->
        IF o = new
        THEN [next |-> NullOffset, count |-> length, original |-> length,
              state |-> "READY"]
        ELSE IF o = last /\ k >= 2 THEN [blocks[o] EXCEPT !.next = new]
        ELSE blocks[o]]

AppendStores(m, last, length, k) ==
    /\ block' = [block EXCEPT ![m] =
           AppendedBlocks(block[m], header[m].free, last, length, k)]
    /\ header' = [header EXCEPT ![m] = AppendedHeader(header[m], last, length, k)]

CanAppend(m, length) ==
    /\ HeaderValid(m) /\ ~header[m].done /\ Fits(m, length)
    /\ \E last \in Offsets \cup {NullOffset} : IsLast(m, last)

\* The first k of consumer_finish_block's stores: count, state, processed_blocks.
FinishedBlock(b, k) ==
    [b EXCEPT !.count = IF k >= 1 THEN 0 ELSE @,
              !.state = IF k >= 2 THEN "PROCESSED" ELSE @]
FinishedHeader(h, k) == [h EXCEPT !.processed = IF k >= 3 THEN @ + 1 ELSE @]

CanFinish(m, o) ==
    /\ HeaderValid(m) /\ BlockValid(m, o)
    /\ block[m][o].state = "IN_PROGRESS"

-----------------------------------------------------------------------------
(* The semaphore.                                                          *)

Goto(p, where) == pc' = [pc EXCEPT ![p] = where]

\* A System V identifier is dead once IPC_RMID was done; a POSIX one never is.
SemaphoreUsable(p) == SystemV => semName = semOf[p]

\* semop or sem_wait returns 0; EINTR is retried.
LockFree(p) == sem[semOf[p]] > 0

\* ipc_semaphore_lock succeeds.
Lock(p) ==
    /\ pc[p] \in DOMAIN Section
    /\ SemaphoreUsable(p)
    /\ LockFree(p)
    /\ sem' = [sem EXCEPT ![semOf[p]] = @ - 1]
    /\ Goto(p, Section[pc[p]])
    /\ UNCHANGED <<names, handles, memory, locals, result, crashes>>

\* semop fails with EIDRM or EINVAL: the process goes to its cleanup.  A consumer,
\* unable to lock there either, leaves active_consumers as it is.
LockFails(p) ==
    /\ pc[p] \in DOMAIN Section
    /\ ~SemaphoreUsable(p)
    /\ Goto(p, IF p \in Producers THEN "remove_shm" ELSE "exited")
    /\ UNCHANGED <<names, sem, handles, memory, locals, result, crashes>>

\* ipc_semaphore_unlock (the value of a removed semaphore is never read again).
Unlock(p) == sem' = [sem EXCEPT ![semOf[p]] = @ + 1]

-----------------------------------------------------------------------------
(* The producer.  Nobody removes the semaphore of a producer that has not   *)
(* come to its cleanup, so that its unlocking always succeeds.             *)

\* IPC_CREAT | IPC_EXCL, O_CREAT | O_EXCL.
NoSemaphore == semName = None

CreateSemaphore(p) ==
    /\ pc[p] = "create_sem"
    /\ \/ /\ NoSemaphore
          /\ semName' = p
          /\ sem' = [sem EXCEPT ![p] = 1]
          /\ semOf' = [semOf EXCEPT ![p] = p]
          /\ Goto(p, "create_shm")
       \/ /\ ~NoSemaphore /\ SystemV
          /\ semOf' = [semOf EXCEPT ![p] = semName]
          /\ Goto(p, "create_shm")
          /\ UNCHANGED <<semName, sem>>
       \/ /\ ~NoSemaphore /\ ~SystemV
          /\ Goto(p, "exited")
          /\ UNCHANGED <<semName, sem, semOf>>
    /\ UNCHANGED <<shmName, shmOf, memory, locals, result, crashes>>

\* sem_created != shm_created or !sem_created sends the producer to the cleanup.
CreatedSemaphore(p) == semOf[p] = p

CreateSharedMemory(p) ==
    /\ pc[p] = "create_shm"
    /\ \/ /\ shmName = None
          /\ shmName' = p
          /\ shmOf' = [shmOf EXCEPT ![p] = p]
          /\ Goto(p, IF CreatedSemaphore(p) THEN "lock_init" ELSE "remove_shm")
       \/ /\ shmName # None
          /\ Goto(p, "remove_shm")
          /\ UNCHANGED <<shmName, shmOf>>
    /\ UNCHANGED <<semName, sem, semOf, memory, locals, result, crashes>>

InitializeHeader(p) ==
    /\ pc[p] = "init"
    /\ header' = [header EXCEPT ![p] =
           [ZeroHeader EXCEPT !.ready = TRUE, !.free = HeaderWords]]
    /\ Unlock(p)
    /\ Goto(p, "lock_space")
    /\ UNCHANGED <<names, handles, block, locals, result, crashes>>

\* Is there room for another array?  If not, publishing is over.
FindSpace(p) ==
    LET m == shmOf[p] IN
    /\ pc[p] = "space"
    /\ Unlock(p)
    /\ IF HeaderValid(m)
       THEN \E count \in 0 .. MaxLength :
            /\ IsMaxFitting(m, count)
            /\ header' = [header EXCEPT ![m].done = @ \/ count < MinLength]
            /\ fitting' = [fitting EXCEPT ![p] = count]
            /\ Goto(p, IF count < MinLength THEN "lock_check" ELSE "lock_append")
       ELSE Goto(p, "remove_shm") /\ UNCHANGED <<header, fitting>>
    /\ UNCHANGED <<names, handles, block, taken, result, crashes>>

\* The length was drawn outside the lock, up to the count found under it.
AppendBlock(p) ==
    LET m == shmOf[p] IN
    /\ pc[p] = "append"
    /\ Unlock(p)
    /\ \E length \in MinLength .. fitting[p] :
          IF CanAppend(m, length)
          THEN /\ \E last \in Offsets \cup {NullOffset} :
                     IsLast(m, last) /\ AppendStores(m, last, length, 3)
               /\ Goto(p, "lock_space")
          ELSE Goto(p, "remove_shm") /\ UNCHANGED memory
    /\ UNCHANGED <<names, handles, locals, result, crashes>>

Finished(m) == AllProcessed(m) /\ header[m].active = 0

CheckFinished(p) ==
    LET m == shmOf[p] IN
    /\ pc[p] = "check"
    /\ Unlock(p)
    /\ result' = [result EXCEPT ![p] = IF HeaderValid(m) /\ Finished(m) THEN 0 ELSE 1]
    /\ Goto(p, IF HeaderValid(m) /\ ~Finished(m) THEN "lock_check" ELSE "remove_shm")
    /\ UNCHANGED <<names, handles, memory, locals, crashes>>

\* The cleanup removes what this producer created: by identifier in System V,
\* by name in POSIX.
Removes(p, opened, name) == opened[p] = p /\ (SystemV => name = p)

RemoveSharedMemory(p) ==
    /\ pc[p] = "remove_shm"
    /\ shmName' = IF Removes(p, shmOf, shmName) THEN None ELSE shmName
    /\ Goto(p, "remove_sem")
    /\ UNCHANGED <<semName, sem, handles, memory, locals, result, crashes>>

RemoveSemaphore(p) ==
    /\ pc[p] = "remove_sem"
    /\ semName' = IF Removes(p, semOf, semName) THEN None ELSE semName
    /\ Goto(p, "exited")
    /\ UNCHANGED <<shmName, sem, handles, memory, locals, result, crashes>>

Producer(p) ==
    \/ CreateSemaphore(p) \/ CreateSharedMemory(p) \/ InitializeHeader(p)
    \/ FindSpace(p) \/ AppendBlock(p) \/ CheckFinished(p)
    \/ RemoveSharedMemory(p) \/ RemoveSemaphore(p)

-----------------------------------------------------------------------------
(* A consumer.                                                             *)

OpenSemaphore(c) ==
    /\ pc[c] = "open_sem"
    /\ IF semName # None
       THEN semOf' = [semOf EXCEPT ![c] = semName] /\ Goto(c, "open_shm")
       ELSE Goto(c, "exited") /\ UNCHANGED semOf
    /\ UNCHANGED <<names, sem, shmOf, memory, locals, result, crashes>>

OpenSharedMemory(c) ==
    /\ pc[c] = "open_shm"
    /\ IF shmName # None
       THEN shmOf' = [shmOf EXCEPT ![c] = shmName] /\ Goto(c, "lock_register")
       ELSE Goto(c, "exited") /\ UNCHANGED shmOf
    /\ UNCHANGED <<names, sem, semOf, memory, locals, result, crashes>>

\* An unlock that fails sends the consumer to its cleanup, which takes the
\* registration back.
Register(c) ==
    LET m == shmOf[c] IN
    /\ pc[c] = "register"
    /\ Unlock(c)
    /\ IF HeaderValid(m) /\ SemaphoreUsable(c)
       THEN /\ header' = [header EXCEPT ![m].active = @ + 1]
            /\ Goto(c, "lock_take")
       ELSE Goto(c, "exited") /\ UNCHANGED header
    /\ UNCHANGED <<names, handles, block, locals, result, crashes>>

\* active_consumers--, unless it is 0 already.
Unregister(h) == [h EXCEPT !.active = IF @ > 0 THEN @ - 1 ELSE 0]

TakeBlock(c) ==
    LET m == shmOf[c] IN
    /\ pc[c] = "take"
    /\ HeaderValid(m)
    /\ \E n \in 0 .. header[m].published :
       /\ TakesAt(m, n)
       /\ block' = [block EXCEPT ![m][Walk(m)[n]].state = "IN_PROGRESS"]
       /\ taken' = [taken EXCEPT ![c] = Walk(m)[n]]
    /\ Unlock(c)
    /\ IF SemaphoreUsable(c)
       THEN Goto(c, "lock_finish") /\ UNCHANGED header
       ELSE Goto(c, "exited") /\ header' = [header EXCEPT ![m] = Unregister(header[m])]
    /\ UNCHANGED <<names, handles, fitting, result, crashes>>

\* CONSUMER_TAKE_NO_DATA: sleep and try again.
TakeNoData(c) ==
    LET m == shmOf[c] IN
    /\ pc[c] = "take"
    /\ HeaderValid(m) /\ NothingReady(m) /\ ~(header[m].done /\ AllProcessed(m))
    /\ Unlock(c)
    /\ IF SemaphoreUsable(c)
       THEN Goto(c, "lock_take") /\ UNCHANGED header
       ELSE Goto(c, "exited") /\ header' = [header EXCEPT ![m] = Unregister(header[m])]
    /\ UNCHANGED <<names, handles, block, locals, result, crashes>>

\* CONSUMER_TAKE_FINISHED: the only successful way out.
TakeFinished(c) ==
    LET m == shmOf[c] IN
    /\ pc[c] = "take"
    /\ HeaderValid(m) /\ NothingReady(m) /\ header[m].done /\ AllProcessed(m)
    /\ Unlock(c)
    /\ header' = [header EXCEPT ![m] = Unregister(header[m])]
    /\ result' = [result EXCEPT ![c] =
           IF SemaphoreUsable(c) /\ header[m].active # 0 THEN 0 ELSE 1]
    /\ Goto(c, "exited")
    /\ UNCHANGED <<names, handles, block, locals, crashes>>

TakeFails(m) ==
    \/ ~HeaderValid(m)
    \/ ~NothingReady(m) /\ \A n \in 0 .. header[m].published : ~TakesAt(m, n)

\* CONSUMER_TAKE_ERROR.
TakeError(c) ==
    LET m == shmOf[c] IN
    /\ pc[c] = "take"
    /\ TakeFails(m)
    /\ Unlock(c)
    /\ header' = [header EXCEPT ![m] = Unregister(header[m])]
    /\ Goto(c, "exited")
    /\ UNCHANGED <<names, handles, block, locals, result, crashes>>

\* A failed check or a dead semaphore sends the consumer to its cleanup, which
\* takes the registration back before it unlocks.
FinishBlock(c) ==
    LET m == shmOf[c]
        done == CanFinish(m, taken[c])
        h == IF done THEN FinishedHeader(header[m], 3) ELSE header[m]
    IN  /\ pc[c] = "finish"
        /\ IF done
           THEN /\ block' = [block EXCEPT ![m][taken[c]] = FinishedBlock(block[m][taken[c]], 3)]
                /\ taken' = [taken EXCEPT ![c] = NullOffset]
           ELSE UNCHANGED <<block, taken>>
        /\ Unlock(c)
        /\ IF done /\ SemaphoreUsable(c)
           THEN Goto(c, "lock_take") /\ header' = [header EXCEPT ![m] = h]
           ELSE Goto(c, "exited") /\ header' = [header EXCEPT ![m] = Unregister(h)]
        /\ UNCHANGED <<names, handles, fitting, result, crashes>>

Consumer(c) ==
    \/ OpenSemaphore(c) \/ OpenSharedMemory(c) \/ Register(c)
    \/ TakeBlock(c) \/ TakeNoData(c) \/ TakeFinished(c) \/ TakeError(c)
    \/ FinishBlock(c)

-----------------------------------------------------------------------------
(* Neither program handles a signal: Ctrl+C or kill ends the process where *)
(* it stands.  In the middle of a critical section that leaves the stores  *)
(* done so far; the kernel undoes a System V semaphore, and only that.     *)

LosesStores(p) ==
    LET m == shmOf[p] IN
    CASE pc[p] = "append" ->
           \E k \in 0 .. 2, length \in MinLength .. fitting[p],
              last \in Offsets \cup {NullOffset} :
             CanAppend(m, length) /\ IsLast(m, last) /\ AppendStores(m, last, length, k)
      [] pc[p] = "finish" /\ CanFinish(m, taken[p]) ->
           \E k \in 0 .. 2 :
             /\ block' = [block EXCEPT ![m][taken[p]] = FinishedBlock(block[m][taken[p]], k)]
             /\ UNCHANGED header
      [] OTHER -> UNCHANGED memory

\* SEM_UNDO: the kernel takes back what this process did to the semaphore.
Undone(p) == SystemV /\ pc[p] \in Critical

Crash(p) ==
    /\ pc[p] \notin {"create_sem", "open_sem", "exited", "crashed"}
    /\ crashes < MaxCrashes
    /\ crashes' = crashes + 1
    /\ LosesStores(p)
    /\ IF Undone(p) THEN Unlock(p) ELSE UNCHANGED sem
    /\ Goto(p, "crashed")
    /\ UNCHANGED <<names, handles, locals, result>>

-----------------------------------------------------------------------------

\* Everybody is gone: the system may stop.
AllGone ==
    /\ \A p \in Procs : pc[p] \in {"exited", "crashed"}
    /\ UNCHANGED vars

Next ==
    \/ \E p \in Producers : Producer(p)
    \/ \E c \in Consumers : Consumer(c)
    \/ \E p \in Procs : Lock(p) \/ LockFails(p) \/ Crash(p)
    \/ AllGone

\* A started process is scheduled.  Every loop sleeps for a second or more
\* between two critical sections, so that a process that keeps asking for the
\* lock gets it.
Fairness ==
    /\ \A p \in Producers :
          WF_vars(pc[p] # "create_sem" /\ Producer(p)) /\ SF_vars(Lock(p))
    /\ \A c \in Consumers :
          /\ WF_vars(pc[c] # "open_sem" /\ Consumer(c))
          /\ SF_vars(Lock(c)) /\ WF_vars(LockFails(c))

Spec == Init /\ [][Next]_vars
FairSpec == Spec /\ Fairness

-----------------------------------------------------------------------------
(* Properties.                                                             *)

HeaderType == [ready : BOOLEAN, first : Offsets \cup {NullOffset}, free : 0 .. SegmentWords,
               published : Nat, processed : Nat, done : BOOLEAN, active : Nat]
BlockType == [next : Offsets \cup {NullOffset}, count : 0 .. MaxLength,
              original : 0 .. MaxLength,
              state : {"READY", "IN_PROGRESS", "PROCESSED"}]

PcOK ==
    /\ pc \in [Procs -> ProducerPC \cup ConsumerPC]
    /\ \A p \in Producers : pc[p] \in ProducerPC
    /\ \A c \in Consumers : pc[c] \in ConsumerPC
ObjectsOK ==
    /\ semName \in Producers \cup {None} /\ shmName \in Producers \cup {None}
    /\ sem \in [Producers -> Int]
    /\ semOf \in [Procs -> Producers \cup {None}]
    /\ shmOf \in [Procs -> Producers \cup {None}]
MemoryOK ==
    /\ header \in [Producers -> HeaderType]
    /\ block \in [Producers -> [Offsets -> BlockType]]
LocalsOK ==
    /\ fitting \in [Producers -> 0 .. MaxLength]
    /\ taken \in [Consumers -> Offsets \cup {NullOffset}]
    /\ result \in [Procs -> {0, 1}]
    /\ crashes \in 0 .. MaxCrashes

\* Types of the variables: the shared structures of ipc.h, which never leave the
\* segment, and the locals of producer_run and consumer_run.
TypeOK == PcOK /\ ObjectsOK /\ MemoryOK /\ LocalsOK

\* The semaphore protects the shared structure: two processes are never inside
\* a critical section on the same segment, whatever processes start, restart or
\* die in between.  (A segment whose creator found the other producer's
\* semaphore is given up before it is initialised, and does not count.)
MutualExclusion ==
    \A p, q \in Procs :
       /\ p # q /\ pc[p] \in Critical /\ pc[q] \in Critical
       /\ shmOf[p] = shmOf[q]
       => ~CreatedSemaphore(shmOf[p])

Holding(c) == pc[c] \in {"lock_finish", "finish"}

\* A block leaves the list for one consumer only: what a consumer computes on
\* is IN_PROGRESS in the segment and nobody else's.
TakenByOne ==
    \A c \in Consumers : Holding(c) =>
       /\ taken[c] \in Offsets
       /\ block[shmOf[c]][taken[c]].state = "IN_PROGRESS"
       /\ \A d \in Consumers \ {c} :
             Holding(d) /\ shmOf[d] = shmOf[c] => taken[d] # taken[c]

\* Nobody was killed and, in POSIX, the exchange was not started again: a consumer
\* may then hold objects of two producers (see MutualExclusion).
Undisturbed ==
    /\ crashes = 0
    /\ SystemV \/ Cardinality({p \in Producers : CreatedSemaphore(p)}) <= 1

\* The validity checks and the "cannot happen" error paths of both programs
\* never trigger once the header is initialised and while nobody is killed.
ChecksNeverFail == Undisturbed =>
    /\ \A p \in Producers :
          /\ pc[p] \in {"space", "check"} => HeaderValid(shmOf[p])
          /\ pc[p] = "append" =>
                \A length \in MinLength .. fitting[p] : CanAppend(shmOf[p], length)
    /\ \A c \in Consumers :
          /\ pc[c] = "take" => ~TakeFails(shmOf[c])
          /\ pc[c] = "finish" => CanFinish(shmOf[c], taken[c])

Published(m) == {Walk(m)[n] : n \in 0 .. header[m].published - 1}

\* Without crashes the three counters of the header agree with the list and, as
\* long as the semaphore exists, with the processes: the producer's decision to
\* remove the segment rests on them.
CountersExact == Undisturbed =>
    \A m \in Producers :
       /\ header[m].published = Cardinality(Published(m))
       /\ header[m].processed =
             Cardinality({o \in Published(m) : block[m][o].state = "PROCESSED"})
       /\ semName = m => header[m].active =
             Cardinality({c \in Consumers : pc[c] \in Registered /\ shmOf[c] = m})

\* The shared structure stays consistent: it passes every check of the programs, and its
\* counters count what is there.
Consistent == ChecksNeverFail /\ CountersExact

\* A producer that reports success leaves no block unprocessed, and whoever is
\* still registered with the segment holds none.
DrainedBeforeRemoval ==
    \A p \in Producers : result[p] = 0 =>
       /\ header[p].done
       /\ \A o \in Published(p) : block[p][o].state = "PROCESSED"
       /\ \A c \in Consumers : shmOf[c] = p => ~Holding(c)

\* A producer removes the objects it created and no other: in POSIX unlinking
\* goes by name, and another producer may be starting.
RemovesItsOwn ==
    \A p \in Producers :
       /\ pc[p] = "remove_shm" /\ shmOf[p] = p => shmName = p
       /\ pc[p] \in {"remove_shm", "remove_sem"} /\ semOf[p] = p => semName = p

Owns(p) == pc[p] \in {"init", "space", "append", "check"}
                        \cup {"lock_init", "lock_space", "lock_append", "lock_check"}

\* One producer at a time runs the exchange, and consumers find its objects and
\* nobody else's under the two names.
OneOwner ==
    \A p \in Producers : Owns(p) =>
       /\ semName = p /\ shmName = p
       /\ \A q \in Producers \ {p} : ~Owns(q)

\* Producers keep out of each other's way, however their starts and ends overlap.
OwnersApart == RemovesItsOwn /\ OneOwner

\* Nobody waits for the lock for ever: SEM_UNDO gives it back when its holder is
\* killed, and removal of the semaphore turns waiting into failure.
NobodyStuckOnLock ==
    \A p \in Procs :
       (pc[p] \in DOMAIN Section) ~> (pc[p] \notin DOMAIN Section)

\* With nobody killed, a registered consumer comes to an end ...
ConsumersLeave ==
    \A c \in Consumers :
       (pc[c] \in Registered) ~> (pc[c] = "exited" \/ ~Undisturbed)

\* ... and one registered consumer is enough for the producer to finish, report
\* success and remove both names.
ProducerFinishes ==
    \A c \in Consumers, p \in Producers :
       (pc[c] \in Registered /\ shmOf[c] = p)
          ~> \/ pc[p] = "exited" /\ result[p] = 0 /\ semName # p /\ shmName # p
             \/ ~Undisturbed

\* POSIX only: a consumer that registered always succeeds, also when the
\* producer has already unlinked the names (in System V the removal of the
\* semaphore makes such a consumer fail).
RegisteredSucceed ==
    \A c \in Consumers :
       (pc[c] \in Registered) ~> ((pc[c] = "exited" /\ result[c] = 0) \/ ~Undisturbed)

\* Nobody is left behind by a System V exchange: not on the lock, not among the consumers,
\* and not the producer that waits for them.
EverybodyFinishes == NobodyStuckOnLock /\ ConsumersLeave /\ ProducerFinishes

\* In POSIX those who registered in time succeed too.
RegisteredFinish == RegisteredSucceed /\ ProducerFinishes

-----------------------------------------------------------------------------
(* The exchange implements BlockPool: a block is in the pool from the      *)
(* moment published_blocks counts it.                                      *)

StatusOf(m, o) ==
    IF o \notin Published(m) THEN "absent"
    ELSE [READY |-> "ready", IN_PROGRESS |-> "taken",
          PROCESSED |-> "complete"][block[m][o].state]

WorkerOf(m, o) ==
    IF StatusOf(m, o) = "taken" /\ \E c \in Consumers : shmOf[c] = m /\ taken[c] = o
    THEN CHOOSE c \in Consumers : shmOf[c] = m /\ taken[c] = o
    ELSE None

Pool == INSTANCE BlockPool WITH
    Pools <- Producers, Blocks <- Offsets, Workers <- Consumers, Nobody <- None,
    status <- [m \in Producers |-> [o \in Offsets |-> StatusOf(m, o)]],
    worker <- [m \in Producers |-> [o \in Offsets |-> WorkerOf(m, o)]],
    closed <- [m \in Producers |-> header[m].done],
    success <- [m \in Producers |-> result[m] = 0]

\* Every behaviour of the shared-memory programs is one of the pool: nothing is
\* published after closing, taken twice or completed by nobody, and success is
\* reported on a closed and completed pool.
ImplementsPool == Pool!Spec
=============================================================================
