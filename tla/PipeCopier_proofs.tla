-------------------------- MODULE PipeCopier_proofs -------------------------
(***************************************************************************)
(* What holds of PipeCopier for any files of any length, any chunk, any    *)
(* capacity of a pipe and any number of faults: copies are beginnings of   *)
(* their files, a parent that reports success has copied all of them, and  *)
(* no FIFO is left behind.                                                 *)
(*                                                                         *)
(* The heart of it is the stream: what is in the data pipe, followed by    *)
(* what the parent is about to write.  Each of its units is the one that   *)
(* is due after the unit before it, the first is the one the child is      *)
(* waiting for, and the parent produces what is due after the last.        *)
(***************************************************************************)
EXTENDS PipeCopier, SequenceTheorems, TLAPS

Names == ToSet(Files)

Unit == [kind : {"file", "name", "data", "finish", "ready"}, file : Names, n : 0..MaxLength]

-----------------------------------------------------------------------------
(* The inductive invariant.                                                *)

ParentStages == {"create", "create ready", "fork", "unused", "open data", "open ready",
                 "handshake", "next", "send", "finish", "close", "wait", "remove",
                 "remove ready", "ended", "killed"}
ChildStages == {"none", "unused", "open data", "open ready", "handshake", "header", "name",
                "data", "ended", "killed"}

ControlTyped ==
    /\ useFifo \in BOOLEAN /\ name \in [Pipe -> {"none", "us", "other"}]
    /\ pc \in [Process -> ParentStages \union ChildStages]
    /\ pc["parent"] \in ParentStages /\ pc["child"] \in ChildStages
    /\ result \in [Process -> BOOLEAN]
    /\ readers \in [Pipe -> SUBSET Process] /\ writers \in [Pipe -> SUBSET Process]
    /\ length \in [Names -> -1..MaxLength] /\ faults \in 0..MaxFaults

ContentTyped ==
    content \in [Pipe -> Seq(Unit)] /\ \A p \in Pipe : Len(content[p]) <= PipeSize

DataTyped ==
    /\ index \in 1..(Len(Files) + 1) /\ out \in Seq(Unit) /\ left \in 0..MaxLength
    /\ announced \in [Names -> -1..MaxLength]
    /\ taking \in Names /\ rest \in 0..MaxLength /\ got \in Seq(Unit) /\ Len(got) <= Chunk
    /\ copy \in [Names -> [made : BOOLEAN, bytes : Seq(Unit)]]

TypeInv == ControlTyped /\ ContentTyped /\ DataTyped

\* The names of the FIFOs that we made, in every stage of the parent.
NameInv ==
    /\ ~useFifo \/ pc["parent"] = "create" => \A p \in Pipe : name[p] # "us"
    /\ pc["parent"] = "create ready" => useFifo /\ name["ready"] # "us"
    /\ pc["parent"] = "remove ready" => name["data"] # "us"
    /\ pc["parent"] = "ended" => \A p \in Pipe : name[p] # "us"

\* Where the processes are together, and what they have while they are elsewhere.
Before == {"create", "create ready", "fork", "unused", "open data", "open ready", "handshake"}
Late == {"finish", "close", "wait", "remove", "remove ready", "ended", "killed"}
Waiting == {"none", "unused", "open data", "open ready", "handshake", "header"}
Alive == pc["child"] \notin {"ended", "killed"}

StageInv ==
    /\ pc["parent"] \in Before \union {"next"} => out = <<>> /\ left = 0
    /\ pc["parent"] \in {"create", "create ready", "fork"} => pc["child"] = "none"
    /\ pc["child"] = "none" => pc["parent"] \in {"create", "create ready", "fork", "remove",
                                                 "remove ready", "ended"}
    /\ pc["child"] \in Waiting \union {"name"} => got = <<>>
    /\ pc["child"] \in Waiting \ {"header"} => content["ready"] = <<>>
    /\ pc["parent"] = "send" => index <= Len(Files)
    /\ pc["parent"] \in {"remove", "remove ready", "ended"} /\ result["parent"] =>
           pc["child"] = "ended" /\ result["child"]

\* The files before index are announced, unless the parent fails, and no later ones are.
AnnouncedInv ==
    /\ \A i \in 1..Len(Files) :
          /\ i > index \/ (i = index /\ pc["parent"] \in Before \union {"next"}) =>
                 announced[Files[i]] = -1
          /\ i < index /\ result["parent"] => announced[Files[i]] >= 0
    /\ pc["parent"] = "send" => announced[Files[index]] >= 0 /\ left <= announced[Files[index]]
    /\ pc["parent"] \in Late \ {"killed"} /\ result["parent"] => index > Len(Files)

\* The stream.
Stream == content["data"] \o out

Starts(unit) ==
    \/ unit.kind = "finish"
    \/ unit.kind = "file" /\ announced[unit.file] >= 0 /\ unit.n = announced[unit.file]

\* Byte k of file f is due, or the next message if the file is complete.
IsDue(f, k, unit) ==
    IF k <= announced[f] THEN unit = [kind |-> "data", file |-> f, n |-> k] ELSE Starts(unit)

Follows(unit, next) ==
    \/ unit.kind = "file" /\ next = [kind |-> "name", file |-> unit.file, n |-> 0]
    \/ unit.kind = "name" /\ IsDue(unit.file, 1, next)
    \/ unit.kind = "data" /\ IsDue(unit.file, unit.n + 1, next)

\* A header and its name are written together.
Chain(stream) ==
    /\ \A i \in 1..Len(stream) :
          stream[i].kind # "finish" => announced[stream[i].file] >= 0
    /\ \A i \in 1..(Len(stream) - 1) : Follows(stream[i], stream[i + 1])
    /\ stream # <<>> => stream[Len(stream)].kind # "file"

\* What the child is waiting for.
Position == announced[taking] - rest + Len(got)
Awaited(unit) ==
    /\ pc["child"] \in Waiting => Starts(unit)
    /\ pc["child"] = "name" => unit.kind = "name" /\ rest = announced[unit.file]
    /\ pc["child"] = "data" => IsDue(taking, Position + 1, unit)

\* A message ends here, or byte k - 1 of file f was the last unit.
AtStart(stream) ==
    IF stream = <<>> THEN pc["child"] \in Waiting \/ (pc["child"] = "data" /\ rest = Len(got))
    ELSE LET last == stream[Len(stream)]
         IN  \/ last.kind = "name" /\ announced[last.file] = 0
             \/ last.kind = "data" /\ last.n = announced[last.file]
AtByte(stream, f, k) ==
    IF stream = <<>> THEN pc["child"] = "data" /\ taking = f /\ k = Position + 1
    ELSE LET last == stream[Len(stream)]
         IN  /\ last.file = f
             /\ (last.kind = "name" /\ k = 1) \/ (last.kind = "data" /\ k = last.n + 1)

HeadInv ==
    /\ pc["child"] = "name" => Stream # <<>>
    /\ Stream # <<>> => Awaited(Stream[1])

TailInv ==
    /\ (\E i \in 1..Len(Stream) : Stream[i].kind = "finish") => pc["parent"] \in Late
    /\ pc["parent"] \in Before => Stream = <<>> /\ pc["child"] \in Waiting
    /\ pc["parent"] = "next" \/ (pc["parent"] = "send" /\ left = 0) => AtStart(Stream)
    /\ pc["parent"] = "send" /\ left > 0 =>
           AtByte(Stream, Files[index], announced[Files[index]] - left + 1)

StreamInv == Alive => Chain(Stream) /\ HeadInv /\ TailInv

\* The child has written what it received, and holds the next bytes.
CopyInv ==
    /\ \A f \in Names : announced[f] = -1 => copy[f].bytes = <<>>
    /\ CopiesArePrefixes
    /\ pc["child"] = "data" =>
        /\ announced[taking] >= 0 /\ rest <= announced[taking] /\ Len(got) <= rest
        /\ copy[taking] = [made |-> TRUE, bytes |-> Bytes(taking, 1, announced[taking] - rest)]
        /\ got = Bytes(taking, announced[taking] - rest + 1, Position)

\* A file that was announced is copied, under way, or still in the stream.
Copied(f) == copy[f] = [made |-> TRUE, bytes |-> Bytes(f, 1, announced[f])]
UnderWay(f) ==
    \/ pc["child"] = "name" /\ Stream[1].file = f
    \/ pc["child"] = "data" /\ taking = f
    \/ Alive /\ \E i \in 1..Len(Stream) : Stream[i].kind = "file" /\ Stream[i].file = f
DoneInv ==
    /\ Alive => \A f \in Names : announced[f] >= 0 => Copied(f) \/ UnderWay(f)
    /\ pc["child"] = "ended" /\ result["child"] =>
           /\ pc["parent"] \in Late
           /\ \A f \in Names : announced[f] >= 0 => Copied(f)

IInv == TypeInv /\ NameInv /\ StageInv /\ AnnouncedInv /\ StreamInv /\ CopyInv /\ DoneInv

-----------------------------------------------------------------------------
(* Bytes of a file, units of the stream.                                   *)

LEMMA Constants ==
    ASSUME PipeCopierAssumption
    PROVE  /\ Files \in Seq(Names) /\ Len(Files) \in Nat /\ Len(Files) >= 1
           /\ \A i \in 1..Len(Files) : Files[i] \in Names
           /\ \A f \in Names : \E i \in 1..Len(Files) : f = Files[i]
           /\ \A i, j \in 1..Len(Files) : Files[i] = Files[j] => i = j
           /\ Chunk \in Nat /\ Chunk >= 1 /\ PipeSize \in Nat /\ PipeSize >= 1
           /\ MaxLength \in Nat /\ MaxFaults \in Nat
<1>1. Files \in Seq(Names) /\ Files # <<>>
  BY DEF PipeCopierAssumption, Names
<1>2. Len(Files) \in Nat /\ Len(Files) >= 1 /\ DOMAIN Files = 1..Len(Files)
  BY <1>1
<1>3. \A f \in Names : \E i \in 1..Len(Files) : f = Files[i]
  BY <1>2 DEF Names, ToSet
<1>4. \A i, j \in 1..Len(Files) : Files[i] = Files[j] => i = j
  BY <1>2 DEF PipeCopierAssumption, IsInjective
<1>5. \A i \in 1..Len(Files) : Files[i] \in Names
  BY <1>1
<1> QED
  BY <1>1, <1>2, <1>3, <1>4, <1>5 DEF PipeCopierAssumption

\* What a piece of a file is, from byte a + 1 to byte b, and from the first byte on.
LEMMA Piece ==
    ASSUME NEW f \in Names, NEW a \in Nat, NEW b \in Nat, a <= b, b <= MaxLength, MaxLength \in Nat
    PROVE  /\ Bytes(f, a + 1, b) \in Seq(Unit) /\ Len(Bytes(f, a + 1, b)) = b - a
           /\ \A k \in 1..(b - a) :
                 Bytes(f, a + 1, b)[k] = [kind |-> "data", file |-> f, n |-> a + k]
<1>1. Bytes(f, a + 1, b) = [k \in 1..(b - a) |-> [kind |-> "data", file |-> f, n |-> a + k]]
  <2>1. b - (a + 1) + 1 = b - a
    OBVIOUS
  <2>2. \A k \in 1..(b - a) : (a + 1) + k - 1 = a + k
    OBVIOUS
  <2> QED
    BY <2>1, <2>2 DEF Bytes
<1>2. \A k \in 1..(b - a) : [kind |-> "data", file |-> f, n |-> a + k] \in Unit
  <2> SUFFICES ASSUME NEW k \in 1..(b - a) PROVE a + k \in 0..MaxLength
    BY DEF Unit
  <2> QED
    OBVIOUS
<1>3. b - a \in Nat
  OBVIOUS
<1> HIDE DEF Bytes
<1>4. Bytes(f, a + 1, b) \in [1..(b - a) -> Unit]
  BY <1>1, <1>2
<1>5. Bytes(f, a + 1, b) \in Seq(Unit) /\ Len(Bytes(f, a + 1, b)) = b - a
  BY <1>3, <1>4
<1> QED
  BY <1>1, <1>5

LEMMA Beginning ==
    ASSUME NEW f \in Names, NEW b \in Nat, b <= MaxLength, MaxLength \in Nat
    PROVE  /\ Bytes(f, 1, b) \in Seq(Unit) /\ Len(Bytes(f, 1, b)) = b
           /\ \A k \in 1..b : Bytes(f, 1, b)[k] = [kind |-> "data", file |-> f, n |-> k]
<1>1. 0 + 1 = 1 /\ b - 0 = b /\ (\A k \in 1..b : 0 + k = k) /\ 0 <= b
  OBVIOUS
<1>2. /\ Bytes(f, 0 + 1, b) \in Seq(Unit) /\ Len(Bytes(f, 0 + 1, b)) = b - 0
      /\ \A k \in 1..(b - 0) :
            Bytes(f, 0 + 1, b)[k] = [kind |-> "data", file |-> f, n |-> 0 + k]
  BY <1>1, Piece, 0 \in Nat
<1> QED
  BY <1>1, <1>2

\* A piece of a file followed by the next one is a longer piece.
LEMMA BytesConcat ==
    ASSUME NEW f \in Names, NEW a \in Nat, NEW b \in Nat, a <= b, b <= MaxLength, MaxLength \in Nat
    PROVE  Bytes(f, 1, a) \o Bytes(f, a + 1, b) = Bytes(f, 1, b)
<1> DEFINE s == Bytes(f, 1, a)
           t == Bytes(f, a + 1, b)
           u == Bytes(f, 1, b)
<1>1. /\ s \in Seq(Unit) /\ Len(s) = a
      /\ \A k \in 1..a : s[k] = [kind |-> "data", file |-> f, n |-> k]
  BY Beginning
<1>2. /\ t \in Seq(Unit) /\ Len(t) = b - a
      /\ \A k \in 1..(b - a) : t[k] = [kind |-> "data", file |-> f, n |-> a + k]
  BY Piece
<1>3. /\ u \in Seq(Unit) /\ Len(u) = b
      /\ \A k \in 1..b : u[k] = [kind |-> "data", file |-> f, n |-> k]
  BY Beginning
<1> HIDE DEF s, t, u
<1>4. s \o t \in Seq(Unit) /\ Len(s \o t) = b
  <2>1. \A x, y \in Seq(Unit) : x \o y \in Seq(Unit) /\ Len(x \o y) = Len(x) + Len(y)
    OBVIOUS
  <2>2. s \o t \in Seq(Unit) /\ Len(s \o t) = a + (b - a)
    BY <1>1, <1>2, <2>1, Zenon
  <2>3. a + (b - a) = b
    OBVIOUS
  <2> QED
    BY <2>2, <2>3
<1>5. \A k \in 1..b : (s \o t)[k] = u[k]
  <2> SUFFICES ASSUME NEW k \in 1..b PROVE (s \o t)[k] = u[k]
    OBVIOUS
  <2>1. CASE k <= a
    BY <1>1, <1>2, <1>3, <2>1
  <2>2. CASE k > a
    <3>1. (s \o t)[k] = t[k - a] /\ k - a \in 1..(b - a) /\ a + (k - a) = k
      BY <1>1, <1>2, <2>2
    <3> QED
      BY <1>2, <1>3, <3>1
  <2>3. k <= a \/ k > a
    OBVIOUS
  <2> QED
    BY <2>1, <2>2, <2>3
<1>6. s \o t = u
  BY <1>3, <1>4, <1>5, SeqEqual
<1> QED
  BY <1>6 DEF s, t, u

\* A piece of a file with one more byte.
LEMMA BytesAppend ==
    ASSUME NEW f \in Names, NEW a \in Nat, NEW b \in Nat, a <= b, b + 1 <= MaxLength,
           MaxLength \in Nat
    PROVE  Append(Bytes(f, a + 1, b), [kind |-> "data", file |-> f, n |-> b + 1])
               = Bytes(f, a + 1, b + 1)
<1> DEFINE s == Bytes(f, a + 1, b)
           u == Bytes(f, a + 1, b + 1)
           e == [kind |-> "data", file |-> f, n |-> b + 1]
<1>1. /\ s \in Seq(Unit) /\ Len(s) = b - a
      /\ \A k \in 1..(b - a) : s[k] = [kind |-> "data", file |-> f, n |-> a + k]
  BY Piece
<1>2. /\ u \in Seq(Unit) /\ Len(u) = b - a + 1
      /\ \A k \in 1..(b - a + 1) : u[k] = [kind |-> "data", file |-> f, n |-> a + k]
  <2>1. b + 1 \in Nat /\ a <= b + 1 /\ (b + 1) - a = b - a + 1
    OBVIOUS
  <2>2. /\ u \in Seq(Unit) /\ Len(u) = (b + 1) - a
        /\ \A k \in 1..((b + 1) - a) : u[k] = [kind |-> "data", file |-> f, n |-> a + k]
    BY <2>1, Piece, Zenon
  <2> QED
    BY <2>1, <2>2, Zenon
<1> HIDE DEF s, u
<1>3. e \in Unit /\ u[b - a + 1] = e
  <2>1. e \in Unit
    BY DEF Unit
  <2>2. b - a + 1 \in 1..(b - a + 1) /\ a + (b - a + 1) = b + 1
    OBVIOUS
  <2>3. u[b - a + 1] = [kind |-> "data", file |-> f, n |-> a + (b - a + 1)]
    BY <1>2, <2>2, Zenon
  <2> QED
    BY <2>1, <2>2, <2>3
<1> HIDE DEF e
<1>4. Append(s, e) \in Seq(Unit) /\ Len(Append(s, e)) = b - a + 1
  BY <1>1, <1>3
<1>5. \A k \in 1..(b - a + 1) : Append(s, e)[k] = u[k]
  <2> SUFFICES ASSUME NEW k \in 1..(b - a + 1) PROVE Append(s, e)[k] = u[k]
    OBVIOUS
  <2>1. CASE k \in 1..(b - a)
    <3>1. Append(s, e)[k] = s[k]
      BY <1>1, <1>3, <2>1
    <3> QED
      BY <1>1, <1>2, <2>1, <3>1
  <2>2. CASE k = b - a + 1
    BY <1>1, <1>3, <2>2
  <2>3. k \in 1..(b - a) \/ k = b - a + 1
    OBVIOUS
  <2> QED
    BY <2>1, <2>2, <2>3, Zenon
<1>6. Append(s, e) = u
  BY <1>2, <1>4, <1>5, SeqEqual
<1> QED
  BY <1>6 DEF s, u, e

\* A piece from the first byte on is a beginning of every longer one.
LEMMA BytesPrefix ==
    ASSUME NEW f \in Names, NEW a \in Nat, NEW b \in Nat, a <= b, b <= MaxLength, MaxLength \in Nat
    PROVE  IsPrefix(Bytes(f, 1, a), Bytes(f, 1, b))
<1> DEFINE s == Bytes(f, 1, a)
           u == Bytes(f, 1, b)
<1>1. /\ s \in Seq(Unit) /\ Len(s) = a
      /\ \A k \in 1..a : s[k] = [kind |-> "data", file |-> f, n |-> k]
  BY Beginning
<1>2. /\ u \in Seq(Unit) /\ Len(u) = b
      /\ \A k \in 1..b : u[k] = [kind |-> "data", file |-> f, n |-> k]
  BY Beginning
<1> HIDE DEF s, u
<1>3. SubSeq(s, 1, Len(s)) \in Seq(Unit) /\ SubSeq(u, 1, Len(s)) \in Seq(Unit)
  BY <1>1, <1>2
<1>4. Len(SubSeq(s, 1, Len(s))) = a /\ Len(SubSeq(u, 1, Len(s))) = a
  BY <1>1, <1>2
<1>5. \A k \in 1..a : SubSeq(s, 1, Len(s))[k] = SubSeq(u, 1, Len(s))[k]
  BY <1>1, <1>2
<1>6. SubSeq(s, 1, Len(s)) = SubSeq(u, 1, Len(s))
  BY <1>3, <1>4, <1>5, SeqEqual
<1>7. IsPrefix(s, u)
  BY <1>1, <1>2, <1>6 DEF IsPrefix
<1> QED
  BY <1>7 DEF s, u

-----------------------------------------------------------------------------
(* Types.                                                                  *)

LEMMA PutTyped ==
    ASSUME ContentTyped, NEW p \in Pipe, NEW unit \in Unit, Len(content[p]) < PipeSize,
           PipeSize \in Nat, Put(p, unit)
    PROVE  ContentTyped'
<1>1. PICK s : s = content[p]
  OBVIOUS
<1>2. s \in Seq(Unit) /\ Len(s) \in Nat /\ Len(s) < PipeSize
  BY <1>1 DEF ContentTyped
<1>3. Append(s, unit) \in Seq(Unit) /\ Len(Append(s, unit)) <= PipeSize
  BY <1>2
<1>4. content' = [content EXCEPT ![p] = Append(s, unit)]
  BY <1>1 DEF Put
<1> QED
  BY <1>3, <1>4 DEF ContentTyped

LEMMA TakeTyped ==
    ASSUME ContentTyped, NEW p \in Pipe, HasNext(p), PipeSize \in Nat, Take(p)
    PROVE  ContentTyped' /\ Head(content[p]) \in Unit
<1>1. PICK s : s = content[p]
  OBVIOUS
<1>2. s \in Seq(Unit) /\ s # <<>> /\ Len(s) \in Nat /\ Len(s) <= PipeSize
  BY <1>1 DEF ContentTyped, HasNext
<1>3. Tail(s) \in Seq(Unit) /\ Len(Tail(s)) = Len(s) - 1 /\ Head(s) \in Unit
  BY <1>2
<1>4. content' = [content EXCEPT ![p] = Tail(s)]
  BY <1>1 DEF Take
<1>5. Len(Tail(s)) <= PipeSize
  BY <1>2, <1>3
<1> QED
  BY <1>1, <1>3, <1>4, <1>5 DEF ContentTyped

LEMMA CloseTyped ==
    ASSUME NEW p \in Process, CloseAll(p), ControlTyped
    PROVE  readers' \in [Pipe -> SUBSET Process] /\ writers' \in [Pipe -> SUBSET Process]
BY DEF CloseAll, ControlTyped

\* A step of one process leaves the other one where it is.
PcTyped ==
    /\ pc \in [Process -> ParentStages \union ChildStages]
    /\ pc["parent"] \in ParentStages /\ pc["child"] \in ChildStages

LEMMA ParentGoes ==
    ASSUME ControlTyped, NEW w \in ParentStages, Goto("parent", w)
    PROVE  PcTyped' /\ pc'["parent"] = w /\ pc'["child"] = pc["child"]
BY DEF ControlTyped, Goto, PcTyped, Process

LEMMA ChildGoes ==
    ASSUME ControlTyped, NEW w \in ChildStages, Goto("child", w)
    PROVE  PcTyped' /\ pc'["child"] = w /\ pc'["parent"] = pc["parent"]
BY DEF ControlTyped, Goto, PcTyped, Process

LEMMA Failed ==
    ASSUME ControlTyped, NEW p \in Process, Fail(p)
    PROVE  result' \in [Process -> BOOLEAN] /\ ~result'[p]
           /\ \A q \in Process \ {p} : result'[q] = result[q]
BY DEF ControlTyped, Fail

LEMMA FaultTyped ==
    ASSUME ControlTyped, PipeCopierAssumption, Fault \/ UNCHANGED faults
    PROVE  faults' \in 0..MaxFaults
<1>1. MaxFaults \in Nat
  BY Constants
<1> QED
  BY <1>1 DEF ControlTyped, Fault

\* What the processes do with pipes and names only.
Idle ==
    \/ Create \/ CreateReady \/ Fork \/ Close \/ WaitChild \/ RemoveFifo \/ Received
    \/ Incomplete \/ Meet \/ (\E p \in Process : CloseUnused(p) \/ Kill(p))

LEMMA IdleEffect ==
    ASSUME Idle
    PROVE  /\ content' = content /\ length' = length /\ index' = index /\ out' = out
           /\ left' = left /\ announced' = announced /\ taking' = taking /\ rest' = rest
           /\ got' = got /\ copy' = copy
BY DEF Idle, Create, CreateReady, Fork, Close, WaitChild, RemoveFifo, Received, Incomplete, Meet,
       CloseUnused, Kill, pipes, parent, child

LEMMA IdleTyped == ASSUME PipeCopierAssumption, TypeInv, Idle PROVE TypeInv'
<1> USE DEF TypeInv
<1>1. ContentTyped' /\ DataTyped' /\ length' \in [Names -> -1..MaxLength]
  BY IdleEffect DEF ContentTyped, DataTyped, ControlTyped
<1>3. useFifo' = useFifo /\ faults' \in 0..MaxFaults
  <2>1. useFifo' = useFifo /\ (Fault \/ UNCHANGED faults)
    BY DEF Idle, Create, CreateReady, Fork, Close, WaitChild, RemoveFifo, Received, Incomplete,
           Meet, CloseUnused, Kill
  <2> QED
    BY <2>1, FaultTyped
<1>4. name' \in [Pipe -> {"none", "us", "other"}]
  <2>1. \/ name' = name
        \/ \E p \in Pipe, v \in {"none", "us"} : name' = [name EXCEPT ![p] = v]
    BY DEF Idle, Create, CreateReady, Fork, Close, WaitChild, RemoveFifo, Received, Incomplete,
           Meet, CloseUnused, Kill, Unlinked, Pipe
  <2> QED
    BY <2>1 DEF ControlTyped
<1>5. result' \in [Process -> BOOLEAN]
  <2>1. \/ result' = result \/ (\E p \in Process : Fail(p)) \/ WaitChild
    BY DEF Idle, Create, CreateReady, Fork, Close, RemoveFifo, Received, Incomplete, Meet,
           CloseUnused, Kill, ChildFails, pipes, Process
  <2>2. WaitChild => result' \in [Process -> BOOLEAN]
    <3>1. result["parent"] \in BOOLEAN /\ result["child"] \in BOOLEAN
      BY DEF ControlTyped, Process
    <3>2. ExitStatus(result["parent"], result["child"] /\ pc["child"] = "ended") \in BOOLEAN
      BY <3>1 DEF ExitStatus
    <3> QED
      BY <3>2 DEF WaitChild, ControlTyped
  <2> QED
    BY <2>1, <2>2, Failed DEF ControlTyped
<1>6. readers' \in [Pipe -> SUBSET Process] /\ writers' \in [Pipe -> SUBSET Process]
  <2>1. CASE \E p \in Process : CloseAll(p)
    BY <2>1, CloseTyped
  <2>2. CASE Fork
    <3>1. \/ readers' = readers /\ writers' = writers
          \/ readers' = [p \in Pipe |-> Process] /\ writers' = [p \in Pipe |-> Process]
      BY <2>2 DEF Fork
    <3> QED
      BY <3>1 DEF ControlTyped
  <2>3. CASE Meet
    <3>1. \E p \in Pipe, s, t \in SUBSET Process :
              readers' = [readers EXCEPT ![p] = s] /\ writers' = [writers EXCEPT ![p] = t]
      <4>1. {"child"} \in SUBSET Process /\ {"parent"} \in SUBSET Process
        BY DEF Process
      <4>2. "data" \in Pipe /\ "ready" \in Pipe
        BY DEF Pipe
      <4> QED
        BY <2>3, <4>1, <4>2, Zenon DEF Meet
    <3> QED
      BY <3>1 DEF ControlTyped
  <2>4. CASE \E p \in Process : CloseUnused(p)
    BY <2>4 DEF CloseUnused, Unused, ControlTyped
  <2>5. Create \/ CreateReady \/ WaitChild \/ RemoveFifo \/ Received =>
            readers' = readers /\ writers' = writers
    BY DEF Create, CreateReady, WaitChild, RemoveFifo, Received, pipes
  <2>6. Close \/ Incomplete \/ (\E p \in Process : Kill(p)) => \E p \in Process : CloseAll(p)
    BY DEF Close, Incomplete, Kill, ChildFails, Process
  <2> QED
    BY <2>1, <2>2, <2>3, <2>4, <2>5, <2>6 DEF Idle, ControlTyped
<1>7. PcTyped'
  <2>1. CASE Create \/ CreateReady \/ Close \/ WaitChild \/ RemoveFifo
    <3>1. \E w \in ParentStages : Goto("parent", w)
      BY <2>1 DEF Create, CreateReady, Close, WaitChild, RemoveFifo, ParentStages
    <3> QED
      BY <3>1, ParentGoes
  <2>2. CASE Received \/ Incomplete
    <3>1. \E w \in ChildStages : Goto("child", w)
      BY <2>2 DEF Received, Incomplete, ChildFails, ChildStages
    <3> QED
      BY <3>1, ChildGoes
  <2>3. CASE Fork \/ Meet
    <3>1. \/ \E w \in ParentStages : Goto("parent", w)
          \/ \E w \in ParentStages \intersect ChildStages : pc' = [p \in Process |-> w]
      BY <2>3 DEF Fork, Meet, ParentStages, ChildStages
    <3>2. ASSUME NEW w \in ParentStages \intersect ChildStages, pc' = [p \in Process |-> w]
          PROVE  PcTyped'
      BY <3>2 DEF PcTyped, Process
    <3> QED
      BY <3>1, <3>2, ParentGoes
  <2>4. CASE \E p \in Process : CloseUnused(p) \/ Kill(p)
    <3>1. \E p \in Process, w \in ParentStages \intersect ChildStages : Goto(p, w)
      BY <2>4 DEF CloseUnused, Kill, ParentStages, ChildStages
    <3> QED
      BY <3>1, ParentGoes, ChildGoes DEF Process
  <2> QED
    BY <2>1, <2>2, <2>3, <2>4 DEF Idle
<1> QED
  BY <1>1, <1>3, <1>4, <1>5, <1>6, <1>7 DEF ControlTyped, PcTyped

\* A step that leaves names, results and the ends of pipes alone.
LEMMA PlainControl ==
    ASSUME ControlTyped, PcTyped', UNCHANGED <<useFifo, name, result, readers, writers, length, faults>>
    PROVE  ControlTyped'
BY DEF ControlTyped, PcTyped

LEMMA PlainPc == ASSUME ControlTyped, pc' = pc PROVE PcTyped'
BY DEF ControlTyped, PcTyped

\* Every step keeps the types.
LEMMA TypeStep == ASSUME PipeCopierAssumption, IInv, [Next]_vars PROVE TypeInv'
<1> USE DEF IInv, TypeInv
<1>0. Chunk \in Nat /\ PipeSize \in Nat /\ PipeSize >= 1 /\ MaxLength \in Nat /\ MaxFaults \in Nat
  BY Constants
<1>1. CASE Idle
  BY <1>1, IdleTyped
<1>2. CASE AwaitReady
  <2>1. \E w \in ParentStages : Goto("parent", w)
    BY <1>2 DEF AwaitReady, ParentStages
  <2>2. PcTyped'
    BY <2>1, ParentGoes
  <2>3. /\ UNCHANGED <<useFifo, name, readers, writers, length, faults>>
        /\ (result' = result \/ Fail("parent"))
    BY <1>2 DEF AwaitReady
  <2>4. result' \in [Process -> BOOLEAN]
    BY <2>3, Failed DEF ControlTyped, Process
  <2>5. ControlTyped'
    BY <2>2, <2>3, <2>4 DEF ControlTyped, PcTyped
  <2>6. content' = content \/ (HasNext("ready") /\ Take("ready"))
    BY <1>2 DEF AwaitReady
  <2>7. ContentTyped'
    BY <1>0, <2>6, TakeTyped DEF ContentTyped, Pipe
  <2>8. DataTyped'
    BY <1>2 DEF AwaitReady, parent, child, DataTyped
  <2> QED
    BY <2>5, <2>7, <2>8
<1>3. CASE NextFile
  <2>1. index \in 1..Len(Files) /\ Files[index] \in Names
    BY <1>3, Constants DEF NextFile, DataTyped
  <2>2. PICK f : f = Files[index] /\ f \in Names
    BY <2>1
  <2>3. CASE length[f] = -1
    <3>1. Fail("parent") /\ index' = index + 1 /\ UNCHANGED <<pc, out, left, announced>>
      BY <1>3, <2>2, <2>3 DEF NextFile
    <3>2. UNCHANGED <<useFifo, name, pipes, length, child, faults>>
      BY <1>3 DEF NextFile
    <3>3. ControlTyped'
      BY <3>1, <3>2, Failed DEF ControlTyped, pipes, Process
    <3>4. index' \in 1..(Len(Files) + 1)
      BY <2>1, <3>1, Constants
    <3>5. DataTyped' /\ ContentTyped'
      BY <3>1, <3>2, <3>4 DEF DataTyped, ContentTyped, pipes, child
    <3> QED
      BY <3>3, <3>5
  <2>4. CASE length[f] # -1
    <3>1. /\ Goto("parent", "send") /\ UNCHANGED <<result, index>>
          /\ out' = <<[kind |-> "file", file |-> f, n |-> length[f]],
                      [kind |-> "name", file |-> f, n |-> 0]>>
          /\ left' = length[f] /\ announced' = [announced EXCEPT ![f] = length[f]]
      BY <1>3, <2>2, <2>4 DEF NextFile
    <3>2. UNCHANGED <<useFifo, name, pipes, length, child, faults>>
      BY <1>3 DEF NextFile
    <3>3. PcTyped'
      BY <3>1, ParentGoes, "send" \in ParentStages DEF ParentStages
    <3>4. ControlTyped'
      BY <3>1, <3>2, <3>3, PlainControl DEF pipes
    <3>5. length[f] \in 0..MaxLength
      <4>1. length[f] \in -1..MaxLength
        BY <2>2 DEF ControlTyped
      <4> QED
        BY <1>0, <2>4, <4>1
    <3>6. out' \in Seq(Unit)
      <4>1. [kind |-> "file", file |-> f, n |-> length[f]] \in Unit
        BY <2>2, <3>5 DEF Unit
      <4>2. [kind |-> "name", file |-> f, n |-> 0] \in Unit
        BY <1>0, <2>2 DEF Unit
      <4> QED
        BY <3>1, <4>1, <4>2
    <3>7. announced' \in [Names -> -1..MaxLength]
      <4>1. length[f] \in -1..MaxLength
        BY <2>2 DEF ControlTyped
      <4>2. PICK v \in -1..MaxLength : announced' = [announced EXCEPT ![f] = v]
        BY <3>1, <4>1
      <4> QED
        BY <4>2 DEF DataTyped
    <3>8. DataTyped' /\ ContentTyped'
      BY <3>1, <3>2, <3>5, <3>6, <3>7 DEF DataTyped, ContentTyped, pipes, child
    <3> QED
      BY <3>4, <3>8
  <2> QED
    BY <2>3, <2>4
<1>4. CASE Finish
  <2>1. PcTyped'
    BY <1>4, ParentGoes, "finish" \in ParentStages DEF Finish, ParentStages
  <2>2. ControlTyped'
    BY <1>4, <2>1, PlainControl DEF Finish, pipes
  <2>3. [kind |-> "finish", file |-> Files[1], n |-> 0] \in Unit
    BY <1>0, Constants DEF Unit
  <2>4. out' \in Seq(Unit)
    BY <1>4, <2>3 DEF Finish
  <2> QED
    BY <1>4, <2>2, <2>4 DEF Finish, DataTyped, ContentTyped, pipes, child
<1>5. CASE Write
  <2>1. UNCHANGED <<useFifo, name, result, length, index, left, announced, child, faults>>
    BY <1>5 DEF Write
  <2>2. CASE ~Broken("data") /\ Room("data") /\ Put("data", Head(out)) /\ out' = Tail(out)
             /\ UNCHANGED <<pc, readers, writers>>
    <3>1. ControlTyped'
      BY <2>1, <2>2, PlainControl, PlainPc
    <3>2. out # <<>> /\ out \in Seq(Unit)
      BY <1>5 DEF Write, DataTyped
    <3>3. Head(out) \in Unit /\ Tail(out) \in Seq(Unit)
      BY <3>2
    <3>4. ContentTyped'
      BY <1>0, <2>2, <3>3, PutTyped DEF Room, Pipe
    <3>5. DataTyped'
      BY <2>1, <2>2, <3>3 DEF DataTyped, child
    <3> QED
      BY <3>1, <3>4, <3>5
  <2>3. CASE Broken("data") /\ Goto("parent", "killed") /\ CloseAll("parent")
             /\ UNCHANGED <<content, out>>
    <3>1. PcTyped'
      BY <2>3, ParentGoes, "killed" \in ParentStages DEF ParentStages
    <3>2. readers' \in [Pipe -> SUBSET Process] /\ writers' \in [Pipe -> SUBSET Process]
      BY <2>3, CloseTyped DEF Process
    <3> QED
      BY <2>1, <2>3, <3>1, <3>2 DEF ControlTyped, PcTyped, ContentTyped, DataTyped, child
  <2> QED
    BY <1>5, <2>2, <2>3 DEF Write
<1>6. CASE Written
  <2>1. \E w \in ParentStages : Goto("parent", w)
    BY <1>6 DEF Written, ParentStages
  <2>2. PcTyped'
    BY <2>1, ParentGoes
  <2>3. ControlTyped'
    BY <1>6, <2>2, PlainControl DEF Written, pipes
  <2>4. index' = index \/ (pc["parent"] = "send" /\ index' = index + 1)
    BY <1>6 DEF Written
  <2>5. index' \in 1..(Len(Files) + 1)
    <3>1. index \in 1..(Len(Files) + 1) /\ Len(Files) \in Nat
      BY Constants DEF DataTyped
    <3>2. pc["parent"] = "send" => index <= Len(Files)
      BY DEF StageInv
    <3> QED
      BY <2>4, <3>1, <3>2
  <2> QED
    BY <1>6, <2>3, <2>5 DEF Written, DataTyped, ContentTyped, pipes, child
<1>7. CASE SayReady
  <2>1. CASE Goto("child", "header") /\ UNCHANGED <<readers, writers>>
             /\ Put("ready", [kind |-> "ready", file |-> Files[1], n |-> 0])
    <3>1. ControlTyped'
      <4>1. PcTyped'
        BY <2>1, ChildGoes, "header" \in ChildStages DEF ChildStages
      <4> QED
        BY <1>7, <2>1, <4>1, PlainControl DEF SayReady
    <3>2. [kind |-> "ready", file |-> Files[1], n |-> 0] \in Unit
      BY <1>0, Constants DEF Unit
    <3>3. Len(content["ready"]) < PipeSize
      <4>1. content["ready"] = <<>>
        BY <1>7 DEF SayReady, StageInv, Waiting
      <4> QED
        BY <1>0, <4>1
    <3>4. ContentTyped'
      BY <1>0, <2>1, <3>2, <3>3, PutTyped DEF Pipe
    <3> QED
      BY <1>7, <3>1, <3>4 DEF SayReady, DataTyped, parent, child
  <2>2. CASE Goto("child", "killed") /\ CloseAll("child") /\ UNCHANGED content
    <3>1. PcTyped'
      BY <2>2, ChildGoes, "killed" \in ChildStages DEF ChildStages
    <3>2. readers' \in [Pipe -> SUBSET Process] /\ writers' \in [Pipe -> SUBSET Process]
      BY <2>2, CloseTyped DEF Process
    <3> QED
      BY <1>7, <2>2, <3>1, <3>2 DEF SayReady, ControlTyped, PcTyped, ContentTyped, DataTyped,
                                     parent, child
  <2> QED
    BY <1>7, <2>1, <2>2 DEF SayReady
<1>8. CASE \E f \in ToSet(Files) : Truncate(f)
  <2>1. PICK f \in ToSet(Files) : Truncate(f)
    BY <1>8
  <2>2. length' \in [Names -> -1..MaxLength]
    <3>1. 0 \in -1..MaxLength
      BY <1>0
    <3> QED
      BY <2>1, <3>1 DEF Truncate, ControlTyped
  <2>3. faults' \in 0..MaxFaults
    BY <2>1, FaultTyped DEF Truncate
  <2> QED
    BY <2>1, <2>2, <2>3 DEF Truncate, ControlTyped, ContentTyped, DataTyped, pipes, parent, child
<1>9. CASE UNCHANGED vars
  BY <1>9 DEF vars, ControlTyped, ContentTyped, DataTyped, pipes, parent, child
<1>10. CASE ReadHeader
  <2>1. ContentTyped' /\ Head(content["data"]) \in Unit
    BY <1>0, <1>10, TakeTyped DEF ReadHeader, Pipe
  <2>2. PICK header \in Unit : header = Head(content["data"])
    BY <2>1
  <2>3. /\ UNCHANGED <<useFifo, name, length, parent, taking, got, copy, faults, result>>
        /\ \/ Goto("child", "ended") /\ CloseAll("child") /\ UNCHANGED rest
           \/ Goto("child", "name") /\ rest' = header.n /\ UNCHANGED <<readers, writers>>
    BY <1>10, <2>2 DEF ReadHeader
  <2>4. PcTyped'
    BY <2>3, ChildGoes, {"ended", "name"} \subseteq ChildStages DEF ChildStages
  <2>5. readers' \in [Pipe -> SUBSET Process] /\ writers' \in [Pipe -> SUBSET Process]
    BY <2>3, CloseTyped DEF Process, ControlTyped
  <2>6. rest' \in 0..MaxLength
    BY <2>3 DEF Unit, DataTyped
  <2> QED
    BY <2>1, <2>3, <2>4, <2>5, <2>6 DEF ControlTyped, PcTyped, DataTyped, parent
<1>11. CASE ReadName
  <2>1. ContentTyped' /\ Head(content["data"]) \in Unit
    BY <1>0, <1>11, TakeTyped DEF ReadName, Pipe
  <2>2. PICK f \in Names : f = Head(content["data"]).file
    BY <2>1 DEF Unit
  <2>3. /\ UNCHANGED <<useFifo, name, length, parent, rest, got>> /\ taking' = f
        /\ \/ /\ Goto("child", "data") /\ copy' = [copy EXCEPT ![f] = [made |-> TRUE, bytes |-> <<>>]]
              /\ UNCHANGED <<result, readers, writers, faults>>
           \/ Fault /\ Goto("child", "ended") /\ Fail("child") /\ CloseAll("child") /\ UNCHANGED copy
    BY <1>11, <2>2 DEF ReadName, ChildFails
  <2>4. PcTyped'
    BY <2>3, ChildGoes, {"ended", "data"} \subseteq ChildStages DEF ChildStages
  <2>5. readers' \in [Pipe -> SUBSET Process] /\ writers' \in [Pipe -> SUBSET Process]
    BY <2>3, CloseTyped DEF Process, ControlTyped
  <2>6. result' \in [Process -> BOOLEAN]
    BY <2>3, Failed DEF Process, ControlTyped
  <2>7. faults' \in 0..MaxFaults
    BY <2>3, FaultTyped
  <2>8. copy' \in [Names -> [made : BOOLEAN, bytes : Seq(Unit)]]
    <3>0. <<>> \in Seq(Unit)
      OBVIOUS
    <3>1. PICK r \in [made : BOOLEAN, bytes : Seq(Unit)] : r = [made |-> TRUE, bytes |-> <<>>]
      BY <3>0
    <3>2. copy' = copy \/ copy' = [copy EXCEPT ![f] = r]
      BY <2>3, <3>1
    <3> QED
      BY <3>2 DEF DataTyped
  <2> QED
    BY <2>1, <2>3, <2>4, <2>5, <2>6, <2>7, <2>8 DEF ControlTyped, PcTyped, DataTyped, parent
<1>12. CASE ReadData
  <2>1. ContentTyped' /\ Head(content["data"]) \in Unit
    BY <1>0, <1>12, TakeTyped DEF ReadData, Pipe
  <2>2. ControlTyped'
    BY <1>12, PlainControl, PlainPc DEF ReadData
  <2>3. got' = Append(got, Head(content["data"])) /\ Len(got) < Chunk
    <3>1. Len(got) < ChunkSize(rest) /\ rest \in 0..MaxLength /\ got \in Seq(Unit)
      BY <1>12 DEF ReadData, DataTyped
    <3> QED
      BY <1>0, <1>12, <3>1 DEF ReadData, ChunkSize
  <2>4. got' \in Seq(Unit) /\ Len(got') <= Chunk
    BY <1>0, <2>1, <2>3 DEF DataTyped
  <2> QED
    BY <1>12, <2>1, <2>2, <2>4 DEF ReadData, DataTyped, parent
<1>13. CASE WriteData
  <2>1. /\ UNCHANGED <<useFifo, name, content, length, parent, taking>>
        /\ Len(got) = ChunkSize(rest) /\ rest > 0
        /\ \/ /\ copy' = [copy EXCEPT ![taking].bytes = @ \o got] /\ got' = <<>>
              /\ rest' = rest - Len(got) /\ UNCHANGED <<pc, result, readers, writers, faults>>
           \/ /\ Fault /\ Goto("child", "ended") /\ Fail("child") /\ CloseAll("child")
              /\ UNCHANGED <<copy, got, rest>>
    BY <1>13 DEF WriteData, ChildFails
  <2>2. PcTyped'
    BY <2>1, ChildGoes, PlainPc, "ended" \in ChildStages DEF ChildStages
  <2>3. readers' \in [Pipe -> SUBSET Process] /\ writers' \in [Pipe -> SUBSET Process]
    BY <2>1, CloseTyped DEF Process, ControlTyped
  <2>4. result' \in [Process -> BOOLEAN]
    BY <2>1, Failed DEF Process, ControlTyped
  <2>5. faults' \in 0..MaxFaults
    BY <2>1, FaultTyped
  <2>6. rest' \in 0..MaxLength /\ got' \in Seq(Unit) /\ Len(got') <= Chunk
    <3>1. rest \in 0..MaxLength /\ got \in Seq(Unit) /\ Len(got) <= Chunk /\ Len(got) \in Nat
      BY DEF DataTyped
    <3>2. Len(got) <= rest
      BY <1>0, <2>1, <3>1 DEF ChunkSize
    <3>3. rest - Len(got) \in 0..MaxLength /\ <<>> \in Seq(Unit) /\ Len(<<>>) <= Chunk
      BY <1>0, <3>1, <3>2
    <3> QED
      BY <2>1, <3>1, <3>3
  <2>7. copy' \in [Names -> [made : BOOLEAN, bytes : Seq(Unit)]]
    <3>1. copy[taking].bytes \in Seq(Unit) /\ got \in Seq(Unit) /\ taking \in Names
      BY DEF DataTyped
    <3>2. PICK b \in Seq(Unit) : b = copy[taking].bytes \o got
      <4>1. \A x, y \in Seq(Unit) : x \o y \in Seq(Unit)
        OBVIOUS
      <4> QED
        BY <3>1, <4>1
    <3>3. copy' = copy \/ copy' = [copy EXCEPT ![taking].bytes = b]
      BY <2>1, <3>2
    <3> QED
      BY <3>1, <3>3 DEF DataTyped
  <2> QED
    BY <2>1, <2>2, <2>3, <2>4, <2>5, <2>6, <2>7 DEF ControlTyped, PcTyped, ContentTyped, DataTyped,
                                                  parent
<1>14. CASE ReadFile
  <2>1. PICK f \in Names : f = Files[index]
    <3>1. pc["parent"] = "send"
      BY <1>14 DEF ReadFile
    <3>2. index \in 1..Len(Files)
      BY <3>1, Constants DEF StageInv, DataTyped
    <3> QED
      BY <3>2, Constants
  <2> DEFINE done == announced[f] - left
             available == length[f] - done
             size == IF available < ChunkSize(left) THEN available ELSE ChunkSize(left)
  <2>2. /\ pc["parent"] = "send" /\ left > 0
        /\ UNCHANGED <<useFifo, name, pipes, length, index, announced, child, faults>>
        /\ \/ /\ size > 0 /\ out' = Bytes(f, done + 1, done + size) /\ left' = left - size
              /\ UNCHANGED <<pc, result>>
           \/ Goto("parent", "close") /\ Fail("parent") /\ UNCHANGED <<out, left>>
    BY <1>14, <2>1 DEF ReadFile
  <2>3. announced[f] \in -1..MaxLength /\ left \in 0..MaxLength /\ length[f] \in -1..MaxLength
    BY DEF DataTyped, ControlTyped
  <2>4. left <= announced[f]
    BY <2>1, <2>2 DEF AnnouncedInv
  <2>5. ChunkSize(left) \in Nat /\ ChunkSize(left) <= left
    BY <1>0, <2>3 DEF ChunkSize
  <2>6. size \in Int /\ size <= left /\ done \in Nat /\ done + left = announced[f]
    BY <1>0, <2>3, <2>4, <2>5
  <2> HIDE DEF size, done
  <2>7. size > 0 => /\ done <= done + size /\ done + size \in Nat /\ done + size <= MaxLength
                    /\ left - size \in 0..MaxLength
    BY <1>0, <2>3, <2>6
  <2>8. out' \in Seq(Unit) /\ left' \in 0..MaxLength
    <3>1. size > 0 => Bytes(f, done + 1, done + size) \in Seq(Unit)
      BY <1>0, <2>6, <2>7, Piece
    <3> QED
      BY <2>2, <2>7, <3>1 DEF DataTyped
  <2>9. PcTyped'
    BY <2>2, ParentGoes, PlainPc, "close" \in ParentStages DEF ParentStages
  <2>10. result' \in [Process -> BOOLEAN]
    BY <2>2, Failed DEF Process, ControlTyped
  <2> QED
    BY <2>2, <2>8, <2>9, <2>10 DEF ControlTyped, PcTyped, ContentTyped, DataTyped, pipes, child
<1> QED
  BY <1>1, <1>2, <1>3, <1>4, <1>5, <1>6, <1>7, <1>8, <1>9, <1>10, <1>11,
     <1>12, <1>13, <1>14 DEF Next, Step, Parent, Child, Idle

-----------------------------------------------------------------------------
(* Stages and names.                                                       *)

\* The child leaves the parent, its result and the names alone ...
LEMMA ChildEffect ==
    ASSUME ControlTyped, Child
    PROVE  /\ pc'["parent"] = pc["parent"] /\ result'["parent"] = result["parent"]
           /\ UNCHANGED <<useFifo, name, length, index, out, left, announced>>
<1>1. UNCHANGED <<useFifo, name, length, parent>>
  BY DEF Child, SayReady, ReadHeader, ReadName, ReadData, WriteData, Received, Incomplete
<1>2. pc'["parent"] = pc["parent"]
  <2>1. \/ pc' = pc
        \/ \E w \in ChildStages : Goto("child", w)
    BY DEF Child, SayReady, ReadHeader, ReadName, ReadData, WriteData, Received, Incomplete,
           ChildFails, ChildStages
  <2> QED
    BY <2>1, ChildGoes
<1>3. result'["parent"] = result["parent"]
  <2>1. result' = result \/ Fail("child")
    BY DEF Child, SayReady, ReadHeader, ReadName, ReadData, WriteData, Received, Incomplete,
           ChildFails
  <2> QED
    BY <2>1, Failed DEF Process
<1> QED
  BY <1>1, <1>2, <1>3 DEF parent

\* ... and the parent the child and its data, after the fork.
LEMMA ParentEffect ==
    ASSUME ControlTyped, Parent
    PROVE  /\ pc'["child"] = pc["child"] \/ Fork
           /\ result'["child"] = result["child"]
           /\ UNCHANGED <<useFifo, length, taking, rest, got, copy>>
<1>1. UNCHANGED <<useFifo, length, child>>
  BY DEF Parent, Create, CreateReady, Fork, AwaitReady, NextFile, Finish, Write, ReadFile, Written,
         Close, WaitChild, RemoveFifo
<1>2. pc'["child"] = pc["child"] \/ Fork
  <2>1. CASE Create \/ CreateReady \/ AwaitReady \/ Finish \/ Close \/ WaitChild \/ RemoveFifo
    <3>1. \E w \in ParentStages : Goto("parent", w)
      BY <2>1 DEF Create, CreateReady, AwaitReady, Finish, Close, WaitChild, RemoveFifo,
                  ParentStages
    <3> QED
      BY <3>1, ParentGoes
  <2>2. CASE NextFile \/ Write \/ ReadFile \/ Written
    <3>1. pc' = pc \/ \E w \in ParentStages : Goto("parent", w)
      BY <2>2 DEF NextFile, Write, ReadFile, Written, ParentStages
    <3> QED
      BY <3>1, ParentGoes
  <2> QED
    BY <2>1, <2>2 DEF Parent
<1>3. result'["child"] = result["child"]
  <2>1. result' = result \/ Fail("parent") \/ \E v : result' = [result EXCEPT !["parent"] = v]
    BY DEF Parent, Create, CreateReady, Fork, AwaitReady, NextFile, Finish, Write, ReadFile,
           Written, Close, WaitChild, RemoveFifo, pipes
  <2> QED
    BY <2>1 DEF Fail, ControlTyped, Process
<1> QED
  BY <1>1, <1>2, <1>3 DEF child

\* The FIFOs that the parent made are removed before it ends.
LEMMA NameStep == ASSUME IInv, [Next]_vars PROVE NameInv'
<1> USE DEF IInv, TypeInv
<1>1. CASE Child
  BY <1>1, ChildEffect DEF NameInv
<1>2. CASE (\E p \in Process : CloseUnused(p) \/ Kill(p)) \/ Meet
  <2>1. UNCHANGED <<useFifo, name>>
    BY <1>2 DEF CloseUnused, Kill, Meet
  <2>2. pc'["parent"] = pc["parent"] \/ pc'["parent"] \in {"handshake", "open ready", "killed"}
    <3>1. Meet => pc'["parent"] \in {"handshake", "open ready"}
      BY DEF Meet, Process
    <3>2. ASSUME NEW p \in Process, CloseUnused(p) \/ Kill(p)
          PROVE  pc'["parent"] = pc["parent"] \/ pc'["parent"] \in {"handshake", "killed"}
      BY <3>2 DEF CloseUnused, Kill, Goto, ControlTyped, Process
    <3> QED
      BY <1>2, <3>1, <3>2
  <2> QED
    BY <2>1, <2>2 DEF NameInv
<1>3. CASE Create
  BY <1>3 DEF Create, Goto, ControlTyped, NameInv, Pipe, Process
<1>4. CASE CreateReady
  <2>1. /\ pc["parent"] = "create ready" /\ useFifo' = useFifo
        /\ \/ pc'["parent"] = "fork" /\ name' = [name EXCEPT !["ready"] = "us"]
           \/ pc'["parent"] = "ended" /\ name' = [name EXCEPT !["data"] = "none"]
    BY <1>4 DEF CreateReady, Goto, Unlinked, ControlTyped, Process
  <2>2. useFifo /\ name["ready"] # "us"
    BY <2>1 DEF NameInv
  <2>3. name["ready"] # "us"
    BY <2>2
  <2>4. CASE pc'["parent"] = "ended" /\ name' = [name EXCEPT !["data"] = "none"]
    <3>1. name'["data"] = "none" /\ name'["ready"] = name["ready"]
      BY <2>4 DEF ControlTyped, Pipe
    <3>2. \A p \in Pipe : name'[p] # "us"
      BY <2>3, <3>1 DEF Pipe
    <3> QED
      BY <2>4, <3>2 DEF NameInv
  <2>5. CASE pc'["parent"] = "fork" /\ name' = [name EXCEPT !["ready"] = "us"]
    BY <2>1, <2>2, <2>5 DEF NameInv
  <2> QED
    BY <2>1, <2>4, <2>5
<1>5. CASE Fork
  <2>1. /\ UNCHANGED <<useFifo, name>>
        /\ pc'["parent"] \in {"open data", "unused"} \/ pc'["parent"] = (IF useFifo THEN "remove" ELSE "ended")
    BY <1>5 DEF Fork, Goto, ControlTyped, Process
  <2> QED
    BY <2>1 DEF NameInv
<1>6. CASE AwaitReady \/ Finish \/ Close \/ NextFile \/ Write \/ ReadFile \/ Written
  <2>1. UNCHANGED <<useFifo, name>>
    BY <1>6 DEF AwaitReady, Finish, Close, NextFile, Write, ReadFile, Written
  <2>2. pc'["parent"] \in {pc["parent"], "next", "close", "finish", "wait", "send", "killed"}
    BY <1>6 DEF AwaitReady, Finish, Close, NextFile, Write, ReadFile, Written, Goto, ControlTyped,
                Process
  <2> QED
    BY <2>1, <2>2 DEF NameInv
<1>7. CASE WaitChild
  <2>1. /\ UNCHANGED <<useFifo, name>> /\ pc'["parent"] = (IF useFifo THEN "remove" ELSE "ended")
    BY <1>7 DEF WaitChild, Goto, ControlTyped, Process
  <2> QED
    BY <2>1 DEF NameInv
<1>8. CASE RemoveFifo
  <2>1. /\ useFifo' = useFifo
        /\ \/ pc'["parent"] = "remove ready" /\ name' = [name EXCEPT !["data"] = "none"]
           \/ /\ pc["parent"] = "remove ready" /\ pc'["parent"] = "ended"
              /\ name' = [name EXCEPT !["ready"] = "none"]
    BY <1>8 DEF RemoveFifo, Goto, Unlinked, ControlTyped, Process
  <2>2. ~useFifo => \A p \in Pipe : name'[p] # "us"
    BY <2>1 DEF NameInv, ControlTyped
  <2>3. pc["parent"] = "remove ready" => name["data"] # "us"
    BY DEF NameInv
  <2> QED
    BY <2>1, <2>2, <2>3 DEF NameInv, ControlTyped, Pipe
<1>9. CASE UNCHANGED vars \/ \E f \in ToSet(Files) : Truncate(f)
  <2>1. UNCHANGED <<useFifo, name, pc>>
    BY <1>9 DEF vars, Truncate
  <2> QED
    BY <2>1 DEF NameInv
<1> QED
  BY <1>1, <1>2, <1>3, <1>4, <1>5, <1>6, <1>7, <1>8, <1>9 DEF Next, Step, Parent

\* What each step of the parent does to its place and to what it has to write.
LEMMA ParentMoves ==
    ASSUME ControlTyped, Parent
    PROVE  \/ /\ pc["parent"] \in {"create", "create ready", "fork"}
              /\ pc'["parent"] \in {"create ready", "fork", "open data", "unused"}
              /\ pc'["parent"] \in {"create ready", "fork"} => pc'["child"] = pc["child"]
              /\ pc'["parent"] \in {"open data", "unused"} => pc'["child"] = pc'["parent"]
              /\ UNCHANGED <<content, out, left, index, announced, result>>
           \/ /\ pc["parent"] \in {"create", "create ready", "fork"}
              /\ pc'["parent"] \in {"ended", "remove"} /\ pc'["child"] = pc["child"]
              /\ ~result'["parent"] /\ UNCHANGED <<content, out, left, index, announced>>
           \/ AwaitReady \/ NextFile \/ Finish \/ Write \/ ReadFile \/ Written
           \/ /\ pc["parent"] = "close" /\ pc'["parent"] = "wait" /\ pc'["child"] = pc["child"]
              /\ UNCHANGED <<content, out, left, index, announced, result>>
           \/ /\ pc["parent"] = "wait" /\ pc'["parent"] \in {"remove", "ended"}
              /\ pc["child"] \in Over /\ pc'["child"] = pc["child"]
              /\ result'["parent"] => result["parent"] /\ result["child"] /\ pc["child"] = "ended"
              /\ UNCHANGED <<content, out, left, index, announced>>
           \/ /\ pc["parent"] \in {"remove", "remove ready"} /\ pc'["child"] = pc["child"]
              /\ pc'["parent"] \in {"remove ready", "ended"}
              /\ UNCHANGED <<content, out, left, index, announced, result>>
<1>1. CASE Create \/ CreateReady \/ Close \/ RemoveFifo
  <2>1. UNCHANGED <<content, out, left, index, announced>>
    BY <1>1 DEF Create, CreateReady, Close, RemoveFifo, pipes, parent
  <2>2. result' = result \/ (Fail("parent") /\ pc'["parent"] = "ended")
    BY <1>1 DEF Create, CreateReady, Close, RemoveFifo, Goto, ControlTyped, Process
  <2>3. result' = result \/ ~result'["parent"]
    BY <2>2, Failed DEF Process
  <2>4. Create => /\ pc["parent"] = "create" /\ pc'["parent"] \in {"fork", "create ready", "ended"}
                  /\ pc'["child"] = pc["child"] /\ (pc'["parent"] = "ended" => Fail("parent"))
    BY DEF Create, Goto, ControlTyped, Process
  <2>5. CreateReady => /\ pc["parent"] = "create ready" /\ pc'["parent"] \in {"fork", "ended"}
                       /\ pc'["child"] = pc["child"] /\ (pc'["parent"] = "ended" => Fail("parent"))
    BY DEF CreateReady, Goto, ControlTyped, Process
  <2>6. Close => pc["parent"] = "close" /\ pc'["parent"] = "wait" /\ pc'["child"] = pc["child"]
    BY DEF Close, Goto, ControlTyped, Process
  <2>7. RemoveFifo => /\ pc["parent"] \in {"remove", "remove ready"} /\ pc'["child"] = pc["child"]
                      /\ pc'["parent"] \in {"remove ready", "ended"} /\ result' = result
    BY DEF RemoveFifo, Goto, ControlTyped, Process
  <2>8. Fail("parent") => ~result'["parent"]
    BY Failed DEF Process
  <2>9. Create \/ CreateReady => result' = result \/ pc'["parent"] = "ended"
    BY <2>2
  <2>10. Close => result' = result
    BY DEF Close
  <2> QED
    BY <1>1, <2>1, <2>4, <2>5, <2>6, <2>7, <2>8, <2>9, <2>10
<1>2. CASE Fork
  <2>1. UNCHANGED <<content, out, left, index, announced>> /\ pc["parent"] = "fork"
    BY <1>2 DEF Fork, parent
  <2>2. \/ /\ pc'["parent"] \in {"open data", "unused"} /\ pc'["child"] = pc'["parent"]
           /\ result' = result
        \/ /\ pc'["parent"] \in {"ended", "remove"} /\ pc'["child"] = pc["child"] /\ Fail("parent")
    BY <1>2 DEF Fork, Goto, ControlTyped, Process
  <2>3. Fail("parent") => ~result'["parent"]
    BY Failed DEF Process
  <2> QED
    BY <2>1, <2>2, <2>3
<1>3. CASE WaitChild
  <2>1. /\ pc["parent"] = "wait" /\ pc["child"] \in Over
        /\ UNCHANGED <<content, out, left, index, announced>>
    BY <1>3 DEF WaitChild, pipes, parent
  <2>2. pc'["parent"] \in {"remove", "ended"} /\ pc'["child"] = pc["child"]
    BY <1>3 DEF WaitChild, Goto, ControlTyped, Process
  <2>3. result'["parent"] = (result["parent"] /\ (result["child"] /\ pc["child"] = "ended"))
    BY <1>3 DEF WaitChild, ExitStatus, ControlTyped, Process
  <2> QED
    BY <2>1, <2>2, <2>3
<1> QED
  BY <1>1, <1>2, <1>3 DEF Parent

LEMMA StageStep == ASSUME PipeCopierAssumption, IInv, [Next]_vars PROVE StageInv'
<1> USE DEF IInv, TypeInv
<1>1. CASE Child
  <2>1. /\ pc'["parent"] = pc["parent"] /\ result'["parent"] = result["parent"]
        /\ UNCHANGED <<index, out, left>>
    BY <1>1, ChildEffect
  <2>2. /\ pc["child"] \notin {"none", "ended", "killed"} /\ pc'["child"] # "none"
        /\ pc'["child"] \in {"ended", "killed", "header", "name", "data"}
    BY <1>1 DEF Child, SayReady, ReadHeader, ReadName, ReadData, WriteData, Received, Incomplete,
                ChildFails, Goto, ControlTyped, Process
  <2>3. pc'["child"] \in Waiting \union {"name"} => got' = <<>>
    <3>1. CASE SayReady \/ ReadHeader \/ Incomplete
      <4>1. got' = got
        BY <3>1 DEF SayReady, ReadHeader, Incomplete, child
      <4>2. pc'["child"] \in Waiting \union {"name"} => pc["child"] \in Waiting
        BY <3>1, <2>2 DEF SayReady, ReadHeader, Incomplete, ChildFails, Goto, ControlTyped,
                          Process, Waiting
      <4> QED
        BY <4>1, <4>2 DEF StageInv
    <3>2. CASE ReadName \/ ReadData \/ WriteData
      <4>1. pc'["child"] \in {"data", "ended"}
        BY <3>2 DEF ReadName, ReadData, WriteData, ChildFails, Goto, ControlTyped, Process
      <4> QED
        BY <4>1 DEF Waiting
    <3>3. CASE Received
      <4>1. pc["child"] = "data" /\ rest <= 0 /\ got' = got
        BY <3>3 DEF Received, child
      <4>2. Len(got) <= rest /\ got \in Seq(Unit)
        BY <4>1 DEF CopyInv, DataTyped
      <4>3. rest \in Nat
        BY Constants DEF DataTyped
      <4>4. Len(got) = 0
        BY <4>1, <4>2, <4>3
      <4> QED
        BY <4>1, <4>2, <4>4
    <3> QED
      BY <1>1, <3>1, <3>2, <3>3 DEF Child
  <2> QED
    BY <2>1, <2>2, <2>3 DEF StageInv, Waiting
<1>2. CASE \E p \in Process : CloseUnused(p)
  <2>1. PICK p \in Process : CloseUnused(p)
    BY <1>2
  <2>2. /\ UNCHANGED <<result, content, index, out, left, got>> /\ pc[p] = "unused"
        /\ pc' = [pc EXCEPT ![p] = "handshake"]
    BY <2>1 DEF CloseUnused, Goto, parent, child
  <2>3. CASE p = "parent"
    <3>1. /\ pc["parent"] = "unused" /\ pc'["parent"] = "handshake"
          /\ pc'["child"] = pc["child"]
      BY <2>2, <2>3 DEF ControlTyped, Process
    <3>2. pc["child"] # "none" /\ out = <<>> /\ left = 0
      BY <3>1 DEF StageInv, Before
    <3> QED
      BY <2>2, <3>1, <3>2 DEF StageInv
  <2>4. CASE p = "child"
    <3>1. /\ pc["child"] = "unused" /\ pc'["child"] = "handshake"
          /\ pc'["parent"] = pc["parent"]
      BY <2>2, <2>4 DEF ControlTyped, Process
    <3>2. got = <<>> /\ content["ready"] = <<>>
      BY <3>1 DEF StageInv, Waiting
    <3> QED
      BY <2>2, <3>1, <3>2 DEF StageInv
  <2> QED
    BY <2>3, <2>4 DEF Process
<1>3. CASE \E p \in Process : Kill(p)
  <2>1. PICK p \in Process : Kill(p)
    BY <1>3
  <2>2. /\ UNCHANGED <<result, content, index, out, left, got>> /\ pc[p] \notin Over
        /\ pc["child"] # "none" /\ pc' = [pc EXCEPT ![p] = "killed"]
    BY <2>1 DEF Kill, Goto, parent, child
  <2> QED
    BY <2>2 DEF StageInv, ControlTyped, Waiting, Before, Over, Process
<1>4. CASE Meet
  <2>1. /\ UNCHANGED <<result, content, index, out, left, got>>
        /\ pc["parent"] \in {"open data", "open ready"} /\ pc["child"] = pc["parent"]
        /\ pc'["parent"] \in {"open ready", "handshake"} /\ pc'["child"] = pc'["parent"]
    BY <1>4 DEF Meet, parent, child, Process
  <2> QED
    BY <2>1 DEF StageInv, Waiting, Before
<1>5. CASE Parent
  <2>1. result'["child"] = result["child"] /\ got' = got
    BY <1>5, ParentEffect
  <2>2. CASE AwaitReady
    <3>1. /\ UNCHANGED <<index, out, left>> /\ pc["parent"] = "handshake"
          /\ pc'["parent"] \in {"next", "close"} /\ pc'["child"] = pc["child"]
      BY <2>2 DEF AwaitReady, Goto, parent, ControlTyped, Process
    <3>2. content' = content \/ HasNext("ready")
      BY <2>2 DEF AwaitReady
    <3>3. pc["child"] \in Waiting \ {"header"} => content'["ready"] = <<>>
      BY <3>2 DEF StageInv, HasNext
    <3> QED
      BY <2>1, <3>1, <3>3 DEF StageInv, Before
  <2>3. CASE NextFile
    <3>1. /\ pc["parent"] = "next" /\ pc'["child"] = pc["child"] /\ content' = content
          /\ \/ pc'["parent"] = "next" /\ UNCHANGED <<out, left>>
             \/ pc'["parent"] = "send" /\ index' = index
          /\ index <= Len(Files)
      BY <2>3 DEF NextFile, Goto, pipes, ControlTyped, Process
    <3> QED
      BY <2>1, <3>1 DEF StageInv, Before
  <2>4. CASE Finish
    <3>1. /\ pc["parent"] = "next" /\ pc'["child"] = pc["child"] /\ content' = content
          /\ pc'["parent"] = "finish"
      BY <2>4 DEF Finish, Goto, pipes, ControlTyped, Process
    <3> QED
      BY <2>1, <3>1 DEF StageInv, Before
  <2>5. CASE Write
    <3>1. /\ pc["parent"] \in {"send", "finish"} /\ pc'["child"] = pc["child"] /\ index' = index
          /\ pc'["parent"] \in {pc["parent"], "killed"} /\ content'["ready"] = content["ready"]
      BY <2>5 DEF Write, Put, Goto, ControlTyped, ContentTyped, Process, Pipe
    <3> QED
      BY <2>1, <3>1 DEF StageInv, Before
  <2>6. CASE ReadFile
    <3>1. /\ pc["parent"] = "send" /\ pc'["child"] = pc["child"] /\ content' = content
          /\ pc'["parent"] \in {"send", "close"} /\ index' = index
      BY <2>6 DEF ReadFile, Goto, pipes, ControlTyped, Process
    <3> QED
      BY <2>1, <3>1 DEF StageInv, Before
  <2>7. CASE Written
    <3>1. /\ pc["parent"] \in {"send", "finish"} /\ pc'["child"] = pc["child"] /\ content' = content
          /\ pc'["parent"] \in {"next", "close"} /\ out' = out /\ left' = left
          /\ out = <<>> /\ left = 0
      BY <2>7 DEF Written, Goto, pipes, ControlTyped, Process
    <3> QED
      BY <2>1, <3>1 DEF StageInv, Before
  <2>8. CASE /\ pc["parent"] \in {"create", "create ready", "fork"}
             /\ pc'["parent"] \in {"create ready", "fork", "open data", "unused"}
             /\ pc'["parent"] \in {"create ready", "fork"} => pc'["child"] = pc["child"]
             /\ pc'["parent"] \in {"open data", "unused"} => pc'["child"] = pc'["parent"]
             /\ UNCHANGED <<content, out, left, index, announced, result>>
    <3>1. pc["child"] = "none" /\ out = <<>> /\ left = 0
      BY <2>8 DEF StageInv, Before
    <3>2. got = <<>> /\ content["ready"] = <<>>
      BY <3>1 DEF StageInv, Waiting
    <3> QED
      BY <2>1, <2>8, <3>1, <3>2 DEF StageInv, Before
  <2>9. CASE /\ pc["parent"] \in {"create", "create ready", "fork", "close", "wait", "remove",
                                  "remove ready"}
             /\ pc'["parent"] \in {"ended", "remove", "remove ready", "wait"}
             /\ pc'["child"] = pc["child"] /\ content' = content
             /\ pc["parent"] \in {"create", "create ready", "fork"} =>
                    pc'["parent"] # "wait" /\ ~result'["parent"]
             /\ pc["parent"] = "close" => pc'["parent"] = "wait"
             /\ pc["parent"] = "wait" /\ result'["parent"] =>
                    result["child"] /\ pc["child"] = "ended"
             /\ pc["parent"] \in {"remove", "remove ready"} =>
                    pc'["parent"] # "wait" /\ result' = result
    BY <2>1, <2>9 DEF StageInv, Before
  <2>10. ControlTyped
    OBVIOUS
  <2> QED
    BY <1>5, <2>2, <2>3, <2>4, <2>5, <2>6, <2>7, <2>8, <2>9, <2>10, ParentMoves
<1>6. CASE UNCHANGED vars \/ \E f \in ToSet(Files) : Truncate(f)
  <2>1. UNCHANGED <<result, content, index, out, left, got, pc>>
    BY <1>6 DEF vars, Truncate, pipes, parent, child
  <2> QED
    BY <2>1 DEF StageInv
<1> QED
  BY <1>1, <1>2, <1>3, <1>4, <1>5, <1>6 DEF Next, Step

\* A file is announced when its turn comes, and its bytes are counted down.
LEMMA AnnouncedStep == ASSUME PipeCopierAssumption, IInv, [Next]_vars PROVE AnnouncedInv'
<1> USE DEF IInv, TypeInv
<1>0. /\ Len(Files) \in Nat /\ index \in 1..(Len(Files) + 1) /\ MaxLength \in Nat
      /\ \A i \in 1..Len(Files) : Files[i] \in Names
      /\ \A i, j \in 1..Len(Files) : Files[i] = Files[j] => i = j
  BY Constants DEF DataTyped
<1>1. CASE Child
  <2>1. /\ pc'["parent"] = pc["parent"] /\ result'["parent"] = result["parent"]
        /\ UNCHANGED <<index, left, announced>>
    BY <1>1, ChildEffect
  <2> QED
    BY <2>1 DEF AnnouncedInv
<1>2. CASE (\E p \in Process : CloseUnused(p) \/ Kill(p)) \/ Meet \/ UNCHANGED vars
           \/ \E f \in ToSet(Files) : Truncate(f)
  <2>1. UNCHANGED <<result, index, left, announced>>
    BY <1>2 DEF CloseUnused, Kill, Meet, vars, Truncate, parent
  <2>2. \/ pc'["parent"] = pc["parent"] \/ pc'["parent"] = "killed"
        \/ pc["parent"] \in Before /\ pc'["parent"] \in Before
    <3>1. ASSUME NEW p \in Process, CloseUnused(p)
          PROVE  pc'["parent"] = pc["parent"] \/ (pc["parent"] \in Before /\ pc'["parent"] \in Before)
      BY <3>1 DEF CloseUnused, Goto, ControlTyped, Before, Process
    <3>2. ASSUME NEW p \in Process, Kill(p)
          PROVE  pc'["parent"] = pc["parent"] \/ pc'["parent"] = "killed"
      BY <3>2 DEF Kill, Goto, ControlTyped, Process
    <3>3. Meet => pc["parent"] \in Before /\ pc'["parent"] \in Before
      BY DEF Meet, Before, Process
    <3>4. UNCHANGED vars \/ (\E f \in ToSet(Files) : Truncate(f)) => pc' = pc
      BY DEF vars, Truncate
    <3> QED
      BY <1>2, <3>1, <3>2, <3>3, <3>4
  <2> QED
    BY <2>1, <2>2 DEF AnnouncedInv, Before, Late
<1>3. CASE Parent
  <2>1. CASE AwaitReady
    <3>1. /\ UNCHANGED <<index, left, announced>> /\ pc["parent"] = "handshake"
          /\ pc'["parent"] \in {"next", "close"}
      BY <2>1 DEF AwaitReady, Goto, parent, ControlTyped, Process
    <3>2. result' = result \/ Fail("parent")
      BY <2>1 DEF AwaitReady
    <3>3. Fail("parent") => ~result'["parent"]
      BY Failed DEF Process
    <3>4. pc'["parent"] = "close" => Fail("parent")
      BY <2>1 DEF AwaitReady, Goto, ControlTyped, Process
    <3> QED
      BY <3>1, <3>2, <3>3, <3>4 DEF AnnouncedInv, Before, Late
  <2>2. CASE NextFile
    <3>1. PICK f \in Names : f = Files[index] /\ index \in 1..Len(Files)
      BY <1>0, <2>2 DEF NextFile
    <3>2. pc["parent"] = "next" /\ UNCHANGED length
      BY <2>2 DEF NextFile
    <3>3. CASE length[f] = -1
      <4>1. /\ pc' = pc /\ announced' = announced /\ index' = index + 1 /\ Fail("parent")
        BY <2>2, <3>1, <3>3 DEF NextFile
      <4>2. ~result'["parent"]
        BY <4>1, Failed DEF Process
      <4>3. \A i \in 1..Len(Files) : (i > index' \/ i = index') => i > index
        BY <1>0, <4>1
      <4> QED
        BY <3>2, <4>1, <4>2, <4>3 DEF AnnouncedInv, Late
    <3>4. CASE length[f] # -1
      <4>1. /\ pc'["parent"] = "send" /\ result' = result /\ index' = index
            /\ left' = length[f] /\ announced' = [announced EXCEPT ![f] = length[f]]
        BY <2>2, <3>1, <3>4 DEF NextFile, Goto, ControlTyped, Process
      <4>2. length[f] \in 0..MaxLength
        <5>1. length[f] \in -1..MaxLength
          BY <3>1 DEF ControlTyped
        <5> QED
          BY <1>0, <3>4, <5>1
      <4>3. announced'[f] = length[f] /\ \A g \in Names \ {f} : announced'[g] = announced[g]
        BY <4>1, <3>1 DEF DataTyped
      <4>4. \A i \in 1..Len(Files) : i # index => Files[i] \in Names \ {f}
        BY <1>0, <3>1
      <4>5. \A i \in 1..Len(Files) : i > index \/ i < index => i # index
        BY <1>0
      <4>6. \A i \in 1..Len(Files) : i > index \/ i < index => announced'[Files[i]] = announced[Files[i]]
        BY <4>3, <4>4, <4>5, Zenon
      <4>7. announced'[Files[index]] >= 0 /\ left' <= announced'[Files[index]]
        BY <3>1, <4>1, <4>2, <4>3
      <4>8. ASSUME NEW i \in 1..Len(Files)
            PROVE  /\ i > index => announced'[Files[i]] = -1
                   /\ i < index /\ result["parent"] => announced'[Files[i]] >= 0
        BY <4>6 DEF AnnouncedInv
      <4> QED
        BY <4>1, <4>7, <4>8 DEF AnnouncedInv, Before, Late
    <3> QED
      BY <3>3, <3>4
  <2>3. CASE Finish
    <3>1. /\ UNCHANGED <<result, index, announced>> /\ pc["parent"] = "next"
          /\ pc'["parent"] = "finish" /\ index > Len(Files)
      BY <2>3 DEF Finish, Goto, ControlTyped, Process
    <3> QED
      BY <3>1 DEF AnnouncedInv, Before
  <2>4. CASE Write
    <3>1. /\ UNCHANGED <<result, index, left, announced>> /\ pc'["parent"] \in {pc["parent"], "killed"}
      BY <2>4 DEF Write, Goto, ControlTyped, Process
    <3> QED
      BY <3>1 DEF AnnouncedInv, Before, Late
  <2>5. CASE ReadFile
    <3>1. PICK f \in Names : f = Files[index]
      <4>1. pc["parent"] = "send"
        BY <2>5 DEF ReadFile
      <4>2. index \in 1..Len(Files)
        BY <1>0, <4>1 DEF StageInv
      <4> QED
        BY <1>0, <4>2
    <3> DEFINE available == length[f] - (announced[f] - left)
               size == IF available < ChunkSize(left) THEN available ELSE ChunkSize(left)
    <3>2. /\ pc["parent"] = "send" /\ UNCHANGED <<index, announced>>
          /\ \/ size > 0 /\ left' = left - size /\ UNCHANGED <<pc, result>>
             \/ Goto("parent", "close") /\ Fail("parent")
      BY <2>5, <3>1 DEF ReadFile
    <3>3. size \in Int
      <4>1. announced[f] \in Int /\ left \in Int /\ length[f] \in Int
        BY <1>0 DEF DataTyped, ControlTyped
      <4>2. ChunkSize(left) \in Int
        BY <4>1, Constants DEF ChunkSize
      <4> QED
        BY <4>1, <4>2
    <3> HIDE DEF size
    <3>4. CASE size > 0 /\ left' = left - size /\ UNCHANGED <<pc, result>>
      <4>1. left' <= left
        BY <1>0, <3>3, <3>4 DEF DataTyped
      <4>2. left' <= announced[f]
        <5>1. left <= announced[f]
          BY <3>1, <3>2 DEF AnnouncedInv
        <5>2. left \in Int /\ announced[f] \in Int
          BY <1>0 DEF DataTyped
        <5> QED
          BY <3>3, <3>4, <5>1, <5>2
      <4> QED
        BY <3>1, <3>2, <3>4, <4>2 DEF AnnouncedInv
    <3>5. CASE Goto("parent", "close") /\ Fail("parent")
      <4>1. pc'["parent"] = "close" /\ ~result'["parent"]
        BY <3>5, Failed DEF Goto, ControlTyped, Process
      <4> QED
        BY <3>2, <4>1 DEF AnnouncedInv, Before
    <3> QED
      BY <3>2, <3>4, <3>5
  <2>6. CASE Written
    <3>1. CASE pc["parent"] = "send"
      <4>1. /\ UNCHANGED <<result, announced>> /\ pc'["parent"] = "next" /\ index' = index + 1
        BY <2>6, <3>1 DEF Written, Goto, ControlTyped, Process
      <4>2. \A i \in 1..Len(Files) : i > index' \/ i = index' => i > index
        BY <1>0, <4>1
      <4>3. \A i \in 1..Len(Files) : i < index' => i < index \/ i = index
        BY <1>0, <4>1
      <4> QED
        BY <3>1, <4>1, <4>2, <4>3 DEF AnnouncedInv, Late
    <3>2. CASE pc["parent"] # "send"
      <4>1. /\ UNCHANGED <<result, announced, index>> /\ pc["parent"] = "finish"
            /\ pc'["parent"] = "close"
        BY <2>6, <3>2 DEF Written, Goto, ControlTyped, Process
      <4> QED
        BY <4>1 DEF AnnouncedInv, Before, Late
    <3> QED
      BY <3>1, <3>2
  <2>7. CASE /\ pc["parent"] \in {"create", "create ready", "fork"}
             /\ pc'["parent"] \in {"create ready", "fork", "open data", "unused"}
             /\ UNCHANGED <<index, announced, result>>
    BY <2>7 DEF AnnouncedInv, Before, Late
  <2>8. CASE /\ pc["parent"] \in {"create", "create ready", "fork", "close", "wait", "remove",
                                  "remove ready"}
             /\ pc'["parent"] \in {"ended", "remove", "remove ready", "wait"}
             /\ UNCHANGED <<index, announced>>
             /\ result'["parent"] =>
                    result["parent"] /\ pc["parent"] \notin {"create", "create ready", "fork"}
    BY <2>8 DEF AnnouncedInv, Before, Late
  <2>9. ControlTyped
    OBVIOUS
  <2> QED
    BY <1>3, <2>1, <2>2, <2>3, <2>4, <2>5, <2>6, <2>7, <2>8, <2>9, ParentMoves
<1> QED
  BY <1>1, <1>2, <1>3 DEF Next, Step

-----------------------------------------------------------------------------
(* The stream.                                                             *)

LEMMA StreamTyped ==
    ASSUME TypeInv
    PROVE  /\ Stream \in Seq(Unit) /\ Len(Stream) \in Nat
           /\ \A i \in 1..Len(Stream) : Stream[i] \in Unit
           /\ Stream # <<>> => 1 \in 1..Len(Stream) /\ Len(Stream) \in 1..Len(Stream)
<1>1. content["data"] \in Seq(Unit) /\ out \in Seq(Unit)
  BY DEF TypeInv, ContentTyped, DataTyped, Pipe
<1>2. Stream \in Seq(Unit)
  BY <1>1 DEF Stream
<1>3. PICK s : s = Stream /\ s \in Seq(Unit)
  BY <1>2
<1>4. Len(s) \in Nat /\ (\A i \in 1..Len(s) : s[i] \in Unit) /\ (s # <<>> => Len(s) >= 1)
  BY <1>3
<1> QED
  BY <1>3, <1>4

\* The child takes the first unit of the stream.
LEMMA TakeStream ==
    ASSUME TypeInv, HasNext("data"), Take("data"), out' = out
    PROVE  /\ Stream # <<>> /\ Head(content["data"]) = Stream[1]
           /\ Len(Stream') = Len(Stream) - 1
           /\ \A i \in 1..(Len(Stream) - 1) : Stream'[i] = Stream[i + 1]
<1>1. PICK c, o : c = content["data"] /\ o = out
  OBVIOUS
<1>2. c \in Seq(Unit) /\ o \in Seq(Unit) /\ c # <<>>
  BY <1>1 DEF TypeInv, ContentTyped, DataTyped, HasNext, Pipe
<1>3. content' = [content EXCEPT !["data"] = Tail(c)]
  BY <1>1 DEF Take
<1>4. content'["data"] = Tail(c)
  BY <1>3 DEF TypeInv, ContentTyped, Pipe
<1>5. Stream = c \o o /\ Stream' = Tail(c) \o o
  BY <1>1, <1>4 DEF Stream
<1>6. Tail(c) \in Seq(Unit) /\ Len(Tail(c)) = Len(c) - 1 /\ Len(c) \in Nat /\ Len(c) >= 1 /\ Len(o) \in Nat
  BY <1>2
<1>7. Len(c \o o) = Len(c) + Len(o) /\ Len(Tail(c) \o o) = Len(c) - 1 + Len(o)
  BY <1>2, <1>6
<1>8. (c \o o)[1] = c[1] /\ Head(c) = c[1]
  BY <1>2, <1>6
<1>9. \A i \in 1..(Len(c) + Len(o) - 1) : (Tail(c) \o o)[i] = (c \o o)[i + 1]
  <2> SUFFICES ASSUME NEW i \in 1..(Len(c) + Len(o) - 1)
               PROVE  (Tail(c) \o o)[i] = (c \o o)[i + 1]
    OBVIOUS
  <2>1. CASE i <= Len(c) - 1
    <3>1. (Tail(c) \o o)[i] = Tail(c)[i] /\ Tail(c)[i] = c[i + 1]
      BY <1>2, <1>6, <2>1
    <3>2. (c \o o)[i + 1] = c[i + 1]
      BY <1>2, <1>6, <2>1
    <3> QED
      BY <3>1, <3>2
  <2>2. CASE i > Len(c) - 1
    <3>1. (Tail(c) \o o)[i] = o[i - (Len(c) - 1)]
      BY <1>2, <1>6, <2>2
    <3>2. (c \o o)[i + 1] = o[(i + 1) - Len(c)]
      BY <1>2, <1>6, <2>2
    <3>3. i - (Len(c) - 1) = (i + 1) - Len(c)
      BY <1>6
    <3> QED
      BY <3>1, <3>2, <3>3
  <2>3. i <= Len(c) - 1 \/ i > Len(c) - 1
    BY <1>6
  <2> QED
    BY <2>1, <2>2, <2>3
<1>10. c \o o # <<>>
  <2>1. Len(<<>>) = 0 /\ Len(c) + Len(o) # 0
    BY <1>6
  <2> QED
    BY <1>7, <2>1
<1>11. Stream # <<>> /\ Head(content["data"]) = Stream[1]
  BY <1>1, <1>5, <1>8, <1>10, Zenon
<1>12. Len(Stream) = Len(c) + Len(o) /\ Len(Stream') = Len(c) - 1 + Len(o)
  BY <1>5, <1>7, Zenon
<1>13. \A i \in 1..(Len(c) + Len(o) - 1) : Stream'[i] = Stream[i + 1]
  BY <1>5, <1>9, Zenon
<1>14. Len(c) - 1 + Len(o) = Len(c) + Len(o) - 1
  BY <1>6
<1>15. PICK m, n : m = Len(Stream) /\ n = Len(Stream')
  OBVIOUS
<1>16. n = m - 1 /\ m \in Nat /\ Len(c) + Len(o) - 1 = m - 1
  BY <1>6, <1>12, <1>15
<1>17. \A i \in 1..(m - 1) : Stream'[i] = Stream[i + 1]
  BY <1>13, <1>16, Zenon
<1> QED
  BY <1>11, <1>15, <1>16, <1>17, Zenon

\* The parent moves a unit from its buffer to the pipe.
LEMMA MoveStream ==
    ASSUME TypeInv, out # <<>>, Put("data", Head(out)), out' = Tail(out)
    PROVE  Stream' = Stream
<1>1. PICK c, o : c = content["data"] /\ o = out
  OBVIOUS
<1>2. c \in Seq(Unit) /\ o \in Seq(Unit) /\ o # <<>>
  BY <1>1 DEF TypeInv, ContentTyped, DataTyped, Pipe
<1>3. content' = [content EXCEPT !["data"] = Append(c, Head(o))]
  BY <1>1 DEF Put
<1>4. content'["data"] = Append(c, Head(o))
  BY <1>3 DEF TypeInv, ContentTyped, Pipe
<1>5. Append(c, Head(o)) \o Tail(o) = c \o o
  <2>1. Head(o) \in Unit /\ Tail(o) \in Seq(Unit) /\ Len(Tail(o)) = Len(o) - 1 /\ Len(o) \in Nat
        /\ Head(o) = o[1] /\ Len(o) >= 1 /\ Len(c) \in Nat
    BY <1>2
  <2>2. Append(c, Head(o)) \in Seq(Unit) /\ Len(Append(c, Head(o))) = Len(c) + 1
    BY <1>2, <2>1
  <2>3. PICK d, t : d = Append(c, Head(o)) /\ t = Tail(o)
    OBVIOUS
  <2>4. /\ d \in Seq(Unit) /\ t \in Seq(Unit) /\ Len(d) = Len(c) + 1 /\ Len(t) = Len(o) - 1
        /\ \A i \in 1..Len(c) : d[i] = c[i]
        /\ d[Len(c) + 1] = o[1] /\ \A i \in 1..(Len(o) - 1) : t[i] = o[i + 1]
    BY <1>2, <2>1, <2>2, <2>3
  <2>5. d \o t \in Seq(Unit) /\ c \o o \in Seq(Unit)
    BY <1>2, <2>4
  <2>6. Len(d \o t) = Len(c) + 1 + (Len(o) - 1) /\ Len(c \o o) = Len(c) + Len(o)
    <3>1. \A x, y \in Seq(Unit) : Len(x \o y) = Len(x) + Len(y)
      OBVIOUS
    <3> QED
      BY <1>2, <2>4, <3>1, Zenon
  <2>7. \A i \in 1..(Len(c) + Len(o)) : (d \o t)[i] = (c \o o)[i]
    <3> SUFFICES ASSUME NEW i \in 1..(Len(c) + Len(o)) PROVE (d \o t)[i] = (c \o o)[i]
      OBVIOUS
    <3>1. CASE i <= Len(c)
      <4>1. (c \o o)[i] = c[i] /\ (d \o t)[i] = d[i]
        BY <1>2, <2>1, <2>4, <3>1
      <4> QED
        BY <2>4, <3>1, <4>1
    <3>2. CASE i = Len(c) + 1
      <4>1. (c \o o)[i] = o[1] /\ (d \o t)[i] = d[i]
        BY <1>2, <2>1, <2>4, <3>2
      <4> QED
        BY <2>4, <3>2, <4>1
    <3>3. CASE i > Len(c) + 1
      <4>1. (c \o o)[i] = o[i - Len(c)]
        BY <1>2, <2>1, <3>3
      <4>2. (d \o t)[i] = t[i - (Len(c) + 1)] /\ i - (Len(c) + 1) \in 1..(Len(o) - 1)
        BY <2>1, <2>4, <3>3
      <4>3. PICK j : j = i - (Len(c) + 1)
        OBVIOUS
      <4>4. j \in 1..(Len(o) - 1) /\ j + 1 = i - Len(c)
        BY <2>1, <4>2, <4>3
      <4>5. t[j] = o[j + 1]
        BY <2>4, <4>4, Zenon
      <4> QED
        BY <4>1, <4>2, <4>3, <4>4, <4>5, Zenon
    <3>4. i <= Len(c) \/ i = Len(c) + 1 \/ i > Len(c) + 1
      BY <2>1
    <3> QED
      BY <3>1, <3>2, <3>3, <3>4
  <2>8. Len(d \o t) = Len(c \o o) /\ Len(d \o t) = Len(c) + Len(o)
    BY <2>1, <2>6
  <2> QED
    BY <2>3, <2>5, <2>7, <2>8, SeqEqual
<1> QED
  BY <1>1, <1>4, <1>5 DEF Stream

\* The parent puts new units into its empty buffer.
LEMMA FillStream ==
    ASSUME TypeInv, out = <<>>, content' = content, NEW t \in Seq(Unit), out' = t
    PROVE  /\ Len(Stream') = Len(Stream) + Len(t)
           /\ \A i \in 1..Len(Stream) : Stream'[i] = Stream[i]
           /\ \A i \in 1..Len(t) : Stream'[Len(Stream) + i] = t[i]
<1>1. PICK c : c = content["data"] /\ c \in Seq(Unit)
  BY DEF TypeInv, ContentTyped, Pipe
<1>2. Stream = c /\ Stream' = c \o t
  BY <1>1 DEF Stream
<1>3. Len(c \o t) = Len(c) + Len(t) /\ Len(c) \in Nat /\ Len(t) \in Nat
  BY <1>1
<1>4. \A i \in 1..Len(c) : (c \o t)[i] = c[i]
  BY <1>1, <1>3
<1>5. \A i \in 1..Len(t) : (c \o t)[Len(c) + i] = t[i]
  <2> SUFFICES ASSUME NEW i \in 1..Len(t) PROVE (c \o t)[Len(c) + i] = t[i]
    OBVIOUS
  <2>1. PICK j \in Nat : j = Len(c) + i /\ j > Len(c) /\ j <= Len(c) + Len(t) /\ j - Len(c) = i
    BY <1>3
  <2>2. (c \o t)[j] = t[j - Len(c)]
    BY <1>1, <1>3, <2>1
  <2> QED
    BY <2>1, <2>2
<1> QED
  BY <1>2, <1>3, <1>4, <1>5

\* Steps that leave the stream and what is announced alone.
LEMMA ChainSame ==
    ASSUME UNCHANGED announced, Stream' = Stream, Chain(Stream)
    PROVE  Chain(Stream)'
<1>1. PICK s : s = Stream
  OBVIOUS
<1>2. Stream' = s /\ announced' = announced
  BY <1>1
<1>3. \A i \in 1..Len(s) : s[i].kind # "finish" => announced[s[i].file] >= 0
  BY <1>1 DEF Chain
<1>4. \A i \in 1..(Len(s) - 1) : Follows(s[i], s[i + 1])
  BY <1>1 DEF Chain
<1>5. s # <<>> => s[Len(s)].kind # "file"
  BY <1>1 DEF Chain
<1>6. \A u, v : Follows(u, v) = (Follows(u, v))'
  BY <1>2 DEF Follows, IsDue, Starts
<1>7. \A i \in 1..(Len(s) - 1) : Follows(s[i], s[i + 1])'
  BY <1>4, <1>6
<1> QED
  BY <1>2, <1>3, <1>5, <1>7 DEF Chain

LEMMA HeadSame ==
    ASSUME UNCHANGED announced, Stream' = Stream, HeadInv,
           \/ pc'["child"] = pc["child"] /\ UNCHANGED <<taking, rest, got>>
           \/ pc["child"] \in Waiting /\ pc'["child"] \in Waiting
    PROVE  HeadInv'
<1>1. PICK s : s = Stream
  OBVIOUS
<1>2. Stream' = s /\ announced' = announced
  BY <1>1
<1>3. \A u : Starts(u) = (Starts(u))'
  BY <1>2 DEF Starts
<1>4. \A f, k, u : IsDue(f, k, u) = (IsDue(f, k, u))'
  BY <1>2 DEF IsDue, Starts
<1>5. CASE pc'["child"] = pc["child"] /\ UNCHANGED <<taking, rest, got>>
  <2>1. Position' = Position
    BY <1>2, <1>5 DEF Position
  <2> QED
    BY <1>1, <1>2, <1>3, <1>4, <1>5, <2>1 DEF HeadInv, Awaited
<1>6. CASE pc["child"] \in Waiting /\ pc'["child"] \in Waiting
  BY <1>1, <1>2, <1>3, <1>6 DEF HeadInv, Awaited, Waiting
<1> QED
  BY <1>5, <1>6

LEMMA TailSame ==
    ASSUME UNCHANGED announced, Stream' = Stream, TailInv,
           \/ pc'["child"] = pc["child"] /\ UNCHANGED <<taking, rest, got>>
           \/ pc["child"] \in Waiting /\ pc'["child"] \in Waiting,
           \/ pc'["parent"] = pc["parent"] /\ UNCHANGED <<index, left>>
           \/ pc'["parent"] \in Late
           \/ pc["parent"] \in Before /\ pc'["parent"] \in Before /\ pc'["child"] \in Waiting
           \/ /\ pc'["parent"] = "next"
              /\ \/ pc["parent"] \in {"handshake", "next"}
                 \/ pc["parent"] = "send" /\ left = 0
    PROVE  TailInv'
<1>1. PICK s : s = Stream
  OBVIOUS
<1>2. Stream' = s /\ announced' = announced
  BY <1>1
<1>3. AtStart(s) => (AtStart(s))'
  <2>1. Position' = Position \/ pc["child"] \in Waiting
    BY <1>2 DEF Position
  <2> QED
    BY <1>2, <2>1 DEF AtStart, Waiting
<1>4. ASSUME NEW f, NEW k, AtByte(s, f, k) PROVE (AtByte(s, f, k))'
  <2>1. Position' = Position \/ pc["child"] \in Waiting
    BY <1>2 DEF Position
  <2> QED
    BY <1>2, <1>4, <2>1 DEF AtByte, Waiting
<1>5. CASE pc'["parent"] = pc["parent"] /\ UNCHANGED <<index, left>>
  BY <1>1, <1>2, <1>3, <1>4, <1>5 DEF TailInv
<1>6. CASE pc'["parent"] \in Late
  BY <1>6 DEF TailInv, Late, Before
<1>7. CASE pc["parent"] \in Before /\ pc'["parent"] \in Before /\ pc'["child"] \in Waiting
  BY <1>1, <1>2, <1>7 DEF TailInv, Late, Before
<1>8. CASE /\ pc'["parent"] = "next"
           /\ \/ pc["parent"] \in {"handshake", "next"}
              \/ pc["parent"] = "send" /\ left = 0
  <2>1. AtStart(s)
    BY <1>1, <1>8 DEF TailInv, AtStart, Before
  <2>2. ~ \E i \in 1..Len(s) : s[i].kind = "finish"
    BY <1>1, <1>8 DEF TailInv, Late
  <2> QED
    BY <1>2, <1>3, <1>8, <2>1, <2>2 DEF TailInv, Before
<1> QED
  BY <1>5, <1>6, <1>7, <1>8

\* The child takes a unit: the rest is still a chain, and has the same end.
LEMMA TakeChain ==
    ASSUME TypeInv, HasNext("data"), Take("data"), UNCHANGED <<out, announced>>, Chain(Stream)
    PROVE  /\ Chain(Stream)'
           /\ Stream' # <<>> => /\ Follows(Stream[1], Stream'[1])
                                /\ Stream'[Len(Stream')] = Stream[Len(Stream)]
                                /\ Stream'[1] \in Unit
           /\ Stream' = <<>> => Stream[Len(Stream)] = Stream[1]
           /\ \A i \in 1..Len(Stream') : \E j \in 1..Len(Stream) : Stream'[i] = Stream[j]
<1>1. PICK s : s = Stream /\ s \in Seq(Unit) /\ s # <<>>
  BY StreamTyped, TakeStream
<1>2. PICK u : u = Stream' /\ Len(u) = Len(s) - 1 /\ \A i \in 1..(Len(s) - 1) : u[i] = s[i + 1]
  BY <1>1, TakeStream
<1>3. u \in Seq(Unit)
  <2>1. Tail(content["data"]) \in Seq(Unit) /\ content'["data"] = Tail(content["data"])
        /\ out \in Seq(Unit)
    BY DEF TypeInv, ContentTyped, DataTyped, HasNext, Take, Pipe
  <2>2. u = Tail(content["data"]) \o out
    BY <1>2, <2>1 DEF Stream
  <2> QED
    BY <2>1, <2>2
<1>4. Len(s) \in Nat /\ Len(s) >= 1 /\ (u # <<>> => Len(s) >= 2) /\ (u = <<>> => Len(s) = 1)
  BY <1>1, <1>2, <1>3
<1>5. /\ \A i \in 1..Len(s) : s[i].kind # "finish" => announced[s[i].file] >= 0
      /\ \A i \in 1..(Len(s) - 1) : Follows(s[i], s[i + 1])
      /\ s[Len(s)].kind # "file"
  BY <1>1 DEF Chain
<1>6. \A i \in 1..Len(u) : i + 1 \in 1..Len(s) /\ u[i] = s[i + 1]
  BY <1>2, <1>4
<1>7. u # <<>> => u[Len(u)] = s[Len(s)] /\ u[1] = s[2] /\ u[1] \in Unit
  <2>1. u # <<>> => 1 \in 1..Len(u) /\ Len(u) \in 1..Len(u) /\ Len(u) + 1 = Len(s)
    BY <1>2, <1>4
  <2> QED
    BY <1>3, <1>6, <2>1
<1>8. u # <<>> => Follows(s[1], u[1])
  <2>1. u # <<>> => 1 \in 1..(Len(s) - 1)
    BY <1>4
  <2> QED
    BY <1>5, <1>7, <2>1
<1>9. \A i \in 1..(Len(u) - 1) : Follows(u[i], u[i + 1])
  <2> SUFFICES ASSUME NEW i \in 1..(Len(u) - 1) PROVE Follows(u[i], u[i + 1])
    OBVIOUS
  <2>1. PICK j : j = i + 1
    OBVIOUS
  <2>2. j \in 1..(Len(s) - 1) /\ i \in 1..Len(u) /\ j \in 1..Len(u)
    BY <1>2, <1>4, <2>1
  <2>3. Follows(s[j], s[j + 1]) /\ u[i] = s[j] /\ u[j] = s[j + 1]
    BY <1>5, <1>6, <2>1, <2>2
  <2> QED
    BY <2>1, <2>3
<1>10. \A x, y : Follows(x, y) = (Follows(x, y))'
  BY DEF Follows, IsDue, Starts
<1>11. Chain(Stream)'
  <2>1. \A i \in 1..Len(u) : u[i].kind # "finish" => announced'[u[i].file] >= 0
    BY <1>5, <1>6
  <2>2. \A i \in 1..(Len(u) - 1) : Follows(u[i], u[i + 1])'
    BY <1>9, <1>10
  <2>3. u # <<>> => u[Len(u)].kind # "file"
    BY <1>5, <1>7
  <2> QED
    BY <1>2, <2>1, <2>2, <2>3 DEF Chain
<1>12. \A i \in 1..Len(u) : \E j \in 1..Len(s) : u[i] = s[j]
  BY <1>6
<1>13. u = <<>> => s[Len(s)] = s[1]
  BY <1>4
<1> QED
  BY <1>1, <1>2, <1>7, <1>8, <1>11, <1>12, <1>13, Zenon

LEMMA TakeTail ==
    ASSUME TypeInv, HasNext("data"), Take("data"), UNCHANGED <<out, announced, index, left>>,
           Chain(Stream), TailInv, pc'["parent"] = pc["parent"],
           Stream' = <<>> => (AtStart(Stream) => AtStart(Stream)')
                             /\ \A f, k : AtByte(Stream, f, k) => (AtByte(Stream, f, k))'
    PROVE  TailInv'
<1>1. PICK s, u : s = Stream /\ u = Stream' /\ s # <<>>
  BY TakeStream
<1>2. u # <<>> => u[Len(u)] = s[Len(s)]
  BY <1>1, TakeChain
<1>3. AtStart(Stream) => AtStart(Stream)'
  BY <1>1, <1>2 DEF AtStart
<1>4. ASSUME NEW f, NEW k, AtByte(Stream, f, k) PROVE (AtByte(Stream, f, k))'
  <2>1. CASE Stream' # <<>>
    BY <1>1, <1>2, <1>4, <2>1 DEF AtByte
  <2> QED
    BY <1>4, <2>1
<1>5. (\E i \in 1..Len(u) : u[i].kind = "finish") => \E i \in 1..Len(s) : s[i].kind = "finish"
  BY <1>1, TakeChain
<1> QED
  BY <1>1, <1>3, <1>4, <1>5 DEF TailInv

LEMMA HeaderStream ==
    ASSUME TypeInv, StageInv, Chain(Stream), HeadInv, TailInv, ReadHeader, Alive'
    PROVE  (Chain(Stream) /\ HeadInv /\ TailInv)'
<1>1. /\ HasNext("data") /\ Take("data") /\ pc["child"] = "header"
      /\ UNCHANGED <<out, announced, index, left, taking, got>>
  BY DEF ReadHeader, parent
<1>2. PICK h : h = Stream[1] /\ h \in Unit
  BY <1>1, TakeStream, StreamTyped
<1>3. h.kind = "file" /\ pc' = [pc EXCEPT !["child"] = "name"] /\ rest' = h.n
  <2>1. h = Head(content["data"])
    BY <1>1, <1>2, TakeStream
  <2>2. (h.kind = "finish" /\ pc' = [pc EXCEPT !["child"] = "ended"])
        \/ (h.kind = "file" /\ pc' = [pc EXCEPT !["child"] = "name"] /\ rest' = h.n)
    BY <2>1 DEF ReadHeader, Goto
  <2>3. pc' # [pc EXCEPT !["child"] = "ended"]
    BY DEF Alive, TypeInv, ControlTyped, Process
  <2> QED
    BY <2>2, <2>3
<1>4. pc'["child"] = "name" /\ pc'["parent"] = pc["parent"]
  BY <1>3 DEF TypeInv, ControlTyped, Process
<1>5. rest' = announced[h.file]
  BY <1>1, <1>2, <1>3, TakeStream DEF HeadInv, Awaited, Waiting, Starts
<1>6. /\ Chain(Stream)' /\ (Stream' # <<>> => Follows(h, Stream'[1]) /\ Stream'[1] \in Unit)
      /\ (Stream' = <<>> => Stream[Len(Stream)] = h)
  BY <1>1, <1>2, TakeChain
<1>7. Stream' # <<>>
  <2>1. Stream[Len(Stream)].kind # "file"
    BY <1>1, TakeStream DEF Chain
  <2> QED
    BY <1>3, <1>6, <2>1
<1>8. HeadInv'
  <2>1. PICK v : v = Stream'[1] /\ Follows(h, v)
    BY <1>6, <1>7
  <2>2. v.kind = "name" /\ v.file = h.file
    BY <1>3, <2>1 DEF Follows
  <2> QED
    BY <1>1, <1>4, <1>5, <1>7, <2>1, <2>2 DEF HeadInv, Awaited, Waiting
<1>9. TailInv'
  BY <1>1, <1>4, <1>7, TakeTail
<1> QED
  BY <1>6, <1>8, <1>9

LEMMA NameStream ==
    ASSUME PipeCopierAssumption, TypeInv, StageInv, Chain(Stream), HeadInv, TailInv, ReadName, Alive'
    PROVE  (Chain(Stream) /\ HeadInv /\ TailInv)'
<1>1. /\ HasNext("data") /\ Take("data") /\ pc["child"] = "name"
      /\ UNCHANGED <<out, announced, index, left, rest, got>>
  BY DEF ReadName, parent
<1>2. PICK h : h = Stream[1] /\ h \in Unit
  BY <1>1, TakeStream, StreamTyped
<1>3. taking' = h.file
  BY <1>1, <1>2, TakeStream DEF ReadName
<1>4. pc'["child"] = "data" /\ pc'["parent"] = pc["parent"]
  <2>1. pc' = [pc EXCEPT !["child"] = "data"] \/ pc' = [pc EXCEPT !["child"] = "ended"]
    BY DEF ReadName, ChildFails, Goto
  <2> QED
    BY <2>1 DEF Alive, TypeInv, ControlTyped, Process
<1>5. h.kind = "name" /\ rest = announced[h.file] /\ got = <<>>
  BY <1>1, <1>2, TakeStream DEF HeadInv, Awaited, StageInv
<1>6. /\ Chain(Stream)' /\ (Stream' # <<>> => Follows(h, Stream'[1]) /\ Stream'[1] \in Unit)
      /\ (Stream' = <<>> => Stream[Len(Stream)] = h)
  BY <1>1, <1>2, TakeChain
<1>7. Position' = 0
  <2>1. announced[h.file] \in Int /\ Len(<<>>) = 0
    <3>1. h.file \in Names /\ announced \in [Names -> -1..MaxLength]
      BY <1>2 DEF TypeInv, DataTyped, Unit
    <3>2. announced[h.file] \in -1..MaxLength /\ MaxLength \in Nat
      BY <3>1, Constants
    <3> QED
      BY <3>2
  <2>2. announced[h.file] - announced[h.file] + 0 = 0
    BY <2>1
  <2> QED
    BY <1>1, <1>3, <1>5, <2>1, <2>2 DEF Position
<1>8. HeadInv'
  <2>1. CASE Stream' = <<>>
    BY <1>4, <2>1 DEF HeadInv
  <2>2. CASE Stream' # <<>>
    <3>1. PICK v : v = Stream'[1] /\ Follows(h, v)
      BY <1>6, <2>2
    <3>2. IsDue(h.file, 1, v)
      BY <1>5, <3>1 DEF Follows
    <3>3. IsDue(taking, Position + 1, v)'
      BY <1>1, <1>3, <1>7, <3>2 DEF IsDue, Starts
    <3> QED
      BY <1>4, <2>2, <3>1, <3>3 DEF HeadInv, Awaited, Waiting
  <2> QED
    BY <2>1, <2>2
<1>9. ASSUME Stream' = <<>>
      PROVE  (AtStart(Stream) => AtStart(Stream)')
             /\ \A f, k : AtByte(Stream, f, k) => (AtByte(Stream, f, k))'
  <2>1. Stream[Len(Stream)] = h /\ Stream # <<>> /\ Len(<<>>) = 0
    BY <1>1, <1>6, <1>9, TakeStream
  <2>2. AtStart(Stream) => AtStart(Stream)'
    BY <1>1, <1>4, <1>5, <1>9, <2>1 DEF AtStart
  <2>3. ASSUME NEW f, NEW k, AtByte(Stream, f, k) PROVE (AtByte(Stream, f, k))'
    <3>1. h.file = f /\ k = 1
      BY <1>5, <2>1, <2>3 DEF AtByte
    <3> QED
      BY <1>3, <1>4, <1>7, <1>9, <3>1 DEF AtByte
  <2> QED
    BY <2>2, <2>3
<1>10. TailInv'
  BY <1>1, <1>4, <1>9, TakeTail
<1> QED
  BY <1>6, <1>8, <1>10

LEMMA DataStream ==
    ASSUME PipeCopierAssumption, TypeInv, StageInv, CopyInv, Chain(Stream), HeadInv, TailInv,
           ReadData
    PROVE  (Chain(Stream) /\ HeadInv /\ TailInv)'
<1>1. /\ HasNext("data") /\ Take("data") /\ pc["child"] = "data" /\ pc' = pc
      /\ UNCHANGED <<out, announced, index, left, taking, rest>>
  BY DEF ReadData, parent
<1>2. PICK h : h = Stream[1] /\ h \in Unit
  BY <1>1, TakeStream, StreamTyped
<1>3. PICK a, p : a = announced[taking] /\ p = Position
  OBVIOUS
<1>4. /\ a \in Nat /\ rest \in Nat /\ rest <= a /\ Len(got) \in Nat /\ Len(got) < rest
      /\ p = a - rest + Len(got) /\ got' = Append(got, h) /\ Len(got') = Len(got) + 1
  <2>1. a \in -1..MaxLength /\ MaxLength \in Nat /\ a >= 0 /\ rest <= a /\ rest \in 0..MaxLength
    BY <1>1, <1>3, Constants DEF TypeInv, DataTyped, CopyInv
  <2>2. got \in Seq(Unit) /\ got' = Append(got, h) /\ rest > 0 /\ Len(got) < ChunkSize(rest)
    BY <1>1, <1>2, TakeStream DEF ReadData, TypeInv, DataTyped
  <2>3. Len(got) \in Nat /\ Len(got') = Len(got) + 1
    BY <1>2, <2>2
  <2>4. Chunk \in Nat /\ ChunkSize(rest) <= rest /\ ChunkSize(rest) \in Int
    BY <2>1, Constants DEF ChunkSize
  <2>5. Len(got) < rest
    BY <2>1, <2>2, <2>3, <2>4
  <2> QED
    BY <1>3, <2>1, <2>2, <2>3, <2>5 DEF Position
<1>5. p + 1 <= a /\ p \in Nat /\ Position' = p + 1
  <2>1. p + 1 <= a /\ p \in Nat /\ a - rest + (Len(got) + 1) = p + 1
    BY <1>4
  <2> QED
    BY <1>1, <1>3, <1>4, <2>1 DEF Position
<1>6. h = [kind |-> "data", file |-> taking, n |-> p + 1]
  BY <1>1, <1>2, <1>3, <1>5, TakeStream DEF HeadInv, Awaited, IsDue
<1>7. /\ Chain(Stream)' /\ (Stream' # <<>> => Follows(h, Stream'[1]) /\ Stream'[1] \in Unit)
      /\ (Stream' = <<>> => Stream[Len(Stream)] = h)
  BY <1>1, <1>2, TakeChain
<1>8. HeadInv'
  <2>1. CASE Stream' = <<>>
    BY <1>1, <2>1 DEF HeadInv
  <2>2. CASE Stream' # <<>>
    <3>1. PICK v : v = Stream'[1] /\ Follows(h, v)
      BY <1>7, <2>2
    <3>2. IsDue(taking, p + 1 + 1, v)
      BY <1>6, <3>1 DEF Follows
    <3>3. IsDue(taking, Position + 1, v)'
      BY <1>1, <1>5, <3>2 DEF IsDue, Starts
    <3> QED
      BY <1>1, <2>2, <3>1, <3>3 DEF HeadInv, Awaited, Waiting
  <2> QED
    BY <2>1, <2>2
<1>9. ASSUME Stream' = <<>>
      PROVE  (AtStart(Stream) => AtStart(Stream)')
             /\ \A f, k : AtByte(Stream, f, k) => (AtByte(Stream, f, k))'
  <2>1. Stream[Len(Stream)] = h /\ Stream # <<>>
    BY <1>1, <1>7, <1>9, TakeStream
  <2>2. ASSUME AtStart(Stream) PROVE AtStart(Stream)'
    <3>1. p + 1 = a
      BY <1>3, <1>6, <2>1, <2>2 DEF AtStart
    <3>2. rest = Len(got')
      BY <1>4, <3>1
    <3> QED
      BY <1>1, <1>9, <3>2 DEF AtStart
  <2>3. ASSUME NEW f, NEW k, AtByte(Stream, f, k) PROVE (AtByte(Stream, f, k))'
    <3>1. f = taking /\ k = p + 1 + 1
      BY <1>6, <2>1, <2>3 DEF AtByte
    <3> QED
      BY <1>1, <1>5, <1>9, <3>1 DEF AtByte
  <2> QED
    BY <2>2, <2>3
<1>10. TailInv'
  BY <1>1, <1>9, TakeTail
<1> QED
  BY <1>7, <1>8, <1>10

\* New units behind the stream keep it a chain.
LEMMA Joined ==
    ASSUME NEW s \in Seq(Unit), NEW t \in Seq(Unit), t # <<>>, Len(Stream') = Len(s) + Len(t),
           \A i \in 1..Len(s) : Stream'[i] = s[i],
           \A i \in 1..Len(t) : Stream'[Len(s) + i] = t[i],
           \A i \in 1..Len(s) : s[i].kind # "finish" => announced'[s[i].file] >= 0,
           \A i \in 1..Len(t) : t[i].kind # "finish" => announced'[t[i].file] >= 0,
           \A i \in 1..(Len(s) - 1) : Follows(s[i], s[i + 1])',
           \A i \in 1..(Len(t) - 1) : Follows(t[i], t[i + 1])',
           s # <<>> => Follows(s[Len(s)], t[1])',
           t[Len(t)].kind # "file"
    PROVE  /\ Chain(Stream)' /\ Stream' # <<>> /\ Stream'[Len(Stream')] = t[Len(t)]
           /\ Stream'[1] = IF s = <<>> THEN t[1] ELSE s[1]
           /\ \A i \in 1..Len(Stream') :
                 (\E j \in 1..Len(s) : Stream'[i] = s[j]) \/ \E j \in 1..Len(t) : Stream'[i] = t[j]
<1>1. PICK m, n : m = Len(s) /\ n = Len(t)
  OBVIOUS
<1>2. m \in Nat /\ n \in Nat /\ n >= 1 /\ (s = <<>> <=> m = 0)
  BY <1>1
<1>3. PICK u : u = Stream'
  OBVIOUS
<1>4. Len(u) = m + n /\ (\A i \in 1..m : u[i] = s[i]) /\ \A i \in 1..n : u[m + i] = t[i]
  BY <1>1, <1>3, Zenon
<1>5. \A i \in 1..Len(u) : i \in 1..m \/ (i - m \in 1..n /\ i = m + (i - m))
  BY <1>2, <1>4
<1>6. \A i \in 1..Len(u) : (\E j \in 1..m : u[i] = s[j]) \/ \E j \in 1..n : u[i] = t[j]
  <2> SUFFICES ASSUME NEW i \in 1..Len(u), i \notin 1..m PROVE \E j \in 1..n : u[i] = t[j]
    BY <1>4
  <2>1. PICK j \in 1..n : i = m + j
    BY <1>5
  <2> QED
    BY <1>4, <2>1
<1>7. \A i \in 1..Len(u) : u[i].kind # "finish" => announced'[u[i].file] >= 0
  BY <1>1, <1>6
<1>8. \A i \in 1..(Len(u) - 1) : Follows(u[i], u[i + 1])'
  <2> SUFFICES ASSUME NEW i \in 1..(Len(u) - 1) PROVE Follows(u[i], u[i + 1])'
    OBVIOUS
  <2>1. CASE i + 1 <= m
    <3>1. PICK k : k = i + 1
      OBVIOUS
    <3>2. i \in 1..m /\ k \in 1..m /\ i \in 1..(m - 1)
      BY <1>2, <2>1, <3>1
    <3>3. u[i] = s[i] /\ u[k] = s[k] /\ Follows(s[i], s[k])'
      BY <1>1, <1>4, <3>1, <3>2
    <3> QED
      BY <3>1, <3>3
  <2>2. CASE i = m
    <3>1. i \in 1..m /\ 1 \in 1..n /\ s # <<>>
      BY <1>2, <2>2
    <3>2. u[i] = s[m] /\ u[m + 1] = t[1] /\ Follows(s[m], t[1])'
      BY <1>1, <1>4, <2>2, <3>1
    <3> QED
      BY <2>2, <3>2
  <2>3. CASE i > m
    <3>1. PICK j : j = i - m
      OBVIOUS
    <3>2. j \in 1..(n - 1) /\ i = m + j /\ i + 1 = m + (j + 1)
      BY <1>2, <1>4, <2>3, <3>1
    <3>3. PICK k : k = j + 1
      OBVIOUS
    <3>4. j \in 1..n /\ k \in 1..n
      BY <1>2, <3>2, <3>3
    <3>5. u[m + j] = t[j] /\ u[m + k] = t[k] /\ Follows(t[j], t[k])'
      BY <1>1, <1>4, <3>2, <3>3, <3>4
    <3> QED
      BY <3>2, <3>3, <3>5
  <2>4. i + 1 <= m \/ i = m \/ i > m
    BY <1>2
  <2> QED
    BY <2>1, <2>2, <2>3, <2>4
<1>9. u[Len(u)] = t[n] /\ Len(u) >= 1
  <2>1. n \in 1..n /\ Len(u) = m + n /\ m + n >= 1
    BY <1>2, <1>4
  <2> QED
    BY <1>4, <2>1
<1>10. u # <<>>
  <2>1. Len(<<>>) = 0
    OBVIOUS
  <2> QED
    BY <1>9, <2>1
<1>11. u[1] = IF s = <<>> THEN t[1] ELSE s[1]
  <2>1. m = 0 => 1 \in 1..n /\ m + 1 = 1
    BY <1>2
  <2>2. m # 0 => 1 \in 1..m
    BY <1>2
  <2> QED
    BY <1>2, <1>4, <2>1, <2>2
<1>12. Chain(Stream)'
  BY <1>1, <1>3, <1>7, <1>8, <1>9 DEF Chain
<1> QED
  BY <1>1, <1>3, <1>6, <1>9, <1>10, <1>11, <1>12, Zenon

\* A finish is followed by nothing.
LEMMA NoFinish ==
    ASSUME NEW u \in Unit, NEW v \in Unit, Follows(u, v)
    PROVE  u.kind # "finish"
BY DEF Follows

\* The facts about a chain that Joined asks for, when its files keep their announcement.
LEMMA Extendable ==
    ASSUME Chain(Stream), NEW s \in Seq(Unit), s = Stream,
           \A g \in Names : announced[g] >= 0 => announced'[g] = announced[g]
    PROVE  /\ \A i \in 1..Len(s) : s[i].kind # "finish" => announced'[s[i].file] >= 0
           /\ \A i \in 1..(Len(s) - 1) : Follows(s[i], s[i + 1])'
<1>1. s = Stream /\ s \in Seq(Unit)
  OBVIOUS
<1>2. /\ \A i \in 1..Len(s) : s[i].kind # "finish" => announced[s[i].file] >= 0
      /\ \A i \in 1..(Len(s) - 1) : Follows(s[i], s[i + 1])
  BY <1>1 DEF Chain
<1>3. \A i \in 1..Len(s) : s[i] \in Unit /\ s[i].file \in Names
  <2>1. \A u \in Unit : u.file \in Names
    BY DEF Unit
  <2>2. \A i \in 1..Len(s) : s[i] \in Unit
    BY <1>1
  <2> QED
    BY <2>1, <2>2
<1>4. \A i \in 1..Len(s) : s[i].kind # "finish" => announced'[s[i].file] = announced[s[i].file]
  BY <1>2, <1>3
<1>5. \A i \in 1..Len(s) : s[i].kind # "finish" => announced'[s[i].file] >= 0
  BY <1>2, <1>4
<1>6. \A i \in 1..(Len(s) - 1) : Follows(s[i], s[i + 1])'
  <2> SUFFICES ASSUME NEW i \in 1..(Len(s) - 1) PROVE Follows(s[i], s[i + 1])'
    OBVIOUS
  <2>1. PICK u, v : u = s[i] /\ v = s[i + 1] /\ Follows(u, v)
    BY <1>2
  <2>2. i \in 1..Len(s) /\ i + 1 \in 1..Len(s)
    BY <1>1
  <2>3. /\ u \in Unit /\ u.kind # "finish" /\ announced'[u.file] = announced[u.file]
    BY <1>3, <1>4, <2>1, <2>2, NoFinish
  <2>4. v.kind # "finish" => announced'[v.file] = announced[v.file]
    BY <1>4, <2>1, <2>2
  <2>5. Follows(u, v)'
    BY <2>1, <2>3, <2>4 DEF Follows, IsDue, Starts
  <2> QED
    BY <2>1, <2>5
<1> QED
  BY <1>5, <1>6

LEMMA HeadKept ==
    ASSUME TypeInv, CopyInv, Chain(Stream), HeadInv, Stream # <<>>, Stream' # <<>>,
           Stream'[1] = Stream[1],
           \A g \in Names : announced[g] >= 0 => announced'[g] = announced[g],
           pc'["child"] = pc["child"], UNCHANGED <<taking, rest, got>>
    PROVE  HeadInv'
<1>1. PICK h : h = Stream[1] /\ h \in Unit /\ (h.kind # "finish" => announced[h.file] >= 0)
  BY StreamTyped DEF Chain
<1>2. h.file \in Names /\ taking \in Names /\ h = Stream'[1]
  BY <1>1 DEF Unit, TypeInv, DataTyped
<1>3. h.kind # "finish" => announced'[h.file] = announced[h.file]
  BY <1>1, <1>2
<1>4. Starts(h) => Starts(h)'
  BY <1>3 DEF Starts
<1>5. pc["child"] \in Waiting => Starts(h)'
  BY <1>1, <1>4 DEF HeadInv, Awaited
<1>6. pc["child"] = "name" => h.kind = "name" /\ rest = announced'[h.file]
  BY <1>1, <1>3 DEF HeadInv, Awaited
<1>7. pc["child"] = "data" => IsDue(taking, Position + 1, h)'
  <2> SUFFICES ASSUME pc["child"] = "data" PROVE IsDue(taking, Position + 1, h)'
    OBVIOUS
  <2>1. announced'[taking] = announced[taking]
    BY <1>2 DEF CopyInv
  <2>2. Position' = Position
    BY <2>1 DEF Position
  <2>3. IsDue(taking, Position + 1, h)
    BY <1>1 DEF HeadInv, Awaited
  <2> QED
    BY <1>4, <2>1, <2>2, <2>3 DEF IsDue
<1>8. (Awaited(h))'
  BY <1>5, <1>6, <1>7 DEF Awaited
<1> QED
  BY <1>2, <1>8 DEF HeadInv, Awaited

\* A header or the last message is due at the end of the stream.
LEMMA StartJoins ==
    ASSUME TypeInv, CopyInv, Chain(Stream), HeadInv, AtStart(Stream), NEW u \in Unit, Starts(u)',
           MaxLength \in Nat,
           \A g \in Names : announced[g] >= 0 => announced'[g] = announced[g],
           pc'["child"] = pc["child"], UNCHANGED <<taking, rest, got>>
    PROVE  /\ \A l : Stream # <<>> /\ l = Stream[Len(Stream)] => Follows(l, u)'
           /\ Stream = <<>> /\ Stream' # <<>> /\ Stream'[1] = u => HeadInv'
<1>1. ASSUME Stream # <<>>, NEW l, l = Stream[Len(Stream)] PROVE Follows(l, u)'
  <2>1. l \in Unit /\ (l.kind # "finish" => announced[l.file] >= 0)
    BY <1>1, StreamTyped DEF Chain
  <2>2. \/ l.kind = "name" /\ announced[l.file] = 0
        \/ l.kind = "data" /\ l.n = announced[l.file]
    BY <1>1, <2>1 DEF AtStart
  <2>3. l.file \in Names /\ announced'[l.file] = announced[l.file] /\ l.n \in 0..MaxLength
    BY <2>1, <2>2 DEF Unit
  <2>4. l.kind = "name" => ~(1 <= announced'[l.file])
    BY <2>2, <2>3
  <2>5. l.kind = "data" => ~(l.n + 1 <= announced'[l.file])
    <3>1. l.n \in Nat /\ ~(l.n + 1 <= l.n)
      BY <2>3
    <3> QED
      BY <2>2, <2>3, <3>1
  <2> QED
    BY <2>2, <2>4, <2>5 DEF Follows, IsDue
<1>2. ASSUME Stream = <<>>, Stream' # <<>>, Stream'[1] = u PROVE HeadInv'
  <2>1. pc["child"] \in Waiting \/ (pc["child"] = "data" /\ rest = Len(got))
    BY <1>2 DEF AtStart
  <2>2. ASSUME pc["child"] = "data" PROVE IsDue(taking, Position + 1, u)'
    <3>1. PICK a : a = announced[taking] /\ a \in Nat /\ rest = Len(got) /\ rest \in Nat
      BY <2>1, <2>2 DEF CopyInv, TypeInv, DataTyped, Waiting
    <3>2. announced'[taking] = a
      BY <3>1 DEF TypeInv, DataTyped
    <3>3. Position' = a
      <4>1. a - rest + rest = a
        BY <3>1
      <4> QED
        BY <3>1, <3>2, <4>1 DEF Position
    <3>4. ~(a + 1 <= a)
      BY <3>1
    <3> QED
      BY <3>2, <3>3, <3>4 DEF IsDue
  <2> QED
    BY <1>2, <2>1, <2>2 DEF HeadInv, Awaited, Waiting
<1> QED
  BY <1>1, <1>2

LEMMA FinishStream ==
    ASSUME PipeCopierAssumption, TypeInv, StageInv, CopyInv, Chain(Stream), HeadInv, TailInv, Finish
    PROVE  (Chain(Stream) /\ HeadInv /\ TailInv)'
<1>1. /\ pc["parent"] = "next" /\ pc' = [pc EXCEPT !["parent"] = "finish"]
      /\ out = <<>> /\ content' = content /\ UNCHANGED <<announced, taking, rest, got, index, left>>
  BY DEF Finish, pipes, child, Goto, StageInv
<1>2. PICK u \in Unit : u.kind = "finish" /\ out' = <<u>>
  <2>1. [kind |-> "finish", file |-> Files[1], n |-> 0] \in Unit
    BY Constants DEF Unit
  <2> QED
    BY <2>1 DEF Finish
<1>3. PICK t \in Seq(Unit) : t = <<u>> /\ t[1] = u /\ Len(t) = 1 /\ t # <<>>
  <2>1. <<u>> \in Seq(Unit) /\ <<u>>[1] = u /\ Len(<<u>>) = 1 /\ <<u>> # <<>>
    OBVIOUS
  <2> QED
    BY <2>1
<1>4. PICK s \in Seq(Unit) : s = Stream
  BY StreamTyped
<1>5. /\ Len(Stream') = Len(s) + Len(t) /\ (\A i \in 1..Len(s) : Stream'[i] = s[i])
      /\ \A i \in 1..Len(t) : Stream'[Len(s) + i] = t[i]
  BY <1>1, <1>2, <1>3, <1>4, FillStream
<1>6. AtStart(Stream) /\ Starts(u)' /\ pc'["child"] = pc["child"] /\ pc'["parent"] = "finish"
  BY <1>1, <1>2 DEF TailInv, Starts, TypeInv, ControlTyped, Process
<1>7. /\ s # <<>> => Follows(s[Len(s)], u)'
      /\ s = <<>> /\ Stream' # <<>> /\ Stream'[1] = u => HeadInv'
  BY <1>1, <1>4, <1>6, StartJoins, Constants
<1>8. /\ \A i \in 1..Len(s) : s[i].kind # "finish" => announced'[s[i].file] >= 0
      /\ \A i \in 1..(Len(s) - 1) : Follows(s[i], s[i + 1])'
  BY <1>1, <1>4, Extendable
<1>9. /\ \A i \in 1..Len(t) : t[i].kind # "finish" => announced'[t[i].file] >= 0
      /\ \A i \in 1..(Len(t) - 1) : Follows(t[i], t[i + 1])'
      /\ t[Len(t)].kind # "file"
  <2>1. \A i \in 1..Len(t) : i = 1
    BY <1>3
  <2>2. ~ \E i : i \in 1..(Len(t) - 1)
    BY <1>3
  <2> QED
    BY <1>2, <1>3, <2>1, <2>2
<1>10. /\ Chain(Stream)' /\ Stream' # <<>> /\ Stream'[1] = IF s = <<>> THEN t[1] ELSE s[1]
  BY ZenonT(40), <1>3, <1>5, <1>7, <1>8, <1>9, Joined
<1>11. HeadInv'
  BY <1>1, <1>3, <1>4, <1>6, <1>7, <1>10, HeadKept
<1>12. TailInv'
  BY <1>6 DEF TailInv, Late, Before
<1> QED
  BY <1>10, <1>11, <1>12

LEMMA NextStream ==
    ASSUME PipeCopierAssumption, TypeInv, StageInv, AnnouncedInv, CopyInv, Chain(Stream), HeadInv,
           TailInv, NextFile, length[Files[index]] # -1
    PROVE  (Chain(Stream) /\ HeadInv /\ TailInv)'
<1> DEFINE f == Files[index]
<1>1. /\ pc["parent"] = "next" /\ pc' = [pc EXCEPT !["parent"] = "send"] /\ index <= Len(Files)
      /\ out = <<>> /\ content' = content /\ UNCHANGED <<taking, rest, got, index>>
      /\ announced' = [announced EXCEPT ![f] = length[f]] /\ left' = length[f]
  BY DEF NextFile, pipes, child, Goto, StageInv
<1>2. f \in Names /\ length[f] \in 0..MaxLength /\ MaxLength \in Nat
  <2>1. f \in Names /\ MaxLength \in Nat
    BY <1>1, Constants DEF TypeInv, DataTyped
  <2>2. length[f] \in -1..MaxLength
    BY <2>1 DEF TypeInv, ControlTyped
  <2> QED
    BY <2>1, <2>2
<1>3. announced[f] = -1 /\ announced'[f] = length[f]
      /\ \A g \in Names : announced[g] >= 0 => announced'[g] = announced[g]
  <2>1. announced \in [Names -> -1..MaxLength]
    BY DEF TypeInv, DataTyped
  <2>2. index \in 1..Len(Files)
    BY <1>1, Constants DEF TypeInv, DataTyped
  <2>3. announced[f] = -1
    BY <1>1, <2>2 DEF AnnouncedInv
  <2>4. announced'[f] = length[f] /\ \A g \in Names \ {f} : announced'[g] = announced[g]
    BY <1>1, <1>2, <2>1
  <2> QED
    BY <2>3, <2>4
<1>4. PICK u, v : /\ u = [kind |-> "file", file |-> f, n |-> length[f]]
                  /\ v = [kind |-> "name", file |-> f, n |-> 0]
  OBVIOUS
<1>5. u \in Unit /\ v \in Unit /\ out' = <<u, v>>
  <2>1. out' = <<u, v>>
    BY <1>4 DEF NextFile
  <2>2. 0 \in 0..MaxLength
    BY <1>2
  <2> QED
    BY <1>2, <1>4, <2>1, <2>2 DEF Unit
<1> HIDE DEF f
<1>6. PICK t \in Seq(Unit) : t = <<u, v>> /\ t[1] = u /\ t[2] = v /\ Len(t) = 2 /\ t # <<>>
  <2>1. <<u, v>> \in Seq(Unit) /\ <<u, v>>[1] = u /\ <<u, v>>[2] = v /\ Len(<<u, v>>) = 2
        /\ <<u, v>> # <<>>
    BY <1>5
  <2> QED
    BY <2>1
<1>7. PICK s \in Seq(Unit) : s = Stream
  BY StreamTyped
<1>8. /\ Len(Stream') = Len(s) + Len(t) /\ (\A i \in 1..Len(s) : Stream'[i] = s[i])
      /\ \A i \in 1..Len(t) : Stream'[Len(s) + i] = t[i]
  BY <1>1, <1>5, <1>6, <1>7, FillStream
<1>9. AtStart(Stream) /\ Starts(u)' /\ pc'["child"] = pc["child"] /\ pc'["parent"] = "send"
  BY <1>1, <1>2, <1>3, <1>4 DEF TailInv, Starts, TypeInv, ControlTyped, Process
<1>10. /\ s # <<>> => Follows(s[Len(s)], u)'
       /\ s = <<>> /\ Stream' # <<>> /\ Stream'[1] = u => HeadInv'
  BY <1>1, <1>2, <1>3, <1>5, <1>7, <1>9, StartJoins
<1>11. /\ \A i \in 1..Len(s) : s[i].kind # "finish" => announced'[s[i].file] >= 0
       /\ \A i \in 1..(Len(s) - 1) : Follows(s[i], s[i + 1])'
  BY <1>3, <1>7, Extendable
<1>12. /\ \A i \in 1..Len(t) : t[i].kind # "finish" => announced'[t[i].file] >= 0
       /\ \A i \in 1..(Len(t) - 1) : Follows(t[i], t[i + 1])'
       /\ t[Len(t)].kind # "file"
  <2>1. \A i \in 1..Len(t) : i = 1 \/ i = 2
    BY <1>6
  <2>2. \A i \in 1..(Len(t) - 1) : i = 1 /\ i + 1 = 2
    BY <1>6
  <2>3. Follows(u, v)'
    BY <1>4 DEF Follows
  <2>4. announced'[u.file] >= 0 /\ announced'[v.file] >= 0 /\ v.kind = "name"
    BY <1>2, <1>3, <1>4
  <2>5. \A i \in 1..(Len(t) - 1) : t[i] = u /\ t[i + 1] = v
    BY <1>6, <2>2
  <2> QED
    BY <1>6, <2>1, <2>3, <2>4, <2>5
<1>13. /\ Chain(Stream)' /\ Stream' # <<>> /\ Stream'[1] = IF s = <<>> THEN t[1] ELSE s[1]
       /\ Stream'[Len(Stream')] = v
       /\ \A i \in 1..Len(Stream') :
             (\E j \in 1..Len(s) : Stream'[i] = s[j]) \/ \E j \in 1..Len(t) : Stream'[i] = t[j]
  BY ZenonT(40), <1>6, <1>8, <1>10, <1>11, <1>12, Joined
<1>14. HeadInv'
  BY <1>1, <1>3, <1>6, <1>7, <1>9, <1>10, <1>13, HeadKept
<1>15. TailInv'
  <2>1. ~ \E i \in 1..Len(Stream') : Stream'[i].kind = "finish"
    <3>1. ~ \E i \in 1..Len(s) : s[i].kind = "finish"
      BY <1>1, <1>7 DEF TailInv, Late
    <3>2. ~ \E i \in 1..Len(t) : t[i].kind = "finish"
      <4>1. \A i \in 1..Len(t) : i = 1 \/ i = 2
        BY <1>6
      <4> QED
        BY <1>4, <1>6, <4>1
    <3> QED
      BY <1>13, <3>1, <3>2
  <2>2. left' = 0 => AtStart(Stream)'
    BY <1>1, <1>3, <1>4, <1>13 DEF AtStart
  <2>3. (AtByte(Stream, Files[index], announced[Files[index]] - left + 1))'
    <3>1. Files[index] = f /\ announced'[f] - left' + 1 = 1
      BY <1>1, <1>2, <1>3 DEF f
    <3>2. v.file = f /\ v.kind = "name"
      BY <1>4
    <3>3. Files[index]' = f
      BY <1>1, <3>1
    <3> QED
      BY <1>1, <1>13, <3>1, <3>2 DEF AtByte
  <2> QED
    BY <1>9, <2>1, <2>2, <2>3 DEF TailInv, Late, Before
<1> QED
  BY <1>13, <1>14, <1>15

LEMMA PieceStream ==
    ASSUME PipeCopierAssumption, TypeInv, StageInv, AnnouncedInv, CopyInv, Chain(Stream), HeadInv,
           TailInv, ReadFile, pc' = pc
    PROVE  (Chain(Stream) /\ HeadInv /\ TailInv)'
<1>0. PICK f : f = Files[index]
  OBVIOUS
<1>1. PICK a, d, size : /\ a = announced[f] /\ d = a - left
                        /\ size = IF length[f] - d < ChunkSize(left) THEN length[f] - d
                                                                     ELSE ChunkSize(left)
  OBVIOUS
<1>2. /\ pc["parent"] = "send" /\ out = <<>> /\ left > 0
      /\ content' = content /\ UNCHANGED <<announced, taking, rest, got, index>>
      /\ (size > 0 /\ out' = Bytes(f, d + 1, d + size) /\ left' = left - size)
         \/ (~(size > 0) /\ pc' = [pc EXCEPT !["parent"] = "close"])
  BY <1>0, <1>1 DEF ReadFile, pipes, child, Goto
<1>3. size > 0 /\ out' = Bytes(f, d + 1, d + size) /\ left' = left - size
  <2>1. pc' # [pc EXCEPT !["parent"] = "close"]
    BY <1>2 DEF TypeInv, ControlTyped, Process
  <2> QED
    BY <1>2, <2>1
<1>4. f \in Names /\ a \in 0..MaxLength /\ MaxLength \in Nat /\ left <= a /\ left \in 1..MaxLength
  <2>1. index <= Len(Files) /\ a >= 0 /\ left <= a
    BY <1>0, <1>1, <1>2 DEF StageInv, AnnouncedInv
  <2>2. f \in Names /\ MaxLength \in Nat
    BY <1>0, <2>1, Constants DEF TypeInv, DataTyped
  <2>3. a \in -1..MaxLength /\ left \in 0..MaxLength
    BY <1>1, <2>2 DEF TypeInv, DataTyped
  <2> QED
    BY <1>2, <2>1, <2>2, <2>3
<1>5. size \in Nat /\ size >= 1 /\ size <= left
  <2>1. ChunkSize(left) \in Nat /\ ChunkSize(left) <= left
    BY <1>4, Constants DEF ChunkSize
  <2>2. length[f] - d \in Int
    <3>1. length[f] \in -1..MaxLength /\ d \in Int
      BY <1>1, <1>4 DEF TypeInv, ControlTyped
    <3> QED
      BY <1>4, <3>1
  <2>3. PICK x, c : x = length[f] - d /\ c = ChunkSize(left)
    OBVIOUS
  <2>4. x \in Int /\ c \in Nat /\ c <= left /\ size = IF x < c THEN x ELSE c
    BY <1>1, <2>1, <2>2, <2>3
  <2> QED
    BY <1>3, <1>4, <2>4
<1>6. PICK e : e = d + size
  OBVIOUS
<1>7. d \in Nat /\ e \in Nat /\ d + 1 <= a /\ d + 1 <= e /\ e <= a /\ e <= MaxLength /\ e - d = size
      /\ a - left' = e /\ left' = a - e /\ d <= e
  BY <1>1, <1>3, <1>4, <1>5, <1>6
<1>8. PICK t \in Seq(Unit) :
          /\ out' = t /\ Len(t) = size /\ t # <<>>
          /\ \A k \in 1..size : t[k] = [kind |-> "data", file |-> f, n |-> d + k]
  <2>1. /\ Bytes(f, d + 1, e) \in Seq(Unit) /\ Len(Bytes(f, d + 1, e)) = e - d
        /\ \A k \in 1..(e - d) :
              Bytes(f, d + 1, e)[k] = [kind |-> "data", file |-> f, n |-> d + k]
    BY <1>4, <1>7, Piece
  <2>2. Len(<<>>) = 0 /\ size # 0
    BY <1>5
  <2>3. Bytes(f, d + 1, e) # <<>>
    BY <1>7, <2>1, <2>2, Zenon
  <2> QED
    BY <1>3, <1>6, <1>7, <2>1, <2>3, Zenon
<1>9. PICK s \in Seq(Unit) : s = Stream
  BY StreamTyped
<1>10. /\ Len(Stream') = Len(s) + Len(t) /\ (\A i \in 1..Len(s) : Stream'[i] = s[i])
       /\ \A i \in 1..Len(t) : Stream'[Len(s) + i] = t[i]
  BY <1>2, <1>8, <1>9, FillStream
<1>11. AtByte(Stream, f, d + 1)
  BY <1>0, <1>1, <1>2, <1>4 DEF TailInv
<1>12. 1 \in 1..size /\ size \in 1..size /\ t[1] = [kind |-> "data", file |-> f, n |-> d + 1]
       /\ t[Len(t)] = [kind |-> "data", file |-> f, n |-> e]
  <2>1. 1 \in 1..size /\ size \in 1..size /\ d + size = e
    BY <1>5, <1>6
  <2> QED
    BY <1>8, <2>1, Zenon
<1>13. \A u : IsDue(f, d + 1, u) => (IsDue(f, d + 1, u))'
  BY <1>2 DEF IsDue, Starts
<1>14. IsDue(f, d + 1, t[1])
  BY <1>1, <1>7, <1>12 DEF IsDue
<1>15. s # <<>> => Follows(s[Len(s)], t[1])'
  <2> SUFFICES ASSUME s # <<>> PROVE Follows(s[Len(s)], t[1])'
    OBVIOUS
  <2>1. PICK l : l = s[Len(s)]
    OBVIOUS
  <2>2. l.file = f /\ ((l.kind = "name" /\ d + 1 = 1) \/ (l.kind = "data" /\ d + 1 = l.n + 1))
    BY <1>9, <1>11, <2>1 DEF AtByte
  <2>3. (IsDue(f, d + 1, t[1]))'
    BY <1>13, <1>14
  <2>4. Follows(l, t[1])'
    BY <2>2, <2>3 DEF Follows
  <2> QED
    BY <2>1, <2>4
<1>16. /\ \A i \in 1..Len(s) : s[i].kind # "finish" => announced'[s[i].file] >= 0
       /\ \A i \in 1..(Len(s) - 1) : Follows(s[i], s[i + 1])'
  BY <1>2, <1>9, Extendable
<1>17. /\ \A i \in 1..Len(t) : t[i].kind = "data" /\ announced'[t[i].file] >= 0
       /\ t[Len(t)].kind # "file"
  <2>1. announced'[f] >= 0
    BY <1>1, <1>2, <1>4
  <2>2. \A i \in 1..Len(t) : t[i] = [kind |-> "data", file |-> f, n |-> d + i]
    BY <1>8
  <2>3. \A i \in 1..Len(t) : t[i].kind = "data" /\ t[i].file = f
    <3> SUFFICES ASSUME NEW i \in 1..Len(t) PROVE t[i].kind = "data" /\ t[i].file = f
      OBVIOUS
    <3>1. PICK x : x = t[i]
      OBVIOUS
    <3>2. x = [kind |-> "data", file |-> f, n |-> d + i]
      BY <2>2, <3>1, Zenon
    <3> QED
      BY <3>1, <3>2
  <2> QED
    BY <1>12, <2>1, <2>3
<1>18. \A i \in 1..(Len(t) - 1) : Follows(t[i], t[i + 1])'
  <2> SUFFICES ASSUME NEW i \in 1..(Len(t) - 1) PROVE Follows(t[i], t[i + 1])'
    OBVIOUS
  <2>1. PICK j : j = i + 1
    OBVIOUS
  <2>2. i \in 1..size /\ j \in 1..size /\ d + i + 1 = d + j /\ d + j <= a
    <3>1. i \in 1..(size - 1)
      BY <1>8
    <3>2. i \in Nat /\ i + 1 <= size /\ 1 <= i
      BY <1>5, <3>1
    <3>3. i \in 1..size /\ j \in 1..size /\ d + i + 1 = d + j
      BY <1>5, <1>7, <2>1, <3>2
    <3>4. d + j <= d + size /\ d + size <= a
      BY <1>5, <1>6, <1>7, <2>1, <3>2
    <3>5. d + j \in Int /\ d + size \in Int /\ a \in Int
      BY <1>4, <1>5, <1>7, <3>3
    <3> QED
      BY <3>3, <3>4, <3>5
  <2>3. t[i] = [kind |-> "data", file |-> f, n |-> d + i]
        /\ t[j] = [kind |-> "data", file |-> f, n |-> d + j]
    BY <1>8, <2>2
  <2>4. announced'[f] = a
    BY <1>1, <1>2
  <2>5. Follows(t[i], t[j])'
    BY <2>2, <2>3, <2>4 DEF Follows, IsDue
  <2> QED
    BY <2>1, <2>5
<1>19. /\ Chain(Stream)' /\ Stream' # <<>> /\ Stream'[1] = IF s = <<>> THEN t[1] ELSE s[1]
       /\ Stream'[Len(Stream')] = t[Len(t)]
       /\ \A i \in 1..Len(Stream') :
             (\E j \in 1..Len(s) : Stream'[i] = s[j]) \/ \E j \in 1..Len(t) : Stream'[i] = t[j]
  BY <1>8, <1>10, <1>15, <1>16, <1>17, <1>18, Joined
<1>20. HeadInv'
  <2>1. CASE s # <<>>
    BY <1>2, <1>9, <1>19, <2>1, HeadKept
  <2>2. CASE s = <<>>
    <3>1. pc["child"] = "data" /\ taking = f /\ d + 1 = Position + 1
      BY <1>9, <1>11, <2>2 DEF AtByte
    <3>2. Position' = Position
      BY <1>2 DEF Position
    <3>3. Stream'[1] = t[1] /\ (IsDue(f, d + 1, t[1]))'
      BY <1>13, <1>14, <1>19, <2>2
    <3>4. IsDue(taking, Position + 1, t[1])'
      BY <1>2, <3>1, <3>2, <3>3 DEF IsDue, Starts
    <3> QED
      BY <3>1, <3>3, <3>4 DEF HeadInv, Awaited, Waiting
  <2> QED
    BY <2>1, <2>2
<1>21. TailInv'
  <2>1. ~ \E i \in 1..Len(Stream') : Stream'[i].kind = "finish"
    <3>1. ~ \E i \in 1..Len(s) : s[i].kind = "finish"
      BY <1>2, <1>9 DEF TailInv, Late
    <3> QED
      BY <1>17, <1>19, <3>1
  <2>2. left' = 0 => AtStart(Stream)'
    <3>1. left' = 0 => e = a
      BY <1>4, <1>7
    <3> QED
      BY <1>1, <1>2, <1>12, <1>19, <3>1 DEF AtStart
  <2>3. (AtByte(Stream, Files[index], announced[Files[index]] - left + 1))'
    <3>1. Files[index]' = f /\ announced'[f] - left' + 1 = e + 1
      BY <1>0, <1>1, <1>2, <1>7
    <3> QED
      BY <1>2, <1>12, <1>19, <3>1 DEF AtByte
  <2> QED
    BY <1>2, <2>1, <2>2, <2>3 DEF TailInv, Late, Before
<1> QED
  BY <1>19, <1>20, <1>21

\* A process that is over stays so.
LEMMA StaysOver == ASSUME PipeCopierAssumption, IInv, [Next]_vars, Alive' PROVE Alive
<1> USE DEF IInv, TypeInv
<1>1. CASE Child
  BY <1>1 DEF Child, SayReady, ReadHeader, ReadName, ReadData, WriteData, Received, Incomplete, Alive
<1>2. CASE Parent
  <2>1. Fork => pc["child"] = "none"
    BY DEF Fork, StageInv
  <2> QED
    BY <1>2, <2>1, ParentEffect DEF Alive
<1>3. ASSUME NEW p \in Process, CloseUnused(p) \/ Kill(p) PROVE Alive
  BY <1>3 DEF CloseUnused, Kill, Goto, Alive, ControlTyped, Process
<1>4. CASE Meet
  BY <1>4 DEF Meet, Alive, Process
<1>5. CASE UNCHANGED vars \/ \E f \in ToSet(Files) : Truncate(f)
  BY <1>5 DEF vars, Truncate, Alive
<1> QED
  BY <1>1, <1>2, <1>3, <1>4, <1>5 DEF Next, Step

\* What the parent does to the stream.
LEMMA ParentStream ==
    ASSUME PipeCopierAssumption, IInv, Parent, Alive, Chain(Stream), HeadInv, TailInv
    PROVE  (Chain(Stream) /\ HeadInv /\ TailInv)'
<1> USE DEF IInv, TypeInv
<1>0. /\ UNCHANGED <<taking, rest, got>>
      /\ pc'["child"] = pc["child"] \/ Fork
  BY ParentEffect
<1>1. ASSUME UNCHANGED announced, Stream' = Stream,
             pc'["child"] = pc["child"] \/ (pc["child"] \in Waiting /\ pc'["child"] \in Waiting),
             \/ pc'["parent"] = pc["parent"] /\ UNCHANGED <<index, left>>
             \/ pc'["parent"] \in Late
             \/ pc["parent"] \in Before /\ pc'["parent"] \in Before /\ pc'["child"] \in Waiting
             \/ /\ pc'["parent"] = "next"
                /\ \/ pc["parent"] \in {"handshake", "next"}
                   \/ pc["parent"] = "send" /\ left = 0
      PROVE  (Chain(Stream) /\ HeadInv /\ TailInv)'
  BY <1>0, <1>1, ChainSame, HeadSame, TailSame
<1>2. CASE AwaitReady
  <2>1. /\ UNCHANGED <<out, announced>> /\ pc["parent"] = "handshake" /\ content'["data"] = content["data"]
    BY <1>2 DEF AwaitReady, parent, Take, ContentTyped, Pipe
  <2>2. pc'["parent"] \in {"next", "close"} /\ pc'["child"] = pc["child"]
    BY <1>2 DEF AwaitReady, Goto, ControlTyped, Process
  <2> QED
    BY <1>1, <2>1, <2>2 DEF Stream, Late
<1>3. CASE NextFile
  <2>1. CASE length[Files[index]] = -1
    <3>1. UNCHANGED <<content, out, left, announced, pc>> /\ pc["parent"] = "next"
      BY <1>3, <2>1 DEF NextFile, pipes
    <3> QED
      BY <1>1, <3>1 DEF Stream
  <2>2. CASE length[Files[index]] # -1
    BY <1>3, <2>2, NextStream
  <2> QED
    BY <2>1, <2>2
<1>4. CASE Finish
  BY <1>4, FinishStream
<1>5. CASE Write
  <2>1. CASE Put("data", Head(out)) /\ out' = Tail(out) /\ pc' = pc
    <3>1. out # <<>> /\ UNCHANGED <<announced, index, left>>
      BY <1>5 DEF Write
    <3> QED
      BY <1>1, <2>1, <3>1, MoveStream
  <2>2. CASE Goto("parent", "killed") /\ UNCHANGED <<content, out>>
    <3>1. UNCHANGED announced
      BY <1>5 DEF Write
    <3>2. pc'["parent"] = "killed" /\ pc'["child"] = pc["child"]
      BY <2>2 DEF Goto, ControlTyped, Process
    <3> QED
      BY <1>1, <2>2, <3>1, <3>2 DEF Stream, Late
  <2> QED
    BY <1>5, <2>1, <2>2 DEF Write
<1>6. CASE ReadFile
  <2>1. CASE pc' = pc
    BY <1>6, <2>1, PieceStream
  <2>2. CASE pc' # pc
    <3>1. Goto("parent", "close") /\ UNCHANGED <<content, out, announced>>
      BY <1>6, <2>2 DEF ReadFile, pipes
    <3>2. pc'["parent"] = "close" /\ pc'["child"] = pc["child"]
      BY <3>1 DEF Goto, ControlTyped, Process
    <3> QED
      BY <1>1, <3>1, <3>2 DEF Stream, Late
  <2> QED
    BY <2>1, <2>2
<1>7. CASE Written
  <2>1. UNCHANGED <<content, out, announced, left>> /\ left = 0
    BY <1>7 DEF Written, pipes
  <2>2. \/ pc["parent"] = "send" /\ pc'["parent"] = "next" /\ pc'["child"] = pc["child"]
        \/ pc["parent"] = "finish" /\ pc'["parent"] = "close" /\ pc'["child"] = pc["child"]
    BY <1>7 DEF Written, Goto, ControlTyped, Process
  <2> QED
    BY <1>1, <2>1, <2>2 DEF Stream, Late
<1>8. CASE /\ pc["parent"] \in {"create", "create ready", "fork"}
           /\ pc'["parent"] \in {"create ready", "fork", "open data", "unused"}
           /\ pc'["parent"] \in {"create ready", "fork"} => pc'["child"] = pc["child"]
           /\ pc'["parent"] \in {"open data", "unused"} => pc'["child"] = pc'["parent"]
           /\ UNCHANGED <<content, out, left, index, announced, result>>
  <2>1. pc["child"] = "none"
    BY <1>8 DEF StageInv
  <2>2. pc'["child"] \in Waiting /\ pc["child"] \in Waiting
    BY <1>8, <2>1 DEF Waiting
  <2> QED
    BY <1>1, <1>8, <2>2 DEF Stream, Before
<1>9. CASE /\ pc["parent"] \in {"create", "create ready", "fork", "close", "wait", "remove",
                                "remove ready"}
           /\ pc'["parent"] \in {"ended", "remove", "remove ready", "wait"}
           /\ pc'["child"] = pc["child"] /\ UNCHANGED <<content, out, announced>>
  BY <1>1, <1>9 DEF Stream, Late
<1> QED
  BY <1>2, <1>3, <1>4, <1>5, <1>6, <1>7, <1>8, <1>9, ParentMoves

LEMMA StreamStep == ASSUME PipeCopierAssumption, IInv, [Next]_vars PROVE StreamInv'
<1> SUFFICES ASSUME Alive' PROVE (Chain(Stream) /\ HeadInv /\ TailInv)'
  BY DEF StreamInv
<1>0. Alive
  BY StaysOver
<1> USE DEF IInv, TypeInv
<1>1. Chain(Stream) /\ HeadInv /\ TailInv
  BY <1>0 DEF StreamInv
<1>2. CASE Parent
  BY <1>0, <1>1, <1>2, ParentStream
<1>3. CASE Child
  <2>0. UNCHANGED <<out, announced, index, left>> /\ pc'["parent"] = pc["parent"]
    BY <1>3, ChildEffect
  <2>1. CASE SayReady
    <3>1. pc' = [pc EXCEPT !["child"] = "header"] \/ pc' = [pc EXCEPT !["child"] = "killed"]
      BY <2>1 DEF SayReady, Goto
    <3>2. pc'["child"] = "header" /\ pc["child"] = "handshake"
      BY <2>1, <3>1 DEF SayReady, Alive, ControlTyped, Process
    <3>3. content'["data"] = content["data"]
      BY <2>1 DEF SayReady, Put, ContentTyped, Pipe
    <3> QED
      BY <1>1, <2>0, <3>2, <3>3, ChainSame, HeadSame, TailSame DEF Stream, Waiting
  <2>2. CASE ReadHeader
    BY <1>1, <2>2, HeaderStream
  <2>3. CASE ReadName
    BY <1>1, <2>3, NameStream
  <2>4. CASE ReadData
    BY <1>1, <2>4, DataStream
  <2>5. CASE WriteData
    <3>1. /\ pc["child"] = "data" /\ UNCHANGED <<content, taking>>
          /\ \/ pc' = pc /\ got' = <<>> /\ rest' = rest - Len(got)
             \/ Goto("child", "ended")
      BY <2>5 DEF WriteData, ChildFails
    <3>2. pc' = pc /\ got' = <<>> /\ rest' = rest - Len(got)
      BY <3>1 DEF Goto, Alive, ControlTyped, Process
    <3>3. PICK a, n : a = announced[taking] /\ n = Len(got)
      OBVIOUS
    <3>4. a \in Nat /\ n \in Nat /\ rest \in Nat /\ Len(<<>>) = 0
      <4>1. a \in -1..MaxLength /\ a >= 0 /\ MaxLength \in Nat
        BY <3>1, <3>3, Constants DEF DataTyped, CopyInv
      <4>2. n \in Nat /\ rest \in 0..MaxLength
        BY <3>3 DEF DataTyped
      <4> QED
        BY <4>1, <4>2
    <3>5. Position' = Position /\ (rest = Len(got) => rest' = Len(got'))
      <4>1. a - (rest - n) + 0 = a - rest + n /\ (rest = n => rest - n = 0)
        BY <3>4
      <4> QED
        BY <2>0, <3>1, <3>2, <3>3, <3>4, <4>1 DEF Position
    <3>6. Stream' = Stream
      BY <2>0, <3>1 DEF Stream
    <3>7. Chain(Stream)'
      BY <1>1, <2>0, <3>6, ChainSame
    <3>8. PICK s : s = Stream /\ s = Stream'
      BY <3>6
    <3>9. HeadInv'
      <4>1. \A f, k, u : IsDue(f, k, u) = (IsDue(f, k, u))'
        BY <2>0 DEF IsDue, Starts
      <4> QED
        BY <1>1, <3>1, <3>2, <3>5, <3>8, <4>1 DEF HeadInv, Awaited, Waiting
    <3>10. TailInv'
      <4>1. AtStart(s) => (AtStart(s))'
        BY <2>0, <3>1, <3>2, <3>5 DEF AtStart, Waiting
      <4>2. \A f, k : AtByte(s, f, k) => (AtByte(s, f, k))'
        BY <2>0, <3>1, <3>2, <3>5 DEF AtByte
      <4> QED
        BY <1>1, <2>0, <3>2, <3>8, <4>1, <4>2 DEF TailInv
    <3> QED
      BY <3>7, <3>9, <3>10
  <2>6. CASE Received
    <3>1. /\ pc["child"] = "data" /\ rest <= 0 /\ UNCHANGED <<content, out, left, index, announced,
                                                              taking, rest, got>>
          /\ pc' = [pc EXCEPT !["child"] = "header"]
      BY <2>6 DEF Received, Goto, pipes, parent, child
    <3>2. pc'["child"] = "header" /\ pc'["parent"] = pc["parent"]
      BY <3>1 DEF ControlTyped, Process
    <3>3. PICK a, p : a = announced[taking] /\ p = Position
      OBVIOUS
    <3>4. a \in Nat /\ p = a
      <4>1. a \in -1..MaxLength /\ a >= 0 /\ MaxLength \in Nat /\ rest \in 0..MaxLength
            /\ Len(got) \in Nat /\ Len(got) <= rest
        BY <3>1, <3>3, Constants DEF DataTyped, CopyInv
      <4>2. rest = 0 /\ Len(got) = 0
        BY <3>1, <4>1
      <4>3. a - 0 + 0 = a /\ a \in Nat
        BY <4>1
      <4> QED
        BY <3>3, <4>2, <4>3 DEF Position
    <3>5. Stream' = Stream
      BY <3>1 DEF Stream
    <3>6. Chain(Stream)'
      BY <1>1, <3>1, <3>5, ChainSame
    <3>7. PICK s : s = Stream /\ s = Stream'
      BY <3>5
    <3>8. HeadInv'
      <4>1. \A u : IsDue(taking, p + 1, u) => Starts(u)'
        <5>1. ~(a + 1 <= a)
          BY <3>4
        <5> QED
          BY <3>1, <3>3, <3>4, <5>1 DEF IsDue, Starts
      <4> QED
        BY <1>1, <3>1, <3>2, <3>3, <3>7, <4>1 DEF HeadInv, Awaited, Waiting
    <3>9. TailInv'
      <4>1. AtStart(s) => (AtStart(s))'
        BY <3>1, <3>2 DEF AtStart, Waiting
      <4>2. ASSUME pc["parent"] = "send", left > 0,
                   AtByte(s, Files[index], announced[Files[index]] - left + 1)
            PROVE  s # <<>>
        <5>1. SUFFICES ASSUME s = <<>> PROVE FALSE
          OBVIOUS
        <5>2. taking = Files[index] /\ a - left + 1 = a + 1
          BY <3>3, <3>4, <4>2, <5>1 DEF AtByte
        <5>3. left \in 0..MaxLength /\ MaxLength \in Nat
          BY Constants DEF DataTyped
        <5> QED
          BY <3>4, <4>2, <5>2, <5>3
      <4>3. \A f, k : s # <<>> /\ AtByte(s, f, k) => (AtByte(s, f, k))'
        BY <3>1 DEF AtByte
      <4>4. pc["parent"] = "send" /\ left > 0
               => AtByte(s, Files[index], announced[Files[index]] - left + 1)
        BY <1>1, <3>7 DEF TailInv
      <4>5. pc["parent"] = "send" /\ left > 0
               => (AtByte(s, Files[index], announced[Files[index]] - left + 1))'
        <5>1. PICK f, k : f = Files[index] /\ k = announced[Files[index]] - left + 1
          OBVIOUS
        <5>2. pc["parent"] = "send" /\ left > 0 => (AtByte(s, f, k))'
          BY <4>2, <4>3, <4>4, <5>1
        <5> QED
          BY <3>1, <5>1, <5>2 DEF AtByte
      <4> QED
        BY <1>1, <3>1, <3>2, <3>7, <4>1, <4>5 DEF TailInv, Waiting
    <3> QED
      BY <3>6, <3>8, <3>9
  <2>7. ~Incomplete
    BY DEF Incomplete, ChildFails, Goto, Alive, ControlTyped, Process
  <2> QED
    BY <1>3, <2>1, <2>2, <2>3, <2>4, <2>5, <2>6, <2>7 DEF Child
<1>4. ASSUME NEW p \in Process, CloseUnused(p)
      PROVE  (Chain(Stream) /\ HeadInv /\ TailInv)'
  <2>1. UNCHANGED <<content, out, left, index, announced, taking, rest, got>> /\ pc[p] = "unused"
        /\ pc' = [pc EXCEPT ![p] = "handshake"]
    BY <1>4 DEF CloseUnused, Goto, parent, child
  <2>2. \/ p = "parent" /\ pc'["parent"] = "handshake" /\ pc'["child"] = pc["child"]
        \/ p = "child" /\ pc'["child"] = "handshake" /\ pc'["parent"] = pc["parent"]
    BY <2>1 DEF ControlTyped, Process
  <2>3. pc["parent"] = "unused" => pc["child"] \in Waiting
    BY <1>1 DEF TailInv, Before
  <2> QED
    BY <1>1, <2>1, <2>2, <2>3, ChainSame, HeadSame, TailSame DEF Stream, Waiting, Before
<1>5. ASSUME NEW p \in Process, Kill(p)
      PROVE  (Chain(Stream) /\ HeadInv /\ TailInv)'
  <2>1. UNCHANGED <<content, out, left, index, announced, taking, rest, got>>
        /\ pc' = [pc EXCEPT ![p] = "killed"]
    BY <1>5 DEF Kill, Goto, parent, child
  <2>2. pc'["parent"] = "killed" /\ pc'["child"] = pc["child"]
    BY <2>1 DEF ControlTyped, Process, Alive
  <2> QED
    BY <1>1, <2>1, <2>2, ChainSame, HeadSame, TailSame DEF Stream, Late
<1>6. CASE Meet
  <2>1. UNCHANGED <<content, out, left, index, announced, taking, rest, got>>
    BY <1>6 DEF Meet, parent, child
  <2>2. /\ pc["parent"] \in Before /\ pc["child"] \in Waiting
        /\ pc'["parent"] \in Before /\ pc'["child"] \in Waiting
    BY <1>6 DEF Meet, Before, Waiting, Process
  <2> QED
    BY <1>1, <2>1, <2>2, ChainSame, HeadSame, TailSame DEF Stream
<1>7. CASE UNCHANGED vars \/ \E f \in ToSet(Files) : Truncate(f)
  <2>1. UNCHANGED <<content, out, left, index, announced, taking, rest, got, pc>>
    BY <1>7 DEF vars, Truncate, parent, child, pipes
  <2> QED
    BY <1>1, <2>1, ChainSame, HeadSame, TailSame DEF Stream
<1> QED
  BY <1>2, <1>3, <1>4, <1>5, <1>6, <1>7 DEF Next, Step

-----------------------------------------------------------------------------
(* The copies.                                                             *)

\* Nothing of a file.
LEMMA Nothing ==
    ASSUME NEW f \in Names
    PROVE  Bytes(f, 1, -1) = <<>> /\ \A a \in Nat : Bytes(f, a + 1, a) = <<>>
<1>1. ASSUME NEW a \in Int, NEW b \in Int, b < a PROVE Bytes(f, a, b) = <<>>
  <2>1. 1..(b - a + 1) = {}
    BY <1>1
  <2>2. Bytes(f, a, b) = [k \in {} |-> [kind |-> "data", file |-> f, n |-> a + k - 1]]
    BY <2>1 DEF Bytes
  <2>3. DOMAIN Bytes(f, a, b) = {}
    BY <2>2
  <2>4. Bytes(f, a, b) \in [1..0 -> Unit]
    <3>1. 1..0 = {}
      OBVIOUS
    <3> QED
      BY <2>2, <3>1
  <2>5. PICK s : s = Bytes(f, a, b) /\ s \in [1..0 -> Unit]
    BY <2>4
  <2>6. s \in Seq(Unit) /\ Len(s) = 0
    BY <2>5
  <2>7. s = <<>>
    BY <2>6
  <2> QED
    BY <2>5, <2>7
<1>2. -1 < 1 /\ \A a \in Nat : a < a + 1 /\ a + 1 \in Int
  OBVIOUS
<1> QED
  BY <1>1, <1>2

LEMMA EmptyPrefix ==
    ASSUME NEW f \in Names, NEW n \in -1..MaxLength, MaxLength \in Nat
    PROVE  IsPrefix(<<>>, Bytes(f, 1, n))
<1>1. CASE n = -1
  <2>1. Bytes(f, 1, n) = <<>>
    BY <1>1, Nothing
  <2>2. IsPrefix(<<>>, <<>>)
    BY DEF IsPrefix
  <2> QED
    BY <2>1, <2>2
<1>2. CASE n # -1
  <2>1. n \in Nat /\ n <= MaxLength /\ 0 \in Nat /\ 0 <= n /\ 0 + 1 = 1
    BY <1>2
  <2>2. Bytes(f, 1, 0) = <<>>
    <3>1. Bytes(f, 0 + 1, 0) = <<>>
      BY <2>1, Nothing
    <3> QED
      BY <2>1, <3>1
  <2> QED
    BY <2>1, <2>2, BytesPrefix
<1> QED
  BY <1>1, <1>2

\* Steps that leave the copies and what is announced alone.
LEMMA CopySame ==
    ASSUME CopyInv, UNCHANGED <<announced, copy>>,
           \/ pc'["child"] # "data"
           \/ pc["child"] = "data" /\ UNCHANGED <<taking, rest, got>>
    PROVE  CopyInv'
BY DEF CopyInv, CopiesArePrefixes, Position

LEMMA CopyName ==
    ASSUME PipeCopierAssumption, IInv, ReadName
    PROVE  CopyInv'
<1> USE DEF IInv, TypeInv
<1>0. UNCHANGED announced
  BY DEF ReadName, parent
<1>1. CASE Goto("child", "ended") /\ UNCHANGED copy
  <2>1. pc'["child"] = "ended"
    BY <1>1 DEF Goto, ControlTyped, Process
  <2> QED
    BY <1>0, <1>1, <2>1, CopySame
<1>2. ASSUME Goto("child", "data"),
             copy' = [copy EXCEPT ![Head(content["data"]).file] = [made |-> TRUE, bytes |-> <<>>]]
      PROVE  CopyInv'
  <2>1. /\ HasNext("data") /\ Take("data") /\ UNCHANGED <<out, rest, got>> /\ pc["child"] = "name"
    BY DEF ReadName, parent
  <2>2. PICK h \in Unit : h = Stream[1] /\ h = Head(content["data"]) /\ Stream # <<>>
    BY <2>1, TakeStream, StreamTyped
  <2>3. /\ taking' = h.file /\ h.file \in Names
        /\ copy' = [copy EXCEPT ![h.file] = [made |-> TRUE, bytes |-> <<>>]]
    BY <1>2, <2>2 DEF ReadName, Unit
  <2>4. rest = announced[h.file] /\ h.kind = "name" /\ got = <<>>
    BY <2>1, <2>2 DEF StreamInv, Alive, HeadInv, Awaited, StageInv
  <2>5. /\ copy'[h.file] = [made |-> TRUE, bytes |-> <<>>]
        /\ \A g \in Names \ {h.file} : copy'[g] = copy[g]
    BY <2>3 DEF DataTyped
  <2>6. \A f \in Names : announced[f] \in -1..MaxLength
    BY DEF DataTyped
  <2>7. announced[h.file] >= 0 /\ announced[h.file] \in Nat /\ MaxLength \in Nat
    <3>1. announced[h.file] = rest /\ rest \in 0..MaxLength /\ MaxLength \in Nat
      BY <2>4, Constants DEF DataTyped
    <3> QED
      BY <3>1
  <2>8. CopiesArePrefixes'
    <3> SUFFICES ASSUME NEW f \in Names
                 PROVE  IsPrefix(copy'[f].bytes, Bytes(f, 1, announced'[f]))
      BY DEF CopiesArePrefixes, Names
    <3>1. CASE f = h.file
      BY <1>0, <2>5, <2>6, <2>7, <3>1, EmptyPrefix
    <3>2. CASE f # h.file
      BY <1>0, <2>5, <3>2 DEF CopyInv, CopiesArePrefixes, Names
    <3> QED
      BY <3>1, <3>2
  <2>9. \A f \in Names : announced'[f] = -1 => copy'[f].bytes = <<>>
    BY <1>0, <2>5 DEF CopyInv
  <2>10. PICK a : a = announced[h.file] /\ a \in Nat
    BY <2>7
  <2>11. rest' = a /\ got' = <<>> /\ announced'[h.file] = a /\ Len(<<>>) = 0 /\ a - a = 0
         /\ a - a + 0 = 0 /\ 0 <= a /\ a <= a
    BY <1>0, <2>1, <2>4, <2>10
  <2>12. Position' = 0
    BY <2>3, <2>11 DEF Position
  <2>13. Bytes(h.file, 1, 0) = <<>> /\ Bytes(h.file, 0 + 1, 0) = <<>>
    <3>1. 0 \in Nat /\ 0 + 1 = 1
      OBVIOUS
    <3> QED
      BY <2>3, <3>1, Nothing
  <2>14. /\ announced'[taking'] >= 0 /\ rest' <= announced'[taking'] /\ Len(got') <= rest'
         /\ copy'[taking'] = [made |-> TRUE, bytes |-> Bytes(taking', 1, announced'[taking'] - rest')]
         /\ got' = Bytes(taking', announced'[taking'] - rest' + 1, Position')
    BY <2>3, <2>5, <2>11, <2>12, <2>13
  <2> QED
    BY <2>8, <2>9, <2>14 DEF CopyInv
<1> QED
  BY <1>1, <1>2 DEF ReadName, ChildFails

LEMMA CopyData ==
    ASSUME PipeCopierAssumption, IInv, ReadData
    PROVE  CopyInv'
<1> USE DEF IInv, TypeInv
<1>1. /\ HasNext("data") /\ Take("data") /\ pc["child"] = "data" /\ pc' = pc
      /\ UNCHANGED <<out, announced, taking, rest, copy>>
  BY DEF ReadData, parent
<1>2. PICK h \in Unit : h = Stream[1] /\ h = Head(content["data"]) /\ Stream # <<>>
  BY <1>1, TakeStream, StreamTyped
<1>3. PICK a, p, f : a = announced[taking] /\ p = Position /\ f = taking
  OBVIOUS
<1>4. /\ f \in Names /\ a \in 0..MaxLength /\ MaxLength \in Nat /\ rest \in 0..MaxLength
      /\ rest <= a /\ Len(got) \in Nat /\ got' = Append(got, h) /\ Len(got') = Len(got) + 1
      /\ p = a - rest + Len(got) /\ got = Bytes(f, a - rest + 1, p)
  <2>1. a >= 0 /\ rest <= a /\ got = Bytes(f, a - rest + 1, p)
    BY <1>1, <1>3 DEF CopyInv
  <2>2. f \in Names /\ a \in -1..MaxLength /\ MaxLength \in Nat /\ rest \in 0..MaxLength
    BY <1>3, Constants DEF DataTyped
  <2>3. got \in Seq(Unit) /\ got' = Append(got, h)
    BY <1>2 DEF ReadData, DataTyped
  <2>4. Len(got) \in Nat /\ Len(got') = Len(got) + 1
    BY <1>2, <2>3
  <2> QED
    BY <1>3, <2>1, <2>2, <2>3, <2>4 DEF Position
<1>5. Len(got) < rest
  <2>1. Len(got) < ChunkSize(rest) /\ Chunk \in Nat
    BY Constants DEF ReadData
  <2>2. ChunkSize(rest) \in Int /\ ChunkSize(rest) <= rest
    BY <1>4, <2>1 DEF ChunkSize
  <2> QED
    BY <1>4, <2>1, <2>2
<1>6. h = [kind |-> "data", file |-> f, n |-> p + 1]
  <2>1. IsDue(f, p + 1, h)
    BY <1>1, <1>2, <1>3 DEF StreamInv, Alive, HeadInv, Awaited
  <2>2. p + 1 <= announced[f]
    BY SMTT(30), <1>3, <1>4, <1>5
  <2> QED
    BY <2>1, <2>2 DEF IsDue
<1>7. PICK b : b = a - rest
  OBVIOUS
<1>8. b \in Nat /\ p \in Nat /\ b <= p /\ p + 1 <= MaxLength /\ p + 1 = a - rest + Len(got')
      /\ Len(got') <= rest
  BY <1>4, <1>5, <1>7
<1>9. got' = Bytes(f, b + 1, p + 1)
  <2>1. Append(Bytes(f, b + 1, p), [kind |-> "data", file |-> f, n |-> p + 1])
            = Bytes(f, b + 1, p + 1)
    <3>1. f \in Names /\ MaxLength \in Nat
      BY <1>4
    <3> QED
      BY <1>8, <3>1, BytesAppend
  <2>2. got' = Append(got, h) /\ got = Bytes(f, b + 1, p)
    BY <1>4, <1>7
  <2> QED
    BY <1>6, <2>1, <2>2, Zenon
<1>10. Position' = p + 1
  BY <1>1, <1>3, <1>8 DEF Position
<1>11. /\ announced'[taking'] >= 0 /\ rest' <= announced'[taking'] /\ Len(got') <= rest'
       /\ copy'[taking'] = [made |-> TRUE, bytes |-> Bytes(taking', 1, announced'[taking'] - rest')]
       /\ got' = Bytes(taking', announced'[taking'] - rest' + 1, Position')
  BY <1>1, <1>3, <1>7, <1>8, <1>9, <1>10 DEF CopyInv
<1>12. CopiesArePrefixes' /\ \A f1 \in Names : announced'[f1] = -1 => copy'[f1].bytes = <<>>
  BY <1>1 DEF CopyInv, CopiesArePrefixes
<1> QED
  BY <1>11, <1>12 DEF CopyInv

LEMMA CopyWritten ==
    ASSUME PipeCopierAssumption, IInv, WriteData
    PROVE  CopyInv'
<1> USE DEF IInv, TypeInv
<1>0. pc["child"] = "data" /\ UNCHANGED <<announced, taking>>
  BY DEF WriteData, parent
<1>1. CASE Goto("child", "ended") /\ UNCHANGED copy
  <2>1. pc'["child"] = "ended"
    BY <1>1 DEF Goto, ControlTyped, Process
  <2> QED
    BY <1>0, <1>1, <2>1, CopySame
<1>2. ASSUME copy' = [copy EXCEPT ![taking].bytes = @ \o got], got' = <<>>, rest' = rest - Len(got)
      PROVE  CopyInv'
  <2>1. PICK a, p, f, b : a = announced[taking] /\ p = Position /\ f = taking /\ b = a - rest
    OBVIOUS
  <2>2. /\ f \in Names /\ a \in 0..MaxLength /\ MaxLength \in Nat /\ rest \in 0..MaxLength
        /\ rest <= a /\ Len(got) \in Nat /\ Len(got) <= rest
        /\ p = a - rest + Len(got) /\ got = Bytes(f, b + 1, p)
        /\ copy[f] = [made |-> TRUE, bytes |-> Bytes(f, 1, b)]
    <3>1. /\ a >= 0 /\ rest <= a /\ Len(got) <= rest /\ got = Bytes(f, b + 1, p)
          /\ copy[f] = [made |-> TRUE, bytes |-> Bytes(f, 1, b)]
      BY <1>0, <2>1 DEF CopyInv
    <3>2. f \in Names /\ a \in -1..MaxLength /\ MaxLength \in Nat /\ rest \in 0..MaxLength
      BY <2>1, Constants DEF DataTyped
    <3>3. Len(got) \in Nat
      BY DEF DataTyped
    <3> QED
      BY <2>1, <3>1, <3>2, <3>3 DEF Position
  <2>3. /\ b \in Nat /\ p \in Nat /\ b <= p /\ p <= a /\ p <= MaxLength /\ a - rest' = p
        /\ rest' <= a /\ 0 <= rest' /\ p - p + 0 = 0 /\ a \in Nat /\ a <= MaxLength
    <3>1. rest' = rest - Len(got) /\ b = a - rest /\ p = a - rest + Len(got)
      BY <1>2, <2>1, <2>2
    <3>2. /\ a \in 0..MaxLength /\ MaxLength \in Nat /\ rest \in 0..MaxLength
          /\ rest <= a /\ Len(got) \in Nat /\ Len(got) <= rest
      BY <2>2
    <3>3. PICK n, q : n = Len(got) /\ q = rest'
      OBVIOUS
    <3>4. /\ b \in Nat /\ p \in Nat /\ b <= p /\ p <= a /\ p <= MaxLength /\ a - q = p
          /\ q <= a /\ 0 <= q /\ p - p + 0 = 0 /\ a \in Nat /\ a <= MaxLength
      BY <3>1, <3>2, <3>3
    <3> QED
      BY <3>3, <3>4
  <2>4. /\ copy'[f] = [made |-> TRUE, bytes |-> Bytes(f, 1, p)]
        /\ \A g \in Names \ {f} : copy'[g] = copy[g]
    <3>1. copy[f].bytes \o got = Bytes(f, 1, p)
      <4>1. copy[f].bytes = Bytes(f, 1, b)
        BY <2>2
      <4> QED
        BY <2>2, <2>3, <4>1, BytesConcat
    <3>2. copy' = [copy EXCEPT ![f].bytes = Bytes(f, 1, p)]
      BY <1>2, <2>1, <3>1
    <3>3. copy'[f] = [copy[f] EXCEPT !.bytes = Bytes(f, 1, p)]
      BY <2>2, <3>2 DEF DataTyped
    <3>4. PICK x : x = Bytes(f, 1, p)
      OBVIOUS
    <3>5. copy'[f] = [made |-> TRUE, bytes |-> x]
      <4>1. PICK y, z : y = copy[f] /\ z = Bytes(f, 1, b)
        OBVIOUS
      <4>2. y = [made |-> TRUE, bytes |-> z] /\ copy'[f] = [y EXCEPT !.bytes = x]
        BY <2>2, <3>3, <3>4, <4>1
      <4> QED
        BY <4>2
    <3> QED
      BY <2>2, <3>2, <3>4, <3>5 DEF DataTyped
  <2>5. CopiesArePrefixes'
    <3> SUFFICES ASSUME NEW g \in Names
                 PROVE  IsPrefix(copy'[g].bytes, Bytes(g, 1, announced'[g]))
      BY DEF CopiesArePrefixes, Names
    <3>1. CASE g = f
      <4>1. copy'[f].bytes = Bytes(f, 1, p) /\ announced'[f] = a
        BY <1>0, <2>1, <2>4
      <4>2. IsPrefix(Bytes(f, 1, p), Bytes(f, 1, a))
        BY <2>2, <2>3, BytesPrefix
      <4> QED
        BY <3>1, <4>1, <4>2
    <3>2. CASE g # f
      BY <1>0, <2>4, <3>2 DEF CopyInv, CopiesArePrefixes, Names
    <3> QED
      BY <3>1, <3>2
  <2>6. \A g \in Names : announced'[g] = -1 => copy'[g].bytes = <<>>
    BY <1>0, <2>1, <2>3, <2>4 DEF CopyInv
  <2>7. Position' = p /\ got' = Bytes(f, p + 1, p) /\ Len(got') = 0
    <3>1. Len(<<>>) = 0 /\ p + 0 = p
      BY <2>3
    <3>2. Bytes(f, p + 1, p) = <<>>
      BY <2>2, <2>3, Nothing
    <3> QED
      BY <1>0, <1>2, <2>1, <2>3, <3>1, <3>2 DEF Position
  <2>8. /\ announced'[taking'] >= 0 /\ rest' <= announced'[taking'] /\ Len(got') <= rest'
        /\ copy'[taking'] = [made |-> TRUE, bytes |-> Bytes(taking', 1, announced'[taking'] - rest')]
        /\ got' = Bytes(taking', announced'[taking'] - rest' + 1, Position')
    <3>1. taking' = f /\ announced'[f] = a /\ a >= 0 /\ a - rest' = p
      BY <1>0, <2>1, <2>3
    <3>2. Len(got') <= rest' /\ rest' <= a
      BY <2>3, <2>7
    <3>3. announced'[taking'] - rest' = p
      BY <3>1, Zenon
    <3>4. copy'[taking'] = [made |-> TRUE, bytes |-> Bytes(taking', 1, announced'[taking'] - rest')]
      BY <2>4, <3>1, <3>3, Zenon
    <3>5. got' = Bytes(taking', announced'[taking'] - rest' + 1, Position')
      BY <2>7, <3>1, <3>3, Zenon
    <3> QED
      BY <3>1, <3>2, <3>4, <3>5
  <2> QED
    BY <2>5, <2>6, <2>8 DEF CopyInv
<1> QED
  BY <1>1, <1>2 DEF WriteData, ChildFails

LEMMA CopyStep == ASSUME PipeCopierAssumption, IInv, [Next]_vars PROVE CopyInv'
<1> USE DEF IInv, TypeInv
<1>1. CASE Child
  <2>1. CASE SayReady \/ ReadHeader \/ Received \/ Incomplete
    <3>1. UNCHANGED <<announced, copy>>
      BY <2>1 DEF SayReady, ReadHeader, Received, Incomplete, parent, child
    <3>2. \E w \in {"header", "name", "ended", "killed"} : Goto("child", w)
      BY <2>1 DEF SayReady, ReadHeader, Received, Incomplete, ChildFails
    <3>3. pc'["child"] # "data"
      BY <3>2 DEF Goto, ControlTyped, Process
    <3> QED
      BY <3>1, <3>3, CopySame
  <2> QED
    BY <1>1, <2>1, CopyName, CopyData, CopyWritten DEF Child
<1>2. CASE Parent
  <2>0. UNCHANGED <<taking, rest, got, copy>> /\ (pc'["child"] = pc["child"] \/ Fork)
    BY <1>2, ParentEffect
  <2>1. CASE NextFile /\ length[Files[index]] # -1
    <3>1. PICK f \in Names : f = Files[index] /\ announced[f] = -1
      <4>1. index <= Len(Files) /\ pc["parent"] = "next"
        BY <2>1 DEF NextFile
      <4>2. index \in 1..Len(Files)
        BY <4>1, Constants DEF DataTyped
      <4> QED
        BY <4>1, <4>2, Constants DEF AnnouncedInv
    <3>2. announced' = [announced EXCEPT ![f] = length[f]] /\ Goto("parent", "send")
      BY <2>1, <3>1 DEF NextFile
    <3>3. /\ pc'["child"] = pc["child"] /\ \A g \in Names \ {f} : announced'[g] = announced[g]
          /\ announced'[f] \in -1..MaxLength /\ announced'[f] # -1 /\ MaxLength \in Nat
      <4>1. announced'[f] = length[f] /\ length[f] \in -1..MaxLength
        BY <3>1, <3>2 DEF DataTyped, ControlTyped
      <4> QED
        BY <2>1, <3>1, <3>2, <4>1, Constants DEF DataTyped, ControlTyped, Goto, Process
    <3>4. copy[f].bytes = <<>>
      BY <3>1 DEF CopyInv
    <3>5. CopiesArePrefixes'
      <4> SUFFICES ASSUME NEW g \in Names
                   PROVE  IsPrefix(copy'[g].bytes, Bytes(g, 1, announced'[g]))
        BY DEF CopiesArePrefixes, Names
      <4>1. CASE g = f
        BY <2>0, <3>3, <3>4, <4>1, EmptyPrefix
      <4>2. CASE g # f
        BY <2>0, <3>3, <4>2 DEF CopyInv, CopiesArePrefixes, Names
      <4> QED
        BY <4>1, <4>2
    <3>6. \A g \in Names : announced'[g] = -1 => copy'[g].bytes = <<>>
      BY <2>0, <3>3 DEF CopyInv
    <3>7. pc["child"] = "data" => announced'[taking] = announced[taking]
      <4>1. pc["child"] = "data" => announced[taking] # -1
        BY DEF CopyInv
      <4> QED
        BY <3>1, <3>3, <4>1 DEF DataTyped
    <3> QED
      BY <2>0, <3>3, <3>5, <3>6, <3>7 DEF CopyInv, Position
  <2>2. CASE ~(NextFile /\ length[Files[index]] # -1)
    <3>1. UNCHANGED announced
      BY <1>2, <2>2 DEF Parent, Create, CreateReady, Fork, AwaitReady, NextFile, Finish, Write,
             ReadFile, Written, Close, WaitChild, RemoveFifo, parent
    <3>2. Fork => pc'["child"] = pc["child"] \/ pc'["child"] # "data"
      BY DEF Fork, Goto, ControlTyped, Process
    <3> QED
      BY <2>0, <3>1, <3>2, CopySame
  <2> QED
    BY <2>1, <2>2
<1>3. CASE (\E p \in Process : CloseUnused(p) \/ Kill(p)) \/ Meet \/ UNCHANGED vars
           \/ \E f \in ToSet(Files) : Truncate(f)
  <2>1. UNCHANGED <<announced, copy, taking, rest, got>>
    BY <1>3 DEF CloseUnused, Kill, Meet, vars, Truncate, parent, child
  <2>2. pc'["child"] = pc["child"] \/ pc'["child"] # "data"
    <3>1. ASSUME NEW p \in Process, CloseUnused(p) \/ Kill(p)
          PROVE  pc'["child"] = pc["child"] \/ pc'["child"] # "data"
      BY <3>1 DEF CloseUnused, Kill, Goto, ControlTyped, Process
    <3>2. Meet => pc'["child"] # "data"
      BY DEF Meet, Process
    <3>3. UNCHANGED vars \/ (\E f \in ToSet(Files) : Truncate(f)) => pc' = pc
      BY DEF vars, Truncate
    <3> QED
      BY <1>3, <3>1, <3>2, <3>3
  <2> QED
    BY <2>1, <2>2, CopySame
<1> QED
  BY <1>1, <1>2, <1>3 DEF Next, Step

-----------------------------------------------------------------------------
(* What is announced is copied or under way.                               *)

\* The parent only adds to the stream.
LEMMA Extends ==
    ASSUME PipeCopierAssumption, IInv, Parent
    PROVE  \A i \in 1..Len(Stream) : i \in 1..Len(Stream') /\ Stream'[i] = Stream[i]
<1> USE DEF IInv, TypeInv
<1>1. Stream' = Stream => \A i \in 1..Len(Stream) : i \in 1..Len(Stream') /\ Stream'[i] = Stream[i]
  OBVIOUS
<1>2. CASE NextFile \/ Finish \/ (ReadFile /\ pc' = pc)
  <2>1. out = <<>> /\ content' = content
    BY <1>2 DEF NextFile, Finish, ReadFile, StageInv, pipes
  <2>2. PICK t \in Seq(Unit) : t = out'
    BY TypeStep DEF Next, Step, DataTyped
  <2>3. /\ Len(Stream') = Len(Stream) + Len(t)
        /\ \A i \in 1..Len(Stream) : Stream'[i] = Stream[i]
    BY <2>1, <2>2, FillStream
  <2>4. Len(t) \in Nat /\ Len(Stream) \in Nat
    BY <2>2, StreamTyped
  <2>5. PICK m, n : m = Len(Stream) /\ n = Len(Stream')
    OBVIOUS
  <2>6. \A i \in 1..m : i \in 1..n
    BY <2>3, <2>4, <2>5
  <2> QED
    BY <2>3, <2>5, <2>6
<1>3. CASE Write
  <2>1. CASE Put("data", Head(out)) /\ out' = Tail(out)
    <3>1. out # <<>>
      BY <1>3 DEF Write
    <3> QED
      BY <1>1, <2>1, <3>1, MoveStream
  <2> QED
    BY <1>1, <1>3, <2>1 DEF Write, Stream
<1>4. CASE AwaitReady
  <2>1. out' = out /\ content'["data"] = content["data"]
    BY <1>4 DEF AwaitReady, parent, Take, ContentTyped, Pipe
  <2> QED
    BY <1>1, <2>1 DEF Stream
<1>5. CASE Create \/ CreateReady \/ Fork \/ Close \/ WaitChild \/ RemoveFifo \/ Written
           \/ (ReadFile /\ pc' # pc)
  <2>1. UNCHANGED <<content, out>>
    BY <1>5 DEF Create, CreateReady, Fork, Close, WaitChild, RemoveFifo, Written, ReadFile, pipes,
           parent
  <2> QED
    BY <1>1, <2>1 DEF Stream
<1> QED
  BY <1>2, <1>3, <1>4, <1>5 DEF Parent

UnderWayOrDone == \A f \in Names : announced[f] >= 0 => Copied(f) \/ UnderWay(f)

\* A step that keeps the headers of the stream, and the child where it is.
LEMMA DoneSame ==
    ASSUME UnderWayOrDone, Alive, Alive', UNCHANGED <<announced, copy>>,
           \A i \in 1..Len(Stream) : i \in 1..Len(Stream') /\ Stream'[i] = Stream[i],
           pc["child"] = "name" => Stream # <<>> /\ Stream \in Seq(Unit),
           \/ pc'["child"] = pc["child"] /\ taking' = taking
           \/ pc["child"] \in Waiting
    PROVE  UnderWayOrDone'
<1> SUFFICES ASSUME NEW f \in Names, announced[f] >= 0 PROVE (Copied(f) \/ UnderWay(f))'
  BY DEF UnderWayOrDone
<1>1. Copied(f) \/ UnderWay(f)
  BY DEF UnderWayOrDone
<1>2. Copied(f) => Copied(f)'
  BY DEF Copied
<1>3. (\E i \in 1..Len(Stream) : Stream[i].kind = "file" /\ Stream[i].file = f) => UnderWay(f)'
  BY DEF UnderWay
<1>4. CASE pc["child"] = "name" /\ Stream[1].file = f
  <2>1. pc'["child"] = "name"
    BY <1>4 DEF Waiting
  <2>2. 1 \in 1..Len(Stream)
    BY <1>4
  <2>3. Stream'[1] = Stream[1]
    BY <2>2
  <2> QED
    BY <1>4, <2>1, <2>3 DEF UnderWay
<1>5. CASE pc["child"] = "data" /\ taking = f
  BY <1>5 DEF UnderWay, Waiting
<1> QED
  BY <1>1, <1>2, <1>3, <1>4, <1>5 DEF UnderWay

\* The child after its header and its name, and after the last message.
LEMMA DoneTake ==
    ASSUME TypeInv, HasNext("data"), Take("data"), UNCHANGED <<out, announced>>, UnderWayOrDone,
           Stream[1].kind # "file", Alive', NEW g \in Names,
           \A f \in Names \ {g} : copy'[f] = copy[f],
           pc["child"] = "data" => taking = g, pc["child"] = "name" => Stream[1].file = g,
           (UnderWay(g))'
    PROVE  UnderWayOrDone'
<1> SUFFICES ASSUME NEW f \in Names \ {g}, announced[f] >= 0 PROVE (Copied(f) \/ UnderWay(f))'
  BY DEF UnderWayOrDone
<1>1. Copied(f) => Copied(f)'
  BY DEF Copied
<1>2. ASSUME NEW i \in 1..Len(Stream), Stream[i].kind = "file", Stream[i].file = f
      PROVE  UnderWay(f)'
  <2>1. PICK n : n = Len(Stream) /\ n \in Nat /\ Len(Stream') = n - 1
                 /\ \A k \in 1..(n - 1) : Stream'[k] = Stream[k + 1]
    BY StreamTyped, TakeStream
  <2>2. i # 1
    BY <1>2
  <2>3. PICK k : k = i - 1
    OBVIOUS
  <2>4. k \in 1..(n - 1) /\ k + 1 = i
    BY <2>1, <2>2, <2>3
  <2>5. Stream'[k] = Stream[i] /\ k \in 1..Len(Stream')
    BY <2>1, <2>4
  <2> QED
    BY <1>2, <2>5 DEF UnderWay
<1>3. Copied(f) \/ UnderWay(f)
  BY DEF UnderWayOrDone
<1> QED
  BY <1>1, <1>2, <1>3 DEF UnderWay

LEMMA ChildDone ==
    ASSUME PipeCopierAssumption, IInv, Child
    PROVE  DoneInv'
<1> USE DEF IInv, TypeInv
<1>0. /\ UNCHANGED <<out, announced, index, left>> /\ pc'["parent"] = pc["parent"]
      /\ Alive
  <2>1. Alive
    BY DEF Child, SayReady, ReadHeader, ReadName, ReadData, WriteData, Received, Incomplete, Alive
  <2> QED
    BY <2>1, ChildEffect
<1>1. UnderWayOrDone /\ Chain(Stream) /\ HeadInv /\ TailInv
  BY <1>0 DEF DoneInv, UnderWayOrDone, StreamInv
<1>2. ASSUME ~Alive', pc'["child"] = "ended" => ~result'["child"] PROVE DoneInv'
  BY <1>2 DEF DoneInv
<1>3. ASSUME Alive', UnderWayOrDone' PROVE DoneInv'
  BY <1>3 DEF DoneInv, UnderWayOrDone, Alive
<1>4. CASE ChildFails
  <2>1. pc'["child"] = "ended" /\ Fail("child")
    BY <1>4 DEF ChildFails, Goto, ControlTyped, Process
  <2> QED
    BY <1>2, <2>1, Failed DEF Alive, Process
<1>5. CASE SayReady
  <2>1. CASE Goto("child", "killed")
    <3>1. pc'["child"] = "killed"
      BY <2>1 DEF Goto, ControlTyped, Process
    <3> QED
      BY <1>2, <3>1 DEF Alive
  <2>2. CASE Goto("child", "header") /\ Put("ready", [kind |-> "ready", file |-> Files[1], n |-> 0])
    <3>1. pc'["child"] = "header" /\ content'["data"] = content["data"] /\ pc["child"] = "handshake"
      BY <1>5, <2>2 DEF SayReady, Goto, Put, ControlTyped, ContentTyped, Process, Pipe
    <3>2. Stream' = Stream /\ copy' = copy
      BY <1>0, <1>5, <3>1 DEF Stream, SayReady, child
    <3>3. Alive' /\ pc["child"] \in Waiting
      BY <3>1 DEF Alive, Waiting
    <3>4. /\ \A i \in 1..Len(Stream) : i \in 1..Len(Stream') /\ Stream'[i] = Stream[i]
          /\ pc["child"] # "name"
      BY <3>1, <3>2
    <3>5. UnderWayOrDone'
      BY <1>0, <1>1, <3>2, <3>3, <3>4, DoneSame
    <3> QED
      BY <1>3, <3>3, <3>5
  <2> QED
    BY <1>5, <2>1, <2>2 DEF SayReady
<1>6. CASE ReadHeader
  <2>1. /\ HasNext("data") /\ Take("data") /\ pc["child"] = "header" /\ copy' = copy
    BY <1>6 DEF ReadHeader
  <2>2. PICK h \in Unit : h = Stream[1] /\ h = Head(content["data"]) /\ Stream # <<>>
    BY <1>0, <2>1, TakeStream, StreamTyped
  <2>3. PICK n : n = Len(Stream) /\ n \in Nat /\ Len(Stream') = n - 1 /\ 1 \in 1..n
                 /\ \A k \in 1..(n - 1) : Stream'[k] = Stream[k + 1]
    BY <1>0, <2>1, <2>2, StreamTyped, TakeStream
  <2>4. (Stream' # <<>> => Follows(h, Stream'[1])) /\ (Stream' = <<>> => Stream[n] = h)
    BY <1>0, <1>1, <2>1, <2>2, <2>3, TakeChain
  <2>5. CASE h.kind = "finish" /\ Goto("child", "ended") /\ UNCHANGED result
    <3>1. Stream' = <<>>
      BY <2>4, <2>5 DEF Follows
    <3>2. n = 1
      <4>1. Len(<<>>) = 0
        OBVIOUS
      <4>2. n - 1 = 0
        BY <2>3, <3>1, <4>1
      <4>3. n \in Nat
        BY <2>3
      <4> QED
        BY <4>2, <4>3
    <3>3. pc'["child"] = "ended" /\ pc["parent"] \in Late
      BY <1>1, <2>2, <2>3, <2>5 DEF Goto, ControlTyped, Process, TailInv
    <3>4. ASSUME NEW f \in Names, announced[f] >= 0 PROVE Copied(f)'
      <4>1. ~UnderWay(f)
        <5>1. \A i \in 1..Len(Stream) : i = 1
          BY <2>3, <3>2
        <5> QED
          BY <2>1, <2>2, <2>5, <5>1 DEF UnderWay
      <4>2. Copied(f)
        BY <1>1, <3>4, <4>1 DEF UnderWayOrDone
      <4> QED
        BY <1>0, <2>1, <4>2 DEF Copied
    <3> QED
      BY <1>0, <3>3, <3>4 DEF DoneInv, Alive
  <2>6. CASE h.kind = "file" /\ Goto("child", "name")
    <3>1. pc'["child"] = "name" /\ Alive'
      BY <2>6 DEF Goto, ControlTyped, Process, Alive
    <3>2. Stream' # <<>> /\ Stream'[1].file = h.file
      <4>1. Stream' # <<>>
        BY <1>1, <2>2, <2>3, <2>4, <2>6 DEF Chain
      <4>2. PICK v : v = Stream'[1] /\ Follows(h, v)
        BY <2>4, <4>1
      <4>3. v.file = h.file
        BY <2>6, <4>2 DEF Follows
      <4> QED
        BY <4>1, <4>2, <4>3
    <3>3. ASSUME NEW f \in Names, announced'[f] >= 0 PROVE (Copied(f) \/ UnderWay(f))'
      <4>1. Copied(f) => Copied(f)'
        BY <1>0, <2>1 DEF Copied
      <4>2. ASSUME NEW i \in 1..Len(Stream), Stream[i].kind = "file", Stream[i].file = f
            PROVE  UnderWay(f)'
        <5>1. CASE i = 1
          BY <2>2, <3>1, <3>2, <4>2, <5>1 DEF UnderWay
        <5>2. CASE i # 1
          <6>1. PICK k : k = i - 1
            OBVIOUS
          <6>2. k \in 1..(n - 1) /\ k + 1 = i
            BY <2>3, <5>2, <6>1
          <6>3. Stream'[k] = Stream[i] /\ k \in 1..Len(Stream')
            BY <2>3, <6>2
          <6> QED
            BY <3>1, <4>2, <6>3 DEF UnderWay
        <5> QED
          BY <5>1, <5>2
      <4> QED
        BY <1>0, <1>1, <2>1, <3>3, <4>1, <4>2 DEF UnderWayOrDone, UnderWay
    <3> QED
      BY <1>3, <3>1, <3>3 DEF UnderWayOrDone
  <2> QED
    BY <1>6, <2>2, <2>5, <2>6 DEF ReadHeader
<1>7. CASE ReadName /\ ~ChildFails
  <2>1. /\ HasNext("data") /\ Take("data") /\ pc["child"] = "name" /\ Goto("child", "data")
        /\ copy' = [copy EXCEPT ![Head(content["data"]).file] = [made |-> TRUE, bytes |-> <<>>]]
        /\ taking' = Head(content["data"]).file
    BY <1>7 DEF ReadName
  <2>2. PICK h \in Unit : h = Stream[1] /\ h = Head(content["data"]) /\ Stream # <<>>
    BY <1>0, <2>1, TakeStream, StreamTyped
  <2>3. PICK g \in Names : g = h.file
    BY DEF Unit
  <2>4. \A f \in Names \ {g} : copy'[f] = copy[f]
    BY <2>1, <2>2, <2>3 DEF DataTyped
  <2>5. pc'["child"] = "data" /\ taking' = g /\ Alive'
    BY <2>1, <2>2, <2>3 DEF Goto, ControlTyped, Process, Alive
  <2>6. Stream[1].kind # "file"
    BY <1>1, <2>1, <2>2 DEF HeadInv, Awaited
  <2>7. (UnderWay(g))'
    BY <2>5 DEF UnderWay
  <2>8. UnderWayOrDone'
    BY <1>0, <1>1, <2>1, <2>2, <2>3, <2>4, <2>5, <2>6, <2>7, DoneTake
  <2> QED
    BY <1>3, <2>5, <2>8
<1>8. CASE ReadData
  <2>1. /\ HasNext("data") /\ Take("data") /\ pc["child"] = "data" /\ pc' = pc
        /\ UNCHANGED <<copy, taking>> /\ rest > 0 /\ Len(got) < ChunkSize(rest)
    BY <1>8 DEF ReadData
  <2>2. PICK h \in Unit : h = Stream[1] /\ Stream # <<>>
    BY <1>0, <2>1, TakeStream, StreamTyped
  <2>3. h.kind # "file"
    <3>1. PICK a : a = announced[taking] /\ a \in Nat /\ rest \in Nat /\ rest <= a
      BY <2>1, Constants DEF CopyInv, DataTyped
    <3>2. Len(got) < rest /\ Len(got) \in Nat
      <4>1. Chunk \in Nat /\ Len(got) \in Nat
        BY Constants DEF DataTyped
      <4>2. ChunkSize(rest) \in Int /\ ChunkSize(rest) <= rest
        BY <3>1, <4>1 DEF ChunkSize
      <4> QED
        BY <2>1, <3>1, <4>1, <4>2
    <3>3. Position + 1 <= a
      <4>1. a - rest + Len(got) + 1 <= a
        BY <3>1, <3>2
      <4> QED
        BY <3>1, <4>1 DEF Position
    <3>4. IsDue(taking, Position + 1, h)
      BY <1>1, <2>1, <2>2 DEF HeadInv, Awaited
    <3> QED
      BY <3>1, <3>3, <3>4 DEF IsDue
  <2>4. taking \in Names /\ Alive' /\ (UnderWay(taking))'
    BY <2>1, <1>0 DEF DataTyped, UnderWay, Alive
  <2>5. PICK g \in Names : g = taking /\ (UnderWay(g))'
    BY <2>1, <2>4 DEF UnderWay
  <2>6. UnderWayOrDone'
    BY <1>0, <1>1, <2>1, <2>2, <2>3, <2>4, <2>5, DoneTake
  <2> QED
    BY <1>3, <2>4, <2>6
<1>9. CASE WriteData /\ ~ChildFails
  <2>1. /\ pc' = pc /\ pc["child"] = "data" /\ UNCHANGED <<content, taking>>
        /\ copy' = [copy EXCEPT ![taking].bytes = @ \o got]
    BY <1>9 DEF WriteData
  <2>2. Stream' = Stream /\ Alive' /\ taking \in Names
    BY <1>0, <2>1 DEF Stream, Alive, DataTyped
  <2>3. \A f \in Names \ {taking} : copy'[f] = copy[f]
    BY <2>1 DEF DataTyped
  <2>4. ASSUME NEW f \in Names, announced'[f] >= 0 PROVE (Copied(f) \/ UnderWay(f))'
    <3>1. CASE f = taking
      BY <2>1, <3>1 DEF UnderWay
    <3>2. CASE f # taking
      <4>1. Copied(f) => Copied(f)'
        BY <1>0, <2>3, <3>2 DEF Copied
      <4>2. UnderWay(f) => UnderWay(f)'
        BY <2>1, <2>2 DEF UnderWay
      <4> QED
        BY <1>0, <1>1, <2>4, <4>1, <4>2 DEF UnderWayOrDone
    <3> QED
      BY <3>1, <3>2
  <2> QED
    BY <1>3, <2>2, <2>4 DEF UnderWayOrDone
<1>10. CASE Received
  <2>1. /\ pc["child"] = "data" /\ rest <= 0 /\ UNCHANGED <<content, copy, taking>>
        /\ pc' = [pc EXCEPT !["child"] = "header"]
    BY <1>10 DEF Received, Goto, pipes, child
  <2>2. Stream' = Stream /\ Alive' /\ pc'["child"] = "header"
    BY <1>0, <2>1 DEF Stream, Alive, ControlTyped, Process
  <2>3. Copied(taking)
    <3>1. PICK a : a = announced[taking] /\ a \in Nat /\ rest \in Nat
      BY <2>1, Constants DEF CopyInv, DataTyped
    <3>2. a - rest = a
      BY <2>1, <3>1
    <3> QED
      BY <2>1, <3>1, <3>2 DEF CopyInv, Copied
  <2>4. ASSUME NEW f \in Names, announced'[f] >= 0 PROVE (Copied(f) \/ UnderWay(f))'
    <3>1. Copied(f) => Copied(f)'
      BY <1>0, <2>1 DEF Copied
    <3>2. UnderWay(f) => f = taking \/ UnderWay(f)'
      BY <2>1, <2>2 DEF UnderWay
    <3> QED
      BY <1>0, <1>1, <2>3, <2>4, <3>1, <3>2 DEF UnderWayOrDone
  <2> QED
    BY <1>3, <2>2, <2>4 DEF UnderWayOrDone
<1>11. CASE Incomplete
  BY <1>4, <1>11 DEF Incomplete
<1> QED
  BY <1>4, <1>5, <1>6, <1>7, <1>8, <1>9, <1>10, <1>11 DEF Child

LEMMA ParentDone ==
    ASSUME PipeCopierAssumption, IInv, Parent
    PROVE  DoneInv'
<1> USE DEF IInv, TypeInv
<1>0. /\ UNCHANGED <<taking, rest, got, copy>> /\ (pc'["child"] = pc["child"] \/ Fork)
      /\ result'["child"] = result["child"]
      /\ Fork => pc["child"] = "none" /\ pc'["child"] \in {"none", "unused", "open data"}
  <2>1. Fork => pc["child"] = "none" /\ pc'["child"] \in {"none", "unused", "open data"}
    BY DEF Fork, StageInv, Goto, ControlTyped, Process
  <2> QED
    BY <2>1, ParentEffect
<1>1. Alive' => Alive
  BY StaysOver DEF Next, Step
<1>2. \A i \in 1..Len(Stream) : i \in 1..Len(Stream') /\ Stream'[i] = Stream[i]
  BY Extends
<1>3. \/ pc'["child"] = pc["child"] /\ taking' = taking
      \/ pc["child"] \in Waiting
  BY <1>0 DEF Waiting
<1>4. Alive => UnderWayOrDone /\ HeadInv /\ TailInv /\ Stream \in Seq(Unit)
  BY StreamTyped DEF DoneInv, UnderWayOrDone, StreamInv
<1>5. pc["child"] = "name" => Stream # <<>>
  BY <1>4 DEF HeadInv, Alive
<1>6. CASE NextFile /\ length[Files[index]] # -1
  <2>1. PICK f \in Names : f = Files[index] /\ announced[f] = -1 /\ pc["parent"] = "next" /\ out = <<>>
    <3>1. index <= Len(Files) /\ pc["parent"] = "next"
      BY <1>6 DEF NextFile
    <3>2. index \in 1..Len(Files)
      BY <3>1, Constants DEF DataTyped
    <3> QED
      BY <3>1, <3>2, Constants DEF AnnouncedInv, StageInv
  <2>2. /\ announced' = [announced EXCEPT ![f] = length[f]] /\ Goto("parent", "send")
        /\ content' = content
    BY <1>6, <2>1 DEF NextFile, pipes
  <2>3. pc'["child"] = pc["child"] /\ \A g \in Names \ {f} : announced'[g] = announced[g]
    BY <2>2 DEF DataTyped, Goto, ControlTyped, Process
  <2>4. ~(pc["child"] = "ended" /\ result["child"])
    BY <2>1 DEF DoneInv, Late
  <2>5. ASSUME Alive' PROVE UnderWayOrDone'
    <3> SUFFICES ASSUME NEW g \in Names, announced'[g] >= 0 PROVE (Copied(g) \/ UnderWay(g))'
      BY DEF UnderWayOrDone
    <3>1. CASE g = f
      <4>1. PICK t \in Seq(Unit) : t = out'
        BY TypeStep DEF Next, Step, DataTyped
      <4>2. /\ Len(Stream') = Len(Stream) + Len(t)
            /\ \A i \in 1..Len(t) : Stream'[Len(Stream) + i] = t[i]
        BY <2>1, <2>2, <4>1, FillStream
      <4>3. t = <<[kind |-> "file", file |-> f, n |-> length[f]],
                  [kind |-> "name", file |-> f, n |-> 0]>>
        BY <1>6, <2>1, <4>1 DEF NextFile
      <4>4. Len(t) = 2 /\ t[1].kind = "file" /\ t[1].file = f
        <5>1. PICK u, v : /\ u = [kind |-> "file", file |-> f, n |-> length[f]]
                          /\ v = [kind |-> "name", file |-> f, n |-> 0]
          OBVIOUS
        <5>2. t = <<u, v>>
          BY <4>3, <5>1
        <5>3. Len(t) = 2 /\ t[1] = u
          BY <5>2
        <5> QED
          BY <5>1, <5>3
      <4>5. PICK m \in Nat : m = Len(Stream)
        BY StreamTyped
      <4>6. 1 \in 1..Len(t) /\ m + 1 \in 1..(m + 2)
        BY <4>4
      <4>7. Stream'[m + 1] = t[1] /\ m + 1 \in 1..Len(Stream')
        BY <4>2, <4>4, <4>5, <4>6
      <4> QED
        BY <2>5, <3>1, <4>4, <4>7 DEF UnderWay
    <3>2. CASE g # f
      <4>1. announced[g] >= 0 /\ announced'[g] = announced[g]
        BY <2>3, <3>2
      <4>2. Copied(g) \/ UnderWay(g)
        BY <1>1, <1>4, <2>5, <4>1 DEF UnderWayOrDone
      <4>3. Copied(g) => Copied(g)'
        BY <1>0, <4>1 DEF Copied
      <4>4. CASE \E i \in 1..Len(Stream) : Stream[i].kind = "file" /\ Stream[i].file = g
        BY <1>2, <2>5, <4>4 DEF UnderWay
      <4>5. CASE pc["child"] = "name" /\ Stream[1].file = g
        <5>1. 1 \in 1..Len(Stream)
          BY <1>5, <4>5, StreamTyped
        <5> QED
          BY <1>2, <2>3, <4>5, <5>1 DEF UnderWay
      <4>6. CASE pc["child"] = "data" /\ taking = g
        BY <1>0, <2>3, <4>6 DEF UnderWay
      <4> QED
        BY <4>2, <4>3, <4>4, <4>5, <4>6 DEF UnderWay
    <3> QED
      BY <3>1, <3>2
  <2> QED
    BY <1>0, <2>3, <2>4, <2>5 DEF DoneInv, UnderWayOrDone
<1>7. CASE ~(NextFile /\ length[Files[index]] # -1)
  <2>1. UNCHANGED announced
    BY <1>7 DEF Parent, Create, CreateReady, Fork, AwaitReady, NextFile, Finish, Write,
           ReadFile, Written, Close, WaitChild, RemoveFifo, parent
  <2>2. ASSUME Alive' PROVE UnderWayOrDone'
    <3>1. Alive
      BY <1>1, <2>2
    <3> QED
      BY <1>0, <1>2, <1>3, <1>4, <1>5, <2>1, <2>2, <3>1, DoneSame
  <2>3. ASSUME pc'["child"] = "ended", result'["child"]
        PROVE  /\ pc'["parent"] \in Late
               /\ \A f \in Names : announced'[f] >= 0 => Copied(f)'
    <3>1. pc["child"] = "ended" /\ result["child"]
      BY <1>0, <2>3
    <3>2. pc["parent"] \in Late /\ \A f \in Names : announced[f] >= 0 => Copied(f)
      BY <3>1 DEF DoneInv
    <3>3. \A f \in Names : announced'[f] >= 0 => Copied(f)'
      BY <1>0, <2>1, <3>2 DEF Copied
    <3>4. Written => pc'["parent"] = "close"
      BY <3>2 DEF Written, Goto, ControlTyped, Process, Late
    <3>5. Write => pc'["parent"] \in {pc["parent"], "killed"}
      BY DEF Write, Goto, ControlTyped, Process
    <3>6. ~AwaitReady /\ ~NextFile /\ ~Finish /\ ~ReadFile
      BY <3>2 DEF AwaitReady, NextFile, Finish, ReadFile, Late
    <3>7. pc'["parent"] \in Late
      BY <3>2, <3>4, <3>5, <3>6, ParentMoves DEF Late
    <3> QED
      BY <3>3, <3>7
  <2> QED
    BY <2>2, <2>3 DEF DoneInv, UnderWayOrDone
<1> QED
  BY <1>6, <1>7

LEMMA DoneStep == ASSUME PipeCopierAssumption, IInv, [Next]_vars PROVE DoneInv'
<1> USE DEF IInv, TypeInv
<1>1. CASE Child
  BY <1>1, ChildDone
<1>2. CASE Parent
  BY <1>2, ParentDone
<1>3. CASE (\E p \in Process : CloseUnused(p) \/ Kill(p)) \/ Meet \/ UNCHANGED vars
           \/ \E f \in ToSet(Files) : Truncate(f)
  <2>1. UNCHANGED <<content, out, announced, copy, taking, result>>
    BY <1>3 DEF CloseUnused, Kill, Meet, vars, Truncate, parent, child, pipes
  <2>2. /\ \/ pc'["child"] = pc["child"]
           \/ pc["child"] \in Waiting /\ pc'["child"] \in Waiting
           \/ pc'["child"] = "killed"
        /\ pc'["child"] = "ended" => /\ pc["child"] = "ended"
                                     /\ pc'["parent"] \in {pc["parent"], "killed", "handshake"}
        /\ pc'["parent"] = "handshake" => pc["parent"] \in {"unused", "handshake"} \/ Meet
    <3>1. ASSUME NEW p \in Process, CloseUnused(p) \/ Kill(p)
          PROVE  /\ \/ pc'["child"] = pc["child"]
                    \/ pc["child"] = "unused" /\ pc'["child"] = "handshake"
                    \/ pc'["child"] = "killed"
                 /\ pc'["child"] = "ended" =>
                        /\ pc["child"] = "ended"
                        /\ pc'["parent"] \in {pc["parent"], "killed", "handshake"}
                 /\ pc'["parent"] = "handshake" => pc["parent"] \in {"unused", "handshake"}
      BY <3>1 DEF CloseUnused, Kill, Goto, ControlTyped, Process
    <3>2. Meet => pc["child"] \in Waiting /\ pc'["child"] \in Waiting /\ pc'["child"] # "ended"
      BY DEF Meet, Process, Waiting
    <3>3. UNCHANGED vars \/ (\E f \in ToSet(Files) : Truncate(f)) => pc' = pc
      BY DEF vars, Truncate
    <3> QED
      BY <1>3, <3>1, <3>2, <3>3 DEF Waiting
  <2>3. Stream' = Stream
    BY <2>1 DEF Stream
  <2>4. ASSUME Alive' PROVE UnderWayOrDone'
    <3>1. Alive
      BY <2>4, StaysOver
    <3>2. UnderWayOrDone /\ HeadInv /\ Stream \in Seq(Unit)
      BY <3>1, StreamTyped DEF DoneInv, UnderWayOrDone, StreamInv
    <3>3. pc["child"] = "name" => Stream # <<>>
      BY <3>2 DEF HeadInv
    <3>4. pc'["child"] = pc["child"] \/ pc["child"] \in Waiting
      BY <2>2, <2>4 DEF Alive
    <3>5. \A i \in 1..Len(Stream) : i \in 1..Len(Stream') /\ Stream'[i] = Stream[i]
      BY <2>3
    <3> QED
      BY <2>1, <2>4, <3>1, <3>2, <3>3, <3>4, <3>5, DoneSame
  <2>5. ASSUME pc'["child"] = "ended", result'["child"]
        PROVE  /\ pc'["parent"] \in Late
               /\ \A f \in Names : announced'[f] >= 0 => Copied(f)'
    <3>1. pc["parent"] \in Late /\ \A f \in Names : announced[f] >= 0 => Copied(f)
      BY <2>1, <2>2, <2>5 DEF DoneInv
    <3>2. ~Meet
      BY <2>2, <2>5 DEF Meet, Process
    <3>3. pc'["parent"] \in Late
      BY <2>2, <2>5, <3>1, <3>2 DEF Late
    <3> QED
      BY <2>1, <3>1, <3>3 DEF Copied
  <2> QED
    BY <2>4, <2>5 DEF DoneInv, UnderWayOrDone
<1> QED
  BY <1>1, <1>2, <1>3 DEF Next, Step

-----------------------------------------------------------------------------
(* The theorems.                                                           *)

LEMMA InitHolds == ASSUME PipeCopierAssumption, Init PROVE IInv
<1> USE DEF Init
<1>0. MaxLength \in Nat /\ MaxFaults \in Nat /\ Len(Files) \in Nat /\ Len(Files) >= 1
      /\ Files[1] \in Names /\ Chunk \in Nat /\ PipeSize \in Nat
  <2>1. 1 \in 1..Len(Files)
    BY Constants
  <2> QED
    BY <2>1, Constants
<1>1. <<>> \in Seq(Unit) /\ Len(<<>>) = 0
  OBVIOUS
<1>2. pc["parent"] = "create" /\ pc["child"] = "none"
  BY DEF Process
<1>3. ControlTyped
  <2>1. name \in [Pipe -> {"none", "us", "other"}]
    OBVIOUS
  <2>2. length \in [Names -> -1..MaxLength]
    BY DEF Names
  <2>3. pc \in [Process -> ParentStages \union ChildStages]
    BY DEF ParentStages, ChildStages
  <2>4. /\ result \in [Process -> BOOLEAN] /\ useFifo \in BOOLEAN
        /\ readers \in [Pipe -> SUBSET Process] /\ writers \in [Pipe -> SUBSET Process]
    OBVIOUS
  <2>5. faults \in 0..MaxFaults
    BY <1>0
  <2>6. pc["parent"] \in ParentStages /\ pc["child"] \in ChildStages
    BY <1>2 DEF ParentStages, ChildStages
  <2> HIDE DEF Init
  <2> QED
    BY <2>1, <2>2, <2>3, <2>4, <2>5, <2>6 DEF ControlTyped
<1>4. ContentTyped
  BY <1>0, <1>1 DEF ContentTyped
<1>5. DataTyped
  <2>1. copy \in [Names -> [made : BOOLEAN, bytes : Seq(Unit)]]
    BY <1>1 DEF Names
  <2>2. announced \in [Names -> -1..MaxLength]
    BY <1>0 DEF Names
  <2> QED
    BY <1>0, <1>1, <2>1, <2>2 DEF DataTyped
<1>6. NameInv
  BY <1>2 DEF NameInv, Pipe
<1>7. StageInv
  BY <1>2 DEF StageInv, Before, Waiting, Pipe
<1>8. AnnouncedInv
  <2>1. \A i \in 1..Len(Files) : announced[Files[i]] = -1 /\ ~(i < index)
    BY <1>0, Constants DEF Names
  <2> QED
    BY <1>2, <2>1 DEF AnnouncedInv, Late
<1>9. Stream = <<>>
  <2>1. content["data"] = <<>>
    BY DEF Pipe
  <2>2. <<>> \o <<>> = <<>>
    OBVIOUS
  <2> QED
    BY <2>1, <2>2 DEF Stream
<1>10. StreamInv
  <2>1. Chain(<<>>)
    BY <1>1 DEF Chain
  <2>2. HeadInv
    BY <1>2, <1>9 DEF HeadInv
  <2>3. TailInv
    <3>1. ~ \E i : i \in 1..Len(<<>>)
      OBVIOUS
    <3> QED
      BY <1>2, <1>9, <3>1 DEF TailInv, Before, Waiting
  <2> QED
    BY <1>9, <2>1, <2>2, <2>3 DEF StreamInv
<1>11. CopyInv
  <2>1. \A f \in Names : copy[f].bytes = <<>> /\ announced[f] = -1
    BY DEF Names
  <2>2. \A f \in Names : IsPrefix(<<>>, Bytes(f, 1, -1))
    <3>1. -1 \in -1..MaxLength
      BY <1>0
    <3> QED
      BY <1>0, <3>1, EmptyPrefix
  <2> QED
    BY <1>2, <2>1, <2>2 DEF CopyInv, CopiesArePrefixes, Names
<1>12. DoneInv
  <2>1. \A f \in Names : announced[f] = -1
    BY DEF Names
  <2>2. ~(-1 >= 0)
    OBVIOUS
  <2> QED
    BY <1>2, <2>1, <2>2 DEF DoneInv
<1> QED
  BY <1>3, <1>4, <1>5, <1>6, <1>7, <1>8, <1>10, <1>11, <1>12 DEF IInv, TypeInv

THEOREM Invariant == ASSUME PipeCopierAssumption PROVE Spec => []IInv
<1>1. Init => IInv
  BY InitHolds
<1>2. IInv /\ [Next]_vars => IInv'
  BY TypeStep, NameStep, StageStep, AnnouncedStep, StreamStep, CopyStep, DoneStep DEF IInv
<1> QED
  BY <1>1, <1>2, PTL DEF Spec

\* Every variable keeps to its type, no pipe holds more than its capacity and no buffer of the
\* child more than a chunk.
THEOREM TypeCorrect == ASSUME PipeCopierAssumption PROVE Spec => []TypeOK
<1>1. IInv => TypeOK
  BY DEF IInv, TypeInv, ControlTyped, ContentTyped, DataTyped, TypeOK
<1> QED
  BY <1>1, Invariant, PTL

\* Copies are beginnings of their files, a success is one, and no FIFO is left behind.
THEOREM TrueCopies == ASSUME PipeCopierAssumption PROVE Spec => []CopiesTrue
<1>1. IInv => CopiesTrue
  <2> SUFFICES ASSUME IInv PROVE CopiesTrue
    OBVIOUS
  <2> USE DEF IInv, TypeInv
  <2>1. SuccessIsTrue
    <3> SUFFICES ASSUME pc["parent"] = "ended", result["parent"], NEW f \in Names
                 PROVE  announced[f] >= 0 /\ Copied(f)
      BY DEF SuccessIsTrue, Copied, Names
    <3>1. pc["child"] = "ended" /\ result["child"]
      BY DEF StageInv
    <3>2. index > Len(Files)
      BY DEF AnnouncedInv, Late
    <3>3. PICK i \in 1..Len(Files) : f = Files[i]
      BY Constants
    <3>4. i < index
      BY <3>2, Constants DEF DataTyped
    <3>5. announced[f] >= 0
      BY <3>3, <3>4 DEF AnnouncedInv
    <3> QED
      BY <3>1, <3>5 DEF DoneInv
  <2>2. NoFifoLeft
    BY DEF NameInv, NoFifoLeft
  <2> QED
    BY <2>1, <2>2 DEF CopiesTrue, CopyInv
<1> QED
  BY <1>1, Invariant, PTL
=============================================================================
