------------------------------ MODULE PipeCopier ----------------------------
(***************************************************************************)
(* 03-ipc-and-network-programming/01-pipe-file-copier: the parent reads    *)
(* the files it was given and sends them through a pipe, its child writes  *)
(* the copies.  The pipes are unnamed, or FIFOs with a given base name.    *)
(*                                                                         *)
(* A header, a name and a byte of a file are one unit of a pipe each.      *)
(***************************************************************************)
EXTENDS Integers, SequencesExt

CONSTANTS
    Files,       \* names in the order of the arguments
    MaxLength,   \* bound on the length of a file
    Chunk,       \* COPY_BUFFER_SIZE
    PipeSize,    \* capacity of a pipe
    MaxFaults    \* bound on failing calls, killed processes and truncated files

\* The arguments name files, each one once.
PipeCopierAssumption ==
    /\ Files \in Seq(ToSet(Files)) \ {<<>>} /\ IsInjective(Files)
    /\ Chunk \in Nat \ {0} /\ PipeSize \in Nat \ {0}
    /\ MaxLength \in Nat /\ MaxFaults \in Nat

VARIABLES
    useFifo,     \* -p was given
    name,        \* of each FIFO: "none", made by "us", or left by an "other" run
    pc,          \* where the parent and the child are
    result,      \* EXIT_SUCCESS so far?
    content, readers, writers,   \* the pipes and who has which end open
    length,      \* of the files, -1 for one that does not exist
    index, out, left,            \* main's i; what write_full still has to write; remaining
    announced,   \* file_size in the headers sent so far
    taking, rest, got,           \* the file that is received, remaining, the buffer
    copy,        \* the .copy files
    faults       \* faults that may still come

parent == <<index, out, left, announced>>
child == <<taking, rest, got, copy>>
pipes == <<content, readers, writers>>
vars == <<useFifo, name, pc, result, pipes, length, parent, child, faults>>

Process == {"parent", "child"}
Pipe == {"data", "ready"}
Over == {"none", "ended", "killed"}
Bytes(f, from, to) == [k \in 1..(to - from + 1) |-> [kind |-> "data", file |-> f, n |-> from + k - 1]]

Init ==
    /\ useFifo \in BOOLEAN
    /\ name \in {[p \in Pipe |-> "none"], [p \in Pipe |-> IF p = "ready" THEN "other" ELSE "none"],
                 [p \in Pipe |-> "other"]}
    /\ pc = [p \in Process |-> IF p = "parent" THEN "create" ELSE "none"]
    /\ result = [p \in Process |-> TRUE]
    /\ content = [p \in Pipe |-> <<>>]
    /\ readers = [p \in Pipe |-> {}] /\ writers = [p \in Pipe |-> {}]
    /\ length \in [ToSet(Files) -> -1..MaxLength]
    /\ index = 1 /\ out = <<>> /\ left = 0 /\ announced = [f \in ToSet(Files) |-> -1]
    /\ taking = Files[1] /\ rest = 0 /\ got = <<>>
    /\ copy = [f \in ToSet(Files) |-> [made |-> FALSE, bytes |-> <<>>]]
    /\ faults = MaxFaults

-----------------------------------------------------------------------------
(* Faulty variants of definitions below.                                   *)

Room_OneMore(p) == Len(content[p]) <= PipeSize
Unlinked_Never(n) == n
ChunkSize_Full(remaining) == Chunk
Unused_Kept(p, ends, user) == ends
ExitStatus_Ignored(status, childStatus) == status

-----------------------------------------------------------------------------
(* Processes, pipes and names.                                             *)

Goto(p, where) == pc' = [pc EXCEPT ![p] = where]
Fault == faults > 0 /\ faults' = faults - 1
Fail(p) == result' = [result EXCEPT ![p] = FALSE]

\* Whoever ends has closed its ends.
CloseAll(p) ==
    /\ readers' = [n \in Pipe |-> readers[n] \ {p}]
    /\ writers' = [n \in Pipe |-> writers[n] \ {p}]

\* A reader waits for a unit, and finds the end when nobody can write any more.
HasNext(p) == content[p] # <<>>
AtEnd(p) == content[p] = <<>> /\ writers[p] = {}
Take(p) == content' = [content EXCEPT ![p] = Tail(@)]

\* A writer waits for room, and gets SIGPIPE when nobody can read any more.
Room(p) == Len(content[p]) < PipeSize
Broken(p) == readers[p] = {}
Put(p, unit) == content' = [content EXCEPT ![p] = Append(@, unit)]

\* remove_fifo_channels.
Unlinked(n) == "none"
ChunkSize(remaining) == IF remaining < Chunk THEN remaining ELSE Chunk

-----------------------------------------------------------------------------
(* main: channels and fork.                                                *)

\* create_fifo_channels, create_unnamed_channels.
Create ==
    /\ pc["parent"] = "create"
    /\ \/ /\ ~useFifo /\ Goto("parent", "fork") /\ UNCHANGED <<name, result, faults>>
       \/ /\ useFifo /\ name["data"] = "none" /\ Goto("parent", "create ready")
          /\ name' = [name EXCEPT !["data"] = "us"] /\ UNCHANGED <<result, faults>>
       \/ /\ useFifo /\ name["data"] # "none" /\ Goto("parent", "ended") /\ Fail("parent")
          /\ UNCHANGED <<name, faults>>
       \/ /\ Fault /\ Goto("parent", "ended") /\ Fail("parent") /\ UNCHANGED name
    /\ UNCHANGED <<useFifo, pipes, length, parent, child>>

CreateReady ==
    /\ pc["parent"] = "create ready"
    /\ IF name["ready"] = "none"
       THEN /\ Goto("parent", "fork") /\ name' = [name EXCEPT !["ready"] = "us"]
            /\ UNCHANGED result
       ELSE /\ Goto("parent", "ended") /\ Fail("parent")
            /\ name' = [name EXCEPT !["data"] = Unlinked(@)]
    /\ UNCHANGED <<useFifo, pipes, length, parent, child, faults>>

\* The unnamed pipes are open at both ends in both processes.
Fork ==
    /\ pc["parent"] = "fork"
    /\ \/ /\ pc' = [p \in Process |-> IF useFifo THEN "open data" ELSE "unused"]
          /\ IF useFifo THEN UNCHANGED <<readers, writers>>
             ELSE /\ readers' = [p \in Pipe |-> Process]
                  /\ writers' = [p \in Pipe |-> Process]
          /\ UNCHANGED <<result, faults>>
       \/ /\ Fault /\ Fail("parent") /\ Goto("parent", IF useFifo THEN "remove" ELSE "ended")
          /\ UNCHANGED <<readers, writers>>
    /\ UNCHANGED <<useFifo, name, content, length, parent, child>>

\* A process closes the end of a pipe that the other one uses.
User(pipe, end) ==
    IF <<pipe, end>> \in {<<"data", "write">>, <<"ready", "read">>} THEN "parent" ELSE "child"
Unused(p, ends, user) == IF p = user THEN ends ELSE ends \ {p}
CloseUnused(p) ==
    /\ pc[p] = "unused" /\ Goto(p, "handshake")
    /\ readers' = [n \in Pipe |-> Unused(p, readers[n], User(n, "read"))]
    /\ writers' = [n \in Pipe |-> Unused(p, writers[n], User(n, "write"))]
    /\ UNCHANGED <<useFifo, name, result, content, length, parent, child, faults>>

\* open of a FIFO waits until both ends are opened: first those of .data, then of .ready.
Meet ==
    /\ pc["parent"] = pc["child"]
    /\ \/ /\ pc["parent"] = "open data" /\ pc' = [p \in Process |-> "open ready"]
          /\ readers' = [readers EXCEPT !["data"] = {"child"}]
          /\ writers' = [writers EXCEPT !["data"] = {"parent"}]
       \/ /\ pc["parent"] = "open ready" /\ pc' = [p \in Process |-> "handshake"]
          /\ readers' = [readers EXCEPT !["ready"] = {"parent"}]
          /\ writers' = [writers EXCEPT !["ready"] = {"child"}]
    /\ UNCHANGED <<useFifo, name, result, content, length, parent, child, faults>>

-----------------------------------------------------------------------------
(* The parent: send_file for every argument.                               *)

AwaitReady ==
    /\ pc["parent"] = "handshake"
    /\ \/ HasNext("ready") /\ Take("ready") /\ Goto("parent", "next") /\ UNCHANGED result
       \/ AtEnd("ready") /\ Goto("parent", "close") /\ Fail("parent") /\ UNCHANGED content
    /\ UNCHANGED <<useFifo, name, readers, writers, length, parent, child, faults>>

NextFile ==
    LET f == Files[index]
    IN  /\ pc["parent"] = "next" /\ index <= Len(Files)
        /\ IF length[f] = -1
           THEN /\ Fail("parent") /\ index' = index + 1
                /\ UNCHANGED <<pc, out, left, announced>>
           ELSE /\ Goto("parent", "send")
                /\ out' = <<[kind |-> "file", file |-> f, n |-> length[f]],
                            [kind |-> "name", file |-> f, n |-> 0]>>
                /\ left' = length[f] /\ announced' = [announced EXCEPT ![f] = length[f]]
                /\ UNCHANGED <<result, index>>
        /\ UNCHANGED <<useFifo, name, pipes, length, child, faults>>

Finish ==
    /\ pc["parent"] = "next" /\ index > Len(Files)
    /\ Goto("parent", "finish") /\ out' = <<[kind |-> "finish", file |-> Files[1], n |-> 0]>>
    /\ UNCHANGED <<useFifo, name, result, pipes, length, index, left, announced, child, faults>>

\* write_full.
Write ==
    /\ pc["parent"] \in {"send", "finish"} /\ out # <<>>
    /\ \/ /\ ~Broken("data") /\ Room("data") /\ Put("data", Head(out)) /\ out' = Tail(out)
          /\ UNCHANGED <<pc, readers, writers>>
       \/ /\ Broken("data") /\ Goto("parent", "killed") /\ CloseAll("parent")
          /\ UNCHANGED <<content, out>>
    /\ UNCHANGED <<useFifo, name, result, length, index, left, announced, child, faults>>

\* The next piece of the file; it may have become shorter than announced.
ReadFile ==
    LET f == Files[index]
        done == announced[f] - left
        available == length[f] - done
        size == IF available < ChunkSize(left) THEN available ELSE ChunkSize(left)
    IN  /\ pc["parent"] = "send" /\ out = <<>> /\ left > 0
        /\ IF size > 0
           THEN /\ out' = Bytes(f, done + 1, done + size) /\ left' = left - size
                /\ UNCHANGED <<pc, result>>
           ELSE Goto("parent", "close") /\ Fail("parent") /\ UNCHANGED <<out, left>>
        /\ UNCHANGED <<useFifo, name, pipes, length, index, announced, child, faults>>

\* The file, or the last message, is written.
Written ==
    /\ out = <<>> /\ left = 0
    /\ \/ pc["parent"] = "send" /\ Goto("parent", "next") /\ index' = index + 1
       \/ pc["parent"] = "finish" /\ Goto("parent", "close") /\ UNCHANGED index
    /\ UNCHANGED <<useFifo, name, result, pipes, length, out, left, announced, child, faults>>

Close ==
    /\ pc["parent"] = "close" /\ Goto("parent", "wait") /\ CloseAll("parent")
    /\ UNCHANGED <<useFifo, name, result, content, length, parent, child, faults>>

\* waitpid.
ExitStatus(status, childStatus) == status /\ childStatus
WaitChild ==
    /\ pc["parent"] = "wait" /\ pc["child"] \in Over
    /\ Goto("parent", IF useFifo THEN "remove" ELSE "ended")
    /\ result' = [result EXCEPT
           !["parent"] = ExitStatus(@, result["child"] /\ pc["child"] = "ended")]
    /\ UNCHANGED <<useFifo, name, pipes, length, parent, child, faults>>

RemoveFifo ==
    /\ pc["parent"] \in {"remove", "remove ready"}
    /\ Goto("parent", IF pc["parent"] = "remove" THEN "remove ready" ELSE "ended")
    /\ name' = [name EXCEPT ![IF pc["parent"] = "remove" THEN "data" ELSE "ready"] = Unlinked(@)]
    /\ UNCHANGED <<useFifo, result, pipes, length, parent, child, faults>>

-----------------------------------------------------------------------------
(* The child: receive_file for every header.                               *)

SayReady ==
    /\ pc["child"] = "handshake"
    /\ \/ /\ ~Broken("ready") /\ Goto("child", "header")
          /\ Put("ready", [kind |-> "ready", file |-> Files[1], n |-> 0])
          /\ UNCHANGED <<readers, writers>>
       \/ Broken("ready") /\ Goto("child", "killed") /\ CloseAll("child") /\ UNCHANGED content
    /\ UNCHANGED <<useFifo, name, result, length, parent, child, faults>>

ChildFails == Goto("child", "ended") /\ Fail("child") /\ CloseAll("child")

ReadHeader ==
    LET header == Head(content["data"])
    IN  /\ pc["child"] = "header" /\ HasNext("data") /\ Take("data")
        /\ \/ /\ header.kind = "finish" /\ Goto("child", "ended") /\ CloseAll("child")
              /\ UNCHANGED <<result, rest>>
           \/ /\ header.kind = "file" /\ Goto("child", "name") /\ rest' = header.n
              /\ UNCHANGED <<result, readers, writers>>
        /\ UNCHANGED <<useFifo, name, length, parent, taking, got, copy, faults>>

\* The copy is created, or truncated.
ReadName ==
    LET f == Head(content["data"]).file
    IN  /\ pc["child"] = "name" /\ HasNext("data") /\ Take("data")
        /\ taking' = f
        /\ \/ /\ Goto("child", "data") /\ copy' = [copy EXCEPT ![f] = [made |-> TRUE, bytes |-> <<>>]]
              /\ UNCHANGED <<result, readers, writers, faults>>
           \/ Fault /\ ChildFails /\ UNCHANGED copy
        /\ UNCHANGED <<useFifo, name, length, parent, rest, got>>

ReadData ==
    /\ pc["child"] = "data" /\ rest > 0 /\ Len(got) < ChunkSize(rest)
    /\ HasNext("data") /\ Take("data") /\ got' = Append(got, Head(content["data"]))
    /\ UNCHANGED <<useFifo, name, pc, result, readers, writers, length, parent,
                   taking, rest, copy, faults>>

WriteData ==
    /\ pc["child"] = "data" /\ rest > 0 /\ Len(got) = ChunkSize(rest)
    /\ \/ /\ copy' = [copy EXCEPT ![taking].bytes = @ \o got] /\ got' = <<>>
          /\ rest' = rest - Len(got) /\ UNCHANGED <<pc, result, readers, writers, faults>>
       \/ Fault /\ ChildFails /\ UNCHANGED <<copy, got, rest>>
    /\ UNCHANGED <<useFifo, name, content, length, parent, taking>>

Received ==
    /\ pc["child"] = "data" /\ rest <= 0 /\ Goto("child", "header")
    /\ UNCHANGED <<useFifo, name, result, pipes, length, parent, child, faults>>

\* read_full came to the end of the pipe: an incomplete header, name or file.
Incomplete ==
    /\ \/ pc["child"] \in {"header", "name"}
       \/ pc["child"] = "data" /\ rest > 0 /\ Len(got) < ChunkSize(rest)
    /\ AtEnd("data") /\ ChildFails
    /\ UNCHANGED <<useFifo, name, content, length, parent, child, faults>>

-----------------------------------------------------------------------------
(* The outside: a process is killed, a file truncated while it is sent.    *)

Kill(p) ==
    /\ pc[p] \notin Over /\ pc["child"] # "none" /\ Fault
    /\ Goto(p, "killed") /\ CloseAll(p)
    /\ UNCHANGED <<useFifo, name, result, content, length, parent, child>>

Truncate(f) ==
    /\ announced[f] > 0 /\ length[f] > 0 /\ Fault
    /\ length' = [length EXCEPT ![f] = 0]
    /\ UNCHANGED <<useFifo, name, pc, result, pipes, parent, child>>

-----------------------------------------------------------------------------

Parent ==
    \/ Create \/ CreateReady \/ Fork \/ AwaitReady \/ NextFile \/ Finish
    \/ Write \/ ReadFile \/ Written \/ Close \/ WaitChild \/ RemoveFifo
Child ==
    \/ SayReady \/ ReadHeader \/ ReadName \/ ReadData \/ WriteData \/ Received \/ Incomplete
Step == Parent \/ Child \/ Meet \/ \E p \in Process : CloseUnused(p)

Next == Step \/ (\E p \in Process : Kill(p)) \/ (\E f \in ToSet(Files) : Truncate(f))

\* The processes are scheduled; faults need not come.
Fairness == WF_vars(Step)

Spec == Init /\ [][Next]_vars
FairSpec == Spec /\ Fairness

-----------------------------------------------------------------------------
(* Properties.                                                             *)

\* Every variable keeps to its type, and a pipe to its capacity.
TypeOK ==
    /\ useFifo \in BOOLEAN /\ name \in [Pipe -> {"none", "us", "other"}]
    /\ result \in [Process -> BOOLEAN] /\ DOMAIN pc = Process
    /\ \A p \in Pipe : Len(content[p]) <= PipeSize
    /\ readers \in [Pipe -> SUBSET Process] /\ writers \in [Pipe -> SUBSET Process]
    /\ index \in 1..(Len(Files) + 1) /\ left \in 0..MaxLength
    /\ rest \in 0..MaxLength /\ Len(got) <= Chunk
    /\ faults \in 0..MaxFaults

\* A copy is at every moment a beginning of its file: the child never takes a byte of one
\* file, or a header, for a byte of another, wherever chunks and pipe split the messages.
CopiesArePrefixes ==
    \A f \in ToSet(Files) : IsPrefix(copy[f].bytes, Bytes(f, 1, announced[f]))

\* A parent that reports success has all files copied in full, whichever call failed and
\* whoever was killed on the way.
SuccessIsTrue ==
    pc["parent"] = "ended" /\ result["parent"] =>
        \A f \in ToSet(Files) :
            announced[f] >= 0 /\ copy[f] = [made |-> TRUE, bytes |-> Bytes(f, 1, announced[f])]

\* A parent that was not killed leaves no FIFO of its own behind.
NoFifoLeft == pc["parent"] = "ended" => \A p \in Pipe : name[p] # "us"

\* What the copier leaves behind is what it reports: true copies, or beginnings of them and
\* a failure, and no FIFO.
CopiesTrue == CopiesArePrefixes /\ SuccessIsTrue /\ NoFifoLeft

\* Both processes end, whoever failed: neither waits for a byte, for room or for its child
\* forever.  Only the open of a FIFO waits for a partner that was killed before.
BothEnd ==
    <>[](\/ \A p \in Process : pc[p] \in Over
         \/ \E p, q \in Process :
                pc[p] \in {"open data", "open ready"} /\ pc[q] = "killed")

=============================================================================
