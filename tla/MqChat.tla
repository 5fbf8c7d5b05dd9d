-------------------------------- MODULE MqChat ------------------------------
(***************************************************************************)
(* 03-ipc-and-network-programming/03-posix-message-queue-chat: whoever     *)
(* creates the first of two queues owns both and removes them; the next    *)
(* process attaches to them the other way round.  Each has a main thread   *)
(* that reads lines and sends, and a thread that receives.                 *)
(*                                                                         *)
(* A queue is the number of its creation; a name refers to a queue or to   *)
(* none (0).  A removed queue lives on for those who have it open.         *)
(***************************************************************************)
EXTENDS Integers, FiniteSets, SequencesExt

CONSTANTS
    Procs,        \* the processes
    Crowds,       \* who may be started, in any order, and how often their users act
    MaxMessages   \* CHAT_MAX_MESSAGES

MqChatAssumption ==
    /\ MaxMessages \in Nat \ {0}
    /\ Crowds \subseteq [who : SUBSET Procs, inputs : Nat]

VARIABLES
    pc, rpc,          \* where the main and the receiving thread of each process are
    stop, interrupted,  \* context.stop_requested, the flag of the signal handler
    sendQueue, receiveQueue, isOwner,   \* message_queue_pair_t
    name,             \* the queues that the two names refer to
    queue,            \* contents of every queue ever created
    inputs,           \* lines and Ctrl+C that the users have left, a bound
    parting,          \* how each process parted: it told the peer, heard it, or failed to send
    disturbed         \* processes during whose opening an owner removed names

threads == <<pc, rpc, stop, interrupted>>
pair == <<sendQueue, receiveQueue, isOwner>>
history == <<parting, disturbed>>
vars == <<threads, pair, name, queue, inputs, history>>

Opening == {"create", "second", "attach", "retry"}

Init ==
    /\ \E crowd \in Crowds :
          /\ pc = [p \in Procs |-> IF p \in crowd.who THEN "off" ELSE "done"]
          /\ inputs = crowd.inputs
    /\ rpc = [p \in Procs |-> "none"]
    /\ stop = [p \in Procs |-> FALSE] /\ interrupted = [p \in Procs |-> FALSE]
    /\ sendQueue = [p \in Procs |-> 0] /\ receiveQueue = [p \in Procs |-> 0]
    /\ isOwner = [p \in Procs |-> FALSE]
    /\ name = <<0, 0>> /\ queue = <<>>
    /\ parting = [p \in Procs |-> {}] /\ disturbed = {}

-----------------------------------------------------------------------------
(* Faulty variants of definitions below.                                   *)

FirstToRead_Oldest(messages) == 1
WasStopped_Never(p) == FALSE
TimesOut_Never(p) == FALSE
CreateSecond_Anyway(p) ==
    /\ pc[p] = "second" /\ pc' = [pc EXCEPT ![p] = "test"]
    /\ name' = [name EXCEPT ![2] = Len(queue) + 1] /\ queue' = Append(queue, <<>>)
    /\ sendQueue' = [sendQueue EXCEPT ![p] = Len(queue) + 1]
    /\ rpc' = [rpc EXCEPT ![p] = "test"]
    /\ UNCHANGED <<stop, interrupted, receiveQueue, isOwner, inputs, history>>
Full_OneMore(q) == Len(queue[q]) > MaxMessages

-----------------------------------------------------------------------------
(* Queues and threads.                                                     *)

Input == inputs > 0 /\ inputs' = inputs - 1
Goto(p, where) == pc' = [pc EXCEPT ![p] = where]
Full(q) == Len(queue[q]) >= MaxMessages
Put(q, message) == queue' = [queue EXCEPT ![q] = Append(@, message)]

\* The first reason to stop that a process meets.
Parts(p, how) ==
    parting' = [parting EXCEPT ![p] = IF stop[p] THEN @ ELSE @ \union {how}]

\* A message of the higher priority comes first, then the oldest.
FirstToRead(messages) ==
    LET exits == {i \in DOMAIN messages : messages[i].kind = "exit"}
        choices == IF exits = {} THEN DOMAIN messages ELSE exits
    IN  CHOOSE i \in choices : \A j \in choices : i <= j

\* The signal handler runs in the main thread.  A blocked fgets or mq_send ends,
\* unless the signal came before the call; a line that was typed is read.
Blocked(p) == pc[p] = "read" \/ (pc[p] \in {"send", "exit"} /\ Full(sendQueue[p]))
Afterwards(p) == IF pc[p] = "read" THEN "leave" ELSE IF pc[p] = "send" THEN "failed" ELSE "join"
Signalled(p) ==
    /\ interrupted' = [interrupted EXCEPT ![p] = TRUE]
    /\ \/ UNCHANGED pc
       \/ Blocked(p) /\ Goto(p, Afterwards(p))

-----------------------------------------------------------------------------
(* message_queue_pair_open.                                                *)

Start(p) ==
    /\ pc[p] = "off" /\ Goto(p, "create")
    /\ UNCHANGED <<rpc, stop, interrupted, pair, name, queue, inputs, history>>

\* O_EXCL decides who is the owner.
CreateFirst(p) ==
    /\ pc[p] = "create"
    /\ IF name[1] = 0
       THEN /\ Goto(p, "second")
            /\ name' = [name EXCEPT ![1] = Len(queue) + 1] /\ queue' = Append(queue, <<>>)
            /\ receiveQueue' = [receiveQueue EXCEPT ![p] = Len(queue) + 1]
            /\ isOwner' = [isOwner EXCEPT ![p] = TRUE]
       ELSE Goto(p, "attach") /\ UNCHANGED <<name, queue, receiveQueue, isOwner>>
    /\ UNCHANGED <<rpc, stop, interrupted, sendQueue, inputs, history>>

\* A second queue that is still there is somebody else's.
CreateSecond(p) ==
    /\ pc[p] = "second"
    /\ IF name[2] = 0
       THEN /\ Goto(p, "test")
            /\ name' = [name EXCEPT ![2] = Len(queue) + 1] /\ queue' = Append(queue, <<>>)
            /\ sendQueue' = [sendQueue EXCEPT ![p] = Len(queue) + 1]
            /\ rpc' = [rpc EXCEPT ![p] = "test"]
       ELSE Goto(p, "undo") /\ UNCHANGED <<name, queue, sendQueue, rpc>>
    /\ UNCHANGED <<stop, interrupted, receiveQueue, isOwner, inputs, history>>

\* ... and the first one is removed again.
Undo(p) ==
    /\ pc[p] = "undo" /\ Goto(p, "done")
    /\ name' = [name EXCEPT ![1] = 0]
    /\ isOwner' = [isOwner EXCEPT ![p] = FALSE]
    /\ disturbed' = disturbed \union {q \in Procs : pc[q] \in Opening}
    /\ UNCHANGED <<rpc, stop, interrupted, sendQueue, receiveQueue, queue, inputs, parting>>

Attach(p) ==
    /\ pc[p] = "attach"
    /\ Goto(p, IF name[1] = 0 THEN "done" ELSE "retry")
    /\ sendQueue' = [sendQueue EXCEPT ![p] = name[1]]
    /\ UNCHANGED <<rpc, stop, interrupted, receiveQueue, isOwner, name, queue, inputs, history>>

\* open_existing_queue finds the second queue.
Retry(p) ==
    /\ pc[p] = "retry" /\ name[2] # 0 /\ Goto(p, "test")
    /\ receiveQueue' = [receiveQueue EXCEPT ![p] = name[2]]
    /\ rpc' = [rpc EXCEPT ![p] = "test"]
    /\ UNCHANGED <<stop, interrupted, sendQueue, isOwner, name, queue, inputs, history>>

\* It does not for a second.
GiveUp(p) ==
    /\ pc[p] = "retry" /\ name[2] = 0 /\ Goto(p, "done")
    /\ UNCHANGED <<rpc, stop, interrupted, pair, name, queue, inputs, history>>

-----------------------------------------------------------------------------
(* The main thread: chat_run.                                              *)

Test(p) ==
    /\ pc[p] = "test" /\ Goto(p, IF interrupted[p] THEN "leave" ELSE "read")
    /\ UNCHANGED <<rpc, stop, interrupted, pair, name, queue, inputs, history>>

\* fgets returns a line, or "/exit" or the end of the input.
ReadLine(p) ==
    /\ pc[p] = "read"
    /\ \/ Goto(p, "send") /\ Input
       \/ Goto(p, "leave") /\ UNCHANGED inputs
    /\ UNCHANGED <<rpc, stop, interrupted, pair, name, queue, history>>

Send(p) ==
    /\ pc[p] = "send" /\ ~Full(sendQueue[p]) /\ Goto(p, "test")
    /\ Put(sendQueue[p], [from |-> p, kind |-> "text"])
    /\ UNCHANGED <<rpc, stop, interrupted, pair, name, inputs, history>>

\* mq_send was interrupted.
SendFailed(p) ==
    /\ pc[p] = "failed" /\ Goto(p, "leave")
    /\ stop' = [stop EXCEPT ![p] = TRUE]
    /\ Parts(p, "failed")
    /\ UNCHANGED <<rpc, interrupted, pair, name, queue, inputs, disturbed>>

\* atomic_exchange: who finds the flag set does not tell the peer.
WasStopped(p) == stop[p]
Leave(p) ==
    /\ pc[p] = "leave" /\ Goto(p, IF WasStopped(p) THEN "join" ELSE "exit")
    /\ stop' = [stop EXCEPT ![p] = TRUE]
    /\ UNCHANGED <<rpc, interrupted, pair, name, queue, inputs, history>>

SendExit(p) ==
    /\ pc[p] = "exit" /\ ~Full(sendQueue[p]) /\ Goto(p, "join")
    /\ Put(sendQueue[p], [from |-> p, kind |-> "exit"])
    /\ parting' = [parting EXCEPT ![p] = @ \union {"told"}]
    /\ UNCHANGED <<rpc, stop, interrupted, pair, name, inputs, disturbed>>

\* pthread_join, then message_queue_pair_close.
Join(p) ==
    /\ pc[p] = "join" /\ rpc[p] = "ended"
    /\ Goto(p, IF isOwner[p] THEN "unlink1" ELSE "done")
    /\ UNCHANGED <<rpc, stop, interrupted, pair, name, queue, inputs, history>>

Unlink(p) ==
    /\ pc[p] \in {"unlink1", "unlink2"}
    /\ Goto(p, IF pc[p] = "unlink1" THEN "unlink2" ELSE "done")
    /\ name' = [name EXCEPT ![IF pc[p] = "unlink1" THEN 1 ELSE 2] = 0]
    /\ disturbed' = disturbed \union {q \in Procs : pc[q] \in Opening}
    /\ UNCHANGED <<rpc, stop, interrupted, pair, queue, inputs, parting>>

\* A user presses Ctrl+C.
Interrupt(p) ==
    /\ pc[p] \notin {"off", "done"} /\ Signalled(p) /\ Input
    /\ UNCHANGED <<rpc, stop, pair, name, queue, history>>

-----------------------------------------------------------------------------
(* The receiving thread: receive_messages.                                 *)

TestStop(p) ==
    /\ rpc[p] = "test"
    /\ rpc' = [rpc EXCEPT ![p] = IF stop[p] THEN "ended" ELSE "receive"]
    /\ UNCHANGED <<pc, stop, interrupted, pair, name, queue, inputs, history>>

\* The exit of the peer is passed on to the main thread as SIGINT.
Receive(p) ==
    LET messages == queue[receiveQueue[p]]
        i == FirstToRead(messages)
    IN  /\ rpc[p] = "receive" /\ messages # <<>>
        /\ queue' = [queue EXCEPT ![receiveQueue[p]] = RemoveAt(@, i)]
        /\ IF messages[i].kind = "exit"
           THEN /\ rpc' = [rpc EXCEPT ![p] = "ended"]
                /\ stop' = [stop EXCEPT ![p] = TRUE]
                /\ Parts(p, "heard")
                /\ Signalled(p)
           ELSE rpc' = [rpc EXCEPT ![p] = "test"] /\ UNCHANGED <<pc, stop, interrupted, parting>>
        /\ UNCHANGED <<pair, name, inputs, disturbed>>

\* mq_timedreceive waits 100 milliseconds.
TimesOut(p) == queue[receiveQueue[p]] = <<>>
Timeout(p) ==
    /\ rpc[p] = "receive" /\ TimesOut(p)
    /\ rpc' = [rpc EXCEPT ![p] = "test"]
    /\ UNCHANGED <<pc, stop, interrupted, pair, name, queue, inputs, history>>

-----------------------------------------------------------------------------

Open(p) ==
    CreateFirst(p) \/ CreateSecond(p) \/ Undo(p) \/ Attach(p) \/ Retry(p) \/ GiveUp(p)
Main(p) ==
    Test(p) \/ Send(p) \/ SendFailed(p) \/ Leave(p) \/ SendExit(p) \/ Join(p) \/ Unlink(p)
Receiver(p) == TestStop(p) \/ Receive(p) \/ Timeout(p)

Next == \E p \in Procs :
    Start(p) \/ Open(p) \/ Main(p) \/ ReadLine(p) \/ Interrupt(p) \/ Receiver(p)

\* Every process is scheduled; nobody must start one, type or press Ctrl+C.
Steps(p) == Open(p) \/ Main(p) \/ Receiver(p)
Fairness == \A p \in Procs : WF_vars(Steps(p))

Spec == Init /\ [][Next]_vars
FairSpec == Spec /\ Fairness

-----------------------------------------------------------------------------
(* Properties.                                                             *)

\* Every variable keeps to its type, and a queue to its capacity.
TypeOK ==
    /\ \A p \in Procs :
          /\ pc[p] \in Opening \union {"off", "undo", "test", "read", "send", "failed", "leave",
                                       "exit", "join", "unlink1", "unlink2", "done"}
          /\ rpc[p] \in {"none", "test", "receive", "ended"}
          /\ stop[p] \in BOOLEAN /\ interrupted[p] \in BOOLEAN /\ isOwner[p] \in BOOLEAN
          /\ {sendQueue[p], receiveQueue[p], name[1], name[2]} \subseteq 0..Len(queue)
    /\ \A q \in DOMAIN queue : Len(queue[q]) <= MaxMessages
    /\ inputs \in Nat

\* However the starts and the ends of owners overlap, the names an owner is going to
\* remove refer to its own queues: nobody unlinks a queue of somebody else.
RemovesItsOwn ==
    \A p \in Procs : isOwner[p] =>
        /\ pc[p] \notin {"unlink2", "done"} => name[1] = receiveQueue[p]
        /\ pc[p] \notin {"second", "undo", "done"} => name[2] = sendQueue[p]

\* A process that attached to the queue of a living owner also receives from it, unless
\* an owner removed names while one of the two was opening.
PeersMeet ==
    \A p, q \in Procs \ disturbed :
        /\ isOwner[q] /\ pc[q] \notin Opening \union {"undo", "done"}
        /\ ~isOwner[p] /\ rpc[p] # "none" /\ sendQueue[p] = receiveQueue[q]
        => receiveQueue[p] = sendQueue[q]

\* A process parts in one way, whichever of its threads decides first: it tells the peer
\* unless it was told or could not send; only one that was interrupted leaves in silence.
LeavesOnce ==
    \A p \in Procs :
        /\ Cardinality(parting[p]) <= 1
        /\ pc[p] = "done" /\ rpc[p] # "none" => parting[p] # {} \/ interrupted[p]

\* Processes that open, use and remove the queues at once agree: on the pair they use, and
\* on how they part.
PeersAgree == RemovesItsOwn /\ PeersMeet /\ LeavesOnce

\* An exit overtakes the texts: no text is read from a queue that holds an exit.
ExitFirst ==
    [][\A p \in Procs : parting'[p] = parting[p] /\ rpc[p] = "receive" /\ rpc'[p] = "test" =>
          \A i \in DOMAIN queue[receiveQueue[p]] : queue[receiveQueue[p]][i].kind = "text"]_vars

\* A main thread that waits for its receiving thread ends: the thread looks at the flag
\* every 100 milliseconds, whether or not messages arrive.
ThreadsJoin == []<>(\A p \in Procs : pc[p] # "join")

\* A chat ends: an exit is read before the texts, and no process waits for its receiving
\* thread for ever.
ChatEnds == ExitFirst /\ ThreadsJoin

=============================================================================
