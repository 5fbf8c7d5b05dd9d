---------------------------- MODULE MqChat_proofs ---------------------------
(***************************************************************************)
(* What holds of MqChat for any number of processes and any crowd: owners  *)
(* remove their own queues only, peers use the same pair, and a process    *)
(* parts in one way.                                                       *)
(*                                                                         *)
(* The heart of it is who may be behind a name: at most one owner has not  *)
(* yet removed the first queue, at most one the second, and a process that *)
(* attaches sees the queues of one owner unless somebody removed a name in *)
(* the meantime.                                                           *)
(***************************************************************************)
EXTENDS MqChat, FiniteSetTheorems, SequenceTheorems, WellFoundedInduction, TLAPS

Message == [from : Procs, kind : {"text", "exit"}]

Stages == Opening \union {"off", "undo", "test", "read", "send", "failed", "leave",
                          "exit", "join", "unlink1", "unlink2", "done"}

Ways == {{}, {"told"}, {"heard"}, {"failed"}}

-----------------------------------------------------------------------------
(* The inductive invariant.                                                *)

\* The variables are functions on the processes, and the queues sequences of messages.
QueuesTyped ==
    /\ queue \in Seq(Seq(Message))
    /\ \A q \in 1..Len(queue) : Len(queue[q]) <= MaxMessages

TypeInv ==
    /\ pc \in [Procs -> Stages]
    /\ rpc \in [Procs -> {"none", "test", "receive", "ended"}]
    /\ stop \in [Procs -> BOOLEAN] /\ interrupted \in [Procs -> BOOLEAN]
    /\ isOwner \in [Procs -> BOOLEAN]
    /\ sendQueue \in [Procs -> 0..Len(queue)] /\ receiveQueue \in [Procs -> 0..Len(queue)]
    /\ name \in [1..2 -> 0..Len(queue)]
    /\ inputs \in Nat /\ disturbed \in SUBSET Procs

\* Where an owner can be, where somebody else, and where a process has its queues.
StageInv ==
    \A p \in Procs :
        /\ pc[p] \in {"second", "undo", "unlink1", "unlink2"} => isOwner[p]
        /\ pc[p] \in {"off", "create", "attach", "retry"} => ~isOwner[p]
        /\ pc[p] \in Opening \union {"off", "undo"} => rpc[p] = "none"
        /\ pc[p] \notin Opening \union {"off", "undo", "done"} => rpc[p] # "none"
        /\ pc[p] = "retry" \/ rpc[p] # "none" => sendQueue[p] # 0
        /\ rpc[p] # "none" => receiveQueue[p] # 0
        /\ isOwner[p] => receiveQueue[p] # 0
        /\ isOwner[p] /\ pc[p] = "done" => rpc[p] # "none"

\* An owner holds a name from its creation until it removes it, and nobody else does.
HoldsFirst(p) == isOwner[p] /\ pc[p] \notin {"unlink2", "done"}
HoldsSecond(p) == isOwner[p] /\ pc[p] \notin {"second", "undo", "done"}

NameInv ==
    /\ \A p \in Procs : HoldsFirst(p) => name[1] = receiveQueue[p]
    /\ \A p \in Procs : HoldsSecond(p) => name[2] = sendQueue[p]
    /\ \A p, q \in Procs : HoldsFirst(p) /\ HoldsFirst(q) => p = q
    /\ \A p, q \in Procs : HoldsSecond(p) /\ HoldsSecond(q) => p = q
    /\ \A p \in Procs : isOwner[p] /\ pc[p] \in {"unlink2", "done"} => name[1] # receiveQueue[p]

\* Between its two calls of mq_open an undisturbed process finds the same first queue.
RetryInv ==
    \A p \in Procs \ disturbed : pc[p] = "retry" => name[1] = sendQueue[p]

\* As long as the owner has no second queue, who attached to its first one got the second
\* queue of somebody else, who still has to remove it: the owner will not create its own.
MeetInv ==
    \A p, q \in Procs \ disturbed :
        isOwner[q] /\ ~isOwner[p] /\ rpc[p] # "none" /\ sendQueue[p] = receiveQueue[q] =>
            /\ pc[q] = "second" => name[2] # 0
            /\ pc[q] \notin Opening \union {"undo", "done"} => receiveQueue[p] = sendQueue[q]

\* The first reason to stop counts, and sets the flag.
PartInv ==
    \A p \in Procs :
        /\ parting[p] \in Ways
        /\ ~stop[p] => parting[p] = {}
        /\ stop[p] => parting[p] # {} \/ interrupted[p] \/ pc[p] = "exit"
        /\ pc[p] = "exit" => parting[p] = {}
        /\ pc[p] \in {"exit", "join", "unlink1", "unlink2"} => stop[p]
        /\ pc[p] = "done" /\ rpc[p] # "none" => stop[p]

IInv ==
    /\ TypeInv /\ QueuesTyped /\ parting \in [Procs -> SUBSET {"told", "heard", "failed"}]
    /\ StageInv /\ NameInv /\ RetryInv /\ MeetInv /\ PartInv

-----------------------------------------------------------------------------
(* Queues.                                                                 *)

\* A set of numbers has a least one.
LEMMA LeastNatural ==
    ASSUME NEW S \in SUBSET Nat, S # {}
    PROVE  \E n \in S : \A k \in S : n <= k
  <1> DEFINE R == OpToRel(<, Nat)
  <1>1. IsWellFoundedOn(R, Nat)
    BY NatLessThanWellFounded
  <1>2. R = {x \in Nat \X Nat : x[1] < x[2]}
    BY Zenon DEF OpToRel
  <1> HIDE DEF R
  <1>3. PICK n \in S : \A k \in S : <<k, n>> \notin R
    BY <1>1, WFMin
  <1>4. ASSUME NEW k \in S PROVE n <= k
    <2>1. n \in Nat /\ k \in Nat
      OBVIOUS
    <2>2. <<k, n>> \notin {x \in Nat \X Nat : x[1] < x[2]}
      BY <1>2, <1>3, Zenon
    <2> QED
      BY <2>1, <2>2, SMT
  <1> QED
    BY <1>4

\* What is read is a message of the queue, and an exit if there is one.
LEMMA FirstIsExit ==
    ASSUME NEW messages \in Seq(Message), messages # <<>>
    PROVE  /\ FirstToRead(messages) \in 1..Len(messages)
           /\ (\E i \in 1..Len(messages) : messages[i].kind = "exit") =>
                  messages[FirstToRead(messages)].kind = "exit"
  <1> DEFINE exits == {i \in DOMAIN messages : messages[i].kind = "exit"}
             choices == IF exits = {} THEN DOMAIN messages ELSE exits
  <1>1. DOMAIN messages = 1..Len(messages) /\ Len(messages) \in Nat /\ Len(messages) # 0
    OBVIOUS
  <1>2. choices \subseteq 1..Len(messages) /\ choices # {}
    BY <1>1
  <1>3. \E i \in choices : \A j \in choices : i <= j
    BY <1>2, LeastNatural, choices \in SUBSET Nat, Zenon
  <1>4. FirstToRead(messages) = CHOOSE i \in choices : \A j \in choices : i <= j
    BY Zenon DEF FirstToRead
  <1>5. FirstToRead(messages) \in choices
    BY <1>3, <1>4, Zenon
  <1> QED
    BY <1>1, <1>2, <1>5

\* Creating a queue, putting a message into it and taking one out keep the types, and the
\* capacity if the queue was not full.
LEMMA NewQueue ==
    ASSUME QueuesTyped, MqChatAssumption, queue' = Append(queue, <<>>)
    PROVE  QueuesTyped' /\ Len(queue') = Len(queue) + 1 /\ Len(queue) \in Nat
BY DEF QueuesTyped, MqChatAssumption

LEMMA PutTyped ==
    ASSUME QueuesTyped, NEW q \in 1..Len(queue), NEW m \in Message, ~Full(q), Put(q, m),
           MqChatAssumption
    PROVE  QueuesTyped' /\ Len(queue') = Len(queue) /\ Len(queue) \in Nat
  <1>1. queue[q] \in Seq(Message) /\ Append(queue[q], m) \in Seq(Message)
    BY DEF QueuesTyped
  <1>2. queue' \in Seq(Seq(Message)) /\ Len(queue') = Len(queue)
    BY <1>1 DEF QueuesTyped, Put
  <1>3. Len(Append(queue[q], m)) <= MaxMessages
    BY <1>1 DEF Full, MqChatAssumption
  <1>4. \A r \in 1..Len(queue) : queue'[r] = IF r = q THEN Append(queue[q], m) ELSE queue[r]
    BY DEF Put, QueuesTyped
  <1>5. \A r \in 1..Len(queue') : Len(queue'[r]) <= MaxMessages
    BY <1>2, <1>3, <1>4, Zenon DEF QueuesTyped
  <1> QED
    BY <1>2, <1>5 DEF QueuesTyped

LEMMA TakeTyped ==
    ASSUME QueuesTyped, NEW q \in 1..Len(queue), NEW i \in 1..Len(queue[q]),
           queue' = [queue EXCEPT ![q] = RemoveAt(@, i)], MqChatAssumption
    PROVE  QueuesTyped' /\ Len(queue') = Len(queue) /\ Len(queue) \in Nat
  <1> DEFINE rest == RemoveAt(queue[q], i)
  <1>1. queue[q] \in Seq(Message) /\ Len(queue[q]) \in Nat
    BY DEF QueuesTyped
  <1>2. PICK s : s = queue[q]
    OBVIOUS
  <1>3. SubSeq(s, 1, i - 1) \in Seq(Message) /\ SubSeq(s, i + 1, Len(s)) \in Seq(Message)
    BY <1>1, <1>2
  <1>4. Len(SubSeq(s, 1, i - 1)) = i - 1 /\ Len(SubSeq(s, i + 1, Len(s))) = Len(s) - i
    BY <1>1, <1>2
  <1>5. rest \in Seq(Message) /\ Len(rest) = Len(s) - 1
    <2>1. rest = SubSeq(s, 1, i - 1) \o SubSeq(s, i + 1, Len(s))
      BY <1>2, Zenon DEF RemoveAt
    <2>2. \A t, u \in Seq(Message) : t \o u \in Seq(Message) /\ Len(t \o u) = Len(t) + Len(u)
      OBVIOUS
    <2>3. rest \in Seq(Message) /\ Len(rest) = (i - 1) + (Len(s) - i)
      BY <1>3, <1>4, <2>1, <2>2, Zenon
    <2> QED
      BY <1>1, <1>2, <2>3
  <1> HIDE DEF rest
  <1>6. queue' \in Seq(Seq(Message)) /\ Len(queue') = Len(queue)
    BY <1>5 DEF QueuesTyped, rest
  <1>7. \A r \in 1..Len(queue) : queue'[r] = IF r = q THEN rest ELSE queue[r]
    BY DEF QueuesTyped, rest
  <1>8. Len(rest) <= MaxMessages
    BY <1>1, <1>2, <1>5 DEF QueuesTyped, MqChatAssumption
  <1> QED
    BY <1>6, <1>7, <1>8 DEF QueuesTyped

-----------------------------------------------------------------------------
(* The invariant holds, and every step keeps it.                           *)

\* Apart from the queue, receiving a text only sends the thread back to its test, and
\* receiving an exit ends it and interrupts the main thread.
LEMMA ReceiveEffect ==
    ASSUME NEW p \in Procs, Receive(p)
    PROVE  /\ sendQueue' = sendQueue /\ receiveQueue' = receiveQueue /\ isOwner' = isOwner
           /\ name' = name /\ disturbed' = disturbed /\ inputs' = inputs /\ rpc[p] = "receive"
           /\ \/ /\ rpc' = [rpc EXCEPT ![p] = "test"] /\ pc' = pc /\ stop' = stop
                 /\ interrupted' = interrupted /\ parting' = parting
              \/ /\ rpc' = [rpc EXCEPT ![p] = "ended"] /\ stop' = [stop EXCEPT ![p] = TRUE]
                 /\ interrupted' = [interrupted EXCEPT ![p] = TRUE] /\ Parts(p, "heard")
                 /\ \/ pc' = pc
                    \/ /\ pc[p] \in {"read", "send", "exit"}
                       /\ pc' = [pc EXCEPT ![p] = Afterwards(p)]
<1> DEFINE isExit == queue[receiveQueue[p]][FirstToRead(queue[receiveQueue[p]])].kind = "exit"
<1>1. /\ rpc[p] = "receive" /\ UNCHANGED <<pair, name, inputs, disturbed>>
      /\ IF isExit
         THEN /\ rpc' = [rpc EXCEPT ![p] = "ended"] /\ stop' = [stop EXCEPT ![p] = TRUE]
              /\ Parts(p, "heard") /\ Signalled(p)
         ELSE rpc' = [rpc EXCEPT ![p] = "test"] /\ UNCHANGED <<pc, stop, interrupted, parting>>
  BY DEF Receive
<1> HIDE DEF isExit
<1>2. Signalled(p) =>
         /\ interrupted' = [interrupted EXCEPT ![p] = TRUE]
         /\ \/ pc' = pc
            \/ /\ pc[p] \in {"read", "send", "exit"}
               /\ pc' = [pc EXCEPT ![p] = Afterwards(p)]
  BY DEF Signalled, Blocked, Goto
<1> QED
  BY <1>1, <1>2 DEF pair

LEMMA InitHolds == ASSUME MqChatAssumption, Init PROVE IInv
<1>1. PICK crowd \in Crowds :
          /\ pc = [p \in Procs |-> IF p \in crowd.who THEN "off" ELSE "done"]
          /\ inputs = crowd.inputs
  BY DEF Init
<1>2. inputs \in Nat
  BY <1>1 DEF MqChatAssumption
<1>3. queue = <<>> /\ Len(queue) = 0
  BY DEF Init
<1>4. QueuesTyped
  BY <1>3 DEF QueuesTyped
<1>5. name \in [1..2 -> 0..Len(queue)]
  BY <1>3 DEF Init
<1>6. pc \in [Procs -> Stages] /\ \A p \in Procs : pc[p] \in {"off", "done"}
  BY <1>1 DEF Stages
<1>7. TypeInv
  <2>1. sendQueue \in [Procs -> 0..Len(queue)] /\ receiveQueue \in [Procs -> 0..Len(queue)]
    BY <1>3 DEF Init
  <2>2. /\ rpc \in [Procs -> {"none", "test", "receive", "ended"}]
        /\ stop \in [Procs -> BOOLEAN] /\ interrupted \in [Procs -> BOOLEAN]
        /\ isOwner \in [Procs -> BOOLEAN] /\ disturbed \in SUBSET Procs
    BY DEF Init
  <2> QED
    BY <1>2, <1>5, <1>6, <2>1, <2>2 DEF TypeInv
<1>8. /\ \A p \in Procs : rpc[p] = "none" /\ ~isOwner[p] /\ ~stop[p] /\ parting[p] = {}
      /\ parting \in [Procs -> SUBSET {"told", "heard", "failed"}]
  BY DEF Init
<1>9. StageInv
  BY <1>6, <1>8 DEF StageInv
<1>10. NameInv /\ RetryInv /\ MeetInv
  BY <1>6, <1>8 DEF NameInv, RetryInv, MeetInv, HoldsFirst, HoldsSecond
<1>11. PartInv
  BY <1>6, <1>8 DEF PartInv, Ways
<1> QED
  BY <1>4, <1>7, <1>8, <1>9, <1>10, <1>11 DEF IInv

\* Every step keeps the types, and a queue to its capacity.
LEMMA TypeStep ==
    ASSUME MqChatAssumption, IInv, [Next]_vars
    PROVE  TypeInv' /\ QueuesTyped' /\ parting' \in [Procs -> SUBSET {"told", "heard", "failed"}]
<1> USE DEF IInv
<1>0. Len(queue) \in Nat
  BY DEF QueuesTyped
<1>1. CASE \E p \in Procs : Start(p) \/ GiveUp(p) \/ Test(p) \/ Join(p) \/ TestStop(p) \/ Timeout(p)
  <2>1. PICK p \in Procs : Start(p) \/ GiveUp(p) \/ Test(p) \/ Join(p) \/ TestStop(p) \/ Timeout(p)
    BY <1>1
  <2>2. /\ stop' = stop /\ interrupted' = interrupted /\ sendQueue' = sendQueue
        /\ receiveQueue' = receiveQueue /\ isOwner' = isOwner /\ name' = name
        /\ queue' = queue /\ inputs' = inputs /\ parting' = parting /\ disturbed' = disturbed
    BY <2>1 DEF Start, GiveUp, Test, Join, TestStop, Timeout, pair, history
  <2>3. pc' \in [Procs -> Stages]
    BY ZenonT(40), <2>1 DEF Start, GiveUp, Test, Join, TestStop, Timeout, Goto, TypeInv, Stages, Opening
  <2>4. rpc' \in [Procs -> {"none", "test", "receive", "ended"}]
    BY <2>1 DEF Start, GiveUp, Test, Join, TestStop, Timeout, TypeInv
  <2> QED
    BY <2>2, <2>3, <2>4 DEF TypeInv, QueuesTyped
<1>2. CASE \E p \in Procs : CreateFirst(p)
  <2>1. PICK p \in Procs : CreateFirst(p)
    BY <1>2
  <2>2. /\ stop' = stop /\ interrupted' = interrupted /\ sendQueue' = sendQueue /\ rpc' = rpc
        /\ inputs' = inputs /\ parting' = parting /\ disturbed' = disturbed
    BY <2>1 DEF CreateFirst, history
  <2>3. pc' \in [Procs -> Stages] /\ isOwner' \in [Procs -> BOOLEAN]
    BY <2>1 DEF CreateFirst, Goto, TypeInv, Stages, Opening
  <2>4. QueuesTyped' /\ Len(queue') \in {Len(queue), Len(queue) + 1}
    BY <2>1, NewQueue DEF CreateFirst, QueuesTyped
  <2>5. /\ receiveQueue' \in [Procs -> 0..Len(queue')] /\ name' \in [1..2 -> 0..Len(queue')]
        /\ sendQueue \in [Procs -> 0..Len(queue')]
    <3>1. CASE name[1] = 0
      <4>1. Len(queue') = Len(queue) + 1
        BY <2>1, <3>1, NewQueue DEF CreateFirst
      <4>2. Len(queue) + 1 \in 0..Len(queue') /\ 0..Len(queue) \subseteq 0..Len(queue')
        BY <1>0, <4>1
      <4> QED
        BY <2>1, <3>1, <4>2 DEF CreateFirst, TypeInv
    <3> QED
      BY <2>1, <3>1 DEF CreateFirst, TypeInv
  <2> QED
    BY <2>2, <2>3, <2>4, <2>5 DEF TypeInv
<1>3. CASE \E p \in Procs : CreateSecond(p)
  <2>1. PICK p \in Procs : CreateSecond(p)
    BY <1>3
  <2>2. /\ stop' = stop /\ interrupted' = interrupted /\ receiveQueue' = receiveQueue
        /\ inputs' = inputs /\ parting' = parting /\ disturbed' = disturbed /\ isOwner' = isOwner
    BY <2>1 DEF CreateSecond, history
  <2>3. pc' \in [Procs -> Stages] /\ rpc' \in [Procs -> {"none", "test", "receive", "ended"}]
    BY ZenonT(40), <2>1 DEF CreateSecond, Goto, TypeInv, Stages, Opening
  <2>4. QueuesTyped' /\ Len(queue') \in {Len(queue), Len(queue) + 1}
    BY <2>1, NewQueue DEF CreateSecond, QueuesTyped
  <2>5. /\ sendQueue' \in [Procs -> 0..Len(queue')] /\ name' \in [1..2 -> 0..Len(queue')]
        /\ receiveQueue \in [Procs -> 0..Len(queue')]
    <3>1. CASE name[2] = 0
      <4>1. Len(queue') = Len(queue) + 1
        BY <2>1, <3>1, NewQueue DEF CreateSecond
      <4>2. Len(queue) + 1 \in 0..Len(queue') /\ 0..Len(queue) \subseteq 0..Len(queue')
        BY <1>0, <4>1
      <4> QED
        BY <2>1, <3>1, <4>2 DEF CreateSecond, TypeInv
    <3> QED
      BY <2>1, <3>1 DEF CreateSecond, TypeInv
  <2> QED
    BY <2>2, <2>3, <2>4, <2>5 DEF TypeInv
<1>4. CASE \E p \in Procs : Undo(p) \/ Unlink(p)
  <2>1. PICK p \in Procs : Undo(p) \/ Unlink(p)
    BY <1>4
  <2>2. /\ stop' = stop /\ interrupted' = interrupted /\ sendQueue' = sendQueue /\ rpc' = rpc
        /\ receiveQueue' = receiveQueue /\ queue' = queue /\ inputs' = inputs /\ parting' = parting
    BY <2>1 DEF Undo, Unlink, pair
  <2>3. pc' \in [Procs -> Stages] /\ isOwner' \in [Procs -> BOOLEAN] /\ disturbed' \in SUBSET Procs
    BY <2>1 DEF Undo, Unlink, Goto, pair, TypeInv, Stages, Opening
  <2>4. name' \in [1..2 -> 0..Len(queue)]
    BY <1>0, <2>1 DEF Undo, Unlink, TypeInv
  <2> QED
    BY <2>2, <2>3, <2>4 DEF TypeInv, QueuesTyped
<1>5. CASE \E p \in Procs : Attach(p) \/ Retry(p)
  <2>1. PICK p \in Procs : Attach(p) \/ Retry(p)
    BY <1>5
  <2>2. /\ stop' = stop /\ interrupted' = interrupted /\ isOwner' = isOwner /\ name' = name
        /\ queue' = queue /\ inputs' = inputs /\ parting' = parting /\ disturbed' = disturbed
    BY <2>1 DEF Attach, Retry, history
  <2>3. pc' \in [Procs -> Stages] /\ rpc' \in [Procs -> {"none", "test", "receive", "ended"}]
    BY <2>1 DEF Attach, Retry, Goto, TypeInv, Stages, Opening
  <2>4. name[1] \in 0..Len(queue) /\ name[2] \in 0..Len(queue)
    BY DEF TypeInv
  <2>5. sendQueue' \in [Procs -> 0..Len(queue)] /\ receiveQueue' \in [Procs -> 0..Len(queue)]
    BY <2>1, <2>4 DEF Attach, Retry, TypeInv
  <2> QED
    BY <2>2, <2>3, <2>5 DEF TypeInv, QueuesTyped
<1>6. CASE \E p \in Procs : ReadLine(p) \/ SendFailed(p) \/ Leave(p) \/ Interrupt(p)
  <2>1. PICK p \in Procs : ReadLine(p) \/ SendFailed(p) \/ Leave(p) \/ Interrupt(p)
    BY <1>6
  <2>2. /\ rpc' = rpc /\ sendQueue' = sendQueue /\ receiveQueue' = receiveQueue
        /\ isOwner' = isOwner /\ name' = name /\ queue' = queue /\ disturbed' = disturbed
    BY <2>1 DEF ReadLine, SendFailed, Leave, Interrupt, pair, history
  <2>3. pc' \in [Procs -> Stages]
    BY ZenonT(40), <2>1 DEF ReadLine, SendFailed, Leave, Interrupt, Signalled, Afterwards, Goto, TypeInv,
                Stages, Opening
  <2>4. stop' \in [Procs -> BOOLEAN] /\ interrupted' \in [Procs -> BOOLEAN]
    BY <2>1 DEF ReadLine, SendFailed, Leave, Interrupt, Signalled, TypeInv
  <2>5. inputs' \in Nat
    BY <2>1 DEF ReadLine, SendFailed, Leave, Interrupt, Input, TypeInv
  <2>6. parting' \in [Procs -> SUBSET {"told", "heard", "failed"}]
    BY <2>1 DEF ReadLine, SendFailed, Leave, Interrupt, Parts, history
  <2> QED
    BY <2>2, <2>3, <2>4, <2>5, <2>6 DEF TypeInv, QueuesTyped
<1>7. CASE \E p \in Procs : Send(p) \/ SendExit(p)
  <2>1. PICK p \in Procs : Send(p) \/ SendExit(p)
    BY <1>7
  <2>2. /\ rpc' = rpc /\ sendQueue' = sendQueue /\ receiveQueue' = receiveQueue
        /\ isOwner' = isOwner /\ name' = name /\ disturbed' = disturbed /\ inputs' = inputs
        /\ stop' = stop /\ interrupted' = interrupted
    BY <2>1 DEF Send, SendExit, pair, history
  <2>3. pc' \in [Procs -> Stages]
    BY ZenonT(40), <2>1 DEF Send, SendExit, Goto, TypeInv, Stages, Opening
  <2>4. sendQueue[p] \in 1..Len(queue)
    <3>1. sendQueue[p] \in 0..Len(queue)
      BY DEF TypeInv
    <3>2. pc[p] \in {"send", "exit"}
      BY <2>1 DEF Send, SendExit
    <3>3. sendQueue[p] # 0
      BY <3>2 DEF StageInv, Opening
    <3> QED
      BY <1>0, <3>1, <3>3
  <2>5. PICK m \in Message : Put(sendQueue[p], m) /\ ~Full(sendQueue[p])
    BY <2>1 DEF Send, SendExit, Message
  <2>6. QueuesTyped' /\ Len(queue') = Len(queue)
    BY <2>4, <2>5, PutTyped
  <2>7. parting' \in [Procs -> SUBSET {"told", "heard", "failed"}]
    BY <2>1 DEF Send, SendExit, history
  <2> QED
    BY <2>2, <2>3, <2>6, <2>7 DEF TypeInv
<1>8. CASE \E p \in Procs : Receive(p)
  <2>1. PICK p \in Procs : Receive(p)
    BY <1>8
  <2> DEFINE messages == queue[receiveQueue[p]]
             i == FirstToRead(messages)
  <2>2. /\ sendQueue' = sendQueue /\ receiveQueue' = receiveQueue /\ isOwner' = isOwner
        /\ name' = name /\ disturbed' = disturbed /\ inputs' = inputs
    BY <2>1 DEF Receive, pair
  <2>3. pc' \in [Procs -> Stages]
    <3>1. Afterwards(p) \in Stages
      BY DEF Afterwards, Stages
    <3>2. pc \in [Procs -> Stages]
      BY DEF TypeInv
    <3> QED
      BY <2>1, <3>1, <3>2, ReceiveEffect
  <2>4. receiveQueue[p] \in 1..Len(queue)
    BY <1>0, <2>1 DEF Receive, StageInv, TypeInv
  <2>5. i \in 1..Len(messages)
    <3>1. messages \in Seq(Message) /\ messages # <<>>
      BY <2>1, <2>4 DEF Receive, QueuesTyped
    <3> QED
      BY <3>1, FirstIsExit
  <2>6. queue' = [queue EXCEPT ![receiveQueue[p]] = RemoveAt(@, i)]
    BY <2>1 DEF Receive
  <2>7. QueuesTyped' /\ Len(queue') = Len(queue)
    BY <2>4, <2>5, <2>6, TakeTyped
  <2>8. /\ stop' \in [Procs -> BOOLEAN] /\ interrupted' \in [Procs -> BOOLEAN]
        /\ rpc' \in [Procs -> {"none", "test", "receive", "ended"}]
        /\ parting' \in [Procs -> SUBSET {"told", "heard", "failed"}]
    <3>1. /\ stop' \in [Procs -> BOOLEAN] /\ interrupted' \in [Procs -> BOOLEAN]
          /\ rpc' \in [Procs -> {"none", "test", "receive", "ended"}]
      BY <2>1, ReceiveEffect DEF TypeInv
    <3>2. parting' = parting \/ Parts(p, "heard")
      BY <2>1, ReceiveEffect
    <3>3. Parts(p, "heard") => parting' \in [Procs -> SUBSET {"told", "heard", "failed"}]
      BY DEF Parts
    <3> QED
      BY <3>1, <3>2, <3>3
  <2> QED
    BY <2>2, <2>3, <2>7, <2>8 DEF TypeInv
<1>9. CASE UNCHANGED vars
  BY <1>9 DEF vars, threads, pair, history, TypeInv, QueuesTyped
<1> QED
  BY <1>1, <1>2, <1>3, <1>4, <1>5, <1>6, <1>7, <1>8, <1>9 DEF Next, Open, Main, Receiver

\* What the threads do between opening and closing changes neither names nor owners.
Busy == {"test", "read", "send", "failed", "leave", "exit", "join"}
Chats(p) ==
    \/ Test(p) \/ ReadLine(p) \/ Send(p) \/ SendFailed(p) \/ Leave(p) \/ SendExit(p)
    \/ Interrupt(p) \/ Receiver(p)

LEMMA BusyEffect ==
    ASSUME TypeInv, NEW p \in Procs, Chats(p)
    PROVE  /\ sendQueue' = sendQueue /\ receiveQueue' = receiveQueue /\ isOwner' = isOwner
           /\ name' = name /\ disturbed' = disturbed
           /\ \A q \in Procs : rpc'[q] = "none" <=> rpc[q] = "none"
           /\ \A q \in Procs : pc'[q] = pc[q] \/ (pc[q] \in Busy /\ pc'[q] \in Busy)
<1>1. CASE Test(p) \/ ReadLine(p) \/ Send(p) \/ SendFailed(p) \/ Leave(p) \/ SendExit(p)
  <2>1. /\ UNCHANGED <<pair, name, disturbed>> /\ rpc' = rpc
        /\ pc[p] \in Busy /\ \E w \in Busy : pc' = [pc EXCEPT ![p] = w]
    BY <1>1 DEF Test, ReadLine, Send, SendFailed, Leave, SendExit, Goto, history, Busy
  <2> QED
    BY <2>1 DEF pair, TypeInv
<1>2. CASE Interrupt(p)
  <2>1. /\ UNCHANGED <<pair, name, disturbed>> /\ rpc' = rpc
        /\ \/ pc' = pc
           \/ pc[p] \in Busy /\ \E w \in Busy : pc' = [pc EXCEPT ![p] = w]
    BY <1>2 DEF Interrupt, Signalled, Blocked, Afterwards, Goto, history, Busy
  <2> QED
    BY <2>1 DEF pair, TypeInv
<1>3. CASE TestStop(p) \/ Timeout(p)
  <2>1. /\ UNCHANGED <<pair, name, disturbed>> /\ pc' = pc
        /\ rpc[p] # "none" /\ \E w \in {"test", "receive", "ended"} : rpc' = [rpc EXCEPT ![p] = w]
    BY <1>3 DEF TestStop, Timeout, history
  <2> QED
    BY <2>1 DEF pair, TypeInv
<1>4. CASE Receive(p)
  <2>1. pc[p] \in {"read", "send", "exit"} => pc[p] \in Busy /\ Afterwards(p) \in Busy
    BY DEF Afterwards, Busy
  <2>2. /\ sendQueue' = sendQueue /\ receiveQueue' = receiveQueue /\ isOwner' = isOwner
        /\ name' = name /\ disturbed' = disturbed /\ rpc[p] = "receive"
        /\ \E w \in {"test", "ended"} : rpc' = [rpc EXCEPT ![p] = w]
        /\ \/ pc' = pc
           \/ pc[p] \in {"read", "send", "exit"} /\ pc' = [pc EXCEPT ![p] = Afterwards(p)]
    BY <1>4, ReceiveEffect, Zenon
  <2> QED
    BY <2>1, <2>2 DEF TypeInv
<1> QED
  BY <1>1, <1>2, <1>3, <1>4 DEF Chats, Receiver

\* Every step keeps the stages.
LEMMA StageStep == ASSUME MqChatAssumption, IInv, [Next]_vars PROVE StageInv'
<1> USE DEF IInv
<1>1. CASE \E p \in Procs : Chats(p)
  <2>1. PICK p \in Procs : Chats(p)
    BY <1>1
  <2>2. /\ sendQueue' = sendQueue /\ receiveQueue' = receiveQueue /\ isOwner' = isOwner
        /\ \A q \in Procs : rpc'[q] = "none" <=> rpc[q] = "none"
        /\ \A q \in Procs : pc'[q] = pc[q] \/ (pc[q] \in Busy /\ pc'[q] \in Busy)
    BY <2>1, BusyEffect
  <2> QED
    BY <2>2 DEF StageInv, Busy, Opening
<1>2. CASE \E p \in Procs : Start(p)
  BY <1>2 DEF Start, Goto, pair, TypeInv, StageInv, Opening
<1>3. CASE \E p \in Procs : GiveUp(p)
  BY <1>3 DEF GiveUp, Goto, pair, TypeInv, StageInv, Opening
<1>4. CASE \E p \in Procs : Join(p)
  BY <1>4 DEF Join, Goto, pair, TypeInv, StageInv, Opening
<1>5. CASE \E p \in Procs : CreateFirst(p)
  <2>1. PICK p \in Procs : CreateFirst(p)
    BY <1>5
  <2>2. PICK n : n # 0 /\ n = Len(queue) + 1
    BY DEF QueuesTyped
  <2>3. rpc' = rpc /\ sendQueue' = sendQueue /\ pc[p] = "create"
    BY <2>1 DEF CreateFirst
  <2>4. \/ /\ pc' = [pc EXCEPT ![p] = "second"] /\ isOwner' = [isOwner EXCEPT ![p] = TRUE]
           /\ receiveQueue' = [receiveQueue EXCEPT ![p] = n]
        \/ /\ pc' = [pc EXCEPT ![p] = "attach"] /\ isOwner' = isOwner
           /\ receiveQueue' = receiveQueue
    BY <2>1, <2>2 DEF CreateFirst, Goto
  <2>5. rpc[p] = "none" /\ ~isOwner[p]
    BY <2>3 DEF StageInv, Opening
  <2>6. CASE pc' = [pc EXCEPT ![p] = "second"]
    BY <2>2, <2>3, <2>4, <2>5, <2>6 DEF TypeInv, StageInv, Opening
  <2>7. CASE pc' = [pc EXCEPT ![p] = "attach"]
    <3>1. isOwner' = isOwner /\ receiveQueue' = receiveQueue
      BY <2>3, <2>4, <2>7 DEF TypeInv
    <3> QED
      BY <2>3, <2>5, <2>7, <3>1 DEF TypeInv, StageInv, Opening
  <2> QED
    BY <2>4, <2>6, <2>7
<1>6. CASE \E p \in Procs : CreateSecond(p)
  <2>1. PICK p \in Procs : CreateSecond(p)
    BY <1>6
  <2>2. PICK n : n # 0 /\ n = Len(queue) + 1
    BY DEF QueuesTyped
  <2>3. isOwner' = isOwner /\ receiveQueue' = receiveQueue /\ pc[p] = "second"
    BY <2>1 DEF CreateSecond
  <2>4. \/ /\ pc' = [pc EXCEPT ![p] = "test"] /\ rpc' = [rpc EXCEPT ![p] = "test"]
           /\ sendQueue' = [sendQueue EXCEPT ![p] = n]
        \/ pc' = [pc EXCEPT ![p] = "undo"] /\ rpc' = rpc /\ sendQueue' = sendQueue
    BY <2>1, <2>2 DEF CreateSecond, Goto
  <2>5. isOwner[p] /\ receiveQueue[p] # 0
    BY <2>3 DEF StageInv
  <2> QED
    BY <2>2, <2>3, <2>4, <2>5 DEF TypeInv, StageInv, Opening
<1>7. CASE \E p \in Procs : Undo(p)
  BY <1>7 DEF Undo, Goto, TypeInv, StageInv, Opening
<1>8. CASE \E p \in Procs : Unlink(p)
  BY <1>8 DEF Unlink, Goto, pair, TypeInv, StageInv, Opening
<1>9. CASE \E p \in Procs : Attach(p)
  BY <1>9 DEF Attach, Goto, TypeInv, StageInv, Opening
<1>10. CASE \E p \in Procs : Retry(p)
  <2>1. PICK p \in Procs : Retry(p)
    BY <1>10
  <2>2. sendQueue[p] # 0 /\ name[2] # 0
    BY <2>1 DEF Retry, StageInv
  <2> QED
    BY <2>1, <2>2 DEF Retry, Goto, TypeInv, StageInv, Opening
<1>11. CASE UNCHANGED vars
  BY <1>11 DEF vars, threads, pair, StageInv, Opening
<1> QED
  BY <1>1, <1>2, <1>3, <1>4, <1>5, <1>6, <1>7, <1>8, <1>9, <1>10, <1>11
     DEF Next, Open, Main, Chats, Receiver

\* At most one owner holds each name, and the name refers to its queue.
LEMMA NameStep == ASSUME MqChatAssumption, IInv, [Next]_vars PROVE NameInv'
<1> USE DEF IInv
<1>0. Len(queue) \in Nat
  BY DEF QueuesTyped
<1>1. CASE \E p \in Procs : Chats(p)
  <2>1. PICK p \in Procs : Chats(p)
    BY <1>1
  <2>2. /\ sendQueue' = sendQueue /\ receiveQueue' = receiveQueue /\ isOwner' = isOwner
        /\ name' = name
        /\ \A q \in Procs : pc'[q] = pc[q] \/ (pc[q] \in Busy /\ pc'[q] \in Busy)
    BY <2>1, BusyEffect
  <2> QED
    BY <2>2 DEF NameInv, HoldsFirst, HoldsSecond, Busy
<1>2. CASE \E p \in Procs : Start(p) \/ GiveUp(p)
  <2>1. PICK p \in Procs : Start(p) \/ GiveUp(p)
    BY <1>2
  <2>2. ~isOwner[p] /\ UNCHANGED <<pair, name>> /\ \E w : pc' = [pc EXCEPT ![p] = w]
    BY <2>1 DEF Start, GiveUp, Goto, StageInv
  <2> QED
    BY <2>2 DEF pair, TypeInv, NameInv, HoldsFirst, HoldsSecond
<1>3. CASE \E p \in Procs : Join(p)
  BY <1>3 DEF Join, Goto, pair, TypeInv, NameInv, HoldsFirst, HoldsSecond
<1>4. CASE \E p \in Procs : CreateFirst(p)
  <2>1. PICK p \in Procs : CreateFirst(p)
    BY <1>4
  <2>2. ~isOwner[p] /\ sendQueue' = sendQueue
    BY <2>1 DEF CreateFirst, StageInv
  <2>3. CASE name[1] # 0
    <3>1. /\ pc' = [pc EXCEPT ![p] = "attach"] /\ isOwner' = isOwner /\ name' = name
          /\ receiveQueue' = receiveQueue
      BY <2>1, <2>3 DEF CreateFirst, Goto
    <3> QED
      BY <2>2, <3>1 DEF TypeInv, NameInv, HoldsFirst, HoldsSecond
  <2>4. CASE name[1] = 0
    <3>1. PICK n : n = Len(queue) + 1
      OBVIOUS
    <3>2. /\ pc' = [pc EXCEPT ![p] = "second"] /\ isOwner' = [isOwner EXCEPT ![p] = TRUE]
          /\ receiveQueue' = [receiveQueue EXCEPT ![p] = n] /\ name' = [name EXCEPT ![1] = n]
      BY <2>1, <2>4, <3>1 DEF CreateFirst, Goto
    <3>3. \A q \in Procs : receiveQueue[q] # n
      BY <1>0, <3>1 DEF TypeInv
    <3>4. \A q \in Procs : ~HoldsFirst(q)
      BY <2>4 DEF NameInv, HoldsFirst, StageInv
    <3>5. \A q \in Procs : q # p => /\ pc'[q] = pc[q] /\ isOwner'[q] = isOwner[q]
                                    /\ receiveQueue'[q] = receiveQueue[q]
      BY <3>2 DEF TypeInv
    <3>6. /\ pc'[p] = "second" /\ isOwner'[p] /\ receiveQueue'[p] = n /\ name'[1] = n
          /\ name'[2] = name[2]
      BY <3>2 DEF TypeInv
    <3>7. \A q \in Procs : HoldsFirst(q)' <=> q = p
      BY <3>4, <3>5, <3>6 DEF HoldsFirst
    <3>8. \A q \in Procs : HoldsSecond(q)' <=> HoldsSecond(q)
      BY <2>2, <3>5, <3>6 DEF HoldsSecond
    <3> QED
      BY <2>2, <3>3, <3>5, <3>6, <3>7, <3>8 DEF NameInv
  <2> QED
    BY <2>3, <2>4
<1>5. CASE \E p \in Procs : CreateSecond(p)
  <2>1. PICK p \in Procs : CreateSecond(p)
    BY <1>5
  <2>2. isOwner[p] /\ isOwner' = isOwner /\ receiveQueue' = receiveQueue /\ pc[p] = "second"
    BY <2>1 DEF CreateSecond, StageInv
  <2>3. CASE name[2] # 0
    <3>1. pc' = [pc EXCEPT ![p] = "undo"] /\ name' = name /\ sendQueue' = sendQueue
      BY <2>1, <2>3 DEF CreateSecond, Goto
    <3> QED
      BY <2>2, <3>1 DEF TypeInv, NameInv, HoldsFirst, HoldsSecond
  <2>4. CASE name[2] = 0
    <3>1. PICK n : n = Len(queue) + 1
      OBVIOUS
    <3>2. /\ pc' = [pc EXCEPT ![p] = "test"] /\ sendQueue' = [sendQueue EXCEPT ![p] = n]
          /\ name' = [name EXCEPT ![2] = n]
      BY <2>1, <2>4, <3>1 DEF CreateSecond, Goto
    <3>3. \A q \in Procs : HoldsSecond(q) => rpc[q] # "none"
      BY DEF HoldsSecond, StageInv, Opening
    <3>4. \A q \in Procs : ~HoldsSecond(q)
      BY <2>4, <3>3 DEF NameInv, StageInv
    <3>5. \A q \in Procs : q # p => pc'[q] = pc[q] /\ sendQueue'[q] = sendQueue[q]
      BY <3>2 DEF TypeInv
    <3>6. pc'[p] = "test" /\ sendQueue'[p] = n /\ name'[1] = name[1] /\ name'[2] = n
      BY <3>2 DEF TypeInv
    <3>7. \A q \in Procs : HoldsSecond(q)' <=> q = p
      BY <2>2, <3>4, <3>5, <3>6 DEF HoldsSecond
    <3>8. \A q \in Procs : HoldsFirst(q)' <=> HoldsFirst(q)
      BY <2>2, <3>5, <3>6 DEF HoldsFirst
    <3> QED
      BY <2>2, <3>5, <3>6, <3>7, <3>8 DEF NameInv
  <2> QED
    BY <2>3, <2>4
<1>6. CASE \E p \in Procs : Undo(p)
  <2>1. PICK p \in Procs : Undo(p)
    BY <1>6
  <2>2. /\ isOwner[p] /\ isOwner' = [isOwner EXCEPT ![p] = FALSE] /\ receiveQueue' = receiveQueue
        /\ sendQueue' = sendQueue /\ pc[p] = "undo" /\ pc' = [pc EXCEPT ![p] = "done"]
        /\ name' = [name EXCEPT ![1] = 0]
    BY <2>1 DEF Undo, Goto, StageInv
  <2>3. HoldsFirst(p) /\ ~HoldsSecond(p)
    BY <2>2 DEF HoldsFirst, HoldsSecond
  <2>4. name'[1] = 0 /\ name'[2] = name[2]
    BY <2>2 DEF TypeInv
  <2>5. \A q \in Procs : q # p => pc'[q] = pc[q] /\ isOwner'[q] = isOwner[q]
    BY <2>2 DEF TypeInv
  <2>6. ~isOwner'[p]
    BY <2>2 DEF TypeInv
  <2>7. \A q \in Procs : ~HoldsFirst(q)'
    BY <2>3, <2>5, <2>6 DEF HoldsFirst, NameInv
  <2>8. \A q \in Procs : HoldsSecond(q)' <=> HoldsSecond(q)
    BY <2>3, <2>5, <2>6 DEF HoldsSecond
  <2>9. \A q \in Procs : isOwner'[q] => name'[1] # receiveQueue'[q]
    BY <2>2, <2>4, <2>5, <2>6 DEF StageInv
  <2> QED
    BY <2>2, <2>4, <2>7, <2>8, <2>9 DEF NameInv
<1>7. CASE \E p \in Procs : Unlink(p)
  <2>1. PICK p \in Procs : Unlink(p)
    BY <1>7
  <2>2. isOwner[p] /\ isOwner' = isOwner /\ receiveQueue' = receiveQueue /\ sendQueue' = sendQueue
    BY <2>1 DEF Unlink, StageInv, pair
  <2>3. CASE pc[p] = "unlink1"
    <3>1. pc' = [pc EXCEPT ![p] = "unlink2"] /\ name' = [name EXCEPT ![1] = 0]
      BY <2>1, <2>3 DEF Unlink, Goto
    <3>2. name'[1] = 0 /\ name'[2] = name[2] /\ pc'[p] = "unlink2"
      BY <3>1 DEF TypeInv
    <3>3. \A q \in Procs : q # p => pc'[q] = pc[q]
      BY <3>1 DEF TypeInv
    <3>4. HoldsFirst(p)
      BY <2>2, <2>3 DEF HoldsFirst
    <3>5. \A q \in Procs : ~HoldsFirst(q)'
      BY <2>2, <3>2, <3>3, <3>4 DEF HoldsFirst, NameInv
    <3>6. \A q \in Procs : HoldsSecond(q)' <=> HoldsSecond(q)
      BY <2>2, <2>3, <3>2, <3>3 DEF HoldsSecond
    <3>7. \A q \in Procs : isOwner'[q] => name'[1] # receiveQueue'[q]
      BY <2>2, <3>2 DEF StageInv
    <3> QED
      BY <2>2, <3>2, <3>5, <3>6, <3>7 DEF NameInv
  <2>4. CASE pc[p] = "unlink2"
    <3>1. pc' = [pc EXCEPT ![p] = "done"] /\ name' = [name EXCEPT ![2] = 0]
      BY <2>1, <2>4 DEF Unlink, Goto
    <3>2. name'[2] = 0 /\ name'[1] = name[1] /\ pc'[p] = "done"
      BY <3>1 DEF TypeInv
    <3>3. \A q \in Procs : q # p => pc'[q] = pc[q]
      BY <3>1 DEF TypeInv
    <3>4. HoldsSecond(p)
      BY <2>2, <2>4 DEF HoldsSecond
    <3>5. \A q \in Procs : ~HoldsSecond(q)'
      BY <2>2, <3>2, <3>3, <3>4 DEF HoldsSecond, NameInv
    <3>6. \A q \in Procs : HoldsFirst(q)' <=> HoldsFirst(q)
      BY <2>2, <2>4, <3>2, <3>3 DEF HoldsFirst
    <3>7. \A q \in Procs : isOwner[q] /\ pc'[q] \in {"unlink2", "done"} => name[1] # receiveQueue[q]
      BY <2>2, <2>4, <3>2, <3>3 DEF NameInv
    <3> QED
      BY <2>2, <3>2, <3>5, <3>6, <3>7 DEF NameInv
  <2> QED
    BY <2>1, <2>3, <2>4 DEF Unlink
<1>8. CASE \E p \in Procs : Attach(p) \/ Retry(p)
  <2>1. PICK p \in Procs : Attach(p) \/ Retry(p)
    BY <1>8
  <2>2. ~isOwner[p] /\ isOwner' = isOwner /\ name' = name
    BY <2>1 DEF Attach, Retry, StageInv
  <2>3. \A q \in Procs : q # p => /\ pc'[q] = pc[q] /\ sendQueue'[q] = sendQueue[q]
                                  /\ receiveQueue'[q] = receiveQueue[q]
    BY <2>1 DEF Attach, Retry, Goto, TypeInv
  <2> QED
    BY <2>2, <2>3 DEF NameInv, HoldsFirst, HoldsSecond
<1>9. CASE UNCHANGED vars
  BY <1>9 DEF vars, threads, pair, NameInv, HoldsFirst, HoldsSecond
<1> QED
  BY <1>1, <1>2, <1>3, <1>4, <1>5, <1>6, <1>7, <1>8, <1>9 DEF Next, Open, Main, Chats, Receiver

\* An undisturbed process finds the same queue behind the first name when it tries again.
LEMMA RetryStep == ASSUME MqChatAssumption, IInv, [Next]_vars PROVE RetryInv'
<1> USE DEF IInv
<1>1. CASE \E p \in Procs : Chats(p)
  <2>1. PICK p \in Procs : Chats(p)
    BY <1>1
  <2>2. /\ sendQueue' = sendQueue /\ name' = name /\ disturbed' = disturbed
        /\ \A q \in Procs : pc'[q] = pc[q] \/ (pc[q] \in Busy /\ pc'[q] \in Busy)
    BY <2>1, BusyEffect
  <2> QED
    BY <2>2 DEF RetryInv, Busy
<1>2. CASE \E p \in Procs : Start(p) \/ GiveUp(p) \/ Join(p)
  <2>1. PICK p \in Procs : Start(p) \/ GiveUp(p) \/ Join(p)
    BY <1>2
  <2>2. UNCHANGED <<pair, name, disturbed>> /\ \E w : pc' = [pc EXCEPT ![p] = w] /\ w # "retry"
    BY <2>1 DEF Start, GiveUp, Join, Goto, history
  <2> QED
    BY <2>2 DEF pair, TypeInv, RetryInv
<1>3. CASE \E p \in Procs : CreateFirst(p)
  <2>1. PICK p \in Procs : CreateFirst(p)
    BY <1>3
  <2>2. /\ sendQueue' = sendQueue /\ disturbed' = disturbed /\ (name[1] # 0 => name' = name)
        /\ \E w : pc' = [pc EXCEPT ![p] = w] /\ w # "retry"
    BY <2>1 DEF CreateFirst, Goto, history
  <2>3. (\E r \in Procs \ disturbed : pc[r] = "retry") => name[1] # 0
    BY DEF RetryInv, StageInv
  <2> QED
    BY <2>2, <2>3 DEF TypeInv, RetryInv
<1>4. CASE \E p \in Procs : CreateSecond(p)
  <2>1. PICK p \in Procs : CreateSecond(p)
    BY <1>4
  <2>2. /\ disturbed' = disturbed /\ name'[1] = name[1]
        /\ \E w : pc' = [pc EXCEPT ![p] = w] /\ w # "retry"
    BY <2>1 DEF CreateSecond, Goto, history, TypeInv
  <2>3. \A q \in Procs : q # p => sendQueue'[q] = sendQueue[q]
    BY <2>1 DEF CreateSecond, TypeInv
  <2> QED
    BY <2>2, <2>3 DEF TypeInv, RetryInv
<1>5. CASE \E p \in Procs : Undo(p) \/ Unlink(p)
  <2>1. PICK p \in Procs : Undo(p) \/ Unlink(p)
    BY <1>5
  <2>2. /\ disturbed' = disturbed \union {q \in Procs : pc[q] \in Opening}
        /\ \E w : pc' = [pc EXCEPT ![p] = w] /\ w # "retry"
    BY <2>1 DEF Undo, Unlink, Goto
  <2> QED
    BY <2>2 DEF TypeInv, RetryInv, Opening
<1>6. CASE \E p \in Procs : Attach(p)
  <2>1. PICK p \in Procs : Attach(p)
    BY <1>6
  <2>2. /\ disturbed' = disturbed /\ name' = name
        /\ sendQueue' = [sendQueue EXCEPT ![p] = name[1]] /\ \E w : pc' = [pc EXCEPT ![p] = w]
    BY <2>1 DEF Attach, Goto, history
  <2> QED
    BY <2>2 DEF TypeInv, RetryInv
<1>7. CASE \E p \in Procs : Retry(p)
  BY <1>7 DEF Retry, Goto, history, TypeInv, RetryInv
<1>8. CASE UNCHANGED vars
  BY <1>8 DEF vars, threads, pair, history, RetryInv
<1> QED
  BY <1>1, <1>2, <1>3, <1>4, <1>5, <1>6, <1>7, <1>8 DEF Next, Open, Main, Chats, Receiver

\* Who attached to an owner's first queue has its second one, or stops it from having one.
LEMMA MeetStep == ASSUME MqChatAssumption, IInv, [Next]_vars PROVE MeetInv'
<1> USE DEF IInv
<1>0. Len(queue) \in Nat
  BY DEF QueuesTyped
<1>1. CASE \E p \in Procs : Chats(p)
  <2>1. PICK p \in Procs : Chats(p)
    BY <1>1
  <2>2. /\ sendQueue' = sendQueue /\ receiveQueue' = receiveQueue /\ isOwner' = isOwner
        /\ name' = name /\ disturbed' = disturbed
        /\ \A q \in Procs : rpc'[q] = "none" <=> rpc[q] = "none"
        /\ \A q \in Procs : pc'[q] = pc[q] \/ (pc[q] \in Busy /\ pc'[q] \in Busy)
    BY <2>1, BusyEffect
  <2> QED
    BY <2>2 DEF MeetInv, Busy, Opening
<1>2. CASE \E p \in Procs : Start(p) \/ GiveUp(p)
  <2>1. PICK p \in Procs : Start(p) \/ GiveUp(p)
    BY <1>2
  <2>2. /\ ~isOwner[p] /\ UNCHANGED <<pair, name, disturbed, rpc>>
        /\ \E w : pc' = [pc EXCEPT ![p] = w]
    BY <2>1 DEF Start, GiveUp, Goto, StageInv, history
  <2> QED
    BY <2>2 DEF pair, TypeInv, MeetInv
<1>3. CASE \E p \in Procs : Join(p)
  <2>1. PICK p \in Procs : Join(p)
    BY <1>3
  <2>2. /\ pc[p] = "join" /\ UNCHANGED <<pair, name, disturbed, rpc>>
        /\ \E w \in {"unlink1", "done"} : pc' = [pc EXCEPT ![p] = w]
    BY <2>1 DEF Join, Goto, history
  <2> QED
    BY <2>2 DEF pair, TypeInv, MeetInv, Opening
<1>4. CASE \E p \in Procs : CreateFirst(p)
  <2>1. PICK p \in Procs : CreateFirst(p)
    BY <1>4
  <2>2. /\ ~isOwner[p] /\ sendQueue' = sendQueue /\ rpc' = rpc /\ disturbed' = disturbed
    BY <2>1 DEF CreateFirst, StageInv, history
  <2>3. name'[2] = name[2]
    BY <2>1 DEF CreateFirst, TypeInv
  <2>4. \A q \in Procs : q # p => /\ pc'[q] = pc[q] /\ isOwner'[q] = isOwner[q]
                                  /\ receiveQueue'[q] = receiveQueue[q]
    BY <2>1 DEF CreateFirst, Goto, TypeInv
  <2>5. isOwner'[p] => \A r \in Procs : sendQueue[r] # receiveQueue'[p]
    <3> SUFFICES ASSUME isOwner'[p], NEW r \in Procs PROVE sendQueue[r] # receiveQueue'[p]
      OBVIOUS
    <3>1. receiveQueue'[p] = Len(queue) + 1
      BY <2>1, <2>2 DEF CreateFirst, TypeInv
    <3>2. sendQueue[r] \in 0..Len(queue)
      BY DEF TypeInv
    <3> QED
      BY <1>0, <3>1, <3>2
  <2>6. receiveQueue'[p] = receiveQueue[p] \/ isOwner'[p]
    BY <2>1 DEF CreateFirst, TypeInv
  <2> QED
    BY <2>2, <2>3, <2>4, <2>5, <2>6 DEF MeetInv
<1>5. CASE \E p \in Procs : CreateSecond(p)
  <2>1. PICK p \in Procs : CreateSecond(p)
    BY <1>5
  <2>2. /\ isOwner[p] /\ isOwner' = isOwner /\ receiveQueue' = receiveQueue /\ pc[p] = "second"
        /\ disturbed' = disturbed
    BY <2>1 DEF CreateSecond, StageInv, history
  <2>3. \A q \in Procs : q # p => /\ pc'[q] = pc[q] /\ sendQueue'[q] = sendQueue[q]
                                  /\ rpc'[q] = rpc[q]
    BY <2>1 DEF CreateSecond, Goto, TypeInv
  <2>4. name[2] # 0 => name'[2] # 0 /\ pc'[p] = "undo"
    BY <2>1 DEF CreateSecond, Goto, TypeInv
  <2>5. name'[2] # 0
    <3>1. CASE name[2] = 0
      <4>1. PICK n : n = Len(queue) + 1 /\ n # 0
        BY <1>0
      <4>2. name' = [name EXCEPT ![2] = n]
        BY <2>1, <3>1, <4>1 DEF CreateSecond
      <4> QED
        BY <4>1, <4>2 DEF TypeInv
    <3> QED
      BY <2>4, <3>1
  <2>6. pc'[p] # "second"
    BY <2>1 DEF CreateSecond, Goto, TypeInv
  <2>7. \A r \in Procs \ disturbed :
           p \notin disturbed /\ ~isOwner[r] /\ rpc[r] # "none" /\ sendQueue[r] = receiveQueue[p]
              => name[2] # 0
    BY <2>2 DEF MeetInv
  <2> QED
    BY <2>2, <2>3, <2>4, <2>5, <2>6, <2>7 DEF MeetInv
<1>6. CASE \E p \in Procs : Undo(p)
  <2>1. PICK p \in Procs : Undo(p)
    BY <1>6
  <2>2. /\ rpc' = rpc /\ isOwner' = [isOwner EXCEPT ![p] = FALSE] /\ receiveQueue' = receiveQueue
        /\ sendQueue' = sendQueue /\ pc[p] = "undo" /\ pc' = [pc EXCEPT ![p] = "done"]
        /\ name' = [name EXCEPT ![1] = 0] /\ disturbed \subseteq disturbed'
    BY <2>1 DEF Undo, Goto
  <2>3. rpc[p] = "none"
    BY <2>2 DEF StageInv
  <2> QED
    BY <2>2, <2>3 DEF TypeInv, MeetInv
<1>7. CASE \E p \in Procs : Unlink(p)
  <2>1. PICK p \in Procs : Unlink(p)
    BY <1>7
  <2>2. /\ rpc' = rpc /\ isOwner' = isOwner /\ receiveQueue' = receiveQueue
        /\ sendQueue' = sendQueue /\ pc[p] \in {"unlink1", "unlink2"}
        /\ \E w \in {"unlink2", "done"} : pc' = [pc EXCEPT ![p] = w]
        /\ disturbed' = disturbed \union {q \in Procs : pc[q] \in Opening}
    BY <2>1 DEF Unlink, Goto, pair
  <2>3. \A q \in Procs \ disturbed' : pc'[q] # "second" /\ q \notin disturbed
    BY <2>2 DEF TypeInv, Opening
  <2>4. \A q \in Procs : pc'[q] \notin Opening \union {"undo", "done"} =>
            pc[q] \notin Opening \union {"undo", "done"}
    BY <2>2 DEF TypeInv, Opening
  <2> QED
    BY <2>2, <2>3, <2>4 DEF MeetInv
<1>8. CASE \E p \in Procs : Attach(p)
  <2>1. PICK p \in Procs : Attach(p)
    BY <1>8
  <2>2. /\ ~isOwner[p] /\ rpc[p] = "none" /\ UNCHANGED <<isOwner, name, rpc, receiveQueue, disturbed>>
    BY <2>1 DEF Attach, StageInv, Opening, history
  <2>3. \A q \in Procs : q # p => pc'[q] = pc[q] /\ sendQueue'[q] = sendQueue[q]
    BY <2>1 DEF Attach, Goto, TypeInv
  <2> QED
    BY <2>2, <2>3 DEF MeetInv
<1>9. CASE \E p \in Procs : Retry(p)
  <2>1. PICK p \in Procs : Retry(p)
    BY <1>9
  <2>2. /\ ~isOwner[p] /\ pc[p] = "retry" /\ UNCHANGED <<isOwner, name, sendQueue, disturbed>>
        /\ name[2] # 0 /\ receiveQueue'[p] = name[2]
    BY <2>1 DEF Retry, StageInv, history, TypeInv
  <2>3. \A q \in Procs : q # p => /\ pc'[q] = pc[q] /\ receiveQueue'[q] = receiveQueue[q]
                                  /\ rpc'[q] = rpc[q]
    BY <2>1 DEF Retry, Goto, TypeInv
  <2>4. ASSUME NEW q \in Procs, p \notin disturbed, isOwner[q], sendQueue[p] = receiveQueue[q],
               pc[q] \notin Opening \union {"undo", "done"}
        PROVE  name[2] = sendQueue[q]
    <3>1. name[1] = receiveQueue[q]
      BY <2>2, <2>4 DEF RetryInv
    <3>2. HoldsSecond(q)
      BY <2>4, <3>1 DEF NameInv, HoldsSecond, Opening
    <3> QED
      BY <3>2 DEF NameInv
  <2> QED
    BY <2>2, <2>3, <2>4 DEF MeetInv
<1>10. CASE UNCHANGED vars
  BY <1>10 DEF vars, threads, pair, history, MeetInv
<1> QED
  BY <1>1, <1>2, <1>3, <1>4, <1>5, <1>6, <1>7, <1>8, <1>9, <1>10
     DEF Next, Open, Main, Chats, Receiver

\* The first reason to stop sets the flag, and the second one finds it set.
LEMMA PartStep == ASSUME MqChatAssumption, IInv, [Next]_vars PROVE PartInv'
<1> USE DEF IInv
<1>1. CASE \E p \in Procs : Start(p) \/ Open(p)
  <2>1. PICK p \in Procs : Start(p) \/ Open(p)
    BY <1>1
  <2>2. stop' = stop /\ interrupted' = interrupted /\ parting' = parting
    BY <2>1 DEF Start, Open, CreateFirst, CreateSecond, Undo, Attach, Retry, GiveUp, history
  <2>3. /\ pc[p] \in Opening \union {"off", "undo"}
        /\ \E w \in Opening \union {"undo", "test", "done"} : pc' = [pc EXCEPT ![p] = w]
    BY <2>1 DEF Start, Open, CreateFirst, CreateSecond, Undo, Attach, Retry, GiveUp, Goto, Opening
  <2>4. rpc[p] = "none" /\ pc[p] # "exit"
    BY <2>3 DEF StageInv, Opening
  <2>5. pc'[p] = "done" => rpc' = rpc
    BY <2>1 DEF Start, Open, CreateFirst, CreateSecond, Undo, Attach, Retry, GiveUp, Goto, TypeInv
  <2>6. \A q \in Procs : q # p => rpc'[q] = rpc[q] /\ pc'[q] = pc[q]
    BY <2>1 DEF Start, Open, CreateFirst, CreateSecond, Undo, Attach, Retry, GiveUp, Goto, TypeInv
  <2>7. pc'[p] \notin {"exit", "join", "unlink1", "unlink2"} /\ (pc'[p] = "done" => rpc'[p] = "none")
    BY <2>3, <2>4, <2>5 DEF TypeInv, Opening
  <2> QED
    BY <2>2, <2>4, <2>6, <2>7 DEF PartInv
<1>2. CASE \E p \in Procs : Test(p) \/ ReadLine(p) \/ Send(p) \/ Join(p) \/ Unlink(p)
  <2>1. PICK p \in Procs : Test(p) \/ ReadLine(p) \/ Send(p) \/ Join(p) \/ Unlink(p)
    BY <1>2
  <2>2. /\ stop' = stop /\ interrupted' = interrupted /\ parting' = parting /\ rpc' = rpc
        /\ pc[p] # "exit"
        /\ \E w \in {"leave", "read", "send", "test", "unlink1", "unlink2", "done"} :
               /\ pc' = [pc EXCEPT ![p] = w]
               /\ w \in {"unlink1", "unlink2", "done"} => pc[p] \in {"join", "unlink1", "unlink2"}
    BY <2>1 DEF Test, ReadLine, Send, Join, Unlink, Goto, history
  <2> QED
    BY <2>2 DEF TypeInv, PartInv
<1>3. CASE \E p \in Procs : SendFailed(p)
  <2>1. PICK p \in Procs : SendFailed(p)
    BY <1>3
  <2>2. /\ stop' = [stop EXCEPT ![p] = TRUE] /\ interrupted' = interrupted /\ rpc' = rpc
        /\ pc' = [pc EXCEPT ![p] = "leave"] /\ pc[p] = "failed"
        /\ parting' = [parting EXCEPT ![p] = IF stop[p] THEN @ ELSE @ \union {"failed"}]
    BY <2>1 DEF SendFailed, Goto, Parts
  <2>3. \A q \in Procs : q # p => /\ stop'[q] = stop[q] /\ pc'[q] = pc[q]
                                  /\ parting'[q] = parting[q]
    BY <2>2 DEF TypeInv
  <2>4. stop'[p] /\ pc'[p] = "leave"
    BY <2>2 DEF TypeInv
  <2>5. CASE stop[p]
    BY <2>2, <2>3, <2>4, <2>5 DEF PartInv
  <2>6. CASE ~stop[p]
    <3>1. parting'[p] = {"failed"}
      BY <2>2, <2>6 DEF PartInv
    <3> QED
      BY <2>2, <2>3, <2>4, <3>1 DEF PartInv, Ways
  <2> QED
    BY <2>5, <2>6
<1>4. CASE \E p \in Procs : Leave(p)
  <2>1. PICK p \in Procs : Leave(p)
    BY <1>4
  <2>2. /\ stop' = [stop EXCEPT ![p] = TRUE] /\ interrupted' = interrupted /\ rpc' = rpc
        /\ pc' = [pc EXCEPT ![p] = IF stop[p] THEN "join" ELSE "exit"] /\ pc[p] = "leave"
        /\ parting' = parting
    BY <2>1 DEF Leave, WasStopped, Goto, history
  <2>3. \A q \in Procs : q # p => stop'[q] = stop[q] /\ pc'[q] = pc[q]
    BY <2>2 DEF TypeInv
  <2>4. stop'[p] /\ pc'[p] = IF stop[p] THEN "join" ELSE "exit"
    BY <2>2 DEF TypeInv
  <2> QED
    BY <2>2, <2>3, <2>4 DEF PartInv
<1>5. CASE \E p \in Procs : SendExit(p)
  <2>1. PICK p \in Procs : SendExit(p)
    BY <1>5
  <2>2. /\ stop' = stop /\ interrupted' = interrupted /\ rpc' = rpc
        /\ pc' = [pc EXCEPT ![p] = "join"] /\ pc[p] = "exit"
        /\ parting' = [parting EXCEPT ![p] = @ \union {"told"}]
    BY <2>1 DEF SendExit, Goto
  <2>3. \A q \in Procs : q # p => pc'[q] = pc[q] /\ parting'[q] = parting[q]
    BY <2>2 DEF TypeInv
  <2>4. stop[p] /\ pc'[p] = "join" /\ parting'[p] = {"told"}
    BY <2>2 DEF TypeInv, PartInv
  <2> QED
    BY <2>2, <2>3, <2>4 DEF PartInv, Ways
<1>6. CASE \E p \in Procs : Interrupt(p)
  <2>1. PICK p \in Procs : Interrupt(p)
    BY <1>6
  <2>2. /\ stop' = stop /\ interrupted' = [interrupted EXCEPT ![p] = TRUE] /\ rpc' = rpc
        /\ parting' = parting
        /\ \/ pc' = pc
           \/ /\ pc[p] \in {"read", "send", "exit"}
              /\ pc' = [pc EXCEPT ![p] = Afterwards(p)]
    BY <2>1 DEF Interrupt, Signalled, Blocked, Goto, history
  <2>3. \A q \in Procs : q # p => pc'[q] = pc[q] /\ interrupted'[q] = interrupted[q]
    BY <2>2 DEF TypeInv
  <2>4. interrupted'[p]
    BY <2>2 DEF TypeInv
  <2>5. pc'[p] = pc[p] \/ pc'[p] \in {"leave", "failed"} \/ (pc[p] = "exit" /\ pc'[p] = "join")
    BY <2>2 DEF TypeInv, Afterwards
  <2> QED
    BY <2>2, <2>3, <2>4, <2>5 DEF PartInv
<1>7. CASE \E p \in Procs : TestStop(p) \/ Timeout(p)
  <2>1. PICK p \in Procs : TestStop(p) \/ Timeout(p)
    BY <1>7
  <2>2. /\ UNCHANGED <<pc, stop, interrupted, parting>>
        /\ \A q \in Procs : rpc'[q] # "none" => rpc[q] # "none"
    BY <2>1 DEF TestStop, Timeout, history, TypeInv
  <2> QED
    BY <2>2 DEF PartInv
<1>8. CASE \E p \in Procs : Receive(p)
  <2>1. PICK p \in Procs : Receive(p)
    BY <1>8
  <2>2. \A q \in Procs : rpc'[q] # "none" => rpc[q] # "none"
    BY <2>1, ReceiveEffect DEF TypeInv
  <2>3. CASE pc' = pc /\ stop' = stop /\ interrupted' = interrupted /\ parting' = parting
    BY <2>2, <2>3 DEF PartInv
  <2>4. CASE /\ stop' = [stop EXCEPT ![p] = TRUE]
             /\ interrupted' = [interrupted EXCEPT ![p] = TRUE] /\ Parts(p, "heard")
             /\ \/ pc' = pc
                \/ /\ pc[p] \in {"read", "send", "exit"}
                   /\ pc' = [pc EXCEPT ![p] = Afterwards(p)]
    <3>1. parting' = [parting EXCEPT ![p] = IF stop[p] THEN @ ELSE @ \union {"heard"}]
      BY <2>4 DEF Parts
    <3>2. \A q \in Procs : q # p => /\ pc'[q] = pc[q] /\ interrupted'[q] = interrupted[q]
                                    /\ stop'[q] = stop[q] /\ parting'[q] = parting[q]
      BY <2>4, <3>1 DEF TypeInv
    <3>3. interrupted'[p] /\ stop'[p]
      BY <2>4 DEF TypeInv
    <3>4. pc'[p] = pc[p] \/ pc'[p] \in {"leave", "failed"} \/ (pc[p] = "exit" /\ pc'[p] = "join")
      BY <2>4 DEF TypeInv, Afterwards
    <3>5. /\ parting'[p] \in Ways /\ (pc'[p] = "exit" => parting'[p] = {})
      <4>1. CASE stop[p]
        BY <3>1, <3>4, <4>1 DEF PartInv
      <4>2. CASE ~stop[p]
        <5>1. parting'[p] = {"heard"} /\ pc[p] # "exit"
          BY <3>1, <4>2 DEF PartInv
        <5> QED
          BY <3>4, <5>1 DEF Ways
      <4> QED
        BY <4>1, <4>2
    <3> QED
      BY <2>2, <3>2, <3>3, <3>5 DEF PartInv
  <2> QED
    BY <2>1, <2>3, <2>4, ReceiveEffect
<1>9. CASE UNCHANGED vars
  BY <1>9 DEF vars, threads, history, PartInv
<1> QED
  BY <1>1, <1>2, <1>3, <1>4, <1>5, <1>6, <1>7, <1>8, <1>9 DEF Next, Main, Receiver

LEMMA Invariant == ASSUME MqChatAssumption PROVE Spec => []IInv
<1>1. Init => IInv
  BY InitHolds
<1>2. IInv /\ [Next]_vars => IInv'
  BY TypeStep, StageStep, NameStep, RetryStep, MeetStep, PartStep DEF IInv
<1> QED
  BY <1>1, <1>2, PTL DEF Spec

-----------------------------------------------------------------------------
(* What it says of the chat.                                               *)

\* Every variable keeps to its type, and no queue holds more than CHAT_MAX_MESSAGES.
THEOREM TypeCorrect == ASSUME MqChatAssumption PROVE Spec => []TypeOK
<1>1. IInv => TypeOK
  <2> SUFFICES ASSUME IInv PROVE TypeOK
    OBVIOUS
  <2>1. DOMAIN queue = 1..Len(queue)
    BY DEF IInv, QueuesTyped
  <2>2. \A p \in Procs :
          /\ pc[p] \in Stages /\ rpc[p] \in {"none", "test", "receive", "ended"}
          /\ stop[p] \in BOOLEAN /\ interrupted[p] \in BOOLEAN /\ isOwner[p] \in BOOLEAN
          /\ sendQueue[p] \in 0..Len(queue) /\ receiveQueue[p] \in 0..Len(queue)
          /\ name[1] \in 0..Len(queue) /\ name[2] \in 0..Len(queue)
    BY DEF IInv, TypeInv
  <2>3. inputs \in Nat /\ \A q \in 1..Len(queue) : Len(queue[q]) <= MaxMessages
    BY DEF IInv, TypeInv, QueuesTyped
  <2> QED
    BY <2>1, <2>2, <2>3 DEF TypeOK, Stages
<1> QED
  BY <1>1, Invariant, PTL

\* Processes that start, chat and end in any order never remove a queue of somebody else,
\* use both queues of one owner unless they were disturbed, and part in one way.
THEOREM PeersDoAgree == ASSUME MqChatAssumption PROVE Spec => []PeersAgree
<1>1. IInv => PeersAgree
  <2> SUFFICES ASSUME IInv PROVE PeersAgree
    OBVIOUS
  <2>1. RemovesItsOwn
    BY DEF IInv, NameInv, HoldsFirst, HoldsSecond, RemovesItsOwn
  <2>2. PeersMeet
    BY DEF IInv, MeetInv, PeersMeet
  <2>3. LeavesOnce
    <3> SUFFICES ASSUME NEW p \in Procs
                 PROVE  /\ Cardinality(parting[p]) <= 1
                        /\ pc[p] = "done" /\ rpc[p] # "none" => parting[p] # {} \/ interrupted[p]
      BY DEF LeavesOnce
    <3>1. Cardinality({}) = 0 /\ \A x : Cardinality({x}) = 1
      BY FS_EmptySet, FS_Singleton
    <3>2. Cardinality(parting[p]) \in {0, 1}
      BY <3>1 DEF IInv, PartInv, Ways
    <3>3. pc[p] = "done" /\ rpc[p] # "none" => parting[p] # {} \/ interrupted[p]
      BY DEF IInv, PartInv
    <3> QED
      BY <3>2, <3>3
  <2> QED
    BY <2>1, <2>2, <2>3 DEF PeersAgree
<1> QED
  BY <1>1, Invariant, PTL

\* mq_receive hands out the exit of the peer before the texts that were sent earlier.
THEOREM ExitsAreFirst == ASSUME MqChatAssumption PROVE Spec => ExitFirst
<1> DEFINE A == \A p \in Procs : parting'[p] = parting[p] /\ rpc[p] = "receive" /\ rpc'[p] = "test" =>
                    \A i \in DOMAIN queue[receiveQueue[p]] : queue[receiveQueue[p]][i].kind = "text"
<1>1. ASSUME IInv, Next PROVE A
  <2> USE <1>1
  <2> SUFFICES ASSUME NEW p \in Procs, rpc[p] = "receive", rpc'[p] = "test",
                      NEW i \in DOMAIN queue[receiveQueue[p]]
               PROVE  queue[receiveQueue[p]][i].kind = "text"
    OBVIOUS
  <2> DEFINE messages == queue[receiveQueue[p]]
  <2>1. receiveQueue[p] \in 1..Len(queue)
    BY DEF IInv, StageInv, TypeInv
  <2>2. messages \in Seq(Message) /\ messages # <<>> /\ i \in 1..Len(messages)
    BY <2>1 DEF IInv, QueuesTyped
  <2>3. Receive(p) \/ Timeout(p)
    <3>1. PICK q \in Procs : Start(q) \/ Open(q) \/ Main(q) \/ ReadLine(q) \/ Interrupt(q) \/ Receiver(q)
      BY <1>1 DEF Next
    <3>2. pc[p] \notin Opening \union {"off", "undo"}
      BY DEF IInv, StageInv
    <3>3. Start(q) \/ Open(q) => rpc'[p] = rpc[p]
      BY <3>2 DEF IInv, TypeInv, Start, Open, CreateFirst, CreateSecond, Undo, Attach, Retry,
                  GiveUp, Opening
    <3>4. Main(q) \/ ReadLine(q) \/ Interrupt(q) => rpc'[p] = rpc[p]
      BY DEF Main, Test, Send, SendFailed, Leave, SendExit, Join, Unlink, ReadLine, Interrupt
    <3>5. Receiver(q) => q = p \/ rpc'[p] = rpc[p]
      <4>1. TestStop(q) \/ Timeout(q) => q = p \/ rpc'[p] = rpc[p]
        BY DEF IInv, TypeInv, TestStop, Timeout
      <4>2. Receive(q) => q = p \/ rpc'[p] = rpc[p]
        BY ReceiveEffect DEF IInv, TypeInv
      <4> QED
        BY <4>1, <4>2 DEF Receiver
    <3> QED
      BY <3>1, <3>3, <3>4, <3>5 DEF Receiver, TestStop
  <2>4. Receive(p)
    BY <2>2, <2>3 DEF Timeout, TimesOut
  <2>5. messages[FirstToRead(messages)].kind # "exit"
    <3>1. messages[FirstToRead(messages)].kind = "exit" => rpc' = [rpc EXCEPT ![p] = "ended"]
      BY <2>4 DEF Receive
    <3> QED
      BY <3>1 DEF IInv, TypeInv
  <2>6. messages[i].kind # "exit"
    BY <2>2, <2>5, FirstIsExit
  <2>7. messages[i] \in Message
    BY <2>2
  <2> QED
    BY <2>6, <2>7 DEF Message
<1>2. IInv /\ [Next]_vars => [A]_vars
  BY <1>1
<1> QED
  BY <1>2, Invariant, PTL DEF Spec, ExitFirst
=============================================================================
