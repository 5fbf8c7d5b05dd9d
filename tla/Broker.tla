------------------------------- MODULE Broker -------------------------------
(***************************************************************************)
(* Publishers, broker and subscribers of                                   *)
(* 03-ipc-and-network-programming/02-system-v-message-broker.  All of them *)
(* share one System V queue: commands travel to the broker under message   *)
(* type 1 and publications to each subscriber under its pid, so that the   *)
(* broker reads from and writes to the same bounded queue.                 *)
(*                                                                         *)
(* Topics and payloads are abstract; the n-th publication of a publisher   *)
(* carries the number n.  The queue is bounded in messages, not in bytes.  *)
(***************************************************************************)
EXTENDS Integers, FiniteSets, SequencesExt

CONSTANTS
    Broker, Publishers, Subscribers,  \* the processes, which are message types too
    TopicOf,          \* the topic a publisher was started with
    TopicsOf,         \* the topics a subscriber was started with
    QueueLimit,       \* msg_qbytes, in messages
    ShutdownTimeout,  \* BROKER_SHUTDOWN_TIMEOUT_SECONDS
    MaxPublications,  \* bound on the lines typed into a publisher
    MaxSignals,       \* bound on the SIGINTs a user sends to one process
    MaxKills,         \* bound on the clients killed otherwise
    Removable         \* may somebody else remove the queue (ipcrm)?

Clients == Publishers \cup Subscribers
Procs == {Broker} \cup Clients
Topics == {TopicOf[p] : p \in Publishers}

\* main refuses -s without topics.
ASSUME ProcessesAssumption ==
    /\ Broker \notin Clients
    /\ Publishers \cap Subscribers = {}
    /\ \A s \in Subscribers : TopicsOf[s] \in Seq(Topics) \ {<<>>}

ASSUME BoundsAssumption ==
    /\ QueueLimit \in Nat \ {0} /\ ShutdownTimeout \in Nat \ {0}
    /\ MaxPublications \in Nat /\ MaxSignals \in Nat /\ MaxKills \in Nat
    /\ Removable \in BOOLEAN

VARIABLES
    pc,             \* where each process is
    call,           \* state of the blocking system call it is at
    stop,           \* broker_should_stop, subscriber_should_stop
    exists,         \* life of the queue: "none", "there", "removed"
    queue,          \* its messages, oldest first
    publishers, subscriptions,  \* the broker's lists, newest first
    outgoing,       \* messages forward_publication still has to send
    second,         \* elapsed_seconds of drain_message_queue
    step, count,    \* i and subscribed_count of a subscriber
    sent,           \* publications each publisher has put into the queue
    received,       \* what each subscriber has printed
    since,          \* publications sent before a subscriber's command was queued
    signals, kills  \* what happened from outside so far

vars == <<pc, call, stop, exists, queue, publishers, subscriptions, outgoing,
          second, step, count, sent, received, since, signals, kills>>
lists == <<publishers, subscriptions>>
progress == <<step, count>>
history == <<received, since>>
outside == <<signals, kills>>

Never == -1
Ended == {"exited", "killed"}

Init ==
    /\ pc = [p \in Procs |-> "start"]
    /\ call = [p \in Procs |-> "entering"]
    /\ stop = [p \in Procs \ Publishers |-> FALSE]
    /\ exists = "none" /\ queue = <<>>
    /\ publishers = <<>> /\ subscriptions = <<>> /\ outgoing = <<>>
    /\ second = 0
    /\ step = [s \in Subscribers |-> 0] /\ count = [s \in Subscribers |-> 0]
    /\ sent = [p \in Publishers |-> 0]
    /\ received = [s \in Subscribers |-> <<>>]
    /\ since = [s \in Subscribers |-> [p \in Publishers |-> Never]]
    /\ signals = [p \in Procs \ Publishers |-> 0] /\ kills = 0

-----------------------------------------------------------------------------
(* Faulty variants of definitions below.                                   *)

FirstFor_AnyOrder(type) == {i \in DOMAIN queue : queue[i].to = type}
Fits_OneTooMany == Len(queue) <= QueueLimit
Registered_OnlyOne(list, pid) == IF list = <<>> THEN <<pid>> ELSE list
Subscribed_Twice(list, pid, topic) == <<[pid |-> pid, topic |-> topic]>> \o list
Subscribed_OnePerPid(list, pid, topic) ==
    IF \E i \in DOMAIN list : list[i].pid = pid THEN list
    ELSE <<[pid |-> pid, topic |-> topic]>> \o list
Unsubscribed_Never(list, pid, topic) == list
Unsubscribed_AnyPid(list, pid, topic) ==
    IF list # <<>> /\ Head(list).topic = topic THEN Tail(list) ELSE list
Interested_InEverything(topic) == subscriptions
Interested_OnlyNewest(topic) ==
    IF subscriptions # <<>> /\ Head(subscriptions).topic = topic
    THEN <<Head(subscriptions)>> ELSE <<>>
AfterRemoval_StillThere == "there"

-----------------------------------------------------------------------------
(* The queue.                                                              *)

Goto(p, where) ==
    /\ pc' = [pc EXCEPT ![p] = where]
    /\ call' = [call EXCEPT ![p] = "entering"]

\* msgsnd and msgrcv fail with EIDRM or EINVAL ...
QueueGone == exists = "removed"

\* ... with EINTR ...
Interrupted(p) == call[p] = "interrupted"

\* ... or, if there is room, msgsnd appends the message.
Fits == Len(queue) < QueueLimit

Put(p, message) ==
    /\ exists = "there" /\ ~Interrupted(p)
    /\ Fits
    /\ queue' = Append(queue, message)

\* msgrcv takes the oldest message of its type, even if a signal has come too.
FirstFor(type) ==
    {i \in DOMAIN queue : /\ queue[i].to = type
                          /\ \A j \in 1 .. i - 1 : queue[j].to # type}

Take(p, i) ==
    /\ exists = "there"
    /\ i \in FirstFor(p)
    /\ queue' = RemoveAt(queue, i)

ReceiveInterrupted(p) == Interrupted(p) /\ FirstFor(p) = {}

\* The call cannot be completed yet, and its caller, if it handles SIGINT, goes
\* to sleep where the signal can wake it up.
MustWait(p) ==
    \/ pc[p] = "receive" /\ FirstFor(p) = {}
    \/ pc[p] \in {"forward", "subscribe", "unsubscribe"} /\ ~Fits

Sleep(p) ==
    /\ call[p] = "entering" /\ exists = "there" /\ MustWait(p)
    /\ call' = [call EXCEPT ![p] = "asleep"]
    /\ UNCHANGED <<pc, stop, exists, queue, lists, outgoing, second, progress, sent,
                   history, outside>>

ToBroker(command, from, topic, number) ==
    [to |-> Broker, command |-> command, from |-> from, topic |-> topic, number |-> number]

-----------------------------------------------------------------------------
(* The broker.                                                             *)

\* msgget with IPC_CREAT | IPC_EXCL.
StartBroker ==
    /\ pc[Broker] = "start"
    /\ exists' = "there"
    /\ Goto(Broker, "check")
    /\ UNCHANGED <<stop, queue, lists, outgoing, second, progress, sent, history, outside>>

\* while (!broker_should_stop)
CheckBroker ==
    /\ pc[Broker] = "check"
    /\ Goto(Broker, IF stop[Broker] THEN "notify_publishers" ELSE "receive")
    /\ UNCHANGED <<stop, exists, queue, lists, outgoing, second, progress, sent, history,
                   outside>>

Registered(list, pid) == IF Contains(list, pid) THEN list ELSE <<pid>> \o list

Subscribed(list, pid, topic) ==
    IF Contains(list, [pid |-> pid, topic |-> topic]) THEN list
    ELSE <<[pid |-> pid, topic |-> topic]>> \o list

Unsubscribed(list, pid, topic) == RemoveFirst(list, [pid |-> pid, topic |-> topic])

\* The nodes with the topic, in the order of the list.
Interested(topic) ==
    LET among[i \in 0 .. Len(subscriptions)] ==
            IF i = 0 THEN <<>>
            ELSE IF subscriptions[i].topic = topic THEN Append(among[i - 1], subscriptions[i])
            ELSE among[i - 1]
    IN among[Len(subscriptions)]

ReceiveSend(message) ==
    LET recipients == Interested(message.topic) IN
    /\ message.command = "send"
    /\ publishers' = Registered(publishers, message.from)
    /\ outgoing' = [i \in DOMAIN recipients |-> [message EXCEPT !.to = recipients[i].pid]]
    /\ Goto(Broker, IF recipients = <<>> THEN "check" ELSE "forward")
    /\ UNCHANGED subscriptions

ReceiveSubscribe(message) ==
    /\ message.command = "subscribe"
    /\ subscriptions' = Subscribed(subscriptions, message.from, message.topic)
    /\ Goto(Broker, "check")
    /\ UNCHANGED <<publishers, outgoing>>

ReceiveUnsubscribe(message) ==
    /\ message.command = "unsubscribe"
    /\ subscriptions' = Unsubscribed(subscriptions, message.from, message.topic)
    /\ Goto(Broker, "check")
    /\ UNCHANGED <<publishers, outgoing>>

BrokerReceive ==
    /\ pc[Broker] = "receive"
    /\ \E i \in DOMAIN queue :
          /\ Take(Broker, i)
          /\ \/ ReceiveSend(queue[i])
             \/ ReceiveSubscribe(queue[i])
             \/ ReceiveUnsubscribe(queue[i])
    /\ UNCHANGED <<stop, exists, second, progress, sent, history, outside>>

\* The loop is left on any error.
BrokerReceiveFails ==
    /\ pc[Broker] = "receive"
    /\ ReceiveInterrupted(Broker) \/ QueueGone
    /\ Goto(Broker, "notify_publishers")
    /\ UNCHANGED <<stop, exists, queue, lists, outgoing, second, progress, sent, history,
                   outside>>

\* One msgsnd of forward_publication.
Forward ==
    /\ pc[Broker] = "forward"
    /\ Put(Broker, Head(outgoing))
    /\ outgoing' = Tail(outgoing)
    /\ Goto(Broker, IF outgoing' = <<>> THEN "check" ELSE "forward")
    /\ UNCHANGED <<stop, exists, lists, second, progress, sent, history, outside>>

\* EINTR after a SIGINT ends the loop; any other error ends this publication.
AfterInterruptedSend == "notify_publishers"

ForwardFails ==
    /\ pc[Broker] = "forward"
    /\ outgoing' = <<>>
    /\ \/ Interrupted(Broker) /\ Goto(Broker, AfterInterruptedSend)
       \/ QueueGone /\ Goto(Broker, "check")
    /\ UNCHANGED <<stop, exists, queue, lists, second, progress, sent, history, outside>>

Running(p) == pc[p] \notin {"start"} \cup Ended

\* A publisher has no handler: SIGINT ends it.
NotifyPublishers ==
    /\ pc[Broker] = "notify_publishers"
    /\ pc' = [p \in Procs |->
                IF p = Broker THEN "notify_subscribers"
                ELSE IF Contains(publishers, p) /\ Running(p) THEN "killed" ELSE pc[p]]
    /\ UNCHANGED <<call, stop, exists, queue, lists, outgoing, second, progress, sent,
                   history, outside>>

\* handle_sigint of each process in some: the flag is set, and a process that
\* sleeps in a system call is woken up.
Signalled(some) ==
    /\ stop' = [p \in DOMAIN stop |-> stop[p] \/ p \in some]
    /\ call' = [p \in Procs |-> IF p \in some /\ call[p] = "asleep"
                                THEN "interrupted" ELSE call[p]]

NotifySubscribers ==
    /\ pc[Broker] = "notify_subscribers"
    /\ Signalled({s \in Subscribers :
                    Running(s) /\ \E i \in DOMAIN subscriptions : subscriptions[i].pid = s})
    /\ pc' = [pc EXCEPT ![Broker] = "drain"]
    /\ UNCHANGED <<exists, queue, lists, outgoing, second, progress, sent, history, outside>>

\* drain_message_queue takes messages of every type until there are none ...
Drain ==
    /\ pc[Broker] = "drain"
    /\ \/ /\ queue # <<>>
          /\ queue' = Tail(queue)
          /\ UNCHANGED <<pc, call>>
       \/ /\ queue = <<>>
          /\ Goto(Broker, IF QueueGone THEN "remove" ELSE "stat")
          /\ UNCHANGED queue
    /\ UNCHANGED <<stop, exists, lists, outgoing, second, progress, sent, history, outside>>

\* ... and a second later looks whether there are still none.
DrainAgain ==
    /\ pc[Broker] = "stat"
    /\ second' = second + 1
    /\ Goto(Broker, IF queue = <<>> \/ second' = ShutdownTimeout THEN "remove" ELSE "drain")
    /\ UNCHANGED <<stop, exists, queue, lists, outgoing, progress, sent, history, outside>>

\* IPC_RMID: whoever sleeps in a call on the queue is woken up with EIDRM.
AfterRemoval == "removed"

RemoveQueue ==
    /\ pc[Broker] = "remove"
    /\ exists' = AfterRemoval /\ queue' = <<>>
    /\ Goto(Broker, "exited")
    /\ UNCHANGED <<stop, lists, outgoing, second, progress, sent, history, outside>>

BrokerStep ==
    \/ StartBroker \/ CheckBroker \/ BrokerReceive \/ BrokerReceiveFails
    \/ Forward \/ ForwardFails \/ NotifyPublishers \/ NotifySubscribers
    \/ Drain \/ DrainAgain \/ RemoveQueue

-----------------------------------------------------------------------------
(* A subscriber.                                                           *)

\* msgget without IPC_CREAT.
StartSubscriber(s) ==
    /\ pc[s] = "start"
    /\ Goto(s, IF exists = "there" THEN "subscribe" ELSE "exited")
    /\ UNCHANGED <<stop, exists, queue, lists, outgoing, second, progress, sent, history,
                   outside>>

\* One "subscribe" command.
Subscribe(s) ==
    LET topic == TopicsOf[s][step[s] + 1] IN
    /\ pc[s] = "subscribe"
    /\ Put(s, ToBroker("subscribe", s, topic, 0))
    /\ since' = [since EXCEPT ![s] = [p \in Publishers |->
           IF TopicOf[p] = topic /\ @[p] = Never THEN sent[p] ELSE @[p]]]
    /\ step' = [step EXCEPT ![s] = @ + 1]
    /\ count' = [count EXCEPT ![s] = @ + 1]
    /\ Goto(s, IF step'[s] = Len(TopicsOf[s]) THEN "check" ELSE "subscribe")
    /\ UNCHANGED <<stop, exists, lists, outgoing, second, sent, received, outside>>

\* goto unsubscribe: the commands queued so far are taken back.
StartUnsubscribing(s) ==
    /\ Goto(s, IF count[s] = 0 THEN "exited" ELSE "unsubscribe")
    /\ step' = [step EXCEPT ![s] = 0]

SubscribeFails(s) ==
    /\ pc[s] = "subscribe"
    /\ Interrupted(s) \/ QueueGone
    /\ StartUnsubscribing(s)
    /\ UNCHANGED <<stop, exists, queue, lists, outgoing, second, count, sent, history, outside>>

\* while (!subscriber_should_stop)
CheckSubscriber(s) ==
    /\ pc[s] = "check"
    /\ IF stop[s] THEN StartUnsubscribing(s) ELSE Goto(s, "receive") /\ UNCHANGED step
    /\ UNCHANGED <<stop, exists, queue, lists, outgoing, second, count, sent, history, outside>>

SubscriberReceive(s) ==
    /\ pc[s] = "receive"
    /\ \E i \in DOMAIN queue :
          /\ Take(s, i)
          /\ received' = [received EXCEPT ![s] = Append(@, <<queue[i].from, queue[i].number>>)]
    /\ Goto(s, "check")
    /\ UNCHANGED <<stop, exists, lists, outgoing, second, progress, sent, since, outside>>

SubscriberReceiveFails(s) ==
    /\ pc[s] = "receive"
    /\ \/ ReceiveInterrupted(s) /\ StartUnsubscribing(s)
       \/ QueueGone /\ Goto(s, "exited") /\ UNCHANGED step
    /\ UNCHANGED <<stop, exists, queue, lists, outgoing, second, count, sent, history, outside>>

NextTopic(s) ==
    /\ step' = [step EXCEPT ![s] = @ + 1]
    /\ Goto(s, IF step'[s] = count[s] THEN "exited" ELSE "unsubscribe")

\* One "unsubscribe" command.
Unsubscribe(s) ==
    /\ pc[s] = "unsubscribe"
    /\ Put(s, ToBroker("unsubscribe", s, TopicsOf[s][step[s] + 1], 0))
    /\ NextTopic(s)
    /\ UNCHANGED <<stop, exists, lists, outgoing, second, count, sent, history, outside>>

\* A removed queue ends the loop, another error only this topic.
UnsubscribeFails(s) ==
    /\ pc[s] = "unsubscribe"
    /\ \/ Interrupted(s) /\ NextTopic(s)
       \/ QueueGone /\ Goto(s, "exited") /\ UNCHANGED step
    /\ UNCHANGED <<stop, exists, queue, lists, outgoing, second, count, sent, history, outside>>

SubscriberStep(s) ==
    \/ Subscribe(s) \/ SubscribeFails(s) \/ CheckSubscriber(s)
    \/ SubscriberReceive(s) \/ SubscriberReceiveFails(s)
    \/ Unsubscribe(s) \/ UnsubscribeFails(s)

-----------------------------------------------------------------------------
(* A publisher.                                                            *)

StartPublisher(p) ==
    /\ pc[p] = "start"
    /\ Goto(p, IF exists = "there" THEN "poll" ELSE "exited")
    /\ UNCHANGED <<stop, exists, queue, lists, outgoing, second, progress, sent, history,
                   outside>>

\* poll returns with a line, which fgets reads, or with the end of the input.
ReadInput(p) ==
    /\ pc[p] = "poll" /\ exists = "there"
    /\ \/ sent[p] < MaxPublications /\ Goto(p, "send")
       \/ Goto(p, "exited")
    /\ UNCHANGED <<stop, exists, queue, lists, outgoing, second, progress, sent, history,
                   outside>>

\* check_queue_available, at least every half second.
NoticeRemoval(p) ==
    /\ pc[p] = "poll" /\ QueueGone
    /\ Goto(p, "exited")
    /\ UNCHANGED <<stop, exists, queue, lists, outgoing, second, progress, sent, history,
                   outside>>

Send(p) ==
    /\ pc[p] = "send"
    /\ \/ /\ Put(p, ToBroker("send", p, TopicOf[p], sent[p] + 1))
          /\ sent' = [sent EXCEPT ![p] = @ + 1]
          /\ Goto(p, "poll")
       \/ QueueGone /\ Goto(p, "exited") /\ UNCHANGED <<queue, sent>>
    /\ UNCHANGED <<stop, exists, lists, outgoing, second, progress, history, outside>>

-----------------------------------------------------------------------------
(* What happens from outside.                                              *)

\* A user presses Ctrl+C in the terminal of the broker or of a subscriber.
Interrupt(p) ==
    /\ p \notin Publishers /\ Running(p)
    /\ signals[p] < MaxSignals
    /\ signals' = [signals EXCEPT ![p] = @ + 1]
    /\ Signalled({p})
    /\ UNCHANGED <<pc, exists, queue, lists, outgoing, second, progress, sent, history, kills>>

\* Ctrl+C in the terminal of a publisher, SIGTERM or SIGKILL to any client.
Kill(p) ==
    /\ p \in Clients /\ Running(p)
    /\ kills < MaxKills
    /\ kills' = kills + 1
    /\ Goto(p, "killed")
    /\ UNCHANGED <<stop, exists, queue, lists, outgoing, second, progress, sent, history,
                   signals>>

\* ipcrm.
RemovedByOther ==
    /\ Removable /\ exists = "there"
    /\ exists' = "removed" /\ queue' = <<>>
    /\ UNCHANGED <<pc, call, stop, lists, outgoing, second, progress, sent, history, outside>>

AllGone == (\A p \in Procs : pc[p] \in Ended) /\ UNCHANGED vars

Next ==
    \/ BrokerStep
    \/ \E s \in Subscribers : StartSubscriber(s) \/ SubscriberStep(s)
    \/ \E p \in Publishers : StartPublisher(p) \/ ReadInput(p) \/ NoticeRemoval(p) \/ Send(p)
    \/ \E p \in Procs : Sleep(p) \/ Interrupt(p) \/ Kill(p)
    \/ RemovedByOther
    \/ AllGone

\* Processes that run are scheduled.  Nobody has to start a client, type a line,
\* press Ctrl+C or kill anybody.
Fairness ==
    /\ WF_vars(BrokerStep)
    /\ \A s \in Subscribers : WF_vars(SubscriberStep(s))
    /\ \A p \in Publishers : WF_vars(NoticeRemoval(p)) /\ WF_vars(Send(p))

Spec == Init /\ [][Next]_vars
FairSpec == Spec /\ Fairness

-----------------------------------------------------------------------------
(* Properties.                                                             *)

Message == [to : {Broker} \cup Subscribers, command : {"send", "subscribe", "unsubscribe"},
            from : Clients, topic : Topics, number : 0 .. MaxPublications]

\* Types: message_t and the lists of broker.h and subscriber.h, the bound of the
\* queue, and the position of every process.
TypeOK ==
    /\ pc[Broker] \in {"start", "check", "receive", "forward", "notify_publishers",
                       "notify_subscribers", "drain", "stat", "remove", "exited"}
    /\ \A s \in Subscribers : pc[s] \in {"start", "subscribe", "check", "receive",
                                         "unsubscribe"} \cup Ended
    /\ \A p \in Publishers : pc[p] \in {"start", "poll", "send"} \cup Ended
    /\ call \in [Procs -> {"entering", "asleep", "interrupted"}]
    /\ exists \in {"none", "there", "removed"}
    /\ queue \in Seq(Message) /\ Len(queue) <= QueueLimit
    /\ publishers \in Seq(Publishers)
    /\ subscriptions \in Seq([pid : Subscribers, topic : Topics])
    /\ outgoing \in Seq(Message) /\ (pc[Broker] = "forward" <=> outgoing # <<>>)
    /\ second \in 0 .. ShutdownTimeout
    /\ \A s \in Subscribers : count[s] \in 0 .. Len(TopicsOf[s])
                              /\ step[s] \in 0 .. Len(TopicsOf[s])

Numbers(s, p) == {received[s][i][2] : i \in {j \in DOMAIN received[s] : received[s][j][1] = p}}

\* A subscriber prints a publication once, in the order in which its publisher
\* sent them, only on topics it asked for, and nothing sent before it asked:
\* whatever interleaves, and also while the queue is being drained.
InOrderOnce ==
    \A s \in Subscribers :
       /\ \A i, j \in DOMAIN received[s] :
             i < j /\ received[s][i][1] = received[s][j][1]
                => received[s][i][2] < received[s][j][2]
       /\ \A i \in DOMAIN received[s] :
             LET p == received[s][i][1] IN
             since[s][p] # Never /\ received[s][i][2] > since[s][p]

\* Until the broker drains the queue, a subscriber misses no publication: what it
\* has of a publisher starts with the first one sent after its command and has
\* no gap.
NoGaps ==
    pc[Broker] \in {"check", "receive", "forward", "notify_publishers", "notify_subscribers"} =>
       \A s \in Subscribers, p \in Publishers :
          Numbers(s, p) = since[s][p] + 1 .. since[s][p] + Cardinality(Numbers(s, p))

\* What a subscriber prints of a publisher is what that publisher sent: all of it from the
\* subscription on, once, in order.
DeliveredInOrder == InOrderOnce /\ NoGaps

Pending(s, topic, command) ==
    \E i \in DOMAIN queue : /\ queue[i].command = command
                            /\ queue[i].from = s /\ queue[i].topic = topic

\* A subscriber that left after a single SIGINT is forgotten, or the broker still
\* has its "unsubscribe" to read: no publication will be queued for a pid that
\* nobody reads.  (A second SIGINT may break off the msgsnd of "unsubscribe".)
NoStaleSubscription ==
    \A s \in Subscribers, t \in Topics :
       /\ pc[s] = "exited" /\ signals[s] <= 1
       /\ pc[Broker] \in {"check", "receive", "forward"} /\ exists = "there"
       /\ \/ Contains(subscriptions, [pid |-> s, topic |-> t])
          \/ Pending(s, t, "subscribe")
       => Pending(s, t, "unsubscribe")

\* Once the broker has told its clients, no publisher that any subscriber has
\* heard of is left running.
PublishersTold ==
    pc[Broker] \in {"notify_subscribers", "drain", "stat", "remove", "exited"} =>
       \A s \in Subscribers : \A i \in DOMAIN received[s] : ~Running(received[s][i][1])

\* Both kinds of clients get what is due to them: subscribers their publications, and
\* the publishers they heard of the news that the broker leaves.
ClientsServed == DeliveredInOrder /\ PublishersTold

\* The shutdown takes everybody along: when the broker has left its loop, all
\* processes come to an end, blocked or not, registered or not.
EndsTogether ==
    (pc[Broker] = "notify_publishers") ~> (\A p \in Procs : ~Running(p))

\* A publication sent while the broker serves and the subscriber is subscribed
\* gets there.
EveryPublicationArrives ==
    \A s \in Subscribers, p \in Publishers, n \in 1 .. MaxPublications :
       (since[s][p] # Never /\ since[s][p] < n /\ sent[p] >= n)
          ~> (n \in Numbers(s, p) \/ stop[s] \/ pc[s] \in Ended \/ stop[Broker])

\* A subscriber ends when it has received SIGINT.
SubscriberEndsWhenTold ==
    \A s \in Subscribers : stop[s] ~> pc[s] \in Ended
=============================================================================
