---------------------------- MODULE Broker_proofs ---------------------------
(***************************************************************************)
(* What holds of Broker for any number of publishers and subscribers, any  *)
(* topics, any capacity of the queue, and any number of publications,      *)
(* signals and kills.                                                      *)
(*                                                                         *)
(* A publication travels from the broker's part of the queue to outgoing,  *)
(* to a subscriber's part of the queue and to what the subscriber has      *)
(* printed; the invariants relate what is on these stations.               *)
(***************************************************************************)
EXTENDS Broker, FiniteSetTheorems, SequenceTheorems, WellFoundedInduction, TLAPS

-----------------------------------------------------------------------------
(* The inductive invariant.                                                *)

BrokerStages == {"start", "check", "receive", "forward", "notify_publishers",
                 "notify_subscribers", "drain", "stat", "remove", "exited"}
SubscriberStages == {"start", "subscribe", "check", "receive", "unsubscribe"} \cup Ended
PublisherStages == {"start", "poll", "send"} \cup Ended

Subscription == [pid : Subscribers, topic : Topics]

PcTyped ==
    /\ pc \in [Procs -> BrokerStages \cup SubscriberStages \cup PublisherStages]
    /\ pc[Broker] \in BrokerStages
    /\ \A s \in Subscribers : pc[s] \in SubscriberStages
    /\ \A p \in Publishers : pc[p] \in PublisherStages

ControlTyped ==
    /\ call \in [Procs -> {"entering", "asleep", "interrupted"}]
    /\ stop \in [Procs \ Publishers -> BOOLEAN]
    /\ exists \in {"none", "there", "removed"}
    /\ signals \in [Procs \ Publishers -> Nat] /\ kills \in Nat
    /\ second \in 0 .. ShutdownTimeout
    /\ pc[Broker] \notin {"remove", "exited"} => second < ShutdownTimeout

\* step and count of a subscriber, in every stage.
StepInv ==
    /\ step \in [Subscribers -> Nat] /\ count \in [Subscribers -> Nat]
    /\ \A s \in Subscribers :
          /\ count[s] <= Len(TopicsOf[s]) /\ step[s] <= Len(TopicsOf[s])
          /\ pc[s] = "start" => step[s] = 0 /\ count[s] = 0
          /\ pc[s] = "subscribe" => step[s] = count[s] /\ count[s] < Len(TopicsOf[s])
          /\ pc[s] = "unsubscribe" => step[s] < count[s]

DataTyped ==
    /\ queue \in Seq(Message) /\ Len(queue) <= QueueLimit
    /\ outgoing \in Seq(Message) /\ (pc[Broker] = "forward" <=> outgoing # <<>>)
    /\ publishers \in Seq(Publishers) /\ subscriptions \in Seq(Subscription)
    /\ sent \in [Publishers -> 0 .. MaxPublications]
    /\ received \in [Subscribers -> Seq(Publishers \X (1 .. MaxPublications))]
    /\ since \in [Subscribers -> [Publishers -> -1 .. MaxPublications]]
    /\ \A p \in Publishers : pc[p] = "send" => sent[p] < MaxPublications

TypeInv == PcTyped /\ ControlTyped /\ StepInv /\ DataTyped

\* Nothing has happened while there is no broker.
StartInv ==
    /\ pc[Broker] = "start" <=> exists = "none"
    /\ exists = "none" =>
          /\ queue = <<>> /\ \A s \in Subscribers : pc[s] \in {"start", "exited", "killed"}
          /\ \A p \in Publishers : pc[p] \in {"start", "exited", "killed"}
    /\ exists = "removed" => queue = <<>>

\* Publications carry the numbers and the topic of their publisher, commands are for the
\* broker.
ProperFor(m, numbers) ==
    IF m.command = "send"
    THEN /\ m.from \in Publishers /\ m.topic = TopicOf[m.from]
         /\ 1 <= m.number /\ m.number <= numbers[m.from]
    ELSE m.to = Broker /\ m.from \in Subscribers
Proper(m) == ProperFor(m, sent)

ContentInv ==
    /\ \A i \in 1 .. Len(queue) : Proper(queue[i])
    /\ \A k \in 1 .. Len(outgoing) :
          Proper(outgoing[k]) /\ outgoing[k].command = "send" /\ outgoing[k].to \in Subscribers
    /\ \A s \in Subscribers : \A r \in 1 .. Len(received[s]) :
          received[s][r][2] <= sent[received[s][r][1]]

\* No subscription is in the list twice.
Distinct(list) == \A i, j \in 1 .. Len(list) : list[i] = list[j] => i = j
UniqueInv == Distinct(subscriptions)

\* Publishers that a subscriber hears of are in the list of the broker, which tells them.
Known(p) == Contains(publishers, p)
KnownInv ==
    /\ \A p \in Publishers : Known(p) => sent[p] >= 1
    /\ \A i \in 1 .. Len(queue) : queue[i].to \in Subscribers => Known(queue[i].from)
    /\ \A k \in 1 .. Len(outgoing) : Known(outgoing[k].from)
    /\ \A s \in Subscribers : \A r \in 1 .. Len(received[s]) : Known(received[s][r][1])

ToldInv ==
    /\ \A p \in Publishers : pc[p] = "start" => sent[p] = 0
    /\ pc[Broker] \in {"notify_subscribers", "drain", "stat", "remove", "exited"} =>
          \A p \in Publishers : Known(p) => pc[p] \in Ended

\* The publications of one publisher are in order, on each station and from one to the next.
Earlier(m, n) == m.from = n.from => m.number < n.number
Inbox(m) == m.to = Broker /\ m.command = "send"

InOrder(m, n) == m.to = n.to /\ m.command = "send" /\ n.command = "send" => Earlier(m, n)
Ahead(m, n) == m.to \in Subscribers /\ Inbox(n) => Earlier(m, n)
QueueOrder ==
    \A i, j \in 1 .. Len(queue) :
       (i < j => InOrder(queue[i], queue[j])) /\ Ahead(queue[i], queue[j])

Behind(n, m) == (m.to = n.to => Earlier(m, n)) /\ (Inbox(m) => Earlier(n, m))
OutgoingOrder ==
    /\ \A k \in 1 .. Len(outgoing) : \A j \in 1 .. Len(queue) : Behind(outgoing[k], queue[j])
    /\ \A k, l \in 1 .. Len(outgoing) : outgoing[k].to = outgoing[l].to => k = l

\* s has printed e, a pair of a publisher and a number, before m gets to it.
Before(s, e, m) == m.from = e[1] /\ (m.to = s \/ Inbox(m)) => e[2] < m.number
ReceivedOrder ==
    \A s \in Subscribers : \A r \in 1 .. Len(received[s]) :
       /\ \A q \in 1 .. Len(received[s]) :
             r < q /\ received[s][r][1] = received[s][q][1] => received[s][r][2] < received[s][q][2]
       /\ \A j \in 1 .. Len(queue) : Before(s, received[s][r], queue[j])
       /\ \A k \in 1 .. Len(outgoing) : Before(s, received[s][r], outgoing[k])
OrderInv == QueueOrder /\ OutgoingOrder /\ ReceivedOrder

\* Number n of publisher p was sent after s has asked for its topic.
Asked(s, p, n) == since[s][p] # Never /\ n > since[s][p]
Command(m, command, s, topic) == m.command = command /\ m.from = s /\ m.topic = topic
SinceInv ==
    /\ \A s \in Subscribers, p \in Publishers : since[s][p] <= sent[p]
    /\ \A s \in Subscribers, p \in Publishers :
          Contains(subscriptions, [pid |-> s, topic |-> TopicOf[p]]) =>
             /\ since[s][p] # Never
             /\ \A j \in 1 .. Len(queue) :
                   Inbox(queue[j]) /\ queue[j].from = p => Asked(s, p, queue[j].number)
    /\ \A s \in Subscribers, p \in Publishers : \A i \in 1 .. Len(queue) :
          Command(queue[i], "subscribe", s, TopicOf[p]) =>
             /\ since[s][p] # Never
             /\ \A j \in 1 .. Len(queue) :
                   i < j /\ Inbox(queue[j]) /\ queue[j].from = p => Asked(s, p, queue[j].number)
    /\ \A i \in 1 .. Len(queue) :
          queue[i].to \in Subscribers => Asked(queue[i].to, queue[i].from, queue[i].number)
    /\ \A k \in 1 .. Len(outgoing) : Asked(outgoing[k].to, outgoing[k].from, outgoing[k].number)
    /\ \A s \in Subscribers : \A r \in 1 .. Len(received[s]) :
          Asked(s, received[s][r][1], received[s][r][2])

\* The stages of the broker and of a subscriber that matter here.
Serving == {"check", "receive", "forward"}
Notifying == {"notify_publishers", "notify_subscribers"}
Listening(s) == pc[s] \in {"subscribe", "check", "receive"}

Printed(s, p, n) == \E r \in 1 .. Len(received[s]) : received[s][r] = <<p, n>>
Queued(to, p, n) ==
    \E i \in 1 .. Len(queue) :
       queue[i].to = to /\ queue[i].command = "send" /\ queue[i].from = p /\ queue[i].number = n
Going(s, p, n) ==
    \E k \in 1 .. Len(outgoing) : outgoing[k].to = s /\ outgoing[k].from = p /\ outgoing[k].number = n

\* The broker knows of the subscription, or will before it reads what is due to s.
Coming(s, p) ==
    \E i \in 1 .. Len(queue) :
       /\ Command(queue[i], "subscribe", s, TopicOf[p])
       /\ \A j \in 1 .. i - 1 :
             Inbox(queue[j]) /\ queue[j].from = p => queue[j].number <= since[s][p]
Expected(s, p) ==
    Contains(subscriptions, [pid |-> s, topic |-> TopicOf[p]]) \/ Coming(s, p)

\* While the broker serves and a subscriber listens, every publication since its command is
\* on one of the stations.
Covered(s, p) ==
    \A n \in since[s][p] + 1 .. sent[p] :
       Printed(s, p, n) \/ Queued(s, p, n) \/ Going(s, p, n) \/ Queued(Broker, p, n)

ServedInv ==
    pc[Broker] \in Serving /\ exists = "there" =>
       \A s \in Subscribers, p \in Publishers : Listening(s) /\ since[s][p] # Never =>
          Expected(s, p) /\ Covered(s, p)

\* Once the broker has left its loop, what is queued for a subscriber still has no gap ...
Gapless(s, p) ==
    \A n \in Nat, m \in Nat : Asked(s, p, m) /\ m < n /\ Queued(s, p, n) =>
       Printed(s, p, m) \/ Queued(s, p, m)
NotifiedInv ==
    pc[Broker] \in Notifying /\ exists = "there" =>
       \A s \in Subscribers, p \in Publishers : Listening(s) => Gapless(s, p)

\* ... and what it has printed never has one before the queue is drained.
GaplessInv ==
    pc[Broker] \in {"start"} \cup Serving \cup Notifying =>
       \A s \in Subscribers, p \in Publishers :
          \A n \in Nat, m \in Nat : Asked(s, p, m) /\ m < n /\ Printed(s, p, n) => Printed(s, p, m)

\* A subscriber that has not started has asked for nothing, and one that has not stopped
\* listening takes nothing back.
FreshInv == \A s \in Subscribers : pc[s] = "start" => \A p \in Publishers : since[s][p] = Never
LeftInv ==
    \A s \in Subscribers : pc[s] \notin {"unsubscribe", "exited", "killed"} =>
       \A i \in 1 .. Len(queue) : queue[i].from = s => queue[i].command # "unsubscribe"

CoverInv == ServedInv /\ NotifiedInv /\ GaplessInv /\ FreshInv /\ LeftInv

\* A subscription that the broker has or will have is one that its subscriber made and, once
\* it has stopped listening, has taken back or will take back: a process that is killed and a
\* second SIGINT apart.
Made(s, topic) ==
    \/ Contains(subscriptions, [pid |-> s, topic |-> topic])
    \/ \E i \in 1 .. Len(queue) : Command(queue[i], "subscribe", s, topic)
TakesBack(s, topic) == \E i \in 1 .. Len(queue) : Command(queue[i], "unsubscribe", s, topic)
WillTakeBack(s, topic) ==
    pc[s] = "unsubscribe" /\ \E k \in step[s] + 1 .. count[s] : TopicsOf[s][k] = topic

MadeInv ==
    /\ \A s \in Subscribers : \A i, j \in 1 .. Len(queue) :
          i < j /\ queue[i].from = s /\ queue[j].from = s /\ queue[i].command = "unsubscribe"
             => queue[j].command # "subscribe"
    /\ \A s \in Subscribers, topic \in Topics :
          Made(s, topic) => exists # "none" /\ \E k \in 1 .. count[s] : TopicsOf[s][k] = topic

\* Until the broker passes its own signal on, a subscriber stops because of the user's SIGINT,
\* and it takes a second one to break off an "unsubscribe".
Asking == {"start", "check", "receive", "forward", "notify_publishers", "notify_subscribers"}
StopInv ==
    /\ \A s \in Subscribers : call[s] = "interrupted" => stop[s]
    /\ pc[Broker] \in Asking =>
          \A s \in Subscribers :
             /\ stop[s] => signals[s] >= 1
             /\ pc[s] = "unsubscribe" => stop[s] \/ exists = "removed"
             /\ pc[s] = "unsubscribe" /\ call[s] = "interrupted" =>
                   signals[s] >= 2 \/ exists = "removed"

StaleInv ==
    pc[Broker] \in Serving /\ exists = "there" =>
       \A s \in Subscribers, topic \in Topics : signals[s] <= 1 /\ Made(s, topic) =>
          Listening(s) \/ pc[s] = "killed" \/ TakesBack(s, topic) \/ WillTakeBack(s, topic)

LeavingInv == MadeInv /\ StopInv /\ StaleInv

DataInv == ContentInv /\ UniqueInv /\ KnownInv /\ OrderInv /\ SinceInv

-----------------------------------------------------------------------------
(* Sets of numbers.                                                        *)

\* A non-empty set of natural numbers has a least element.
LEMMA LeastNatural ==
    ASSUME NEW S \in SUBSET Nat, S # {}
    PROVE  \E n \in S : \A k \in S : n <= k
  <1> DEFINE R == OpToRel(<, Nat)
  <1>1. IsWellFoundedOn(R, Nat)
    BY NatLessThanWellFounded
  <1>2. R = {pair \in Nat \X Nat : pair[1] < pair[2]}
    BY Zenon DEF OpToRel
  <1> HIDE DEF R
  <1>3. PICK n \in S : \A k \in S : <<k, n>> \notin R
    BY <1>1, WFMin
  <1>4. ASSUME NEW k \in S PROVE n <= k
    <2>1. n \in Nat /\ k \in Nat
      OBVIOUS
    <2>2. <<k, n>> \notin {pair \in Nat \X Nat : pair[1] < pair[2]}
      BY <1>2, <1>3, Zenon
    <2> QED
      BY <2>1, <2>2, SMT
  <1> QED
    BY <1>4

\* A set that holds 0 and the successors of its elements holds every number.
LEMMA InductiveSet ==
    ASSUME NEW S \in SUBSET Nat, 0 \in S, \A n \in S : n + 1 \in S
    PROVE  S = Nat
  <1> SUFFICES ASSUME Nat \ S # {} PROVE FALSE
    OBVIOUS
  <1>1. PICK n \in Nat \ S : \A k \in Nat \ S : n <= k
    BY LeastNatural, Nat \ S \in SUBSET Nat, Zenon
  <1>2. n # 0
    OBVIOUS
  <1>3. n - 1 \in Nat /\ n - 1 \notin Nat \ S
    BY <1>1, <1>2
  <1> QED
    BY <1>3

-----------------------------------------------------------------------------
(* Sequences that lose an element.                                         *)

\* Every element but the i-th keeps its place or moves up by one.
LEMMA Removal ==
    ASSUME NEW S, NEW q \in Seq(S), NEW i \in 1 .. Len(q)
    PROVE  /\ RemoveAt(q, i) \in Seq(S)
           /\ Len(RemoveAt(q, i)) = Len(q) - 1
           /\ \A j \in 1 .. Len(q) - 1 : RemoveAt(q, i)[j] = IF j < i THEN q[j] ELSE q[j + 1]
  <1>1. PICK n \in Nat : n = Len(q)
    BY LenProperties
  <1>2. i \in Int /\ i - 1 \in Int /\ i + 1 \in Int /\ n \in Int /\ 1 <= i /\ i <= n
    BY <1>1
  <1>3. PICK left : left = SubSeq(q, 1, i - 1)
    OBVIOUS
  <1>4. PICK right : right = SubSeq(q, i + 1, n)
    OBVIOUS
  <1>5. left \in Seq(S) /\ Len(left) = i - 1 /\ \A j \in 1 .. i - 1 : left[j] = q[j]
    <2>1. \A j \in 1 .. i - 1 : q[j] \in S
      BY <1>1, <1>2, ElementOfSeq
    <2> QED
      BY <1>2, <1>3, <2>1, SubSeqProperties
  <1>6. right \in Seq(S) /\ Len(right) = n - i /\ \A j \in 1 .. n - i : right[j] = q[i + j]
    <2>1. \A j \in i + 1 .. n : q[j] \in S
      BY <1>1, <1>2, ElementOfSeq
    <2> QED
      BY <1>2, <1>4, <2>1, SubSeqProperties
  <1>7. PICK whole : whole = left \o right
    OBVIOUS
  <1>8. /\ whole \in Seq(S) /\ Len(whole) = n - 1
        /\ \A j \in 1 .. n - 1 : whole[j] = IF j <= i - 1 THEN left[j] ELSE right[j - (i - 1)]
    BY <1>2, <1>5, <1>6, <1>7, ConcatProperties
  <1>9. \A j \in 1 .. n - 1 : whole[j] = IF j < i THEN q[j] ELSE q[j + 1]
    <2> TAKE j \in 1 .. n - 1
    <2>1. CASE j < i
      <3>1. j \in 1 .. i - 1
        BY <1>2, <2>1
      <3> QED
        BY <1>2, <1>5, <1>8, <2>1, <3>1
    <2>2. CASE ~(j < i)
      <3>1. j - (i - 1) \in 1 .. n - i /\ i + (j - (i - 1)) = j + 1 /\ ~(j <= i - 1)
        BY <1>2, <2>2
      <3>2. whole[j] = right[j - (i - 1)]
        BY <1>8, <3>1
      <3>3. right[j - (i - 1)] = q[j + 1]
        BY <1>6, <3>1
      <3> QED
        BY <2>2, <3>2, <3>3
    <2> QED
      BY <2>1, <2>2
  <1>10. RemoveAt(q, i) = whole
    BY <1>1, <1>3, <1>4, <1>7 DEF RemoveAt
  <1> QED
    BY <1>1, <1>8, <1>9, <1>10

\* r is what is left of q, in the same order: its j-th element was the h[j]-th.
Kept(h, q, r) ==
    /\ h \in [1 .. Len(r) -> 1 .. Len(q)]
    /\ \A j \in 1 .. Len(r) : r[j] = q[h[j]]
    /\ \A j, k \in 1 .. Len(r) : j < k => h[j] < h[k]

\* r is q without its i-th element.
Without(q, i, h, r) ==
    /\ Kept(h, q, r)
    /\ Len(r) = Len(q) - 1
    /\ \A j \in 1 .. Len(r) : h[j] # i
    /\ \A k \in 1 .. Len(q) : k # i => \E j \in 1 .. Len(r) : h[j] = k

LEMMA RemovalKeeps ==
    ASSUME NEW S, NEW q \in Seq(S), NEW i \in 1 .. Len(q)
    PROVE  RemoveAt(q, i) \in Seq(S) /\ \E h : Without(q, i, h, RemoveAt(q, i))
  <1>1. PICK n \in Nat : n = Len(q)
    BY LenProperties
  <1>2. PICK r : r = RemoveAt(q, i)
    OBVIOUS
  <1>3. /\ r \in Seq(S) /\ Len(r) = n - 1
        /\ \A j \in 1 .. n - 1 : r[j] = IF j < i THEN q[j] ELSE q[j + 1]
    BY <1>1, <1>2, Removal
  <1>4. PICK h : h = [j \in 1 .. n - 1 |-> IF j < i THEN j ELSE j + 1]
    OBVIOUS
  <1>5. i \in 1 .. n
    BY <1>1
  <1>6. h \in [1 .. n - 1 -> 1 .. n]
    BY <1>4, <1>5
  <1>7. \A j \in 1 .. n - 1 : r[j] = q[h[j]] /\ h[j] # i
    BY <1>3, <1>4, <1>5
  <1>8. \A j, k \in 1 .. n - 1 : j < k => h[j] < h[k]
    BY <1>4, <1>5
  <1>9. \A k \in 1 .. n : k # i => \E j \in 1 .. n - 1 : h[j] = k
    <2> SUFFICES ASSUME NEW k \in 1 .. n, k # i PROVE \E j \in 1 .. n - 1 : h[j] = k
      OBVIOUS
    <2>1. CASE k < i
      <3>1. k \in 1 .. n - 1 /\ h[k] = k
        BY <1>4, <1>5, <2>1
      <3> QED
        BY <3>1
    <2>2. CASE ~(k < i)
      <3>1. k - 1 \in 1 .. n - 1 /\ h[k - 1] = k
        BY <1>4, <1>5, <2>2
      <3> QED
        BY <3>1
    <2> QED
      BY <2>1, <2>2
  <1>10. Without(q, i, h, r)
    BY <1>1, <1>3, <1>6, <1>7, <1>8, <1>9 DEF Without, Kept
  <1> QED
    BY <1>2, <1>3, <1>10

LEMMA TailKeeps ==
    ASSUME NEW S, NEW q \in Seq(S), q # <<>>
    PROVE  Tail(q) \in Seq(S) /\ \E h : Without(q, 1, h, Tail(q))
  <1>1. PICK n \in Nat \ {0} : n = Len(q)
    BY EmptySeq
  <1>2. PICK r : r = Tail(q)
    OBVIOUS
  <1>3. r \in Seq(S) /\ Len(r) = n - 1 /\ \A j \in 1 .. n - 1 : r[j] = q[j + 1]
    BY <1>1, <1>2, HeadTailProperties
  <1>4. PICK h : h = [j \in 1 .. n - 1 |-> j + 1]
    OBVIOUS
  <1>5. h \in [1 .. n - 1 -> 1 .. n]
    BY <1>4
  <1>6. \A j \in 1 .. n - 1 : r[j] = q[h[j]] /\ h[j] # 1
    BY <1>3, <1>4
  <1>7. \A j, k \in 1 .. n - 1 : j < k => h[j] < h[k]
    BY <1>4
  <1>8. \A k \in 1 .. n : k # 1 => \E j \in 1 .. n - 1 : h[j] = k
    <2> SUFFICES ASSUME NEW k \in 1 .. n, k # 1 PROVE \E j \in 1 .. n - 1 : h[j] = k
      OBVIOUS
    <2>1. k - 1 \in 1 .. n - 1 /\ h[k - 1] = k
      BY <1>4
    <2> QED
      BY <2>1
  <1>9. Without(q, 1, h, r)
    BY <1>1, <1>3, <1>5, <1>6, <1>7, <1>8 DEF Without, Kept
  <1> QED
    BY <1>2, <1>3, <1>9

\* RemoveFirst takes out the first element that is e.
LEMMA FirstRemoval ==
    ASSUME NEW S, NEW q \in Seq(S), NEW e, Contains(q, e)
    PROVE  \E i \in 1 .. Len(q) : q[i] = e /\ RemoveFirst(q, e) = RemoveAt(q, i)
  <1>1. PICK I : I = {i \in 1 .. Len(q) : q[i] = e}
    OBVIOUS
  <1>2. I \in SUBSET Nat /\ I # {}
    <2>1. Len(q) \in Nat
      OBVIOUS
    <2> QED
      BY <1>1, <2>1 DEF Contains
  <1>3. Min(I) \in I
    BY <1>2, LeastNatural DEF Min
  <1>4. RemoveFirst(q, e) = RemoveAt(q, Min(I))
    BY <1>1, <1>2 DEF RemoveFirst, SelectInSeq, Contains
  <1> QED
    BY <1>1, <1>3, <1>4

-----------------------------------------------------------------------------
(* The lists of the broker.                                                *)

\* What a new head does to a list.
LEMMA NewHead ==
    ASSUME NEW S, NEW list \in Seq(S), NEW e \in S
    PROVE  /\ <<e>> \o list \in Seq(S)
           /\ \A x : Contains(<<e>> \o list, x) <=> Contains(list, x) \/ x = e
           /\ Distinct(list) /\ ~Contains(list, e) => Distinct(<<e>> \o list)
  <1>1. PICK n \in Nat : n = Len(list)
    BY LenProperties
  <1>2. PICK r : r = <<e>> \o list
    OBVIOUS
  <1>3. <<e>> \in Seq(S) /\ Len(<<e>>) = 1 /\ <<e>>[1] = e
    OBVIOUS
  <1>4. /\ r \in Seq(S) /\ Len(r) = 1 + n
        /\ \A i \in 1 .. 1 + n : r[i] = IF i <= 1 THEN <<e>>[i] ELSE list[i - 1]
    BY <1>1, <1>2, <1>3, ConcatProperties
  <1>5. r[1] = e /\ \A i \in 1 .. n : r[i + 1] = list[i]
    <2>1. 1 \in 1 .. 1 + n
      OBVIOUS
    <2>2. \A i \in 1 .. n : i + 1 \in 1 .. 1 + n /\ ~(i + 1 <= 1) /\ (i + 1) - 1 = i
      OBVIOUS
    <2> QED
      BY <1>3, <1>4, <2>1, <2>2
  <1>6. ASSUME NEW x PROVE Contains(r, x) <=> Contains(list, x) \/ x = e
    <2>1. ASSUME Contains(r, x) PROVE Contains(list, x) \/ x = e
      <3>1. PICK i \in 1 .. 1 + n : r[i] = x
        BY <1>4, <2>1 DEF Contains
      <3>2. CASE i = 1
        BY <1>5, <3>1, <3>2
      <3>3. CASE i # 1
        <4>1. i - 1 \in 1 .. n /\ (i - 1) + 1 = i
          BY <3>3
        <4>2. list[i - 1] = x
          BY <1>5, <3>1, <4>1
        <4> QED
          BY <1>1, <4>1, <4>2 DEF Contains
      <3> QED
        BY <3>2, <3>3
    <2>2. ASSUME Contains(list, x) PROVE Contains(r, x)
      <3>1. PICK i \in 1 .. n : list[i] = x
        BY <1>1, <2>2 DEF Contains
      <3>2. i + 1 \in 1 .. 1 + n /\ r[i + 1] = x
        BY <1>5, <3>1
      <3> QED
        BY <1>4, <3>2 DEF Contains
    <2>3. ASSUME x = e PROVE Contains(r, x)
      <3>1. 1 \in 1 .. 1 + n
        OBVIOUS
      <3> QED
        BY <1>4, <1>5, <2>3, <3>1 DEF Contains
    <2> QED
      BY <2>1, <2>2, <2>3
  <1>7. ASSUME Distinct(list), ~Contains(list, e) PROVE Distinct(r)
    <2> SUFFICES ASSUME NEW i \in 1 .. 1 + n, NEW j \in 1 .. 1 + n, r[i] = r[j] PROVE i = j
      BY <1>4 DEF Distinct
    <2>1. \A k \in 1 .. 1 + n : k # 1 => k - 1 \in 1 .. n /\ r[k] = list[k - 1] /\ r[k] # e
      <3> SUFFICES ASSUME NEW k \in 1 .. 1 + n, k # 1
                   PROVE  k - 1 \in 1 .. n /\ r[k] = list[k - 1] /\ r[k] # e
        OBVIOUS
      <3>1. k - 1 \in 1 .. n /\ (k - 1) + 1 = k
        OBVIOUS
      <3>2. r[k] = list[k - 1]
        BY <1>5, <3>1
      <3>3. list[k - 1] # e
        BY <1>1, <1>7, <3>1 DEF Contains
      <3> QED
        BY <3>1, <3>2, <3>3
    <2>2. CASE i = 1 \/ j = 1
      BY <1>5, <2>1, <2>2
    <2>3. CASE i # 1 /\ j # 1
      <3>1. i - 1 = j - 1
        BY <1>1, <1>7, <2>1, <2>3 DEF Distinct
      <3> QED
        BY <3>1
    <2> QED
      BY <2>2, <2>3
  <1> QED
    BY <1>2, <1>4, <1>6, <1>7

LEMMA RegisteredList ==
    ASSUME NEW list \in Seq(Publishers), NEW pid \in Publishers
    PROVE  /\ Registered(list, pid) \in Seq(Publishers)
           /\ \A x : Contains(Registered(list, pid), x) <=> Contains(list, x) \/ x = pid
  BY NewHead DEF Registered

LEMMA SubscribedList ==
    ASSUME NEW list \in Seq(Subscription), Distinct(list),
           NEW pid \in Subscribers, NEW topic \in Topics
    PROVE  /\ Subscribed(list, pid, topic) \in Seq(Subscription)
           /\ Distinct(Subscribed(list, pid, topic))
           /\ \A x : Contains(Subscribed(list, pid, topic), x)
                        <=> Contains(list, x) \/ x = [pid |-> pid, topic |-> topic]
  <1>1. PICK e \in Subscription : e = [pid |-> pid, topic |-> topic]
    BY DEF Subscription
  <1>2. Subscribed(list, pid, topic) = IF Contains(list, e) THEN list ELSE <<e>> \o list
    BY <1>1 DEF Subscribed
  <1>3. CASE Contains(list, e)
    BY <1>1, <1>2, <1>3
  <1>4. CASE ~Contains(list, e)
    BY <1>1, <1>2, <1>4, NewHead
  <1> QED
    BY <1>3, <1>4

LEMMA UnsubscribedList ==
    ASSUME NEW list \in Seq(Subscription), Distinct(list),
           NEW pid \in Subscribers, NEW topic \in Topics
    PROVE  /\ Unsubscribed(list, pid, topic) \in Seq(Subscription)
           /\ Distinct(Unsubscribed(list, pid, topic))
           /\ \A x : Contains(Unsubscribed(list, pid, topic), x)
                        <=> Contains(list, x) /\ x # [pid |-> pid, topic |-> topic]
  <1>1. PICK e \in Subscription : e = [pid |-> pid, topic |-> topic]
    BY DEF Subscription
  <1>2. PICK r : r = RemoveFirst(list, e)
    OBVIOUS
  <1>3. Unsubscribed(list, pid, topic) = r
    BY <1>1, <1>2 DEF Unsubscribed
  <1>4. CASE ~Contains(list, e)
    <2>1. r = list
      BY <1>2, <1>4 DEF RemoveFirst, Contains
    <2> QED
      BY <1>1, <1>3, <1>4, <2>1
  <1>5. CASE Contains(list, e)
    <2>1. PICK i \in 1 .. Len(list) : list[i] = e /\ r = RemoveAt(list, i)
      BY <1>2, <1>5, FirstRemoval
    <2>2. PICK h : r \in Seq(Subscription) /\ Without(list, i, h, r)
      BY <2>1, RemovalKeeps
    <2>3. /\ h \in [1 .. Len(r) -> 1 .. Len(list)]
          /\ \A j \in 1 .. Len(r) : r[j] = list[h[j]] /\ h[j] # i
          /\ \A j, k \in 1 .. Len(r) : j < k => h[j] < h[k]
          /\ \A k \in 1 .. Len(list) : k # i => \E j \in 1 .. Len(r) : h[j] = k
      BY <2>2, Zenon DEF Without, Kept
    <2>4. Distinct(r)
      <3> SUFFICES ASSUME NEW j \in 1 .. Len(r), NEW k \in 1 .. Len(r), r[j] = r[k] PROVE j = k
        BY DEF Distinct
      <3>1. h[j] = h[k]
        BY SMTT(30), <2>3 DEF Distinct
      <3>2. h[j] \in 1 .. Len(list) /\ h[k] \in 1 .. Len(list) /\ Len(list) \in Nat /\ Len(r) \in Nat
        BY <2>2, <2>3
      <3> QED
        BY SMTT(30), <2>3, <3>1, <3>2
    <2>5. ASSUME NEW x PROVE Contains(r, x) <=> Contains(list, x) /\ x # e
      <3>1. ASSUME Contains(r, x) PROVE Contains(list, x) /\ x # e
        <4>1. PICK j \in 1 .. Len(r) : r[j] = x
          BY <3>1 DEF Contains
        <4>2. h[j] \in 1 .. Len(list) /\ list[h[j]] = x /\ h[j] # i
          BY <2>3, <4>1
        <4> QED
          BY <2>1, <4>2 DEF Contains, Distinct
      <3>2. ASSUME Contains(list, x), x # e PROVE Contains(r, x)
        <4>1. PICK k \in 1 .. Len(list) : list[k] = x
          BY <3>2 DEF Contains
        <4>2. PICK j \in 1 .. Len(r) : h[j] = k
          BY <2>1, <2>3, <3>2, <4>1
        <4> QED
          BY <2>3, <4>1, <4>2 DEF Contains
      <3> QED
        BY <3>1, <3>2
    <2> QED
      BY <1>1, <1>3, <2>2, <2>4, <2>5
  <1> QED
    BY <1>4, <1>5

\* The equation that defines Interested.
Filters(list, topic, among) ==
    among = [i \in 0 .. Len(list) |->
                IF i = 0 THEN <<>>
                ELSE IF list[i].topic = topic THEN Append(among[i - 1], list[i])
                ELSE among[i - 1]]

\* It has a solution.
LEMMA FilterExists ==
    ASSUME NEW list \in Seq(Subscription), NEW topic
    PROVE  \E among : Filters(list, topic, among)
  <1>1. PICK N \in Nat : N = Len(list)
    BY LenProperties
  <1> DEFINE Upto(n, f) == f = [i \in 0 .. n |->
                                  IF i = 0 THEN <<>>
                                  ELSE IF list[i].topic = topic THEN Append(f[i - 1], list[i])
                                  ELSE f[i - 1]]
             S == {n \in Nat : \E f : Upto(n, f)}
  <1>2. 0 \in S
    <2> DEFINE f == [i \in 0 .. 0 |-> <<>>]
    <2>1. Upto(0, f)
      OBVIOUS
    <2> HIDE DEF f, Upto
    <2> QED
      BY <2>1
  <1>3. ASSUME NEW n \in S PROVE n + 1 \in S
    <2>1. PICK f : Upto(n, f)
      OBVIOUS
    <2>2. PICK v : v = IF list[n + 1].topic = topic THEN Append(f[n], list[n + 1]) ELSE f[n]
      OBVIOUS
    <2>3. PICK g : g = [i \in 0 .. n + 1 |-> IF i = n + 1 THEN v ELSE f[i]]
      OBVIOUS
    <2>4. n \in Nat
      OBVIOUS
    <2>5. \A i \in 0 .. n + 1 :
             g[i] = IF i = 0 THEN <<>>
                    ELSE IF list[i].topic = topic THEN Append(g[i - 1], list[i])
                    ELSE g[i - 1]
      <3> SUFFICES ASSUME NEW i \in 0 .. n + 1
                   PROVE  g[i] = IF i = 0 THEN <<>>
                                 ELSE IF list[i].topic = topic THEN Append(g[i - 1], list[i])
                                 ELSE g[i - 1]
        OBVIOUS
      <3>1. CASE i = n + 1
        <4>1. n \in 0 .. n + 1 /\ n # n + 1 /\ n + 1 \in 0 .. n + 1 /\ (n + 1) - 1 = n /\ n + 1 # 0
          BY <2>4
        <4>2. g[n + 1] = v /\ g[n] = f[n]
          BY <2>3, <4>1
        <4> QED
          BY <2>2, <3>1, <4>1, <4>2
      <3>2. CASE i # n + 1
        <4>1. i \in 0 .. n /\ (i # 0 => i - 1 \in 0 .. n)
          BY <2>4, <3>2
        <4>2. g[i] = f[i] /\ (i # 0 => g[i - 1] = f[i - 1])
          BY <2>3, <2>4, <4>1
        <4>3. f[i] = IF i = 0 THEN <<>>
                     ELSE IF list[i].topic = topic THEN Append(f[i - 1], list[i])
                     ELSE f[i - 1]
          BY <2>1, <4>1
        <4> QED
          BY <4>2, <4>3
      <3> QED
        BY <3>1, <3>2
    <2>6. g = [i \in 0 .. n + 1 |-> g[i]]
      BY <2>3
    <2>7. Upto(n + 1, g)
      BY <2>5, <2>6
    <2>8. n + 1 \in Nat
      BY <2>4
    <2> HIDE DEF Upto
    <2> QED
      BY <2>7, <2>8
  <1>4. S = Nat
    <2>1. S \in SUBSET Nat
      OBVIOUS
    <2> HIDE DEF S
    <2> QED
      BY <1>2, <1>3, <2>1, InductiveSet
  <1>5. \E f : Upto(N, f)
    BY <1>4
  <1> QED
    BY <1>1, <1>5 DEF Filters

\* What a list of subscriptions yields for a topic: its elements with the topic, all of them,
\* and none twice if the list holds none twice.
IsSelection(list, n, topic, chosen) ==
    /\ chosen \in Seq(Subscription)
    /\ \A k \in 1 .. Len(chosen) :
          \E j \in 1 .. n : chosen[k] = list[j] /\ list[j].topic = topic
    /\ \A j \in 1 .. n : list[j].topic = topic => Contains(chosen, list[j])
    /\ Distinct(list) => Distinct(chosen)

LEMMA EmptySelection ==
    ASSUME NEW list, NEW topic
    PROVE  IsSelection(list, 0, topic, <<>>)
  <1>1. <<>> \in Seq(Subscription) /\ Len(<<>>) = 0 /\ 1 .. 0 = {}
    OBVIOUS
  <1> QED
    BY <1>1 DEF IsSelection, Distinct

LEMMA NextSelection ==
    ASSUME NEW list \in Seq(Subscription), NEW topic, NEW n \in Nat, n + 1 <= Len(list),
           NEW chosen, IsSelection(list, n, topic, chosen)
    PROVE  IsSelection(list, n + 1, topic,
              IF list[n + 1].topic = topic THEN Append(chosen, list[n + 1]) ELSE chosen)
  <1>1. PICK N \in Nat : N = Len(list)
    BY LenProperties
  <1>2. /\ chosen \in Seq(Subscription)
        /\ \A k \in 1 .. Len(chosen) :
              \E j \in 1 .. n : chosen[k] = list[j] /\ list[j].topic = topic
        /\ \A j \in 1 .. n : list[j].topic = topic => Contains(chosen, list[j])
        /\ Distinct(list) => Distinct(chosen)
    BY DEF IsSelection
  <1>3. n + 1 \in 1 .. N /\ n + 1 \in 1 .. n + 1 /\ list[n + 1] \in Subscription
    <2>1. n + 1 \in 1 .. N /\ n + 1 \in 1 .. n + 1
      BY <1>1
    <2> QED
      BY <1>1, <2>1, ElementOfSeq
  <1>4. \A j \in 1 .. n + 1 : j \in 1 .. n \/ j = n + 1
    OBVIOUS
  <1>5. \A j \in 1 .. n : j \in 1 .. n + 1
    OBVIOUS
  <1>6. CASE list[n + 1].topic # topic
    <2>1. \A k \in 1 .. Len(chosen) :
             \E j \in 1 .. n + 1 : chosen[k] = list[j] /\ list[j].topic = topic
      BY <1>2, <1>5
    <2>2. \A j \in 1 .. n + 1 : list[j].topic = topic => Contains(chosen, list[j])
      BY <1>2, <1>4, <1>6
    <2>3. IsSelection(list, n + 1, topic, chosen)
      BY <1>2, <2>1, <2>2 DEF IsSelection
    <2> QED
      BY <1>6, <2>3
  <1>7. CASE list[n + 1].topic = topic
    <2>1. PICK e \in Subscription : e = list[n + 1]
      BY <1>3
    <2>2. PICK m \in Nat : m = Len(chosen)
      BY <1>2, LenProperties
    <2>3. PICK r : r = Append(chosen, e)
      OBVIOUS
    <2>4. /\ r \in Seq(Subscription) /\ Len(r) = m + 1 /\ r[m + 1] = e
          /\ \A k \in 1 .. m : r[k] = chosen[k]
      BY <1>2, <2>2, <2>3
    <2>5. \A k \in 1 .. m + 1 : k \in 1 .. m \/ k = m + 1
      BY <2>2
    <2>6. m + 1 \in 1 .. m + 1 /\ \A k \in 1 .. m : k \in 1 .. m + 1
      BY <2>2
    <2>7. \A k \in 1 .. m + 1 : \E j \in 1 .. n + 1 : r[k] = list[j] /\ list[j].topic = topic
      <3> SUFFICES ASSUME NEW k \in 1 .. m + 1
                   PROVE  \E j \in 1 .. n + 1 : r[k] = list[j] /\ list[j].topic = topic
        OBVIOUS
      <3>1. CASE k \in 1 .. m
        BY <1>2, <1>5, <2>2, <2>4, <3>1
      <3>2. CASE k = m + 1
        BY <1>3, <1>7, <2>1, <2>4, <3>2
      <3> QED
        BY <2>5, <3>1, <3>2
    <2>8. \A x : Contains(chosen, x) => Contains(r, x)
      BY <2>2, <2>4, <2>6 DEF Contains
    <2>9. Contains(r, e)
      BY <2>4, <2>6 DEF Contains
    <2>10. \A j \in 1 .. n + 1 : list[j].topic = topic => Contains(r, list[j])
      BY <1>2, <1>4, <2>1, <2>8, <2>9
    <2>11. ASSUME Distinct(list) PROVE Distinct(r)
      <3>1. \A k \in 1 .. m : r[k] # e
        <4> SUFFICES ASSUME NEW k \in 1 .. m, r[k] = e PROVE FALSE
          OBVIOUS
        <4>1. PICK j \in 1 .. n : chosen[k] = list[j]
          BY <1>2, <2>2
        <4>2. list[j] = list[n + 1]
          BY <2>1, <2>4, <4>1
        <4>3. j \in 1 .. N /\ j # n + 1
          BY <1>3
        <4> QED
          BY <1>1, <1>3, <2>11, <4>2, <4>3 DEF Distinct
      <3>2. \A k, l \in 1 .. m : r[k] = r[l] => k = l
        BY <1>2, <2>2, <2>4, <2>11 DEF Distinct
      <3>3. ASSUME NEW k \in 1 .. m + 1, NEW l \in 1 .. m + 1, r[k] = r[l] PROVE k = l
        BY <2>4, <2>5, <3>1, <3>2, <3>3
      <3> QED
        BY <2>4, <3>3 DEF Distinct
    <2>12. IsSelection(list, n + 1, topic, r)
      BY <2>4, <2>7, <2>10, <2>11 DEF IsSelection
    <2> QED
      BY <1>7, <2>1, <2>3, <2>12
  <1> QED
    BY <1>6, <1>7

LEMMA InterestedSelects ==
    ASSUME NEW topic, subscriptions \in Seq(Subscription)
    PROVE  IsSelection(subscriptions, Len(subscriptions), topic, Interested(topic))
  <1>1. PICK list \in Seq(Subscription) : list = subscriptions
    OBVIOUS
  <1>2. PICK N \in Nat : N = Len(list)
    BY <1>1, LenProperties
  <1>3. PICK among : among = CHOOSE f : Filters(list, topic, f)
    OBVIOUS
  <1>4. Filters(list, topic, among)
    BY <1>3, FilterExists
  <1>5. Interested(topic) = among[N]
    BY <1>1, <1>2, <1>3 DEF Interested, Filters
  <1> DEFINE S == {n \in Nat : n <= N => IsSelection(list, n, topic, among[n])}
  <1>6. 0 \in S
    <2>1. among[0] = <<>>
      BY <1>2, <1>4 DEF Filters
    <2> QED
      BY <2>1, EmptySelection
  <1>7. ASSUME NEW n \in S PROVE n + 1 \in S
    <2> SUFFICES ASSUME n + 1 <= N PROVE IsSelection(list, n + 1, topic, among[n + 1])
      OBVIOUS
    <2>1. n \in Nat /\ n <= N /\ n + 1 \in 0 .. N /\ n + 1 # 0 /\ (n + 1) - 1 = n
      OBVIOUS
    <2>2. IsSelection(list, n, topic, among[n])
      BY <2>1
    <2>3. among[n + 1] = IF list[n + 1].topic = topic THEN Append(among[n], list[n + 1])
                         ELSE among[n]
      BY <1>2, <1>4, <2>1 DEF Filters
    <2> HIDE DEF S
    <2> QED
      BY <1>2, <2>1, <2>2, <2>3, NextSelection
  <1>8. S = Nat
    <2>1. S \in SUBSET Nat
      OBVIOUS
    <2> HIDE DEF S
    <2> QED
      BY <1>6, <1>7, <2>1, InductiveSet
  <1>9. IsSelection(list, N, topic, among[N])
    BY <1>8
  <1> QED
    BY <1>1, <1>2, <1>5, <1>9

-----------------------------------------------------------------------------
(* Types.                                                                  *)

AllStages == BrokerStages \cup SubscriberStages \cup PublisherStages
CallStates == {"entering", "asleep", "interrupted"}

LEMMA Different ==
    /\ Broker \in Procs
    /\ \A p \in Publishers : p \in Procs /\ p \in Clients /\ p # Broker /\ p \notin Subscribers
    /\ \A s \in Subscribers : s \in Procs /\ s \in Clients /\ s # Broker /\ s \notin Publishers
    /\ \A x \in Procs : x = Broker \/ x \in Publishers \/ x \in Subscribers
    /\ \A p \in Publishers : TopicOf[p] \in Topics
  BY ProcessesAssumption DEF Procs, Clients, Topics

\* What Goto changes.
LEMMA GotoMoves ==
    ASSUME TypeInv, NEW x \in Procs, NEW w, Goto(x, w)
    PROVE  /\ pc'[x] = w /\ call'[x] = "entering"
           /\ \A y \in Procs \ {x} : pc'[y] = pc[y] /\ call'[y] = call[y]
           /\ call' \in [Procs -> CallStates]
           /\ w \in AllStages => pc' \in [Procs -> AllStages]
  BY DEF TypeInv, PcTyped, ControlTyped, Goto, AllStages, CallStates

\* A step of the broker keeps the types, if what it changes has the right ones.
LEMMA BrokerMoves ==
    ASSUME TypeInv, StartInv, NEW w \in BrokerStages \ {"start"}, Goto(Broker, w),
           UNCHANGED <<stop, step, count, sent, received, since, signals, kills>>,
           exists' \in {"there", "removed"}, exists' = "removed" => queue' = <<>>,
           second' \in 0 .. ShutdownTimeout,
           w \notin {"remove", "exited"} => second' < ShutdownTimeout,
           queue' \in Seq(Message), Len(queue') <= QueueLimit,
           outgoing' \in Seq(Message), w = "forward" <=> outgoing' # <<>>,
           publishers' \in Seq(Publishers), subscriptions' \in Seq(Subscription)
    PROVE  TypeInv' /\ StartInv'
  <1>1. /\ pc'[Broker] = w
        /\ \A s \in Subscribers : pc'[s] = pc[s]
        /\ \A p \in Publishers : pc'[p] = pc[p]
        /\ call' \in [Procs -> CallStates] /\ pc' \in [Procs -> AllStages]
    BY GotoMoves, Different DEF AllStages
  <1>2. PcTyped'
    BY <1>1 DEF TypeInv, PcTyped, AllStages
  <1>3. ControlTyped'
    BY <1>1 DEF TypeInv, ControlTyped, CallStates
  <1>4. StepInv'
    BY <1>1 DEF TypeInv, StepInv
  <1>5. DataTyped'
    BY <1>1 DEF TypeInv, DataTyped
  <1>6. StartInv'
    BY <1>1 DEF StartInv
  <1> QED
    BY <1>2, <1>3, <1>4, <1>5, <1>6 DEF TypeInv

\* So does a step of a publisher ...
LEMMA PublisherMoves ==
    ASSUME TypeInv, StartInv, NEW x \in Publishers, NEW w \in PublisherStages, Goto(x, w),
           UNCHANGED <<stop, exists, publishers, subscriptions, outgoing, second, step, count,
                       received, since, signals>>,
           kills' \in Nat,
           queue' \in Seq(Message), Len(queue') <= QueueLimit,
           sent' \in [Publishers -> 0 .. MaxPublications],
           \A p \in Publishers : p # x => sent'[p] = sent[p],
           w = "send" => sent'[x] < MaxPublications,
           exists = "none" => w \in Ended,
           exists # "there" => queue' = queue
    PROVE  TypeInv' /\ StartInv'
  <1>1. /\ pc'[x] = w /\ pc'[Broker] = pc[Broker]
        /\ \A s \in Subscribers : pc'[s] = pc[s]
        /\ \A p \in Publishers : p # x => pc'[p] = pc[p]
        /\ call' \in [Procs -> CallStates] /\ pc' \in [Procs -> AllStages]
    BY GotoMoves, Different DEF AllStages
  <1>2. PcTyped'
    BY <1>1 DEF TypeInv, PcTyped, AllStages
  <1>3. ControlTyped'
    BY <1>1 DEF TypeInv, ControlTyped, CallStates
  <1>4. StepInv'
    BY <1>1 DEF TypeInv, StepInv
  <1>5. DataTyped'
    BY <1>1 DEF TypeInv, DataTyped
  <1>6. StartInv'
    BY <1>1 DEF StartInv, Ended
  <1> QED
    BY <1>2, <1>3, <1>4, <1>5, <1>6 DEF TypeInv

\* ... and of a subscriber.
LEMMA SubscriberMoves ==
    ASSUME TypeInv, StartInv, NEW x \in Subscribers, NEW w \in SubscriberStages, Goto(x, w),
           UNCHANGED <<stop, exists, publishers, subscriptions, outgoing, second, sent, signals>>,
           kills' \in Nat,
           queue' \in Seq(Message), Len(queue') <= QueueLimit,
           received' \in [Subscribers -> Seq(Publishers \X (1 .. MaxPublications))],
           since' \in [Subscribers -> [Publishers -> -1 .. MaxPublications]],
           step' \in [Subscribers -> Nat], count' \in [Subscribers -> Nat],
           \A s \in Subscribers : s # x => step'[s] = step[s] /\ count'[s] = count[s],
           count'[x] <= Len(TopicsOf[x]), step'[x] <= Len(TopicsOf[x]),
           w # "start",
           w = "subscribe" => step'[x] = count'[x] /\ count'[x] < Len(TopicsOf[x]),
           w = "unsubscribe" => step'[x] < count'[x],
           exists = "none" => w \in Ended,
           exists # "there" => queue' = queue
    PROVE  TypeInv' /\ StartInv'
  <1>1. /\ pc'[x] = w /\ pc'[Broker] = pc[Broker]
        /\ \A p \in Publishers : pc'[p] = pc[p]
        /\ \A s \in Subscribers : s # x => pc'[s] = pc[s]
        /\ call' \in [Procs -> CallStates] /\ pc' \in [Procs -> AllStages]
    BY GotoMoves, Different DEF AllStages
  <1>2. PcTyped'
    BY <1>1 DEF TypeInv, PcTyped, AllStages
  <1>3. ControlTyped'
    BY <1>1 DEF TypeInv, ControlTyped, CallStates
  <1>4. StepInv'
    BY <1>1 DEF TypeInv, StepInv
  <1>5. DataTyped'
    BY <1>1 DEF TypeInv, DataTyped
  <1>6. StartInv'
    BY <1>1 DEF StartInv, Ended
  <1> QED
    BY <1>2, <1>3, <1>4, <1>5, <1>6 DEF TypeInv

\* The broker takes the i-th message, the first one for it, and h tells where the others are.
Takes(p, i, h) ==
    /\ i \in 1 .. Len(queue) /\ queue[i].to = p
    /\ \A j \in 1 .. i - 1 : queue[j].to # p
    /\ queue' \in Seq(Message) /\ Without(queue, i, h, queue')
    /\ Len(queue') <= QueueLimit

LEMMA TakeEffect ==
    ASSUME TypeInv, NEW p, NEW i \in DOMAIN queue, Take(p, i)
    PROVE  i \in 1 .. Len(queue) /\ exists = "there" /\ \E h : Takes(p, i, h)
  <1>1. queue \in Seq(Message) /\ Len(queue) <= QueueLimit /\ QueueLimit \in Nat
    BY BoundsAssumption DEF TypeInv, DataTyped
  <1>2. i \in 1 .. Len(queue)
    BY <1>1
  <1>3. queue' = RemoveAt(queue, i)
    BY DEF Take
  <1>4. /\ queue' \in Seq(Message) /\ Len(queue') = Len(queue) - 1
        /\ \E h : Without(queue, i, h, queue')
    BY <1>1, <1>2, <1>3, RemovalKeeps, Removal, Zenon
  <1>5. Len(queue') <= QueueLimit
    BY <1>1, <1>4
  <1> QED
    BY <1>2, <1>4, <1>5 DEF Take, FirstFor, Takes

\* Put appends a message.
Appends(m) ==
    /\ exists = "there" /\ m \in Message
    /\ queue' \in Seq(Message) /\ Len(queue') = Len(queue) + 1 /\ Len(queue') <= QueueLimit
    /\ queue'[Len(queue) + 1] = m
    /\ \A j \in 1 .. Len(queue) : queue'[j] = queue[j]

LEMMA PutEffect ==
    ASSUME TypeInv, NEW p, NEW m \in Message, Put(p, m)
    PROVE  Appends(m)
  <1>1. queue \in Seq(Message) /\ QueueLimit \in Nat /\ Len(queue) < QueueLimit
    BY BoundsAssumption DEF TypeInv, DataTyped, Put, Fits
  <1>2. queue' = Append(queue, m)
    BY DEF Put
  <1>3. queue' \in Seq(Message) /\ Len(queue') = Len(queue) + 1
    BY <1>1, <1>2
  <1>4. queue'[Len(queue) + 1] = m /\ \A j \in 1 .. Len(queue) : queue'[j] = queue[j]
    BY <1>1, <1>2
  <1>5. Len(queue') <= QueueLimit
    BY <1>1, <1>3
  <1> QED
    BY <1>3, <1>4, <1>5 DEF Appends, Put

\* The message as it is forwarded to s.
For(m, s) == [m EXCEPT !.to = s]

LEMMA ForwardedMessage ==
    ASSUME NEW m \in Message, NEW s \in Subscribers
    PROVE  /\ For(m, s) \in Message
           /\ For(m, s).to = s /\ For(m, s).command = m.command /\ For(m, s).from = m.from
           /\ For(m, s).topic = m.topic /\ For(m, s).number = m.number
  BY DEF For, Message

\* outgoing holds m for every subscription to its topic.
Fans(m, list, out) ==
    /\ out \in Seq(Message)
    /\ \A k \in 1 .. Len(out) :
          \E s \in Subscribers : out[k] = For(m, s) /\ Contains(list, [pid |-> s, topic |-> m.topic])
    /\ \A s \in Subscribers : Contains(list, [pid |-> s, topic |-> m.topic]) =>
          \E k \in 1 .. Len(out) : out[k] = For(m, s)
    /\ \A k, l \in 1 .. Len(out) : out[k].to = out[l].to => k = l

LEMMA SendFans ==
    ASSUME NEW m \in Message, NEW recipients,
           subscriptions \in Seq(Subscription), UniqueInv,
           IsSelection(subscriptions, Len(subscriptions), m.topic, recipients)
    PROVE  /\ Fans(m, subscriptions, [i \in DOMAIN recipients |-> [m EXCEPT !.to = recipients[i].pid]])
           /\ [i \in DOMAIN recipients |-> [m EXCEPT !.to = recipients[i].pid]] = <<>>
                 <=> recipients = <<>>
  <1>1. PICK list \in Seq(Subscription) : list = subscriptions
    OBVIOUS
  <1>2. PICK N \in Nat : N = Len(list)
    BY <1>1, LenProperties
  <1>3. PICK topic : topic = m.topic
    OBVIOUS
  <1>4. /\ recipients \in Seq(Subscription)
        /\ \A k \in 1 .. Len(recipients) :
              \E j \in 1 .. N : recipients[k] = list[j] /\ list[j].topic = topic
        /\ \A j \in 1 .. N : list[j].topic = topic => Contains(recipients, list[j])
        /\ Distinct(recipients)
    BY <1>1, <1>2, <1>3 DEF IsSelection, UniqueInv
  <1>5. PICK n \in Nat : n = Len(recipients)
    BY <1>4, LenProperties
  <1>6. DOMAIN recipients = 1 .. n /\ \A k \in 1 .. n : recipients[k] \in Subscription
    BY <1>4, <1>5, ElementOfSeq, LenProperties
  <1>7. PICK out : out = [i \in 1 .. n |-> [m EXCEPT !.to = recipients[i].pid]]
    OBVIOUS
  <1>8. ASSUME NEW k \in 1 .. n
        PROVE  /\ out[k] = For(m, recipients[k].pid) /\ recipients[k].pid \in Subscribers
               /\ recipients[k] = [pid |-> recipients[k].pid, topic |-> topic]
               /\ Contains(list, recipients[k])
    <2>1. PICK j \in 1 .. N : recipients[k] = list[j] /\ list[j].topic = topic
      BY <1>4, <1>5
    <2>2. recipients[k] \in [pid : Subscribers, topic : Topics]
      BY <1>6 DEF Subscription
    <2>3. recipients[k].pid \in Subscribers /\ recipients[k] = [pid |-> recipients[k].pid, topic |-> topic]
      BY <2>1, <2>2
    <2>4. Contains(list, recipients[k])
      BY <1>2, <2>1 DEF Contains
    <2>5. out[k] = For(m, recipients[k].pid)
      BY <1>7 DEF For
    <2> QED
      BY <2>3, <2>4, <2>5, Zenon
  <1>9. \A k \in 1 .. n : out[k] \in Message /\ out[k].to = recipients[k].pid
    <2> TAKE k \in 1 .. n
    <2>1. recipients[k].pid \in Subscribers /\ out[k] = For(m, recipients[k].pid)
      BY <1>8
    <2>2. \A s \in Subscribers : For(m, s) \in Message /\ For(m, s).to = s
      BY ForwardedMessage, Zenon
    <2> QED
      BY <2>1, <2>2, Zenon
  <1>10. out \in Seq(Message) /\ Len(out) = n
    <2>1. out = [k \in 1 .. n |-> out[k]]
      BY <1>7
    <2>2. out \in [1 .. n -> Message]
      BY <1>9, <2>1
    <2> QED
      BY <2>2
  <1>11. \A k \in 1 .. n :
            \E s \in Subscribers : out[k] = For(m, s) /\ Contains(list, [pid |-> s, topic |-> topic])
    BY <1>8
  <1>12. ASSUME NEW s \in Subscribers, Contains(list, [pid |-> s, topic |-> topic])
         PROVE  \E k \in 1 .. n : out[k] = For(m, s)
    <2>1. PICK j \in 1 .. N : list[j] = [pid |-> s, topic |-> topic]
      BY <1>2, <1>12 DEF Contains
    <2>2. Contains(recipients, list[j])
      BY <1>4, <2>1
    <2>3. PICK k \in 1 .. n : recipients[k] = [pid |-> s, topic |-> topic]
      BY <1>5, <2>1, <2>2 DEF Contains
    <2> QED
      BY <1>8, <2>3
  <1>13. \A k, l \in 1 .. n : out[k].to = out[l].to => k = l
    <2> SUFFICES ASSUME NEW k \in 1 .. n, NEW l \in 1 .. n, out[k].to = out[l].to PROVE k = l
      OBVIOUS
    <2>1. recipients[k] = recipients[l]
      BY <1>8, <1>9
    <2> QED
      BY <1>4, <1>5, <2>1 DEF Distinct
  <1>14. Fans(m, list, out)
    BY <1>3, <1>10, <1>11, <1>12, <1>13 DEF Fans
  <1>15. out = <<>> <=> recipients = <<>>
    BY <1>4, <1>5, <1>10, EmptySeq
  <1> QED
    BY <1>1, <1>6, <1>7, <1>14, <1>15

\* What the broker does with a message m.
SendEffect(m) ==
    /\ m.command = "send" /\ m.from \in Publishers
    /\ publishers' \in Seq(Publishers)
    /\ \A x : Contains(publishers', x) <=> Contains(publishers, x) \/ x = m.from
    /\ subscriptions' = subscriptions
    /\ Fans(m, subscriptions, outgoing')
    /\ Goto(Broker, IF outgoing' = <<>> THEN "check" ELSE "forward")

SubscribeEffect(m) ==
    /\ m.command = "subscribe" /\ m.from \in Subscribers
    /\ subscriptions' \in Seq(Subscription) /\ Distinct(subscriptions')
    /\ \A x : Contains(subscriptions', x)
                 <=> Contains(subscriptions, x) \/ x = [pid |-> m.from, topic |-> m.topic]
    /\ publishers' = publishers /\ outgoing' = <<>>
    /\ Goto(Broker, "check")

UnsubscribeEffect(m) ==
    /\ m.command = "unsubscribe" /\ m.from \in Subscribers
    /\ subscriptions' \in Seq(Subscription) /\ Distinct(subscriptions')
    /\ \A x : Contains(subscriptions', x)
                 <=> Contains(subscriptions, x) /\ x # [pid |-> m.from, topic |-> m.topic]
    /\ publishers' = publishers /\ outgoing' = <<>>
    /\ Goto(Broker, "check")

ReceiveEffect(i, h) ==
    /\ pc[Broker] = "receive" /\ exists = "there" /\ outgoing = <<>>
    /\ Takes(Broker, i, h)
    /\ SendEffect(queue[i]) \/ SubscribeEffect(queue[i]) \/ UnsubscribeEffect(queue[i])
    /\ UNCHANGED <<stop, exists, second, step, count, sent, received, since, signals, kills>>

LEMMA BrokerReceiveEffect ==
    ASSUME TypeInv, ContentInv, UniqueInv, BrokerReceive
    PROVE  \E i, h : ReceiveEffect(i, h)
  <1>1. PICK i \in DOMAIN queue :
           Take(Broker, i) /\ (ReceiveSend(queue[i]) \/ ReceiveSubscribe(queue[i])
                                 \/ ReceiveUnsubscribe(queue[i]))
    BY DEF BrokerReceive
  <1>2. PICK h : i \in 1 .. Len(queue) /\ exists = "there" /\ Takes(Broker, i, h)
    BY <1>1, TakeEffect
  <1>3. PICK m \in Message : m = queue[i]
    BY <1>2, ElementOfSeq DEF TypeInv, DataTyped
  <1>4. Proper(m)
    BY <1>2, <1>3 DEF ContentInv
  <1>5. /\ subscriptions \in Seq(Subscription) /\ publishers \in Seq(Publishers)
        /\ pc[Broker] = "receive" /\ outgoing = <<>> /\ m.topic \in Topics
    BY <1>3 DEF TypeInv, DataTyped, BrokerReceive, Message
  <1>6. ASSUME ReceiveSend(m) PROVE SendEffect(m)
    <2>1. m.command = "send" /\ m.from \in Publishers
      BY <1>4, <1>6 DEF ReceiveSend, Proper, ProperFor
    <2>2. /\ publishers' \in Seq(Publishers)
          /\ \A x : Contains(publishers', x) <=> Contains(publishers, x) \/ x = m.from
      BY <1>5, <1>6, <2>1, RegisteredList DEF ReceiveSend
    <2>3. PICK recipients : recipients = Interested(m.topic)
      OBVIOUS
    <2>4. /\ outgoing' = [k \in DOMAIN recipients |-> [m EXCEPT !.to = recipients[k].pid]]
          /\ Goto(Broker, IF recipients = <<>> THEN "check" ELSE "forward")
          /\ subscriptions' = subscriptions
      BY <1>6, <2>3 DEF ReceiveSend
    <2>5. Fans(m, subscriptions, outgoing') /\ (outgoing' = <<>> <=> recipients = <<>>)
      BY <1>5, <2>3, <2>4, SendFans, InterestedSelects
    <2> QED
      BY <2>1, <2>2, <2>4, <2>5 DEF SendEffect
  <1>7. ASSUME ReceiveSubscribe(m) PROVE SubscribeEffect(m)
    <2>1. m.command = "subscribe" /\ m.from \in Subscribers
      BY <1>4, <1>7 DEF ReceiveSubscribe, Proper, ProperFor
    <2> QED
      BY <1>3, <1>5, <1>7, <2>1, SubscribedList DEF ReceiveSubscribe, SubscribeEffect, UniqueInv
  <1>8. ASSUME ReceiveUnsubscribe(m) PROVE UnsubscribeEffect(m)
    <2>1. m.command = "unsubscribe" /\ m.from \in Subscribers
      BY <1>4, <1>8 DEF ReceiveUnsubscribe, Proper, ProperFor
    <2> QED
      BY <1>3, <1>5, <1>8, <2>1, UnsubscribedList DEF ReceiveUnsubscribe, UnsubscribeEffect, UniqueInv
  <1>9. SendEffect(m) \/ SubscribeEffect(m) \/ UnsubscribeEffect(m)
    <2>1. ReceiveSend(m) \/ ReceiveSubscribe(m) \/ ReceiveUnsubscribe(m)
      BY <1>1, <1>3
    <2> QED
      BY <1>6, <1>7, <1>8, <2>1
  <1>10. ReceiveEffect(i, h)
    BY <1>2, <1>3, <1>5, <1>9 DEF ReceiveEffect, BrokerReceive, progress, history, outside
  <1> QED
    BY <1>10

\* Every step keeps the types.
LEMMA BrokerStepTyped ==
    ASSUME TypeInv, StartInv, ContentInv, UniqueInv, BrokerStep
    PROVE  TypeInv' /\ StartInv'
  <1>0. /\ pc[Broker] \in BrokerStages /\ call \in [Procs -> CallStates] /\ pc \in [Procs -> AllStages]
        /\ exists \in {"none", "there", "removed"} /\ second \in 0 .. ShutdownTimeout
        /\ pc[Broker] \notin {"remove", "exited"} => second < ShutdownTimeout
        /\ queue \in Seq(Message) /\ Len(queue) <= QueueLimit
        /\ outgoing \in Seq(Message) /\ (pc[Broker] = "forward" <=> outgoing # <<>>)
        /\ publishers \in Seq(Publishers) /\ subscriptions \in Seq(Subscription)
        /\ pc[Broker] = "start" <=> exists = "none"
        /\ exists = "removed" => queue = <<>>
        /\ exists = "none" => queue = <<>>
        /\ ShutdownTimeout \in Nat \ {0} /\ QueueLimit \in Nat \ {0}
    BY BoundsAssumption
       DEF TypeInv, PcTyped, ControlTyped, DataTyped, StartInv, CallStates, AllStages
  <1>e. <<>> \in Seq(Message) /\ Len(<<>>) = 0 /\ 0 <= QueueLimit
    BY <1>0
  <1>1. CASE StartBroker
    BY <1>0, <1>1, BrokerMoves DEF StartBroker, lists, progress, history, outside, BrokerStages
  <1>2. CASE CheckBroker
    <2>1. PICK w \in {"notify_publishers", "receive"} : Goto(Broker, w)
      BY <1>2 DEF CheckBroker
    <2> QED
      BY <1>0, <1>2, <2>1, BrokerMoves DEF CheckBroker, lists, progress, history, outside, BrokerStages
  <1>3. CASE BrokerReceive
    <2>1. PICK i, h : ReceiveEffect(i, h)
      BY <1>3, BrokerReceiveEffect
    <2>2. PICK m : m = queue[i]
      OBVIOUS
    <2>3. /\ queue' \in Seq(Message) /\ Len(queue') <= QueueLimit
          /\ SendEffect(m) \/ SubscribeEffect(m) \/ UnsubscribeEffect(m)
          /\ UNCHANGED <<stop, exists, second, step, count, sent, received, since, signals, kills>>
          /\ exists = "there" /\ pc[Broker] = "receive"
      BY <2>1, <2>2 DEF ReceiveEffect, Takes
    <2>4. CASE SendEffect(m)
      <3>1. /\ outgoing' \in Seq(Message) /\ publishers' \in Seq(Publishers)
            /\ subscriptions' = subscriptions
            /\ Goto(Broker, IF outgoing' = <<>> THEN "check" ELSE "forward")
        BY <2>4 DEF SendEffect, Fans
      <3>2. PICK w \in {"check", "forward"} : Goto(Broker, w) /\ (w = "forward" <=> outgoing' # <<>>)
        BY <3>1
      <3> QED
        BY <1>0, <2>3, <3>1, <3>2, BrokerMoves DEF BrokerStages
    <2>5. CASE SubscribeEffect(m) \/ UnsubscribeEffect(m)
      <3>1. /\ outgoing' = <<>> /\ publishers' \in Seq(Publishers)
            /\ subscriptions' \in Seq(Subscription)
            /\ Goto(Broker, "check")
        BY <1>0, <2>5 DEF SubscribeEffect, UnsubscribeEffect
      <3> QED
        BY <1>0, <1>e, <2>3, <3>1, BrokerMoves DEF BrokerStages
    <2> QED
      BY <2>3, <2>4, <2>5
  <1>4. CASE BrokerReceiveFails
    BY <1>0, <1>4, BrokerMoves
       DEF BrokerReceiveFails, lists, progress, history, outside, BrokerStages, QueueGone
  <1>5. CASE Forward
    <2>1. outgoing # <<>> /\ Head(outgoing) \in Message /\ Tail(outgoing) \in Seq(Message)
      BY <1>0, <1>5, HeadTailProperties DEF Forward
    <2>2. /\ queue' \in Seq(Message) /\ Len(queue') <= QueueLimit /\ exists = "there"
      BY <1>5, <2>1, PutEffect DEF Forward, Appends
    <2>3. PICK w \in {"check", "forward"} : Goto(Broker, w) /\ (w = "forward" <=> outgoing' # <<>>)
      BY <1>5 DEF Forward
    <2> QED
      BY <1>0, <1>5, <2>1, <2>2, <2>3, BrokerMoves
         DEF Forward, lists, progress, history, outside, BrokerStages
  <1>6. CASE ForwardFails
    <2>1. PICK w \in {"notify_publishers", "check"} : Goto(Broker, w)
      BY <1>6 DEF ForwardFails, AfterInterruptedSend
    <2> QED
      BY <1>0, <1>e, <1>6, <2>1, BrokerMoves
         DEF ForwardFails, lists, progress, history, outside, BrokerStages
  <1>7. CASE NotifyPublishers
    <2> DEFINE f(p) == IF p = Broker THEN "notify_subscribers"
                       ELSE IF Contains(publishers, p) /\ Running(p) THEN "killed" ELSE pc[p]
    <2>1. pc' = [p \in Procs |-> f(p)] /\ pc[Broker] = "notify_publishers"
      BY <1>7 DEF NotifyPublishers
    <2>2. pc'[Broker] = "notify_subscribers"
      BY <2>1, Different
    <2>3. \A s \in Subscribers : pc'[s] = pc[s]
      <3> TAKE s \in Subscribers
      <3>1. s \in Procs /\ s # Broker /\ ~Contains(publishers, s)
        BY <1>0, Different, ElementOfSeq DEF Contains
      <3> QED
        BY <2>1, <3>1
    <2>4. \A p \in Publishers : pc'[p] = pc[p] \/ (pc'[p] = "killed" /\ pc[p] \notin {"start", "exited", "killed"})
      BY <2>1, Different DEF Running, Ended
    <2>5. UNCHANGED <<call, stop, exists, queue, lists, outgoing, second, progress, sent,
                      history, outside>>
      BY <1>7 DEF NotifyPublishers
    <2>6. pc' \in [Procs -> AllStages] /\ \A p \in Publishers : pc'[p] \in PublisherStages
      <3>1. \A p \in Procs : f(p) \in AllStages
        BY <1>0 DEF AllStages, BrokerStages, PublisherStages, Ended
      <3>2. \A p \in Publishers : pc'[p] \in PublisherStages
        BY <2>4 DEF TypeInv, PcTyped, PublisherStages, Ended
      <3> QED
        BY <2>1, <3>1, <3>2
    <2>7. PcTyped'
      BY <2>2, <2>3, <2>6 DEF TypeInv, PcTyped, AllStages, BrokerStages
    <2>8. ControlTyped'
      BY <2>1, <2>2, <2>5 DEF TypeInv, ControlTyped, outside
    <2>9. StepInv'
      BY <2>3, <2>5 DEF TypeInv, StepInv, progress
    <2>10. DataTyped'
      BY <2>1, <2>2, <2>4, <2>5 DEF TypeInv, DataTyped, lists, history
    <2>11. StartInv'
      BY <2>1, <2>2, <2>3, <2>4, <2>5 DEF StartInv
    <2> QED
      BY <2>7, <2>8, <2>9, <2>10, <2>11 DEF TypeInv
  <1>8. CASE NotifySubscribers
    <2>1. /\ pc' = [pc EXCEPT ![Broker] = "drain"] /\ pc[Broker] = "notify_subscribers"
          /\ UNCHANGED <<exists, queue, lists, outgoing, second, progress, sent, history, outside>>
      BY <1>8 DEF NotifySubscribers
    <2>2. PICK some : Signalled(some)
      BY <1>8, Zenon DEF NotifySubscribers
    <2>3. call' \in [Procs -> CallStates] /\ stop' \in [Procs \ Publishers -> BOOLEAN]
      BY <2>2 DEF TypeInv, ControlTyped, Signalled, CallStates
    <2>4. /\ pc'[Broker] = "drain" /\ pc' \in [Procs -> AllStages]
          /\ \A s \in Subscribers : pc'[s] = pc[s]
          /\ \A p \in Publishers : pc'[p] = pc[p]
      BY <1>0, <2>1, Different DEF AllStages, BrokerStages
    <2>5. PcTyped'
      BY <2>4 DEF TypeInv, PcTyped, AllStages, BrokerStages
    <2>6. ControlTyped'
      BY <2>1, <2>3, <2>4 DEF TypeInv, ControlTyped, outside, CallStates
    <2>7. StepInv'
      BY <2>1, <2>4 DEF TypeInv, StepInv, progress
    <2>8. DataTyped'
      BY <2>1, <2>4 DEF TypeInv, DataTyped, lists, history
    <2>9. StartInv'
      BY <2>1, <2>4 DEF StartInv
    <2> QED
      BY <2>5, <2>6, <2>7, <2>8, <2>9 DEF TypeInv
  <1>9. CASE Drain
    <2>1. CASE queue # <<>> /\ queue' = Tail(queue) /\ UNCHANGED <<pc, call>>
      <3>1. queue' \in Seq(Message) /\ Len(queue') = Len(queue) - 1 /\ Len(queue) \in Nat
        BY <1>0, <2>1, HeadTailProperties
      <3>2. Len(queue') <= QueueLimit
        BY <1>0, <3>1
      <3>3. exists = "there" /\ pc[Broker] = "drain"
        BY <1>0, <1>9, <2>1 DEF Drain
      <3>4. UNCHANGED <<pc, call, stop, exists, lists, outgoing, second, progress, sent, history, outside>>
        BY <1>9, <2>1 DEF Drain
      <3>5. PcTyped' /\ ControlTyped' /\ StepInv'
        BY <3>4 DEF TypeInv, PcTyped, ControlTyped, StepInv, progress, outside
      <3>6. DataTyped'
        BY <3>1, <3>2, <3>4 DEF TypeInv, DataTyped, lists, history
      <3>7. StartInv'
        BY <3>3, <3>4 DEF StartInv
      <3> QED
        BY <3>5, <3>6, <3>7 DEF TypeInv
    <2>2. CASE queue = <<>> /\ Goto(Broker, IF QueueGone THEN "remove" ELSE "stat") /\ UNCHANGED queue
      <3>1. PICK w \in {"remove", "stat"} : Goto(Broker, w)
        BY <2>2
      <3> QED
        BY <1>0, <1>9, <2>2, <3>1, BrokerMoves
           DEF Drain, lists, progress, history, outside, BrokerStages
    <2> QED
      BY <1>9, <2>1, <2>2 DEF Drain
  <1>10. CASE DrainAgain
    <2>1. second' = second + 1 /\ pc[Broker] = "stat"
      BY <1>10 DEF DrainAgain
    <2>2. second' \in 0 .. ShutdownTimeout
      BY <1>0, <2>1
    <2>3. PICK w \in {"remove", "drain"} : Goto(Broker, w) /\ (w = "drain" => second' # ShutdownTimeout)
      BY <1>10 DEF DrainAgain
    <2>4. w \notin {"remove", "exited"} => second' < ShutdownTimeout
      BY <1>0, <2>2, <2>3
    <2> QED
      BY <1>0, <1>10, <2>1, <2>2, <2>3, <2>4, BrokerMoves
         DEF DrainAgain, lists, progress, history, outside, BrokerStages
  <1>11. CASE RemoveQueue
    BY <1>0, <1>e, <1>11, BrokerMoves
       DEF RemoveQueue, AfterRemoval, lists, progress, history, outside, BrokerStages
  <1> QED
    BY <1>1, <1>2, <1>3, <1>4, <1>5, <1>6, <1>7, <1>8, <1>9, <1>10, <1>11 DEF BrokerStep

\* What a subscriber's steps do to the queue: a command is appended, or its oldest message
\* is taken.
CommandTo(s, command) == ToBroker(command, s, TopicsOf[s][step[s] + 1], 0)

LEMMA CommandIsMessage ==
    ASSUME NEW s \in Subscribers, NEW n \in Nat, n + 1 <= Len(TopicsOf[s]),
           NEW command \in {"subscribe", "unsubscribe"}
    PROVE  /\ TopicsOf[s][n + 1] \in Topics
           /\ ToBroker(command, s, TopicsOf[s][n + 1], 0) \in Message
  <1>1. TopicsOf[s] \in Seq(Topics)
    BY ProcessesAssumption
  <1>2. n + 1 \in 1 .. Len(TopicsOf[s])
    BY <1>1
  <1>3. TopicsOf[s][n + 1] \in Topics
    BY <1>1, <1>2, ElementOfSeq
  <1>4. 0 \in 0 .. MaxPublications
    BY BoundsAssumption
  <1> QED
    BY <1>3, <1>4 DEF ToBroker, Message, Clients

LEMMA SubscribeAppends ==
    ASSUME TypeInv, NEW s \in Subscribers, Subscribe(s)
    PROVE  /\ step[s] \in Nat /\ step[s] + 1 <= Len(TopicsOf[s]) /\ step[s] = count[s]
           /\ TopicsOf[s][step[s] + 1] \in Topics /\ CommandTo(s, "subscribe") \in Message
           /\ Appends(CommandTo(s, "subscribe"))
  <1>1. /\ step[s] \in Nat /\ count[s] \in Nat /\ step[s] = count[s]
        /\ count[s] < Len(TopicsOf[s]) /\ Len(TopicsOf[s]) \in Nat
    BY ProcessesAssumption DEF TypeInv, StepInv, Subscribe
  <1>2. step[s] + 1 <= Len(TopicsOf[s])
    BY <1>1
  <1>3. TopicsOf[s][step[s] + 1] \in Topics /\ CommandTo(s, "subscribe") \in Message
    BY <1>1, <1>2, CommandIsMessage DEF CommandTo
  <1>4. Appends(CommandTo(s, "subscribe"))
    BY <1>3, PutEffect DEF Subscribe, CommandTo
  <1> QED
    BY <1>1, <1>2, <1>3, <1>4

LEMMA UnsubscribeAppends ==
    ASSUME TypeInv, NEW s \in Subscribers, Unsubscribe(s)
    PROVE  /\ step[s] \in Nat /\ step[s] < count[s]
           /\ TopicsOf[s][step[s] + 1] \in Topics /\ CommandTo(s, "unsubscribe") \in Message
           /\ Appends(CommandTo(s, "unsubscribe"))
  <1>1. /\ step[s] \in Nat /\ count[s] \in Nat /\ step[s] < count[s]
        /\ count[s] <= Len(TopicsOf[s]) /\ Len(TopicsOf[s]) \in Nat
    BY ProcessesAssumption DEF TypeInv, StepInv, Unsubscribe
  <1>2. step[s] + 1 <= Len(TopicsOf[s])
    BY <1>1
  <1>3. TopicsOf[s][step[s] + 1] \in Topics /\ CommandTo(s, "unsubscribe") \in Message
    BY <1>1, <1>2, CommandIsMessage DEF CommandTo
  <1>4. Appends(CommandTo(s, "unsubscribe"))
    BY <1>3, PutEffect DEF Unsubscribe, CommandTo
  <1> QED
    BY <1>1, <1>3, <1>4

\* s prints the i-th message, which is the oldest for it.
Prints(s, i, h) ==
    /\ exists = "there" /\ Takes(s, i, h)
    /\ queue[i].command = "send" /\ queue[i].from \in Publishers
    /\ 1 <= queue[i].number /\ queue[i].number <= sent[queue[i].from]
    /\ received' = [received EXCEPT ![s] = Append(@, <<queue[i].from, queue[i].number>>)]

LEMMA SubscriberReceiveEffect ==
    ASSUME TypeInv, ContentInv, NEW s \in Subscribers, SubscriberReceive(s)
    PROVE  \E i, h : Prints(s, i, h)
  <1>1. PICK i \in DOMAIN queue :
           /\ Take(s, i)
           /\ received' = [received EXCEPT ![s] = Append(@, <<queue[i].from, queue[i].number>>)]
    BY DEF SubscriberReceive
  <1>2. PICK h : i \in 1 .. Len(queue) /\ exists = "there" /\ Takes(s, i, h)
    BY <1>1, TakeEffect
  <1>3. queue[i].to = s /\ Proper(queue[i])
    BY <1>2 DEF Takes, ContentInv
  <1>4. /\ queue[i].command = "send" /\ queue[i].from \in Publishers
        /\ 1 <= queue[i].number /\ queue[i].number <= sent[queue[i].from]
    BY <1>3, Different DEF Proper, ProperFor
  <1> QED
    BY <1>1, <1>2, <1>4 DEF Prints

LEMMA SubscriberStepTyped ==
    ASSUME TypeInv, StartInv, ContentInv, NEW s \in Subscribers,
           StartSubscriber(s) \/ SubscriberStep(s)
    PROVE  TypeInv' /\ StartInv'
  <1>0. /\ pc[s] \in SubscriberStages
        /\ exists \in {"none", "there", "removed"}
        /\ queue \in Seq(Message) /\ Len(queue) <= QueueLimit
        /\ received \in [Subscribers -> Seq(Publishers \X (1 .. MaxPublications))]
        /\ since \in [Subscribers -> [Publishers -> -1 .. MaxPublications]]
        /\ sent \in [Publishers -> 0 .. MaxPublications]
        /\ step \in [Subscribers -> Nat] /\ count \in [Subscribers -> Nat]
        /\ step[s] \in Nat /\ count[s] \in Nat /\ Len(TopicsOf[s]) \in Nat \ {0}
        /\ count[s] <= Len(TopicsOf[s]) /\ step[s] <= Len(TopicsOf[s])
        /\ pc[s] = "start" => step[s] = 0 /\ count[s] = 0
        /\ pc[s] = "subscribe" => step[s] = count[s] /\ count[s] < Len(TopicsOf[s])
        /\ pc[s] = "unsubscribe" => step[s] < count[s]
        /\ pc[s] \notin {"start", "exited", "killed"} => exists # "none"
        /\ exists = "removed" => queue = <<>>
        /\ kills \in Nat /\ MaxPublications \in Nat
    BY ProcessesAssumption, BoundsAssumption, EmptySeq
       DEF TypeInv, PcTyped, ControlTyped, StepInv, DataTyped, StartInv
  <1>q. s \in Procs
    BY Different
  <1>m. ASSUME NEW w \in SubscriberStages \ {"start"}, Goto(s, w),
               UNCHANGED <<stop, exists, queue, lists, outgoing, second, count, sent, history, outside>>,
               step' = step \/ \E n \in Nat : n <= Len(TopicsOf[s]) /\ step' = [step EXCEPT ![s] = n],
               w = "subscribe" => step'[s] = count[s] /\ count[s] < Len(TopicsOf[s]),
               w = "unsubscribe" => step'[s] < count[s],
               exists = "none" => w \in Ended
        PROVE  TypeInv' /\ StartInv'
    <2>1. /\ step' \in [Subscribers -> Nat] /\ step'[s] <= Len(TopicsOf[s])
          /\ \A z \in Subscribers : z # s => step'[z] = step[z]
      BY <1>0, <1>m
    <2> QED
      BY <1>0, <1>m, <2>1, SubscriberMoves DEF lists, history, outside
  <1>1. CASE StartSubscriber(s)
    <2>1. PICK w \in {"subscribe", "exited"} : Goto(s, w) /\ (w = "subscribe" => exists = "there")
      BY <1>1 DEF StartSubscriber
    <2>2. pc[s] = "start" /\ step[s] = 0 /\ count[s] = 0 /\ step' = step
      BY <1>0, <1>1 DEF StartSubscriber, progress
    <2>3. UNCHANGED <<stop, exists, queue, lists, outgoing, second, count, sent, history, outside>>
      BY <1>1 DEF StartSubscriber, progress
    <2> QED
      BY <1>0, <1>m, <2>1, <2>2, <2>3 DEF SubscriberStages, Ended
  <1>u. ASSUME StartUnsubscribing(s),
               UNCHANGED <<stop, exists, queue, lists, outgoing, second, count, sent, history, outside>>,
               exists # "none"
        PROVE  TypeInv' /\ StartInv'
    <2>1. PICK w \in {"exited", "unsubscribe"} : Goto(s, w) /\ (w = "unsubscribe" => count[s] # 0)
      BY <1>u DEF StartUnsubscribing
    <2>2. step' = [step EXCEPT ![s] = 0] /\ step'[s] = 0
      BY <1>0, <1>u DEF StartUnsubscribing
    <2>3. 0 \in Nat /\ 0 <= Len(TopicsOf[s]) /\ (count[s] # 0 => step'[s] < count[s])
      BY <1>0, <2>2
    <2> QED
      BY <1>u, <1>m, <2>1, <2>2, <2>3 DEF SubscriberStages, Ended
  <1>2. CASE Subscribe(s)
    <2>1. /\ step[s] + 1 <= Len(TopicsOf[s]) /\ step[s] = count[s]
          /\ queue' \in Seq(Message) /\ Len(queue') <= QueueLimit /\ exists = "there"
      BY <1>2, SubscribeAppends DEF Appends
    <2>2. /\ step' = [step EXCEPT ![s] = @ + 1] /\ count' = [count EXCEPT ![s] = @ + 1]
          /\ UNCHANGED <<stop, exists, lists, outgoing, second, sent, received, outside>>
          /\ Goto(s, IF step'[s] = Len(TopicsOf[s]) THEN "check" ELSE "subscribe")
      BY <1>2 DEF Subscribe
    <2>3. /\ step' \in [Subscribers -> Nat] /\ count' \in [Subscribers -> Nat]
          /\ step'[s] = step[s] + 1 /\ count'[s] = count[s] + 1
          /\ \A z \in Subscribers : z # s => step'[z] = step[z] /\ count'[z] = count[z]
      BY <1>0, <2>2
    <2>4. since' \in [Subscribers -> [Publishers -> -1 .. MaxPublications]]
      <3>1. since' = [since EXCEPT ![s] = [p \in Publishers |->
                        IF TopicOf[p] = TopicsOf[s][step[s] + 1] /\ @[p] = Never THEN sent[p] ELSE @[p]]]
        BY <1>2 DEF Subscribe
      <3>2. PICK g : g = [p \in Publishers |->
                        IF TopicOf[p] = TopicsOf[s][step[s] + 1] /\ since[s][p] = Never
                        THEN sent[p] ELSE since[s][p]]
        OBVIOUS
      <3>3. g \in [Publishers -> -1 .. MaxPublications]
        BY <1>0, <3>2
      <3>4. since' = [since EXCEPT ![s] = g]
        BY <3>1, <3>2
      <3> QED
        BY <1>0, <3>3, <3>4
    <2>5. PICK w \in {"check", "subscribe"} :
             Goto(s, w) /\ (w = "subscribe" => step'[s] # Len(TopicsOf[s]))
      BY <2>2
    <2>6. count'[s] <= Len(TopicsOf[s]) /\ step'[s] = count'[s] /\ step'[s] <= Len(TopicsOf[s])
          /\ (w = "subscribe" => count'[s] < Len(TopicsOf[s]))
      BY <1>0, <2>1, <2>3, <2>5
    <2> QED
      BY <1>0, <2>1, <2>2, <2>3, <2>4, <2>5, <2>6, SubscriberMoves
         DEF lists, outside, SubscriberStages
  <1>3. CASE SubscribeFails(s)
    BY <1>0, <1>3, <1>u DEF SubscribeFails
  <1>4. CASE CheckSubscriber(s)
    <2>1. CASE StartUnsubscribing(s)
      BY <1>0, <1>4, <1>u, <2>1 DEF CheckSubscriber
    <2>2. CASE Goto(s, "receive") /\ UNCHANGED step
      BY <1>0, <1>4, <1>m, <2>2 DEF CheckSubscriber, SubscriberStages
    <2> QED
      BY <1>4, <2>1, <2>2 DEF CheckSubscriber
  <1>5. CASE SubscriberReceive(s)
    <2>1. PICK i, h : Prints(s, i, h)
      BY <1>5, SubscriberReceiveEffect
    <2>2. PICK m \in Message : m = queue[i]
      BY <1>0, <2>1, ElementOfSeq DEF Prints, Takes
    <2>3. PICK e : e = <<m.from, m.number>>
      OBVIOUS
    <2>4. e \in Publishers \X (1 .. MaxPublications)
      <3>1. m.number \in 0 .. MaxPublications /\ m.from \in Publishers /\ 1 <= m.number
        BY <2>1, <2>2 DEF Prints, Message
      <3> QED
        BY <1>0, <2>3, <3>1
    <2>5. received' = [received EXCEPT ![s] = Append(@, e)]
      BY <2>1, <2>2, <2>3 DEF Prints
    <2>6. received' \in [Subscribers -> Seq(Publishers \X (1 .. MaxPublications))]
      <3>1. Append(received[s], e) \in Seq(Publishers \X (1 .. MaxPublications))
        BY <1>0, <2>4
      <3> QED
        BY <1>0, <2>5, <3>1
    <2>7. queue' \in Seq(Message) /\ Len(queue') <= QueueLimit /\ exists = "there"
      BY <2>1 DEF Prints, Takes
    <2> QED
      BY <1>0, <1>5, <2>6, <2>7, SubscriberMoves
         DEF SubscriberReceive, lists, outside, progress, SubscriberStages
  <1>6. CASE SubscriberReceiveFails(s)
    <2>1. CASE StartUnsubscribing(s)
      BY <1>0, <1>6, <1>u, <2>1 DEF SubscriberReceiveFails
    <2>2. CASE Goto(s, "exited") /\ UNCHANGED step
      BY <1>0, <1>6, <1>m, <2>2 DEF SubscriberReceiveFails, SubscriberStages, Ended
    <2> QED
      BY <1>6, <2>1, <2>2 DEF SubscriberReceiveFails
  <1>7. ASSUME NextTopic(s), pc[s] = "unsubscribe"
        PROVE  /\ \E w \in {"exited", "unsubscribe"} :
                     Goto(s, w) /\ (w = "unsubscribe" => step[s] + 1 < count[s])
               /\ step' = [step EXCEPT ![s] = step[s] + 1] /\ step'[s] = step[s] + 1
               /\ step[s] + 1 \in Nat /\ step[s] + 1 <= Len(TopicsOf[s])
    <2>1. step' = [step EXCEPT ![s] = step[s] + 1] /\ step'[s] = step[s] + 1
      BY <1>0, <1>7 DEF NextTopic
    <2>2. Goto(s, IF step[s] + 1 = count[s] THEN "exited" ELSE "unsubscribe")
      BY <1>7, <2>1 DEF NextTopic
    <2>3. step[s] + 1 \in Nat /\ step[s] + 1 <= Len(TopicsOf[s])
          /\ (step[s] + 1 # count[s] => step[s] + 1 < count[s])
      BY <1>0, <1>7
    <2> QED
      BY <2>1, <2>2, <2>3
  <1>8. CASE Unsubscribe(s)
    <2>1. queue' \in Seq(Message) /\ Len(queue') <= QueueLimit /\ exists = "there"
      BY <1>8, UnsubscribeAppends DEF Appends
    <2>2. /\ NextTopic(s) /\ pc[s] = "unsubscribe"
          /\ UNCHANGED <<stop, exists, lists, outgoing, second, count, sent, history, outside>>
      BY <1>8 DEF Unsubscribe
    <2>3. PICK w \in {"exited", "unsubscribe"} :
             Goto(s, w) /\ (w = "unsubscribe" => step[s] + 1 < count[s])
      BY <1>7, <2>2
    <2>4. /\ step' = [step EXCEPT ![s] = step[s] + 1] /\ step'[s] = step[s] + 1
          /\ step[s] + 1 \in Nat /\ step[s] + 1 <= Len(TopicsOf[s])
      BY <1>7, <2>2
    <2>5. step' \in [Subscribers -> Nat] /\ \A z \in Subscribers : z # s => step'[z] = step[z]
      BY <1>0, <2>4
    <2> QED
      BY <1>0, <2>1, <2>2, <2>3, <2>4, <2>5, SubscriberMoves
         DEF lists, outside, history, SubscriberStages, Ended
  <1>9. CASE UnsubscribeFails(s)
    <2>1. CASE NextTopic(s)
      <3>1. pc[s] = "unsubscribe"
        BY <1>9 DEF UnsubscribeFails
      <3>2. UNCHANGED <<stop, exists, queue, lists, outgoing, second, count, sent, history, outside>>
        BY <1>9 DEF UnsubscribeFails
      <3>3. PICK w \in {"exited", "unsubscribe"} :
               Goto(s, w) /\ (w = "unsubscribe" => step[s] + 1 < count[s])
        BY <1>7, <2>1, <3>1
      <3>4. /\ step' = [step EXCEPT ![s] = step[s] + 1] /\ step'[s] = step[s] + 1
            /\ step[s] + 1 \in Nat /\ step[s] + 1 <= Len(TopicsOf[s])
        BY <1>7, <2>1, <3>1
      <3> QED
        BY <1>0, <1>m, <3>1, <3>2, <3>3, <3>4 DEF SubscriberStages, Ended
    <2>2. CASE Goto(s, "exited") /\ UNCHANGED step
      BY <1>0, <1>9, <1>m, <2>2 DEF UnsubscribeFails, SubscriberStages, Ended
    <2> QED
      BY <1>9, <2>1, <2>2 DEF UnsubscribeFails
  <1> QED
    BY <1>1, <1>2, <1>3, <1>4, <1>5, <1>6, <1>8, <1>9 DEF SubscriberStep

\* A publisher appends its next publication.
Publication(p) == ToBroker("send", p, TopicOf[p], sent[p] + 1)

Sends(p) ==
    /\ Appends(Publication(p))
    /\ sent' = [sent EXCEPT ![p] = @ + 1] /\ sent[p] + 1 <= MaxPublications
    /\ Goto(p, "poll")

LEMMA SendEffects ==
    ASSUME TypeInv, NEW p \in Publishers, Send(p)
    PROVE  /\ pc[p] = "send"
           /\ Sends(p) \/ (QueueGone /\ Goto(p, "exited") /\ UNCHANGED <<queue, sent>>)
  <1>1. /\ sent \in [Publishers -> 0 .. MaxPublications] /\ MaxPublications \in Nat
        /\ pc[p] = "send" /\ sent[p] < MaxPublications
    BY BoundsAssumption DEF TypeInv, DataTyped, Send
  <1>2. sent[p] + 1 \in 0 .. MaxPublications /\ sent[p] + 1 <= MaxPublications
    BY <1>1
  <1>3. Publication(p) \in Message
    BY <1>2, Different DEF Publication, ToBroker, Message
  <1>4. ASSUME Put(p, Publication(p)) PROVE Appends(Publication(p))
    BY <1>3, <1>4, PutEffect
  <1> QED
    BY <1>1, <1>2, <1>4 DEF Send, Sends, Publication

LEMMA PublisherStepTyped ==
    ASSUME TypeInv, StartInv, NEW p \in Publishers,
           StartPublisher(p) \/ ReadInput(p) \/ NoticeRemoval(p) \/ Send(p)
    PROVE  TypeInv' /\ StartInv'
  <1>0. /\ pc[p] \in PublisherStages /\ exists \in {"none", "there", "removed"}
        /\ queue \in Seq(Message) /\ Len(queue) <= QueueLimit
        /\ sent \in [Publishers -> 0 .. MaxPublications]
        /\ pc[p] = "send" => sent[p] < MaxPublications
        /\ kills \in Nat /\ MaxPublications \in Nat
        /\ pc[p] \notin {"start", "exited", "killed"} => exists # "none"
    BY BoundsAssumption DEF TypeInv, PcTyped, ControlTyped, DataTyped, StartInv
  <1>q. p \in Procs
    BY Different
  <1>m. ASSUME NEW w \in PublisherStages, Goto(p, w),
               UNCHANGED <<stop, exists, queue, lists, outgoing, second, progress, sent, history,
                           outside>>,
               w = "send" => sent[p] < MaxPublications,
               exists = "none" => w \in Ended
        PROVE  TypeInv' /\ StartInv'
    BY <1>0, <1>m, PublisherMoves DEF lists, history, outside, progress
  <1>1. CASE StartPublisher(p)
    <2>1. PICK w \in {"poll", "exited"} : Goto(p, w) /\ (w = "poll" => exists = "there")
      BY <1>1 DEF StartPublisher
    <2> QED
      BY <1>1, <1>m, <2>1 DEF StartPublisher, PublisherStages, Ended
  <1>2. CASE ReadInput(p)
    <2>1. PICK w \in {"send", "exited"} : Goto(p, w) /\ (w = "send" => sent[p] < MaxPublications)
      BY <1>2 DEF ReadInput
    <2> QED
      BY <1>2, <1>m, <2>1 DEF ReadInput, PublisherStages, Ended
  <1>3. CASE NoticeRemoval(p)
    BY <1>3, <1>m DEF NoticeRemoval, PublisherStages, Ended
  <1>4. CASE Send(p)
    <2>0. UNCHANGED <<stop, exists, lists, outgoing, second, progress, history, outside>>
      BY <1>4 DEF Send
    <2>1. CASE Sends(p)
      <3>1. /\ queue' \in Seq(Message) /\ Len(queue') <= QueueLimit /\ exists = "there"
            /\ sent' = [sent EXCEPT ![p] = sent[p] + 1] /\ sent[p] + 1 <= MaxPublications
            /\ Goto(p, "poll")
        BY <1>0, <2>1 DEF Sends, Appends
      <3>2. sent' \in [Publishers -> 0 .. MaxPublications]
        BY <1>0, <3>1
      <3>3. \A x \in Publishers : x # p => sent'[x] = sent[x]
        BY <1>0, <3>1
      <3> QED
        BY <1>0, <2>0, <3>1, <3>2, <3>3, PublisherMoves
           DEF lists, history, outside, progress, PublisherStages
    <2>2. CASE QueueGone /\ Goto(p, "exited") /\ UNCHANGED <<queue, sent>>
      BY <1>m, <2>0, <2>2 DEF PublisherStages, Ended
    <2> QED
      BY <1>4, <2>1, <2>2, SendEffects
  <1> QED
    BY <1>1, <1>2, <1>3, <1>4

LEMMA OutsideTyped ==
    ASSUME TypeInv, StartInv,
           \/ \E p \in Procs : Sleep(p) \/ Interrupt(p) \/ Kill(p)
           \/ RemovedByOther \/ UNCHANGED vars
    PROVE  TypeInv' /\ StartInv'
  <1>1. ASSUME NEW p \in Procs, Sleep(p) PROVE TypeInv' /\ StartInv'
    <2>1. /\ call' = [call EXCEPT ![p] = "asleep"]
          /\ UNCHANGED <<pc, stop, exists, queue, lists, outgoing, second, progress, sent,
                         history, outside>>
      BY <1>1 DEF Sleep
    <2>2. ControlTyped'
      BY <2>1 DEF TypeInv, ControlTyped, outside
    <2>3. PcTyped' /\ StepInv' /\ DataTyped' /\ StartInv'
      BY <2>1 DEF TypeInv, PcTyped, StepInv, DataTyped, StartInv, lists, progress, history
    <2> QED
      BY <2>2, <2>3 DEF TypeInv
  <1>2. ASSUME NEW p \in Procs, Interrupt(p) PROVE TypeInv' /\ StartInv'
    <2>1. /\ p \in Procs \ Publishers /\ signals' = [signals EXCEPT ![p] = @ + 1]
          /\ Signalled({p})
          /\ UNCHANGED <<pc, exists, queue, lists, outgoing, second, progress, sent, history, kills>>
      BY <1>2 DEF Interrupt
    <2>2. call' \in [Procs -> CallStates] /\ stop' \in [Procs \ Publishers -> BOOLEAN]
      BY <2>1 DEF TypeInv, ControlTyped, Signalled, CallStates
    <2>3. signals' \in [Procs \ Publishers -> Nat]
      BY <2>1 DEF TypeInv, ControlTyped
    <2>4. ControlTyped'
      BY <2>1, <2>2, <2>3 DEF TypeInv, ControlTyped, CallStates
    <2>5. PcTyped' /\ StepInv' /\ DataTyped' /\ StartInv'
      BY <2>1 DEF TypeInv, PcTyped, StepInv, DataTyped, StartInv, lists, progress, history
    <2> QED
      BY <2>4, <2>5 DEF TypeInv
  <1>3. ASSUME NEW p \in Procs, Kill(p) PROVE TypeInv' /\ StartInv'
    <2>1. /\ p \in Clients /\ Running(p) /\ kills' = kills + 1 /\ Goto(p, "killed")
          /\ UNCHANGED <<stop, exists, queue, lists, outgoing, second, progress, sent, history,
                         signals>>
      BY <1>3 DEF Kill
    <2>2. kills' \in Nat /\ queue' \in Seq(Message) /\ Len(queue') <= QueueLimit
      BY <2>1 DEF TypeInv, ControlTyped, DataTyped
    <2>3. CASE p \in Publishers
      <3>1. sent' \in [Publishers -> 0 .. MaxPublications] /\ sent' = sent
        BY <2>1 DEF TypeInv, DataTyped
      <3> QED
        BY <2>1, <2>2, <2>3, <3>1, PublisherMoves
           DEF lists, history, progress, PublisherStages, Ended
    <2>4. CASE p \in Subscribers
      <3>1. /\ received' \in [Subscribers -> Seq(Publishers \X (1 .. MaxPublications))]
            /\ since' \in [Subscribers -> [Publishers -> -1 .. MaxPublications]]
            /\ step' \in [Subscribers -> Nat] /\ count' \in [Subscribers -> Nat]
            /\ step' = step /\ count' = count
            /\ count'[p] <= Len(TopicsOf[p]) /\ step'[p] <= Len(TopicsOf[p])
        BY <2>1, <2>4 DEF TypeInv, DataTyped, StepInv, history, progress
      <3> QED
        BY <2>1, <2>2, <2>4, <3>1, SubscriberMoves
           DEF lists, SubscriberStages, Ended
    <2> QED
      BY <2>1, <2>3, <2>4 DEF Clients
  <1>4. CASE RemovedByOther
    <2>1. /\ exists = "there" /\ exists' = "removed" /\ queue' = <<>>
          /\ UNCHANGED <<pc, call, stop, lists, outgoing, second, progress, sent, history, outside>>
      BY <1>4 DEF RemovedByOther
    <2>2. <<>> \in Seq(Message) /\ Len(<<>>) = 0 /\ 0 <= QueueLimit
      BY BoundsAssumption
    <2>3. DataTyped'
      BY <2>1, <2>2 DEF TypeInv, DataTyped, lists, history
    <2>4. PcTyped' /\ ControlTyped' /\ StepInv' /\ StartInv'
      BY <2>1 DEF TypeInv, PcTyped, ControlTyped, StepInv, StartInv, progress, outside
    <2> QED
      BY <2>3, <2>4 DEF TypeInv
  <1>5. CASE UNCHANGED vars
    BY <1>5 DEF vars, lists, progress, history, outside, TypeInv, PcTyped, ControlTyped, StepInv,
                DataTyped, StartInv
  <1> QED
    BY <1>1, <1>2, <1>3, <1>4, <1>5

LEMMA TypeStep ==
    ASSUME TypeInv, StartInv, ContentInv, UniqueInv, [Next]_vars
    PROVE  TypeInv' /\ StartInv'
  <1>1. ASSUME NEW s \in Subscribers, StartSubscriber(s) \/ SubscriberStep(s)
        PROVE  TypeInv' /\ StartInv'
    BY <1>1, SubscriberStepTyped
  <1>2. ASSUME NEW p \in Publishers,
               StartPublisher(p) \/ ReadInput(p) \/ NoticeRemoval(p) \/ Send(p)
        PROVE  TypeInv' /\ StartInv'
    BY <1>2, PublisherStepTyped
  <1>3. CASE BrokerStep
    BY <1>3, BrokerStepTyped
  <1>4. CASE \/ \E p \in Procs : Sleep(p) \/ Interrupt(p) \/ Kill(p)
             \/ RemovedByOther \/ UNCHANGED vars
    BY <1>4, OutsideTyped
  <1> QED
    BY <1>1, <1>2, <1>3, <1>4 DEF Next, AllGone

LEMMA TypeStart == Init => TypeInv /\ StartInv
  <1> SUFFICES ASSUME Init PROVE TypeInv /\ StartInv
    OBVIOUS
  <1>0. /\ QueueLimit \in Nat /\ ShutdownTimeout \in Nat \ {0} /\ MaxPublications \in Nat
        /\ \A s \in Subscribers : Len(TopicsOf[s]) \in Nat \ {0}
    BY BoundsAssumption, ProcessesAssumption, EmptySeq
  <1>1. PcTyped
    BY Different DEF Init, PcTyped, BrokerStages, SubscriberStages, PublisherStages
  <1>2. ControlTyped
    BY <1>0 DEF Init, ControlTyped
  <1>3. StepInv
    BY <1>0, Different DEF Init, StepInv
  <1>4. DataTyped
    <2>1. <<>> \in Seq(Message) /\ Len(<<>>) = 0 /\ <<>> \in Seq(Publishers)
          /\ <<>> \in Seq(Subscription) /\ <<>> \in Seq(Publishers \X (1 .. MaxPublications))
      OBVIOUS
    <2>2. -1 \in -1 .. MaxPublications /\ 0 \in 0 .. MaxPublications
      BY <1>0
    <2>3. /\ sent \in [Publishers -> 0 .. MaxPublications]
          /\ received \in [Subscribers -> Seq(Publishers \X (1 .. MaxPublications))]
          /\ since \in [Subscribers -> [Publishers -> -1 .. MaxPublications]]
      BY <2>1, <2>2 DEF Init, Never
    <2>4. /\ queue \in Seq(Message) /\ Len(queue) <= QueueLimit
          /\ outgoing \in Seq(Message) /\ (pc[Broker] = "forward" <=> outgoing # <<>>)
          /\ publishers \in Seq(Publishers) /\ subscriptions \in Seq(Subscription)
          /\ \A p \in Publishers : pc[p] # "send"
      BY <1>0, <2>1, Different DEF Init
    <2> QED
      BY <2>3, <2>4 DEF DataTyped
  <1>5. StartInv
    BY Different DEF Init, StartInv
  <1> QED
    BY <1>1, <1>2, <1>3, <1>4, <1>5 DEF TypeInv

-----------------------------------------------------------------------------
(* What a step does to the data: the queue, the lists, outgoing, and what  *)
(* is sent and received.                                                   *)

DataStill == UNCHANGED <<queue, publishers, subscriptions, outgoing, sent, received, since>>

Receives(i, h) == ReceiveEffect(i, h) /\ UNCHANGED <<sent, received, since>>

Forwards(h) ==
    /\ pc[Broker] = "forward" /\ 1 \in 1 .. Len(outgoing)
    /\ Appends(outgoing[1]) /\ pc'[Broker] \in Serving
    /\ outgoing' \in Seq(Message) /\ Without(outgoing, 1, h, outgoing')
    /\ UNCHANGED <<publishers, subscriptions, sent, received, since>>

GivesUp ==
    /\ outgoing' = <<>> /\ (pc'[Broker] \in Serving => exists = "removed")
    /\ UNCHANGED <<queue, publishers, subscriptions, sent, received, since>>

Loses(h) ==
    /\ queue' \in Seq(Message) /\ Kept(h, queue, queue')
    /\ exists' = "there" => pc[Broker] = "drain"
    /\ UNCHANGED <<publishers, subscriptions, outgoing, sent, received, since>>

Asks(s) ==
    /\ pc[s] = "subscribe" /\ pc'[s] \in {"subscribe", "check"} /\ count'[s] = count[s] + 1
    /\ Appends(CommandTo(s, "subscribe"))
    /\ CommandTo(s, "subscribe").topic = TopicsOf[s][step[s] + 1]
    /\ \A z \in Subscribers, p \in Publishers :
          since'[z][p] = IF z = s /\ TopicOf[p] = TopicsOf[s][step[s] + 1] /\ since[s][p] = Never
                         THEN sent[p] ELSE since[z][p]
    /\ UNCHANGED <<publishers, subscriptions, outgoing, sent, received>>

PrintsOnly(s, i, h) ==
    /\ pc[s] = "receive" /\ Prints(s, i, h)
    /\ UNCHANGED <<publishers, subscriptions, outgoing, sent, since>>

TakesOneBack(s) ==
    /\ pc[s] = "unsubscribe" /\ Appends(CommandTo(s, "unsubscribe"))
    /\ UNCHANGED <<publishers, subscriptions, outgoing, sent, received, since>>

SendsOnly(p) ==
    /\ Sends(p)
    /\ UNCHANGED <<publishers, subscriptions, outgoing, received, since>>

LEMMA ForwardsEffect ==
    ASSUME TypeInv, Forward
    PROVE  \E h : Forwards(h)
  <1>1. outgoing \in Seq(Message) /\ outgoing # <<>> /\ pc[Broker] = "forward"
    BY DEF TypeInv, DataTyped, Forward
  <1>2. 1 \in 1 .. Len(outgoing) /\ Head(outgoing) = outgoing[1] /\ outgoing[1] \in Message
    BY <1>1, EmptySeq, ElementOfSeq
  <1>3. Appends(outgoing[1])
    BY <1>2, PutEffect DEF Forward
  <1>4. outgoing' = Tail(outgoing)
    BY DEF Forward
  <1>5. PICK h : outgoing' \in Seq(Message) /\ Without(outgoing, 1, h, outgoing')
    BY <1>1, <1>4, TailKeeps
  <1>6. pc'[Broker] \in Serving
    BY Different DEF Forward, Goto, Serving, TypeInv, PcTyped
  <1>7. Forwards(h)
    BY <1>1, <1>2, <1>3, <1>5, <1>6 DEF Forwards, Forward, lists, history
  <1> QED
    BY <1>7

LEMMA NothingKept ==
    ASSUME queue' = <<>>
    PROVE  \E h : queue' \in Seq(Message) /\ Kept(h, queue, queue')
  <1>1. <<>> \in Seq(Message) /\ Len(<<>>) = 0
    OBVIOUS
  <1>2. PICK h : h = [j \in 1 .. 0 |-> j]
    OBVIOUS
  <1>3. h \in [1 .. 0 -> 1 .. Len(queue)]
    BY <1>2
  <1>4. Kept(h, queue, <<>>)
    BY <1>1, <1>3 DEF Kept
  <1> QED
    BY <1>1, <1>4

LEMMA DrainEffect ==
    ASSUME TypeInv, Drain
    PROVE  DataStill \/ \E h : Loses(h)
  <1>1. CASE queue # <<>> /\ queue' = Tail(queue)
    <2>1. PICK h : queue' \in Seq(Message) /\ Without(queue, 1, h, queue')
      BY <1>1, TailKeeps DEF TypeInv, DataTyped
    <2>2. Loses(h)
      BY <2>1 DEF Loses, Without, Drain, lists, history
    <2> QED
      BY <2>2
  <1>2. CASE UNCHANGED queue
    BY <1>2 DEF DataStill, Drain, lists, history
  <1> QED
    BY <1>1, <1>2 DEF Drain

LEMMA RemovalEffect ==
    ASSUME TypeInv, RemoveQueue \/ RemovedByOther
    PROVE  \E h : Loses(h)
  <1>1. /\ queue' = <<>> /\ exists' = "removed"
        /\ UNCHANGED <<publishers, subscriptions, outgoing, sent, received, since>>
    BY DEF RemoveQueue, AfterRemoval, RemovedByOther, lists, history
  <1>2. PICK h : queue' \in Seq(Message) /\ Kept(h, queue, queue')
    BY <1>1, NothingKept
  <1> QED
    BY <1>1, <1>2 DEF Loses

LEMMA AsksEffect ==
    ASSUME TypeInv, NEW s \in Subscribers, Subscribe(s)
    PROVE  Asks(s)
  <1>1. Appends(CommandTo(s, "subscribe"))
    BY SubscribeAppends
  <1>2. CommandTo(s, "subscribe").topic = TopicsOf[s][step[s] + 1]
    BY DEF CommandTo, ToBroker
  <1>3. pc[s] = "subscribe" /\ UNCHANGED <<publishers, subscriptions, outgoing, sent, received>>
    BY DEF Subscribe, lists
  <1>6. pc'[s] \in {"subscribe", "check"} /\ count'[s] = count[s] + 1
    BY Different DEF Subscribe, Goto, TypeInv, PcTyped, StepInv
  <1>4. /\ since' = [since EXCEPT ![s] = [p \in Publishers |->
                        IF TopicOf[p] = TopicsOf[s][step[s] + 1] /\ @[p] = Never THEN sent[p] ELSE @[p]]]
        /\ since \in [Subscribers -> [Publishers -> -1 .. MaxPublications]]
    BY DEF Subscribe, TypeInv, DataTyped
  <1>5. ASSUME NEW z \in Subscribers, NEW p \in Publishers
        PROVE  since'[z][p] = IF z = s /\ TopicOf[p] = TopicsOf[s][step[s] + 1] /\ since[s][p] = Never
                              THEN sent[p] ELSE since[z][p]
    BY <1>4
  <1> QED
    BY <1>1, <1>2, <1>3, <1>5, <1>6 DEF Asks

\* Every step of Next is one of these.
DataStep ==
    \/ DataStill
    \/ \E i, h : Receives(i, h)
    \/ \E h : Forwards(h)
    \/ GivesUp
    \/ \E h : Loses(h)
    \/ \E s \in Subscribers : Asks(s) \/ TakesOneBack(s) \/ \E i, h : PrintsOnly(s, i, h)
    \/ \E p \in Publishers : SendsOnly(p)

LEMMA EffectOfStep ==
    ASSUME TypeInv, StartInv, ContentInv, UniqueInv, [Next]_vars
    PROVE  DataStep
  <1>1. CASE BrokerReceive
    BY <1>1, BrokerReceiveEffect DEF DataStep, Receives, ReceiveEffect
  <1>2. CASE Forward
    BY <1>2, ForwardsEffect DEF DataStep
  <1>3. CASE ForwardFails
    <2>1. pc'[Broker] \in Serving => exists = "removed"
      BY <1>3, Different DEF ForwardFails, AfterInterruptedSend, QueueGone, Goto, Serving, TypeInv, PcTyped
    <2>2. GivesUp
      BY <1>3, <2>1 DEF GivesUp, ForwardFails, lists, history
    <2> QED
      BY <2>2 DEF DataStep
  <1>4. CASE Drain
    BY <1>4, DrainEffect DEF DataStep
  <1>5. CASE RemoveQueue \/ RemovedByOther
    BY <1>5, RemovalEffect DEF DataStep
  <1>6. CASE StartBroker \/ CheckBroker \/ BrokerReceiveFails \/ NotifyPublishers
             \/ NotifySubscribers \/ DrainAgain
    <2>1. DataStill
      BY <1>6 DEF DataStill, StartBroker, CheckBroker, BrokerReceiveFails, NotifyPublishers,
                  NotifySubscribers, DrainAgain, lists, history
    <2> QED
      BY <2>1 DEF DataStep
  <1>7. ASSUME NEW s \in Subscribers, StartSubscriber(s) \/ SubscriberStep(s)
        PROVE  DataStep
    <2>1. CASE Subscribe(s)
      BY <2>1, AsksEffect DEF DataStep
    <2>2. CASE SubscriberReceive(s)
      <3>1. PICK i, h : Prints(s, i, h)
        BY <2>2, SubscriberReceiveEffect
      <3>2. PrintsOnly(s, i, h)
        BY <2>2, <3>1 DEF PrintsOnly, SubscriberReceive, lists, progress
      <3> QED
        BY <3>2 DEF DataStep
    <2>3. CASE Unsubscribe(s)
      <3>1. TakesOneBack(s)
        BY <2>3, UnsubscribeAppends DEF TakesOneBack, Unsubscribe, lists, history
      <3> QED
        BY <3>1 DEF DataStep
    <2>4. CASE StartSubscriber(s) \/ SubscribeFails(s) \/ CheckSubscriber(s)
               \/ SubscriberReceiveFails(s) \/ UnsubscribeFails(s)
      <3>1. DataStill
        BY <2>4 DEF DataStill, StartSubscriber, SubscribeFails, CheckSubscriber,
                    SubscriberReceiveFails, UnsubscribeFails, lists, history
      <3> QED
        BY <3>1 DEF DataStep
    <2> QED
      BY <1>7, <2>1, <2>2, <2>3, <2>4 DEF SubscriberStep
  <1>8. ASSUME NEW p \in Publishers,
               StartPublisher(p) \/ ReadInput(p) \/ NoticeRemoval(p) \/ Send(p)
        PROVE  DataStep
    <2>1. CASE Send(p)
      <3>1. CASE Sends(p)
        <4>1. SendsOnly(p)
          BY <2>1, <3>1 DEF SendsOnly, Send, lists, history
        <4> QED
          BY <4>1 DEF DataStep
      <3>2. CASE UNCHANGED <<queue, sent>>
        BY <2>1, <3>2 DEF DataStep, DataStill, Send, lists, history
      <3> QED
        BY <2>1, <3>1, <3>2, SendEffects
    <2>2. CASE StartPublisher(p) \/ ReadInput(p) \/ NoticeRemoval(p)
      <3>1. DataStill
        BY <2>2 DEF DataStill, StartPublisher, ReadInput, NoticeRemoval, lists, history
      <3> QED
        BY <3>1 DEF DataStep
    <2> QED
      BY <1>8, <2>1, <2>2
  <1>9. ASSUME NEW p \in Procs, Sleep(p) \/ Interrupt(p) \/ Kill(p)
        PROVE  DataStep
    <2>1. DataStill
      BY <1>9 DEF DataStill, Sleep, Interrupt, Kill, lists, history
    <2> QED
      BY <2>1 DEF DataStep
  <1>10. CASE UNCHANGED vars
    BY <1>10 DEF DataStep, DataStill, vars, lists, history
  <1> QED
    BY <1>1, <1>2, <1>3, <1>4, <1>5, <1>6, <1>7, <1>8, <1>9, <1>10 DEF Next, BrokerStep, AllGone

-----------------------------------------------------------------------------
(* The invariants about the data.                                          *)

\* What is left of a queue fits everything else as the whole did.
LEMMA KeptFits ==
    ASSUME TypeInv, DataInv, NEW h, Kept(h, queue, queue')
    PROVE  /\ \A i \in 1 .. Len(queue') :
                 /\ Proper(queue'[i])
                 /\ queue'[i].to \in Subscribers =>
                       Known(queue'[i].from) /\ Asked(queue'[i].to, queue'[i].from, queue'[i].number)
           /\ QueueOrder'
           /\ \A k \in 1 .. Len(outgoing) : \A j \in 1 .. Len(queue') : Behind(outgoing[k], queue'[j])
           /\ \A s \in Subscribers : \A r \in 1 .. Len(received[s]) :
                 \A j \in 1 .. Len(queue') : Before(s, received[s][r], queue'[j])
           /\ \A s \in Subscribers, p \in Publishers :
                 Contains(subscriptions, [pid |-> s, topic |-> TopicOf[p]]) =>
                    \A j \in 1 .. Len(queue') :
                       Inbox(queue'[j]) /\ queue'[j].from = p => Asked(s, p, queue'[j].number)
           /\ \A s \in Subscribers, p \in Publishers : \A i \in 1 .. Len(queue') :
                 Command(queue'[i], "subscribe", s, TopicOf[p]) =>
                    /\ since[s][p] # Never
                    /\ \A j \in 1 .. Len(queue') :
                          i < j /\ Inbox(queue'[j]) /\ queue'[j].from = p => Asked(s, p, queue'[j].number)
  <1>1. ASSUME NEW j \in 1 .. Len(queue')
        PROVE  h[j] \in 1 .. Len(queue) /\ queue'[j] = queue[h[j]]
    BY DEF Kept
  <1>2. ASSUME NEW j \in 1 .. Len(queue'), NEW k \in 1 .. Len(queue'), j < k PROVE h[j] < h[k]
    BY <1>2 DEF Kept
  <1>3. ASSUME NEW i \in 1 .. Len(queue')
        PROVE  /\ Proper(queue'[i])
               /\ queue'[i].to \in Subscribers =>
                     Known(queue'[i].from) /\ Asked(queue'[i].to, queue'[i].from, queue'[i].number)
    <2>1. h[i] \in 1 .. Len(queue) /\ queue'[i] = queue[h[i]]
      BY <1>1
    <2>2. Proper(queue'[i])
      BY <2>1 DEF DataInv, ContentInv, Proper
    <2>3. queue'[i].to \in Subscribers => Known(queue'[i].from)
      BY <2>1 DEF DataInv, KnownInv, Known
    <2>4. queue'[i].to \in Subscribers => Asked(queue'[i].to, queue'[i].from, queue'[i].number)
      BY <2>1 DEF DataInv, SinceInv, Asked
    <2> QED
      BY <2>2, <2>3, <2>4
  <1>4. QueueOrder'
    BY <1>1, <1>2 DEF DataInv, OrderInv, QueueOrder
  <1>5. \A k \in 1 .. Len(outgoing) : \A j \in 1 .. Len(queue') : Behind(outgoing[k], queue'[j])
    BY <1>1 DEF DataInv, OrderInv, OutgoingOrder
  <1>6. \A s \in Subscribers : \A r \in 1 .. Len(received[s]) :
           \A j \in 1 .. Len(queue') : Before(s, received[s][r], queue'[j])
    BY <1>1 DEF DataInv, OrderInv, ReceivedOrder
  <1>7. ASSUME NEW s \in Subscribers, NEW p \in Publishers, NEW j \in 1 .. Len(queue'),
               Contains(subscriptions, [pid |-> s, topic |-> TopicOf[p]]),
               Inbox(queue'[j]), queue'[j].from = p
        PROVE  Asked(s, p, queue'[j].number)
    <2>1. h[j] \in 1 .. Len(queue) /\ queue'[j] = queue[h[j]]
      BY <1>1
    <2>2. Inbox(queue[h[j]]) /\ queue[h[j]].from = p /\ queue'[j].number = queue[h[j]].number
      BY <1>7, <2>1 DEF Inbox
    <2>3. Asked(s, p, queue[h[j]].number)
      BY <1>7, <2>1, <2>2, Zenon DEF DataInv, SinceInv
    <2> QED
      BY <2>2, <2>3 DEF Asked
  <1>8. ASSUME NEW s \in Subscribers, NEW p \in Publishers, NEW i \in 1 .. Len(queue'),
               Command(queue'[i], "subscribe", s, TopicOf[p])
        PROVE  /\ since[s][p] # Never
               /\ \A j \in 1 .. Len(queue') :
                     i < j /\ Inbox(queue'[j]) /\ queue'[j].from = p => Asked(s, p, queue'[j].number)
    <2>1. h[i] \in 1 .. Len(queue) /\ Command(queue[h[i]], "subscribe", s, TopicOf[p])
      BY <1>1, <1>8 DEF Command
    <2>2. /\ since[s][p] # Never
          /\ \A j \in 1 .. Len(queue) :
                h[i] < j /\ Inbox(queue[j]) /\ queue[j].from = p => Asked(s, p, queue[j].number)
      BY <2>1, Zenon DEF DataInv, SinceInv
    <2>3. ASSUME NEW j \in 1 .. Len(queue'), i < j, Inbox(queue'[j]), queue'[j].from = p
          PROVE  Asked(s, p, queue'[j].number)
      <3>1. h[j] \in 1 .. Len(queue) /\ queue'[j] = queue[h[j]] /\ h[i] < h[j]
        BY <1>1, <1>2, <2>3
      <3>2. Inbox(queue[h[j]]) /\ queue[h[j]].from = p /\ queue'[j].number = queue[h[j]].number
        BY <2>3, <3>1 DEF Inbox
      <3>3. Asked(s, p, queue[h[j]].number)
        BY <2>2, <3>1, <3>2
      <3> QED
        BY <3>2, <3>3 DEF Asked
    <2> QED
      BY <2>2, <2>3
  <1> QED
    BY <1>3, <1>4, <1>5, <1>6, <1>7, <1>8

\* Losing messages keeps the invariants.
LEMMA LosesKeeps ==
    ASSUME TypeInv, DataInv, NEW h, Loses(h)
    PROVE  DataInv'
  <1>1. /\ subscriptions' = subscriptions /\ outgoing' = outgoing /\ sent' = sent
        /\ publishers' = publishers /\ received' = received /\ since' = since
    BY DEF Loses
  <1>2. Kept(h, queue, queue')
    BY DEF Loses
  <1>3. ContentInv' /\ UniqueInv' /\ KnownInv'
    BY <1>1, <1>2, KeptFits DEF DataInv, ContentInv, Proper, UniqueInv, Distinct, KnownInv, Known
  <1>4. OrderInv'
    BY <1>1, <1>2, KeptFits DEF DataInv, OrderInv, OutgoingOrder, ReceivedOrder
  <1>5. SinceInv'
    BY <1>1, <1>2, KeptFits DEF DataInv, SinceInv, Asked
  <1> QED
    BY <1>3, <1>4, <1>5 DEF DataInv

LEMMA StillKeeps ==
    ASSUME DataInv, DataStill
    PROVE  DataInv'
  <1>1. ContentInv' /\ UniqueInv' /\ KnownInv'
    BY DEF DataStill, DataInv, ContentInv, Proper, ProperFor, UniqueInv, KnownInv, Known
  <1>2. OrderInv'
    BY DEF DataStill, DataInv, OrderInv, QueueOrder, OutgoingOrder, ReceivedOrder
  <1>3. SinceInv'
    BY DEF DataStill, DataInv, SinceInv, Asked
  <1> QED
    BY <1>1, <1>2, <1>3 DEF DataInv

LEMMA GivesUpKeeps ==
    ASSUME TypeInv, DataInv, GivesUp
    PROVE  DataInv'
  <1>1. outgoing' = <<>> /\ Len(<<>>) = 0 /\ 1 .. 0 = {}
    BY DEF GivesUp
  <1>2. /\ UNCHANGED <<queue, publishers, subscriptions, sent, received, since>>
        /\ \A k \in 1 .. Len(outgoing') : FALSE
    BY <1>1 DEF GivesUp
  <1>3. ContentInv' /\ UniqueInv' /\ KnownInv'
    BY <1>2 DEF DataInv, ContentInv, Proper, ProperFor, UniqueInv, KnownInv, Known
  <1>4. OrderInv'
    BY <1>2 DEF DataInv, OrderInv, QueueOrder, OutgoingOrder, ReceivedOrder
  <1>5. SinceInv'
    BY <1>2 DEF DataInv, SinceInv, Asked
  <1> QED
    BY <1>3, <1>4, <1>5 DEF DataInv

\* Where the elements of a queue with one more message are.
LEMMA AppendedElements ==
    ASSUME TypeInv, NEW m, Appends(m)
    PROVE  /\ \A j \in 1 .. Len(queue') :
                 (j \in 1 .. Len(queue) /\ queue'[j] = queue[j]) \/ (j = Len(queue) + 1 /\ queue'[j] = m)
           /\ \A j \in 1 .. Len(queue) : j \in 1 .. Len(queue') /\ queue'[j] = queue[j] /\ j < Len(queue) + 1
           /\ Len(queue) \in Nat /\ Len(queue) + 1 \in 1 .. Len(queue') /\ queue'[Len(queue) + 1] = m
  <1>1. PICK n \in Nat : n = Len(queue)
    BY LenProperties DEF TypeInv, DataTyped
  <1>2. Len(queue') = n + 1 /\ queue'[n + 1] = m /\ \A j \in 1 .. n : queue'[j] = queue[j]
    BY <1>1 DEF Appends
  <1> QED
    BY <1>1, <1>2

\* A message that is appended keeps the invariants if it fits what is there.
LEMMA AppendKeeps ==
    ASSUME TypeInv, TypeInv', DataInv, NEW m \in Message, Appends(m),
           UNCHANGED <<publishers, subscriptions, received>>,
           NEW g, Kept(g, outgoing, outgoing'),
           \A p \in Publishers : sent[p] <= sent'[p],
           \A s \in Subscribers, p \in Publishers :
              /\ since[s][p] # Never => since'[s][p] = since[s][p]
              /\ since'[s][p] <= sent'[p],
           ProperFor(m, sent'),
           m.to \in Subscribers => Known(m.from),
           \A j \in 1 .. Len(queue) :
              InOrder(queue[j], m) /\ Ahead(queue[j], m) /\ Ahead(m, queue[j]),
           \A k \in 1 .. Len(outgoing') : Behind(outgoing'[k], m),
           \A s \in Subscribers : \A r \in 1 .. Len(received[s]) : Before(s, received[s][r], m),
           m.command = "subscribe" =>
              \A p \in Publishers : TopicOf[p] = m.topic => since'[m.from][p] # Never,
           Inbox(m) => \A s \in Subscribers :
                          since'[s][m.from] # Never => m.number > since'[s][m.from],
           m.to \in Subscribers => Asked(m.to, m.from, m.number)
    PROVE  DataInv'
  <1>1. ASSUME NEW j \in 1 .. Len(queue')
        PROVE  \/ j \in 1 .. Len(queue) /\ queue'[j] = queue[j]
               \/ j = Len(queue) + 1 /\ queue'[j] = m
    BY AppendedElements
  <1>2. ASSUME NEW k \in 1 .. Len(outgoing')
        PROVE  g[k] \in 1 .. Len(outgoing) /\ outgoing'[k] = outgoing[g[k]]
    BY DEF Kept
  <1>3. Len(queue) \in Nat
    BY AppendedElements
  <1>4. received' = received /\ publishers' = publishers /\ subscriptions' = subscriptions
    OBVIOUS
  <1>5. Ahead(m, m)
    BY Different DEF Ahead, Inbox
  <1>6. ContentInv' /\ UniqueInv'
    <2>1. \A z \in Publishers : sent[z] \in Nat /\ sent'[z] \in Nat /\ sent[z] <= sent'[z]
      BY BoundsAssumption DEF TypeInv, DataTyped
    <2>2. ASSUME NEW e \in Message, ProperFor(e, sent) PROVE ProperFor(e, sent')
      BY <2>1, <2>2, BoundsAssumption DEF ProperFor, Message
    <2>3. ASSUME NEW j \in 1 .. Len(queue') PROVE ProperFor(queue'[j], sent')
      <3>1. CASE j \in 1 .. Len(queue) /\ queue'[j] = queue[j]
        <4>1. queue[j] \in Message /\ ProperFor(queue[j], sent)
          BY <3>1, ElementOfSeq DEF DataInv, ContentInv, Proper, TypeInv, DataTyped
        <4> QED
          BY <2>2, <3>1, <4>1
      <3>2. CASE queue'[j] = m
        BY <3>2
      <3> QED
        BY <1>1, <3>1, <3>2
    <2>4. ASSUME NEW k \in 1 .. Len(outgoing')
          PROVE  /\ ProperFor(outgoing'[k], sent') /\ outgoing'[k].command = "send"
                 /\ outgoing'[k].to \in Subscribers
      <3>1. g[k] \in 1 .. Len(outgoing) /\ outgoing'[k] = outgoing[g[k]]
        BY <1>2
      <3>2. /\ outgoing[g[k]] \in Message /\ ProperFor(outgoing[g[k]], sent)
            /\ outgoing[g[k]].command = "send" /\ outgoing[g[k]].to \in Subscribers
        BY <3>1, ElementOfSeq DEF DataInv, ContentInv, Proper, TypeInv, DataTyped
      <3> QED
        BY <2>2, <3>1, <3>2
    <2>5. ASSUME NEW s \in Subscribers, NEW r \in 1 .. Len(received[s])
          PROVE  received[s][r][2] <= sent'[received[s][r][1]]
      <3>1. received[s] \in Seq(Publishers \X (1 .. MaxPublications))
        BY DEF TypeInv, DataTyped
      <3>2. received[s][r] \in Publishers \X (1 .. MaxPublications)
        BY <3>1, ElementOfSeq
      <3>3. received[s][r][1] \in Publishers /\ received[s][r][2] \in Nat
        BY <3>2
      <3>4. received[s][r][2] <= sent[received[s][r][1]]
        BY DEF DataInv, ContentInv
      <3> QED
        BY <2>1, <3>3, <3>4
    <2>6. UniqueInv'
      BY <1>4 DEF DataInv, UniqueInv
    <2> QED
      BY <1>4, <2>3, <2>4, <2>5, <2>6 DEF ContentInv, Proper
  <1>7. KnownInv'
    <2>1. \A z \in Publishers : sent[z] \in Nat /\ sent'[z] \in Nat /\ sent[z] <= sent'[z]
      BY BoundsAssumption DEF TypeInv, DataTyped
    <2>2. \A z \in Publishers : Contains(publishers, z) => sent'[z] >= 1
      BY <2>1 DEF DataInv, KnownInv, Known
    <2>3. \A j \in 1 .. Len(queue') : queue'[j].to \in Subscribers => Contains(publishers, queue'[j].from)
      BY <1>1 DEF DataInv, KnownInv, Known
    <2>4. \A k \in 1 .. Len(outgoing') : Contains(publishers, outgoing'[k].from)
      BY <1>2 DEF DataInv, KnownInv, Known
    <2> QED
      BY <1>4, <2>2, <2>3, <2>4 DEF DataInv, KnownInv, Known
  <1>8. OrderInv'
    <2>1. QueueOrder'
      BY <1>1, <1>3, <1>5 DEF DataInv, OrderInv, QueueOrder
    <2>2. OutgoingOrder'
      <3>1. \A k \in 1 .. Len(outgoing') : \A j \in 1 .. Len(queue') : Behind(outgoing'[k], queue'[j])
        BY <1>1, <1>2 DEF DataInv, OrderInv, OutgoingOrder
      <3>2. ASSUME NEW k \in 1 .. Len(outgoing'), NEW l \in 1 .. Len(outgoing'),
                   outgoing'[k].to = outgoing'[l].to
            PROVE  k = l
        <4>1. g[k] = g[l]
          BY <1>2, <3>2 DEF DataInv, OrderInv, OutgoingOrder
        <4>2. outgoing \in Seq(Message) /\ outgoing' \in Seq(Message)
          BY DEF TypeInv, DataTyped
        <4>3. Len(outgoing) \in Nat /\ Len(outgoing') \in Nat /\ g[k] \in 1 .. Len(outgoing)
          BY <1>2, <4>2
        <4>4. ~(k < l) /\ ~(l < k)
          BY <4>1, <4>3 DEF Kept
        <4> QED
          BY <4>3, <4>4
      <3> QED
        BY <3>1, <3>2 DEF OutgoingOrder
    <2>3. ReceivedOrder'
      <3> SUFFICES ASSUME NEW s \in Subscribers, NEW r \in 1 .. Len(received[s])
                   PROVE  /\ \A q \in 1 .. Len(received[s]) :
                                r < q /\ received[s][r][1] = received[s][q][1]
                                   => received[s][r][2] < received[s][q][2]
                          /\ \A j \in 1 .. Len(queue') : Before(s, received[s][r], queue'[j])
                          /\ \A k \in 1 .. Len(outgoing') : Before(s, received[s][r], outgoing'[k])
        BY <1>4 DEF ReceivedOrder, Before
      <3>1. /\ \A q \in 1 .. Len(received[s]) :
                   r < q /\ received[s][r][1] = received[s][q][1] => received[s][r][2] < received[s][q][2]
            /\ \A j \in 1 .. Len(queue) : Before(s, received[s][r], queue[j])
            /\ \A k \in 1 .. Len(outgoing) : Before(s, received[s][r], outgoing[k])
        BY DEF DataInv, OrderInv, ReceivedOrder
      <3>2. Before(s, received[s][r], m)
        OBVIOUS
      <3> QED
        BY <1>1, <1>2, <3>1, <3>2
    <2> QED
      BY <2>1, <2>2, <2>3 DEF OrderInv
  <1>9. SinceInv'
    <2>0. /\ \A s \in Subscribers, p \in Publishers :
                Contains(subscriptions, [pid |-> s, topic |-> TopicOf[p]]) =>
                   /\ since[s][p] # Never
                   /\ \A j \in 1 .. Len(queue) :
                         Inbox(queue[j]) /\ queue[j].from = p => Asked(s, p, queue[j].number)
          /\ \A s \in Subscribers, p \in Publishers : \A i \in 1 .. Len(queue) :
                Command(queue[i], "subscribe", s, TopicOf[p]) =>
                   /\ since[s][p] # Never
                   /\ \A j \in 1 .. Len(queue) :
                         i < j /\ Inbox(queue[j]) /\ queue[j].from = p => Asked(s, p, queue[j].number)
      BY DEF DataInv, SinceInv
    <2>1. ASSUME NEW s \in Subscribers, NEW p \in Publishers, NEW n, Asked(s, p, n)
          PROVE  since'[s][p] # Never /\ n > since'[s][p]
      BY <2>1 DEF Asked
    <2>2. ASSUME NEW s \in Subscribers, NEW p \in Publishers,
                 Contains(subscriptions, [pid |-> s, topic |-> TopicOf[p]])
          PROVE  /\ since'[s][p] # Never
                 /\ \A j \in 1 .. Len(queue') :
                       Inbox(queue'[j]) /\ queue'[j].from = p => queue'[j].number > since'[s][p]
      <3>1. since[s][p] # Never /\ since'[s][p] # Never
        BY <2>0, <2>2
      <3>2. ASSUME NEW j \in 1 .. Len(queue'), Inbox(queue'[j]), queue'[j].from = p
            PROVE  queue'[j].number > since'[s][p]
        <4>1. CASE j \in 1 .. Len(queue) /\ queue'[j] = queue[j]
          <5>1. Asked(s, p, queue[j].number)
            BY <2>0, <2>2, <3>2, <4>1
          <5> QED
            BY <2>1, <4>1, <5>1
        <4>2. CASE queue'[j] = m
          BY <3>1, <3>2, <4>2
        <4> QED
          BY <1>1, <4>1, <4>2
      <3> QED
        BY <3>1, <3>2
    <2>3. ASSUME NEW s \in Subscribers, NEW p \in Publishers, NEW i \in 1 .. Len(queue'),
                 Command(queue'[i], "subscribe", s, TopicOf[p])
          PROVE  /\ since'[s][p] # Never
                 /\ \A j \in 1 .. Len(queue') :
                       i < j /\ Inbox(queue'[j]) /\ queue'[j].from = p => queue'[j].number > since'[s][p]
      <3>1. CASE i \in 1 .. Len(queue) /\ queue'[i] = queue[i]
        <4>1. since[s][p] # Never /\ since'[s][p] # Never
          BY <2>0, <2>3, <3>1
        <4>2. ASSUME NEW j \in 1 .. Len(queue'), i < j, Inbox(queue'[j]), queue'[j].from = p
              PROVE  queue'[j].number > since'[s][p]
          <5>1. CASE j \in 1 .. Len(queue) /\ queue'[j] = queue[j]
            <6>1. Asked(s, p, queue[j].number)
              BY <2>0, <2>3, <3>1, <4>2, <5>1
            <6> QED
              BY <2>1, <5>1, <6>1
          <5>2. CASE queue'[j] = m
            BY <4>1, <4>2, <5>2
          <5> QED
            BY <1>1, <5>1, <5>2
        <4> QED
          BY <4>1, <4>2
      <3>2. CASE i = Len(queue) + 1 /\ queue'[i] = m
        <4>1. since'[s][p] # Never
          BY <2>3, <3>2 DEF Command
        <4>2. \A j \in 1 .. Len(queue') : ~(i < j)
          BY <1>1, <1>3, <3>2
        <4> QED
          BY <4>1, <4>2
      <3> QED
        BY <1>1, <3>1, <3>2
    <2>4. ASSUME NEW i \in 1 .. Len(queue'), queue'[i].to \in Subscribers
          PROVE  /\ since'[queue'[i].to][queue'[i].from] # Never
                 /\ queue'[i].number > since'[queue'[i].to][queue'[i].from]
      <3>1. Asked(queue'[i].to, queue'[i].from, queue'[i].number)
        <4>1. CASE i \in 1 .. Len(queue) /\ queue'[i] = queue[i]
          BY <2>4, <4>1 DEF DataInv, SinceInv, Asked
        <4>2. CASE queue'[i] = m
          BY <2>4, <4>2 DEF Asked
        <4> QED
          BY <1>1, <4>1, <4>2
      <3>2. queue'[i].from \in Publishers
        <4>1. ProperFor(queue'[i], sent')
          BY <1>6 DEF ContentInv, Proper
        <4> QED
          BY <2>4, <4>1, Different DEF ProperFor
      <3> QED
        BY <2>1, <2>4, <3>1, <3>2
    <2>5. ASSUME NEW k \in 1 .. Len(outgoing')
          PROVE  /\ since'[outgoing'[k].to][outgoing'[k].from] # Never
                 /\ outgoing'[k].number > since'[outgoing'[k].to][outgoing'[k].from]
      <3>1. Asked(outgoing'[k].to, outgoing'[k].from, outgoing'[k].number)
        BY <1>2 DEF DataInv, SinceInv, Asked
      <3>2. outgoing'[k].to \in Subscribers /\ outgoing'[k].from \in Publishers
        BY <1>6 DEF ContentInv, Proper, ProperFor
      <3> QED
        BY <2>1, <3>1, <3>2
    <2>6. ASSUME NEW s \in Subscribers, NEW r \in 1 .. Len(received[s])
          PROVE  since'[s][received[s][r][1]] # Never /\ received[s][r][2] > since'[s][received[s][r][1]]
      <3>1. Asked(s, received[s][r][1], received[s][r][2])
        BY DEF DataInv, SinceInv
      <3>2. received[s] \in Seq(Publishers \X (1 .. MaxPublications))
        BY DEF TypeInv, DataTyped
      <3>3. received[s][r] \in Publishers \X (1 .. MaxPublications)
        BY <3>2, ElementOfSeq
      <3> QED
        BY <2>1, <3>1, <3>3
    <2> QED
      <3>1. (\A s \in Subscribers, p \in Publishers :
                Contains(subscriptions, [pid |-> s, topic |-> TopicOf[p]]) =>
                   /\ since[s][p] # Never
                   /\ \A j \in 1 .. Len(queue) :
                         Inbox(queue[j]) /\ queue[j].from = p => Asked(s, p, queue[j].number))'
        BY <1>4, <2>2 DEF Asked
      <3>2. (\A s \in Subscribers, p \in Publishers : \A i \in 1 .. Len(queue) :
                Command(queue[i], "subscribe", s, TopicOf[p]) =>
                   /\ since[s][p] # Never
                   /\ \A j \in 1 .. Len(queue) :
                         i < j /\ Inbox(queue[j]) /\ queue[j].from = p => Asked(s, p, queue[j].number))'
        BY <2>3 DEF Asked
      <3>3. (/\ \A i \in 1 .. Len(queue) :
                   queue[i].to \in Subscribers => Asked(queue[i].to, queue[i].from, queue[i].number)
             /\ \A k \in 1 .. Len(outgoing) : Asked(outgoing[k].to, outgoing[k].from, outgoing[k].number)
             /\ \A s \in Subscribers : \A r \in 1 .. Len(received[s]) :
                   Asked(s, received[s][r][1], received[s][r][2]))'
        BY <1>4, <2>4, <2>5, <2>6 DEF Asked
      <3> QED
        BY <1>4, <3>1, <3>2, <3>3 DEF SinceInv
  <1> QED
    BY <1>6, <1>7, <1>8, <1>9 DEF DataInv

LEMMA KeptSame ==
    ASSUME NEW S, NEW q \in Seq(S)
    PROVE  \E g : Kept(g, q, q)
  <1>1. PICK n \in Nat : n = Len(q)
    BY LenProperties
  <1>2. PICK g : g = [j \in 1 .. n |-> j]
    OBVIOUS
  <1>3. Kept(g, q, q)
    BY <1>1, <1>2 DEF Kept
  <1> QED
    BY <1>3

\* The numbers that queue, outgoing and received hold of a publisher.
LEMMA NumbersSent ==
    ASSUME TypeInv, ContentInv
    PROVE  /\ \A j \in 1 .. Len(queue) :
                 /\ queue[j] \in Message
                 /\ queue[j].from \in Publishers =>
                       queue[j].command = "send" /\ queue[j].number <= sent[queue[j].from]
                 /\ queue[j].to \in Subscribers => queue[j].command = "send"
           /\ \A k \in 1 .. Len(outgoing) :
                 /\ outgoing[k] \in Message /\ outgoing[k].from \in Publishers
                 /\ outgoing[k].number <= sent[outgoing[k].from]
                 /\ outgoing[k].to \in Subscribers
           /\ \A s \in Subscribers : \A r \in 1 .. Len(received[s]) :
                 /\ received[s][r] \in Publishers \X (1 .. MaxPublications)
                 /\ received[s][r][1] \in Publishers
                 /\ received[s][r][2] \in Nat /\ received[s][r][2] <= sent[received[s][r][1]]
  <1>1. queue \in Seq(Message) /\ outgoing \in Seq(Message)
        /\ \A s \in Subscribers : received[s] \in Seq(Publishers \X (1 .. MaxPublications))
    BY DEF TypeInv, DataTyped
  <1>2. \A j \in 1 .. Len(queue) : queue[j] \in Message /\ ProperFor(queue[j], sent)
    BY <1>1, ElementOfSeq DEF ContentInv, Proper
  <1>3. \A j \in 1 .. Len(queue) :
           /\ queue[j].from \in Publishers =>
                 queue[j].command = "send" /\ queue[j].number <= sent[queue[j].from]
           /\ queue[j].to \in Subscribers => queue[j].command = "send"
    BY <1>2, Different DEF ProperFor
  <1>4. \A k \in 1 .. Len(outgoing) :
           /\ outgoing[k] \in Message /\ ProperFor(outgoing[k], sent)
           /\ outgoing[k].command = "send" /\ outgoing[k].to \in Subscribers
    BY <1>1, ElementOfSeq DEF ContentInv, Proper
  <1>5. \A k \in 1 .. Len(outgoing) :
           outgoing[k].from \in Publishers /\ outgoing[k].number <= sent[outgoing[k].from]
    BY <1>4 DEF ProperFor
  <1>6. ASSUME NEW s \in Subscribers, NEW r \in 1 .. Len(received[s])
        PROVE  /\ received[s][r] \in Publishers \X (1 .. MaxPublications)
               /\ received[s][r][1] \in Publishers
               /\ received[s][r][2] \in Nat /\ received[s][r][2] <= sent[received[s][r][1]]
    <2>1. received[s][r] \in Publishers \X (1 .. MaxPublications)
      BY <1>1, ElementOfSeq
    <2>2. received[s][r][2] <= sent[received[s][r][1]]
      BY DEF ContentInv
    <2> QED
      BY <2>1, <2>2
  <1> QED
    BY <1>2, <1>3, <1>4, <1>5, <1>6

\* A command of a subscriber.
LEMMA CommandKeeps ==
    ASSUME TypeInv, TypeInv', DataInv, NEW s \in Subscribers,
           Asks(s) \/ TakesOneBack(s)
    PROVE  DataInv'
  <1>1. PICK m : /\ m \in Message /\ Appends(m) /\ m.to = Broker /\ m.from = s /\ m.command # "send"
                 /\ m.command = "subscribe" => Asks(s) /\ m.topic = TopicsOf[s][step[s] + 1]
    <2>1. CASE Asks(s)
      BY <2>1 DEF Asks, Appends, CommandTo, ToBroker
    <2>2. CASE TakesOneBack(s)
      BY <2>2 DEF TakesOneBack, Appends, CommandTo, ToBroker
    <2> QED
      BY <2>1, <2>2
  <1>2. UNCHANGED <<publishers, subscriptions, received, outgoing, sent>>
    BY DEF Asks, TakesOneBack
  <1>3. PICK g : Kept(g, outgoing, outgoing')
    <2>1. outgoing \in Seq(Message)
      BY DEF TypeInv, DataTyped
    <2> QED
      BY <1>2, <2>1, KeptSame
  <1>4. /\ sent \in [Publishers -> 0 .. MaxPublications] /\ MaxPublications \in Nat
        /\ since \in [Subscribers -> [Publishers -> -1 .. MaxPublications]]
    BY BoundsAssumption DEF TypeInv, DataTyped
  <1>5. \A p \in Publishers : sent[p] <= sent'[p]
    BY <1>2, <1>4
  <1>6. ASSUME NEW z \in Subscribers, NEW p \in Publishers
        PROVE  /\ since[z][p] # Never => since'[z][p] = since[z][p]
               /\ since'[z][p] <= sent'[p]
    <2>1. since[z][p] <= sent[p] /\ sent[p] <= sent[p]
      BY <1>4 DEF DataInv, SinceInv
    <2>2. CASE Asks(s)
      BY <1>2, <2>1, <2>2 DEF Asks
    <2>3. CASE TakesOneBack(s)
      BY <1>2, <2>1, <2>3 DEF TakesOneBack
    <2> QED
      BY <2>2, <2>3
  <1>7. s \notin Publishers /\ Broker \notin Subscribers
    BY Different
  <1>8. ProperFor(m, sent')
    BY <1>1 DEF ProperFor
  <1>9. ~(m.to \in Subscribers) /\ ~Inbox(m)
    BY <1>1, <1>7 DEF Inbox
  <1>10. \A j \in 1 .. Len(queue) : InOrder(queue[j], m) /\ Ahead(queue[j], m) /\ Ahead(m, queue[j])
    BY <1>1, <1>9 DEF InOrder, Ahead
  <1>11. \A k \in 1 .. Len(outgoing') : Behind(outgoing'[k], m)
    BY <1>1, <1>2, <1>7, <1>9, NumbersSent DEF Behind, DataInv
  <1>12. \A z \in Subscribers : \A r \in 1 .. Len(received[z]) : Before(z, received[z][r], m)
    BY <1>1, <1>7, NumbersSent DEF Before, DataInv
  <1>13. ASSUME m.command = "subscribe", NEW p \in Publishers, TopicOf[p] = m.topic
         PROVE  since'[m.from][p] # Never
    <2>1. since'[s][p] = IF since[s][p] = Never THEN sent[p] ELSE since[s][p]
      BY <1>1, <1>13 DEF Asks
    <2>2. sent[p] # Never
      BY <1>4 DEF Never
    <2> QED
      BY <1>1, <2>1, <2>2
  <1> QED
    BY <1>1, <1>2, <1>3, <1>5, <1>6, <1>8, <1>9, <1>10, <1>11, <1>12, <1>13, AppendKeeps

LEMMA SendsKeeps ==
    ASSUME TypeInv, TypeInv', DataInv, NEW p \in Publishers, SendsOnly(p)
    PROVE  DataInv'
  <1>1. PICK m : /\ m \in Message /\ Appends(m) /\ m.to = Broker /\ m.from = p
                 /\ m.command = "send" /\ m.topic = TopicOf[p] /\ m.number = sent[p] + 1
    BY DEF SendsOnly, Sends, Appends, Publication, ToBroker
  <1>2. UNCHANGED <<publishers, subscriptions, received, outgoing, since>>
    BY DEF SendsOnly
  <1>3. PICK g : Kept(g, outgoing, outgoing')
    <2>1. outgoing \in Seq(Message)
      BY DEF TypeInv, DataTyped
    <2> QED
      BY <1>2, <2>1, KeptSame
  <1>4. /\ sent \in [Publishers -> 0 .. MaxPublications] /\ MaxPublications \in Nat
        /\ since \in [Subscribers -> [Publishers -> -1 .. MaxPublications]]
    BY BoundsAssumption DEF TypeInv, DataTyped
  <1>5. \A z \in Publishers : sent'[z] = IF z = p THEN sent[z] + 1 ELSE sent[z]
    BY <1>4 DEF SendsOnly, Sends
  <1>6. \A z \in Publishers : sent[z] <= sent'[z]
    BY <1>4, <1>5
  <1>7. ASSUME NEW z \in Subscribers, NEW q \in Publishers
        PROVE  /\ since[z][q] # Never => since'[z][q] = since[z][q]
               /\ since'[z][q] <= sent'[q]
    <2>1. since[z][q] <= sent[q] /\ since[z][q] \in Int
      BY <1>4 DEF DataInv, SinceInv
    <2>2. since'[z][q] <= sent'[q]
      BY <1>2, <1>4, <1>5, <2>1
    <2> QED
      BY <1>2, <2>2
  <1>8. Broker \notin Subscribers
    BY Different
  <1>9. ProperFor(m, sent')
    BY <1>1, <1>4, <1>5 DEF ProperFor
  <1>10. ~(m.to \in Subscribers) /\ m.command # "subscribe"
    BY <1>1, <1>8
  <1>11. ASSUME NEW e \in Message, e.from = p, e.number <= sent[e.from] PROVE e.number < m.number
    BY <1>1, <1>4, <1>11 DEF Message
  <1>12. \A j \in 1 .. Len(queue) : InOrder(queue[j], m) /\ Ahead(queue[j], m) /\ Ahead(m, queue[j])
    <2> TAKE j \in 1 .. Len(queue)
    <2>1. queue[j] \in Message
          /\ (queue[j].from \in Publishers => queue[j].number <= sent[queue[j].from])
      BY NumbersSent DEF DataInv
    <2>2. Earlier(queue[j], m)
      BY <1>1, <1>11, <2>1 DEF Earlier
    <2> QED
      BY <1>10, <2>2 DEF InOrder, Ahead
  <1>13. \A k \in 1 .. Len(outgoing') : Behind(outgoing'[k], m)
    <2> TAKE k \in 1 .. Len(outgoing')
    <2>1. /\ outgoing'[k] \in Message /\ outgoing'[k].from \in Publishers
          /\ outgoing'[k].number <= sent[outgoing'[k].from] /\ outgoing'[k].to \in Subscribers
      BY <1>2, NumbersSent DEF DataInv
    <2>2. Earlier(outgoing'[k], m)
      BY <1>1, <1>11, <2>1 DEF Earlier
    <2> QED
      BY <1>1, <1>8, <2>1, <2>2 DEF Behind
  <1>14. \A z \in Subscribers : \A r \in 1 .. Len(received[z]) : Before(z, received[z][r], m)
    <2> TAKE z \in Subscribers
    <2> TAKE r \in 1 .. Len(received[z])
    <2>1. /\ received[z][r][2] \in Nat /\ received[z][r][2] <= sent[received[z][r][1]]
      BY NumbersSent DEF DataInv
    <2> QED
      BY <1>1, <1>4, <2>1 DEF Before
  <1>15. \A z \in Subscribers : since'[z][m.from] # Never => m.number > since'[z][m.from]
    <2> TAKE z \in Subscribers
    <2>1. since[z][p] <= sent[p] /\ since[z][p] \in Int /\ sent[p] \in Int
      BY <1>4 DEF DataInv, SinceInv
    <2> QED
      BY <1>1, <1>2, <2>1
  <1> QED
    BY <1>1, <1>2, <1>3, <1>6, <1>7, <1>9, <1>10, <1>12, <1>13, <1>14, <1>15, AppendKeeps

LEMMA ForwardsKeeps ==
    ASSUME TypeInv, TypeInv', DataInv, NEW h, Forwards(h)
    PROVE  DataInv'
  <1>1. PICK m : m = outgoing[1]
    OBVIOUS
  <1>2. Appends(m) /\ m \in Message /\ 1 \in 1 .. Len(outgoing)
    BY <1>1 DEF Forwards, Appends
  <1>3. UNCHANGED <<publishers, subscriptions, sent, received, since>>
        /\ Kept(h, outgoing, outgoing') /\ \A k \in 1 .. Len(outgoing') : h[k] # 1
    BY DEF Forwards, Without
  <1>4. /\ sent \in [Publishers -> 0 .. MaxPublications] /\ MaxPublications \in Nat
        /\ since \in [Subscribers -> [Publishers -> -1 .. MaxPublications]]
    BY BoundsAssumption DEF TypeInv, DataTyped
  <1>5. \A z \in Publishers : sent[z] <= sent'[z]
    BY <1>3, <1>4
  <1>6. ASSUME NEW z \in Subscribers, NEW q \in Publishers
        PROVE  /\ since[z][q] # Never => since'[z][q] = since[z][q]
               /\ since'[z][q] <= sent'[q]
    BY <1>3 DEF DataInv, SinceInv
  <1>7. /\ ProperFor(m, sent') /\ m.command = "send" /\ m.to \in Subscribers /\ ~Inbox(m)
    BY <1>1, <1>2, <1>3, Different DEF DataInv, ContentInv, Proper, Inbox
  <1>8. Known(m.from)
    BY <1>1, <1>2 DEF DataInv, KnownInv
  <1>9. \A j \in 1 .. Len(queue) : InOrder(queue[j], m) /\ Ahead(queue[j], m) /\ Ahead(m, queue[j])
    <2> TAKE j \in 1 .. Len(queue)
    <2>1. Behind(m, queue[j])
      BY <1>1, <1>2 DEF DataInv, OrderInv, OutgoingOrder
    <2> QED
      BY <1>7, <2>1 DEF Behind, InOrder, Ahead
  <1>10. \A k \in 1 .. Len(outgoing') : Behind(outgoing'[k], m)
    <2> TAKE k \in 1 .. Len(outgoing')
    <2>1. h[k] \in 1 .. Len(outgoing) /\ outgoing'[k] = outgoing[h[k]] /\ h[k] # 1
      BY <1>3 DEF Kept
    <2>2. outgoing'[k].to # m.to
      BY <1>1, <1>2, <2>1 DEF DataInv, OrderInv, OutgoingOrder
    <2> QED
      BY <1>7, <2>2 DEF Behind
  <1>11. \A z \in Subscribers : \A r \in 1 .. Len(received[z]) : Before(z, received[z][r], m)
    BY <1>1, <1>2 DEF DataInv, OrderInv, ReceivedOrder
  <1>12. Asked(m.to, m.from, m.number)
    BY <1>1, <1>2 DEF DataInv, SinceInv
  <1> QED
    BY <1>2, <1>3, <1>5, <1>6, <1>7, <1>8, <1>9, <1>10, <1>11, <1>12, AppendKeeps

\* What is left in the queue comes after the message that was the first for p.
LEMMA TakenFirst ==
    ASSUME TypeInv, NEW p, NEW i, NEW h, Takes(p, i, h)
    PROVE  /\ Kept(h, queue, queue') /\ i \in 1 .. Len(queue) /\ queue[i].to = p
           /\ \A j \in 1 .. Len(queue') :
                 /\ h[j] \in 1 .. Len(queue) /\ queue'[j] = queue[h[j]] /\ h[j] # i
                 /\ queue'[j].to = p => i < h[j]
  <1>1. Kept(h, queue, queue') /\ i \in 1 .. Len(queue) /\ queue[i].to = p
    BY DEF Takes, Without
  <1>2. ASSUME NEW j \in 1 .. Len(queue')
        PROVE  /\ h[j] \in 1 .. Len(queue) /\ queue'[j] = queue[h[j]] /\ h[j] # i
               /\ queue'[j].to = p => i < h[j]
    <2>1. h[j] \in 1 .. Len(queue) /\ queue'[j] = queue[h[j]] /\ h[j] # i
      BY DEF Takes, Without, Kept
    <2>2. ASSUME queue'[j].to = p PROVE i < h[j]
      <3>1. ~(h[j] \in 1 .. i - 1)
        BY <2>1, <2>2 DEF Takes
      <3>2. Len(queue) \in Nat
        BY LenProperties DEF TypeInv, DataTyped
      <3> QED
        BY <1>1, <2>1, <3>1, <3>2
    <2> QED
      BY <2>1, <2>2
  <1> QED
    BY <1>1, <1>2

LEMMA PrintsKeeps ==
    ASSUME TypeInv, TypeInv', DataInv, NEW s \in Subscribers, NEW i, NEW h, PrintsOnly(s, i, h)
    PROVE  DataInv'
  <1>1. /\ publishers' = publishers /\ subscriptions' = subscriptions /\ outgoing' = outgoing
        /\ sent' = sent /\ since' = since
    BY DEF PrintsOnly
  <1>2. PICK m : m = queue[i]
    OBVIOUS
  <1>3. /\ Takes(s, i, h) /\ m.command = "send" /\ m.from \in Publishers /\ m.to = s
        /\ 1 <= m.number /\ m.number <= sent[m.from] /\ i \in 1 .. Len(queue)
        /\ received' = [received EXCEPT ![s] = Append(@, <<m.from, m.number>>)]
    BY <1>2 DEF PrintsOnly, Prints, Takes
  <1>4. /\ Kept(h, queue, queue')
        /\ \A j \in 1 .. Len(queue') :
              /\ h[j] \in 1 .. Len(queue) /\ queue'[j] = queue[h[j]] /\ h[j] # i
              /\ queue'[j].to = s => i < h[j]
    BY <1>3, TakenFirst
  <1>e. PICK e : e = <<m.from, m.number>>
    OBVIOUS
  <1>5. e = <<m.from, m.number>> /\ e[1] = m.from /\ e[2] = m.number
    BY <1>e
  <1>6. PICK n \in Nat : n = Len(received[s])
    BY LenProperties DEF TypeInv, DataTyped
  <1>7. /\ Len(received'[s]) = n + 1 /\ received'[s][n + 1] = e
        /\ \A r \in 1 .. n : received'[s][r] = received[s][r]
        /\ \A z \in Subscribers : z # s => received'[z] = received[z]
    <2>1. PICK old \in Seq(Publishers \X (1 .. MaxPublications)) : old = received[s]
      BY DEF TypeInv, DataTyped
    <2>2. e \in Publishers \X (1 .. MaxPublications)
      <3>1. m.number \in 1 .. MaxPublications
        <4>1. sent[m.from] \in 0 .. MaxPublications /\ m \in Message
          BY <1>2, <1>3, ElementOfSeq DEF TypeInv, DataTyped
        <4> QED
          BY <1>3, <4>1, BoundsAssumption DEF Message
      <3> QED
        BY <1>3, <1>5, <3>1
    <2>3. PICK new : new = Append(old, e)
      OBVIOUS
    <2>4. Len(new) = n + 1 /\ new[n + 1] = e /\ \A r \in 1 .. n : new[r] = old[r]
      BY <1>6, <2>1, <2>2, <2>3
    <2>5. received \in [Subscribers -> Seq(Publishers \X (1 .. MaxPublications))]
      BY DEF TypeInv, DataTyped
    <2>6. received' = [received EXCEPT ![s] = new]
      BY <1>3, <1>5, <2>1, <2>3
    <2>7. received'[s] = new /\ \A z \in Subscribers : z # s => received'[z] = received[z]
      BY <2>5, <2>6
    <2> QED
      BY <2>1, <2>4, <2>7
  <1>8. ASSUME NEW z \in Subscribers, NEW r \in 1 .. Len(received'[z])
        PROVE  \/ r \in 1 .. Len(received[z]) /\ received'[z][r] = received[z][r]
               \/ z = s /\ r = n + 1 /\ received'[z][r] = e
    <2>1. CASE z = s
      <3>1. r \in 1 .. n \/ r = n + 1
        BY <1>6, <1>7, <2>1
      <3> QED
        BY <1>6, <1>7, <2>1, <3>1
    <2>2. CASE z # s
      BY <1>7, <2>2
    <2> QED
      BY <2>1, <2>2
  <1>9. ContentInv' /\ UniqueInv'
    <2>1. \A z \in Subscribers : \A r \in 1 .. Len(received'[z]) :
             received'[z][r][2] <= sent[received'[z][r][1]]
      BY <1>3, <1>5, <1>8 DEF DataInv, ContentInv
    <2>2. \A j \in 1 .. Len(queue') : Proper(queue'[j])
      BY <1>4, KeptFits
    <2> QED
      BY <1>1, <2>1, <2>2 DEF DataInv, ContentInv, Proper, UniqueInv, Distinct
  <1>10. KnownInv'
    <2>1. Contains(publishers, m.from)
      BY <1>2, <1>3 DEF DataInv, KnownInv, Known
    <2>2. \A z \in Subscribers : \A r \in 1 .. Len(received'[z]) :
             Contains(publishers, received'[z][r][1])
      BY <1>5, <1>8, <2>1 DEF DataInv, KnownInv, Known
    <2>3. \A j \in 1 .. Len(queue') : queue'[j].to \in Subscribers => Contains(publishers, queue'[j].from)
      BY <1>4, KeptFits DEF Known
    <2> QED
      BY <1>1, <2>2, <2>3 DEF DataInv, KnownInv, Known
  <1>11. OrderInv'
    <2>1. QueueOrder'
      BY <1>4, KeptFits
    <2>2. OutgoingOrder'
      BY <1>1, <1>4, KeptFits DEF DataInv, OrderInv, OutgoingOrder
    <2>3. ASSUME NEW j \in 1 .. Len(queue') PROVE Before(s, e, queue'[j])
      <3> SUFFICES ASSUME queue'[j].from = m.from, queue'[j].to = s \/ Inbox(queue'[j])
                   PROVE  m.number < queue'[j].number
        BY <1>5 DEF Before
      <3>1. h[j] \in 1 .. Len(queue) /\ queue'[j] = queue[h[j]]
        BY <1>4
      <3>2. CASE queue'[j].to = s
        <4>1. i < h[j] /\ queue[h[j]].to = s /\ queue[h[j]].command = "send"
          BY <1>4, <3>1, <3>2, NumbersSent DEF DataInv
        <4>2. InOrder(queue[i], queue[h[j]])
          BY <1>3, <3>1, <4>1 DEF DataInv, OrderInv, QueueOrder
        <4> QED
          BY <1>2, <1>3, <3>1, <4>1, <4>2 DEF InOrder, Earlier
      <3>3. CASE Inbox(queue'[j])
        <4>1. Ahead(queue[i], queue[h[j]])
          BY <1>3, <3>1 DEF DataInv, OrderInv, QueueOrder
        <4> QED
          BY <1>2, <1>3, <3>1, <3>3, <4>1 DEF Ahead, Earlier
      <3> QED
        BY <3>2, <3>3
    <2>4. ASSUME NEW k \in 1 .. Len(outgoing) PROVE Before(s, e, outgoing[k])
      <3> SUFFICES ASSUME outgoing[k].from = m.from, outgoing[k].to = s
                   PROVE  m.number < outgoing[k].number
        BY <1>5, Different, NumbersSent DEF Before, DataInv, Inbox
      <3>1. Behind(outgoing[k], queue[i])
        BY <1>3 DEF DataInv, OrderInv, OutgoingOrder
      <3> QED
        BY <1>2, <1>3, <3>1 DEF Behind, Earlier
    <2>5. ASSUME NEW q \in 1 .. n, received[s][q][1] = e[1] PROVE received[s][q][2] < e[2]
      <3>1. Before(s, received[s][q], queue[i])
        BY <1>3, <1>6 DEF DataInv, OrderInv, ReceivedOrder
      <3> QED
        BY <1>2, <1>3, <1>5, <2>5, <3>1 DEF Before
    <2>6. ReceivedOrder'
      <3> SUFFICES ASSUME NEW z \in Subscribers, NEW r \in 1 .. Len(received'[z])
                   PROVE  /\ \A q \in 1 .. Len(received'[z]) :
                                r < q /\ received'[z][r][1] = received'[z][q][1]
                                   => received'[z][r][2] < received'[z][q][2]
                          /\ \A j \in 1 .. Len(queue') : Before(z, received'[z][r], queue'[j])
                          /\ \A k \in 1 .. Len(outgoing) : Before(z, received'[z][r], outgoing[k])
        BY <1>1 DEF ReceivedOrder
      <3>1. ASSUME NEW q \in 1 .. Len(received'[z]), r < q, received'[z][r][1] = received'[z][q][1]
            PROVE  received'[z][r][2] < received'[z][q][2]
        <4>1. CASE q \in 1 .. Len(received[z]) /\ received'[z][q] = received[z][q]
          <5>1. r \in 1 .. Len(received[z]) /\ received'[z][r] = received[z][r]
            BY <1>6, <1>8, <3>1, <4>1
          <5> QED
            BY <3>1, <4>1, <5>1 DEF DataInv, OrderInv, ReceivedOrder
        <4>2. CASE z = s /\ q = n + 1 /\ received'[z][q] = e
          <5>1. r \in 1 .. n /\ received'[z][r] = received[s][r]
            BY <1>6, <1>8, <3>1, <4>2
          <5> QED
            BY <2>5, <3>1, <4>2, <5>1
        <4> QED
          BY <1>8, <4>1, <4>2
      <3>2. \A j \in 1 .. Len(queue') : Before(z, received'[z][r], queue'[j])
        BY SMTT(30), <1>4, <1>8, <2>3, KeptFits
      <3>3. \A k \in 1 .. Len(outgoing) : Before(z, received'[z][r], outgoing[k])
        BY <1>8, <2>4 DEF DataInv, OrderInv, ReceivedOrder
      <3> QED
        BY <3>1, <3>2, <3>3
    <2> QED
      BY <2>1, <2>2, <2>6 DEF OrderInv
  <1>12. SinceInv'
    <2>1. Asked(s, m.from, m.number)
      BY <1>2, <1>3 DEF DataInv, SinceInv
    <2>2. \A z \in Subscribers : \A r \in 1 .. Len(received'[z]) :
             Asked(z, received'[z][r][1], received'[z][r][2])
      BY <1>5, <1>8, <2>1 DEF DataInv, SinceInv
    <2> QED
      BY ZenonT(40), <1>1, <1>4, <2>2, KeptFits DEF DataInv, SinceInv, Asked
  <1> QED
    BY <1>9, <1>10, <1>11, <1>12 DEF DataInv

\* The broker reads a message.
LEMMA ReceivesSend ==
    ASSUME TypeInv, TypeInv', DataInv, NEW i, NEW h, Receives(i, h), SendEffect(queue[i])
    PROVE  DataInv'
  <1>1. PICK m : m = queue[i]
    OBVIOUS
  <1>2. /\ Takes(Broker, i, h) /\ outgoing = <<>>
        /\ sent' = sent /\ received' = received /\ since' = since
    BY DEF Receives, ReceiveEffect
  <1>3. /\ Kept(h, queue, queue') /\ i \in 1 .. Len(queue) /\ m.to = Broker
        /\ \A j \in 1 .. Len(queue') :
              /\ h[j] \in 1 .. Len(queue) /\ queue'[j] = queue[h[j]] /\ h[j] # i
              /\ queue'[j].to = Broker => i < h[j]
    BY <1>1, <1>2, TakenFirst
  <1>4. /\ m.command = "send" /\ m.from \in Publishers
        /\ subscriptions' = subscriptions /\ Fans(m, subscriptions, outgoing')
        /\ \A x : Contains(publishers', x) <=> Contains(publishers, x) \/ x = m.from
    BY <1>1 DEF SendEffect
  <1>5. m \in Message /\ Inbox(m) /\ ProperFor(m, sent)
    BY <1>1, <1>3, <1>4, NumbersSent DEF DataInv, ContentInv, Proper, Inbox
  <1>6. ASSUME NEW k \in 1 .. Len(outgoing')
        PROVE  /\ outgoing'[k].to \in Subscribers /\ outgoing'[k].command = "send"
               /\ outgoing'[k].from = m.from /\ outgoing'[k].topic = m.topic
               /\ outgoing'[k].number = m.number
               /\ Contains(subscriptions, [pid |-> outgoing'[k].to, topic |-> m.topic])
    <2>1. PICK s \in Subscribers :
             outgoing'[k] = For(m, s) /\ Contains(subscriptions, [pid |-> s, topic |-> m.topic])
      BY <1>4 DEF Fans
    <2>2. /\ For(m, s).to = s /\ For(m, s).command = m.command /\ For(m, s).from = m.from
          /\ For(m, s).topic = m.topic /\ For(m, s).number = m.number
      BY <1>5, ForwardedMessage
    <2> QED
      BY <1>4, <2>1, <2>2
  <1>7. ContentInv' /\ UniqueInv'
    <2>1. ASSUME NEW k \in 1 .. Len(outgoing') PROVE Proper(outgoing'[k])
      BY <1>4, <1>5, <1>6 DEF Proper, ProperFor
    <2>2. \A j \in 1 .. Len(queue') : Proper(queue'[j])
      BY <1>3, KeptFits
    <2> QED
      BY <1>2, <1>4, <1>6, <2>1, <2>2 DEF DataInv, ContentInv, Proper, UniqueInv, Distinct
  <1>8. KnownInv'
    <2>1. sent[m.from] >= 1
      <3>1. sent[m.from] \in 0 .. MaxPublications
        BY <1>4 DEF TypeInv, DataTyped
      <3>2. m.number \in 0 .. MaxPublications /\ MaxPublications \in Nat
        BY <1>5, BoundsAssumption DEF Message
      <3>3. 1 <= m.number /\ m.number <= sent[m.from]
        BY <1>4, <1>5 DEF ProperFor
      <3> QED
        BY <3>1, <3>2, <3>3
    <2>2. \A p \in Publishers : Contains(publishers', p) => sent[p] >= 1
      BY <1>4, <2>1 DEF DataInv, KnownInv, Known
    <2>3. \A j \in 1 .. Len(queue') : queue'[j].to \in Subscribers => Contains(publishers', queue'[j].from)
      BY <1>3, <1>4, KeptFits DEF Known
    <2>4. \A k \in 1 .. Len(outgoing') : Contains(publishers', outgoing'[k].from)
      BY <1>4, <1>6
    <2>5. \A s \in Subscribers : \A r \in 1 .. Len(received[s]) : Contains(publishers', received[s][r][1])
      BY <1>4 DEF DataInv, KnownInv, Known
    <2> QED
      BY <1>2, <2>2, <2>3, <2>4, <2>5 DEF KnownInv, Known
  <1>9. OrderInv'
    <2>1. QueueOrder'
      BY <1>3, KeptFits
    <2>2. ASSUME NEW k \in 1 .. Len(outgoing'), NEW j \in 1 .. Len(queue')
          PROVE  Behind(outgoing'[k], queue'[j])
      <3>1. h[j] \in 1 .. Len(queue) /\ queue'[j] = queue[h[j]]
        BY <1>3
      <3>2. ASSUME queue'[j].to = outgoing'[k].to PROVE Earlier(queue'[j], outgoing'[k])
        <4>1. Ahead(queue[h[j]], queue[i])
          BY <1>3, <3>1 DEF DataInv, OrderInv, QueueOrder
        <4>2. queue'[j].to \in Subscribers
          BY <1>6, <3>2
        <4> QED
          BY <1>1, <1>5, <1>6, <3>1, <4>1, <4>2 DEF Ahead, Earlier
      <3>3. ASSUME Inbox(queue'[j]) PROVE Earlier(outgoing'[k], queue'[j])
        <4>1. i < h[j]
          BY <1>3, <3>3 DEF Inbox
        <4>2. InOrder(queue[i], queue[h[j]])
          BY <1>3, <3>1, <4>1 DEF DataInv, OrderInv, QueueOrder
        <4> QED
          BY <1>1, <1>3, <1>4, <1>6, <3>1, <3>3, <4>2 DEF InOrder, Earlier, Inbox
      <3> QED
        BY <3>2, <3>3 DEF Behind
    <2>3. OutgoingOrder'
      BY <1>4, <2>2 DEF OutgoingOrder, Fans
    <2>4. ASSUME NEW s \in Subscribers, NEW r \in 1 .. Len(received[s]), NEW k \in 1 .. Len(outgoing')
          PROVE  Before(s, received[s][r], outgoing'[k])
      <3>1. Before(s, received[s][r], queue[i])
        BY <1>3 DEF DataInv, OrderInv, ReceivedOrder
      <3> QED
        BY <1>1, <1>5, <1>6, <3>1 DEF Before
    <2>5. ReceivedOrder'
      BY <1>2, <1>3, <2>4, KeptFits DEF DataInv, OrderInv, ReceivedOrder
    <2> QED
      BY <2>1, <2>3, <2>5 DEF OrderInv
  <1>10. SinceInv'
    <2>1. ASSUME NEW k \in 1 .. Len(outgoing')
          PROVE  Asked(outgoing'[k].to, outgoing'[k].from, outgoing'[k].number)
      <3>1. Contains(subscriptions, [pid |-> outgoing'[k].to, topic |-> TopicOf[m.from]])
        BY <1>4, <1>5, <1>6 DEF ProperFor
      <3>2. Asked(outgoing'[k].to, m.from, queue[i].number)
        BY <1>1, <1>3, <1>4, <1>5, <1>6, <3>1, Zenon DEF DataInv, SinceInv
      <3> QED
        BY <1>1, <1>6, <3>2
    <2> QED
      BY ZenonT(40), <1>2, <1>3, <1>4, <2>1, KeptFits DEF DataInv, SinceInv, Asked
  <1> QED
    BY <1>7, <1>8, <1>9, <1>10 DEF DataInv

LEMMA ReceivesCommand ==
    ASSUME TypeInv, TypeInv', DataInv, NEW i, NEW h, Receives(i, h),
           SubscribeEffect(queue[i]) \/ UnsubscribeEffect(queue[i])
    PROVE  DataInv'
  <1>1. PICK m : m = queue[i]
    OBVIOUS
  <1>2. /\ Takes(Broker, i, h) /\ sent' = sent /\ received' = received /\ since' = since
        /\ outgoing' = <<>> /\ publishers' = publishers /\ Distinct(subscriptions')
    BY DEF Receives, ReceiveEffect, SubscribeEffect, UnsubscribeEffect
  <1>3. /\ Kept(h, queue, queue') /\ i \in 1 .. Len(queue) /\ m.to = Broker
        /\ \A j \in 1 .. Len(queue') :
              /\ h[j] \in 1 .. Len(queue) /\ queue'[j] = queue[h[j]] /\ h[j] # i
              /\ queue'[j].to = Broker => i < h[j]
    BY <1>1, <1>2, TakenFirst
  <1>4. \A k \in 1 .. Len(outgoing') : FALSE
    <2>1. Len(<<>>) = 0 /\ 1 .. 0 = {}
      OBVIOUS
    <2> QED
      BY <1>2, <2>1
  <1>5. ContentInv' /\ UniqueInv' /\ KnownInv'
    BY <1>2, <1>3, <1>4, KeptFits DEF DataInv, ContentInv, Proper, UniqueInv, KnownInv, Known
  <1>6. OrderInv'
    BY <1>2, <1>3, <1>4, KeptFits DEF DataInv, OrderInv, OutgoingOrder, ReceivedOrder
  <1>7. ASSUME NEW s \in Subscribers, NEW p \in Publishers,
               Contains(subscriptions', [pid |-> s, topic |-> TopicOf[p]])
        PROVE  /\ since[s][p] # Never
               /\ \A j \in 1 .. Len(queue') :
                     Inbox(queue'[j]) /\ queue'[j].from = p => Asked(s, p, queue'[j].number)
    <2>1. CASE Contains(subscriptions, [pid |-> s, topic |-> TopicOf[p]])
      <3>1. since[s][p] # Never
        BY <2>1 DEF DataInv, SinceInv
      <3> QED
        BY <1>3, <2>1, <3>1, KeptFits
    <2>2. CASE ~Contains(subscriptions, [pid |-> s, topic |-> TopicOf[p]])
      <3>1. /\ m.command = "subscribe"
            /\ [pid |-> s, topic |-> TopicOf[p]] = [pid |-> m.from, topic |-> m.topic]
        BY <1>1, <1>7, <2>2 DEF SubscribeEffect, UnsubscribeEffect
      <3>2. s = m.from /\ TopicOf[p] = m.topic
        BY <3>1
      <3>3. Command(queue[i], "subscribe", s, TopicOf[p])
        BY <1>1, <3>1, <3>2 DEF Command
      <3>4. /\ since[s][p] # Never
            /\ \A j \in 1 .. Len(queue) :
                  i < j /\ Inbox(queue[j]) /\ queue[j].from = p => Asked(s, p, queue[j].number)
        BY <1>3, <3>3, Zenon DEF DataInv, SinceInv
      <3>5. ASSUME NEW j \in 1 .. Len(queue'), Inbox(queue'[j]), queue'[j].from = p
            PROVE  Asked(s, p, queue'[j].number)
        <4>1. h[j] \in 1 .. Len(queue) /\ queue'[j] = queue[h[j]] /\ i < h[j]
          BY <1>3, <3>5 DEF Inbox
        <4>2. Inbox(queue[h[j]]) /\ queue[h[j]].from = p
          BY <3>5, <4>1
        <4>3. Asked(s, p, queue[h[j]].number)
          BY <3>4, <4>1, <4>2
        <4> QED
          BY <4>1, <4>3
      <3> QED
        BY <3>4, <3>5
    <2> QED
      BY <2>1, <2>2
  <1>8. SinceInv'
    BY <1>2, <1>3, <1>4, <1>7, KeptFits DEF DataInv, SinceInv, Asked
  <1> QED
    BY <1>5, <1>6, <1>8 DEF DataInv

LEMMA DataStepKeeps ==
    ASSUME TypeInv, StartInv, TypeInv', DataInv, [Next]_vars
    PROVE  DataInv'
  <1>1. DataStep
    BY EffectOfStep DEF DataInv
  <1>2. ASSUME NEW i, NEW h, Receives(i, h) PROVE DataInv'
    <2>1. SendEffect(queue[i]) \/ SubscribeEffect(queue[i]) \/ UnsubscribeEffect(queue[i])
      BY <1>2 DEF Receives, ReceiveEffect
    <2> QED
      BY <1>2, <2>1, ReceivesSend, ReceivesCommand
  <1>3. ASSUME NEW h, Forwards(h) PROVE DataInv'
    BY <1>3, ForwardsKeeps
  <1>4. ASSUME NEW h, Loses(h) PROVE DataInv'
    BY <1>4, LosesKeeps
  <1>5. ASSUME NEW s \in Subscribers, Asks(s) \/ TakesOneBack(s) PROVE DataInv'
    BY <1>5, CommandKeeps
  <1>6. ASSUME NEW s \in Subscribers, NEW i, NEW h, PrintsOnly(s, i, h) PROVE DataInv'
    BY <1>6, PrintsKeeps
  <1>7. ASSUME NEW p \in Publishers, SendsOnly(p) PROVE DataInv'
    BY <1>7, SendsKeeps
  <1> QED
    BY <1>1, <1>2, <1>3, <1>4, <1>5, <1>6, <1>7, StillKeeps, GivesUpKeeps DEF DataStep

-----------------------------------------------------------------------------
(* The processes.                                                          *)

Told == {"notify_subscribers", "drain", "stat", "remove", "exited"}

\* Apart from NotifyPublishers, a step moves one process at most: one that has not ended, and
\* not back to its start.
Moves(x, w) ==
    /\ pc' = [pc EXCEPT ![x] = w]
    /\ w # "start" /\ pc[x] \notin Ended
    /\ x = Broker /\ w \in Told => pc[Broker] \in Told
    /\ x = Broker /\ pc[Broker] \in Told => w \in Told
    /\ x = Broker /\ w \in Serving => pc[Broker] \in Serving \cup {"start"}
    /\ x = Broker /\ w \in Notifying => w = "notify_publishers" /\ pc[Broker] \in Serving
    /\ x \in Subscribers /\ pc[x] = "unsubscribe" => w \in {"unsubscribe", "exited", "killed"}

LEMMA MoveOfStep ==
    ASSUME TypeInv, [Next]_vars
    PROVE  \/ UNCHANGED pc
           \/ \E x \in Procs : \E w : Moves(x, w)
           \/ NotifyPublishers
  <1>0. Broker \in Procs /\ Broker \notin Publishers /\ Broker \notin Subscribers
    BY Different
  <1>1. CASE BrokerStep /\ ~NotifyPublishers
    <2>1. CASE StartBroker \/ CheckBroker
      <3>1. PICK w \in {"check", "notify_publishers", "receive"} :
               /\ pc' = [pc EXCEPT ![Broker] = w]
               /\ \/ pc[Broker] = "start" /\ w = "check"
                  \/ pc[Broker] = "check"
        BY <2>1 DEF StartBroker, CheckBroker, Goto
      <3>2. Moves(Broker, w)
        BY <1>0, <3>1 DEF Moves, Told, Serving, Notifying, Ended
      <3> QED
        BY <1>0, <3>2
    <2>2. CASE BrokerReceive
      <3>1. PICK w \in {"check", "forward"} : pc' = [pc EXCEPT ![Broker] = w]
        <4>1. PICK i \in DOMAIN queue : \/ ReceiveSend(queue[i]) \/ ReceiveSubscribe(queue[i])
                                        \/ ReceiveUnsubscribe(queue[i])
          BY <2>2 DEF BrokerReceive
        <4>2. ASSUME ReceiveSend(queue[i])
              PROVE  \E w \in {"check", "forward"} : Goto(Broker, w)
          <5>1. PICK r : r = Interested(queue[i].topic)
            OBVIOUS
          <5>2. Goto(Broker, IF r = <<>> THEN "check" ELSE "forward")
            BY <4>2, <5>1 DEF ReceiveSend
          <5> QED
            BY <5>2
        <4>3. \E w \in {"check", "forward"} : Goto(Broker, w)
          BY <4>1, <4>2 DEF ReceiveSubscribe, ReceiveUnsubscribe
        <4> QED
          BY <4>3 DEF Goto
      <3>2. Moves(Broker, w)
        BY <2>2, <3>1 DEF Moves, BrokerReceive, Told, Serving, Notifying, Ended
      <3> QED
        BY <1>0, <3>2
    <2>3. CASE BrokerReceiveFails \/ Forward \/ ForwardFails
      <3>1. PICK w \in {"check", "forward", "notify_publishers"} : pc' = [pc EXCEPT ![Broker] = w]
        BY <2>3 DEF BrokerReceiveFails, Forward, ForwardFails, AfterInterruptedSend, Goto
      <3>2. Moves(Broker, w)
        BY <2>3, <3>1 DEF Moves, BrokerReceiveFails, Forward, ForwardFails, Told, Serving, Notifying, Ended
      <3> QED
        BY <1>0, <3>2
    <2>4. CASE NotifySubscribers \/ Drain \/ DrainAgain \/ RemoveQueue
      <3>1. CASE UNCHANGED pc
        BY <3>1
      <3>2. CASE ~UNCHANGED pc
        <4>1. PICK w \in {"drain", "remove", "stat", "exited"} : pc' = [pc EXCEPT ![Broker] = w]
          BY <2>4, <3>2 DEF NotifySubscribers, Drain, DrainAgain, RemoveQueue, Goto
        <4>2. Moves(Broker, w)
          BY <2>4, <4>1 DEF Moves, NotifySubscribers, Drain, DrainAgain, RemoveQueue, Told, Serving, Notifying, Ended
        <4> QED
          BY <1>0, <4>2
      <3> QED
        BY <3>1, <3>2
    <2> QED
      BY <1>1, <2>1, <2>2, <2>3, <2>4 DEF BrokerStep
  <1>2. ASSUME NEW s \in Subscribers, StartSubscriber(s) \/ SubscriberStep(s)
        PROVE  \E w : Moves(s, w)
    <2>1. \E w \in {"subscribe", "exited", "check", "unsubscribe", "receive"} : pc' = [pc EXCEPT ![s] = w]
      <3>1. CASE StartSubscriber(s) \/ Subscribe(s) \/ SubscriberReceive(s)
        BY <3>1 DEF StartSubscriber, Subscribe, SubscriberReceive, Goto
      <3>2. CASE SubscribeFails(s) \/ CheckSubscriber(s) \/ SubscriberReceiveFails(s)
        BY <3>2 DEF SubscribeFails, CheckSubscriber, SubscriberReceiveFails, StartUnsubscribing, Goto
      <3>3. CASE Unsubscribe(s) \/ UnsubscribeFails(s)
        BY <3>3 DEF Unsubscribe, UnsubscribeFails, NextTopic, Goto
      <3> QED
        BY <1>2, <3>1, <3>2, <3>3 DEF SubscriberStep
    <2>2. PICK w \in {"subscribe", "exited", "check", "unsubscribe", "receive"} : pc' = [pc EXCEPT ![s] = w]
      BY <2>1
    <2>3. pc[s] \notin Ended
      BY <1>2 DEF SubscriberStep, StartSubscriber, Subscribe, SubscriberReceive, SubscribeFails,
                  CheckSubscriber, SubscriberReceiveFails, Unsubscribe, UnsubscribeFails, Ended
    <2>4. pc[s] = "unsubscribe" => w \in {"unsubscribe", "exited"}
      <3>0. CASE Unsubscribe(s) \/ UnsubscribeFails(s)
        <4>1. s \in Procs /\ pc \in [Procs -> AllStages]
          BY Different DEF TypeInv, PcTyped, AllStages
        <4>2. pc'[s] \in {"unsubscribe", "exited"}
          BY <3>0, <4>1 DEF Unsubscribe, UnsubscribeFails, NextTopic, Goto
        <4> QED
          BY <2>2, <4>1, <4>2
      <3> QED
        BY <1>2, <3>0 DEF SubscriberStep, StartSubscriber, Subscribe, SubscriberReceive,
              SubscribeFails, CheckSubscriber, SubscriberReceiveFails
    <2>5. Moves(s, w)
      BY <1>0, <2>2, <2>3, <2>4 DEF Moves
    <2> QED
      BY <2>5
  <1>3. ASSUME NEW p \in Publishers,
               StartPublisher(p) \/ ReadInput(p) \/ NoticeRemoval(p) \/ Send(p)
        PROVE  \E w : Moves(p, w)
    <2>1. PICK w \in {"poll", "exited", "send"} : pc' = [pc EXCEPT ![p] = w]
      BY <1>3 DEF StartPublisher, ReadInput, NoticeRemoval, Send, Goto
    <2>2. pc[p] \notin Ended
      BY <1>3 DEF StartPublisher, ReadInput, NoticeRemoval, Send, Ended
    <2>3. Moves(p, w)
      BY <1>0, <2>1, <2>2, Different DEF Moves
    <2> QED
      BY <2>3
  <1>4. ASSUME NEW p \in Procs, Sleep(p) \/ Interrupt(p) \/ Kill(p)
        PROVE  UNCHANGED pc \/ \E w : Moves(p, w)
    <2>1. CASE Sleep(p) \/ Interrupt(p)
      BY <2>1 DEF Sleep, Interrupt
    <2>2. CASE Kill(p)
      <3>1. Moves(p, "killed")
        BY <1>0, <2>2 DEF Moves, Kill, Goto, Running, Clients
      <3> QED
        BY <3>1
    <2> QED
      BY <1>4, <2>1, <2>2
  <1>5. \A s \in Subscribers : s \in Procs
    BY Different
  <1>6. \A p \in Publishers : p \in Procs
    BY Different
  <1>7. CASE RemovedByOther \/ AllGone \/ UNCHANGED vars
    BY <1>7 DEF RemovedByOther, AllGone, vars
  <1> QED
    BY <1>1, <1>2, <1>3, <1>4, <1>5, <1>6, <1>7 DEF Next

\* The publications are counted and the list grows only while their processes are at work.
LEMMA CountOfStep ==
    ASSUME TypeInv, StartInv, ContentInv, UniqueInv, [Next]_vars
    PROVE  /\ \A p \in Publishers : sent'[p] # sent[p] => pc[p] = "send"
           /\ publishers' # publishers => pc[Broker] = "receive"
  <1>0. DataStep
    BY EffectOfStep
  <1>1. ASSUME NEW p \in Publishers, SendsOnly(p), NEW z \in Publishers, sent'[z] # sent[z]
        PROVE  z = p
    BY <1>1 DEF SendsOnly, Sends, TypeInv, DataTyped
  <1>2. ASSUME NEW p \in Publishers, SendsOnly(p)
        PROVE  publishers' = publishers
    BY <1>2 DEF SendsOnly
  <1>3. CASE \/ DataStill \/ GivesUp
             \/ \E h : Forwards(h) \/ Loses(h)
             \/ \E s \in Subscribers : Asks(s) \/ TakesOneBack(s) \/ \E i, h : PrintsOnly(s, i, h)
    <2>1. sent' = sent /\ publishers' = publishers
      BY <1>3 DEF DataStill, GivesUp, Forwards, Loses, Asks, TakesOneBack, PrintsOnly
    <2> QED
      BY <2>1
  <1>4. CASE \E i, h : Receives(i, h)
    <2>1. sent' = sent /\ pc[Broker] = "receive"
      BY <1>4 DEF Receives, ReceiveEffect
    <2> QED
      BY <2>1
  <1>5. ASSUME NEW p \in Publishers, SendsOnly(p) PROVE pc[p] = "send"
    <2>1. sent'[p] # sent[p]
      <3>1. sent[p] \in Nat /\ sent'[p] = sent[p] + 1
        BY <1>5, BoundsAssumption DEF SendsOnly, Sends, TypeInv, DataTyped
      <3> QED
        BY <3>1
    <2>2. sent' # sent
      BY <2>1
    <2>3. PICK z \in Publishers : Send(z)
      BY <2>2 DEF Next, BrokerStep, StartBroker, CheckBroker, BrokerReceive, BrokerReceiveFails,
         Forward, ForwardFails, NotifyPublishers, NotifySubscribers, Drain, DrainAgain, RemoveQueue,
         StartSubscriber, SubscriberStep, Subscribe, SubscribeFails, CheckSubscriber,
         SubscriberReceive, SubscriberReceiveFails, Unsubscribe, UnsubscribeFails,
         StartPublisher, ReadInput, NoticeRemoval, Sleep, Interrupt, Kill, RemovedByOther,
         AllGone, vars
    <2>4. Sends(z)
      BY <2>2, <2>3, SendEffects
    <2>5. z = p
      BY <2>1, <2>4 DEF Sends, TypeInv, DataTyped
    <2> QED
      BY <2>3, <2>5 DEF Send
  <1> QED
    BY <1>0, <1>1, <1>2, <1>3, <1>4, <1>5 DEF DataStep

LEMMA ToldStep ==
    ASSUME TypeInv, StartInv, DataInv, ToldInv, [Next]_vars
    PROVE  ToldInv'
  <1>0. pc \in [Procs -> AllStages]
    BY DEF TypeInv, PcTyped, AllStages
  <1>1. /\ \A p \in Publishers : sent'[p] # sent[p] => pc[p] = "send"
        /\ publishers' # publishers => pc[Broker] = "receive"
    BY CountOfStep DEF DataInv
  <1>2. CASE NotifyPublishers
    <2>1. pc[Broker] = "notify_publishers" /\ publishers' = publishers /\ sent' = sent
      BY <1>2 DEF NotifyPublishers, lists
    <2>2. \A p \in Publishers :
             pc'[p] = IF Known(p) /\ Running(p) THEN "killed" ELSE pc[p]
      BY <1>2, Different DEF NotifyPublishers, Known
    <2>3. ASSUME NEW p \in Publishers, Known(p) PROVE pc'[p] \in Ended
      <3>1. sent[p] >= 1
        BY <2>3 DEF DataInv, KnownInv
      <3>2. pc[p] # "start"
        <4>1. ~(0 >= 1)
          OBVIOUS
        <4> QED
          BY <3>1, <4>1 DEF ToldInv
      <3> QED
        BY <2>2, <2>3, <3>2 DEF Running, Ended
    <2>4. \A p \in Publishers : pc'[p] = "start" => pc[p] = "start"
      BY <2>2
    <2> QED
      BY <2>1, <2>3, <2>4 DEF ToldInv, Known
  <1>3. ASSUME NEW x \in Procs, NEW w, Moves(x, w) PROVE ToldInv'
    <2>1. \A p \in Procs : pc'[p] = IF p = x THEN w ELSE pc[p]
      BY <1>0, <1>3 DEF Moves
    <2>2. ASSUME NEW p \in Publishers, pc'[p] = "start" PROVE sent'[p] = 0
      <3>1. pc[p] = "start"
        BY <1>3, <2>1, <2>2, Different DEF Moves
      <3> QED
        BY <1>1, <3>1 DEF ToldInv
    <2>3. ASSUME pc'[Broker] \in Told
          PROVE  pc[Broker] \in Told /\ publishers' = publishers
      <3>1. pc[Broker] \in Told
        BY <1>3, <2>1, <2>3, Different DEF Moves
      <3> QED
        BY <1>1, <3>1 DEF Told
    <2>4. \A p \in Publishers : pc[p] \in Ended => pc'[p] \in Ended
      BY <1>3, <2>1, Different DEF Moves
    <2> QED
      BY <2>2, <2>3, <2>4 DEF ToldInv, Told, Known
  <1>4. CASE UNCHANGED pc
    <2>1. \A p \in Publishers : pc[p] = "start" => sent'[p] = sent[p]
      BY <1>1
    <2>2. pc[Broker] \in Told => publishers' = publishers
      BY <1>1 DEF Told
    <2> QED
      BY <1>4, <2>1, <2>2 DEF ToldInv, Told, Known
  <1> QED
    BY <1>2, <1>3, <1>4, MoveOfStep

LEMMA DataStart == Init => DataInv /\ ToldInv /\ CoverInv
  <1> SUFFICES ASSUME Init PROVE DataInv /\ ToldInv /\ CoverInv
    OBVIOUS
  <1>0. Len(<<>>) = 0 /\ 1 .. 0 = {}
    OBVIOUS
  <1>1. /\ queue = <<>> /\ outgoing = <<>> /\ publishers = <<>> /\ subscriptions = <<>>
        /\ \A s \in Subscribers : received[s] = <<>>
        /\ \A p \in Publishers : sent[p] = 0 /\ \A s \in Subscribers : since[s][p] = Never
        /\ pc[Broker] = "start"
    BY Different DEF Init
  <1>2. /\ \A i \in 1 .. Len(queue) : FALSE
        /\ \A k \in 1 .. Len(outgoing) : FALSE
        /\ \A s \in Subscribers : \A r \in 1 .. Len(received[s]) : FALSE
        /\ \A x : ~Contains(publishers, x) /\ ~Contains(subscriptions, x)
        /\ \A i \in 1 .. Len(subscriptions) : FALSE
    BY <1>0, <1>1 DEF Contains
  <1>3. ContentInv /\ UniqueInv /\ KnownInv
    BY <1>2 DEF ContentInv, UniqueInv, Distinct, KnownInv, Known
  <1>4. OrderInv
    BY <1>2 DEF OrderInv, QueueOrder, OutgoingOrder, ReceivedOrder
  <1>5. SinceInv
    <2>1. \A s \in Subscribers, p \in Publishers : since[s][p] <= sent[p]
      BY <1>1 DEF Never
    <2> QED
      BY <1>2, <2>1 DEF SinceInv
  <1>6. ToldInv
    BY <1>1, <1>2 DEF ToldInv, Known
  <1>7. ServedInv /\ NotifiedInv /\ FreshInv /\ LeftInv
    BY <1>1, <1>2 DEF ServedInv, NotifiedInv, FreshInv, LeftInv, Serving, Notifying
  <1>8. GaplessInv
    BY <1>2 DEF GaplessInv, Printed
  <1> QED
    BY <1>3, <1>4, <1>5, <1>6, <1>7, <1>8 DEF DataInv, CoverInv

-----------------------------------------------------------------------------
(* No publication is missed.                                               *)

\* Where the processes are, before and after a step.
LEMMA StagesOfStep ==
    ASSUME TypeInv, [Next]_vars
    PROVE  /\ pc'[Broker] \in Serving => pc[Broker] \in Serving \cup {"start"}
           /\ pc'[Broker] \in Notifying => pc[Broker] \in Serving \cup Notifying
           /\ pc'[Broker] = "start" => pc[Broker] = "start"
           /\ \A s \in Subscribers :
                 /\ Listening(s)' => Listening(s) \/ pc[s] = "start"
                 /\ pc'[s] = "start" => pc[s] = "start"
                 /\ pc'[s] \notin {"unsubscribe", "exited", "killed"}
                       => pc[s] \notin {"unsubscribe", "exited", "killed"}
  <1>0. /\ pc \in [Procs -> AllStages] /\ Broker \in Procs
        /\ \A s \in Subscribers : s \in Procs /\ s # Broker
                                  /\ pc[s] \in {"start", "subscribe", "check", "receive", "unsubscribe",
                                                "exited", "killed"}
    BY Different DEF TypeInv, PcTyped, AllStages, SubscriberStages, Ended
  <1>1. CASE UNCHANGED pc
    BY <1>1 DEF Listening
  <1>2. CASE NotifyPublishers
    <2>1. /\ pc[Broker] = "notify_publishers" /\ pc'[Broker] = "notify_subscribers"
          /\ \A s \in Subscribers : pc'[s] = pc[s] \/ pc'[s] = "killed"
      BY <1>0, <1>2 DEF NotifyPublishers
    <2> QED
      BY <2>1 DEF Listening, Serving, Notifying
  <1>3. ASSUME NEW x \in Procs, NEW w, Moves(x, w)
        PROVE  /\ pc'[Broker] \in Serving => pc[Broker] \in Serving \cup {"start"}
               /\ pc'[Broker] \in Notifying => pc[Broker] \in Serving \cup Notifying
               /\ pc'[Broker] = "start" => pc[Broker] = "start"
    <2>1. pc'[Broker] = IF x = Broker THEN w ELSE pc[Broker]
      BY <1>0, <1>3 DEF Moves
    <2> QED
      BY <1>3, <2>1 DEF Moves
  <1>4. ASSUME NEW x \in Procs, NEW w, Moves(x, w), NEW s \in Subscribers
        PROVE  /\ Listening(s)' => Listening(s) \/ pc[s] = "start"
               /\ pc'[s] = "start" => pc[s] = "start"
               /\ pc'[s] \notin {"unsubscribe", "exited", "killed"}
                     => pc[s] \notin {"unsubscribe", "exited", "killed"}
    <2>1. pc'[s] = IF x = s THEN w ELSE pc[s]
      BY <1>0, <1>4 DEF Moves
    <2>2. CASE x # s
      BY <2>1, <2>2 DEF Listening
    <2>3. CASE x = s
      <3>1. /\ pc'[s] = w /\ w # "start" /\ pc[s] \notin {"exited", "killed"}
            /\ pc[s] = "unsubscribe" => w \in {"unsubscribe", "exited", "killed"}
        BY <1>4, <2>1, <2>3 DEF Moves, Ended
      <3> QED
        BY <1>0, <3>1 DEF Listening
    <2> QED
      BY <2>2, <2>3
  <1> QED
    BY <1>1, <1>2, <1>3, <1>4, MoveOfStep

LEMMA ExistsOfStep ==
    ASSUME TypeInv, [Next]_vars, exists' = "there"
    PROVE  exists = "there" \/ pc[Broker] = "start"
  BY DEF Next, BrokerStep, StartBroker, CheckBroker, BrokerReceive, BrokerReceiveFails,
     Forward, ForwardFails, NotifyPublishers, NotifySubscribers, Drain, DrainAgain, RemoveQueue,
     AfterRemoval, StartSubscriber, SubscriberStep, Subscribe, SubscribeFails, CheckSubscriber,
     SubscriberReceive, SubscriberReceiveFails, Unsubscribe, UnsubscribeFails,
     StartPublisher, ReadInput, NoticeRemoval, Send, Sleep, Interrupt, Kill, RemovedByOther,
     AllGone, vars

\* What the stations hold after a step.
LEMMA QueuedAppends ==
    ASSUME TypeInv, NEW m, Appends(m), NEW to, NEW p, NEW n
    PROVE  Queued(to, p, n)' <=>
              Queued(to, p, n) \/ (m.to = to /\ m.command = "send" /\ m.from = p /\ m.number = n)
  <1>1. ASSUME Queued(to, p, n)' PROVE Queued(to, p, n) \/ (m.to = to /\ m.command = "send" /\ m.from = p /\ m.number = n)
    BY <1>1, AppendedElements DEF Queued
  <1>2. ASSUME Queued(to, p, n) PROVE Queued(to, p, n)'
    BY <1>2, AppendedElements DEF Queued
  <1>3. ASSUME m.to = to, m.command = "send", m.from = p, m.number = n PROVE Queued(to, p, n)'
    BY <1>3, AppendedElements DEF Queued
  <1> QED
    BY <1>1, <1>2, <1>3

LEMMA QueuedTakes ==
    ASSUME TypeInv, NEW x, NEW i, NEW h, Takes(x, i, h), NEW to, NEW p, NEW n
    PROVE  /\ Queued(to, p, n)' => Queued(to, p, n)
           /\ Queued(to, p, n) =>
                 \/ Queued(to, p, n)'
                 \/ x = to /\ queue[i].command = "send" /\ queue[i].from = p /\ queue[i].number = n
  <1>1. ASSUME NEW j \in 1 .. Len(queue')
        PROVE  h[j] \in 1 .. Len(queue) /\ queue'[j] = queue[h[j]]
    BY TakenFirst
  <1>2. ASSUME Queued(to, p, n)' PROVE Queued(to, p, n)
    BY <1>1, <1>2 DEF Queued
  <1>3. ASSUME NEW k \in 1 .. Len(queue), queue[k].to = to, queue[k].command = "send",
               queue[k].from = p, queue[k].number = n, k # i
        PROVE  Queued(to, p, n)'
    <2>1. PICK j \in 1 .. Len(queue') : h[j] = k
      BY <1>3 DEF Takes, Without
    <2>2. queue'[j] = queue[k]
      BY <1>1, <2>1
    <2> QED
      BY <1>3, <2>2 DEF Queued
  <1>4. ASSUME Queued(to, p, n), ~Queued(to, p, n)'
        PROVE  x = to /\ queue[i].command = "send" /\ queue[i].from = p /\ queue[i].number = n
    <2>1. PICK k \in 1 .. Len(queue) : queue[k].to = to /\ queue[k].command = "send"
                                       /\ queue[k].from = p /\ queue[k].number = n
      BY <1>4 DEF Queued
    <2>2. k = i /\ queue[i].to = x
      BY <1>3, <1>4, <2>1 DEF Takes
    <2> QED
      BY <2>1, <2>2
  <1> QED
    BY <1>2, <1>4

LEMMA GoingForwards ==
    ASSUME TypeInv, NEW h, Forwards(h), NEW s, NEW p, NEW n, Going(s, p, n)
    PROVE  \/ Going(s, p, n)'
           \/ outgoing[1].to = s /\ outgoing[1].from = p /\ outgoing[1].number = n
  <1>1. PICK k \in 1 .. Len(outgoing) :
           outgoing[k].to = s /\ outgoing[k].from = p /\ outgoing[k].number = n
    BY DEF Going
  <1>2. CASE k = 1
    BY <1>1, <1>2
  <1>3. CASE k # 1
    <2>1. PICK j \in 1 .. Len(outgoing') : h[j] = k
      BY <1>3 DEF Forwards, Without
    <2>2. outgoing'[j] = outgoing[k]
      BY <2>1 DEF Forwards, Without, Kept
    <2> QED
      BY <1>1, <2>2 DEF Going
  <1> QED
    BY <1>2, <1>3

LEMMA PrintedPrints ==
    ASSUME TypeInv, ContentInv, NEW s \in Subscribers, NEW i, NEW h, PrintsOnly(s, i, h),
           NEW z \in Subscribers, NEW p, NEW n
    PROVE  Printed(z, p, n)' <=>
              Printed(z, p, n) \/ (z = s /\ queue[i].from = p /\ queue[i].number = n)
  <1>1. PICK m : m = queue[i]
    OBVIOUS
  <1>2. PICK e : e = <<m.from, m.number>>
    OBVIOUS
  <1>3. PICK k \in Nat : k = Len(received[s])
    BY LenProperties DEF TypeInv, DataTyped
  <1>4. /\ Len(received'[s]) = k + 1 /\ received'[s][k + 1] = e
        /\ \A r \in 1 .. k : received'[s][r] = received[s][r]
        /\ \A y \in Subscribers : y # s => received'[y] = received[y]
    <2>1. PICK old \in Seq(Publishers \X (1 .. MaxPublications)) : old = received[s]
      BY DEF TypeInv, DataTyped
    <2>2. e \in Publishers \X (1 .. MaxPublications)
      <3>1. /\ i \in 1 .. Len(queue) /\ m.from \in Publishers
            /\ 1 <= m.number /\ m.number <= sent[m.from]
        BY <1>1 DEF PrintsOnly, Prints, Takes
      <3>2. sent[m.from] \in 0 .. MaxPublications /\ m \in Message
        BY <1>1, <3>1, ElementOfSeq DEF TypeInv, DataTyped
      <3>3. m.number \in 1 .. MaxPublications
        BY <3>1, <3>2, BoundsAssumption DEF Message
      <3> QED
        BY <1>2, <3>1, <3>3
    <2>3. PICK new : new = Append(old, e)
      OBVIOUS
    <2>4. Len(new) = k + 1 /\ new[k + 1] = e /\ \A r \in 1 .. k : new[r] = old[r]
      BY <1>3, <2>1, <2>2, <2>3
    <2>5. received \in [Subscribers -> Seq(Publishers \X (1 .. MaxPublications))]
      BY DEF TypeInv, DataTyped
    <2>6. received' = [received EXCEPT ![s] = new]
      BY <1>1, <1>2, <2>1, <2>3 DEF PrintsOnly, Prints
    <2>7. received'[s] = new /\ \A y \in Subscribers : y # s => received'[y] = received[y]
      BY <2>5, <2>6
    <2> QED
      BY <2>1, <2>4, <2>7
  <1>5. PICK f : f = <<p, n>>
    OBVIOUS
  <1>6. f = e <=> m.from = p /\ m.number = n
    BY <1>2, <1>5
  <1>7. (\E r \in 1 .. Len(received'[z]) : received'[z][r] = f) <=>
           (\E r \in 1 .. Len(received[z]) : received[z][r] = f) \/ (z = s /\ f = e)
    <2>1. CASE z # s
      BY <1>4, <2>1
    <2>2. CASE z = s
      BY <1>3, <1>4, <2>2
    <2> QED
      BY <2>1, <2>2
  <1> QED
    BY <1>1, <1>5, <1>6, <1>7 DEF Printed

\* A command on its way to the broker still is in time after a step.
LEMMA ComingAppends ==
    ASSUME TypeInv, NEW m, Appends(m), NEW s \in Subscribers, NEW p \in Publishers,
           since'[s][p] = since[s][p], Coming(s, p)
    PROVE  Coming(s, p)'
  <1>1. PICK i \in 1 .. Len(queue) :
           /\ Command(queue[i], "subscribe", s, TopicOf[p])
           /\ \A j \in 1 .. i - 1 :
                 Inbox(queue[j]) /\ queue[j].from = p => queue[j].number <= since[s][p]
    BY DEF Coming
  <1>2. i \in 1 .. Len(queue') /\ queue'[i] = queue[i] /\ Len(queue) \in Nat
    BY AppendedElements
  <1>3. ASSUME NEW j \in 1 .. i - 1 PROVE queue'[j] = queue[j]
    <2>1. j \in 1 .. Len(queue)
      BY <1>2
    <2> QED
      BY <2>1, AppendedElements
  <1> QED
    BY <1>1, <1>2, <1>3 DEF Coming

LEMMA ComingTakes ==
    ASSUME TypeInv, NEW x, NEW i, NEW h, Takes(x, i, h),
           NEW s \in Subscribers, NEW p \in Publishers,
           since'[s][p] = since[s][p], Coming(s, p)
    PROVE  Coming(s, p)' \/ Command(queue[i], "subscribe", s, TopicOf[p])
  <1>1. PICK k \in 1 .. Len(queue) :
           /\ Command(queue[k], "subscribe", s, TopicOf[p])
           /\ \A j \in 1 .. k - 1 :
                 Inbox(queue[j]) /\ queue[j].from = p => queue[j].number <= since[s][p]
    BY DEF Coming
  <1>2. CASE k = i
    BY <1>1, <1>2
  <1>3. CASE k # i
    <2>1. PICK l \in 1 .. Len(queue') : h[l] = k
      BY <1>3 DEF Takes, Without
    <2>2. queue'[l] = queue[k]
      BY <2>1, TakenFirst
    <2>3. ASSUME NEW j \in 1 .. l - 1
          PROVE  Inbox(queue'[j]) /\ queue'[j].from = p => queue'[j].number <= since[s][p]
      <3>0. Len(queue') \in Nat /\ Len(queue) \in Nat
        BY LenProperties DEF TypeInv, DataTyped, Takes
      <3>1. j \in 1 .. Len(queue') /\ j < l
        BY <3>0
      <3>2. h[j] \in 1 .. Len(queue) /\ queue'[j] = queue[h[j]]
        BY <3>1, TakenFirst
      <3>3. h[j] < k
        BY <2>1, <3>1 DEF Takes, Without, Kept
      <3>4. h[j] \in 1 .. k - 1
        BY <3>0, <3>2, <3>3
      <3> QED
        BY <1>1, <3>2, <3>4
    <2> QED
      BY <1>1, <2>2, <2>3 DEF Coming
  <1> QED
    BY <1>2, <1>3

\* What is due to s and not yet forwarded when the broker reads the i-th message has been sent
\* after the command of s has reached the broker.
LEMMA DueIsSubscribed ==
    ASSUME TypeInv, ContentInv, NEW i, NEW h, Takes(Broker, i, h), Inbox(queue[i]),
           NEW s \in Subscribers, NEW p \in Publishers, Expected(s, p),
           queue[i].from = p, queue[i].number > since[s][p]
    PROVE  Contains(subscriptions, [pid |-> s, topic |-> TopicOf[p]])
  <1> SUFFICES ASSUME Coming(s, p) PROVE FALSE
    BY DEF Expected
  <1>1. PICK k \in 1 .. Len(queue) :
           /\ Command(queue[k], "subscribe", s, TopicOf[p])
           /\ \A j \in 1 .. k - 1 :
                 Inbox(queue[j]) /\ queue[j].from = p => queue[j].number <= since[s][p]
    BY DEF Coming
  <1>2. Len(queue) \in Nat /\ i \in 1 .. Len(queue)
    BY LenProperties DEF TypeInv, DataTyped, Takes
  <1>3. queue[k].to = Broker
    BY <1>1 DEF ContentInv, Proper, ProperFor, Command
  <1>4. k # i
    BY <1>1 DEF Command, Inbox
  <1>5. ~(k \in 1 .. i - 1)
    BY <1>3 DEF Takes
  <1>6. i \in 1 .. k - 1
    BY <1>2, <1>4, <1>5
  <1>7. queue[i].number <= since[s][p]
    BY <1>1, <1>6
  <1>8. queue[i] \in Message /\ since[s][p] \in -1 .. MaxPublications
    BY <1>2, ElementOfSeq DEF TypeInv, DataTyped
  <1>9. queue[i].number \in Nat /\ since[s][p] \in Int
    BY <1>8, BoundsAssumption DEF Message
  <1> QED
    BY <1>7, <1>9

LEMMA QueuedGapless ==
    ASSUME TypeInv, DataInv, ServedInv, NotifiedInv, pc[Broker] \in Serving \cup Notifying,
           exists = "there", NEW s \in Subscribers, Listening(s), NEW p \in Publishers
    PROVE  Gapless(s, p)
  <1>1. CASE pc[Broker] \in Notifying
    BY <1>1 DEF NotifiedInv, Gapless
  <1>2. CASE pc[Broker] \in Serving
    <2> SUFFICES ASSUME NEW n \in Nat, NEW m \in Nat, Asked(s, p, m), m < n, Queued(s, p, n)
                 PROVE  Printed(s, p, m) \/ Queued(s, p, m)
      BY DEF Gapless
    <2>1. PICK i \in 1 .. Len(queue) :
             queue[i].to = s /\ queue[i].command = "send" /\ queue[i].from = p /\ queue[i].number = n
      BY DEF Queued
    <2>2. n <= sent[p]
      BY <2>1, NumbersSent DEF DataInv
    <2>3. sent[p] \in Int /\ since[s][p] \in Int
      BY BoundsAssumption DEF TypeInv, DataTyped
    <2>4. since[s][p] # Never /\ m \in since[s][p] + 1 .. sent[p]
      BY <2>2, <2>3 DEF Asked
    <2>5. Printed(s, p, m) \/ Queued(s, p, m) \/ Going(s, p, m) \/ Queued(Broker, p, m)
      BY <1>2, <2>4 DEF ServedInv, Covered
    <2>6. ~(n < m)
      OBVIOUS
    <2>7. ~Going(s, p, m)
      <3> SUFFICES ASSUME NEW k \in 1 .. Len(outgoing), outgoing[k].to = s, outgoing[k].from = p,
                          outgoing[k].number = m
                   PROVE  FALSE
        BY DEF Going
      <3>1. Behind(outgoing[k], queue[i])
        BY DEF DataInv, OrderInv, OutgoingOrder
      <3> QED
        BY <2>1, <2>6, <3>1 DEF Behind, Earlier
    <2>8. ~Queued(Broker, p, m)
      <3> SUFFICES ASSUME NEW j \in 1 .. Len(queue), queue[j].to = Broker, queue[j].command = "send",
                          queue[j].from = p, queue[j].number = m
                   PROVE  FALSE
        BY DEF Queued
      <3>1. Ahead(queue[i], queue[j])
        BY DEF DataInv, OrderInv, QueueOrder
      <3> QED
        BY <2>1, <2>6, <3>1 DEF Ahead, Earlier, Inbox
    <2> QED
      BY <2>5, <2>7, <2>8
  <1> QED
    BY <1>1, <1>2

\* Every step of a broker that serves keeps what is due to a subscriber on its way.
LEMMA AppendedDue ==
    ASSUME TypeInv, TypeInv', DataInv, NEW m, Appends(m), NEW s \in Subscribers, NEW p \in Publishers,
           Expected(s, p), Covered(s, p), received' = received, subscriptions' = subscriptions,
           since'[s][p] = since[s][p],
           outgoing' = outgoing,
           sent'[p] = sent[p] \/ (/\ sent'[p] = sent[p] + 1 /\ m.to = Broker /\ m.command = "send"
                                  /\ m.from = p /\ m.number = sent[p] + 1)
    PROVE  Expected(s, p)' /\ Covered(s, p)'
  <1>1. Expected(s, p)'
    BY ComingAppends DEF Expected
  <1>2. ASSUME NEW n \in since[s][p] + 1 .. sent'[p]
        PROVE  Printed(s, p, n)' \/ Queued(s, p, n)' \/ Going(s, p, n)' \/ Queued(Broker, p, n)'
    <2>1. CASE n \in since[s][p] + 1 .. sent[p]
      <3>1. Printed(s, p, n) \/ Queued(s, p, n) \/ Going(s, p, n) \/ Queued(Broker, p, n)
        BY <2>1 DEF Covered
      <3>2. CASE Queued(s, p, n) \/ Queued(Broker, p, n)
        BY <3>2, QueuedAppends
      <3>3. CASE Printed(s, p, n) \/ Going(s, p, n)
        BY <3>3 DEF Printed, Going
      <3> QED
        BY <3>1, <3>2, <3>3
    <2>2. CASE ~(n \in since[s][p] + 1 .. sent[p])
      <3>1. sent[p] \in Int /\ since[s][p] \in Int /\ sent'[p] \in Int
        BY BoundsAssumption DEF TypeInv, DataTyped
      <3>2. sent'[p] = sent[p] + 1 /\ n = sent[p] + 1
        BY <1>2, <2>2, <3>1
      <3>3. m.to = Broker /\ m.command = "send" /\ m.from = p /\ m.number = n
        BY <3>1, <3>2
      <3> QED
        BY <3>3, QueuedAppends
    <2> QED
      BY <2>1, <2>2
  <1> QED
    BY <1>1, <1>2 DEF Covered

LEMMA ForwardsDue ==
    ASSUME TypeInv, DataInv, NEW h, Forwards(h), NEW s \in Subscribers, NEW p \in Publishers,
           Expected(s, p), Covered(s, p)
    PROVE  Expected(s, p)' /\ Covered(s, p)'
  <1>1. /\ Appends(outgoing[1]) /\ 1 \in 1 .. Len(outgoing)
        /\ UNCHANGED <<subscriptions, sent, received, since>>
    BY DEF Forwards
  <1>2. Expected(s, p)'
    BY <1>1, ComingAppends DEF Expected
  <1>3. ASSUME NEW n \in since[s][p] + 1 .. sent[p]
        PROVE  Printed(s, p, n)' \/ Queued(s, p, n)' \/ Going(s, p, n)' \/ Queued(Broker, p, n)'
    <2>1. Printed(s, p, n) \/ Queued(s, p, n) \/ Going(s, p, n) \/ Queued(Broker, p, n)
      BY DEF Covered
    <2>2. CASE Queued(s, p, n) \/ Queued(Broker, p, n)
      BY <1>1, <2>2, QueuedAppends
    <2>3. CASE Printed(s, p, n)
      BY <1>1, <2>3 DEF Printed
    <2>4. CASE Going(s, p, n)
      <3>1. CASE outgoing[1].to = s /\ outgoing[1].from = p /\ outgoing[1].number = n
        <4>1. outgoing[1].command = "send"
          BY <1>1 DEF DataInv, ContentInv
        <4> QED
          BY <1>1, <3>1, <4>1, QueuedAppends
      <3> QED
        BY <2>4, <3>1, GoingForwards
    <2> QED
      BY <2>1, <2>2, <2>3, <2>4
  <1> QED
    BY <1>1, <1>2, <1>3 DEF Covered

LEMMA PrintsDue ==
    ASSUME TypeInv, DataInv, NEW z \in Subscribers, NEW i, NEW h, PrintsOnly(z, i, h),
           NEW s \in Subscribers, NEW p \in Publishers, Expected(s, p), Covered(s, p)
    PROVE  Expected(s, p)' /\ Covered(s, p)'
  <1>1. /\ Takes(z, i, h) /\ queue[i].command = "send"
        /\ UNCHANGED <<subscriptions, outgoing, sent, since>>
    BY DEF PrintsOnly, Prints
  <1>2. Expected(s, p)'
    BY <1>1, ComingTakes DEF Expected, Command
  <1>3. ASSUME NEW n \in since[s][p] + 1 .. sent[p]
        PROVE  Printed(s, p, n)' \/ Queued(s, p, n)' \/ Going(s, p, n)' \/ Queued(Broker, p, n)'
    <2>1. Printed(s, p, n) \/ Queued(s, p, n) \/ Going(s, p, n) \/ Queued(Broker, p, n)
      BY DEF Covered
    <2>2. CASE Queued(Broker, p, n)
      BY <1>1, <2>2, QueuedTakes, Different
    <2>3. CASE Queued(s, p, n)
      <3>1. Queued(s, p, n)' \/ (z = s /\ queue[i].from = p /\ queue[i].number = n)
        BY <1>1, <2>3, QueuedTakes
      <3> QED
        BY <3>1, PrintedPrints DEF DataInv
    <2>4. CASE Going(s, p, n)
      BY <1>1, <2>4 DEF Going
    <2>5. CASE Printed(s, p, n)
      BY <2>5, PrintedPrints DEF DataInv
    <2> QED
      BY <2>1, <2>2, <2>3, <2>4, <2>5
  <1> QED
    BY <1>1, <1>2, <1>3 DEF Covered

LEMMA ReceivesDue ==
    ASSUME TypeInv, DataInv, LeftInv, NEW i, NEW h, Receives(i, h),
           NEW s \in Subscribers, NEW p \in Publishers, Listening(s), since[s][p] # Never,
           Expected(s, p), Covered(s, p)
    PROVE  Expected(s, p)' /\ Covered(s, p)'
  <1>1. /\ Takes(Broker, i, h) /\ outgoing = <<>> /\ UNCHANGED <<sent, received, since>>
        /\ i \in 1 .. Len(queue) /\ queue[i].to = Broker
    BY DEF Receives, ReceiveEffect, Takes
  <1>2. PICK m : m = queue[i]
    OBVIOUS
  <1>3. SendEffect(m) \/ SubscribeEffect(m) \/ UnsubscribeEffect(m)
    BY <1>2 DEF Receives, ReceiveEffect
  <1>4. PICK e : e = [pid |-> s, topic |-> TopicOf[p]]
    OBVIOUS
  <1>5. Expected(s, p)'
    <2>1. ASSUME Contains(subscriptions, e) PROVE Contains(subscriptions', e)
      <3>1. CASE SendEffect(m) \/ SubscribeEffect(m)
        BY <2>1, <3>1 DEF SendEffect, SubscribeEffect
      <3>2. CASE UnsubscribeEffect(m)
        <4>1. m.from # s
          BY <1>1, <1>2, <3>2 DEF UnsubscribeEffect, LeftInv, Listening
        <4>2. e # [pid |-> m.from, topic |-> m.topic]
          BY <1>4, <4>1
        <4> QED
          BY <2>1, <3>2, <4>2 DEF UnsubscribeEffect
      <3> QED
        BY <1>3, <3>1, <3>2
    <2>2. ASSUME Command(m, "subscribe", s, TopicOf[p]) PROVE Contains(subscriptions', e)
      <3>1. m.command = "subscribe" /\ m.from = s /\ m.topic = TopicOf[p]
        BY <2>2 DEF Command
      <3> QED
        BY <1>3, <1>4, <3>1 DEF SendEffect, SubscribeEffect, UnsubscribeEffect
    <2>3. Coming(s, p) => Coming(s, p)' \/ Command(m, "subscribe", s, TopicOf[p])
      BY <1>1, <1>2, ComingTakes
    <2> QED
      BY <1>4, <2>1, <2>2, <2>3 DEF Expected
  <1>6. ASSUME NEW n \in since[s][p] + 1 .. sent[p]
        PROVE  Printed(s, p, n)' \/ Queued(s, p, n)' \/ Going(s, p, n)' \/ Queued(Broker, p, n)'
    <2>1. Printed(s, p, n) \/ Queued(s, p, n) \/ Going(s, p, n) \/ Queued(Broker, p, n)
      BY DEF Covered
    <2>2. CASE Queued(Broker, p, n) /\ ~Queued(Broker, p, n)'
      <3>1. m.to = Broker /\ m.command = "send" /\ m.from = p /\ m.number = n
        BY <1>1, <1>2, <2>2, QueuedTakes
      <3>2. since[s][p] \in Int /\ sent[p] \in Int
        BY BoundsAssumption DEF TypeInv, DataTyped
      <3>3. m.number > since[s][p]
        BY <1>6, <3>1, <3>2
      <3>4. Contains(subscriptions, e)
        BY <1>1, <1>2, <1>4, <3>1, <3>3, DueIsSubscribed DEF DataInv, Inbox
      <3>5. m \in Message /\ m.topic = TopicOf[p]
        BY <1>1, <1>2, <3>1, NumbersSent DEF DataInv, ContentInv, Proper, ProperFor
      <3>6. SendEffect(m)
        BY <1>3, <3>1 DEF SubscribeEffect, UnsubscribeEffect
      <3>7. PICK k \in 1 .. Len(outgoing') : outgoing'[k] = For(m, s)
        BY <1>4, <3>4, <3>5, <3>6 DEF SendEffect, Fans
      <3>8. outgoing'[k].to = s /\ outgoing'[k].from = p /\ outgoing'[k].number = n
        BY <3>1, <3>5, <3>7, ForwardedMessage
      <3> QED
        BY <3>8 DEF Going
    <2>3. CASE Queued(s, p, n)
      BY <1>1, <2>3, QueuedTakes, Different
    <2>4. CASE Going(s, p, n)
      <3>1. Len(<<>>) = 0 /\ 1 .. 0 = {}
        OBVIOUS
      <3> QED
        BY <1>1, <2>4, <3>1 DEF Going
    <2>5. CASE Printed(s, p, n)
      BY <1>1, <2>5 DEF Printed
    <2> QED
      BY <2>1, <2>2, <2>3, <2>4, <2>5
  <1> QED
    BY <1>1, <1>5, <1>6 DEF Covered

LEMMA AsksDue ==
    ASSUME TypeInv, TypeInv', DataInv, NEW z \in Subscribers, Asks(z),
           NEW s \in Subscribers, NEW p \in Publishers, since'[s][p] # Never,
           since[s][p] # Never => Expected(s, p) /\ Covered(s, p)
    PROVE  Expected(s, p)' /\ Covered(s, p)'
  <1>1. PICK m \in Message : m = CommandTo(z, "subscribe")
    BY DEF Asks, Appends
  <1>2. /\ Appends(m) /\ m.command = "subscribe" /\ m.from = z /\ m.topic = TopicsOf[z][step[z] + 1]
        /\ UNCHANGED <<publishers, subscriptions, outgoing, sent, received>>
    BY <1>1 DEF Asks, CommandTo, ToBroker
  <1>3. since'[s][p] = IF s = z /\ TopicOf[p] = m.topic /\ since[z][p] = Never
                       THEN sent[p] ELSE since[s][p]
    BY <1>2 DEF Asks
  <1>4. CASE since[s][p] # Never
    <2>1. since'[s][p] = since[s][p]
      BY <1>3, <1>4
    <2> QED
      BY <1>2, <1>4, <2>1, AppendedDue
  <1>5. CASE since[s][p] = Never
    <2>1. s = z /\ TopicOf[p] = m.topic /\ since'[s][p] = sent[p] /\ sent'[p] = sent[p]
      BY <1>2, <1>3, <1>5
    <2>2. Covered(s, p)'
      <3>1. sent[p] \in Int /\ ~\E n \in sent[p] + 1 .. sent[p] : TRUE
        BY SMTT(30), BoundsAssumption DEF TypeInv, DataTyped
      <3> QED
        BY <2>1, <3>1 DEF Covered
    <2>3. /\ Len(queue) + 1 \in 1 .. Len(queue') /\ queue'[Len(queue) + 1] = m /\ Len(queue) \in Nat
          /\ \A j \in 1 .. Len(queue) : queue'[j] = queue[j]
      BY <1>2, AppendedElements
    <2>4. Command(queue'[Len(queue) + 1], "subscribe", s, TopicOf[p])
      BY <1>2, <2>1, <2>3 DEF Command
    <2>5. ASSUME NEW j \in 1 .. (Len(queue) + 1) - 1, queue'[j].from = p
          PROVE  queue'[j].number <= since'[s][p]
      <3>1. j \in 1 .. Len(queue)
        BY <2>3
      <3> QED
        BY <2>1, <2>3, <2>5, <3>1, NumbersSent DEF DataInv
    <2>6. Coming(s, p)'
      BY <2>3, <2>4, <2>5 DEF Coming
    <2> QED
      BY <2>2, <2>6 DEF Expected
  <1> QED
    BY <1>4, <1>5

\* since changes in Subscribe only.
LEMMA SinceOfStep ==
    ASSUME TypeInv, StartInv, DataInv, [Next]_vars, NEW s \in Subscribers, NEW p \in Publishers,
           since'[s][p] # since[s][p]
    PROVE  /\ Asks(s) /\ pc[s] = "subscribe"
           /\ since[s][p] = Never /\ since'[s][p] = sent[p] /\ received' = received
  <1>1. DataStep
    BY EffectOfStep DEF DataInv
  <1>2. PICK z \in Subscribers : Asks(z)
    BY <1>1 DEF DataStep, DataStill, Receives, Forwards, GivesUp, Loses, TakesOneBack, PrintsOnly,
                SendsOnly
  <1>3. since'[s][p] = IF s = z /\ TopicOf[p] = TopicsOf[z][step[z] + 1] /\ since[z][p] = Never
                       THEN sent[p] ELSE since[s][p]
    BY <1>2 DEF Asks
  <1> QED
    BY <1>2, <1>3 DEF Asks

LEMMA ServedStep ==
    ASSUME TypeInv, TypeInv', StartInv, DataInv, CoverInv, [Next]_vars
    PROVE  ServedInv'
  <1> SUFFICES ASSUME pc'[Broker] \in Serving, exists' = "there",
                      NEW s \in Subscribers, NEW p \in Publishers,
                      Listening(s)', since'[s][p] # Never
               PROVE  Expected(s, p)' /\ Covered(s, p)'
    BY DEF ServedInv
  <1>1. Listening(s)
    <2>1. ~Listening(s) => pc[s] = "start"
      BY StagesOfStep
    <2>2. pc[s] = "start" => since[s][p] = Never
      BY DEF CoverInv, FreshInv
    <2>3. since[s][p] = Never => pc[s] = "subscribe"
      BY SinceOfStep
    <2> QED
      BY <2>1, <2>2, <2>3
  <1>2. pc[Broker] \in Serving /\ exists = "there"
    <2>1. pc[Broker] \in Serving \cup {"start"} /\ (exists = "there" \/ pc[Broker] = "start")
      BY StagesOfStep, ExistsOfStep
    <2>2. pc[Broker] # "start"
      BY <1>1 DEF StartInv, Listening
    <2> QED
      BY <2>1, <2>2
  <1>3. since[s][p] # Never => Expected(s, p) /\ Covered(s, p)
    BY <1>1, <1>2 DEF CoverInv, ServedInv
  <1>4. DataStep
    BY EffectOfStep DEF DataInv
  <1>5. CASE \E z \in Subscribers : Asks(z)
    BY <1>3, <1>5, AsksDue
  <1>6. ASSUME ~\E z \in Subscribers : Asks(z)
        PROVE  Expected(s, p)' /\ Covered(s, p)'
    <2>1. since'[s][p] = since[s][p]
      BY <1>6, SinceOfStep
    <2>2. Expected(s, p) /\ Covered(s, p) /\ since[s][p] # Never
      BY <1>3, <2>1
    <2>3. CASE DataStill
      <3>1. UNCHANGED <<queue, subscriptions, outgoing, sent, received, since>>
        BY <2>3 DEF DataStill
      <3> QED
        BY <2>2, <3>1 DEF Expected, Coming, Covered, Printed, Queued, Going
    <2>4. ASSUME NEW i, NEW h, Receives(i, h) PROVE Expected(s, p)' /\ Covered(s, p)'
      BY <1>1, <2>2, <2>4, ReceivesDue DEF CoverInv
    <2>5. ASSUME NEW h, Forwards(h) PROVE Expected(s, p)' /\ Covered(s, p)'
      BY <2>2, <2>5, ForwardsDue
    <2>6. ~GivesUp
      BY <1>2 DEF GivesUp
    <2>7. ASSUME NEW h, Loses(h) PROVE FALSE
      BY <1>2, <2>7 DEF Loses, Serving
    <2>8. ASSUME NEW z \in Subscribers, TakesOneBack(z) PROVE Expected(s, p)' /\ Covered(s, p)'
      <3>1. /\ Appends(CommandTo(z, "unsubscribe"))
            /\ UNCHANGED <<subscriptions, outgoing, sent, received, since>>
        BY <2>8 DEF TakesOneBack
      <3> QED
        BY <2>1, <2>2, <3>1, AppendedDue
    <2>9. ASSUME NEW z \in Subscribers, NEW i, NEW h, PrintsOnly(z, i, h)
          PROVE  Expected(s, p)' /\ Covered(s, p)'
      BY <2>2, <2>9, PrintsDue
    <2>10. ASSUME NEW z \in Publishers, SendsOnly(z) PROVE Expected(s, p)' /\ Covered(s, p)'
      <3>1. /\ Appends(Publication(z))
            /\ UNCHANGED <<subscriptions, outgoing, received, since>>
        BY <2>10 DEF SendsOnly, Sends
      <3>2. sent'[p] = IF p = z THEN sent[p] + 1 ELSE sent[p]
        BY <2>10 DEF SendsOnly, Sends, TypeInv, DataTyped
      <3>3. /\ Publication(z).to = Broker /\ Publication(z).command = "send"
            /\ Publication(z).from = z /\ Publication(z).number = sent[z] + 1
        BY DEF Publication, ToBroker
      <3>4. \/ sent'[p] = sent[p]
            \/ /\ sent'[p] = sent[p] + 1 /\ Publication(z).to = Broker
               /\ Publication(z).command = "send" /\ Publication(z).from = p
               /\ Publication(z).number = sent[p] + 1
        BY <3>2, <3>3
      <3> QED
        BY <2>1, <2>2, <3>1, <3>4, AppendedDue
    <2> QED
      BY <1>4, <1>6, <2>3, <2>4, <2>5, <2>6, <2>7, <2>8, <2>9, <2>10 DEF DataStep
  <1> QED
    BY <1>5, <1>6

\* The same step by step for what is queued while the broker tells its clients.
LEMMA NotifiedStep ==
    ASSUME TypeInv, TypeInv', StartInv, DataInv, CoverInv, [Next]_vars
    PROVE  NotifiedInv'
  <1> SUFFICES ASSUME pc'[Broker] \in Notifying, exists' = "there",
                      NEW s \in Subscribers, NEW p \in Publishers, Listening(s)',
                      NEW n \in Nat, NEW m \in Nat, Asked(s, p, m)', m < n, Queued(s, p, n)'
               PROVE  Printed(s, p, m)' \/ Queued(s, p, m)'
    BY DEF NotifiedInv, Gapless
  <1>1. Listening(s)
    <2>1. ~Listening(s) => pc[s] = "start"
      BY StagesOfStep
    <2>2. pc[s] = "start" => since[s][p] = Never
      BY DEF CoverInv, FreshInv
    <2>3. since[s][p] = Never => pc[s] = "subscribe"
      BY SinceOfStep DEF Asked
    <2> QED
      BY <2>1, <2>2, <2>3
  <1>2. pc[Broker] \in Serving \cup Notifying /\ exists = "there"
    BY StagesOfStep, ExistsOfStep DEF Serving, Notifying
  <1>3. Gapless(s, p)
    BY <1>1, <1>2, QueuedGapless DEF CoverInv
  <1>4. DataStep
    BY EffectOfStep DEF DataInv
  <1>d. s # Broker
    BY Different
  <1>5. ASSUME Queued(s, p, n), \A k \in Nat : Queued(s, p, k) => Queued(s, p, k)' \/ Printed(s, p, k)',
               \A k \in Nat : Printed(s, p, k) => Printed(s, p, k)'
        PROVE  Printed(s, p, m)' \/ Queued(s, p, m)'
    <2>1. CASE since'[s][p] = since[s][p]
      BY <1>3, <1>5, <2>1 DEF Gapless, Asked
    <2>2. CASE since'[s][p] # since[s][p]
      <3>1. since'[s][p] = sent[p]
        BY <2>2, SinceOfStep
      <3>2. n <= sent[p]
        BY <1>5, NumbersSent DEF Queued, DataInv
      <3>3. sent[p] \in Int
        BY BoundsAssumption DEF TypeInv, DataTyped
      <3> QED
        BY <3>1, <3>2, <3>3 DEF Asked
    <2> QED
      BY <2>1, <2>2
  <1>6. ASSUME NEW x, Appends(x), x.to = Broker, received' = received
        PROVE  Printed(s, p, m)' \/ Queued(s, p, m)'
    <2>1. \A k : Queued(s, p, k)' <=> Queued(s, p, k)
      BY <1>6, <1>d, QueuedAppends
    <2>2. \A k : Printed(s, p, k) => Printed(s, p, k)'
      BY <1>6 DEF Printed
    <2> QED
      BY <1>5, <2>1, <2>2
  <1>7. CASE DataStill \/ GivesUp
    <2>1. UNCHANGED <<queue, received>>
      BY <1>7 DEF DataStill, GivesUp
    <2>2. \A k : (Queued(s, p, k)' <=> Queued(s, p, k)) /\ (Printed(s, p, k) => Printed(s, p, k)')
      BY <2>1 DEF Queued, Printed
    <2> QED
      BY <1>5, <2>2
  <1>8. ASSUME NEW i, NEW h, Receives(i, h) PROVE FALSE
    <2>1. pc'[Broker] \in {"check", "forward"}
      BY <1>8, GotoMoves, Different
         DEF Receives, ReceiveEffect, SendEffect, SubscribeEffect, UnsubscribeEffect
    <2> QED
      BY <2>1 DEF Notifying
  <1>9. ASSUME NEW h, Forwards(h) PROVE FALSE
    BY <1>9 DEF Forwards, Serving, Notifying
  <1>10. ASSUME NEW h, Loses(h) PROVE FALSE
    BY <1>2, <1>10 DEF Loses, Serving, Notifying
  <1>11. ASSUME NEW z \in Subscribers, Asks(z) \/ TakesOneBack(z)
         PROVE  Printed(s, p, m)' \/ Queued(s, p, m)'
    <2>1. PICK x : Appends(x) /\ x.to = Broker
      BY <1>11 DEF Asks, TakesOneBack, CommandTo, ToBroker
    <2>2. received' = received
      BY <1>11 DEF Asks, TakesOneBack
    <2> QED
      BY <1>6, <2>1, <2>2
  <1>12. ASSUME NEW z \in Subscribers, NEW i, NEW h, PrintsOnly(z, i, h)
         PROVE  Printed(s, p, m)' \/ Queued(s, p, m)'
    <2>1. Takes(z, i, h)
      BY <1>12 DEF PrintsOnly, Prints
    <2>2. \A k : /\ Queued(s, p, k)' => Queued(s, p, k)
                 /\ Queued(s, p, k) => \/ Queued(s, p, k)'
                                       \/ z = s /\ queue[i].from = p /\ queue[i].number = k
      BY <2>1, QueuedTakes
    <2>3. \A k : Printed(s, p, k)' <=> Printed(s, p, k) \/ (s = z /\ queue[i].from = p /\ queue[i].number = k)
      BY <1>12, PrintedPrints DEF DataInv
    <2> QED
      BY <1>5, <2>2, <2>3
  <1>13. ASSUME NEW z \in Publishers, SendsOnly(z)
         PROVE  Printed(s, p, m)' \/ Queued(s, p, m)'
    <2>1. PICK x : Appends(x) /\ x.to = Broker
      BY <1>13 DEF SendsOnly, Sends, Publication, ToBroker
    <2>2. received' = received
      BY <1>13 DEF SendsOnly
    <2> QED
      BY <1>6, <2>1, <2>2
  <1> QED
    BY <1>4, <1>7, <1>8, <1>9, <1>10, <1>11, <1>12, <1>13 DEF DataStep

LEMMA GaplessStep ==
    ASSUME TypeInv, TypeInv', StartInv, DataInv, CoverInv, [Next]_vars
    PROVE  GaplessInv'
  <1> SUFFICES ASSUME pc'[Broker] \in {"start"} \cup Serving \cup Notifying,
                      NEW s \in Subscribers, NEW p \in Publishers,
                      NEW n \in Nat, NEW m \in Nat, Asked(s, p, m)', m < n, Printed(s, p, n)'
               PROVE  Printed(s, p, m)'
    BY DEF GaplessInv
  <1>1. pc[Broker] \in {"start"} \cup Serving \cup Notifying
    BY StagesOfStep
  <1>2. Asked(s, p, m) /\ Printed(s, p, n) => Printed(s, p, m)
    BY <1>1 DEF CoverInv, GaplessInv
  <1>3. DataStep
    BY EffectOfStep DEF DataInv
  <1>4. ASSUME since'[s][p] # since[s][p] PROVE FALSE
    <2>1. since'[s][p] = sent[p] /\ received' = received
      BY <1>4, SinceOfStep
    <2>2. PICK r \in 1 .. Len(received[s]) : received[s][r] = <<p, n>>
      BY <2>1 DEF Printed
    <2>3. received[s][r][1] = p /\ received[s][r][2] = n
      BY <2>2
    <2>4. n <= sent[p]
      BY <2>3, NumbersSent DEF DataInv
    <2>5. sent[p] \in Int
      BY BoundsAssumption DEF TypeInv, DataTyped
    <2> QED
      BY <2>1, <2>4, <2>5 DEF Asked
  <1>5. Asked(s, p, m)
    BY <1>4 DEF Asked
  <1>6. CASE received' = received
    BY <1>2, <1>5, <1>6 DEF Printed
  <1>7. ASSUME NEW z \in Subscribers, NEW i, NEW h, PrintsOnly(z, i, h)
        PROVE  Printed(s, p, m)'
    <2>1. \A k : Printed(s, p, k)' <=> Printed(s, p, k) \/ (s = z /\ queue[i].from = p /\ queue[i].number = k)
      BY <1>7, PrintedPrints DEF DataInv
    <2>2. CASE Printed(s, p, n)
      BY <1>2, <1>5, <2>1, <2>2
    <2>3. CASE ~Printed(s, p, n)
      <3>1. s = z /\ queue[i].from = p /\ queue[i].number = n
        BY <2>1, <2>3
      <3>2. /\ pc[s] = "receive" /\ exists = "there" /\ Takes(s, i, h) /\ queue[i].command = "send"
            /\ i \in 1 .. Len(queue) /\ queue[i].to = s
        BY <1>7, <3>1 DEF PrintsOnly, Prints, Takes
      <3>3. pc[Broker] # "start" /\ Listening(s)
        BY <3>2 DEF StartInv, Listening
      <3>4. Gapless(s, p)
        BY <1>1, <3>2, <3>3, QueuedGapless DEF CoverInv
      <3>5. Queued(s, p, n)
        BY <3>1, <3>2 DEF Queued
      <3>6. Printed(s, p, m) \/ Queued(s, p, m)
        BY <1>5, <3>4, <3>5 DEF Gapless
      <3>7. ASSUME Queued(s, p, m) PROVE FALSE
        <4>1. PICK j \in 1 .. Len(queue) :
                 queue[j].to = s /\ queue[j].command = "send" /\ queue[j].from = p /\ queue[j].number = m
          BY <3>7 DEF Queued
        <4>2. i # j /\ ~(n < m)
          BY <3>1, <4>1
        <4>3. Len(queue) \in Nat
          BY LenProperties DEF TypeInv, DataTyped
        <4>4. ~(j \in 1 .. i - 1)
          BY <3>2, <4>1 DEF Takes
        <4>5. i < j
          BY <3>2, <4>2, <4>3, <4>4
        <4>6. InOrder(queue[i], queue[j])
          BY <3>2, <4>5 DEF DataInv, OrderInv, QueueOrder
        <4> QED
          BY <3>1, <3>2, <4>1, <4>2, <4>6 DEF InOrder, Earlier
      <3> QED
        BY <2>1, <3>6, <3>7
    <2> QED
      BY <2>2, <2>3
  <1> QED
    BY <1>3, <1>6, <1>7 DEF DataStep, DataStill, Receives, Forwards, GivesUp, Loses, Asks,
                            TakesOneBack, SendsOnly

LEMMA FreshStep ==
    ASSUME TypeInv, StartInv, DataInv, FreshInv, [Next]_vars
    PROVE  FreshInv'
  <1> SUFFICES ASSUME NEW s \in Subscribers, pc'[s] = "start", NEW p \in Publishers
               PROVE  since'[s][p] = Never
    BY DEF FreshInv
  <1>1. pc[s] = "start"
    BY StagesOfStep
  <1>2. since'[s][p] = since[s][p]
    BY <1>1, SinceOfStep
  <1> QED
    BY <1>1, <1>2 DEF FreshInv

\* A message in the queue was there before, and so were the messages before it, or has just
\* been appended by its sender.
WasQueued(j) ==
    \E k \in 1 .. Len(queue) :
       queue'[j] = queue[k] /\ \A i \in 1 .. j - 1 : \E l \in 1 .. k - 1 : queue'[i] = queue[l]

LEMMA QueueOfStep ==
    ASSUME TypeInv, StartInv, DataInv, [Next]_vars, NEW j \in 1 .. Len(queue')
    PROVE  \/ WasQueued(j)
           \/ queue'[j].command = "send"
           \/ queue'[j].from \in Subscribers /\ Asks(queue'[j].from)
              /\ queue'[j] = CommandTo(queue'[j].from, "subscribe")
           \/ queue'[j].from \in Subscribers /\ TakesOneBack(queue'[j].from)
              /\ queue'[j] = CommandTo(queue'[j].from, "unsubscribe")
  <1>1. DataStep
    BY EffectOfStep DEF DataInv
  <1>2. ASSUME NEW h, Kept(h, queue, queue') PROVE WasQueued(j)
    <2>0. Len(queue) \in Nat /\ Len(queue') \in Nat
      BY LenProperties DEF TypeInv, DataTyped
    <2>1. h[j] \in 1 .. Len(queue) /\ queue'[j] = queue[h[j]]
      BY <1>2 DEF Kept
    <2>2. ASSUME NEW i \in 1 .. j - 1 PROVE h[i] \in 1 .. h[j] - 1 /\ queue'[i] = queue[h[i]]
      <3>1. i \in 1 .. Len(queue') /\ i < j
        BY <2>0
      <3>2. h[i] \in 1 .. Len(queue) /\ queue'[i] = queue[h[i]] /\ h[i] < h[j]
        BY <1>2, <3>1 DEF Kept
      <3> QED
        BY <2>0, <2>1, <3>2
    <2> QED
      BY <2>1, <2>2 DEF WasQueued
  <1>3. ASSUME NEW m, Appends(m) PROVE queue'[j] = m \/ WasQueued(j)
    <2> SUFFICES ASSUME queue'[j] # m PROVE WasQueued(j)
      OBVIOUS
    <2>1. j \in 1 .. Len(queue) /\ queue'[j] = queue[j] /\ Len(queue) \in Nat
      BY <1>3, AppendedElements
    <2>2. ASSUME NEW i \in 1 .. j - 1 PROVE queue'[i] = queue[i]
      <3>1. i \in 1 .. Len(queue)
        BY <2>1
      <3> QED
        BY <1>3, <3>1, AppendedElements
    <2> QED
      BY <2>1, <2>2 DEF WasQueued
  <1>4. CASE DataStill \/ GivesUp
    <2>1. Len(queue) \in Nat /\ queue' = queue
      BY <1>4, LenProperties DEF DataStill, GivesUp, TypeInv, DataTyped
    <2>2. WasQueued(j)
      BY <2>1 DEF WasQueued
    <2> QED
      BY <2>2
  <1>5. ASSUME NEW i, NEW h, Receives(i, h) PROVE WasQueued(j)
    BY <1>2, <1>5 DEF Receives, ReceiveEffect, Takes, Without
  <1>6. ASSUME NEW h, Forwards(h)
        PROVE  queue'[j].command = "send" \/ WasQueued(j)
    <2>1. Appends(outgoing[1]) /\ outgoing[1].command = "send"
      BY <1>6 DEF Forwards, DataInv, ContentInv
    <2> QED
      BY <1>3, <2>1
  <1>7. ASSUME NEW h, Loses(h) PROVE WasQueued(j)
    BY <1>2, <1>7 DEF Loses
  <1>8. ASSUME NEW s \in Subscribers, Asks(s)
        PROVE  \/ WasQueued(j)
               \/ queue'[j].from = s /\ queue'[j] = CommandTo(s, "subscribe")
    <2>1. Appends(CommandTo(s, "subscribe")) /\ CommandTo(s, "subscribe").from = s
      BY <1>8 DEF Asks, CommandTo, ToBroker
    <2> QED
      BY <1>3, <2>1
  <1>9. ASSUME NEW s \in Subscribers, TakesOneBack(s)
        PROVE  \/ WasQueued(j)
               \/ queue'[j].from = s /\ queue'[j] = CommandTo(s, "unsubscribe")
    <2>1. Appends(CommandTo(s, "unsubscribe")) /\ CommandTo(s, "unsubscribe").from = s
      BY <1>9 DEF TakesOneBack, CommandTo, ToBroker
    <2> QED
      BY <1>3, <2>1
  <1>10. ASSUME NEW s \in Subscribers, NEW i, NEW h, PrintsOnly(s, i, h)
         PROVE  WasQueued(j)
    BY <1>2, <1>10 DEF PrintsOnly, Prints, Takes, Without
  <1>11. ASSUME NEW p \in Publishers, SendsOnly(p)
         PROVE  queue'[j].command = "send" \/ WasQueued(j)
    <2>1. Appends(Publication(p)) /\ Publication(p).command = "send"
      BY <1>11 DEF SendsOnly, Sends, Publication, ToBroker
    <2> QED
      BY <1>3, <2>1
  <1> QED
    BY <1>1, <1>4, <1>5, <1>6, <1>7, <1>8, <1>9, <1>10, <1>11 DEF DataStep

LEMMA LeftStep ==
    ASSUME TypeInv, StartInv, DataInv, LeftInv, [Next]_vars
    PROVE  LeftInv'
  <1> SUFFICES ASSUME NEW s \in Subscribers, pc'[s] \notin {"unsubscribe", "exited", "killed"},
                      NEW j \in 1 .. Len(queue'), queue'[j].from = s,
                      queue'[j].command = "unsubscribe"
               PROVE  FALSE
    BY DEF LeftInv
  <1>1. pc[s] \notin {"unsubscribe", "exited", "killed"}
    BY StagesOfStep
  <1>2. ~WasQueued(j)
    BY <1>1 DEF LeftInv, WasQueued
  <1>3. CommandTo(s, "subscribe").command = "subscribe"
    BY DEF CommandTo, ToBroker
  <1>4. TakesOneBack(s)
    BY <1>2, <1>3, QueueOfStep
  <1> QED
    BY <1>1, <1>4 DEF TakesOneBack

LEMMA CoverStep ==
    ASSUME TypeInv, TypeInv', StartInv, DataInv, CoverInv, [Next]_vars
    PROVE  CoverInv'
  BY ServedStep, NotifiedStep, GaplessStep, FreshStep, LeftStep DEF CoverInv

-----------------------------------------------------------------------------
(* No subscription is left behind.                                         *)

\* What a step does to one subscriber: nothing, ...
Rests(s) == pc'[s] = pc[s] /\ step'[s] = step[s] /\ count'[s] = count[s]

\* ... it starts, or does its work, ...
Works(s) ==
    /\ step'[s] = step[s] /\ count'[s] = count[s]
    /\ \/ pc[s] = "start" /\ pc'[s] \in {"subscribe", "exited"}
       \/ pc[s] \in {"check", "receive"} /\ pc'[s] \in {"check", "receive"}

\* ... it leaves its loop, ...
Leaves(s) ==
    /\ Listening(s) /\ count'[s] = count[s] /\ step'[s] = 0
    /\ pc'[s] = (IF count[s] = 0 THEN "exited" ELSE "unsubscribe")
    /\ call[s] = "interrupted" \/ stop[s] \/ exists = "removed"

\* ... it takes back a subscription, ...
TakesBackNext(s) ==
    /\ TakesOneBack(s) /\ count'[s] = count[s] /\ step'[s] = step[s] + 1
    /\ pc'[s] = (IF step'[s] = count[s] THEN "exited" ELSE "unsubscribe")

\* ... cannot take it back, ...
Fails(s) ==
    /\ pc'[s] \in {"unsubscribe", "exited"} /\ count'[s] = count[s]
    /\ \/ exists = "removed" /\ pc'[s] = "exited"
       \/ pc[s] = "unsubscribe" /\ call[s] = "interrupted"

\* ... or is killed.
Dies(s) == pc'[s] = "killed" /\ step'[s] = step[s] /\ count'[s] = count[s]

LEMMA OwnStep ==
    ASSUME TypeInv, NEW s \in Subscribers, StartSubscriber(s) \/ SubscriberStep(s)
    PROVE  /\ Works(s) \/ Asks(s) \/ Leaves(s) \/ TakesBackNext(s) \/ Fails(s)
           /\ call'[s] = "entering"
           /\ \A z \in Subscribers \ {s} : Rests(z) /\ call'[z] = call[z]
           /\ UNCHANGED <<stop, signals>>
  <1>0. /\ s \in Procs /\ pc \in [Procs -> AllStages] /\ call \in [Procs -> CallStates]
        /\ step \in [Subscribers -> Nat] /\ count \in [Subscribers -> Nat]
        /\ \A z \in Subscribers : z \in Procs
    BY Different DEF TypeInv, PcTyped, ControlTyped, StepInv, AllStages, CallStates
  <1>1. ASSUME NEW w, Goto(s, w)
        PROVE  /\ pc'[s] = w /\ call'[s] = "entering"
               /\ \A z \in Subscribers \ {s} : pc'[z] = pc[z] /\ call'[z] = call[z]
    BY <1>0, <1>1 DEF Goto
  <1>2. CASE StartSubscriber(s) \/ SubscriberReceive(s)
    <2>1. UNCHANGED <<step, count, stop, signals>>
      BY <1>2 DEF StartSubscriber, SubscriberReceive, progress, outside
    <2>2. PICK w : Goto(s, w) /\ \/ pc[s] = "start" /\ w \in {"subscribe", "exited"}
                                 \/ pc[s] = "receive" /\ w = "check"
      BY <1>2 DEF StartSubscriber, SubscriberReceive
    <2>3. Works(s)
      BY <1>1, <2>1, <2>2 DEF Works
    <2>4. \A z \in Subscribers \ {s} : Rests(z) /\ call'[z] = call[z]
      BY <1>1, <2>1, <2>2 DEF Rests
    <2> QED
      BY <1>1, <2>1, <2>2, <2>3, <2>4
  <1>3. CASE Subscribe(s)
    <2>1. Asks(s)
      BY <1>3, AsksEffect
    <2>2. /\ step' = [step EXCEPT ![s] = @ + 1] /\ count' = [count EXCEPT ![s] = @ + 1]
          /\ UNCHANGED <<stop, signals>>
      BY <1>3 DEF Subscribe, outside
    <2>3. PICK w : Goto(s, w)
      BY <1>3 DEF Subscribe
    <2>4. \A z \in Subscribers \ {s} : Rests(z) /\ call'[z] = call[z]
      BY <1>0, <1>1, <2>2, <2>3 DEF Rests
    <2> QED
      BY <1>1, <2>1, <2>2, <2>3, <2>4
  <1>4. ASSUME StartUnsubscribing(s), Listening(s), UNCHANGED <<count, stop, signals>>,
               call[s] = "interrupted" \/ stop[s] \/ exists = "removed"
        PROVE  /\ Leaves(s) /\ call'[s] = "entering"
               /\ \A z \in Subscribers \ {s} : Rests(z) /\ call'[z] = call[z]
    <2>1. Goto(s, IF count[s] = 0 THEN "exited" ELSE "unsubscribe") /\ step' = [step EXCEPT ![s] = 0]
      BY <1>4 DEF StartUnsubscribing
    <2>2. Leaves(s)
      BY <1>0, <1>1, <1>4, <2>1 DEF Leaves
    <2>3. \A z \in Subscribers \ {s} : Rests(z) /\ call'[z] = call[z]
      BY <1>0, <1>1, <1>4, <2>1 DEF Rests
    <2> QED
      BY <1>1, <2>1, <2>2, <2>3
  <1>5. CASE SubscribeFails(s)
    BY <1>4, <1>5 DEF SubscribeFails, Interrupted, QueueGone, Listening, outside
  <1>6. CASE CheckSubscriber(s) /\ stop[s]
    BY <1>4, <1>6 DEF CheckSubscriber, Listening, outside
  <1>7. CASE CheckSubscriber(s) /\ ~stop[s]
    <2>1. Goto(s, "receive") /\ pc[s] = "check" /\ UNCHANGED <<step, count, stop, signals>>
      BY <1>7 DEF CheckSubscriber, outside
    <2>2. Works(s) /\ \A z \in Subscribers \ {s} : Rests(z)
      BY <1>1, <2>1 DEF Works, Rests
    <2> QED
      BY <1>1, <2>1, <2>2
  <1>8. ASSUME Goto(s, "exited"), UNCHANGED <<step, count, stop, signals>>, exists = "removed"
        PROVE  /\ Fails(s) /\ call'[s] = "entering"
               /\ \A z \in Subscribers \ {s} : Rests(z) /\ call'[z] = call[z]
    BY <1>1, <1>8 DEF Fails, Rests
  <1>9. CASE SubscriberReceiveFails(s)
    <2>1. UNCHANGED <<count, stop, signals>> /\ Listening(s)
      BY <1>9 DEF SubscriberReceiveFails, Listening, outside
    <2>2. CASE ReceiveInterrupted(s) /\ StartUnsubscribing(s)
      BY <1>4, <2>1, <2>2 DEF ReceiveInterrupted, Interrupted
    <2>3. CASE QueueGone /\ Goto(s, "exited") /\ UNCHANGED step
      BY <1>8, <2>1, <2>3 DEF QueueGone
    <2> QED
      BY <1>9, <2>2, <2>3 DEF SubscriberReceiveFails
  <1>10. ASSUME NextTopic(s), UNCHANGED <<count, stop, signals>>
         PROVE  /\ step'[s] = step[s] + 1 /\ count'[s] = count[s]
                /\ pc'[s] = (IF step'[s] = count[s] THEN "exited" ELSE "unsubscribe")
                /\ call'[s] = "entering"
                /\ \A z \in Subscribers \ {s} : Rests(z) /\ call'[z] = call[z]
    <2>1. /\ step' = [step EXCEPT ![s] = step[s] + 1]
          /\ Goto(s, IF step'[s] = count[s] THEN "exited" ELSE "unsubscribe")
      BY <1>10 DEF NextTopic
    <2>2. step'[s] = step[s] + 1 /\ \A z \in Subscribers \ {s} : step'[z] = step[z]
      BY <1>0, <2>1
    <2> QED
      BY <1>1, <1>10, <2>1, <2>2 DEF Rests
  <1>11. CASE Unsubscribe(s)
    <2>1. TakesOneBack(s)
      BY <1>11, UnsubscribeAppends DEF TakesOneBack, Unsubscribe, lists, history
    <2>2. NextTopic(s) /\ UNCHANGED <<count, stop, signals>>
      BY <1>11 DEF Unsubscribe, outside
    <2>3. TakesBackNext(s)
      BY <1>10, <2>1, <2>2 DEF TakesBackNext
    <2> QED
      BY <1>10, <2>2, <2>3
  <1>12. CASE UnsubscribeFails(s)
    <2>1. pc[s] = "unsubscribe" /\ UNCHANGED <<count, stop, signals>>
      BY <1>12 DEF UnsubscribeFails, outside
    <2>2. CASE Interrupted(s) /\ NextTopic(s)
      <3>1. Fails(s)
        BY <1>10, <2>1, <2>2 DEF Interrupted, Fails
      <3> QED
        BY <1>10, <2>1, <2>2, <3>1
    <2>3. CASE QueueGone /\ Goto(s, "exited") /\ UNCHANGED step
      BY <1>8, <2>1, <2>3 DEF QueueGone
    <2> QED
      BY <1>12, <2>2, <2>3 DEF UnsubscribeFails
  <1> QED
    BY <1>2, <1>3, <1>5, <1>6, <1>7, <1>9, <1>11, <1>12 DEF SubscriberStep

\* SIGINT has reached s, from its user or from the broker.
Signal(s) == stop'[s] /\ (signals'[s] = signals[s] + 1 \/ pc'[Broker] = "drain")

LEMMA ControlOfStep ==
    ASSUME TypeInv, [Next]_vars, NEW s \in Subscribers
    PROVE  /\ \/ Rests(s) \/ Works(s) \/ Asks(s) \/ Leaves(s) \/ TakesBackNext(s) \/ Fails(s)
              \/ Dies(s)
           /\ call'[s] = "interrupted" => pc'[s] = pc[s] /\ (call[s] = "interrupted" \/ Signal(s))
           /\ stop'[s] => stop[s] \/ Signal(s)
           /\ stop[s] => stop'[s]
           /\ signals[s] <= signals'[s]
  <1>0. /\ s \in Procs /\ s \in Procs \ Publishers /\ s # Broker /\ s \notin Publishers /\ Broker \in Procs
        /\ pc \in [Procs -> AllStages] /\ call \in [Procs -> CallStates]
        /\ step \in [Subscribers -> Nat] /\ count \in [Subscribers -> Nat]
        /\ stop \in [Procs \ Publishers -> BOOLEAN] /\ signals \in [Procs \ Publishers -> Nat]
    BY Different DEF TypeInv, PcTyped, ControlTyped, StepInv, AllStages, CallStates
  <1>1. signals[s] \in Nat /\ signals[s] <= signals[s]
    BY <1>0
  <1>2. ASSUME Rests(s), call'[s] = call[s], stop'[s] = stop[s], signals'[s] = signals[s]
        PROVE  /\ Rests(s)
               /\ call'[s] = "interrupted" => pc'[s] = pc[s] /\ (call[s] = "interrupted" \/ Signal(s))
               /\ stop'[s] => stop[s] \/ Signal(s)
               /\ stop[s] => stop'[s]
               /\ signals[s] <= signals'[s]
    BY <1>1, <1>2 DEF Rests
  <1>3. CASE StartSubscriber(s) \/ SubscriberStep(s)
    BY <1>1, <1>3, OwnStep
  <1>4. ASSUME NEW z \in Subscribers \ {s}, StartSubscriber(z) \/ SubscriberStep(z)
        PROVE  Rests(s) /\ call'[s] = call[s] /\ stop'[s] = stop[s] /\ signals'[s] = signals[s]
    BY <1>4, OwnStep
  <1>5. ASSUME NEW x \in Procs, NEW w, x # s, Goto(x, w), UNCHANGED <<step, count, stop, signals>>
        PROVE  Rests(s) /\ call'[s] = call[s] /\ stop'[s] = stop[s] /\ signals'[s] = signals[s]
    BY <1>0, <1>5, GotoMoves DEF Rests
  <1>6. CASE BrokerStep
    <2>1. CASE StartBroker \/ CheckBroker \/ BrokerReceiveFails \/ Forward \/ ForwardFails
               \/ DrainAgain \/ RemoveQueue
      <3>1. UNCHANGED <<step, count, stop, signals>>
        BY <2>1 DEF StartBroker, CheckBroker, BrokerReceiveFails, Forward, ForwardFails, DrainAgain,
                    RemoveQueue, progress, outside
      <3>2. \E w : Goto(Broker, w)
        BY <2>1 DEF StartBroker, CheckBroker, BrokerReceiveFails, Forward, ForwardFails, DrainAgain,
                    RemoveQueue
      <3> QED
        BY <1>0, <1>2, <1>5, <3>1, <3>2
    <2>2. CASE BrokerReceive
      <3>1. UNCHANGED <<step, count, stop, signals>>
        BY <2>2 DEF BrokerReceive, progress, outside
      <3>2. \E w : Goto(Broker, w)
        <4>1. PICK i \in DOMAIN queue : \/ ReceiveSend(queue[i]) \/ ReceiveSubscribe(queue[i])
                                        \/ ReceiveUnsubscribe(queue[i])
          BY <2>2 DEF BrokerReceive
        <4> QED
          BY <4>1 DEF ReceiveSend, ReceiveSubscribe, ReceiveUnsubscribe
      <3> QED
        BY <1>0, <1>2, <1>5, <3>1, <3>2
    <2>3. CASE Drain
      <3>1. UNCHANGED <<step, count, stop, signals>>
        BY <2>3 DEF Drain, progress, outside
      <3>2. CASE UNCHANGED <<pc, call>>
        BY <1>2, <3>1, <3>2 DEF Rests
      <3>3. CASE \E w : Goto(Broker, w)
        BY <1>0, <1>2, <1>5, <3>1, <3>3
      <3> QED
        BY <2>3, <3>2, <3>3 DEF Drain
    <2>4. CASE NotifyPublishers
      <3>1. UNCHANGED <<step, count, stop, signals, call>>
        BY <2>4 DEF NotifyPublishers, progress, outside
      <3>2. pc'[s] = pc[s] \/ pc'[s] = "killed"
        BY <1>0, <2>4 DEF NotifyPublishers
      <3>3. CASE pc'[s] = pc[s]
        BY <1>2, <3>1, <3>3 DEF Rests
      <3>4. CASE pc'[s] # pc[s]
        <4>1. ~Contains(publishers, s)
          <5>1. publishers \in Seq(Publishers)
            BY DEF TypeInv, DataTyped
          <5>2. \A i \in 1 .. Len(publishers) : publishers[i] \in Publishers
            BY <5>1, ElementOfSeq
          <5> QED
            BY <1>0, <5>2 DEF Contains
        <4> QED
          BY <1>0, <2>4, <3>4, <4>1 DEF NotifyPublishers
      <3> QED
        BY <3>3, <3>4
    <2>5. CASE NotifySubscribers
      <3>1. PICK some : Signalled(some)
        BY <2>5 DEF NotifySubscribers
      <3>2. Rests(s) /\ pc'[Broker] = "drain" /\ signals'[s] = signals[s]
        BY <1>0, <2>5 DEF NotifySubscribers, Rests, progress, outside
      <3>3. /\ call'[s] = "interrupted" => call[s] = "interrupted" \/ s \in some
            /\ stop'[s] = (stop[s] \/ s \in some)
        BY <1>0, <3>1 DEF Signalled
      <3> QED
        BY <1>1, <3>2, <3>3 DEF Signal, Rests
    <2> QED
      BY <1>6, <2>1, <2>2, <2>3, <2>4, <2>5 DEF BrokerStep
  <1>7. ASSUME NEW p \in Publishers,
               StartPublisher(p) \/ ReadInput(p) \/ NoticeRemoval(p) \/ Send(p)
        PROVE  Rests(s) /\ call'[s] = call[s] /\ stop'[s] = stop[s] /\ signals'[s] = signals[s]
    <2>1. UNCHANGED <<step, count, stop, signals>>
      BY <1>7 DEF StartPublisher, ReadInput, NoticeRemoval, Send, progress, outside
    <2>2. \E w : Goto(p, w)
      BY <1>7 DEF StartPublisher, ReadInput, NoticeRemoval, Send
    <2>3. p \in Procs /\ p # s
      BY <1>0, Different
    <2> QED
      BY <1>5, <2>1, <2>2, <2>3
  <1>8. ASSUME NEW x \in Procs, Sleep(x)
        PROVE  Rests(s) /\ (call'[s] = call[s] \/ call'[s] = "asleep") /\ stop'[s] = stop[s]
               /\ signals'[s] = signals[s]
    BY <1>0, <1>8 DEF Sleep, Rests, progress, outside
  <1>9. ASSUME NEW x \in Procs, Interrupt(x)
        PROVE  /\ Rests(s) /\ signals[s] <= signals'[s]
               /\ call'[s] = "interrupted" => call[s] = "interrupted" \/ Signal(s)
               /\ stop'[s] => stop[s] \/ Signal(s)
               /\ stop[s] => stop'[s]
    <2>1. /\ Signalled({x}) /\ signals' = [signals EXCEPT ![x] = @ + 1]
          /\ UNCHANGED <<pc, step, count>> /\ x \in Procs \ Publishers
      BY <1>9 DEF Interrupt, progress
    <2>2. /\ call'[s] = "interrupted" => call[s] = "interrupted" \/ s = x
          /\ stop'[s] = (stop[s] \/ s = x)
      BY <1>0, <2>1 DEF Signalled
    <2>3. signals'[s] = IF s = x THEN signals[s] + 1 ELSE signals[s]
      BY <1>0, <2>1
    <2>4. Rests(s) /\ signals[s] <= signals'[s]
      BY <1>1, <2>1, <2>3 DEF Rests
    <2>5. s = x => Signal(s)
      BY <2>2, <2>3 DEF Signal
    <2> QED
      BY <2>2, <2>4, <2>5
  <1>10. ASSUME NEW x \in Procs, Kill(x)
         PROVE  /\ Rests(s) \/ Dies(s)
                /\ call'[s] = "interrupted" => pc'[s] = pc[s] /\ call[s] = "interrupted"
                /\ stop'[s] = stop[s] /\ signals'[s] = signals[s]
    <2>1. Goto(x, "killed") /\ UNCHANGED <<step, count, stop, signals>>
      BY <1>10 DEF Kill, progress, outside
    <2>2. CASE x = s
      <3>1. pc'[s] = "killed" /\ call'[s] = "entering"
        BY <1>0, <2>1, <2>2, GotoMoves
      <3> QED
        BY <2>1, <3>1 DEF Dies
    <2>3. CASE x # s
      BY <1>5, <2>1, <2>3 DEF Rests
    <2> QED
      BY <2>2, <2>3
  <1>11. CASE RemovedByOther \/ UNCHANGED vars
    BY <1>2, <1>11 DEF RemovedByOther, vars, Rests, progress, outside
  <1>12. CASE \E z \in Subscribers : StartSubscriber(z) \/ SubscriberStep(z)
    BY <1>2, <1>3, <1>4, <1>12
  <1>13. CASE \E p \in Publishers : StartPublisher(p) \/ ReadInput(p) \/ NoticeRemoval(p) \/ Send(p)
    BY <1>2, <1>7, <1>13
  <1>14. CASE \E x \in Procs : Sleep(x)
    BY <1>1, <1>8, <1>14 DEF Rests
  <1>15. CASE \E x \in Procs : Interrupt(x)
    BY <1>9, <1>15 DEF Rests
  <1>16. CASE \E x \in Procs : Kill(x)
    BY <1>1, <1>10, <1>16
  <1> QED
    BY <1>6, <1>11, <1>12, <1>13, <1>14, <1>15, <1>16 DEF Next, AllGone

\* The queue is not there before the broker, and does not come back.
LEMMA LifeOfStep ==
    ASSUME TypeInv, StartInv, [Next]_vars
    PROVE  /\ exists = "removed" => exists' = "removed"
           /\ exists # "none" => exists' # "none"
  BY DEF StartInv, Next, BrokerStep, StartBroker, CheckBroker, BrokerReceive, BrokerReceiveFails,
     Forward, ForwardFails, NotifyPublishers, NotifySubscribers, Drain, DrainAgain, RemoveQueue,
     AfterRemoval, StartSubscriber, SubscriberStep, Subscribe, SubscribeFails, CheckSubscriber,
     SubscriberReceive, SubscriberReceiveFails, Unsubscribe, UnsubscribeFails,
     StartPublisher, ReadInput, NoticeRemoval, Send, Sleep, Interrupt, Kill, RemovedByOther,
     AllGone, vars

LEMMA MadeOfStep ==
    ASSUME TypeInv, StartInv, DataInv, [Next]_vars, NEW s \in Subscribers, NEW topic \in Topics,
           Made(s, topic)'
    PROVE  Made(s, topic) \/ (Asks(s) /\ topic = TopicsOf[s][step[s] + 1])
  <1>1. PICK e : e = [pid |-> s, topic |-> topic]
    OBVIOUS
  <1>2. DataStep
    BY EffectOfStep DEF DataInv
  <1>3. CASE Contains(subscriptions', e)
    <2>1. CASE subscriptions' = subscriptions
      BY <1>1, <1>3, <2>1 DEF Made
    <2>2. CASE subscriptions' # subscriptions
      <3>1. PICK i, h : Receives(i, h)
        BY <1>2, <2>2 DEF DataStep, DataStill, Forwards, GivesUp, Loses, Asks, TakesOneBack,
                          PrintsOnly, SendsOnly
      <3>2. PICK m : m = queue[i]
        OBVIOUS
      <3>3. /\ SendEffect(m) \/ SubscribeEffect(m) \/ UnsubscribeEffect(m)
            /\ i \in 1 .. Len(queue)
        BY <3>1, <3>2 DEF Receives, ReceiveEffect, Takes
      <3>4. CASE SubscribeEffect(m) /\ ~Contains(subscriptions, e)
        <4>1. e = [pid |-> m.from, topic |-> m.topic] /\ m.command = "subscribe"
          BY <1>3, <3>4 DEF SubscribeEffect
        <4>2. m.from = s /\ m.topic = topic
          BY <1>1, <4>1
        <4> QED
          BY <3>2, <3>3, <4>1, <4>2 DEF Made, Command
      <3>5. CASE Contains(subscriptions, e)
        BY <1>1, <3>5 DEF Made
      <3> QED
        BY <1>3, <2>2, <3>3, <3>4, <3>5 DEF SendEffect, UnsubscribeEffect
    <2> QED
      BY <2>1, <2>2
  <1>4. CASE \E j \in 1 .. Len(queue') : Command(queue'[j], "subscribe", s, topic)
    <2>1. PICK j \in 1 .. Len(queue') : Command(queue'[j], "subscribe", s, topic)
      BY <1>4
    <2>2. queue'[j].command = "subscribe" /\ queue'[j].from = s /\ queue'[j].topic = topic
      BY <2>1 DEF Command
    <2>3. CASE WasQueued(j)
      BY <2>1, <2>3 DEF WasQueued, Made
    <2>4. CASE Asks(s) /\ queue'[j] = CommandTo(s, "subscribe")
      BY <2>2, <2>4 DEF Asks
    <2>5. CommandTo(s, "unsubscribe").command = "unsubscribe"
      BY DEF CommandTo, ToBroker
    <2> QED
      BY <2>2, <2>3, <2>4, <2>5, QueueOfStep
  <1> QED
    BY <1>1, <1>3, <1>4 DEF Made

LEMMA MadeStep ==
    ASSUME TypeInv, TypeInv', StartInv, DataInv, MadeInv, LeftInv', [Next]_vars
    PROVE  MadeInv'
  <1>1. ASSUME NEW s \in Subscribers, NEW i \in 1 .. Len(queue'), NEW j \in 1 .. Len(queue'),
               i < j, queue'[i].from = s, queue'[j].from = s,
               queue'[i].command = "unsubscribe", queue'[j].command = "subscribe"
        PROVE  FALSE
    <2>1. CASE WasQueued(j)
      <3>1. PICK k \in 1 .. Len(queue) :
               queue'[j] = queue[k] /\ \A a \in 1 .. j - 1 : \E l \in 1 .. k - 1 : queue'[a] = queue[l]
        BY <2>1 DEF WasQueued
      <3>2. Len(queue) \in Nat /\ Len(queue') \in Nat
        BY LenProperties DEF TypeInv, DataTyped
      <3>3. i \in 1 .. j - 1
        BY <1>1, <3>2
      <3>4. PICK l \in 1 .. k - 1 : queue'[i] = queue[l]
        BY <3>1, <3>3
      <3>5. l \in 1 .. Len(queue) /\ l < k
        BY <3>2
      <3> QED
        BY <1>1, <3>1, <3>4, <3>5 DEF MadeInv
    <2>2. CASE Asks(s)
      <3>1. pc'[s] \in {"subscribe", "check"}
        BY <2>2 DEF Asks
      <3> QED
        BY <1>1, <3>1 DEF LeftInv
    <2>3. CommandTo(s, "unsubscribe").command = "unsubscribe"
      BY DEF CommandTo, ToBroker
    <2> QED
      BY <1>1, <2>1, <2>2, <2>3, QueueOfStep
  <1>2. ASSUME NEW s \in Subscribers, NEW topic \in Topics, Made(s, topic)'
        PROVE  exists' # "none" /\ \E k \in 1 .. count'[s] : TopicsOf[s][k] = topic
    <2>0. count[s] \in Nat /\ count'[s] \in Nat
      BY DEF TypeInv, StepInv
    <2>1. CASE Asks(s)
      <3>1. /\ count'[s] = count[s] + 1 /\ pc[s] = "subscribe" /\ exists = "there"
        BY <2>1 DEF Asks, Appends
      <3>2. step[s] = count[s]
        BY <3>1 DEF TypeInv, StepInv
      <3>3. exists' # "none"
        BY <3>1, LifeOfStep
      <3>4. CASE Made(s, topic)
        <4>1. PICK k \in 1 .. count[s] : TopicsOf[s][k] = topic
          BY <3>4 DEF MadeInv
        <4>2. k \in 1 .. count'[s]
          BY <2>0, <3>1
        <4> QED
          BY <3>3, <4>1, <4>2
      <3>5. CASE topic = TopicsOf[s][step[s] + 1]
        <4>1. count[s] + 1 \in 1 .. count'[s]
          BY <2>0, <3>1
        <4> QED
          BY <3>2, <3>3, <3>5, <4>1
      <3> QED
        BY <1>2, <3>4, <3>5, MadeOfStep
    <2>2. CASE ~Asks(s)
      <3>1. count'[s] = count[s]
        BY <2>2, ControlOfStep DEF Rests, Works, Leaves, TakesBackNext, Fails, Dies
      <3>2. Made(s, topic)
        BY <1>2, <2>2, MadeOfStep
      <3> QED
        BY <3>1, <3>2, LifeOfStep DEF MadeInv
    <2> QED
      BY <2>1, <2>2
  <1> QED
    BY <1>1, <1>2 DEF MadeInv

LEMMA StopStep ==
    ASSUME TypeInv, TypeInv', StartInv, StopInv, [Next]_vars
    PROVE  StopInv'
  <1>1. ASSUME NEW s \in Subscribers, call'[s] = "interrupted" PROVE stop'[s]
    BY <1>1, ControlOfStep DEF StopInv, Signal
  <1>2. ASSUME pc'[Broker] \in Asking PROVE pc[Broker] \in Asking /\ pc'[Broker] # "drain"
    BY <1>2, StagesOfStep DEF Asking, Serving, Notifying
  <1>3. ASSUME pc'[Broker] \in Asking, NEW s \in Subscribers
        PROVE  /\ stop'[s] => signals'[s] >= 1
               /\ pc'[s] = "unsubscribe" => stop'[s] \/ exists' = "removed"
               /\ pc'[s] = "unsubscribe" /\ call'[s] = "interrupted" =>
                     signals'[s] >= 2 \/ exists' = "removed"
    <2>0. signals[s] \in Nat /\ signals'[s] \in Nat
      BY Different DEF TypeInv, ControlTyped
    <2>1. /\ stop[s] => signals[s] >= 1
          /\ pc[s] = "unsubscribe" => stop[s] \/ exists = "removed"
          /\ pc[s] = "unsubscribe" /\ call[s] = "interrupted" =>
                signals[s] >= 2 \/ exists = "removed"
          /\ call[s] = "interrupted" => stop[s]
      BY <1>2, <1>3 DEF StopInv
    <2>2. Signal(s) => stop'[s] /\ signals'[s] = signals[s] + 1
      BY <1>2, <1>3 DEF Signal
    <2>3. /\ call'[s] = "interrupted" => pc'[s] = pc[s] /\ (call[s] = "interrupted" \/ Signal(s))
          /\ stop'[s] => stop[s] \/ Signal(s)
          /\ stop[s] => stop'[s]
          /\ signals[s] <= signals'[s]
      BY ControlOfStep
    <2>4. stop'[s] => signals'[s] >= 1
      BY <2>0, <2>1, <2>2, <2>3
    <2>5. ASSUME pc'[s] = "unsubscribe" PROVE stop'[s] \/ exists' = "removed"
      <3>1. pc[s] = "unsubscribe" \/ call[s] = "interrupted" \/ stop[s] \/ exists = "removed"
        BY <2>5, ControlOfStep DEF Rests, Works, Asks, Leaves, TakesBackNext, TakesOneBack, Fails, Dies
      <3> QED
        BY <2>1, <2>3, <3>1, LifeOfStep
    <2>6. ASSUME pc'[s] = "unsubscribe", call'[s] = "interrupted"
          PROVE  signals'[s] >= 2 \/ exists' = "removed"
      <3>1. pc[s] = "unsubscribe" /\ (call[s] = "interrupted" \/ Signal(s))
        BY <2>3, <2>6
      <3>2. CASE exists = "removed"
        BY <3>2, LifeOfStep
      <3>3. CASE exists # "removed"
        BY <2>0, <2>1, <2>2, <2>3, <3>1, <3>3
      <3> QED
        BY <3>2, <3>3
    <2> QED
      BY <2>4, <2>5, <2>6
  <1> QED
    BY <1>1, <1>3 DEF StopInv

\* A subscription of a subscriber that stops listening is taken back, or will be.
LEMMA StaleStep ==
    ASSUME TypeInv, TypeInv', StartInv, DataInv, LeavingInv, [Next]_vars
    PROVE  StaleInv'
  <1> SUFFICES ASSUME pc'[Broker] \in Serving, exists' = "there",
                      NEW s \in Subscribers, NEW topic \in Topics,
                      signals'[s] <= 1, Made(s, topic)'
               PROVE  \/ Listening(s)' \/ pc'[s] = "killed"
                      \/ TakesBack(s, topic)' \/ WillTakeBack(s, topic)'
    BY DEF StaleInv
  <1>1. CASE Asks(s)
    BY <1>1 DEF Asks, Listening
  <1>2. CASE ~Asks(s)
    <2>1. Made(s, topic)
      BY <1>2, MadeOfStep
    <2>2. PICK k \in 1 .. count[s] : TopicsOf[s][k] = topic /\ exists # "none"
      BY <2>1 DEF LeavingInv, MadeInv
    <2>3. pc[Broker] \in Serving /\ exists = "there"
      BY <2>2, StagesOfStep, ExistsOfStep DEF StartInv
    <2>4. /\ signals[s] \in Nat /\ signals'[s] \in Nat /\ step[s] \in Nat /\ count[s] \in Nat
      BY Different DEF TypeInv, ControlTyped, StepInv
    <2>5. signals[s] <= 1
      BY <2>4, ControlOfStep
    <2>6. Listening(s) \/ pc[s] = "killed" \/ TakesBack(s, topic) \/ WillTakeBack(s, topic)
      BY <2>1, <2>3, <2>5 DEF LeavingInv, StaleInv
    <2>7. ~Fails(s)
      <3>1. pc[s] = "unsubscribe" /\ call[s] = "interrupted" => signals[s] >= 2
        BY <2>3 DEF LeavingInv, StopInv, Asking, Serving
      <3> QED
        BY <2>3, <2>4, <2>5, <3>1 DEF Fails
    <2>8. Rests(s) \/ Works(s) \/ Leaves(s) \/ TakesBackNext(s) \/ Dies(s)
      BY <1>2, <2>7, ControlOfStep
    <2>9. CASE TakesBack(s, topic)
      <3> SUFFICES TakesBack(s, topic)'
        OBVIOUS
      <3>1. PICK a \in 1 .. Len(queue) : Command(queue[a], "unsubscribe", s, topic)
        BY <2>9 DEF TakesBack
      <3>2. DataStep
        BY EffectOfStep DEF DataInv
      <3>3. ASSUME NEW m, Appends(m) PROVE TakesBack(s, topic)'
        BY <3>1, <3>3, AppendedElements DEF TakesBack
      <3>4. ASSUME NEW x, NEW i, NEW h, Takes(x, i, h), i # a PROVE TakesBack(s, topic)'
        <4>1. PICK j \in 1 .. Len(queue') : h[j] = a
          BY <3>4 DEF Takes, Without
        <4>2. queue'[j] = queue[a]
          BY <3>4, <4>1, TakenFirst
        <4> QED
          BY <3>1, <4>2 DEF TakesBack
      <3>5. ASSUME NEW i, NEW h, Receives(i, h) PROVE TakesBack(s, topic)'
        <4>1. Takes(Broker, i, h)
          BY <3>5 DEF Receives, ReceiveEffect
        <4>2. CASE i # a
          BY <3>4, <4>1, <4>2
        <4>3. CASE i = a
          <5>1. PICK m : m = queue[a]
            OBVIOUS
          <5>2. m.command = "unsubscribe" /\ m.from = s /\ m.topic = topic
            BY <3>1, <5>1 DEF Command
          <5>3. UnsubscribeEffect(m)
            BY <3>5, <4>3, <5>1, <5>2 DEF Receives, ReceiveEffect, SendEffect, SubscribeEffect
          <5>4. ~Contains(subscriptions', [pid |-> s, topic |-> topic])
            BY <5>2, <5>3 DEF UnsubscribeEffect
          <5>5. PICK j \in 1 .. Len(queue') : Command(queue'[j], "subscribe", s, topic)
            BY <5>4 DEF Made
          <5>6. h[j] \in 1 .. Len(queue) /\ queue'[j] = queue[h[j]] /\ queue'[j].to = Broker => i < h[j]
            BY <4>1, TakenFirst
          <5>7. h[j] \in 1 .. Len(queue) /\ queue'[j] = queue[h[j]]
            BY <4>1, TakenFirst
          <5>8. queue[h[j]].to = Broker /\ queue[h[j]].from = s /\ queue[h[j]].command = "subscribe"
            BY <5>5, <5>7 DEF Command, DataInv, ContentInv, Proper, ProperFor
          <5>9. a < h[j]
            BY <4>3, <5>6, <5>7, <5>8
          <5> QED
            BY <5>1, <5>2, <5>7, <5>8, <5>9 DEF LeavingInv, MadeInv
        <4> QED
          BY <4>2, <4>3
      <3>6. ASSUME NEW h, Loses(h) PROVE FALSE
        BY <2>3, <3>6 DEF Loses, Serving
      <3>7. ASSUME NEW z \in Subscribers, NEW i, NEW h, PrintsOnly(z, i, h) PROVE TakesBack(s, topic)'
        <4>1. Takes(z, i, h) /\ queue[i].command = "send"
          BY <3>7 DEF PrintsOnly, Prints
        <4>2. i # a
          BY <3>1, <4>1 DEF Command
        <4> QED
          BY <3>4, <4>1, <4>2
      <3>8. CASE DataStill \/ GivesUp
        BY <3>1, <3>8 DEF DataStill, GivesUp, TakesBack
      <3> QED
        BY <3>2, <3>3, <3>5, <3>6, <3>7, <3>8
           DEF DataStep, Forwards, Asks, TakesOneBack, SendsOnly, Sends
    <2>10. CASE Listening(s)
      <3>1. CASE Rests(s) \/ Works(s)
        BY <2>10, <3>1 DEF Rests, Works, Listening
      <3>2. CASE Leaves(s)
        <4>1. count[s] # 0 /\ k \in 0 + 1 .. count[s]
          BY <2>2, <2>4
        <4> QED
          BY <2>2, <3>2, <4>1 DEF Leaves, WillTakeBack
      <3>3. CASE TakesBackNext(s)
        BY <2>10, <3>3 DEF TakesBackNext, TakesOneBack, Listening
      <3> QED
        BY <2>8, <3>1, <3>2, <3>3 DEF Dies
    <2>11. CASE pc[s] = "killed"
      BY <2>8, <2>11 DEF Rests, Works, Leaves, Listening, TakesBackNext, TakesOneBack, Dies
    <2>12. CASE WillTakeBack(s, topic)
      <3>1. pc[s] = "unsubscribe" /\ \E l \in step[s] + 1 .. count[s] : TopicsOf[s][l] = topic
        BY <2>12 DEF WillTakeBack
      <3>2. PICK l \in step[s] + 1 .. count[s] : TopicsOf[s][l] = topic
        BY <3>1
      <3>3. CASE Rests(s)
        BY <3>1, <3>3 DEF Rests, WillTakeBack
      <3>4. CASE TakesBackNext(s)
        <4>1. /\ Appends(CommandTo(s, "unsubscribe")) /\ count'[s] = count[s]
              /\ step'[s] = step[s] + 1
              /\ pc'[s] = (IF step'[s] = count[s] THEN "exited" ELSE "unsubscribe")
          BY <3>4 DEF TakesBackNext, TakesOneBack
        <4>2. CASE l = step[s] + 1
          <5>1. Command(CommandTo(s, "unsubscribe"), "unsubscribe", s, topic)
            BY <3>2, <4>2 DEF Command, CommandTo, ToBroker
          <5>2. TakesBack(s, topic)'
            BY <4>1, <5>1, AppendedElements DEF TakesBack
          <5> QED
            BY <5>2
        <4>3. CASE l # step[s] + 1
          <5>1. l \in step'[s] + 1 .. count[s] /\ step'[s] # count[s]
            BY <2>4, <3>2, <4>1, <4>3
          <5> QED
            BY <3>2, <4>1, <5>1 DEF WillTakeBack
        <4> QED
          BY <4>2, <4>3
      <3> QED
        BY <2>8, <3>1, <3>3, <3>4 DEF Works, Leaves, Listening, Dies
    <2> QED
      BY <2>6, <2>9, <2>10, <2>11, <2>12
  <1> QED
    BY <1>1, <1>2

LEMMA LeavingStart == Init => LeavingInv
  <1> SUFFICES ASSUME Init PROVE LeavingInv
    OBVIOUS
  <1>1. Len(<<>>) = 0 /\ 1 .. 0 = {}
    OBVIOUS
  <1>2. queue = <<>> /\ subscriptions = <<>> /\ pc[Broker] = "start"
    BY Different DEF Init
  <1>3. MadeInv
    BY <1>1, <1>2 DEF MadeInv, Made, Contains
  <1>4. StopInv
    BY Different DEF Init, StopInv
  <1>5. StaleInv
    BY <1>2 DEF StaleInv, Serving
  <1> QED
    BY <1>3, <1>4, <1>5 DEF LeavingInv

-----------------------------------------------------------------------------
(* The properties.                                                         *)

Inv == TypeInv /\ StartInv /\ DataInv /\ ToldInv /\ CoverInv /\ LeavingInv

\* The inductive invariant.
THEOREM Invariant == Spec => []Inv
  <1>1. Init => Inv
    BY TypeStart, DataStart, LeavingStart DEF Inv
  <1>2. Inv /\ [Next]_vars => Inv'
    <2> SUFFICES ASSUME Inv, [Next]_vars PROVE Inv'
      OBVIOUS
    <2>1. TypeInv /\ StartInv /\ DataInv /\ ToldInv /\ CoverInv /\ LeavingInv
      BY DEF Inv
    <2>2. TypeInv' /\ StartInv'
      BY <2>1, TypeStep DEF DataInv
    <2>3. DataInv' /\ ToldInv' /\ CoverInv'
      BY <2>1, <2>2, DataStepKeeps, ToldStep, CoverStep
    <2>4. LeavingInv'
      <3>1. MadeInv' /\ StopInv'
        BY <2>1, <2>2, <2>3, MadeStep, StopStep DEF LeavingInv, CoverInv
      <3> QED
        BY <2>1, <2>2, <3>1, StaleStep DEF LeavingInv
    <2> QED
      BY <2>2, <2>3, <2>4 DEF Inv
  <1> QED
    BY <1>1, <1>2, PTL DEF Spec

\* A bounded set of numbers above a with no gap.
LEMMA NoGapInterval ==
    ASSUME NEW S \in SUBSET Nat, NEW a \in Int, -1 <= a, NEW bound \in Nat,
           \A n \in S : a < n /\ n <= bound,
           \A n \in S : \A m \in Nat : a < m /\ m < n => m \in S
    PROVE  S = a + 1 .. a + Cardinality(S)
  <1>1. CASE S = {}
    BY <1>1, FS_EmptySet
  <1>2. CASE S # {}
    <2>1. PICK T \in SUBSET Nat : T = {m \in Nat : \A n \in S : n <= m}
      OBVIOUS
    <2>2. T # {}
      BY <2>1
    <2>3. PICK k \in T : \A m \in T : k <= m
      BY <2>2, LeastNatural
    <2>4. k \in S
      <3> SUFFICES ASSUME k \notin S PROVE FALSE
        OBVIOUS
      <3>1. \A n \in S : n <= k - 1
        BY <2>1, <2>3
      <3>2. k - 1 \in Nat
        <4>1. PICK n \in S : TRUE
          BY <1>2
        <4>2. n \in Nat /\ k \in Nat /\ n <= k - 1
          BY <2>1, <3>1
        <4> QED
          BY <4>2
      <3>3. k - 1 \in T
        BY <2>1, <3>1, <3>2
      <3> QED
        BY <2>3, <3>3
    <2>5. k \in Nat /\ a < k /\ \A n \in S : n <= k
      BY <2>1, <2>3, <2>4
    <2>6. S = a + 1 .. k
      <3>1. ASSUME NEW m \in a + 1 .. k PROVE m \in S
        <4>1. m \in Nat /\ a < m /\ (m < k \/ m = k)
          BY <2>5
        <4> QED
          BY <2>4, <4>1
      <3>2. ASSUME NEW m \in S PROVE m \in a + 1 .. k
        BY <2>5
      <3> QED
        BY <3>1, <3>2
    <2>7. Cardinality(a + 1 .. k) = k - a
      <3>1. PICK b \in Int : b = a + 1
        OBVIOUS
      <3>2. Cardinality(b .. k) = IF b > k THEN 0 ELSE k - b + 1
        BY <2>5, FS_Interval
      <3> QED
        BY <2>5, <3>1, <3>2
    <2>8. a + Cardinality(S) = k
      BY <2>5, <2>6, <2>7
    <2> QED
      BY <2>6, <2>8
  <1> QED
    BY <1>1, <1>2

LEMMA InvNoGaps ==
    ASSUME Inv
    PROVE  NoGaps
  <1> SUFFICES ASSUME pc[Broker] \in Serving \cup Notifying,
                      NEW s \in Subscribers, NEW p \in Publishers
               PROVE  Numbers(s, p) = since[s][p] + 1 .. since[s][p] + Cardinality(Numbers(s, p))
    BY DEF NoGaps, Serving, Notifying
  <1>1. TypeInv /\ DataInv /\ GaplessInv
    BY DEF Inv, CoverInv
  <1>2. PICK S : S = Numbers(s, p)
    OBVIOUS
  <1>3. PICK got \in Seq(Publishers \X (1 .. MaxPublications)) : got = received[s]
    BY <1>1 DEF TypeInv, DataTyped
  <1>4. DOMAIN got = 1 .. Len(got) /\ \A r \in 1 .. Len(got) : got[r] \in Publishers \X (1 .. MaxPublications)
    BY ElementOfSeq
  <1>5. S = {got[i][2] : i \in {j \in 1 .. Len(got) : got[j][1] = p}}
    BY <1>2, <1>3, <1>4 DEF Numbers
  <1>6. \A n : n \in S <=> Printed(s, p, n)
    <2> TAKE n
    <2>1. ASSUME NEW i \in 1 .. Len(got) PROVE got[i] = <<p, n>> <=> got[i][1] = p /\ got[i][2] = n
      BY <1>4
    <2>2. Printed(s, p, n) <=> \E i \in 1 .. Len(got) : got[i] = <<p, n>>
      BY <1>3 DEF Printed
    <2> QED
      BY <1>5, <2>1, <2>2
  <1>7. \A i \in 1 .. Len(got) : got[i][2] \in 1 .. MaxPublications
    BY <1>4
  <1>8. S \in SUBSET Nat
    BY <1>5, <1>7, BoundsAssumption
  <1>9. since[s][p] \in Int /\ -1 <= since[s][p] /\ MaxPublications \in Nat
    BY <1>1, BoundsAssumption DEF TypeInv, DataTyped
  <1>10. ASSUME NEW n \in S
         PROVE  since[s][p] # Never /\ since[s][p] < n /\ n <= MaxPublications
    <2>1. PICK i \in 1 .. Len(got) : got[i][1] = p /\ got[i][2] = n
      BY <1>5, <1>10
    <2>2. Asked(s, p, n)
      BY <1>1, <1>3, <2>1 DEF DataInv, SinceInv
    <2>3. n \in 1 .. MaxPublications
      BY <1>7, <2>1
    <2> QED
      BY <1>9, <2>2, <2>3 DEF Asked
  <1>11. ASSUME NEW n \in S, NEW m \in Nat, since[s][p] < m, m < n
         PROVE  m \in S
    <2>1. Asked(s, p, m)
      BY <1>9, <1>10, <1>11 DEF Asked
    <2>2. Printed(s, p, n) /\ n \in Nat
      BY <1>6, <1>8
    <2>3. Printed(s, p, m)
      BY <1>1, <1>11, <2>1, <2>2 DEF GaplessInv
    <2> QED
      BY <1>6, <2>3
  <1>12. S = since[s][p] + 1 .. since[s][p] + Cardinality(S)
    BY <1>8, <1>9, <1>10, <1>11, NoGapInterval
  <1> QED
    BY <1>2, <1>12

LEMMA InvInOrderOnce ==
    ASSUME Inv
    PROVE  InOrderOnce
  <1>1. /\ TypeInv /\ ReceivedOrder
        /\ \A s \in Subscribers : \A r \in 1 .. Len(received[s]) :
              Asked(s, received[s][r][1], received[s][r][2])
    BY DEF Inv, DataInv, OrderInv, SinceInv
  <1>2. \A s \in Subscribers : DOMAIN received[s] = 1 .. Len(received[s])
    BY <1>1 DEF TypeInv, DataTyped
  <1>3. \A s \in Subscribers : \A i, j \in DOMAIN received[s] :
           i < j /\ received[s][i][1] = received[s][j][1] => received[s][i][2] < received[s][j][2]
    BY <1>1, <1>2 DEF ReceivedOrder
  <1> QED
    BY <1>1, <1>2, <1>3 DEF InOrderOnce, Asked

LEMMA InvPublishersTold ==
    ASSUME Inv
    PROVE  PublishersTold
  <1>1. \A s \in Subscribers : DOMAIN received[s] = 1 .. Len(received[s])
    BY DEF Inv, TypeInv, DataTyped
  <1>2. \A s \in Subscribers : \A i \in 1 .. Len(received[s]) :
           received[s][i][1] \in Publishers /\ Known(received[s][i][1])
    BY NumbersSent DEF Inv, DataInv, KnownInv
  <1> QED
    BY <1>1, <1>2 DEF Inv, ToldInv, PublishersTold, Running

\* Types, and where each process is.
THEOREM TypeCorrect == Spec => []TypeOK
  <1>1. Inv => TypeOK
    <2> SUFFICES ASSUME Inv PROVE TypeOK
      OBVIOUS
    <2>1. PcTyped /\ ControlTyped /\ StepInv /\ DataTyped
      BY DEF Inv, TypeInv
    <2>2. \A s \in Subscribers : /\ count[s] \in 0 .. Len(TopicsOf[s])
                                 /\ step[s] \in 0 .. Len(TopicsOf[s])
      <3>1. \A s \in Subscribers : Len(TopicsOf[s]) \in Nat
        BY ProcessesAssumption, LenProperties
      <3> QED
        BY <2>1, <3>1 DEF StepInv
    <2> QED
      BY <2>1, <2>2 DEF TypeOK, PcTyped, ControlTyped, DataTyped, BrokerStages, SubscriberStages,
                        PublisherStages, Subscription
  <1> QED
    BY <1>1, Invariant, PTL

\* A subscriber prints each publication that is due to it once, in the order in which its
\* publisher sent them, and none is missing in between until the broker drains the queue:
\* through the broker's loop, the list it walks and the two passages of the queue.
THEOREM Delivery == Spec => []DeliveredInOrder
  <1>1. Inv => DeliveredInOrder
    BY InvInOrderOnce, InvNoGaps DEF DeliveredInOrder
  <1> QED
    BY <1>1, Invariant, PTL

\* And no publisher that a subscriber has heard of is left running once the broker has sent
\* its signals.
THEOREM Service == Spec => []ClientsServed
  <1>1. Inv => ClientsServed
    BY InvInOrderOnce, InvNoGaps, InvPublishersTold DEF DeliveredInOrder, ClientsServed
  <1> QED
    BY <1>1, Invariant, PTL

\* While the broker serves, a subscriber that left after a single SIGINT is in none of its lists,
\* or the command that takes the subscription back is in the queue.
THEOREM Forgotten == Spec => []NoStaleSubscription
  <1>1. Inv => NoStaleSubscription
    <2> SUFFICES ASSUME Inv, NEW s \in Subscribers, NEW t \in Topics,
                        pc[s] = "exited", signals[s] <= 1, pc[Broker] \in Serving, exists = "there",
                        \/ Contains(subscriptions, [pid |-> s, topic |-> t])
                        \/ Pending(s, t, "subscribe")
                 PROVE  Pending(s, t, "unsubscribe")
      BY DEF NoStaleSubscription, Serving
    <2>1. DOMAIN queue = 1 .. Len(queue)
      BY DEF Inv, TypeInv, DataTyped
    <2>2. Made(s, t)
      BY <2>1 DEF Made, Pending, Command
    <2>3. Listening(s) \/ pc[s] = "killed" \/ TakesBack(s, t) \/ WillTakeBack(s, t)
      BY <2>2 DEF Inv, LeavingInv, StaleInv
    <2>4. TakesBack(s, t)
      BY <2>3 DEF Listening, WillTakeBack
    <2> QED
      BY <2>1, <2>4 DEF TakesBack, Pending, Command
  <1> QED
    BY <1>1, Invariant, PTL
=============================================================================
