------------------------- MODULE TaxiManager_proofs -------------------------
(***************************************************************************)
(* What holds of TaxiManager for any number of drivers, any timers, any    *)
(* sizes of the tables and buffers, and any number of commands and kills.  *)
(*                                                                         *)
(* The heart of it is the order in which a driver goes through the tables: *)
(* it is forked into drivers, its connection goes through the backlog to   *)
(* pending and, with the HELLO, to drivers, and only then are requests     *)
(* sent; so whatever is on the connection of a driver that is not          *)
(* registered is its HELLO.                                                *)
(***************************************************************************)
EXTENDS TaxiManager, SequenceTheorems, WellFoundedInduction, TLAPS

-----------------------------------------------------------------------------
(* The inductive invariant.                                                *)

Entry == [pid : Drivers, connected : BOOLEAN]
Early == {"none", "forked", "connect", "hello"}
Serves == {"select", "handle", "reply"}
AppEnds == {"none", "backlog", "open", "closed"}
DriverEnds == {"none", "open", "closed"}

ManagerTyped ==
    /\ apc \in AppPC /\ ready \subseteq Drivers \cup {Stdin, Listener} /\ idx \in Nat
    /\ outbox \in Seq(RequestType) /\ (outbox # <<>> => apc = "stdin")
    /\ drivers \in Seq(Entry) /\ Len(drivers) <= DriverMax
    /\ pending \in Seq(Drivers) /\ Len(pending) <= DriverMax
    /\ nextId \in Nat

FlagsTyped ==
    /\ running \in BOOLEAN /\ stopRequested \in BOOLEAN /\ childChanged \in BOOLEAN
    /\ notified \in BOOLEAN /\ listening \in BOOLEAN

OutsideTyped == now \in 0 .. MaxTime /\ typed \in 0 .. MaxCommands /\ kills \in 0 .. MaxKills

ProcessTyped ==
    /\ dpc \in [Drivers -> DriverPC]
    /\ inbox \in [Drivers -> Seq(RequestType)]
    /\ \A d \in Drivers : Len(inbox[d]) <= InputFrames
    /\ \A d \in Drivers : dpc[d] \in {"handle", "reply"} => inbox[d] # <<>>
    /\ reply \in [Drivers -> ReplyType] /\ deadline \in [Drivers -> Nat]

SocketsTyped ==
    /\ appEnd \in [Drivers -> AppEnds] /\ driverEnd \in [Drivers -> DriverEnds]
    /\ toApp \in [Drivers -> Seq(ReplyType)] /\ toDriver \in [Drivers -> Seq(RequestType)]
    /\ \A d \in Drivers : Len(toApp[d]) <= SocketRoom /\ Len(toDriver[d]) <= SocketRoom
    /\ \A d \in Drivers : dpc[d] \in Early => toApp[d] = <<>>

HistoryTyped == asked \in [Drivers -> Seq(Nat)] /\ told \in [Drivers -> Nat]

TypeInv ==
    ManagerTyped /\ FlagsTyped /\ OutsideTyped /\ ProcessTyped /\ SocketsTyped /\ HistoryTyped

\* The ends of the connection of a driver, and what its process still holds.
LifeInv ==
    \A d \in Drivers :
       /\ dpc[d] \in {"none", "forked", "connect"} => appEnd[d] = "none"
       /\ appEnd[d] = "none" => driverEnd[d] = "none" /\ toDriver[d] = <<>>
       /\ dpc[d] \in {"hello"} \cup Serves <=> driverEnd[d] = "open"
       /\ dpc[d] \in {"hello"} \cup Serves => appEnd[d] # "none"
       /\ dpc[d] \notin {"handle", "reply"} => inbox[d] = <<>>
       /\ dpc[d] \in Ending => toDriver[d] = <<>>

\* How far the manager has got through a list.
IndexInv ==
    /\ apc \in {"shut_drivers", "shut_pending", "kill", "waitpid"} => idx >= 1
    /\ apc = "kill" => idx <= Len(drivers) + 1
    /\ apc = "waitpid" => idx <= Len(drivers)

\* What the manager handles at each place.
SendsToConnected == \A k \in 1 .. Len(outbox) : Connected(outbox[k].to)
PlaceInv ==
    /\ apc = "accept" => Stdin \notin ready
    /\ apc \in {"pending", "drivers"} => ready \subseteq Drivers
    /\ SendsToConnected

UniquePids == \A i, j \in 1 .. Len(drivers) : drivers[i].pid = drivers[j].pid => i = j
UniqueFds == \A i, j \in 1 .. Len(pending) : pending[i] = pending[j] => i = j
Waits(d) == \E i \in 1 .. Len(pending) : pending[i] = d

\* The tables against the processes and the ends of the connections.
TableInv ==
    /\ UniquePids
    /\ \A d \in Drivers : Listed(d) => dpc[d] # "none"
    /\ \A d \in Drivers : Connected(d) => dpc[d] \notin Early /\ appEnd[d] \in {"open", "closed"}
    /\ RunningDriversListed
    /\ apc \in Serving =>
          /\ UniqueFds
          /\ \A d \in Drivers : Waits(d) => ~Connected(d) /\ appEnd[d] = "open"
          /\ \A d \in Drivers : Connected(d) => appEnd[d] = "open"
          /\ \A d \in Drivers : appEnd[d] = "open" => Waits(d) \/ Connected(d)

\* The last waitpids collect the listed drivers one after the other.
EndInv ==
    /\ apc \in {"kill", "waitpid"} => \A j \in 1 .. idx - 1 : dpc[drivers[j].pid] = "reaped"
    /\ NobodyLeftBehind

Answer == {"accepted", "busy", "available"}
OnlyHello(d) == toApp[d] = <<>> \/ (Len(toApp[d]) = 1 /\ toApp[d][1].type = "hello")

\* The answers under way, then the requests not yet answered, are those asked.
Ordered(d) ==
    /\ \A k \in 1 .. Len(toApp[d]) : toApp[d][k].type \in Answer
    /\ Len(toApp[d]) <= Len(asked[d])
    /\ \A k \in 1 .. Len(toApp[d]) : toApp[d][k].id = asked[d][k]
    /\ dpc[d] \notin Ending =>
          /\ Len(asked[d]) = Len(toApp[d]) + Len(inbox[d]) + Len(toDriver[d])
          /\ \A k \in 1 .. Len(inbox[d]) : inbox[d][k].id = asked[d][Len(toApp[d]) + k]
          /\ \A k \in 1 .. Len(toDriver[d]) :
                toDriver[d][k].id = asked[d][Len(toApp[d]) + Len(inbox[d]) + k]

AnswerInv(d) ==
    /\ ~Connected(d) \/ appEnd[d] = "closed" => OnlyHello(d)
    /\ ~Connected(d) /\ appEnd[d] # "closed" =>
          inbox[d] = <<>> /\ toDriver[d] = <<>> /\ asked[d] = <<>>
    /\ Connected(d) /\ appEnd[d] # "closed" => Ordered(d)
    /\ dpc[d] = "reply" => reply[d].id = inbox[d][1].id /\ reply[d].type \in Answer

\* A response is right after the end of a task that is known before it.
Right(response, end) ==
    LET left == end - response.at IN
    IF left > 0
    THEN /\ response.type = "busy"
         /\ (response.timer - 1) * Second < left /\ left <= response.timer * Second
    ELSE response.type \in {"accepted", "available"}

\* The end of the last task that the manager knows of or is being told.
KnownEnd(d) == LastEnd(told[d], toApp[d], Len(toApp[d]))

\* The driver's deadline is the end of its last task, or that task is over.
Keeps(d, end) == deadline[d] = end \/ (deadline[d] = 0 /\ end <= now)

TaskInv(d) ==
    /\ \A k \in 1 .. Len(toApp[d]) :
          toApp[d][k].type # "hello" => Right(toApp[d][k], LastEnd(told[d], toApp[d], k - 1))
    /\ dpc[d] \in Early => deadline[d] = 0 /\ told[d] = 0
    /\ dpc[d] \in {"select", "handle"} /\ appEnd[d] # "closed" => Keeps(d, KnownEnd(d))
    /\ dpc[d] = "reply" /\ appEnd[d] # "closed" =>
          /\ Right(reply[d], KnownEnd(d))
          /\ Keeps(d, IF reply[d].type = "accepted" THEN EndOfTask(reply[d]) ELSE KnownEnd(d))

IInv ==
    /\ TypeInv /\ IndexInv /\ LifeInv /\ PlaceInv /\ TableInv /\ EndInv
    /\ \A d \in Drivers : AnswerInv(d) /\ TaskInv(d)

-----------------------------------------------------------------------------
(* Sets of numbers.                                                        *)

\* A non-empty set of natural numbers has a least element.
LEMMA LeastNatural ==
    ASSUME NEW S \in SUBSET Nat, S # {}
    PROVE  \E n \in S : \A k \in S : n <= k
  <1> DEFINE R == OpToRel(<, Nat)
  <1>1. IsWellFoundedOn(R, Nat)
    BY NatLessThanWellFounded
  <1>2. R = {pair \in Nat \X Nat : pair[1] < pair[2]}
    BY Zenon DEF OpToRel
  <1> HIDE DEF R
  <1>3. PICK n \in S : \A k \in S : <<k, n>> \notin R
    BY <1>1, WFMin
  <1>4. ASSUME NEW k \in S PROVE n <= k
    <2>1. n \in Nat /\ k \in Nat
      OBVIOUS
    <2>2. <<k, n>> \notin {pair \in Nat \X Nat : pair[1] < pair[2]}
      BY <1>2, <1>3, Zenon
    <2> QED
      BY <2>1, <2>2, SMT
  <1> QED
    BY <1>4

\* A set that holds 0 and the successors of its elements holds every number.
LEMMA InductiveSet ==
    ASSUME NEW S \in SUBSET Nat, 0 \in S, \A n \in S : n + 1 \in S
    PROVE  S = Nat
  <1> SUFFICES ASSUME Nat \ S # {} PROVE FALSE
    OBVIOUS
  <1>1. PICK n \in Nat \ S : \A k \in Nat \ S : n <= k
    BY LeastNatural, Nat \ S \in SUBSET Nat, Zenon
  <1>2. n # 0
    OBVIOUS
  <1>3. n - 1 \in Nat /\ n - 1 \notin Nat \ S
    BY <1>1, <1>2
  <1> QED
    BY <1>3

\* A non-empty set of numbers up to n has a greatest element.
LEMMA Greatest ==
    ASSUME NEW n \in Nat, NEW S \in SUBSET (1 .. n), S # {}
    PROVE  \E k \in S : \A j \in S : j <= k
  <1>1. PICK T : T = {m \in 0 .. n : n - m \in S}
    OBVIOUS
  <1>2. PICK s : s \in S
    OBVIOUS
  <1>3. s \in 1 .. n /\ n - s \in 0 .. n /\ n - (n - s) = s
    BY <1>2
  <1>4. T \in SUBSET Nat /\ T # {}
    <2>1. n - s \in T
      BY <1>1, <1>2, <1>3
    <2> QED
      BY <1>1, <2>1
  <1>5. PICK m \in T : \A k \in T : m <= k
    BY <1>4, LeastNatural
  <1>6. m \in 0 .. n /\ n - m \in S
    BY <1>1, <1>5
  <1>7. ASSUME NEW j \in S PROVE j <= n - m
    <2>1. j \in 1 .. n /\ n - j \in 0 .. n /\ n - (n - j) = j
      OBVIOUS
    <2>2. n - j \in T
      BY <1>1, <2>1
    <2>3. m <= n - j
      BY <1>5, <2>2
    <2> QED
      BY <1>6, <2>1, <2>3
  <1> QED
    BY <1>6, <1>7

\* Seconds rounded up.
LEMMA RoundedUp ==
    ASSUME TaxiAssumption, NEW ticks \in Nat, ticks > 0
    PROVE  /\ Remaining(ticks) \in Nat
           /\ (Remaining(ticks) - 1) * Second < ticks /\ ticks <= Remaining(ticks) * Second
  <1>1. Second \in Nat /\ Second > 0
    BY DEF TaxiAssumption
  <1>2. PICK m \in Nat : m = ticks + Second - 1
    BY <1>1
  <1>3. Remaining(ticks) = m \div Second
    BY <1>2 DEF Remaining
  <1>4. PICK q : q = m \div Second
    OBVIOUS
  <1>5. PICK r : r = m % Second
    OBVIOUS
  <1>6. q \in Int /\ r \in 0 .. Second - 1 /\ m = Second * q + r
    BY <1>1, <1>4, <1>5, SMTT(30)
  <1>7. q >= 0
    BY <1>1, <1>6, SMTT(30)
  <1>8. q * Second = Second * q /\ (q - 1) * Second = Second * q - Second
    BY <1>1, <1>6, SMTT(30)
  <1>9. PICK p \in Int : p = Second * q
    BY <1>1, <1>6
  <1>10. p - Second < ticks /\ ticks <= p
    BY <1>1, <1>2, <1>6, <1>9
  <1> QED
    BY <1>3, <1>4, <1>6, <1>7, <1>8, <1>9, <1>10

-----------------------------------------------------------------------------
(* Operators on lists and buffers.                                         *)

\* The last element takes the place of the removed one.
LEMMA RemovedElements ==
    ASSUME NEW S, NEW list \in Seq(S), NEW i \in 1 .. Len(list)
    PROVE  /\ Removed(list, i) \in Seq(S)
           /\ Len(Removed(list, i)) = Len(list) - 1
           /\ \A k \in 1 .. Len(list) - 1 :
                 Removed(list, i)[k] = IF k = i THEN list[Len(list)] ELSE list[k]
  <1>1. PICK n \in Nat : n = Len(list)
    BY LenProperties
  <1>2. n - 1 \in Nat /\ i \in 1 .. n /\ n \in 1 .. n
    BY <1>1
  <1>3. PICK front : front = SubSeq(list, 1, n - 1)
    OBVIOUS
  <1>4. front \in Seq(S) /\ Len(front) = n - 1 /\ \A k \in 1 .. n - 1 : front[k] = list[k]
    <2>1. \A k \in 1 .. n - 1 : list[k] \in S
      BY <1>1, <1>2, ElementOfSeq
    <2> QED
      BY <1>2, <1>3, <2>1, SubSeqProperties
  <1>5. list[n] \in S
    BY <1>1, <1>2, ElementOfSeq
  <1>6. CASE i = n
    <2>1. Removed(list, i) = front
      BY <1>1, <1>3, <1>6 DEF Removed, Front
    <2>2. \A k \in 1 .. n - 1 : k # i
      BY <1>2, <1>6
    <2> QED
      BY <1>1, <1>4, <2>1, <2>2
  <1>7. CASE i # n
    <2>1. Removed(list, i) = [front EXCEPT ![i] = list[n]]
      BY <1>1, <1>3, <1>7 DEF Removed, Front, Last
    <2>2. i \in 1 .. Len(front)
      BY <1>2, <1>4, <1>7
    <2>3. /\ [front EXCEPT ![i] = list[n]] \in Seq(S)
          /\ Len([front EXCEPT ![i] = list[n]]) = Len(front)
          /\ \A k \in 1 .. Len(front) :
                [front EXCEPT ![i] = list[n]][k] = IF k = i THEN list[n] ELSE front[k]
      BY <1>4, <1>5, <2>2, ExceptSeq
    <2> QED
      BY <1>1, <1>4, <2>1, <2>3
  <1> QED
    BY <1>6, <1>7

\* What Read takes and Unread leaves.
LEMMA ReadElements ==
    ASSUME TaxiAssumption, NEW S, NEW buffer \in Seq(S)
    PROVE  \E m \in Nat :
              /\ m <= Len(buffer) /\ m <= InputFrames /\ (buffer # <<>> => m >= 1)
              /\ Read(buffer) \in Seq(S) /\ Len(Read(buffer)) = m
              /\ \A k \in 1 .. m : Read(buffer)[k] = buffer[k]
              /\ Unread(buffer) \in Seq(S) /\ Len(Unread(buffer)) = Len(buffer) - m
              /\ \A k \in 1 .. Len(buffer) - m : Unread(buffer)[k] = buffer[m + k]
  <1>1. PICK n \in Nat : n = Len(buffer)
    BY LenProperties
  <1>2. InputFrames \in Nat /\ InputFrames >= 1
    BY DEF TaxiAssumption
  <1>3. PICK m : m = IF n < InputFrames THEN n ELSE InputFrames
    OBVIOUS
  <1>4. m \in Nat /\ m <= n /\ m <= InputFrames /\ (n >= 1 => m >= 1)
    BY <1>2, <1>3
  <1>5. Read(buffer) = SubSeq(buffer, 1, m)
    BY <1>1, <1>3 DEF Read
  <1>6. \A k \in 1 .. n : buffer[k] \in S
    BY <1>1, ElementOfSeq
  <1>7. /\ Read(buffer) \in Seq(S) /\ Len(Read(buffer)) = m
        /\ \A k \in 1 .. m : Read(buffer)[k] = buffer[k]
    <2>1. \A k \in 1 .. m : k \in 1 .. n
      BY <1>4
    <2>2. \A k \in 1 .. m : buffer[k] \in S
      BY <1>6, <2>1
    <2> QED
      BY SMTT(30), <1>4, <1>5, <2>2, SubSeqProperties
  <1>8. Unread(buffer) = SubSeq(buffer, m + 1, n)
    BY <1>1, <1>7 DEF Unread
  <1>9. /\ Unread(buffer) \in Seq(S) /\ Len(Unread(buffer)) = n - m
        /\ \A k \in 1 .. n - m : Unread(buffer)[k] = buffer[m + k]
    <2>1. \A k \in m + 1 .. n : k \in 1 .. n
      BY <1>4
    <2>2. \A k \in m + 1 .. n : buffer[k] \in S
      BY <1>6, <2>1
    <2>3. m + 1 \in Int /\ n \in Int
      BY <1>4
    <2>4. /\ Unread(buffer) \in Seq(S)
          /\ Len(Unread(buffer)) = IF m + 1 <= n THEN n - (m + 1) + 1 ELSE 0
          /\ \A k \in 1 .. n - (m + 1) + 1 : Unread(buffer)[k] = buffer[m + 1 + k - 1]
      BY <1>8, <2>2, <2>3, SubSeqProperties
    <2>5. n - (m + 1) + 1 = n - m /\ (~(m + 1 <= n) => n - m = 0)
      BY <1>4
    <2>6. \A k \in 1 .. n - m : m + 1 + k - 1 = m + k
      BY <1>4
    <2> QED
      BY <2>4, <2>5, <2>6
  <1>10. buffer # <<>> => n >= 1
    BY <1>1, EmptySeq
  <1> QED
    BY <1>1, <1>4, <1>7, <1>9, <1>10

\* The rest of a sequence after its first m elements.
LEMMA Rest ==
    ASSUME NEW S, NEW s \in Seq(S), NEW m \in Nat, m <= Len(s)
    PROVE  /\ SubSeq(s, m + 1, Len(s)) \in Seq(S)
           /\ Len(SubSeq(s, m + 1, Len(s))) = Len(s) - m
           /\ \A k \in 1 .. Len(s) - m : SubSeq(s, m + 1, Len(s))[k] = s[m + k]
  <1>1. PICK n \in Nat : n = Len(s)
    BY LenProperties
  <1>2. \A k \in m + 1 .. n : k \in 1 .. n
    BY <1>1
  <1>3. \A k \in m + 1 .. n : s[k] \in S
    BY <1>1, <1>2, ElementOfSeq
  <1>4. m + 1 \in Int /\ n \in Int
    BY <1>1
  <1>5. PICK r : r = SubSeq(s, m + 1, n)
    OBVIOUS
  <1>6. /\ r \in Seq(S)
        /\ Len(r) = IF m + 1 <= n THEN n - (m + 1) + 1 ELSE 0
        /\ \A k \in 1 .. n - (m + 1) + 1 : r[k] = s[m + 1 + k - 1]
    BY <1>3, <1>4, <1>5, SubSeqProperties
  <1>7. n - (m + 1) + 1 = n - m /\ (~(m + 1 <= n) => n - m = 0)
    BY <1>1
  <1>8. \A k \in 1 .. n - m : m + 1 + k - 1 = m + k
    BY <1>1
  <1>9. r \in Seq(S) /\ Len(r) = n - m /\ \A k \in 1 .. n - m : r[k] = s[m + k]
    BY <1>6, <1>7, <1>8
  <1> QED
    BY <1>1, <1>5, <1>9

-----------------------------------------------------------------------------
(* The end of the last task.                                               *)

LEMMA LastEndOf ==
    ASSUME NEW before, NEW s, NEW n \in Nat, NEW k \in 1 .. n, s[k].type = "accepted",
           \A j \in 1 .. n : s[j].type = "accepted" => j <= k
    PROVE  LastEnd(before, s, n) = EndOfTask(s[k])
  <1>1. PICK tasks : tasks = {j \in 1 .. n : s[j].type = "accepted"}
    OBVIOUS
  <1>2. k \in tasks /\ \A j \in tasks : j <= k /\ j \in Nat
    BY <1>1
  <1>3. \A c \in tasks : (\A j \in tasks : j <= c) => c = k
    BY <1>2
  <1>4. (CHOOSE c \in tasks : \A j \in tasks : j <= c) = k
    BY <1>2, <1>3
  <1> QED
    BY <1>1, <1>2, <1>4 DEF LastEnd

LEMMA LastEndKnown ==
    ASSUME NEW before, NEW s, NEW n \in Nat, \A j \in 1 .. n : s[j].type # "accepted"
    PROVE  LastEnd(before, s, n) = before
  <1>1. {j \in 1 .. n : s[j].type = "accepted"} = {}
    OBVIOUS
  <1> QED
    BY <1>1 DEF LastEnd

LEMMA LastTask ==
    ASSUME NEW s, NEW n \in Nat
    PROVE  \/ \A j \in 1 .. n : s[j].type # "accepted"
           \/ \E k \in 1 .. n : /\ s[k].type = "accepted"
                                /\ \A j \in 1 .. n : s[j].type = "accepted" => j <= k
  <1>1. PICK tasks : tasks = {j \in 1 .. n : s[j].type = "accepted"}
    OBVIOUS
  <1>2. CASE tasks = {}
    BY <1>1, <1>2
  <1>3. CASE tasks # {}
    <2>1. PICK k \in tasks : \A j \in tasks : j <= k
      BY <1>1, <1>3, Greatest
    <2> QED
      BY <1>1, <2>1
  <1> QED
    BY <1>2, <1>3

\* One response more.
LEMMA LastEndNext ==
    ASSUME NEW before, NEW s, NEW n \in Nat
    PROVE  LastEnd(before, s, n + 1) =
              IF s[n + 1].type = "accepted" THEN EndOfTask(s[n + 1]) ELSE LastEnd(before, s, n)
  <1>1. CASE s[n + 1].type = "accepted"
    <2>1. n + 1 \in Nat /\ n + 1 \in 1 .. n + 1 /\ \A j \in 1 .. n + 1 : j <= n + 1
      OBVIOUS
    <2> QED
      BY <1>1, <2>1, LastEndOf
  <1>2. CASE s[n + 1].type # "accepted"
    <2>1. \A j \in 1 .. n + 1 : j \in 1 .. n \/ j = n + 1
      OBVIOUS
    <2>2. \A j \in 1 .. n : j \in 1 .. n + 1
      OBVIOUS
    <2>3. n + 1 \in Nat
      OBVIOUS
    <2>4. CASE \A j \in 1 .. n : s[j].type # "accepted"
      <3>1. \A j \in 1 .. n + 1 : s[j].type # "accepted"
        BY <1>2, <2>1, <2>4
      <3> QED
        BY <1>2, <2>3, <2>4, <3>1, LastEndKnown
    <2>5. CASE \E k \in 1 .. n : s[k].type = "accepted" /\ \A j \in 1 .. n : s[j].type = "accepted" => j <= k
      <3>1. PICK k \in 1 .. n : s[k].type = "accepted" /\ \A j \in 1 .. n : s[j].type = "accepted" => j <= k
        BY <2>5
      <3>2. k \in 1 .. n + 1 /\ \A j \in 1 .. n + 1 : s[j].type = "accepted" => j <= k
        BY <1>2, <2>1, <2>2, <3>1
      <3>3. LastEnd(before, s, n + 1) = EndOfTask(s[k])
        BY <2>3, <3>1, <3>2, LastEndOf
      <3>4. LastEnd(before, s, n) = EndOfTask(s[k])
        BY <3>1, LastEndOf
      <3> QED
        BY <1>2, <3>3, <3>4
    <2> QED
      BY <2>4, <2>5, LastTask
  <1> QED
    BY <1>1, <1>2

\* Only the first n responses count.
LEMMA LastEndSame ==
    ASSUME NEW before, NEW s, NEW t, NEW n \in Nat, \A k \in 1 .. n : s[k] = t[k]
    PROVE  LastEnd(before, s, n) = LastEnd(before, t, n)
  <1>1. CASE \A j \in 1 .. n : s[j].type # "accepted"
    <2>1. LastEnd(before, s, n) = before
      BY <1>1, LastEndKnown
    <2>2. \A j \in 1 .. n : t[j].type # "accepted"
      BY <1>1
    <2> QED
      BY <2>1, <2>2, LastEndKnown
  <1>2. CASE \E k \in 1 .. n : s[k].type = "accepted" /\ \A j \in 1 .. n : s[j].type = "accepted" => j <= k
    <2>1. PICK k \in 1 .. n : s[k].type = "accepted" /\ \A j \in 1 .. n : s[j].type = "accepted" => j <= k
      BY <1>2
    <2>2. LastEnd(before, s, n) = EndOfTask(s[k])
      BY <2>1, LastEndOf
    <2>3. t[k].type = "accepted" /\ \A j \in 1 .. n : t[j].type = "accepted" => j <= k
      BY <2>1
    <2>4. LastEnd(before, t, n) = EndOfTask(t[k])
      BY <2>3, LastEndOf
    <2> QED
      BY <2>2, <2>4
  <1> QED
    BY <1>1, <1>2, LastTask

\* Printing the first m responses moves the end they tell of into what is known.
LEMMA LastEndShift ==
    ASSUME NEW before, NEW s, NEW t, NEW m \in Nat, NEW n \in Nat,
           \A k \in 1 .. n : t[k] = s[m + k]
    PROVE  LastEnd(LastEnd(before, s, m), t, n) = LastEnd(before, s, m + n)
  <1>1. m + n \in Nat
    OBVIOUS
  <1>2. ASSUME NEW j \in 1 .. m + n PROVE j \in 1 .. m \/ (j - m \in 1 .. n /\ j = m + (j - m))
    OBVIOUS
  <1>3. CASE \A j \in 1 .. n : t[j].type # "accepted"
    <2>1. LastEnd(LastEnd(before, s, m), t, n) = LastEnd(before, s, m)
      BY <1>3, LastEndKnown
    <2>2. ASSUME NEW j \in 1 .. m + n, s[j].type = "accepted" PROVE j \in 1 .. m
      <3>1. ASSUME j - m \in 1 .. n, j = m + (j - m) PROVE FALSE
        <4>1. PICK k \in 1 .. n : k = j - m
          BY <3>1
        <4> QED
          BY <1>3, <2>2, <3>1, <4>1
      <3> QED
        BY <1>2, <3>1
    <2>3. CASE \A j \in 1 .. m : s[j].type # "accepted"
      <3>1. \A j \in 1 .. m + n : s[j].type # "accepted"
        BY <2>2, <2>3
      <3> QED
        BY <1>1, <2>1, <2>3, <3>1, LastEndKnown
    <2>4. CASE \E k \in 1 .. m : s[k].type = "accepted" /\ \A j \in 1 .. m : s[j].type = "accepted" => j <= k
      <3>1. PICK k \in 1 .. m : s[k].type = "accepted" /\ \A j \in 1 .. m : s[j].type = "accepted" => j <= k
        BY <2>4
      <3>2. k \in 1 .. m + n /\ \A j \in 1 .. m + n : s[j].type = "accepted" => j <= k
        BY <2>2, <3>1
      <3>3. LastEnd(before, s, m + n) = EndOfTask(s[k])
        BY <1>1, <3>1, <3>2, LastEndOf
      <3>4. LastEnd(before, s, m) = EndOfTask(s[k])
        BY <3>1, LastEndOf
      <3> QED
        BY <2>1, <3>3, <3>4
    <2> QED
      BY <2>3, <2>4, LastTask
  <1>4. CASE \E k \in 1 .. n : t[k].type = "accepted" /\ \A j \in 1 .. n : t[j].type = "accepted" => j <= k
    <2>1. PICK k \in 1 .. n : t[k].type = "accepted" /\ \A j \in 1 .. n : t[j].type = "accepted" => j <= k
      BY <1>4
    <2>2. LastEnd(LastEnd(before, s, m), t, n) = EndOfTask(t[k])
      BY <2>1, LastEndOf
    <2>3. m + k \in 1 .. m + n /\ s[m + k] = t[k]
      OBVIOUS
    <2>4. ASSUME NEW j \in 1 .. m + n, s[j].type = "accepted" PROVE j <= m + k
      <3>1. CASE j \in 1 .. m
        BY <3>1
      <3>2. CASE j - m \in 1 .. n /\ j = m + (j - m)
        <4>1. PICK i \in 1 .. n : i = j - m
          BY <3>2
        <4>2. t[i].type = "accepted"
          BY <2>4, <3>2, <4>1
        <4> QED
          BY <2>1, <3>2, <4>1, <4>2
      <3> QED
        BY <1>2, <3>1, <3>2
    <2>5. LastEnd(before, s, m + n) = EndOfTask(s[m + k])
      BY <1>1, <2>1, <2>3, <2>4, LastEndOf
    <2> QED
      BY <2>2, <2>3, <2>5
  <1> QED
    BY <1>3, <1>4, LastTask

LEMMA EndIsTime ==
    ASSUME TaxiAssumption, NEW response \in ReplyType
    PROVE  EndOfTask(response) \in Nat
  <1>1. Second \in Nat /\ response.at \in Nat /\ response.timer \in Nat
    BY DEF TaxiAssumption, ReplyType
  <1>2. response.timer * Second \in Nat
    BY <1>1, SMTT(30)
  <1> QED
    BY <1>1, <1>2 DEF EndOfTask

LEMMA LastEndIsTime ==
    ASSUME TaxiAssumption, NEW before \in Nat, NEW s \in Seq(ReplyType), NEW n \in Nat, n <= Len(s)
    PROVE  LastEnd(before, s, n) \in Nat
  <1>1. ASSUME NEW k \in 1 .. n PROVE s[k] \in ReplyType
    <2>1. k \in 1 .. Len(s)
      BY LenProperties
    <2> QED
      BY <2>1, ElementOfSeq
  <1>2. CASE \A j \in 1 .. n : s[j].type # "accepted"
    BY <1>2, LastEndKnown
  <1>3. CASE \E k \in 1 .. n : s[k].type = "accepted" /\ \A j \in 1 .. n : s[j].type = "accepted" => j <= k
    <2>1. PICK k \in 1 .. n : s[k].type = "accepted" /\ \A j \in 1 .. n : s[j].type = "accepted" => j <= k
      BY <1>3
    <2>2. LastEnd(before, s, n) = EndOfTask(s[k])
      BY <2>1, LastEndOf
    <2> QED
      BY <1>1, <2>2, EndIsTime
  <1> QED
    BY <1>2, <1>3, LastTask

-----------------------------------------------------------------------------
(* The receivers of a request.                                             *)

\* The equation that defines Addressees.
Filters(list, some, among) ==
    among = [i \in 0 .. Len(list) |->
                IF i = 0 THEN <<>>
                ELSE IF list[i].connected /\ list[i].pid \in some
                     THEN Append(among[i - 1], list[i].pid)
                ELSE among[i - 1]]

\* It has a solution.
LEMMA FilterExists ==
    ASSUME NEW list \in Seq(Entry), NEW some
    PROVE  \E among : Filters(list, some, among)
  <1>1. PICK N \in Nat : N = Len(list)
    BY LenProperties
  <1> DEFINE Takes(k) == list[k].connected /\ list[k].pid \in some
             Upto(n, f) == f = [i \in 0 .. n |->
                                  IF i = 0 THEN <<>>
                                  ELSE IF list[i].connected /\ list[i].pid \in some
                                       THEN Append(f[i - 1], list[i].pid)
                                  ELSE f[i - 1]]
             S == {n \in Nat : \E f : Upto(n, f)}
  <1>2. 0 \in S
    <2> DEFINE f == [i \in 0 .. 0 |-> <<>>]
    <2>1. Upto(0, f)
      OBVIOUS
    <2> HIDE DEF f, Upto
    <2> QED
      BY <2>1
  <1>3. ASSUME NEW n \in S PROVE n + 1 \in S
    <2>1. PICK f : Upto(n, f)
      OBVIOUS
    <2>2. PICK v : v = IF Takes(n + 1) THEN Append(f[n], list[n + 1].pid) ELSE f[n]
      OBVIOUS
    <2>3. PICK g : g = [i \in 0 .. n + 1 |-> IF i = n + 1 THEN v ELSE f[i]]
      OBVIOUS
    <2>4. n \in Nat
      OBVIOUS
    <2>5. \A i \in 0 .. n + 1 :
             g[i] = IF i = 0 THEN <<>>
                    ELSE IF Takes(i) THEN Append(g[i - 1], list[i].pid)
                    ELSE g[i - 1]
      <3> SUFFICES ASSUME NEW i \in 0 .. n + 1
                   PROVE  g[i] = IF i = 0 THEN <<>>
                                 ELSE IF Takes(i) THEN Append(g[i - 1], list[i].pid)
                                 ELSE g[i - 1]
        OBVIOUS
      <3>1. CASE i = n + 1
        <4>1. n \in 0 .. n + 1 /\ n # n + 1 /\ n + 1 \in 0 .. n + 1 /\ (n + 1) - 1 = n /\ n + 1 # 0
          BY <2>4
        <4>2. g[n + 1] = v /\ g[n] = f[n]
          BY <2>3, <4>1
        <4> HIDE DEF Takes
        <4> QED
          BY <2>2, <3>1, <4>1, <4>2
      <3>2. CASE i # n + 1
        <4>1. i \in 0 .. n /\ (i # 0 => i - 1 \in 0 .. n)
          BY <2>4, <3>2
        <4>2. g[i] = f[i] /\ (i # 0 => g[i - 1] = f[i - 1])
          BY <2>3, <2>4, <4>1
        <4>3. f[i] = IF i = 0 THEN <<>>
                     ELSE IF Takes(i) THEN Append(f[i - 1], list[i].pid)
                     ELSE f[i - 1]
          BY <2>1, <4>1
        <4> HIDE DEF Takes
        <4> QED
          BY <4>2, <4>3
      <3> QED
        BY <3>1, <3>2
    <2>6. g = [i \in 0 .. n + 1 |-> g[i]]
      BY <2>3
    <2>7. Upto(n + 1, g)
      BY <2>5, <2>6
    <2>8. n + 1 \in Nat
      BY <2>4
    <2> HIDE DEF Upto
    <2> QED
      BY <2>7, <2>8
  <1>4. S = Nat
    <2>1. S \in SUBSET Nat
      OBVIOUS
    <2> HIDE DEF S
    <2> QED
      BY <1>2, <1>3, <2>1, InductiveSet
  <1>5. \E f : Upto(N, f)
    BY <1>4
  <1> QED
    BY <1>1, <1>5 DEF Filters

\* Requests go to connected drivers only.
LEMMA AddresseesConnected ==
    ASSUME drivers \in Seq(Entry), NEW some
    PROVE  Addressees(some) \in Seq({d \in Drivers : Connected(d)})
  <1>1. PICK list \in Seq(Entry) : list = drivers
    OBVIOUS
  <1>2. PICK N \in Nat : N = Len(list)
    BY LenProperties
  <1>3. PICK among : among = CHOOSE f : Filters(list, some, f)
    OBVIOUS
  <1>4. Filters(list, some, among)
    BY <1>3, FilterExists
  <1>5. Addressees(some) = among[N]
    BY <1>1, <1>2, <1>3 DEF Addressees, Filters
  <1>6. PICK C : C = {d \in Drivers : Connected(d)}
    OBVIOUS
  <1>7. ASSUME NEW k \in 1 .. N, list[k].connected PROVE list[k].pid \in C
    <2>1. list[k] \in Entry
      BY <1>2, ElementOfSeq
    <2>2. list[k].pid \in Drivers
      BY <2>1 DEF Entry
    <2>3. k \in DOMAIN drivers
      BY <1>1, <1>2, LenProperties
    <2> QED
      BY <1>1, <1>6, <1>7, <2>2, <2>3 DEF Connected
  <1> DEFINE S == {n \in Nat : n <= N => among[n] \in Seq(C)}
  <1>8. 0 \in S
    <2>1. among[0] = <<>>
      BY <1>2, <1>4 DEF Filters
    <2> QED
      BY <2>1, EmptySeq
  <1>9. ASSUME NEW n \in S PROVE n + 1 \in S
    <2> SUFFICES ASSUME n + 1 <= N PROVE among[n + 1] \in Seq(C)
      OBVIOUS
    <2>1. n \in Nat /\ n <= N /\ n + 1 \in 0 .. N /\ n + 1 # 0 /\ (n + 1) - 1 = n /\ n + 1 \in 1 .. N
      OBVIOUS
    <2>2. among[n] \in Seq(C)
      BY <2>1
    <2>3. among[n + 1] = IF list[n + 1].connected /\ list[n + 1].pid \in some
                         THEN Append(among[n], list[n + 1].pid) ELSE among[n]
      BY <1>2, <1>4, <2>1 DEF Filters
    <2>4. list[n + 1].connected => list[n + 1].pid \in C
      BY <1>7, <2>1
    <2> HIDE DEF S
    <2> QED
      BY <2>2, <2>3, <2>4, AppendProperties
  <1>10. S = Nat
    <2>1. S \in SUBSET Nat
      OBVIOUS
    <2> HIDE DEF S
    <2> QED
      BY <1>8, <1>9, <2>1, InductiveSet
  <1>11. among[N] \in Seq(C)
    BY <1>10
  <1> QED
    BY <1>5, <1>6, <1>11

-----------------------------------------------------------------------------
(* What the parts of actions do.                                           *)

LEMMA PhaseFinds ==
    ASSUME NEW some
    PROVE  /\ Phase(some) \in {"stdin", "accept", "pending", "drivers"}
           /\ Phase(some) # "stdin" => Stdin \notin some
           /\ Phase(some) \in {"pending", "drivers"} => Listener \notin some
  BY DEF Phase

LEMMA EntryTyped ==
    ASSUME drivers \in Seq(Entry), NEW i \in 1 .. Len(drivers)
    PROVE  /\ drivers[i] \in Entry /\ drivers[i].pid \in Drivers
           /\ drivers[i].connected \in BOOLEAN
  <1>1. drivers[i] \in Entry
    BY ElementOfSeq
  <1> QED
    BY <1>1 DEF Entry

LEMMA Domains ==
    ASSUME TypeInv
    PROVE  /\ DOMAIN drivers = 1 .. Len(drivers) /\ Len(drivers) \in Nat
           /\ DOMAIN pending = 1 .. Len(pending) /\ Len(pending) \in Nat
  BY LenProperties DEF TypeInv, ManagerTyped

\* The manager closes its end of the connection of d; out is what it wrote before.
Closes(d, out) ==
    /\ appEnd' = [appEnd EXCEPT ![d] = "closed"] /\ toApp' = [toApp EXCEPT ![d] = <<>>]
    /\ appEnd'[d] = "closed" /\ toApp'[d] = <<>>
    /\ \A e \in Drivers : e # d => appEnd'[e] = appEnd[e] /\ toApp'[e] = toApp[e]
    /\ toDriver' \in [Drivers -> Seq(RequestType)]
    /\ \A e \in Drivers : toDriver'[e] = out[e] \/ (e = d /\ toDriver'[e] = <<>>)

LEMMA CloseEffect ==
    ASSUME TypeInv, NEW d \in Drivers, NEW out \in [Drivers -> Seq(RequestType)], CloseApp(d, out)
    PROVE  Closes(d, out)
  <1>1. appEnd' = [appEnd EXCEPT ![d] = "closed"] /\ toApp' = [toApp EXCEPT ![d] = <<>>]
    BY DEF CloseApp
  <1>2. appEnd \in [Drivers -> AppEnds] /\ toApp \in [Drivers -> Seq(ReplyType)]
    BY DEF TypeInv, SocketsTyped
  <1>3. /\ appEnd'[d] = "closed" /\ toApp'[d] = <<>>
        /\ \A e \in Drivers : e # d => appEnd'[e] = appEnd[e] /\ toApp'[e] = toApp[e]
    BY <1>1, <1>2
  <1>4. <<>> \in Seq(RequestType)
    BY EmptySeq
  <1>5. /\ toDriver' \in [Drivers -> Seq(RequestType)]
        /\ \A e \in Drivers : toDriver'[e] = out[e] \/ (e = d /\ toDriver'[e] = <<>>)
    <2>1. CASE toDriver' = out
      BY <2>1
    <2>2. CASE toDriver' = [out EXCEPT ![d] = <<>>]
      BY <1>4, <2>2
    <2> QED
      BY <2>1, <2>2 DEF CloseApp
  <1> QED
    BY <1>1, <1>3, <1>5 DEF Closes

LEMMA CloseTyped ==
    ASSUME TaxiAssumption, TypeInv, NEW d \in Drivers,
           NEW out \in [Drivers -> Seq(RequestType)], CloseApp(d, out), \A e \in Drivers : Len(out[e]) <= SocketRoom,
           UNCHANGED driverEnd, \A e \in Drivers : dpc'[e] \in Early => dpc[e] \in Early
    PROVE  SocketsTyped'
  <1>1. /\ appEnd' = [appEnd EXCEPT ![d] = "closed"] /\ toApp' = [toApp EXCEPT ![d] = <<>>]
        /\ appEnd'[d] = "closed" /\ toApp'[d] = <<>>
        /\ \A e \in Drivers : e # d => appEnd'[e] = appEnd[e] /\ toApp'[e] = toApp[e]
        /\ toDriver' \in [Drivers -> Seq(RequestType)]
        /\ \A e \in Drivers : toDriver'[e] = out[e] \/ (e = d /\ toDriver'[e] = <<>>)
    BY CloseEffect DEF Closes
  <1>2. <<>> \in Seq(ReplyType) /\ Len(<<>>) = 0 /\ 0 <= SocketRoom
    BY EmptySeq DEF TaxiAssumption
  <1>3. /\ appEnd \in [Drivers -> AppEnds] /\ driverEnd \in [Drivers -> DriverEnds]
        /\ toApp \in [Drivers -> Seq(ReplyType)]
        /\ \A e \in Drivers : Len(toApp[e]) <= SocketRoom /\ (dpc[e] \in Early => toApp[e] = <<>>)
    BY DEF TypeInv, SocketsTyped
  <1>4. appEnd' \in [Drivers -> AppEnds] /\ toApp' \in [Drivers -> Seq(ReplyType)]
    BY <1>1, <1>2, <1>3 DEF AppEnds
  <1>5. \A e \in Drivers : Len(toApp'[e]) <= SocketRoom /\ Len(toDriver'[e]) <= SocketRoom
    BY <1>1, <1>2, <1>3
  <1>6. \A e \in Drivers : dpc'[e] \in Early => toApp'[e] = <<>>
    BY <1>1, <1>3
  <1> QED
    BY <1>1, <1>3, <1>4, <1>5, <1>6 DEF SocketsTyped

\* A driver that ends, or stays as it is.
Ends(d) ==
    /\ dpc'[d] = "dying" /\ inbox'[d] = <<>> /\ reply'[d] = NoReply /\ deadline'[d] = 0
    /\ driverEnd'[d] = (IF driverEnd[d] = "open" THEN "closed" ELSE driverEnd[d])
    /\ toDriver'[d] = <<>> /\ toApp'[d] \in {toApp[d], <<>>}
SameProcess(d) ==
    /\ dpc'[d] = dpc[d] /\ inbox'[d] = inbox[d] /\ reply'[d] = reply[d]
    /\ deadline'[d] = deadline[d] /\ driverEnd'[d] = driverEnd[d]
SameBuffers(d) == toDriver'[d] = toDriver[d] /\ toApp'[d] = toApp[d]

LEMMA FinishEffect ==
    ASSUME TypeInv, NEW some, Finish(some)
    PROVE  \A d \in Drivers : IF d \in some THEN Ends(d) ELSE SameProcess(d) /\ SameBuffers(d)
  <1> SUFFICES ASSUME NEW d \in Drivers
               PROVE  IF d \in some THEN Ends(d) ELSE SameProcess(d) /\ SameBuffers(d)
    OBVIOUS
  <1>1. PICK lost \in SUBSET {e \in some : toDriver[e] # <<>>} :
           toApp' = [e \in Drivers |-> IF e \in lost THEN <<>> ELSE toApp[e]]
    BY DEF Finish
  <1>2. lost \subseteq some
    OBVIOUS
  <1> QED
    BY <1>1, <1>2 DEF Finish, Ends, SameProcess, SameBuffers

LEMMA FinishTyped ==
    ASSUME TaxiAssumption, TypeInv, NEW some, Finish(some), UNCHANGED appEnd
    PROVE  ProcessTyped' /\ SocketsTyped'
  <1>1. \A d \in Drivers : IF d \in some THEN Ends(d) ELSE SameProcess(d) /\ SameBuffers(d)
    BY FinishEffect
  <1>2. /\ dpc' = [d \in Drivers |-> dpc'[d]] /\ driverEnd' = [d \in Drivers |-> driverEnd'[d]]
        /\ inbox' = [d \in Drivers |-> inbox'[d]] /\ reply' = [d \in Drivers |-> reply'[d]]
        /\ deadline' = [d \in Drivers |-> deadline'[d]]
        /\ toDriver' = [d \in Drivers |-> toDriver'[d]] /\ toApp' = [d \in Drivers |-> toApp'[d]]
    BY DEF Finish
  <1>3. /\ <<>> \in Seq(RequestType) /\ <<>> \in Seq(ReplyType) /\ Len(<<>>) = 0
        /\ 0 <= SocketRoom /\ 0 <= InputFrames
    BY EmptySeq DEF TaxiAssumption
  <1>4. NoReply \in ReplyType
    BY DEF NoReply, ReplyType, TaxiAssumption
  <1>5. ASSUME NEW d \in Drivers
        PROVE  /\ dpc'[d] \in DriverPC /\ inbox'[d] \in Seq(RequestType)
               /\ Len(inbox'[d]) <= InputFrames
               /\ dpc'[d] \in {"handle", "reply"} => inbox'[d] # <<>>
               /\ reply'[d] \in ReplyType /\ deadline'[d] \in Nat
    <2>1. /\ dpc[d] \in DriverPC /\ inbox[d] \in Seq(RequestType) /\ Len(inbox[d]) <= InputFrames
          /\ dpc[d] \in {"handle", "reply"} => inbox[d] # <<>>
          /\ reply[d] \in ReplyType /\ deadline[d] \in Nat
      BY DEF TypeInv, ProcessTyped
    <2>2. CASE Ends(d)
      BY <1>3, <1>4, <2>2 DEF Ends, DriverPC, Ending
    <2>3. CASE SameProcess(d)
      BY <2>1, <2>3 DEF SameProcess
    <2> QED
      BY <1>1, <2>2, <2>3
  <1>6. ASSUME NEW d \in Drivers
        PROVE  /\ driverEnd'[d] \in DriverEnds /\ toApp'[d] \in Seq(ReplyType)
               /\ toDriver'[d] \in Seq(RequestType)
               /\ Len(toApp'[d]) <= SocketRoom /\ Len(toDriver'[d]) <= SocketRoom
               /\ dpc'[d] \in Early => toApp'[d] = <<>>
    <2>1. /\ driverEnd[d] \in DriverEnds /\ toApp[d] \in Seq(ReplyType)
          /\ toDriver[d] \in Seq(RequestType)
          /\ Len(toApp[d]) <= SocketRoom /\ Len(toDriver[d]) <= SocketRoom
          /\ dpc[d] \in Early => toApp[d] = <<>>
      BY DEF TypeInv, SocketsTyped
    <2>2. CASE Ends(d)
      BY <1>3, <2>1, <2>2 DEF Ends, DriverEnds, Early
    <2>3. CASE SameProcess(d) /\ SameBuffers(d)
      BY <2>1, <2>3 DEF SameProcess, SameBuffers
    <2> QED
      BY <1>1, <2>2, <2>3
  <1>7. ProcessTyped'
    BY <1>2, <1>5 DEF ProcessTyped
  <1>8. SocketsTyped'
    <2>1. appEnd' \in [Drivers -> AppEnds]
      BY DEF TypeInv, SocketsTyped
    <2> QED
      BY <1>2, <1>6, <2>1 DEF SocketsTyped
  <1> QED
    BY <1>7, <1>8

\* What commands send.
Asking ==
    /\ outbox' \in Seq(RequestType) /\ nextId' \in Nat
    /\ \A k \in 1 .. Len(outbox') : Connected(outbox'[k].to)
    /\ UNCHANGED <<dpc, drivers>>

LEMMA RequestEffect ==
    ASSUME TypeInv, NEW some, NEW type \in {"task", "status"}, NEW timer \in Nat,
           Request(some, type, timer)
    PROVE  Asking
  <1>1. PICK to : to = Addressees(some)
    OBVIOUS
  <1>2. to \in Seq({d \in Drivers : Connected(d)})
    BY <1>1, AddresseesConnected DEF TypeInv, ManagerTyped
  <1>3. PICK n \in Nat : n = Len(to) /\ DOMAIN to = 1 .. n
    BY <1>2, LenProperties
  <1>4. \A i \in 1 .. n : to[i] \in Drivers /\ Connected(to[i])
    BY <1>2, <1>3, ElementOfSeq
  <1>5. nextId \in Nat
    BY DEF TypeInv, ManagerTyped
  <1>6. outbox' = [i \in 1 .. n |-> [to |-> to[i], type |-> type, id |-> nextId + i, timer |-> timer]]
    BY <1>1, <1>3 DEF Request
  <1>7. \A i \in 1 .. n : outbox'[i] \in RequestType
    <2> TAKE i \in 1 .. n
    <2>1. to[i] \in Drivers /\ nextId + i \in Nat
      BY <1>4, <1>5
    <2> QED
      BY <1>6, <2>1 DEF RequestType
  <1>8. outbox' \in [1 .. n -> RequestType]
    BY <1>6, <1>7
  <1>9. outbox' \in Seq(RequestType) /\ Len(outbox') = n
    <2>1. outbox' \in Seq(RequestType)
      BY <1>8, SeqDef
    <2> QED
      BY <1>8, <2>1, LenProperties
  <1>10. \A i \in 1 .. n : outbox'[i].to = to[i]
    BY <1>6
  <1>11. nextId' \in Nat /\ UNCHANGED <<dpc, drivers>>
    BY <1>1, <1>3, <1>5 DEF Request
  <1> QED
    BY <1>4, <1>9, <1>10, <1>11 DEF Asking

LEMMA AskEffect ==
    ASSUME TaxiAssumption, TypeInv, Ask
    PROVE  Asking
  <1>1. \A timer \in Timers : timer \in Nat
    BY DEF TaxiAssumption
  <1> QED
    BY <1>1, RequestEffect DEF Ask

-----------------------------------------------------------------------------
(* Types.                                                                  *)

LEMMA PartsKept ==
    ASSUME TypeInv
    PROVE  /\ UNCHANGED <<apc, ready, idx, outbox, drivers, pending, nextId>> => ManagerTyped'
           /\ UNCHANGED <<running, flags, listening>> => FlagsTyped'
           /\ UNCHANGED outside => OutsideTyped'
           /\ UNCHANGED process => ProcessTyped'
           /\ UNCHANGED <<dpc, appEnd, driverEnd, toApp, toDriver>> => SocketsTyped'
           /\ UNCHANGED history => HistoryTyped'
  <1>1. UNCHANGED <<apc, ready, idx, outbox, drivers, pending, nextId>> => ManagerTyped'
    BY DEF TypeInv, ManagerTyped
  <1>2. UNCHANGED <<running, flags, listening>> => FlagsTyped'
    BY DEF TypeInv, FlagsTyped, flags
  <1>3. UNCHANGED outside => OutsideTyped'
    BY DEF TypeInv, OutsideTyped, outside
  <1>4. UNCHANGED process => ProcessTyped'
    BY DEF TypeInv, ProcessTyped, process
  <1>5. UNCHANGED <<dpc, appEnd, driverEnd, toApp, toDriver>> => SocketsTyped'
    BY DEF TypeInv, SocketsTyped
  <1>6. UNCHANGED history => HistoryTyped'
    BY DEF TypeInv, HistoryTyped, history
  <1> QED
    BY <1>1, <1>2, <1>3, <1>4, <1>5, <1>6

\* The manager between its handlers.
Rounds ==
    \/ Drain \/ CheckChild \/ CheckStop \/ Select(FALSE) \/ Select(TRUE)
    \/ InputDone \/ PendingDone \/ DriversDone

LEMMA RoundsMove ==
    ASSUME Rounds
    PROVE  UNCHANGED <<outbox, running, tables, process, sockets, outside, history>>
  BY DEF Rounds, Drain, CheckChild, CheckStop, Select, InputDone, PendingDone, DriversDone, tables,
         process, sockets, ends, outside, history

LEMMA RoundsTyped == ASSUME TaxiAssumption, TypeInv, Rounds PROVE TypeInv'
  <1>1. UNCHANGED <<outbox, running, tables, process, sockets, outside, history>>
    BY RoundsMove
  <1>2. OutsideTyped' /\ ProcessTyped' /\ SocketsTyped' /\ HistoryTyped'
    BY <1>1, PartsKept DEF process, sockets, ends
  <1>3. FlagsTyped'
    <2>1. listening' = listening /\ running' = running
      BY <1>1 DEF sockets, ends
    <2>2. stopRequested' \in BOOLEAN /\ childChanged' \in BOOLEAN /\ notified' \in BOOLEAN
      BY DEF Rounds, Drain, CheckChild, CheckStop, Select, InputDone, PendingDone, DriversDone,
             flags, TypeInv, FlagsTyped
    <2> QED
      BY <2>1, <2>2 DEF TypeInv, FlagsTyped
  <1>4. apc' \in AppPC /\ ready' \subseteq Drivers \cup {Stdin, Listener} /\ idx' \in Nat
    <2>1. apc' \in AppPC
      BY PhaseFinds DEF Rounds, Drain, CheckChild, CheckStop, Select, InputDone, PendingDone,
                        DriversDone, Goto, AppPC
    <2>2. ready \subseteq Drivers \cup {Stdin, Listener} /\ idx \in Nat
      BY DEF TypeInv, ManagerTyped
    <2>3. ready' \subseteq Drivers \cup {Stdin, Listener}
      <3>1. ReadySockets \cup {Stdin} \subseteq Drivers \cup {Stdin, Listener}
        BY DEF ReadySockets
      <3>2. ready' \subseteq ready \/ ready' \subseteq ReadySockets \cup {Stdin}
        BY DEF Rounds, Drain, CheckChild, CheckStop, Select, InputDone, PendingDone, DriversDone
      <3> QED
        BY <2>2, <3>1, <3>2
    <2>4. idx' \in Nat
      BY <2>2 DEF Rounds, Drain, CheckChild, CheckStop, Select, InputDone, PendingDone,
                        DriversDone
    <2> QED
      BY <2>1, <2>3, <2>4
  <1>5. outbox' # <<>> => apc' = "stdin"
    <2>1. outbox' = outbox
      BY <1>1
    <2>2. apc = "stdin" => outbox = <<>>
      BY DEF Rounds, Drain, CheckChild, CheckStop, Select, InputDone, PendingDone, DriversDone
    <2> QED
      BY <2>1, <2>2 DEF TypeInv, ManagerTyped
  <1>6. ManagerTyped'
    BY <1>1, <1>4, <1>5 DEF TypeInv, ManagerTyped, tables
  <1> QED
    BY <1>2, <1>3, <1>6 DEF TypeInv

LEMMA ReapTyped == ASSUME TaxiAssumption, TypeInv, Reap PROVE TypeInv'
  <1>1. UNCHANGED <<ready, idx, outbox, running, pending, nextId, flags, inbox, reply,
                    deadline, listening, driverEnd, outside, told>>
    BY DEF Reap
  <1>2. outbox = <<>> /\ apc' \in AppPC
    BY DEF Reap, Goto, TypeInv, ManagerTyped, AppPC
  <1>3. FlagsTyped' /\ OutsideTyped'
    BY <1>1, PartsKept
  <1>4. ASSUME NEW d \in Drivers, dpc[d] = "zombie", dpc' = [dpc EXCEPT ![d] = "reaped"],
               asked' = [asked EXCEPT ![d] = <<>>],
               \/ ~Listed(d) /\ UNCHANGED drivers
               \/ \E i \in DOMAIN drivers : drivers[i].pid = d /\ drivers' = Removed(drivers, i),
               \/ Connected(d) /\ CloseApp(d, toDriver)
               \/ ~Connected(d) /\ UNCHANGED <<appEnd, toApp, toDriver>>
        PROVE  TypeInv'
    <2>1. drivers' \in Seq(Entry) /\ Len(drivers') <= DriverMax
      <3>1. CASE UNCHANGED drivers
        BY <3>1 DEF TypeInv, ManagerTyped
      <3>2. CASE \E i \in DOMAIN drivers : drivers' = Removed(drivers, i)
        <4>1. PICK i \in 1 .. Len(drivers) : drivers' = Removed(drivers, i)
          BY <3>2, Domains
        <4>2. drivers' \in Seq(Entry) /\ Len(drivers') = Len(drivers) - 1
          BY <4>1, RemovedElements DEF TypeInv, ManagerTyped
        <4> QED
          BY <4>2, Domains DEF TypeInv, ManagerTyped, TaxiAssumption
      <3> QED
        BY <1>4, <3>1, <3>2
    <2>2. ManagerTyped'
      BY <1>1, <1>2, <2>1 DEF TypeInv, ManagerTyped
    <2>3. ProcessTyped'
      BY <1>1, <1>4 DEF TypeInv, ProcessTyped, DriverPC, Ending
    <2>4. \A e \in Drivers : dpc'[e] \in Early => dpc[e] \in Early
      BY <1>4 DEF TypeInv, ProcessTyped, Early
    <2>5. SocketsTyped'
      <3>1. CASE UNCHANGED <<appEnd, toApp, toDriver>>
        BY <1>1, <2>4, <3>1 DEF TypeInv, SocketsTyped
      <3>2. CASE CloseApp(d, toDriver)
        <4>1. toDriver \in [Drivers -> Seq(RequestType)] /\ \A e \in Drivers : Len(toDriver[e]) <= SocketRoom
          BY DEF TypeInv, SocketsTyped
        <4>2. UNCHANGED driverEnd
          BY <1>1
        <4> QED
          BY <2>4, <3>2, <4>1, <4>2, CloseTyped
      <3> QED
        BY <1>4, <3>1, <3>2
    <2>6. HistoryTyped'
      <3>1. <<>> \in Seq(Nat)
        BY EmptySeq
      <3> QED
        BY <1>1, <1>4, <3>1 DEF TypeInv, HistoryTyped
    <2> QED
      BY <1>3, <2>2, <2>3, <2>5, <2>6 DEF TypeInv
  <1>5. ASSUME UNCHANGED <<dpc, drivers, appEnd, toApp, toDriver, asked>>
        PROVE  TypeInv'
    <2>1. ManagerTyped'
      BY <1>1, <1>2, <1>5 DEF TypeInv, ManagerTyped
    <2>2. ProcessTyped' /\ SocketsTyped' /\ HistoryTyped'
      BY <1>1, <1>5, PartsKept DEF process, history
    <2> QED
      BY <1>3, <2>1, <2>2 DEF TypeInv
  <1> QED
    BY <1>4, <1>5 DEF Reap

\* A command forks a driver, or sends requests, or does nothing.
Forking(d) ==
    /\ Len(drivers) < DriverMax /\ dpc[d] = "none"
    /\ dpc' = [dpc EXCEPT ![d] = "forked"]
    /\ drivers' = Append(drivers, [pid |-> d, connected |-> FALSE])
    /\ UNCHANGED <<outbox, nextId>>

LEMMA CommandEffect ==
    ASSUME TaxiAssumption, TypeInv, Line \/ EndOfInput
    PROVE  /\ apc = "stdin" /\ idx' \in Nat
           /\ \/ Asking
              \/ \E d \in Drivers : Forking(d)
              \/ UNCHANGED <<outbox, nextId, dpc, drivers>>
           /\ UNCHANGED <<apc, ready, pending, flags, inbox, reply, deadline, sockets, now, kills,
                          history>>
  <1>1. idx \in Nat
    BY DEF TypeInv, ManagerTyped
  <1>2. apc = "stdin" /\ idx' \in Nat
    BY <1>1 DEF Line, EndOfInput
  <1>3. UNCHANGED <<apc, ready, pending, flags, inbox, reply, deadline, sockets, now, kills, history>>
    BY DEF Line, EndOfInput, outside
  <1>4. Fork \/ Ask \/ UNCHANGED <<outbox, nextId, dpc, drivers>>
    BY DEF Line, EndOfInput
  <1>5. CASE Fork
    <2>1. (\E d \in Drivers : Forking(d)) \/ UNCHANGED <<outbox, nextId, dpc, drivers>>
      BY <1>5 DEF Fork, Forking
    <2> QED
      BY <1>2, <1>3, <2>1
  <1>6. CASE Ask
    BY <1>2, <1>3, <1>6, AskEffect
  <1> QED
    BY <1>2, <1>3, <1>4, <1>5, <1>6

LEMMA CommandTyped == ASSUME TaxiAssumption, TypeInv, Line \/ EndOfInput PROVE TypeInv'
  <1>1. /\ apc = "stdin" /\ idx' \in Nat
        /\ \/ Asking
           \/ \E d \in Drivers : Forking(d)
           \/ UNCHANGED <<outbox, nextId, dpc, drivers>>
        /\ UNCHANGED <<apc, ready, pending, flags, inbox, reply, deadline, sockets, now, kills,
                       history>>
    BY CommandEffect
  <1>2. FlagsTyped'
    <2>1. running' \in BOOLEAN
      BY DEF Line, EndOfInput, TypeInv, FlagsTyped
    <2> QED
      BY <1>1, <2>1 DEF TypeInv, FlagsTyped, flags, sockets, ends
  <1>3. OutsideTyped'
    <2>1. typed' \in 0 .. MaxCommands
      <3>1. CASE Line
        BY <3>1 DEF Line, TypeInv, OutsideTyped, TaxiAssumption
      <3>2. CASE EndOfInput
        BY <3>2 DEF EndOfInput, outside, TypeInv, OutsideTyped
      <3> QED
        BY <3>1, <3>2
    <2> QED
      BY <1>1, <2>1 DEF TypeInv, OutsideTyped
  <1>4. HistoryTyped'
    BY <1>1, PartsKept
  <1>5. CASE Asking \/ UNCHANGED <<outbox, nextId, dpc, drivers>>
    <2>1. UNCHANGED <<dpc, drivers>> /\ outbox' \in Seq(RequestType) /\ nextId' \in Nat
      BY <1>5 DEF Asking, TypeInv, ManagerTyped
    <2>2. ManagerTyped'
      BY <1>1, <2>1 DEF TypeInv, ManagerTyped
    <2>3. ProcessTyped' /\ SocketsTyped'
      BY <1>1, <2>1, PartsKept DEF process, sockets, ends
    <2> QED
      BY <1>2, <1>3, <1>4, <2>2, <2>3 DEF TypeInv
  <1>6. ASSUME NEW d \in Drivers, Forking(d) PROVE TypeInv'
    <2>1. [pid |-> d, connected |-> FALSE] \in Entry
      BY DEF Entry
    <2>2. drivers' \in Seq(Entry) /\ Len(drivers') = Len(drivers) + 1
      BY <1>6, <2>1, AppendProperties DEF Forking, TypeInv, ManagerTyped
    <2>3. Len(drivers') <= DriverMax
      BY <1>6, <2>2, Domains DEF Forking, TaxiAssumption
    <2>4. ManagerTyped'
      BY <1>1, <1>6, <2>2, <2>3 DEF Forking, TypeInv, ManagerTyped
    <2>5. dpc' = [dpc EXCEPT ![d] = "forked"] /\ dpc[d] = "none"
      BY <1>6 DEF Forking
    <2>6. ProcessTyped'
      BY <1>1, <2>5 DEF TypeInv, ProcessTyped, DriverPC
    <2>7. SocketsTyped'
      <3>1. \A e \in Drivers : dpc'[e] \in Early => dpc[e] \in Early
        BY <2>5 DEF TypeInv, ProcessTyped, Early
      <3> QED
        BY <1>1, <3>1 DEF TypeInv, SocketsTyped, sockets, ends
    <2> QED
      BY <1>2, <1>3, <1>4, <2>4, <2>6, <2>7 DEF TypeInv
  <1> QED
    BY <1>1, <1>5, <1>6

\* The request that is sent next.
LEMMA FirstRequest ==
    ASSUME TypeInv, outbox # <<>>
    PROVE  /\ Head(outbox) \in RequestType /\ Head(outbox).to \in Drivers
           /\ Head(outbox) = outbox[1] /\ 1 \in 1 .. Len(outbox) /\ Tail(outbox) \in Seq(RequestType)
           /\ \A k \in 1 .. Len(Tail(outbox)) :
                 k + 1 \in 1 .. Len(outbox) /\ Tail(outbox)[k] = outbox[k + 1]
  <1>1. outbox \in Seq(RequestType)
    BY DEF TypeInv, ManagerTyped
  <1>2. Len(outbox) \in Nat \ {0}
    BY <1>1, EmptySeq
  <1>3. /\ Head(outbox) \in RequestType /\ Tail(outbox) \in Seq(RequestType)
        /\ Len(Tail(outbox)) = Len(outbox) - 1
        /\ \A k \in 1 .. Len(Tail(outbox)) : Tail(outbox)[k] = outbox[k + 1]
    BY <1>1, HeadTailProperties
  <1>4. \A k \in 1 .. Len(Tail(outbox)) : k + 1 \in 1 .. Len(outbox)
    BY <1>2, <1>3
  <1>5. Head(outbox) = outbox[1]
    BY <1>1
  <1>6. Head(outbox).to \in Drivers
    BY <1>3 DEF RequestType
  <1> QED
    BY <1>2, <1>3, <1>4, <1>5, <1>6

LEMMA SendTyped == ASSUME TaxiAssumption, TypeInv, SendRequest PROVE TypeInv'
  <1>1. PICK request : request = Head(outbox)
    OBVIOUS
  <1>2. PICK d : d = request.to
    OBVIOUS
  <1>3. apc = "stdin" /\ outbox # <<>> /\ outbox' = Tail(outbox)
    BY DEF SendRequest
  <1>4. request \in RequestType /\ d \in Drivers /\ Tail(outbox) \in Seq(RequestType)
    BY <1>1, <1>2, <1>3, FirstRequest
  <1>5. UNCHANGED <<apc, ready, idx, running, tables, flags, process, ends, toApp, outside, told>>
    BY DEF SendRequest
  <1>6. \/ UNCHANGED <<toDriver, asked>>
        \/ /\ Len(toDriver[d]) < SocketRoom
           /\ toDriver' = [toDriver EXCEPT ![d] = Append(toDriver[d], request)]
           /\ asked' = [asked EXCEPT ![d] = Append(asked[d], request.id)]
    BY <1>1, <1>2 DEF SendRequest, HasRoom
  <1>7. FlagsTyped' /\ OutsideTyped' /\ ProcessTyped'
    BY <1>5, PartsKept DEF ends
  <1>8. ManagerTyped'
    BY <1>3, <1>4, <1>5 DEF TypeInv, ManagerTyped, tables
  <1>9. CASE UNCHANGED <<toDriver, asked>>
    <2>1. SocketsTyped' /\ HistoryTyped'
      BY <1>5, <1>9, PartsKept DEF ends, process, history
    <2> QED
      BY <1>7, <1>8, <2>1 DEF TypeInv
  <1>10. CASE /\ Len(toDriver[d]) < SocketRoom
              /\ toDriver' = [toDriver EXCEPT ![d] = Append(toDriver[d], request)]
              /\ asked' = [asked EXCEPT ![d] = Append(asked[d], request.id)]
    <2>1. toDriver[d] \in Seq(RequestType) /\ asked[d] \in Seq(Nat) /\ request.id \in Nat
      BY <1>4 DEF TypeInv, SocketsTyped, HistoryTyped, RequestType
    <2>2. /\ Append(toDriver[d], request) \in Seq(RequestType)
          /\ Len(Append(toDriver[d], request)) = Len(toDriver[d]) + 1
          /\ Append(asked[d], request.id) \in Seq(Nat)
      BY <1>4, <2>1, AppendProperties
    <2>3. Len(toDriver[d]) + 1 <= SocketRoom
      BY <1>10, <2>1, LenProperties DEF TaxiAssumption
    <2>4. SocketsTyped'
      BY <1>5, <1>10, <2>2, <2>3 DEF TypeInv, SocketsTyped, ends, process
    <2>5. HistoryTyped'
      BY <1>5, <1>10, <2>2 DEF TypeInv, HistoryTyped
    <2> QED
      BY <1>7, <1>8, <2>4, <2>5 DEF TypeInv
  <1> QED
    BY <1>6, <1>9, <1>10

LEMMA AcceptTyped == ASSUME TaxiAssumption, TypeInv, Accept PROVE TypeInv'
  <1>1. UNCHANGED <<idx, outbox, running, drivers, nextId, flags, process, listening,
                    driverEnd, toApp, toDriver, outside, history>>
    BY DEF Accept
  <1>2. FlagsTyped' /\ OutsideTyped' /\ ProcessTyped' /\ HistoryTyped'
    BY <1>1, PartsKept
  <1>3. outbox = <<>> /\ apc' \in AppPC /\ ready' \subseteq ready
    BY PhaseFinds DEF Accept, Goto, TypeInv, ManagerTyped, AppPC
  <1>4. pending' \in Seq(Drivers) /\ Len(pending') <= DriverMax /\ appEnd' \in [Drivers -> AppEnds]
    <2>1. CASE UNCHANGED <<appEnd, pending>>
      BY <2>1 DEF TypeInv, ManagerTyped, SocketsTyped
    <2>2. ASSUME NEW d \in Drivers, Len(pending) < DriverMax,
                 appEnd' = [appEnd EXCEPT ![d] = "open"], pending' = Append(pending, d)
          PROVE  pending' \in Seq(Drivers) /\ Len(pending') <= DriverMax
                 /\ appEnd' \in [Drivers -> AppEnds]
      <3>1. pending' \in Seq(Drivers) /\ Len(pending') = Len(pending) + 1
        BY <2>2, AppendProperties DEF TypeInv, ManagerTyped
      <3>2. Len(pending') <= DriverMax
        BY <2>2, <3>1, Domains DEF TaxiAssumption
      <3>3. appEnd' \in [Drivers -> AppEnds]
        BY <2>2 DEF TypeInv, SocketsTyped, AppEnds
      <3> QED
        BY <3>1, <3>2, <3>3
    <2> QED
      BY <2>1, <2>2 DEF Accept
  <1>5. ManagerTyped'
    BY <1>1, <1>3, <1>4 DEF TypeInv, ManagerTyped
  <1>6. SocketsTyped'
    BY <1>1, <1>4 DEF TypeInv, SocketsTyped, process
  <1> QED
    BY <1>2, <1>5, <1>6 DEF TypeInv

\* A pending connection becomes that of its driver, whose HELLO is read ...
Registering(i, d) ==
    /\ toApp[d] # <<>> /\ Registers(d)
    /\ drivers' = [k \in DOMAIN drivers |->
                     IF drivers[k].pid = d THEN [drivers[k] EXCEPT !.connected = TRUE]
                     ELSE drivers[k]]
    /\ toApp' = [toApp EXCEPT ![d] = Tail(@)]
    /\ UNCHANGED <<appEnd, toDriver>>

\* ... or is closed.
Refusing(i, d) ==
    /\ toApp[d] = <<>> \/ ~Registers(d)
    /\ CloseApp(d, toDriver)
    /\ UNCHANGED drivers

LEMMA PendingEffect ==
    ASSUME TypeInv, ReceivePending
    PROVE  /\ apc = "pending" /\ outbox = <<>>
           /\ \E i \in 1 .. Len(pending) :
                 /\ pending[i] \in Drivers /\ pending[i] \in ready
                 /\ pending' = Removed(pending, i) /\ idx' \in Nat
                 /\ Registering(i, pending[i]) \/ Refusing(i, pending[i])
           /\ UNCHANGED <<apc, ready, outbox, running, nextId, flags, process, listening, driverEnd,
                          outside, history>>
  <1>1. apc = "pending" /\ outbox = <<>>
    BY DEF ReceivePending, TypeInv, ManagerTyped
  <1>2. PICK i \in DOMAIN pending :
           /\ NextReady(pending, i) /\ pending' = Removed(pending, i)
           /\ \/ Registering(i, pending[i]) /\ idx' = i + 1
              \/ Refusing(i, pending[i]) /\ idx' = i
    BY DEF ReceivePending, Registering, Refusing
  <1>3. i \in 1 .. Len(pending) /\ idx' \in Nat
    BY <1>2, Domains
  <1>4. pending[i] \in Drivers /\ pending[i] \in ready
    BY <1>2, <1>3, ElementOfSeq DEF TypeInv, ManagerTyped, NextReady
  <1> QED
    BY <1>1, <1>2, <1>3, <1>4 DEF ReceivePending

LEMMA RegisteringEffect ==
    ASSUME TypeInv, NEW i, NEW d \in Drivers, Registering(i, d)
    PROVE  /\ drivers' \in Seq(Entry) /\ Len(drivers') = Len(drivers)
           /\ \A k \in 1 .. Len(drivers) :
                 /\ drivers'[k].pid = drivers[k].pid
                 /\ drivers'[k].connected = (drivers[k].pid = d \/ drivers[k].connected)
           /\ toApp'[d] = Tail(toApp[d]) /\ toApp'[d] \in Seq(ReplyType)
           /\ Len(toApp'[d]) = Len(toApp[d]) - 1
           /\ \A e \in Drivers : e # d => toApp'[e] = toApp[e]
  <1>1. PICK n \in Nat : n = Len(drivers) /\ DOMAIN drivers = 1 .. n
    BY Domains
  <1>2. drivers' = [k \in 1 .. n |-> IF drivers[k].pid = d THEN [drivers[k] EXCEPT !.connected = TRUE]
                                     ELSE drivers[k]]
    BY <1>1 DEF Registering
  <1>3. ASSUME NEW k \in 1 .. n
        PROVE  /\ drivers'[k] \in Entry /\ drivers'[k].pid = drivers[k].pid
               /\ drivers'[k].connected = (drivers[k].pid = d \/ drivers[k].connected)
    <2>1. drivers[k] \in Entry
      BY <1>1, ElementOfSeq DEF TypeInv, ManagerTyped
    <2>2. CASE drivers[k].pid = d
      <3>1. drivers'[k] = [drivers[k] EXCEPT !.connected = TRUE]
        BY <1>2, <2>2
      <3> QED
        BY <2>1, <2>2, <3>1 DEF Entry
    <2>3. CASE drivers[k].pid # d
      <3>1. drivers'[k] = drivers[k]
        BY <1>2, <2>3
      <3>2. drivers[k].connected = (drivers[k].pid = d \/ drivers[k].connected)
        BY <2>1, <2>3 DEF Entry
      <3> QED
        BY <2>1, <3>1, <3>2
    <2> QED
      BY <2>2, <2>3
  <1>4. drivers' \in [1 .. n -> Entry]
    BY <1>2, <1>3
  <1>5. drivers' \in Seq(Entry) /\ Len(drivers') = n
    <2>1. drivers' \in Seq(Entry)
      BY <1>4, SeqDef
    <2> QED
      BY <1>4, <2>1, LenProperties
  <1>6. toApp[d] # <<>> /\ toApp' = [toApp EXCEPT ![d] = Tail(toApp[d])]
    BY DEF Registering
  <1>7. toApp \in [Drivers -> Seq(ReplyType)]
    BY DEF TypeInv, SocketsTyped
  <1>8. toApp'[d] = Tail(toApp[d]) /\ \A e \in Drivers : e # d => toApp'[e] = toApp[e]
    BY <1>6, <1>7
  <1>9. Tail(toApp[d]) \in Seq(ReplyType) /\ Len(Tail(toApp[d])) = Len(toApp[d]) - 1
    BY <1>6, <1>7, HeadTailProperties
  <1> QED
    BY <1>1, <1>3, <1>5, <1>8, <1>9

LEMMA PendingTyped == ASSUME TaxiAssumption, TypeInv, ReceivePending PROVE TypeInv'
  <1>1. /\ outbox = <<>>
        /\ UNCHANGED <<apc, ready, outbox, running, nextId, flags, process, listening, driverEnd,
                       outside, history>>
    BY PendingEffect
  <1>2. PICK i \in 1 .. Len(pending) :
           /\ pending[i] \in Drivers /\ pending' = Removed(pending, i) /\ idx' \in Nat
           /\ Registering(i, pending[i]) \/ Refusing(i, pending[i])
    BY PendingEffect
  <1>3. PICK d \in Drivers : d = pending[i]
    BY <1>2
  <1>4. FlagsTyped' /\ OutsideTyped' /\ ProcessTyped' /\ HistoryTyped'
    BY <1>1, PartsKept
  <1>5. pending' \in Seq(Drivers) /\ Len(pending') <= DriverMax
    <2>1. pending' \in Seq(Drivers) /\ Len(pending') = Len(pending) - 1
      BY <1>2, RemovedElements DEF TypeInv, ManagerTyped
    <2> QED
      BY <2>1, Domains DEF TypeInv, ManagerTyped, TaxiAssumption
  <1>6. CASE Registering(i, d)
    <2>1. drivers' \in Seq(Entry) /\ Len(drivers') = Len(drivers)
      BY <1>6, RegisteringEffect
    <2>2. ManagerTyped'
      BY <1>1, <1>2, <1>5, <2>1 DEF TypeInv, ManagerTyped
    <2>3. /\ toApp'[d] = Tail(toApp[d]) /\ toApp'[d] \in Seq(ReplyType)
          /\ Len(toApp'[d]) = Len(toApp[d]) - 1
          /\ \A e \in Drivers : e # d => toApp'[e] = toApp[e]
      BY <1>6, RegisteringEffect
    <2>4. toApp' \in [Drivers -> Seq(ReplyType)]
      <3>1. toApp' = [toApp EXCEPT ![d] = toApp'[d]]
        BY <1>6, <2>3 DEF Registering
      <3> QED
        BY <2>3, <3>1 DEF TypeInv, SocketsTyped
    <2>5. toApp[d] \in Seq(ReplyType) /\ Len(toApp[d]) <= SocketRoom /\ Len(toApp[d]) \in Nat
      BY LenProperties DEF TypeInv, SocketsTyped
    <2>6. \A e \in Drivers : Len(toApp'[e]) <= SocketRoom
      BY <2>3, <2>5 DEF TypeInv, SocketsTyped, TaxiAssumption
    <2>7. \A e \in Drivers : dpc'[e] \in Early => toApp'[e] = <<>>
      BY <1>1, <1>6, <2>3 DEF TypeInv, SocketsTyped, Registering, process
    <2>8. UNCHANGED <<appEnd, driverEnd, toDriver>>
      BY <1>1, <1>6 DEF Registering
    <2>9. SocketsTyped'
      BY <2>4, <2>6, <2>7, <2>8 DEF TypeInv, SocketsTyped
    <2> QED
      BY <1>4, <2>2, <2>9 DEF TypeInv
  <1>7. CASE Refusing(i, d)
    <2>1. ManagerTyped'
      BY <1>1, <1>2, <1>5, <1>7 DEF TypeInv, ManagerTyped, Refusing
    <2>2. toDriver \in [Drivers -> Seq(RequestType)] /\ \A e \in Drivers : Len(toDriver[e]) <= SocketRoom
      BY DEF TypeInv, SocketsTyped
    <2>3. CloseApp(d, toDriver) /\ UNCHANGED driverEnd /\ UNCHANGED dpc
      BY <1>1, <1>7 DEF Refusing, process
    <2>4. \A e \in Drivers : dpc'[e] \in Early => dpc[e] \in Early
      BY <2>3
    <2>5. SocketsTyped'
      BY <2>2, <2>3, <2>4, CloseTyped
    <2> QED
      BY <1>4, <2>1, <2>5 DEF TypeInv
  <1> QED
    BY <1>2, <1>3, <1>6, <1>7

\* The manager prints what driver d sent, or removes it, or finds nothing.
Hearing(d) ==
    /\ toApp[d] # <<>>
    /\ asked' = [asked EXCEPT ![d] = SubSeq(@, Len(Read(toApp[d])) + 1, Len(@))]
    /\ told' = [told EXCEPT ![d] = LastEnd(@, Read(toApp[d]), Len(Read(toApp[d])))]
    /\ toApp' = [toApp EXCEPT ![d] = Unread(@)]
    /\ UNCHANGED <<drivers, appEnd, toDriver>>
Dropping(i, d) ==
    /\ toApp[d] = <<>> /\ driverEnd[d] = "closed"
    /\ drivers' = Removed(drivers, i)
    /\ CloseApp(d, toDriver)
    /\ UNCHANGED history

LEMMA DriverEffect ==
    ASSUME TypeInv, ReceiveDriver
    PROVE  /\ apc = "drivers" /\ outbox = <<>> /\ idx' \in Nat
           /\ \E i \in 1 .. Len(drivers) :
                 /\ drivers[i].pid \in Drivers
                 /\ (IF drivers[i].connected THEN drivers[i].pid ELSE Listener) \in ready
                 /\ \/ Hearing(drivers[i].pid) \/ Dropping(i, drivers[i].pid)
                    \/ UNCHANGED <<drivers, appEnd, toApp, toDriver, history>>
           /\ UNCHANGED <<apc, ready, outbox, running, pending, nextId, flags, process, listening,
                          driverEnd, outside>>
  <1>1. apc = "drivers" /\ outbox = <<>>
    BY DEF ReceiveDriver, TypeInv, ManagerTyped
  <1>2. PICK i \in DOMAIN drivers :
           /\ NextReady(Descriptors, i)
           /\ \/ Hearing(drivers[i].pid) /\ idx' = i + 1
              \/ Dropping(i, drivers[i].pid) /\ idx' = i
              \/ UNCHANGED <<drivers, appEnd, toApp, toDriver, history>> /\ idx' = i + 1
    BY DEF ReceiveDriver, Hearing, Dropping
  <1>3. i \in 1 .. Len(drivers) /\ idx' \in Nat
    BY <1>2, Domains
  <1>4. drivers[i].pid \in Drivers
    BY <1>3, EntryTyped DEF TypeInv, ManagerTyped
  <1>5. Descriptors[i] = IF drivers[i].connected THEN drivers[i].pid ELSE Listener
    BY <1>2 DEF Descriptors
  <1>6. (IF drivers[i].connected THEN drivers[i].pid ELSE Listener) \in ready
    BY <1>2, <1>5 DEF NextReady
  <1> QED
    BY <1>1, <1>2, <1>3, <1>4, <1>6 DEF ReceiveDriver

\* What Hearing leaves, with m responses printed.
LEMMA HearingEffect ==
    ASSUME TaxiAssumption, TypeInv, NEW d \in Drivers, Hearing(d)
    PROVE  \E m \in Nat :
              /\ m <= Len(toApp[d])
              /\ toApp'[d] \in Seq(ReplyType) /\ Len(toApp'[d]) = Len(toApp[d]) - m
              /\ \A k \in 1 .. Len(toApp[d]) - m : toApp'[d][k] = toApp[d][m + k]
              /\ asked'[d] = SubSeq(asked[d], m + 1, Len(asked[d]))
              /\ told'[d] = LastEnd(told[d], toApp[d], m)
              /\ \A e \in Drivers : e # d => /\ toApp'[e] = toApp[e] /\ asked'[e] = asked[e]
                                             /\ told'[e] = told[e]
  <1>1. /\ toApp \in [Drivers -> Seq(ReplyType)] /\ asked \in [Drivers -> Seq(Nat)]
        /\ told \in [Drivers -> Nat]
    BY DEF TypeInv, SocketsTyped, HistoryTyped
  <1>2. PICK m \in Nat :
           /\ m <= Len(toApp[d])
           /\ Len(Read(toApp[d])) = m /\ \A k \in 1 .. m : Read(toApp[d])[k] = toApp[d][k]
           /\ Unread(toApp[d]) \in Seq(ReplyType) /\ Len(Unread(toApp[d])) = Len(toApp[d]) - m
           /\ \A k \in 1 .. Len(toApp[d]) - m : Unread(toApp[d])[k] = toApp[d][m + k]
    <2>1. PICK buffer \in Seq(ReplyType) : buffer = toApp[d]
      BY <1>1
    <2>2. \E m \in Nat :
             /\ m <= Len(buffer)
             /\ Len(Read(buffer)) = m /\ \A k \in 1 .. m : Read(buffer)[k] = buffer[k]
             /\ Unread(buffer) \in Seq(ReplyType) /\ Len(Unread(buffer)) = Len(buffer) - m
             /\ \A k \in 1 .. Len(buffer) - m : Unread(buffer)[k] = buffer[m + k]
      BY SMTT(30), ReadElements
    <2> QED
      BY <2>1, <2>2
  <1>3. toApp'[d] = Unread(toApp[d]) /\ \A e \in Drivers : e # d => toApp'[e] = toApp[e]
    BY <1>1 DEF Hearing
  <1>4. /\ asked'[d] = SubSeq(asked[d], m + 1, Len(asked[d]))
        /\ \A e \in Drivers : e # d => asked'[e] = asked[e]
    BY <1>1, <1>2 DEF Hearing
  <1>5. /\ told'[d] = LastEnd(told[d], Read(toApp[d]), m)
        /\ \A e \in Drivers : e # d => told'[e] = told[e]
    BY <1>1, <1>2 DEF Hearing
  <1>6. LastEnd(told[d], Read(toApp[d]), m) = LastEnd(told[d], toApp[d], m)
    BY <1>2, LastEndSame
  <1> QED
    BY <1>2, <1>3, <1>4, <1>5, <1>6

LEMMA HearingTyped ==
    ASSUME TaxiAssumption, TypeInv, NEW d \in Drivers, Hearing(d), UNCHANGED <<process, driverEnd>>
    PROVE  SocketsTyped' /\ HistoryTyped'
  <1>1. PICK m \in Nat :
           /\ m <= Len(toApp[d])
           /\ toApp'[d] \in Seq(ReplyType) /\ Len(toApp'[d]) = Len(toApp[d]) - m
           /\ asked'[d] = SubSeq(asked[d], m + 1, Len(asked[d]))
           /\ told'[d] = LastEnd(told[d], toApp[d], m)
           /\ \A e \in Drivers : e # d => toApp'[e] = toApp[e]
    BY HearingEffect
  <1>2. /\ toApp' = [toApp EXCEPT ![d] = toApp'[d]] /\ asked' = [asked EXCEPT ![d] = asked'[d]]
        /\ told' = [told EXCEPT ![d] = told'[d]]
    BY DEF Hearing, TypeInv, SocketsTyped, HistoryTyped
  <1>3. toApp[d] \in Seq(ReplyType) /\ Len(toApp[d]) \in Nat /\ Len(toApp[d]) <= SocketRoom
    BY LenProperties DEF TypeInv, SocketsTyped
  <1>4. told'[d] \in Nat
    BY <1>1, <1>3, LastEndIsTime DEF TypeInv, HistoryTyped
  <1>5. asked'[d] \in Seq(Nat)
    <2>1. PICK n \in Nat : n = Len(asked[d])
      BY LenProperties DEF TypeInv, HistoryTyped
    <2>2. \A k \in m + 1 .. n : k \in 1 .. n
      BY <2>1
    <2>3. \A k \in m + 1 .. n : asked[d][k] \in Nat
      BY <2>1, <2>2, ElementOfSeq DEF TypeInv, HistoryTyped
    <2>4. m + 1 \in Int /\ n \in Int
      BY <2>1
    <2> QED
      BY <1>1, <2>1, <2>3, <2>4, SubSeqProperties
  <1>6. HistoryTyped'
    BY <1>2, <1>4, <1>5 DEF TypeInv, HistoryTyped
  <1>7. \A e \in Drivers : Len(toApp'[e]) <= SocketRoom
    BY SMTT(30), <1>1, <1>3 DEF TypeInv, SocketsTyped, TaxiAssumption
  <1>8. \A e \in Drivers : dpc'[e] \in Early => toApp'[e] = <<>>
    BY <1>1 DEF Hearing, process, TypeInv, SocketsTyped
  <1>9. toApp' \in [Drivers -> Seq(ReplyType)]
    BY <1>1, <1>2 DEF TypeInv, SocketsTyped
  <1>10. SocketsTyped'
    BY <1>7, <1>8, <1>9 DEF Hearing, TypeInv, SocketsTyped
  <1> QED
    BY <1>6, <1>10

LEMMA DriverTyped == ASSUME TaxiAssumption, TypeInv, ReceiveDriver PROVE TypeInv'
  <1>1. /\ outbox = <<>> /\ idx' \in Nat
        /\ UNCHANGED <<apc, ready, outbox, running, pending, nextId, flags, process, listening,
                       driverEnd, outside>>
    BY DriverEffect
  <1>2. PICK i \in 1 .. Len(drivers) :
           /\ drivers[i].pid \in Drivers
           /\ \/ Hearing(drivers[i].pid) \/ Dropping(i, drivers[i].pid)
              \/ UNCHANGED <<drivers, appEnd, toApp, toDriver, history>>
    BY DriverEffect
  <1>3. PICK d \in Drivers : d = drivers[i].pid
    BY <1>2
  <1>4. FlagsTyped' /\ OutsideTyped' /\ ProcessTyped'
    BY <1>1, PartsKept
  <1>5. CASE Hearing(d)
    <2>1. ManagerTyped'
      BY <1>1, <1>5 DEF Hearing, TypeInv, ManagerTyped
    <2>2. SocketsTyped' /\ HistoryTyped'
      BY <1>1, <1>5, HearingTyped
    <2> QED
      BY <1>4, <2>1, <2>2 DEF TypeInv
  <1>6. CASE Dropping(i, d)
    <2>1. drivers' \in Seq(Entry) /\ Len(drivers') = Len(drivers) - 1
      BY <1>6, RemovedElements DEF Dropping, TypeInv, ManagerTyped
    <2>2. ManagerTyped'
      BY <1>1, <2>1, Domains DEF TypeInv, ManagerTyped, TaxiAssumption
    <2>3. toDriver \in [Drivers -> Seq(RequestType)] /\ \A e \in Drivers : Len(toDriver[e]) <= SocketRoom
      BY DEF TypeInv, SocketsTyped
    <2>4. CloseApp(d, toDriver) /\ UNCHANGED driverEnd /\ UNCHANGED dpc /\ UNCHANGED history
      BY <1>1, <1>6 DEF Dropping, process
    <2>5. \A e \in Drivers : dpc'[e] \in Early => dpc[e] \in Early
      BY <2>4
    <2>6. SocketsTyped'
      BY <2>3, <2>4, <2>5, CloseTyped
    <2>7. HistoryTyped'
      BY <2>4, PartsKept
    <2> QED
      BY <1>4, <2>2, <2>6, <2>7 DEF TypeInv
  <1>7. CASE UNCHANGED <<drivers, appEnd, toApp, toDriver, history>>
    <2>1. ManagerTyped'
      BY <1>1, <1>7 DEF TypeInv, ManagerTyped
    <2>2. SocketsTyped' /\ HistoryTyped'
      BY <1>1, <1>7, PartsKept DEF process
    <2> QED
      BY <1>4, <2>1, <2>2 DEF TypeInv
  <1> QED
    BY <1>2, <1>3, <1>5, <1>6, <1>7

Farewell(d) == [to |-> d, type |-> "shutdown", id |-> 0, timer |-> 0]

\* What is sent with a SHUTDOWN.
LEMMA DismissEffect ==
    ASSUME TaxiAssumption, TypeInv, NEW d \in Drivers, Dismiss(d)
    PROVE  \E out \in [Drivers -> Seq(RequestType)] :
              /\ CloseApp(d, out)
              /\ \A e \in Drivers : Len(out[e]) <= SocketRoom
              /\ \A e \in Drivers : out[e] = toDriver[e] \/ (e = d /\ driverEnd[d] = "open")
  <1>1. toDriver \in [Drivers -> Seq(RequestType)] /\ \A e \in Drivers : Len(toDriver[e]) <= SocketRoom
    BY DEF TypeInv, SocketsTyped
  <1>2. CASE driverEnd[d] = "closed" /\ CloseApp(d, toDriver)
    BY <1>1, <1>2
  <1>3. CASE /\ driverEnd[d] = "open" /\ HasRoom(toDriver[d])
             /\ CloseApp(d, [toDriver EXCEPT ![d] = Append(@, Farewell(d))])
    <2>1. PICK out : out = [toDriver EXCEPT ![d] = Append(toDriver[d], Farewell(d))]
      OBVIOUS
    <2>2. CloseApp(d, out)
      BY <1>3, <2>1
    <2>3. Farewell(d) \in RequestType
      BY DEF Farewell, RequestType
    <2>4. /\ Append(toDriver[d], Farewell(d)) \in Seq(RequestType)
          /\ Len(Append(toDriver[d], Farewell(d))) = Len(toDriver[d]) + 1
      BY <1>1, <2>3, AppendProperties
    <2>5. Len(toDriver[d]) \in Nat /\ Len(toDriver[d]) < SocketRoom
      BY <1>1, <1>3, LenProperties DEF HasRoom
    <2>6. out \in [Drivers -> Seq(RequestType)] /\ \A e \in Drivers : e # d => out[e] = toDriver[e]
      BY <1>1, <2>1, <2>4
    <2>7. \A e \in Drivers : Len(out[e]) <= SocketRoom
      BY <1>1, <2>1, <2>4, <2>5 DEF TaxiAssumption
    <2> QED
      BY <1>3, <2>2, <2>6, <2>7
  <1> QED
    BY <1>2, <1>3 DEF Dismiss, Farewell

LEMMA DismissTyped ==
    ASSUME TaxiAssumption, TypeInv, NEW d \in Drivers, Dismiss(d), UNCHANGED <<process, driverEnd>>
    PROVE  SocketsTyped'
  <1>1. PICK out \in [Drivers -> Seq(RequestType)] :
           CloseApp(d, out) /\ \A e \in Drivers : Len(out[e]) <= SocketRoom
    BY DismissEffect
  <1>2. \A e \in Drivers : dpc'[e] \in Early => dpc[e] \in Early
    BY DEF process
  <1> QED
    BY <1>1, <1>2, CloseTyped

\* The manager while it serves, where it does not turn to its end.
Handlers ==
    \/ Reap \/ Line \/ EndOfInput \/ SendRequest
    \/ Accept \/ ReceivePending \/ ReceiveDriver

LEMMA AppSteps ==
    AppStep \/ Select(TRUE) <=> Rounds \/ Handlers \/ ShutDriver \/ ShutPending \/ Wait \/ KillDriver
                                \/ WaitForDriver
  BY DEF AppStep, Rounds, Handlers

LEMMA HandlersMove == ASSUME Handlers PROVE apc' \in Serving
  <1>1. CASE Reap
    BY <1>1 DEF Reap, Goto, Serving
  <1>2. CASE Line \/ EndOfInput \/ SendRequest
    BY <1>2 DEF Line, EndOfInput, SendRequest, Serving
  <1>3. CASE Accept
    BY <1>3, PhaseFinds DEF Accept, Goto, Serving
  <1>4. CASE ReceivePending \/ ReceiveDriver
    BY <1>4 DEF ReceivePending, ReceiveDriver, Serving
  <1> QED
    BY <1>1, <1>2, <1>3, <1>4 DEF Handlers

\* The manager is not involved.
LEMMA AloneMoves ==
    ASSUME \/ \E d \in Drivers : DriverStep(d) \/ Kill(d)
           \/ \E group \in {{}, Drivers} : Stop(group)
           \/ Tick \/ UNCHANGED vars
    PROVE  UNCHANGED <<app, tables, listening, history>>
  <1>1. CASE \E d \in Drivers : DriverStep(d)
    <2>1. PICK d \in Drivers : DriverStep(d)
      BY <1>1
    <2> QED
      BY <2>1 DEF DriverStep, Restore, Connect, SendHello, Receive, Handle, Reply, Die, sockets, ends
  <1>2. CASE \E d \in Drivers : Kill(d)
    BY <1>2 DEF Kill
  <1>3. CASE (\E group \in {{}, Drivers} : Stop(group)) \/ Tick \/ UNCHANGED vars
    BY <1>3 DEF Stop, Tick, vars, sockets, ends
  <1> QED
    BY <1>1, <1>2, <1>3

LEMMA StepCases ==
    ASSUME [Next]_vars
    PROVE  \/ Rounds \/ Handlers \/ ShutDriver \/ ShutPending \/ Wait \/ KillDriver \/ WaitForDriver
           \/ \E d \in Drivers : DriverStep(d) \/ Kill(d)
           \/ \E group \in {{}, Drivers} : Stop(group)
           \/ Tick \/ UNCHANGED vars
  BY AppSteps DEF Next, Done

LEMMA IndexStep == ASSUME TypeInv, IndexInv, [Next]_vars PROVE IndexInv'
  <1>1. idx \in Nat
    BY DEF TypeInv, ManagerTyped
  <1>2. CASE Rounds
    <2>1. apc' # "kill" /\ apc' # "waitpid"
      BY <1>2, PhaseFinds DEF Rounds, Drain, CheckChild, CheckStop, Select, InputDone, PendingDone,
                              DriversDone, Goto
    <2>2. apc' \in {"shut_drivers", "shut_pending"} => idx' = 1
      BY <1>2, PhaseFinds DEF Rounds, Drain, CheckChild, CheckStop, Select, InputDone, PendingDone,
                              DriversDone, Goto
    <2> QED
      BY <2>1, <2>2 DEF IndexInv
  <1>3. CASE Handlers
    BY <1>3, HandlersMove DEF IndexInv, Serving
  <1>4. CASE ShutDriver \/ ShutPending
    BY <1>1, <1>4 DEF ShutDriver, ShutPending, Goto, IndexInv
  <1>5. CASE Wait \/ KillDriver \/ WaitForDriver
    BY <1>1, <1>5 DEF Wait, KillDriver, WaitForDriver, Goto, IndexInv, tables
  <1>6. CASE UNCHANGED <<app, tables>>
    BY <1>6 DEF IndexInv, app, tables
  <1> QED
    BY <1>2, <1>3, <1>4, <1>5, <1>6, StepCases, AloneMoves

\* shutdown_app.
LEMMA ShutDriverTyped == ASSUME TaxiAssumption, TypeInv, IndexInv, ShutDriver PROVE TypeInv'
  <1>1. UNCHANGED <<ready, outbox, running, tables, flags, process, listening, driverEnd, outside,
                    history>>
    BY DEF ShutDriver
  <1>2. FlagsTyped' /\ OutsideTyped' /\ ProcessTyped' /\ HistoryTyped'
    BY <1>1, PartsKept
  <1>3. outbox = <<>> /\ idx \in Nat /\ idx >= 1
    BY DEF ShutDriver, TypeInv, ManagerTyped, IndexInv
  <1>4. apc' \in AppPC /\ idx' \in Nat
    BY <1>3 DEF ShutDriver, Goto, AppPC
  <1>5. ManagerTyped'
    BY <1>1, <1>3, <1>4 DEF TypeInv, ManagerTyped, tables
  <1>6. CASE UNCHANGED <<appEnd, toApp, toDriver>>
    <2>1. SocketsTyped'
      BY <1>1, <1>6, PartsKept DEF process
    <2> QED
      BY <1>2, <1>5, <2>1 DEF TypeInv
  <1>7. CASE idx <= Len(drivers) /\ Dismiss(drivers[idx].pid)
    <2>1. idx \in 1 .. Len(drivers)
      BY <1>3, <1>7, Domains
    <2>2. drivers[idx].pid \in Drivers
      BY <2>1, EntryTyped DEF TypeInv, ManagerTyped
    <2>3. SocketsTyped'
      BY <1>1, <1>7, <2>2, DismissTyped
    <2> QED
      BY <1>2, <1>5, <2>3 DEF TypeInv
  <1> QED
    BY <1>6, <1>7 DEF ShutDriver

LEMMA ShutPendingTyped == ASSUME TaxiAssumption, TypeInv, IndexInv, ShutPending PROVE TypeInv'
  <1>1. UNCHANGED <<ready, outbox, running, tables, flags, process, driverEnd, outside, history>>
    BY DEF ShutPending
  <1>2. OutsideTyped' /\ ProcessTyped' /\ HistoryTyped'
    BY <1>1, PartsKept
  <1>3. outbox = <<>> /\ idx \in Nat /\ idx >= 1
    BY DEF ShutPending, TypeInv, ManagerTyped, IndexInv
  <1>4. apc' \in AppPC /\ idx' \in Nat
    BY <1>3 DEF ShutPending, Goto, AppPC, TypeInv, ManagerTyped
  <1>5. ManagerTyped'
    BY <1>1, <1>3, <1>4 DEF TypeInv, ManagerTyped, tables
  <1>6. listening' \in BOOLEAN
    BY DEF ShutPending, TypeInv, FlagsTyped
  <1>7. FlagsTyped'
    BY <1>1, <1>6 DEF TypeInv, FlagsTyped, flags
  <1>8. CASE appEnd' = [d \in Drivers |-> IF appEnd[d] = "backlog" THEN "closed" ELSE appEnd[d]]
             /\ UNCHANGED <<toApp, toDriver>>
    <2>1. SocketsTyped'
      BY <1>1, <1>8 DEF TypeInv, SocketsTyped, AppEnds, process
    <2> QED
      BY <1>2, <1>5, <1>7, <2>1 DEF TypeInv
  <1>9. CASE idx <= Len(pending) /\ Dismiss(pending[idx])
    <2>1. idx \in 1 .. Len(pending)
      BY <1>3, <1>9, Domains
    <2>2. pending[idx] \in Drivers
      BY <2>1, ElementOfSeq DEF TypeInv, ManagerTyped
    <2>3. SocketsTyped'
      BY <1>1, <1>9, <2>2, DismissTyped
    <2> QED
      BY <1>2, <1>5, <1>7, <2>3 DEF TypeInv
  <1> QED
    BY <1>8, <1>9 DEF ShutPending

\* A process is collected.
LEMMA CollectTyped ==
    ASSUME TypeInv, NEW d, dpc[d] = "zombie", dpc' = [dpc EXCEPT ![d] = "reaped"],
           UNCHANGED <<inbox, reply, deadline, sockets>>
    PROVE  ProcessTyped' /\ SocketsTyped'
  <1>1. ProcessTyped'
    BY DEF TypeInv, ProcessTyped, DriverPC, Ending
  <1>2. \A e \in Drivers : dpc'[e] \in Early => dpc[e] \in Early
    BY DEF TypeInv, ProcessTyped, Early
  <1>3. SocketsTyped'
    BY <1>2 DEF TypeInv, SocketsTyped, sockets, ends
  <1> QED
    BY <1>1, <1>3

LEMMA EndTyped ==
    ASSUME TaxiAssumption, TypeInv, Wait \/ KillDriver \/ WaitForDriver
    PROVE  TypeInv'
  <1>1. UNCHANGED <<ready, outbox, running, tables, flags, listening, appEnd, outside, history>>
    BY DEF Wait, KillDriver, WaitForDriver, sockets, ends
  <1>2. FlagsTyped' /\ OutsideTyped' /\ HistoryTyped'
    BY <1>1, PartsKept
  <1>3. outbox = <<>> /\ idx \in Nat
    BY DEF Wait, KillDriver, WaitForDriver, TypeInv, ManagerTyped
  <1>4. apc' \in AppPC /\ idx' \in Nat
    BY <1>3 DEF Wait, KillDriver, WaitForDriver, Goto, AppPC, TypeInv, ManagerTyped
  <1>5. ManagerTyped'
    BY <1>1, <1>3, <1>4 DEF TypeInv, ManagerTyped, tables
  <1>6. ProcessTyped' /\ SocketsTyped'
    <2>1. CASE Wait \/ WaitForDriver
      <3>1. UNCHANGED <<inbox, reply, deadline, sockets>>
        BY <2>1 DEF Wait, WaitForDriver
      <3>2. (\E d : Collect(d)) \/ UNCHANGED dpc
        BY <2>1 DEF Wait, WaitForDriver
      <3>3. CASE UNCHANGED dpc
        BY <3>1, <3>3, PartsKept DEF process, sockets, ends
      <3>4. CASE \E d : Collect(d)
        BY <3>1, <3>4, CollectTyped DEF Collect
      <3> QED
        BY <3>2, <3>3, <3>4
    <2>2. CASE KillDriver
      <3>1. (\E some : Finish(some)) \/ UNCHANGED <<process, driverEnd, toApp, toDriver>>
        BY <2>2 DEF KillDriver, Terminated
      <3>2. CASE UNCHANGED <<process, driverEnd, toApp, toDriver>>
        BY <1>1, <3>2, PartsKept DEF process
      <3>3. CASE \E some : Finish(some)
        BY <1>1, <3>3, FinishTyped
      <3> QED
        BY <3>1, <3>2, <3>3
    <2> QED
      BY <2>1, <2>2
  <1> QED
    BY <1>2, <1>5, <1>6 DEF TypeInv

\* The first request of a driver.
LEMMA FirstInbox ==
    ASSUME TypeInv, NEW d \in Drivers, dpc[d] \in {"handle", "reply"}
    PROVE  /\ Head(inbox[d]) \in RequestType /\ Head(inbox[d]) = inbox[d][1]
           /\ Len(inbox[d]) \in Nat /\ Len(inbox[d]) >= 1
           /\ Tail(inbox[d]) \in Seq(RequestType) /\ Len(Tail(inbox[d])) = Len(inbox[d]) - 1
           /\ \A k \in 1 .. Len(inbox[d]) - 1 : Tail(inbox[d])[k] = inbox[d][k + 1]
  <1>1. PICK s \in Seq(RequestType) : s = inbox[d] /\ s # <<>>
    BY DEF TypeInv, ProcessTyped
  <1>2. Len(s) \in Nat \ {0}
    BY <1>1, EmptySeq
  <1>3. /\ Head(s) \in RequestType /\ Tail(s) \in Seq(RequestType) /\ Len(Tail(s)) = Len(s) - 1
        /\ \A i \in 1 .. Len(Tail(s)) : Tail(s)[i] = s[i + 1]
    BY <1>1, HeadTailProperties
  <1>4. Head(s) = s[1]
    BY <1>1
  <1> QED
    BY <1>1, <1>2, <1>3, <1>4

\* A driver comes to an answer.
Answering(d, type, timer, end) ==
    /\ dpc[d] = "handle" /\ dpc' = [dpc EXCEPT ![d] = "reply"]
    /\ reply' = [reply EXCEPT ![d] = Response(Head(inbox[d]), type, timer)]
    /\ deadline' = [deadline EXCEPT ![d] = end]
    /\ UNCHANGED <<inbox, driverEnd, toApp, toDriver>>
Answers(d, type, timer, end) ==
    \/ /\ type = "busy" /\ ~NoTask(d) /\ timer = Remaining(deadline[d] - now) /\ end = deadline[d]
    \/ /\ type = "available" /\ NoTask(d) /\ timer = 0 /\ end = 0
    \/ /\ type = "accepted" /\ NoTask(d) /\ end = now + timer * Second

LEMMA HandleEffect ==
    ASSUME TaxiAssumption, TypeInv, NEW d \in Drivers, Handle(d)
    PROVE  /\ dpc[d] = "handle"
           /\ \/ Finish({d})
              \/ \E type \in Answer, timer \in Nat, end \in Nat :
                    Answering(d, type, timer, end) /\ Answers(d, type, timer, end)
           /\ UNCHANGED <<app, tables, flags, listening, appEnd, outside, history>>
  <1>1. dpc[d] = "handle" /\ UNCHANGED <<app, tables, flags, listening, appEnd, outside, history>>
    BY DEF Handle
  <1>2. Head(inbox[d]) \in RequestType
    BY <1>1, FirstInbox
  <1>3. deadline \in [Drivers -> Nat] /\ now \in Nat /\ Second \in Nat /\ Head(inbox[d]).timer \in Nat
    BY <1>2 DEF TypeInv, ProcessTyped, OutsideTyped, RequestType, TaxiAssumption
  <1>4. CASE /\ ~NoTask(d)
             /\ reply' = [reply EXCEPT ![d] =
                            Response(Head(inbox[d]), "busy", Remaining(deadline[d] - now))]
             /\ DriverGoto(d, "reply") /\ UNCHANGED <<inbox, deadline, driverEnd, toApp, toDriver>>
    <2>1. deadline[d] - now \in Nat /\ deadline[d] - now > 0
      BY <1>3, <1>4 DEF NoTask
    <2>2. Remaining(deadline[d] - now) \in Nat
      BY <2>1, RoundedUp
    <2>3. deadline' = [deadline EXCEPT ![d] = deadline[d]]
      BY <1>3, <1>4
    <2>4. Answering(d, "busy", Remaining(deadline[d] - now), deadline[d])
      BY <1>1, <1>4, <2>3 DEF Answering, DriverGoto
    <2>5. Answers(d, "busy", Remaining(deadline[d] - now), deadline[d])
      BY <1>4 DEF Answers
    <2>6. deadline[d] \in Nat /\ "busy" \in Answer
      BY <1>3 DEF Answer
    <2> QED
      BY <1>1, <2>2, <2>4, <2>5, <2>6
  <1>5. CASE /\ NoTask(d)
             /\ reply' = [reply EXCEPT ![d] = Response(Head(inbox[d]), "available", 0)]
             /\ deadline' = [deadline EXCEPT ![d] = 0]
             /\ DriverGoto(d, "reply") /\ UNCHANGED <<inbox, driverEnd, toApp, toDriver>>
    <2>1. Answering(d, "available", 0, 0)
      BY <1>1, <1>5 DEF Answering, DriverGoto
    <2>2. Answers(d, "available", 0, 0)
      BY <1>5 DEF Answers
    <2>3. 0 \in Nat /\ "available" \in Answer
      BY DEF Answer
    <2> QED
      BY <1>1, <2>1, <2>2, <2>3
  <1>6. CASE /\ NoTask(d)
             /\ reply' = [reply EXCEPT ![d] =
                            Response(Head(inbox[d]), "accepted", Head(inbox[d]).timer)]
             /\ deadline' = [deadline EXCEPT ![d] = now + Head(inbox[d]).timer * Second]
             /\ DriverGoto(d, "reply") /\ UNCHANGED <<inbox, driverEnd, toApp, toDriver>>
    <2>1. PICK timer \in Nat : timer = Head(inbox[d]).timer
      BY <1>3
    <2>2. timer * Second \in Nat
      BY <1>3, SMTT(30)
    <2>3. PICK end \in Nat : end = now + timer * Second
      BY <1>3, <2>2
    <2>4. Answering(d, "accepted", timer, end)
      BY <1>1, <1>6, <2>1, <2>3 DEF Answering, DriverGoto
    <2>5. Answers(d, "accepted", timer, end)
      BY <1>6, <2>3 DEF Answers
    <2>6. "accepted" \in Answer
      BY DEF Answer
    <2> QED
      BY <1>1, <2>4, <2>5, <2>6
  <1> QED
    BY <1>1, <1>4, <1>5, <1>6 DEF Handle

LEMMA HandleTyped == ASSUME TaxiAssumption, TypeInv, NEW d \in Drivers, Handle(d) PROVE TypeInv'
  <1>1. /\ dpc[d] = "handle"
        /\ UNCHANGED <<app, tables, flags, listening, appEnd, outside, history>>
    BY HandleEffect
  <1>2. ManagerTyped' /\ FlagsTyped' /\ OutsideTyped' /\ HistoryTyped'
    BY <1>1, PartsKept DEF app, tables
  <1>3. CASE Finish({d})
    BY <1>1, <1>2, <1>3, FinishTyped DEF TypeInv
  <1>4. ASSUME NEW type \in Answer, NEW timer \in Nat, NEW end \in Nat, Answering(d, type, timer, end)
        PROVE  TypeInv'
    <2>1. Head(inbox[d]) \in RequestType
      BY <1>1, FirstInbox
    <2>2. Response(Head(inbox[d]), type, timer) \in ReplyType
      BY <2>1 DEF Response, ReplyType, RequestType, Answer, TypeInv, OutsideTyped
    <2>3. ProcessTyped'
      BY <1>4, <2>2 DEF Answering, TypeInv, ProcessTyped, DriverPC
    <2>4. \A e \in Drivers : dpc'[e] \in Early => dpc[e] \in Early
      BY <1>4 DEF Answering, TypeInv, ProcessTyped, Early
    <2>5. SocketsTyped'
      BY <1>1, <1>4, <2>4 DEF Answering, TypeInv, SocketsTyped
    <2> QED
      BY <1>2, <2>3, <2>5 DEF TypeInv
  <1> QED
    BY <1>3, <1>4, HandleEffect

\* A driver that appends to what it has sent.
LEMMA SentTyped ==
    ASSUME TaxiAssumption, TypeInv, NEW d \in Drivers, NEW m \in ReplyType, Len(toApp[d]) < SocketRoom,
           toApp' = [toApp EXCEPT ![d] = Append(@, m)], dpc'[d] \notin Early,
           \A e \in Drivers : e # d => dpc'[e] = dpc[e],
           UNCHANGED <<appEnd, driverEnd, toDriver>>
    PROVE  SocketsTyped'
  <1>1. toApp[d] \in Seq(ReplyType) /\ Len(toApp[d]) \in Nat
    BY LenProperties DEF TypeInv, SocketsTyped
  <1>2. Append(toApp[d], m) \in Seq(ReplyType) /\ Len(Append(toApp[d], m)) = Len(toApp[d]) + 1
    BY <1>1, AppendProperties
  <1>3. /\ toApp'[d] = Append(toApp[d], m) /\ \A e \in Drivers : e # d => toApp'[e] = toApp[e]
        /\ toApp' \in [Drivers -> Seq(ReplyType)]
    BY <1>2 DEF TypeInv, SocketsTyped
  <1>4. \A e \in Drivers : Len(toApp'[e]) <= SocketRoom
    BY <1>1, <1>2, <1>3 DEF TypeInv, SocketsTyped, TaxiAssumption
  <1>5. \A e \in Drivers : dpc'[e] \in Early => toApp'[e] = <<>>
    BY <1>3 DEF TypeInv, SocketsTyped
  <1> QED
    BY <1>3, <1>4, <1>5 DEF TypeInv, SocketsTyped

Hello == [NoReply EXCEPT !.type = "hello"]

LEMMA HelloTyped == ASSUME TaxiAssumption, TypeInv, NEW d \in Drivers, SendHello(d) PROVE TypeInv'
  <1>1. dpc[d] = "hello" /\ UNCHANGED <<app, tables, flags, listening, appEnd, outside, history>>
    BY DEF SendHello
  <1>2. ManagerTyped' /\ FlagsTyped' /\ OutsideTyped' /\ HistoryTyped'
    BY <1>1, PartsKept DEF app, tables
  <1>3. CASE Finish({d})
    BY <1>1, <1>2, <1>3, FinishTyped DEF TypeInv
  <1>4. CASE /\ toApp' = [toApp EXCEPT ![d] = Append(@, Hello)] /\ DriverGoto(d, "select")
             /\ UNCHANGED <<inbox, reply, deadline, driverEnd, toDriver>>
    <2>1. Hello \in ReplyType
      BY DEF Hello, NoReply, ReplyType, TaxiAssumption
    <2>2. toApp[d] = <<>> /\ Len(toApp[d]) < SocketRoom
      BY <1>1, EmptySeq DEF TypeInv, SocketsTyped, Early, TaxiAssumption
    <2>3. dpc'[d] \notin Early /\ \A e \in Drivers : e # d => dpc'[e] = dpc[e]
      BY <1>4 DEF DriverGoto, TypeInv, ProcessTyped, Early
    <2>4. SocketsTyped'
      BY <1>1, <1>4, <2>1, <2>2, <2>3, SentTyped
    <2>5. ProcessTyped'
      BY <1>4 DEF DriverGoto, TypeInv, ProcessTyped, DriverPC
    <2> QED
      BY <1>2, <2>4, <2>5 DEF TypeInv
  <1> QED
    BY <1>3, <1>4 DEF SendHello, Hello

LEMMA ReceiveEffect ==
    ASSUME TaxiAssumption, TypeInv, NEW d \in Drivers, Receive(d), ~Finish({d})
    PROVE  \E m \in Nat :
              /\ toDriver[d] # <<>> /\ m >= 1 /\ m <= Len(toDriver[d]) /\ m <= InputFrames
              /\ inbox' = [inbox EXCEPT ![d] = inbox'[d]]
              /\ inbox'[d] \in Seq(RequestType) /\ Len(inbox'[d]) = m
              /\ \A k \in 1 .. m : inbox'[d][k] = toDriver[d][k]
              /\ toDriver' = [toDriver EXCEPT ![d] = toDriver'[d]]
              /\ toDriver'[d] \in Seq(RequestType) /\ Len(toDriver'[d]) = Len(toDriver[d]) - m
              /\ \A k \in 1 .. Len(toDriver[d]) - m : toDriver'[d][k] = toDriver[d][m + k]
              /\ dpc' = [dpc EXCEPT ![d] = "handle"]
              /\ UNCHANGED <<reply, deadline, driverEnd, toApp>>
  <1>1. /\ toDriver[d] # <<>>
        /\ inbox' = [inbox EXCEPT ![d] = Read(toDriver[d])]
        /\ toDriver' = [toDriver EXCEPT ![d] = Unread(toDriver[d])]
        /\ dpc' = [dpc EXCEPT ![d] = "handle"]
        /\ UNCHANGED <<reply, deadline, driverEnd, toApp>>
    BY DEF Receive, DriverGoto
  <1>2. toDriver \in [Drivers -> Seq(RequestType)] /\ inbox \in [Drivers -> Seq(RequestType)]
    BY DEF TypeInv, SocketsTyped, ProcessTyped
  <1>3. PICK buffer \in Seq(RequestType) : buffer = toDriver[d]
    BY <1>2
  <1>4. PICK m \in Nat :
           /\ m <= Len(buffer) /\ m <= InputFrames /\ (buffer # <<>> => m >= 1)
           /\ Read(buffer) \in Seq(RequestType) /\ Len(Read(buffer)) = m
           /\ \A k \in 1 .. m : Read(buffer)[k] = buffer[k]
           /\ Unread(buffer) \in Seq(RequestType) /\ Len(Unread(buffer)) = Len(buffer) - m
           /\ \A k \in 1 .. Len(buffer) - m : Unread(buffer)[k] = buffer[m + k]
    BY ReadElements
  <1>5. inbox'[d] = Read(buffer) /\ toDriver'[d] = Unread(buffer)
    BY <1>1, <1>2, <1>3
  <1>6. /\ inbox' = [inbox EXCEPT ![d] = inbox'[d]]
        /\ toDriver' = [toDriver EXCEPT ![d] = toDriver'[d]]
    BY <1>1, <1>3, <1>5, Zenon
  <1>7. buffer # <<>> /\ m >= 1 /\ m <= Len(buffer) /\ m <= InputFrames
    BY <1>1, <1>3, <1>4
  <1>8. /\ inbox'[d] \in Seq(RequestType) /\ Len(inbox'[d]) = m
        /\ \A k \in 1 .. m : inbox'[d][k] = toDriver[d][k]
    BY <1>3, <1>4, <1>5, Zenon
  <1>9. /\ toDriver'[d] \in Seq(RequestType) /\ Len(toDriver'[d]) = Len(toDriver[d]) - m
        /\ \A k \in 1 .. Len(toDriver[d]) - m : toDriver'[d][k] = toDriver[d][m + k]
    BY <1>3, <1>4, <1>5, Zenon
  <1> WITNESS m \in Nat
  <1> QED
    BY <1>1, <1>3, <1>6, <1>7, <1>8, <1>9, Zenon

LEMMA ReceiveTyped == ASSUME TaxiAssumption, TypeInv, NEW d \in Drivers, Receive(d) PROVE TypeInv'
  <1>1. UNCHANGED <<app, tables, flags, listening, appEnd, outside, history>>
    BY DEF Receive
  <1>2. ManagerTyped' /\ FlagsTyped' /\ OutsideTyped' /\ HistoryTyped'
    BY <1>1, PartsKept DEF app, tables
  <1>3. CASE Finish({d})
    BY <1>1, <1>2, <1>3, FinishTyped DEF TypeInv
  <1>4. CASE ~Finish({d})
    <2>1. PICK m \in Nat :
              /\ m >= 1 /\ m <= Len(toDriver[d]) /\ m <= InputFrames
              /\ inbox' = [inbox EXCEPT ![d] = inbox'[d]]
              /\ inbox'[d] \in Seq(RequestType) /\ Len(inbox'[d]) = m
              /\ toDriver' = [toDriver EXCEPT ![d] = toDriver'[d]]
              /\ toDriver'[d] \in Seq(RequestType) /\ Len(toDriver'[d]) = Len(toDriver[d]) - m
              /\ dpc' = [dpc EXCEPT ![d] = "handle"]
              /\ UNCHANGED <<reply, deadline, driverEnd, toApp>>
      BY <1>4, ReceiveEffect
    <2>2. inbox'[d] # <<>>
      BY <2>1, EmptySeq
    <2>3. Len(toDriver[d]) \in Nat /\ Len(toDriver[d]) <= SocketRoom
      BY LenProperties DEF TypeInv, SocketsTyped
    <2>4. Len(toDriver'[d]) <= SocketRoom
      BY <2>1, <2>3 DEF TaxiAssumption
    <2>5. inbox' \in [Drivers -> Seq(RequestType)] /\ toDriver' \in [Drivers -> Seq(RequestType)]
      BY <2>1 DEF TypeInv, SocketsTyped, ProcessTyped
    <2>6. \A e \in Drivers : e # d => inbox'[e] = inbox[e] /\ toDriver'[e] = toDriver[e]
                                      /\ dpc'[e] = dpc[e]
      BY <2>1 DEF TypeInv, SocketsTyped, ProcessTyped
    <2>7. dpc'[d] = "handle" /\ dpc' \in [Drivers -> DriverPC]
      BY <2>1 DEF TypeInv, ProcessTyped, DriverPC
    <2>8. ProcessTyped'
      <3>1. \A e \in Drivers : Len(inbox'[e]) <= InputFrames
        BY <2>1, <2>6 DEF TypeInv, ProcessTyped
      <3>2. \A e \in Drivers : dpc'[e] \in {"handle", "reply"} => inbox'[e] # <<>>
        BY <2>2, <2>6 DEF TypeInv, ProcessTyped
      <3> QED
        BY <2>1, <2>5, <2>7, <3>1, <3>2 DEF TypeInv, ProcessTyped
    <2>9. SocketsTyped'
      <3>1. \A e \in Drivers : Len(toDriver'[e]) <= SocketRoom
        BY <2>4, <2>6 DEF TypeInv, SocketsTyped
      <3>2. \A e \in Drivers : dpc'[e] \in Early => dpc[e] \in Early
        BY <2>6, <2>7 DEF Early
      <3> QED
        BY <1>1, <2>1, <2>5, <3>1, <3>2 DEF TypeInv, SocketsTyped
    <2> QED
      BY <1>2, <2>8, <2>9 DEF TypeInv
  <1> QED
    BY <1>3, <1>4

\* A driver has sent its answer.
Answered(d) ==
    /\ appEnd[d] = "open" /\ Len(toApp[d]) < SocketRoom
    /\ toApp' = [toApp EXCEPT ![d] = Append(@, reply[d])]
    /\ reply' = [reply EXCEPT ![d] = NoReply]
    /\ inbox' = [inbox EXCEPT ![d] = Tail(@)]
    /\ dpc' = [dpc EXCEPT ![d] = IF Len(inbox[d]) = 1 THEN "select" ELSE "handle"]
    /\ UNCHANGED <<deadline, driverEnd, toDriver>>

LEMMA ReplyTyped == ASSUME TaxiAssumption, TypeInv, NEW d \in Drivers, Reply(d) PROVE TypeInv'
  <1>1. dpc[d] = "reply" /\ UNCHANGED <<app, tables, flags, listening, appEnd, outside, history>>
    BY DEF Reply
  <1>2. ManagerTyped' /\ FlagsTyped' /\ OutsideTyped' /\ HistoryTyped'
    BY <1>1, PartsKept DEF app, tables
  <1>3. CASE Finish({d})
    BY <1>1, <1>2, <1>3, FinishTyped DEF TypeInv
  <1>4. CASE Answered(d)
    <2>1. reply[d] \in ReplyType
      BY DEF TypeInv, ProcessTyped
    <2>2. /\ Tail(inbox[d]) \in Seq(RequestType) /\ Len(Tail(inbox[d])) = Len(inbox[d]) - 1
          /\ Len(inbox[d]) \in Nat /\ Len(inbox[d]) >= 1
      BY <1>1, FirstInbox
    <2>3. /\ dpc' = [dpc EXCEPT ![d] = IF Len(inbox[d]) = 1 THEN "select" ELSE "handle"]
          /\ inbox' = [inbox EXCEPT ![d] = Tail(inbox[d])]
          /\ reply' = [reply EXCEPT ![d] = NoReply] /\ UNCHANGED <<deadline, driverEnd, toDriver>>
      BY <1>4 DEF Answered
    <2>4. dpc'[d] \in {"select", "handle"} /\ \A e \in Drivers : e # d => dpc'[e] = dpc[e]
      BY <2>3 DEF TypeInv, ProcessTyped
    <2>5. SocketsTyped'
      <3>1. dpc'[d] \notin Early
        BY <2>4 DEF Early
      <3> QED
        BY <1>1, <1>4, <2>1, <2>4, <3>1, SentTyped DEF Answered
    <2>6. ProcessTyped'
      <3>1. NoReply \in ReplyType
        BY DEF NoReply, ReplyType, TaxiAssumption
      <3>2. dpc' \in [Drivers -> DriverPC]
        BY <2>3 DEF TypeInv, ProcessTyped, DriverPC
      <3>3. reply' \in [Drivers -> ReplyType] /\ deadline' \in [Drivers -> Nat]
        BY <2>3, <3>1 DEF TypeInv, ProcessTyped
      <3>4. inbox' \in [Drivers -> Seq(RequestType)]
        BY <2>2, <2>3 DEF TypeInv, ProcessTyped
      <3>5. inbox'[d] = Tail(inbox[d]) /\ \A e \in Drivers : e # d => inbox'[e] = inbox[e]
        BY <2>3 DEF TypeInv, ProcessTyped
      <3>6. \A e \in Drivers : Len(inbox'[e]) <= InputFrames
        <4>1. Len(inbox[d]) <= InputFrames /\ InputFrames \in Nat
          BY DEF TypeInv, ProcessTyped, TaxiAssumption
        <4>2. PICK n \in Nat : n = Len(inbox[d])
          BY <2>2
        <4>3. Len(inbox'[d]) = n - 1
          BY <2>2, <3>5, <4>2
        <4>4. Len(inbox'[d]) <= InputFrames
          BY <4>1, <4>2, <4>3
        <4> QED
          BY <3>5, <4>4 DEF TypeInv, ProcessTyped
      <3>7. dpc'[d] = "handle" => inbox'[d] # <<>>
        <4>1. dpc'[d] = IF Len(inbox[d]) = 1 THEN "select" ELSE "handle"
          BY <2>3 DEF TypeInv, ProcessTyped
        <4>2. Len(inbox[d]) # 1 => Len(inbox'[d]) # 0
          <5>1. PICK n \in Nat : n = Len(inbox[d])
            BY <2>2
          <5>2. Len(inbox'[d]) = n - 1
            BY <2>2, <3>5, <5>1
          <5> QED
            BY <5>1, <5>2
        <4> QED
          BY <4>1, <4>2, EmptySeq
      <3>8. \A e \in Drivers : dpc'[e] \in {"handle", "reply"} => inbox'[e] # <<>>
        BY <2>4, <3>5, <3>7 DEF TypeInv, ProcessTyped
      <3> QED
        BY <3>2, <3>3, <3>4, <3>6, <3>8 DEF ProcessTyped
    <2> QED
      BY <1>2, <2>5, <2>6 DEF TypeInv
  <1> QED
    BY <1>3, <1>4 DEF Reply, Answered, HasRoom, DriverGoto

LEMMA DriverStepTyped == ASSUME TaxiAssumption, TypeInv, NEW d \in Drivers, DriverStep(d) PROVE TypeInv'
  <1>1. CASE Restore(d)
    <2>1. UNCHANGED <<app, tables, flags, inbox, reply, deadline, sockets, outside, history>>
      BY <1>1 DEF Restore
    <2>2. ManagerTyped' /\ FlagsTyped' /\ OutsideTyped' /\ HistoryTyped'
      BY <2>1, PartsKept DEF app, tables, sockets, ends
    <2>3. dpc[d] = "forked" /\ dpc' = [dpc EXCEPT ![d] = "connect"]
      BY <1>1 DEF Restore, DriverGoto
    <2>4. ProcessTyped'
      BY <2>1, <2>3 DEF TypeInv, ProcessTyped, DriverPC
    <2>5. \A e \in Drivers : dpc'[e] \in Early => dpc[e] \in Early
      BY <2>3 DEF TypeInv, ProcessTyped, Early
    <2>6. SocketsTyped'
      BY <2>1, <2>5 DEF TypeInv, SocketsTyped, sockets, ends
    <2> QED
      BY <2>2, <2>4, <2>6 DEF TypeInv
  <1>2. CASE Connect(d)
    <2>1. UNCHANGED <<app, tables, flags, listening, outside, history>>
      BY <1>2 DEF Connect
    <2>2. ManagerTyped' /\ FlagsTyped' /\ OutsideTyped' /\ HistoryTyped'
      BY <2>1, PartsKept DEF app, tables
    <2>3. CASE Finish({d}) /\ UNCHANGED appEnd
      BY <2>2, <2>3, FinishTyped DEF TypeInv
    <2>4. CASE /\ DriverGoto(d, "hello") /\ appEnd' = [appEnd EXCEPT ![d] = "backlog"]
               /\ driverEnd' = [driverEnd EXCEPT ![d] = "open"]
               /\ UNCHANGED <<inbox, reply, deadline, toApp, toDriver>>
      <3>1. dpc[d] = "connect" /\ dpc' = [dpc EXCEPT ![d] = "hello"]
        BY <1>2, <2>4 DEF Connect, DriverGoto
      <3>2. ProcessTyped'
        BY <2>4, <3>1 DEF TypeInv, ProcessTyped, DriverPC
      <3>3. \A e \in Drivers : dpc'[e] \in Early => dpc[e] \in Early
        BY <3>1 DEF TypeInv, ProcessTyped, Early
      <3>4. SocketsTyped'
        BY <2>4, <3>3 DEF TypeInv, SocketsTyped, AppEnds, DriverEnds
      <3> QED
        BY <2>2, <3>2, <3>4 DEF TypeInv
    <2> QED
      BY <1>2, <2>3, <2>4 DEF Connect
  <1>3. CASE SendHello(d)
    BY <1>3, HelloTyped
  <1>4. CASE Receive(d)
    BY <1>4, ReceiveTyped
  <1>5. CASE Handle(d)
    BY <1>5, HandleTyped
  <1>6. CASE Reply(d)
    BY <1>6, ReplyTyped
  <1>7. CASE Die(d)
    <2>1. UNCHANGED <<app, tables, stopRequested, inbox, reply, deadline, sockets, outside, history>>
      BY <1>7 DEF Die
    <2>2. ManagerTyped' /\ OutsideTyped' /\ HistoryTyped'
      BY <2>1, PartsKept DEF app, tables
    <2>3. dpc[d] = "dying" /\ dpc' = [dpc EXCEPT ![d] = "zombie"]
      BY <1>7 DEF Die, DriverGoto
    <2>4. childChanged' = TRUE /\ notified' = TRUE
      BY <1>7 DEF Die, Notify
    <2>5. FlagsTyped'
      BY <2>1, <2>4 DEF TypeInv, FlagsTyped, app, sockets, ends
    <2>6. ProcessTyped'
      BY <2>1, <2>3 DEF TypeInv, ProcessTyped, DriverPC, Ending
    <2>7. \A e \in Drivers : dpc'[e] \in Early => dpc[e] \in Early
      BY <2>3 DEF TypeInv, ProcessTyped, Early
    <2>8. SocketsTyped'
      BY <2>1, <2>7 DEF TypeInv, SocketsTyped, sockets, ends
    <2> QED
      BY <2>2, <2>5, <2>6, <2>8 DEF TypeInv
  <1> QED
    BY <1>1, <1>2, <1>3, <1>4, <1>5, <1>6, <1>7 DEF DriverStep

LEMMA TypeStep == ASSUME TaxiAssumption, TypeInv, IndexInv, [Next]_vars PROVE TypeInv'
  <1>1. CASE Rounds
    BY <1>1, RoundsTyped
  <1>2. CASE Handlers
    BY <1>2, ReapTyped, CommandTyped, SendTyped, AcceptTyped, PendingTyped, DriverTyped DEF Handlers
  <1>3. CASE ShutDriver \/ ShutPending \/ Wait \/ KillDriver \/ WaitForDriver
    BY <1>3, ShutDriverTyped, ShutPendingTyped, EndTyped
  <1>4. ASSUME NEW d \in Drivers, DriverStep(d) PROVE TypeInv'
    BY <1>4, DriverStepTyped
  <1>5. ASSUME NEW d \in Drivers, Kill(d) PROVE TypeInv'
    <2>1. /\ kills < MaxKills /\ kills' = kills + 1 /\ Finish({d})
          /\ UNCHANGED <<app, tables, flags, listening, appEnd, now, typed, history>>
      BY <1>5 DEF Kill
    <2>2. ManagerTyped' /\ FlagsTyped' /\ HistoryTyped'
      BY <2>1, PartsKept DEF app, tables
    <2>3. OutsideTyped'
      BY <2>1 DEF TypeInv, OutsideTyped, TaxiAssumption
    <2> QED
      BY <2>1, <2>2, <2>3, FinishTyped DEF TypeInv
  <1>6. ASSUME NEW group, Stop(group) PROVE TypeInv'
    <2>1. /\ stopRequested' = TRUE /\ notified' = TRUE
          /\ UNCHANGED <<app, tables, childChanged, listening, appEnd, outside, history>>
      BY <1>6 DEF Stop, Notify
    <2>2. \E some : Finish(some)
      BY <1>6 DEF Stop, Terminated
    <2>3. ManagerTyped' /\ OutsideTyped' /\ HistoryTyped'
      BY <2>1, PartsKept DEF app, tables
    <2>4. FlagsTyped'
      BY <2>1 DEF TypeInv, FlagsTyped, app
    <2> QED
      BY <2>1, <2>2, <2>3, <2>4, FinishTyped DEF TypeInv
  <1>7. CASE Tick
    <2>1. /\ now < MaxTime /\ now' = now + 1
          /\ UNCHANGED <<app, tables, flags, process, sockets, typed, kills, history>>
      BY <1>7 DEF Tick
    <2>2. ManagerTyped' /\ FlagsTyped' /\ ProcessTyped' /\ SocketsTyped' /\ HistoryTyped'
      BY <2>1, PartsKept DEF app, tables, sockets, ends, process
    <2>3. OutsideTyped'
      BY <2>1 DEF TypeInv, OutsideTyped, TaxiAssumption
    <2> QED
      BY <2>2, <2>3 DEF TypeInv
  <1>8. CASE UNCHANGED vars
    <2>1. UNCHANGED <<app, tables, flags, process, sockets, outside, history>>
      BY <1>8 DEF vars
    <2> QED
      BY <2>1, PartsKept DEF app, tables, sockets, ends, process, TypeInv
  <1> QED
    BY <1>1, <1>2, <1>3, <1>4, <1>5, <1>6, <1>7, <1>8, StepCases

LEMMA TypeStart == ASSUME TaxiAssumption, Init PROVE TypeInv /\ IndexInv
  <1>1. /\ <<>> \in Seq(RequestType) /\ <<>> \in Seq(ReplyType) /\ <<>> \in Seq(Entry)
        /\ <<>> \in Seq(Drivers) /\ <<>> \in Seq(Nat) /\ Len(<<>>) = 0
    BY EmptySeq
  <1>2. ManagerTyped
    <2>1. apc \in AppPC /\ ready \subseteq Drivers \cup {Stdin, Listener} /\ idx \in Nat /\ nextId \in Nat
      BY DEF Init, AppPC
    <2>2. outbox = <<>> /\ drivers = <<>> /\ pending = <<>>
      BY DEF Init
    <2>3. 0 <= DriverMax
      BY DEF TaxiAssumption
    <2>4. outbox \in Seq(RequestType) /\ drivers \in Seq(Entry) /\ pending \in Seq(Drivers)
      BY <1>1, <2>2, Zenon
    <2>5. Len(drivers) = 0 /\ Len(pending) = 0
      BY <1>1, <2>2, Zenon
    <2>6. Len(drivers) <= DriverMax /\ Len(pending) <= DriverMax
      BY <2>3, <2>5
    <2>7. outbox # <<>> => apc = "stdin"
      BY <2>2
    <2> QED
      BY <2>1, <2>4, <2>6, <2>7 DEF ManagerTyped
  <1>3. FlagsTyped /\ OutsideTyped
    <2>1. now = 0 /\ typed = 0 /\ kills = 0
      BY DEF Init
    <2>2. MaxTime \in Nat /\ MaxCommands \in Nat /\ MaxKills \in Nat
      BY DEF TaxiAssumption
    <2>3. OutsideTyped
      BY <2>1, <2>2 DEF OutsideTyped
    <2> QED
      BY <2>3 DEF Init, FlagsTyped
  <1>4. NoReply \in ReplyType
    BY DEF NoReply, ReplyType, TaxiAssumption
  <1>5. ProcessTyped
    BY <1>1, <1>4 DEF Init, ProcessTyped, DriverPC, TaxiAssumption
  <1>6. SocketsTyped
    BY <1>1 DEF Init, SocketsTyped, AppEnds, DriverEnds, TaxiAssumption
  <1>7. HistoryTyped
    BY <1>1 DEF Init, HistoryTyped
  <1>8. IndexInv
    BY DEF Init, IndexInv
  <1> QED
    BY <1>2, <1>3, <1>5, <1>6, <1>7, <1>8 DEF TypeInv

-----------------------------------------------------------------------------
(* The tables after a change.                                              *)

\* A list of entries names d, and knows a connection of it.
Names(list, d) == \E i \in 1 .. Len(list) : list[i].pid = d
Knows(list, d) == \E i \in 1 .. Len(list) : list[i].pid = d /\ list[i].connected

LEMMA TableNow ==
    ASSUME drivers \in Seq(Entry), NEW d
    PROVE  (Listed(d) <=> Names(drivers, d)) /\ (Connected(d) <=> Knows(drivers, d))
  <1>1. DOMAIN drivers = 1 .. Len(drivers)
    BY LenProperties
  <1> QED
    BY <1>1 DEF Listed, Connected, Names, Knows

LEMMA TableNext ==
    ASSUME drivers' \in Seq(Entry), NEW d
    PROVE  (Listed(d)' <=> Names(drivers', d)) /\ (Connected(d)' <=> Knows(drivers', d))
  <1>1. DOMAIN drivers' = 1 .. Len(drivers')
    BY LenProperties
  <1> QED
    BY <1>1 DEF Listed, Connected, Names, Knows

\* Every element but the removed one keeps exactly one place.
Origins(from, list, new, i) ==
    /\ \A k \in 1 .. Len(new) : from[k] \in 1 .. Len(list) /\ from[k] # i /\ new[k] = list[from[k]]
    /\ \A k, l \in 1 .. Len(new) : from[k] = from[l] => k = l
    /\ \A j \in 1 .. Len(list) : j # i => \E k \in 1 .. Len(new) : from[k] = j

LEMMA RemovedOrigins ==
    ASSUME NEW S, NEW list \in Seq(S), NEW i \in 1 .. Len(list), NEW new, new = Removed(list, i)
    PROVE  \E from : Origins(from, list, new, i)
  <1>1. PICK n \in Nat : n = Len(list) /\ i \in 1 .. n
    BY LenProperties
  <1>2. Len(new) = n - 1 /\ \A k \in 1 .. n - 1 : new[k] = IF k = i THEN list[n] ELSE list[k]
    BY <1>1, RemovedElements
  <1>3. PICK from : from = [k \in 1 .. n - 1 |-> IF k = i THEN n ELSE k]
    OBVIOUS
  <1>4. \A k \in 1 .. n - 1 : from[k] = (IF k = i THEN n ELSE k) /\ from[k] \in 1 .. n /\ from[k] # i
    BY <1>1, <1>3
  <1>6. \A k \in 1 .. n - 1 : new[k] = list[from[k]]
    BY <1>2, <1>4
  <1>7. \A k, l \in 1 .. n - 1 : from[k] = from[l] => k = l
    BY <1>4
  <1>8. ASSUME NEW j \in 1 .. n, j # i PROVE \E k \in 1 .. n - 1 : from[k] = j
    <2>1. CASE j = n
      <3>1. i \in 1 .. n - 1
        BY <1>1, <1>8, <2>1
      <3> QED
        BY <1>4, <2>1, <3>1
    <2>2. CASE j # n
      <3>1. j \in 1 .. n - 1
        BY <1>1, <2>2
      <3> QED
        BY <1>4, <1>8, <3>1
    <2> QED
      BY <2>1, <2>2
  <1>9. Origins(from, list, new, i)
    BY <1>1, <1>2, <1>4, <1>6, <1>7, <1>8 DEF Origins
  <1> QED
    BY <1>9

\* A driver is removed from a table that names nobody twice.
LEMMA DriverRemoved ==
    ASSUME TypeInv, UniquePids, NEW i \in 1 .. Len(drivers), drivers' = Removed(drivers, i)
    PROVE  /\ UniquePids'
           /\ \A d \in Drivers :
                 IF d = drivers[i].pid THEN ~Listed(d)' /\ ~Connected(d)'
                 ELSE (Listed(d)' <=> Listed(d)) /\ (Connected(d)' <=> Connected(d))
  <1>1. drivers \in Seq(Entry) /\ drivers' \in Seq(Entry)
    BY RemovedElements DEF TypeInv, ManagerTyped
  <1>2. PICK from : Origins(from, drivers, drivers', i)
    BY <1>1, RemovedOrigins
  <1>3. UniquePids'
    <2> SUFFICES ASSUME NEW j \in 1 .. Len(drivers'), NEW k \in 1 .. Len(drivers'),
                        drivers'[j].pid = drivers'[k].pid
                 PROVE  j = k
      BY DEF UniquePids
    <2>1. /\ from[j] \in 1 .. Len(drivers) /\ from[k] \in 1 .. Len(drivers)
          /\ drivers[from[j]].pid = drivers[from[k]].pid
      BY <1>2 DEF Origins
    <2>2. from[j] = from[k]
      BY <2>1 DEF UniquePids
    <2> QED
      BY <1>2, <2>2 DEF Origins
  <1>4. ASSUME NEW d \in Drivers
        PROVE  IF d = drivers[i].pid THEN ~Listed(d)' /\ ~Connected(d)'
               ELSE (Listed(d)' <=> Listed(d)) /\ (Connected(d)' <=> Connected(d))
    <2>1. CASE d = drivers[i].pid
      <3>1. \A k \in 1 .. Len(drivers') : drivers'[k].pid # d
        BY <1>2, <2>1 DEF UniquePids, Origins
      <3>2. ~Names(drivers', d) /\ ~Knows(drivers', d)
        BY <3>1 DEF Names, Knows
      <3> QED
        BY <1>1, <2>1, <3>2, TableNext
    <2>2. CASE d # drivers[i].pid
      <3>1. Names(drivers', d) => Names(drivers, d)
        BY <1>2 DEF Names, Origins
      <3>2. Names(drivers, d) => Names(drivers', d)
        BY <1>2, <2>2 DEF Names, Origins
      <3>3. Knows(drivers', d) => Knows(drivers, d)
        BY <1>2 DEF Knows, Origins
      <3>4. ASSUME Knows(drivers, d) PROVE Knows(drivers', d)
        <4>1. PICK j \in 1 .. Len(drivers) : drivers[j].pid = d /\ drivers[j].connected
          BY <3>4 DEF Knows
        <4>2. PICK k \in 1 .. Len(drivers') : from[k] = j
          BY <1>2, <2>2, <4>1 DEF Origins
        <4>3. drivers'[k] = drivers[j]
          BY <1>2, <4>2 DEF Origins
        <4> QED
          BY <4>1, <4>3 DEF Knows
      <3> QED
        BY <1>1, <2>2, <3>1, <3>2, <3>3, <3>4, TableNow, TableNext
    <2> QED
      BY <2>1, <2>2
  <1> QED
    BY <1>3, <1>4

LEMMA PendingRemoved ==
    ASSUME TypeInv, UniqueFds, NEW i \in 1 .. Len(pending), pending' = Removed(pending, i)
    PROVE  /\ UniqueFds'
           /\ \A d \in Drivers : Waits(d)' <=> Waits(d) /\ d # pending[i]
  <1>1. pending \in Seq(Drivers)
    BY DEF TypeInv, ManagerTyped
  <1>2. PICK from : Origins(from, pending, pending', i)
    BY <1>1, RemovedOrigins
  <1>3. UniqueFds'
    <2> SUFFICES ASSUME NEW j \in 1 .. Len(pending'), NEW k \in 1 .. Len(pending'),
                        pending'[j] = pending'[k]
                 PROVE  j = k
      BY DEF UniqueFds
    <2>1. /\ from[j] \in 1 .. Len(pending) /\ from[k] \in 1 .. Len(pending)
          /\ pending[from[j]] = pending[from[k]]
      BY <1>2 DEF Origins
    <2>2. from[j] = from[k]
      BY <2>1 DEF UniqueFds
    <2> QED
      BY <1>2, <2>2 DEF Origins
  <1>4. ASSUME NEW d \in Drivers PROVE Waits(d)' <=> Waits(d) /\ d # pending[i]
    <2>1. Waits(d)' => Waits(d) /\ d # pending[i]
      BY <1>2 DEF Waits, UniqueFds, Origins
    <2>2. Waits(d) /\ d # pending[i] => Waits(d)'
      BY SMTT(30), <1>2 DEF Waits, Origins
    <2> QED
      BY <2>1, <2>2
  <1> QED
    BY <1>3, <1>4

\* A new driver.
LEMMA DriverAdded ==
    ASSUME TypeInv, UniquePids, NEW d \in Drivers, ~Listed(d),
           drivers' = Append(drivers, [pid |-> d, connected |-> FALSE])
    PROVE  /\ UniquePids'
           /\ \A e \in Drivers : (Listed(e)' <=> Listed(e) \/ e = d) /\ (Connected(e)' <=> Connected(e))
  <1>1. PICK new : new = [pid |-> d, connected |-> FALSE]
    OBVIOUS
  <1>2. new \in Entry /\ new.pid = d /\ ~new.connected
    BY <1>1 DEF Entry
  <1>3. drivers \in Seq(Entry)
    BY DEF TypeInv, ManagerTyped
  <1>4. PICK n \in Nat : n = Len(drivers)
    BY Domains
  <1>5. /\ drivers' \in Seq(Entry) /\ Len(drivers') = n + 1 /\ drivers'[n + 1] = new
        /\ \A k \in 1 .. n : drivers'[k] = drivers[k]
    BY <1>1, <1>2, <1>3, <1>4, AppendProperties
  <1>6. \A k \in 1 .. n : drivers[k].pid # d
    BY <1>3, <1>4, TableNow DEF Names
  <1>7. \A k \in 1 .. n + 1 : k \in 1 .. n \/ k = n + 1
    BY <1>4
  <1>8. \A k \in 1 .. n : k \in 1 .. n + 1
    BY <1>4
  <1>9. n + 1 \in 1 .. n + 1
    BY <1>4
  <1>10. UniquePids'
    <2> SUFFICES ASSUME NEW j \in 1 .. n + 1, NEW k \in 1 .. n + 1, drivers'[j].pid = drivers'[k].pid
                 PROVE  j = k
      BY <1>5 DEF UniquePids
    <2>1. CASE j \in 1 .. n /\ k \in 1 .. n
      BY <1>4, <1>5, <2>1 DEF UniquePids
    <2>2. CASE j \in 1 .. n /\ k = n + 1
      BY <1>2, <1>5, <1>6, <2>2
    <2>3. CASE j = n + 1 /\ k \in 1 .. n
      BY <1>2, <1>5, <1>6, <2>3
    <2> QED
      BY <1>7, <2>1, <2>2, <2>3
  <1>11. ASSUME NEW e \in Drivers
         PROVE  (Listed(e)' <=> Listed(e) \/ e = d) /\ (Connected(e)' <=> Connected(e))
    <2>1. Names(drivers', e) <=> Names(drivers, e) \/ e = d
      <3>1. Names(drivers', e) => Names(drivers, e) \/ e = d
        BY <1>2, <1>4, <1>5, <1>7 DEF Names
      <3>2. Names(drivers, e) => Names(drivers', e)
        BY <1>4, <1>5, <1>8 DEF Names
      <3>3. Names(drivers', d)
        BY <1>2, <1>5, <1>9 DEF Names
      <3> QED
        BY <3>1, <3>2, <3>3
    <2>2. Knows(drivers', e) <=> Knows(drivers, e)
      <3>1. Knows(drivers', e) => Knows(drivers, e)
        BY <1>2, <1>4, <1>5, <1>7 DEF Knows
      <3>2. Knows(drivers, e) => Knows(drivers', e)
        BY <1>4, <1>5, <1>8 DEF Knows
      <3> QED
        BY <3>1, <3>2
    <2> QED
      BY <1>3, <1>5, <2>1, <2>2, TableNow, TableNext
  <1> QED
    BY <1>10, <1>11

\* A driver is registered.
LEMMA DriverRegistered ==
    ASSUME TypeInv, UniquePids, NEW i, NEW d \in Drivers, Registering(i, d)
    PROVE  /\ UniquePids'
           /\ \A e \in Drivers : (Listed(e)' <=> Listed(e)) /\ (Connected(e)' <=> Connected(e) \/ e = d)
  <1>1. /\ drivers' \in Seq(Entry) /\ Len(drivers') = Len(drivers)
        /\ \A k \in 1 .. Len(drivers) :
              /\ drivers'[k].pid = drivers[k].pid
              /\ drivers'[k].connected = (drivers[k].pid = d \/ drivers[k].connected)
    BY RegisteringEffect
  <1>2. drivers \in Seq(Entry)
    BY DEF TypeInv, ManagerTyped
  <1>3. UniquePids'
    BY <1>1 DEF UniquePids
  <1>4. Names(drivers, d)
    BY <1>2, TableNow DEF Registering, Registers
  <1>5. ASSUME NEW e \in Drivers
        PROVE  (Listed(e)' <=> Listed(e)) /\ (Connected(e)' <=> Connected(e) \/ e = d)
    <2>1. Names(drivers', e) <=> Names(drivers, e)
      BY <1>1 DEF Names
    <2>2. Knows(drivers', e) => Knows(drivers, e) \/ e = d
      BY <1>1 DEF Knows
    <2>3. Knows(drivers, e) => Knows(drivers', e)
      BY <1>1 DEF Knows
    <2>4. Knows(drivers', d)
      BY <1>1, <1>4 DEF Names, Knows
    <2> QED
      BY <1>1, <1>2, <2>1, <2>2, <2>3, <2>4, TableNow, TableNext
  <1> QED
    BY <1>3, <1>5

\* A connection starts to wait.
LEMMA PendingAdded ==
    ASSUME TypeInv, UniqueFds, NEW d \in Drivers, ~Waits(d), pending' = Append(pending, d)
    PROVE  UniqueFds' /\ \A e \in Drivers : Waits(e)' <=> Waits(e) \/ e = d
  <1>1. PICK n \in Nat : n = Len(pending)
    BY Domains
  <1>2. Len(pending') = n + 1 /\ pending'[n + 1] = d /\ \A k \in 1 .. n : pending'[k] = pending[k]
    BY <1>1, AppendProperties DEF TypeInv, ManagerTyped
  <1>3. \A k \in 1 .. n : pending[k] # d
    BY <1>1 DEF Waits
  <1>4. \A k \in 1 .. n + 1 : k \in 1 .. n \/ k = n + 1
    BY <1>1
  <1>5. n + 1 \in 1 .. n + 1 /\ \A k \in 1 .. n : k \in 1 .. n + 1
    BY <1>1
  <1>6. UniqueFds'
    <2> SUFFICES ASSUME NEW j \in 1 .. n + 1, NEW k \in 1 .. n + 1, pending'[j] = pending'[k]
                 PROVE  j = k
      BY <1>2 DEF UniqueFds
    <2>1. CASE j \in 1 .. n /\ k \in 1 .. n
      BY <1>1, <1>2, <2>1 DEF UniqueFds
    <2>2. CASE j \in 1 .. n /\ k = n + 1
      BY <1>2, <1>3, <2>2
    <2>3. CASE j = n + 1 /\ k \in 1 .. n
      BY <1>2, <1>3, <2>3
    <2> QED
      BY <1>4, <2>1, <2>2, <2>3
  <1>7. ASSUME NEW e \in Drivers PROVE Waits(e)' <=> Waits(e) \/ e = d
    <2>1. Waits(e)' => Waits(e) \/ e = d
      BY <1>1, <1>2, <1>4 DEF Waits
    <2>2. Waits(e) => Waits(e)'
      BY <1>1, <1>2, <1>5 DEF Waits
    <2>3. Waits(d)'
      BY <1>2, <1>5 DEF Waits
    <2> QED
      BY <2>1, <2>2, <2>3
  <1> QED
    BY <1>6, <1>7

-----------------------------------------------------------------------------
(* What a step does to one driver.                                         *)

SameEnd(d) == appEnd'[d] = appEnd[d]
SameHistory(d) == asked'[d] = asked[d] /\ told'[d] = told[d]
SameEntry(d) == (Listed(d)' <=> Listed(d)) /\ (Connected(d)' <=> Connected(d))
SameTables(d) == SameEntry(d) /\ (Waits(d)' <=> Waits(d))
SameRest(d) == inbox'[d] = inbox[d] /\ reply'[d] = reply[d] /\ deadline'[d] = deadline[d]

\* Nothing, except that time may pass.
Still(d) ==
    SameProcess(d) /\ SameBuffers(d) /\ SameEnd(d) /\ SameHistory(d) /\ SameTables(d) /\ now' >= now

\* Its process ends, or what is left of it goes on.
Exits(d) ==
    /\ dpc[d] \notin {"none"} \cup Ending /\ Ends(d)
    /\ SameEnd(d) /\ SameHistory(d) /\ SameTables(d)
Passes(d) ==
    /\ dpc[d] \in {"dying", "zombie"} /\ dpc'[d] \in Ending
    /\ SameRest(d) /\ driverEnd'[d] = driverEnd[d]
    /\ SameBuffers(d) /\ SameEnd(d) /\ SameHistory(d) /\ SameTables(d)

\* The manager closes its end, and may send SHUTDOWN before.
Shuts(d) ==
    /\ appEnd'[d] = "closed" /\ toApp'[d] = <<>>
    /\ toDriver'[d] \in {toDriver[d], <<>>} \/ driverEnd[d] = "open"

\* It is collected and forgotten.
Forgotten(d) ==
    /\ dpc[d] = "zombie" /\ dpc'[d] = "reaped" /\ asked'[d] = <<>> /\ told'[d] = told[d]
    /\ SameRest(d) /\ driverEnd'[d] = driverEnd[d]
    /\ ~Listed(d)' /\ ~Connected(d)' /\ (Waits(d)' <=> Waits(d))
    /\ IF Connected(d) THEN Shuts(d) ELSE SameEnd(d) /\ SameBuffers(d)

\* Its connection is closed by the manager.
Closed(d) ==
    /\ Shuts(d) /\ appEnd[d] # "none" /\ SameProcess(d) /\ SameHistory(d)
    /\ Listed(d)' => Listed(d)
    /\ Connected(d)' => Connected(d)
    /\ Listed(d) /\ ~Listed(d)' => driverEnd[d] = "closed" /\ Connected(d)
    /\ apc' \in Serving => ~Waits(d)' /\ ~Connected(d)'

\* Its connection leaves the backlog: it is accepted, or dropped with the listener.
Advances(d) ==
    /\ appEnd[d] = "backlog"
    /\ \/ appEnd'[d] = "open" /\ Waits(d)'
       \/ appEnd'[d] = "closed" /\ apc' \notin Serving
    /\ SameProcess(d) /\ SameBuffers(d) /\ SameHistory(d) /\ SameEntry(d)

\* It comes to life: forked, ready for signals, connected.
Starts(d) ==
    /\ dpc[d] = "none" /\ dpc'[d] = "forked" /\ Listed(d)' /\ (Connected(d)' <=> Connected(d))
    /\ apc' = "stdin" /\ (Waits(d)' <=> Waits(d))
    /\ SameRest(d) /\ driverEnd'[d] = driverEnd[d] /\ SameBuffers(d) /\ SameEnd(d) /\ SameHistory(d)
Restores(d) ==
    /\ dpc[d] = "forked" /\ dpc'[d] = "connect"
    /\ SameRest(d) /\ driverEnd'[d] = driverEnd[d] /\ SameBuffers(d) /\ SameEnd(d)
    /\ SameHistory(d) /\ SameTables(d)
Connects(d) ==
    /\ dpc[d] = "connect" /\ dpc'[d] = "hello" /\ appEnd'[d] = "backlog" /\ driverEnd'[d] = "open"
    /\ SameRest(d) /\ SameBuffers(d) /\ SameHistory(d) /\ SameTables(d)

\* HELLO is sent, and read.
Greets(d) ==
    /\ dpc[d] = "hello" /\ dpc'[d] = "select" /\ appEnd[d] # "closed"
    /\ toApp'[d] = Append(toApp[d], Hello) /\ toDriver'[d] = toDriver[d]
    /\ SameRest(d) /\ driverEnd'[d] = driverEnd[d] /\ SameEnd(d) /\ SameHistory(d) /\ SameTables(d)
Joins(d) ==
    /\ appEnd[d] = "open" /\ toDriver'[d] = toDriver[d]
    /\ toApp[d] # <<>> /\ Len(toApp'[d]) = Len(toApp[d]) - 1
    /\ Waits(d) /\ ~Waits(d)' /\ ~Connected(d) /\ Connected(d)' /\ (Listed(d)' <=> Listed(d))
    /\ SameProcess(d) /\ SameEnd(d) /\ SameHistory(d)

\* A request is sent to it; its responses are printed.
Gets(d) ==
    /\ Connected(d) /\ appEnd[d] = "open" /\ driverEnd[d] = "open"
    /\ \E request \in Entries(outbox) :
          /\ request \in RequestType
          /\ toDriver'[d] = Append(toDriver[d], request) /\ asked'[d] = Append(asked[d], request.id)
    /\ told'[d] = told[d] /\ toApp'[d] = toApp[d]
    /\ SameProcess(d) /\ SameEnd(d) /\ SameTables(d)
Tells(d) ==
    /\ Connected(d) /\ appEnd[d] = "open"
    /\ \E m \in 0 .. Len(toApp[d]) :
          /\ Len(toApp'[d]) = Len(toApp[d]) - m
          /\ \A k \in 1 .. Len(toApp[d]) - m : toApp'[d][k] = toApp[d][m + k]
          /\ asked'[d] = SubSeq(asked[d], m + 1, Len(asked[d]))
          /\ told'[d] = LastEnd(told[d], toApp[d], m)
    /\ toDriver'[d] = toDriver[d] /\ SameProcess(d) /\ SameEnd(d) /\ SameTables(d)

\* It reads requests, comes to an answer, and sends it.
Takes(d) ==
    /\ dpc[d] = "select" /\ dpc'[d] = "handle"
    /\ \E m \in 0 .. Len(toDriver[d]) :
          /\ Len(inbox'[d]) = m /\ \A k \in 1 .. m : inbox'[d][k] = toDriver[d][k]
          /\ Len(toDriver'[d]) = Len(toDriver[d]) - m
          /\ \A k \in 1 .. Len(toDriver[d]) - m : toDriver'[d][k] = toDriver[d][m + k]
    /\ reply'[d] = reply[d] /\ deadline'[d] = deadline[d] /\ driverEnd'[d] = driverEnd[d]
    /\ toApp'[d] = toApp[d] /\ SameEnd(d) /\ SameHistory(d) /\ SameTables(d)
Decides(d) ==
    /\ dpc[d] = "handle" /\ dpc'[d] = "reply"
    /\ \E type \in Answer :
          /\ reply'[d] = Response(Head(inbox[d]), type, reply'[d].timer) /\ reply'[d].timer \in Nat
          /\ Answers(d, type, reply'[d].timer, deadline'[d])
    /\ inbox'[d] = inbox[d] /\ driverEnd'[d] = driverEnd[d]
    /\ SameBuffers(d) /\ SameEnd(d) /\ SameHistory(d) /\ SameTables(d)
Replies(d) ==
    /\ dpc[d] = "reply" /\ appEnd[d] = "open"
    /\ dpc'[d] = (IF Len(inbox[d]) = 1 THEN "select" ELSE "handle")
    /\ toApp'[d] = Append(toApp[d], reply[d]) /\ inbox'[d] = Tail(inbox[d])
    /\ deadline'[d] = deadline[d] /\ driverEnd'[d] = driverEnd[d] /\ toDriver'[d] = toDriver[d]
    /\ SameEnd(d) /\ SameHistory(d) /\ SameTables(d)

Handled(d) ==
    \/ Exits(d) \/ Passes(d) \/ Forgotten(d) \/ Closed(d) \/ Advances(d) \/ Starts(d) \/ Restores(d)
    \/ Connects(d) \/ Greets(d) \/ Joins(d) \/ Gets(d) \/ Tells(d) \/ Takes(d) \/ Decides(d)
    \/ Replies(d)

\* What a step may do to a driver.
Effect(d) == Still(d) \/ (Handled(d) /\ now' = now)

LEMMA TablesKept ==
    ASSUME NEW d
    PROVE  /\ UNCHANGED drivers => SameEntry(d)
           /\ UNCHANGED pending => (Waits(d)' <=> Waits(d))
           /\ UNCHANGED <<drivers, pending>> => SameTables(d)
  <1>1. UNCHANGED drivers => SameEntry(d)
    BY DEF SameEntry, Listed, Connected
  <1>2. UNCHANGED pending => (Waits(d)' <=> Waits(d))
    BY DEF Waits
  <1> QED
    BY <1>1, <1>2 DEF SameTables

\* A step that the drivers do not notice.
LEMMA NothingHappens ==
    ASSUME TypeInv, UNCHANGED <<dpc, inbox, reply, deadline, driverEnd, appEnd, toApp, toDriver, asked,
                                told, drivers, pending>>, now' >= now, NEW d \in Drivers
    PROVE  Effect(d)
  <1>1. SameTables(d)
    BY TablesKept
  <1> QED
    BY <1>1 DEF Effect, Still, SameProcess, SameBuffers, SameEnd, SameHistory

LEMMA TimeStands == ASSUME TypeInv, UNCHANGED now PROVE now' >= now
  BY DEF TypeInv, OutsideTyped

LEMMA RoundsHappen == ASSUME TypeInv, Rounds, NEW d \in Drivers PROVE Effect(d)
  <1>1. UNCHANGED <<outbox, running, tables, process, sockets, outside, history>>
    BY RoundsMove
  <1>2. UNCHANGED <<dpc, inbox, reply, deadline, driverEnd, appEnd, toApp, toDriver, asked, told, drivers,
                    pending, now>>
    BY <1>1 DEF tables, process, sockets, ends, outside, history
  <1> QED
    BY <1>2, NothingHappens, TimeStands

\* The manager closes its end of the connection of c.
LEMMA ClosesOne ==
    ASSUME TypeInv, NEW c \in Drivers, NEW out \in [Drivers -> Seq(RequestType)], CloseApp(c, out),
           \A e \in Drivers : out[e] = toDriver[e] \/ (e = c /\ driverEnd[c] = "open")
    PROVE  Shuts(c) /\ \A d \in Drivers : d # c => SameEnd(d) /\ SameBuffers(d)
  <1>1. /\ appEnd'[c] = "closed" /\ toApp'[c] = <<>>
        /\ \A e \in Drivers : e # c => appEnd'[e] = appEnd[e] /\ toApp'[e] = toApp[e]
        /\ \A e \in Drivers : toDriver'[e] = out[e] \/ (e = c /\ toDriver'[e] = <<>>)
    BY CloseEffect DEF Closes
  <1> QED
    BY <1>1 DEF Shuts, SameEnd, SameBuffers

LEMMA ClosesPlainly ==
    ASSUME TypeInv, NEW c \in Drivers, CloseApp(c, toDriver)
    PROVE  Shuts(c) /\ \A d \in Drivers : d # c => SameEnd(d) /\ SameBuffers(d)
  <1>1. toDriver \in [Drivers -> Seq(RequestType)]
    BY DEF TypeInv, SocketsTyped
  <1> QED
    BY <1>1, ClosesOne

LEMMA ReapHappens == ASSUME TypeInv, TableInv, Reap, NEW d \in Drivers PROVE Effect(d)
  <1>1. UNCHANGED <<pending, inbox, reply, deadline, driverEnd, now, told>>
    BY DEF Reap, outside
  <1>2. Waits(d)' <=> Waits(d)
    BY <1>1, TablesKept
  <1>3. ASSUME NEW c \in Drivers, dpc[c] = "zombie", dpc' = [dpc EXCEPT ![c] = "reaped"],
               asked' = [asked EXCEPT ![c] = <<>>],
               \/ ~Listed(c) /\ UNCHANGED drivers
               \/ \E i \in DOMAIN drivers : drivers[i].pid = c /\ drivers' = Removed(drivers, i),
               \/ Connected(c) /\ CloseApp(c, toDriver)
               \/ ~Connected(c) /\ UNCHANGED <<appEnd, toApp, toDriver>>
        PROVE  Effect(d)
    <2>1. IF d = c THEN ~Listed(d)' /\ ~Connected(d)' ELSE SameEntry(d)
      <3>1. CASE ~Listed(c) /\ UNCHANGED drivers
        <4>1. SameEntry(d)
          BY <3>1, TablesKept
        <4>2. d = c => ~Listed(d) /\ ~Connected(d)
          BY <3>1 DEF Listed, Connected
        <4> QED
          BY <4>1, <4>2 DEF SameEntry
      <3>2. CASE \E i \in DOMAIN drivers : drivers[i].pid = c /\ drivers' = Removed(drivers, i)
        <4>1. PICK i \in 1 .. Len(drivers) : drivers[i].pid = c /\ drivers' = Removed(drivers, i)
          BY <3>2, Domains
        <4>2. UniquePids
          BY DEF TableInv
        <4> QED
          BY <4>1, <4>2, DriverRemoved DEF SameEntry
      <3> QED
        BY <1>3, <3>1, <3>2
    <2>2. IF d = c /\ Connected(c) THEN Shuts(d) ELSE SameEnd(d) /\ SameBuffers(d)
      <3>1. CASE Connected(c) /\ CloseApp(c, toDriver)
        BY <3>1, ClosesPlainly
      <3>2. CASE ~Connected(c) /\ UNCHANGED <<appEnd, toApp, toDriver>>
        BY <3>2 DEF SameEnd, SameBuffers
      <3> QED
        BY <1>3, <3>1, <3>2
    <2>3. /\ SameRest(d) /\ driverEnd'[d] = driverEnd[d] /\ told'[d] = told[d]
          /\ IF d = c THEN dpc'[d] = "reaped" /\ asked'[d] = <<>>
             ELSE dpc'[d] = dpc[d] /\ asked'[d] = asked[d]
      BY <1>1, <1>3 DEF SameRest, TypeInv, ProcessTyped, HistoryTyped
    <2>4. CASE d = c
      <3>1. Forgotten(d)
        BY <1>2, <1>3, <2>1, <2>2, <2>3, <2>4 DEF Forgotten
      <3> QED
        BY <1>1, <3>1 DEF Effect, Handled
    <2>5. CASE d # c
      <3>1. Still(d)
        BY <1>1, <1>2, <2>1, <2>2, <2>3, <2>5, TimeStands
           DEF Still, SameProcess, SameRest, SameHistory, SameTables
      <3> QED
        BY <3>1 DEF Effect
    <2> QED
      BY <2>4, <2>5
  <1>4. CASE UNCHANGED <<dpc, drivers, appEnd, toApp, toDriver, asked>>
    BY <1>1, <1>4, NothingHappens, TimeStands
  <1> QED
    BY <1>3, <1>4 DEF Reap

LEMMA CommandHappens ==
    ASSUME TaxiAssumption, TypeInv, TableInv, Line \/ EndOfInput, NEW d \in Drivers
    PROVE  Effect(d)
  <1>1. /\ \/ Asking
           \/ \E c \in Drivers : Forking(c)
           \/ UNCHANGED <<outbox, nextId, dpc, drivers>>
        /\ apc' = "stdin" /\ UNCHANGED <<pending, inbox, reply, deadline, sockets, now, history>>
    BY CommandEffect
  <1>2. UNCHANGED <<pending, inbox, reply, deadline, driverEnd, appEnd, toApp, toDriver, asked, told, now>>
    BY <1>1 DEF sockets, ends, history
  <1>3. CASE Asking \/ UNCHANGED <<outbox, nextId, dpc, drivers>>
    BY <1>2, <1>3, NothingHappens, TimeStands DEF Asking
  <1>4. ASSUME NEW c \in Drivers, Forking(c) PROVE Effect(d)
    <2>1. dpc[c] = "none" /\ dpc' = [dpc EXCEPT ![c] = "forked"]
      BY <1>4 DEF Forking
    <2>2. UniquePids /\ ~Listed(c)
      BY <2>1 DEF TableInv
    <2>3. (Listed(d)' <=> Listed(d) \/ d = c) /\ (Connected(d)' <=> Connected(d))
      BY <1>4, <2>2, DriverAdded DEF Forking
    <2>4. Waits(d)' <=> Waits(d)
      BY <1>2, TablesKept
    <2>5. IF d = c THEN dpc'[d] = "forked" ELSE dpc'[d] = dpc[d]
      BY <2>1 DEF TypeInv, ProcessTyped
    <2>6. SameRest(d) /\ driverEnd'[d] = driverEnd[d] /\ SameBuffers(d) /\ SameEnd(d) /\ SameHistory(d)
      BY <1>2 DEF SameRest, SameBuffers, SameEnd, SameHistory
    <2>7. CASE d = c
      <3>1. Starts(d)
        BY <1>1, <2>1, <2>3, <2>4, <2>5, <2>6, <2>7 DEF Starts
      <3> QED
        BY <1>2, <3>1 DEF Effect, Handled
    <2>8. CASE d # c
      <3>1. Still(d)
        BY <1>2, <2>3, <2>4, <2>5, <2>6, <2>8, TimeStands
           DEF Still, SameProcess, SameRest, SameTables, SameEntry
      <3> QED
        BY <3>1 DEF Effect
    <2> QED
      BY <2>7, <2>8
  <1> QED
    BY <1>1, <1>3, <1>4

LEMMA SendHappens == ASSUME TypeInv, PlaceInv, TableInv, SendRequest, NEW d \in Drivers PROVE Effect(d)
  <1>1. /\ outbox # <<>> /\ Head(outbox) \in RequestType /\ Head(outbox).to \in Drivers
        /\ Head(outbox) = outbox[1] /\ 1 \in 1 .. Len(outbox)
    BY FirstRequest DEF SendRequest
  <1>2. PICK request \in RequestType : request = Head(outbox)
    BY <1>1
  <1>3. PICK c \in Drivers : c = request.to
    BY <1>1, <1>2
  <1>4. Connected(c) /\ request \in Entries(outbox)
    <2>1. DOMAIN outbox = 1 .. Len(outbox)
      BY LenProperties DEF TypeInv, ManagerTyped
    <2> QED
      BY <1>1, <1>2, <1>3, <2>1 DEF PlaceInv, SendsToConnected, Entries
  <1>9. appEnd[c] = "open"
    BY <1>4 DEF TableInv, SendRequest, Serving
  <1>5. UNCHANGED <<drivers, pending, dpc, inbox, reply, deadline, driverEnd, appEnd, toApp, told, now>>
    BY DEF SendRequest, tables, process, ends, outside
  <1>6. CASE UNCHANGED <<toDriver, asked>>
    BY <1>5, <1>6, NothingHappens, TimeStands
  <1>7. CASE /\ driverEnd[c] = "open"
             /\ toDriver' = [toDriver EXCEPT ![c] = Append(toDriver[c], request)]
             /\ asked' = [asked EXCEPT ![c] = Append(asked[c], request.id)]
    <2>1. SameTables(d) /\ SameProcess(d) /\ SameEnd(d) /\ toApp'[d] = toApp[d] /\ told'[d] = told[d]
      BY <1>5, TablesKept DEF SameProcess, SameEnd
    <2>2. IF d = c
          THEN toDriver'[d] = Append(toDriver[d], request) /\ asked'[d] = Append(asked[d], request.id)
          ELSE toDriver'[d] = toDriver[d] /\ asked'[d] = asked[d]
      BY <1>7 DEF TypeInv, SocketsTyped, HistoryTyped
    <2>3. CASE d = c
      <3>1. Gets(d)
        BY <1>4, <1>7, <1>9, <2>1, <2>2, <2>3 DEF Gets
      <3> QED
        BY <1>5, <3>1 DEF Effect, Handled
    <2>4. CASE d # c
      <3>1. Still(d)
        BY <1>5, <2>1, <2>2, <2>4, TimeStands DEF Still, SameBuffers, SameHistory
      <3> QED
        BY <3>1 DEF Effect
    <2> QED
      BY <2>3, <2>4
  <1>8. \/ UNCHANGED <<toDriver, asked>>
        \/ /\ driverEnd[c] = "open"
           /\ toDriver' = [toDriver EXCEPT ![c] = Append(toDriver[c], request)]
           /\ asked' = [asked EXCEPT ![c] = Append(asked[c], request.id)]
    BY <1>2, <1>3 DEF SendRequest
  <1> QED
    BY <1>6, <1>7, <1>8

LEMMA AcceptHappens == ASSUME TypeInv, TableInv, Accept, NEW d \in Drivers PROVE Effect(d)
  <1>1. UNCHANGED <<drivers, dpc, inbox, reply, deadline, driverEnd, toApp, toDriver, asked, told, now>>
    BY DEF Accept, process, outside, history
  <1>2. CASE UNCHANGED <<appEnd, pending>>
    BY <1>1, <1>2, NothingHappens, TimeStands
  <1>3. ASSUME NEW c \in Drivers, appEnd[c] = "backlog", appEnd' = [appEnd EXCEPT ![c] = "open"],
               pending' = Append(pending, c)
        PROVE  Effect(d)
    <2>1. UniqueFds /\ ~Waits(c)
      BY <1>3 DEF TableInv, Accept, Serving
    <2>2. Waits(d)' <=> Waits(d) \/ d = c
      BY <1>3, <2>1, PendingAdded
    <2>3. SameEntry(d) /\ SameProcess(d) /\ SameBuffers(d) /\ SameHistory(d)
      BY <1>1, TablesKept DEF SameProcess, SameBuffers, SameHistory
    <2>4. appEnd'[d] = IF d = c THEN "open" ELSE appEnd[d]
      BY <1>3 DEF TypeInv, SocketsTyped
    <2>5. CASE d = c
      <3>1. Advances(d)
        BY <1>3, <2>2, <2>3, <2>4, <2>5 DEF Advances
      <3> QED
        BY <1>1, <3>1 DEF Effect, Handled
    <2>6. CASE d # c
      <3>1. Still(d)
        BY <1>1, <2>2, <2>3, <2>4, <2>6, TimeStands DEF Still, SameEnd, SameTables
      <3> QED
        BY <3>1 DEF Effect
    <2> QED
      BY <2>5, <2>6
  <1> QED
    BY <1>2, <1>3 DEF Accept

LEMMA PendingHappens == ASSUME TypeInv, TableInv, ReceivePending, NEW d \in Drivers PROVE Effect(d)
  <1>1. apc = "pending" /\ UNCHANGED <<process, driverEnd, outside, history>>
    BY PendingEffect
  <1>2. PICK i \in 1 .. Len(pending) :
           /\ pending[i] \in Drivers /\ pending' = Removed(pending, i)
           /\ Registering(i, pending[i]) \/ Refusing(i, pending[i])
    BY PendingEffect
  <1>3. PICK c \in Drivers : c = pending[i]
    BY <1>2
  <1>4. Waits(c) /\ UniqueFds /\ UniquePids
    BY <1>1, <1>3 DEF Waits, TableInv, Serving
  <1>5. ~Connected(c) /\ appEnd[c] = "open"
    BY <1>1, <1>4 DEF TableInv, Serving
  <1>6. Waits(d)' <=> Waits(d) /\ d # c
    BY <1>2, <1>3, <1>4, PendingRemoved
  <1>7. SameProcess(d) /\ SameHistory(d) /\ now' = now
    BY <1>1 DEF SameProcess, SameHistory, process, history, outside
  <1>8. CASE Registering(i, c)
    <2>1. (Listed(d)' <=> Listed(d)) /\ (Connected(d)' <=> Connected(d) \/ d = c)
      BY <1>4, <1>8, DriverRegistered
    <2>2. toDriver'[d] = toDriver[d] /\ SameEnd(d)
      BY <1>8 DEF Registering, SameEnd
    <2>3. IF d = c THEN Len(toApp'[d]) = Len(toApp[d]) - 1 ELSE toApp'[d] = toApp[d]
      BY <1>8, RegisteringEffect
    <2>4. CASE d = c
      <3>1. toApp[d] # <<>>
        BY <1>8, <2>4 DEF Registering
      <3>2. Joins(d)
        BY <1>4, <1>5, <1>6, <1>7, <2>1, <2>2, <2>3, <2>4, <3>1 DEF Joins
      <3> QED
        BY <1>7, <3>2 DEF Effect, Handled
    <2>5. CASE d # c
      <3>1. Still(d)
        BY <1>6, <1>7, <2>1, <2>2, <2>3, <2>5, TimeStands DEF Still, SameBuffers, SameTables, SameEntry
      <3> QED
        BY <3>1 DEF Effect
    <2> QED
      BY <2>4, <2>5
  <1>9. CASE Refusing(i, c)
    <2>1. Shuts(c) /\ (d # c => SameEnd(d) /\ SameBuffers(d))
      BY <1>9, ClosesPlainly DEF Refusing
    <2>2. SameEntry(d)
      BY <1>9, TablesKept DEF Refusing
    <2>3. CASE d = c
      <3>1. Closed(d)
        BY <1>5, <1>6, <1>7, <2>1, <2>2, <2>3 DEF Closed, SameEntry
      <3> QED
        BY <1>7, <3>1 DEF Effect, Handled
    <2>4. CASE d # c
      <3>1. Still(d)
        BY <1>6, <1>7, <2>1, <2>2, <2>4, TimeStands DEF Still, SameTables
      <3> QED
        BY <3>1 DEF Effect
    <2> QED
      BY <2>3, <2>4
  <1> QED
    BY <1>2, <1>3, <1>8, <1>9

LEMMA DriverHappens ==
    ASSUME TaxiAssumption, TypeInv, PlaceInv, TableInv, ReceiveDriver, NEW d \in Drivers
    PROVE  Effect(d)
  <1>1. apc = "drivers" /\ UNCHANGED <<apc, pending, process, driverEnd, outside>>
    BY DriverEffect
  <1>2. PICK i \in 1 .. Len(drivers) :
           /\ drivers[i].pid \in Drivers
           /\ (IF drivers[i].connected THEN drivers[i].pid ELSE Listener) \in ready
           /\ \/ Hearing(drivers[i].pid) \/ Dropping(i, drivers[i].pid)
              \/ UNCHANGED <<drivers, appEnd, toApp, toDriver, history>>
    BY DriverEffect
  <1>3. PICK c \in Drivers : c = drivers[i].pid
    BY <1>2
  <1>4. Connected(c)
    <2>1. drivers[i].connected
      BY <1>1, <1>2 DEF PlaceInv, Listener, TaxiAssumption
    <2> QED
      BY <1>3, <2>1, Domains DEF Connected
  <1>5. ~Waits(c) /\ appEnd[c] = "open" /\ UniquePids
    BY <1>1, <1>4 DEF TableInv, Serving
  <1>6. Waits(d)' <=> Waits(d)
    BY <1>1, TablesKept
  <1>7. SameProcess(d) /\ now' = now
    BY <1>1 DEF SameProcess, process, outside
  <1>8. CASE Hearing(c)
    <2>1. PICK m \in Nat :
              /\ m <= Len(toApp[c])
              /\ Len(toApp'[c]) = Len(toApp[c]) - m
              /\ \A k \in 1 .. Len(toApp[c]) - m : toApp'[c][k] = toApp[c][m + k]
              /\ asked'[c] = SubSeq(asked[c], m + 1, Len(asked[c]))
              /\ told'[c] = LastEnd(told[c], toApp[c], m)
              /\ \A e \in Drivers : e # c => /\ toApp'[e] = toApp[e] /\ asked'[e] = asked[e]
                                             /\ told'[e] = told[e]
      BY <1>8, HearingEffect
    <2>2. SameTables(d) /\ SameEnd(d) /\ toDriver'[d] = toDriver[d]
      BY <1>1, <1>8, TablesKept DEF Hearing, SameEnd
    <2>3. CASE d = c
      <3>1. m \in 0 .. Len(toApp[d])
        <4>1. Len(toApp[d]) \in Nat
          BY LenProperties DEF TypeInv, SocketsTyped
        <4> QED
          BY <2>1, <2>3, <4>1
      <3>2. Tells(d)
        BY <1>4, <1>5, <1>7, <2>1, <2>2, <2>3, <3>1 DEF Tells
      <3> QED
        BY <1>7, <3>2 DEF Effect, Handled
    <2>4. CASE d # c
      <3>1. SameHistory(d) /\ SameBuffers(d)
        BY <2>1, <2>2, <2>4 DEF SameHistory, SameBuffers
      <3>2. Still(d)
        BY <1>7, <2>2, <3>1, TimeStands DEF Still
      <3> QED
        BY <3>2 DEF Effect
    <2> QED
      BY <2>3, <2>4
  <1>9. CASE Dropping(i, c)
    <2>1. driverEnd[c] = "closed" /\ SameHistory(d)
      BY <1>9 DEF Dropping, SameHistory, history
    <2>2. Shuts(c) /\ (d # c => SameEnd(d) /\ SameBuffers(d))
      BY <1>9, ClosesPlainly DEF Dropping
    <2>3. IF d = c THEN ~Listed(d)' /\ ~Connected(d)' ELSE SameEntry(d)
      BY <1>3, <1>5, <1>9, DriverRemoved DEF Dropping, SameEntry
    <2>4. CASE d = c
      <3>1. Closed(d)
        BY <1>4, <1>5, <1>6, <1>7, <2>1, <2>2, <2>3, <2>4 DEF Closed
      <3> QED
        BY <1>7, <3>1 DEF Effect, Handled
    <2>5. CASE d # c
      <3>1. Still(d)
        BY <1>6, <1>7, <2>1, <2>2, <2>3, <2>5, TimeStands DEF Still, SameTables
      <3> QED
        BY <3>1 DEF Effect
    <2> QED
      BY <2>4, <2>5
  <1>10. CASE UNCHANGED <<drivers, appEnd, toApp, toDriver, history>>
    <2>1. UNCHANGED <<dpc, inbox, reply, deadline, driverEnd, appEnd, toApp, toDriver, asked, told,
                      drivers, pending>>
      BY <1>1, <1>10 DEF process, history
    <2> QED
      BY <1>7, <2>1, NothingHappens, TimeStands
  <1> QED
    BY <1>2, <1>3, <1>8, <1>9, <1>10

\* SHUTDOWN for a connection the manager holds.
LEMMA DismissHappens ==
    ASSUME TaxiAssumption, TypeInv, LifeInv, NEW c \in Drivers, Dismiss(c), apc' \notin Serving,
           UNCHANGED <<drivers, pending, process, driverEnd, outside, history>>, NEW d \in Drivers
    PROVE  Effect(d)
  <1>1. PICK out \in [Drivers -> Seq(RequestType)] :
           CloseApp(c, out) /\ \A e \in Drivers : out[e] = toDriver[e] \/ (e = c /\ driverEnd[c] = "open")
    BY DismissEffect
  <1>2. Shuts(c) /\ (d # c => SameEnd(d) /\ SameBuffers(d))
    BY <1>1, ClosesOne
  <1>3. appEnd[c] # "none"
    BY DEF Dismiss, LifeInv
  <1>4. SameProcess(d) /\ SameHistory(d) /\ SameTables(d) /\ now' = now
    BY TablesKept DEF SameProcess, SameHistory, process, outside, history
  <1>5. CASE d = c
    <2>1. Closed(d)
      BY <1>2, <1>3, <1>4, <1>5 DEF Closed, SameTables, SameEntry
    <2> QED
      BY <1>4, <2>1 DEF Effect, Handled
  <1>6. CASE d # c
    <2>1. Still(d)
      BY <1>2, <1>4, <1>6, TimeStands DEF Still
    <2> QED
      BY <2>1 DEF Effect
  <1> QED
    BY <1>5, <1>6

LEMMA ShutHappens ==
    ASSUME TaxiAssumption, TypeInv, IndexInv, LifeInv, ShutDriver \/ ShutPending, NEW d \in Drivers
    PROVE  Effect(d)
  <1>1. UNCHANGED <<drivers, pending, process, driverEnd, outside, history>>
    BY DEF ShutDriver, ShutPending, tables
  <1>2. apc' \notin Serving
    BY DEF ShutDriver, ShutPending, Goto, Serving
  <1>3. idx \in Nat /\ idx >= 1
    BY DEF TypeInv, ManagerTyped, IndexInv, ShutDriver, ShutPending
  <1>4. CASE UNCHANGED <<appEnd, toApp, toDriver>>
    BY <1>1, <1>4, NothingHappens, TimeStands DEF process, outside, history
  <1>5. CASE /\ idx <= Len(drivers) /\ Dismiss(drivers[idx].pid)
    <2>1. idx \in 1 .. Len(drivers)
      BY <1>3, <1>5, Domains
    <2>2. drivers[idx].pid \in Drivers
      BY <2>1, EntryTyped DEF TypeInv, ManagerTyped
    <2> QED
      BY <1>1, <1>2, <1>5, <2>2, DismissHappens
  <1>6. CASE idx <= Len(pending) /\ Dismiss(pending[idx])
    <2>1. idx \in 1 .. Len(pending)
      BY <1>3, <1>6, Domains
    <2>2. pending[idx] \in Drivers
      BY <2>1, ElementOfSeq DEF TypeInv, ManagerTyped
    <2> QED
      BY <1>1, <1>2, <1>6, <2>2, DismissHappens
  <1>7. CASE /\ appEnd' = [e \in Drivers |-> IF appEnd[e] = "backlog" THEN "closed" ELSE appEnd[e]]
             /\ UNCHANGED <<toApp, toDriver>>
    <2>1. SameProcess(d) /\ SameBuffers(d) /\ SameHistory(d) /\ SameTables(d) /\ now' = now
      BY <1>1, <1>7, TablesKept DEF SameProcess, SameBuffers, SameHistory, process, outside, history
    <2>2. CASE appEnd[d] = "backlog"
      <3>1. appEnd'[d] = "closed"
        BY <1>7, <2>2
      <3>2. Advances(d)
        BY <1>2, <2>1, <2>2, <3>1 DEF Advances, SameTables
      <3> QED
        BY <2>1, <3>2 DEF Effect, Handled
    <2>3. CASE appEnd[d] # "backlog"
      <3>1. SameEnd(d)
        BY <1>7, <2>3 DEF SameEnd
      <3> QED
        BY <2>1, <3>1, TimeStands DEF Effect, Still
    <2> QED
      BY <2>2, <2>3
  <1>8. CASE ShutDriver
    BY <1>4, <1>5, <1>8 DEF ShutDriver
  <1>9. CASE ShutPending
    BY <1>4, <1>6, <1>7, <1>9 DEF ShutPending
  <1> QED
    BY <1>8, <1>9

\* Processes end.
LEMMA FinishHappens ==
    ASSUME TypeInv, NEW some, Finish(some), \A c \in Drivers \cap some : dpc[c] \notin {"none"} \cup Ending,
           UNCHANGED <<drivers, pending, appEnd, asked, told, now>>, NEW d \in Drivers
    PROVE  Effect(d)
  <1>1. IF d \in some THEN Ends(d) ELSE SameProcess(d) /\ SameBuffers(d)
    BY FinishEffect
  <1>2. SameTables(d) /\ SameEnd(d) /\ SameHistory(d)
    BY TablesKept DEF SameEnd, SameHistory
  <1>3. CASE d \in some
    <2>1. Exits(d)
      BY <1>1, <1>2, <1>3 DEF Exits
    <2> QED
      BY <2>1 DEF Effect, Handled
  <1>4. CASE d \notin some
    BY <1>1, <1>2, <1>4, TimeStands DEF Effect, Still
  <1> QED
    BY <1>3, <1>4

\* The process of c, which has ended, goes on.
LEMMA PassHappens ==
    ASSUME TypeInv, NEW c, NEW pc \in Ending, dpc[c] \in {"dying", "zombie"}, dpc' = [dpc EXCEPT ![c] = pc],
           UNCHANGED <<drivers, pending, inbox, reply, deadline, sockets, asked, told, now>>,
           NEW d \in Drivers
    PROVE  Effect(d)
  <1>1. /\ SameRest(d) /\ driverEnd'[d] = driverEnd[d] /\ SameBuffers(d) /\ SameEnd(d)
        /\ SameHistory(d) /\ SameTables(d)
    BY TablesKept DEF SameRest, SameBuffers, SameEnd, SameHistory, sockets, ends
  <1>2. dpc'[d] = IF d = c THEN pc ELSE dpc[d]
    BY DEF TypeInv, ProcessTyped
  <1>3. CASE d = c
    <2>1. Passes(d)
      BY <1>1, <1>2, <1>3 DEF Passes
    <2> QED
      BY <2>1 DEF Effect, Handled
  <1>4. CASE d # c
    BY <1>1, <1>2, <1>4, TimeStands DEF Effect, Still, SameProcess, SameRest
  <1> QED
    BY <1>3, <1>4

LEMMA EndHappens ==
    ASSUME TypeInv, Wait \/ KillDriver \/ WaitForDriver, NEW d \in Drivers
    PROVE  Effect(d)
  <1>1. UNCHANGED <<drivers, pending, appEnd, asked, told, now>>
    BY DEF Wait, KillDriver, WaitForDriver, tables, sockets, ends, outside, history
  <1>2. CASE Wait \/ WaitForDriver
    <2>1. UNCHANGED <<inbox, reply, deadline, sockets>>
      BY <1>2 DEF Wait, WaitForDriver
    <2>2. (\E c : Collect(c)) \/ UNCHANGED dpc
      BY <1>2 DEF Wait, WaitForDriver
    <2>3. CASE UNCHANGED dpc
      BY <1>1, <2>1, <2>3, NothingHappens, TimeStands DEF sockets, ends
    <2>4. ASSUME NEW c, Collect(c) PROVE Effect(d)
      <3>1. dpc[c] = "zombie" /\ "reaped" \in Ending /\ dpc' = [dpc EXCEPT ![c] = "reaped"]
        BY <2>4 DEF Collect, Ending
      <3> QED
        BY <1>1, <2>1, <3>1, PassHappens
    <2> QED
      BY <2>2, <2>3, <2>4
  <1>3. CASE KillDriver
    <2>1. (\E some : Terminated(some)) \/ UNCHANGED <<process, driverEnd, toApp, toDriver>>
      BY <1>3 DEF KillDriver
    <2>2. CASE UNCHANGED <<process, driverEnd, toApp, toDriver>>
      BY <1>1, <2>2, NothingHappens, TimeStands DEF process
    <2>3. ASSUME NEW some, Terminated(some) PROVE Effect(d)
      <3>1. PICK those : those = {c \in some : dpc[c] \notin {"none", "forked"} \cup Ending}
        OBVIOUS
      <3>2. Finish(those) /\ \A c \in Drivers \cap those : dpc[c] \notin {"none"} \cup Ending
        BY <2>3, <3>1 DEF Terminated
      <3> QED
        BY <1>1, <3>2, FinishHappens
    <2> QED
      BY <2>1, <2>2, <2>3
  <1> QED
    BY <1>2, <1>3

\* A step of driver c, with what it is to the others.
LEMMA OwnStep ==
    ASSUME TypeInv, NEW c \in Drivers, UNCHANGED <<drivers, pending, asked, told, now>>,
           Handled(c),
           \A e \in Drivers : e # c => SameProcess(e) /\ SameBuffers(e) /\ SameEnd(e),
           NEW d \in Drivers
    PROVE  Effect(d)
  <1>1. SameHistory(d) /\ SameTables(d)
    BY TablesKept DEF SameHistory
  <1>2. CASE d # c
    BY <1>1, <1>2, TimeStands DEF Effect, Still
  <1>3. CASE d = c
    BY <1>3 DEF Effect
  <1> QED
    BY <1>2, <1>3

LEMMA StepUnseen ==
    ASSUME NEW c \in Drivers, DriverStep(c)
    PROVE  UNCHANGED <<app, tables, drivers, pending, asked, told, now, listening, outside>>
  BY DEF DriverStep, Restore, Connect, SendHello, Receive, Handle, Reply, Die, tables, history, outside,
         sockets, ends

LEMMA DriverStepHappens ==
    ASSUME TaxiAssumption, TypeInv, LifeInv, NEW c \in Drivers, DriverStep(c), NEW d \in Drivers
    PROVE  Effect(d)
  <1>1. UNCHANGED <<drivers, pending, asked, told, now>>
    BY StepUnseen
  <1>2. SameHistory(c) /\ SameTables(c)
    BY <1>1, TablesKept DEF SameHistory
  <1>3. ASSUME Finish({c}), UNCHANGED appEnd, dpc[c] \notin {"none"} \cup Ending PROVE Effect(d)
    <2>1. \A e \in Drivers \cap {c} : dpc[e] \notin {"none"} \cup Ending
      BY <1>3
    <2> QED
      BY <1>1, <1>3, <2>1, FinishHappens
  <1>4. CASE Restore(c)
    <2>1. /\ dpc[c] = "forked" /\ dpc' = [dpc EXCEPT ![c] = "connect"]
          /\ UNCHANGED <<inbox, reply, deadline, driverEnd, appEnd, toApp, toDriver>>
      BY <1>4 DEF Restore, DriverGoto, sockets, ends
    <2>2. dpc'[c] = "connect" /\ \A e \in Drivers : e # c => dpc'[e] = dpc[e]
      BY <2>1 DEF TypeInv, ProcessTyped
    <2>3. Restores(c)
      BY <1>2, <2>1, <2>2 DEF Restores, SameRest, SameBuffers, SameEnd
    <2>4. \A e \in Drivers : e # c => SameProcess(e) /\ SameBuffers(e) /\ SameEnd(e)
      BY <2>1, <2>2 DEF SameProcess, SameBuffers, SameEnd
    <2> QED
      BY <1>1, <2>3, <2>4, OwnStep DEF Handled
  <1>5. CASE Connect(c)
    <2>1. CASE Finish({c}) /\ UNCHANGED appEnd
      BY <1>3, <1>5, <2>1 DEF Connect, Ending
    <2>2. CASE /\ DriverGoto(c, "hello") /\ appEnd' = [appEnd EXCEPT ![c] = "backlog"]
               /\ driverEnd' = [driverEnd EXCEPT ![c] = "open"]
               /\ UNCHANGED <<inbox, reply, deadline, toApp, toDriver>>
      <3>1. dpc[c] = "connect" /\ dpc' = [dpc EXCEPT ![c] = "hello"]
        BY <1>5, <2>2 DEF Connect, DriverGoto
      <3>2. /\ dpc'[c] = "hello" /\ appEnd'[c] = "backlog" /\ driverEnd'[c] = "open"
            /\ \A e \in Drivers : e # c => /\ dpc'[e] = dpc[e] /\ appEnd'[e] = appEnd[e]
                                           /\ driverEnd'[e] = driverEnd[e]
        BY <2>2, <3>1 DEF TypeInv, ProcessTyped, SocketsTyped
      <3>3. Connects(c)
        BY <1>2, <2>2, <3>1, <3>2 DEF Connects, SameRest, SameBuffers
      <3>4. \A e \in Drivers : e # c => SameProcess(e) /\ SameBuffers(e) /\ SameEnd(e)
        BY <2>2, <3>2 DEF SameProcess, SameBuffers, SameEnd
      <3> QED
        BY <1>1, <3>3, <3>4, OwnStep DEF Handled
    <2> QED
      BY <1>5, <2>1, <2>2 DEF Connect
  <1>6. CASE SendHello(c)
    <2>1. UNCHANGED appEnd /\ dpc[c] = "hello"
      BY <1>6 DEF SendHello
    <2>2. CASE Finish({c})
      BY <1>3, <2>1, <2>2 DEF Ending
    <2>3. CASE /\ appEnd[c] # "closed"
               /\ toApp' = [toApp EXCEPT ![c] = Append(@, Hello)] /\ DriverGoto(c, "select")
               /\ UNCHANGED <<inbox, reply, deadline, driverEnd, toDriver>>
      <3>1. /\ dpc'[c] = "select" /\ toApp'[c] = Append(toApp[c], Hello)
            /\ \A e \in Drivers : e # c => dpc'[e] = dpc[e] /\ toApp'[e] = toApp[e]
        BY <2>3 DEF DriverGoto, TypeInv, ProcessTyped, SocketsTyped
      <3>2. Greets(c)
        BY <1>2, <2>1, <2>3, <3>1 DEF Greets, SameRest, SameEnd
      <3>3. \A e \in Drivers : e # c => SameProcess(e) /\ SameBuffers(e) /\ SameEnd(e)
        BY <2>1, <2>3, <3>1 DEF SameProcess, SameBuffers, SameEnd
      <3> QED
        BY <1>1, <3>2, <3>3, OwnStep DEF Handled
    <2> QED
      BY <1>6, <2>2, <2>3 DEF SendHello, Hello
  <1>7. CASE Receive(c)
    <2>1. UNCHANGED appEnd /\ dpc[c] = "select"
      BY <1>7 DEF Receive
    <2>2. CASE Finish({c})
      BY <1>3, <2>1, <2>2 DEF Ending
    <2>3. CASE ~Finish({c})
      <3>1. PICK m \in Nat :
              /\ m <= Len(toDriver[c])
              /\ inbox' = [inbox EXCEPT ![c] = inbox'[c]]
              /\ Len(inbox'[c]) = m
              /\ \A k \in 1 .. m : inbox'[c][k] = toDriver[c][k]
              /\ toDriver' = [toDriver EXCEPT ![c] = toDriver'[c]]
              /\ Len(toDriver'[c]) = Len(toDriver[c]) - m
              /\ \A k \in 1 .. Len(toDriver[c]) - m : toDriver'[c][k] = toDriver[c][m + k]
              /\ dpc' = [dpc EXCEPT ![c] = "handle"]
              /\ UNCHANGED <<reply, deadline, driverEnd, toApp>>
        BY <1>7, <2>3, ReceiveEffect
      <3>2. /\ dpc'[c] = "handle"
            /\ \A e \in Drivers : e # c => /\ dpc'[e] = dpc[e] /\ inbox'[e] = inbox[e]
                                           /\ toDriver'[e] = toDriver[e]
        BY <3>1 DEF TypeInv, ProcessTyped, SocketsTyped
      <3>3. m \in 0 .. Len(toDriver[c])
        <4>1. Len(toDriver[c]) \in Nat
          BY LenProperties DEF TypeInv, SocketsTyped
        <4> QED
          BY <3>1, <4>1
      <3>4. Takes(c)
        BY <1>2, <2>1, <3>1, <3>2, <3>3 DEF Takes, SameEnd
      <3>5. \A e \in Drivers : e # c => SameProcess(e) /\ SameBuffers(e) /\ SameEnd(e)
        BY <2>1, <3>1, <3>2 DEF SameProcess, SameBuffers, SameEnd
      <3> QED
        BY <1>1, <3>4, <3>5, OwnStep DEF Handled
    <2> QED
      BY <2>2, <2>3
  <1>8. CASE Handle(c)
    <2>1. UNCHANGED appEnd /\ dpc[c] = "handle"
      BY <1>8 DEF Handle
    <2>2. CASE Finish({c})
      BY <1>3, <2>1, <2>2 DEF Ending
    <2>3. ASSUME NEW type \in Answer, NEW timer \in Nat, NEW end \in Nat,
                 Answering(c, type, timer, end), Answers(c, type, timer, end)
          PROVE  Effect(d)
      <3>1. PICK r : r = Response(Head(inbox[c]), type, timer)
        OBVIOUS
      <3>2. r.timer = timer
        BY <3>1 DEF Response
      <3>3. /\ dpc'[c] = "reply" /\ reply'[c] = r /\ deadline'[c] = end
            /\ \A e \in Drivers : e # c => /\ dpc'[e] = dpc[e] /\ reply'[e] = reply[e]
                                           /\ deadline'[e] = deadline[e]
            /\ UNCHANGED <<inbox, driverEnd, toApp, toDriver>>
        BY <2>3, <3>1 DEF Answering, TypeInv, ProcessTyped
      <3>4. reply'[c].timer = timer
        BY <3>2, <3>3
      <3>5. Decides(c)
        BY <1>2, <2>1, <2>3, <3>1, <3>3, <3>4 DEF Decides, SameEnd, SameBuffers
      <3>6. \A e \in Drivers : e # c => SameProcess(e) /\ SameBuffers(e) /\ SameEnd(e)
        BY <2>1, <3>3 DEF SameProcess, SameBuffers, SameEnd
      <3> QED
        BY <1>1, <3>5, <3>6, OwnStep DEF Handled
    <2> QED
      BY <1>8, <2>2, <2>3, HandleEffect
  <1>9. CASE Reply(c)
    <2>1. UNCHANGED appEnd /\ dpc[c] = "reply"
      BY <1>9 DEF Reply
    <2>2. CASE Finish({c})
      BY <1>3, <2>1, <2>2 DEF Ending
    <2>3. CASE Answered(c)
      <3>1. /\ dpc'[c] = (IF Len(inbox[c]) = 1 THEN "select" ELSE "handle")
            /\ toApp'[c] = Append(toApp[c], reply[c]) /\ inbox'[c] = Tail(inbox[c])
            /\ \A e \in Drivers : e # c => /\ dpc'[e] = dpc[e] /\ inbox'[e] = inbox[e]
                                           /\ toApp'[e] = toApp[e] /\ reply'[e] = reply[e]
            /\ appEnd[c] = "open" /\ UNCHANGED <<deadline, driverEnd, toDriver>>
        BY <2>3 DEF Answered, TypeInv, ProcessTyped, SocketsTyped
      <3>2. Replies(c)
        BY <1>2, <2>1, <3>1 DEF Replies, SameEnd
      <3>3. \A e \in Drivers : e # c => SameProcess(e) /\ SameBuffers(e) /\ SameEnd(e)
        BY <2>1, <3>1 DEF SameProcess, SameBuffers, SameEnd
      <3> QED
        BY <1>1, <3>2, <3>3, OwnStep DEF Handled
    <2> QED
      BY <1>9, <2>2, <2>3 DEF Reply, Answered, HasRoom, DriverGoto
  <1>10. CASE Die(c)
    <2>1. dpc[c] = "dying" /\ "zombie" \in Ending /\ dpc' = [dpc EXCEPT ![c] = "zombie"]
      BY <1>10 DEF Die, DriverGoto, Ending
    <2>2. UNCHANGED <<inbox, reply, deadline, sockets>>
      BY <1>10 DEF Die
    <2> QED
      BY <1>1, <2>1, <2>2, PassHappens
  <1> QED
    BY <1>4, <1>5, <1>6, <1>7, <1>8, <1>9, <1>10 DEF DriverStep

LEMMA Effects ==
    ASSUME TaxiAssumption, TypeInv, IndexInv, LifeInv, PlaceInv, TableInv, [Next]_vars, NEW d \in Drivers
    PROVE  Effect(d)
  <1>1. CASE Rounds
    BY <1>1, RoundsHappen
  <1>2. CASE Handlers
    BY <1>2, ReapHappens, CommandHappens, SendHappens, AcceptHappens, PendingHappens, DriverHappens
       DEF Handlers
  <1>3. CASE ShutDriver \/ ShutPending
    BY <1>3, ShutHappens
  <1>4. CASE Wait \/ KillDriver \/ WaitForDriver
    BY <1>4, EndHappens
  <1>5. ASSUME NEW c \in Drivers, DriverStep(c) PROVE Effect(d)
    BY <1>5, DriverStepHappens
  <1>6. ASSUME NEW c \in Drivers, Kill(c) PROVE Effect(d)
    <2>1. Finish({c}) /\ UNCHANGED <<drivers, pending, appEnd, asked, told, now>>
      BY <1>6 DEF Kill, tables, history
    <2>2. \A e \in Drivers \cap {c} : dpc[e] \notin {"none"} \cup Ending
      BY <1>6 DEF Kill
    <2> QED
      BY <2>1, <2>2, FinishHappens
  <1>7. ASSUME NEW group, Stop(group) PROVE Effect(d)
    <2>1. Terminated(group) /\ UNCHANGED <<drivers, pending, appEnd, asked, told, now>>
      BY <1>7 DEF Stop, tables, outside, history
    <2>2. PICK those : those = {c \in group : dpc[c] \notin {"none", "forked"} \cup Ending}
      OBVIOUS
    <2>3. Finish(those) /\ \A c \in Drivers \cap those : dpc[c] \notin {"none"} \cup Ending
      BY <2>1, <2>2 DEF Terminated
    <2> QED
      BY <2>1, <2>3, FinishHappens
  <1>8. CASE Tick \/ UNCHANGED vars
    <2>1. UNCHANGED <<dpc, inbox, reply, deadline, driverEnd, appEnd, toApp, toDriver, asked, told,
                      drivers, pending>>
      BY <1>8 DEF Tick, vars, tables, process, sockets, ends, history
    <2>2. now' >= now
      BY <1>8 DEF Tick, vars, outside, TypeInv, OutsideTyped
    <2> QED
      BY <2>1, <2>2, NothingHappens
  <1> QED
    BY <1>1, <1>2, <1>3, <1>4, <1>5, <1>6, <1>7, <1>8, StepCases

-----------------------------------------------------------------------------
(* Processes, connections and tables.                                      *)

LEMMA LifeStep == ASSUME TypeInv, LifeInv, \A d \in Drivers : Effect(d) PROVE LifeInv'
  <1> SUFFICES ASSUME NEW d \in Drivers
               PROVE  /\ dpc'[d] \in {"none", "forked", "connect"} => appEnd'[d] = "none"
                      /\ appEnd'[d] = "none" => driverEnd'[d] = "none" /\ toDriver'[d] = <<>>
                      /\ dpc'[d] \in {"hello"} \cup Serves <=> driverEnd'[d] = "open"
                      /\ dpc'[d] \in {"hello"} \cup Serves => appEnd'[d] # "none"
                      /\ dpc'[d] \notin {"handle", "reply"} => inbox'[d] = <<>>
                      /\ dpc'[d] \in Ending => toDriver'[d] = <<>>
    BY DEF LifeInv
  <1>1. /\ dpc[d] \in {"none", "forked", "connect"} => appEnd[d] = "none"
        /\ appEnd[d] = "none" => driverEnd[d] = "none" /\ toDriver[d] = <<>>
        /\ dpc[d] \in {"hello"} \cup Serves <=> driverEnd[d] = "open"
        /\ dpc[d] \in {"hello"} \cup Serves => appEnd[d] # "none"
        /\ dpc[d] \notin {"handle", "reply"} => inbox[d] = <<>>
        /\ dpc[d] \in Ending => toDriver[d] = <<>>
    BY DEF LifeInv
  <1>2. CASE Still(d)
    BY <1>1, <1>2 DEF Still, SameProcess, SameBuffers, SameEnd
  <1>3. CASE Exits(d)
    BY <1>1, <1>3 DEF Exits, Ends, SameEnd, Ending, Serves
  <1>4. CASE Passes(d)
    BY <1>1, <1>4 DEF Passes, SameRest, SameBuffers, SameEnd, Ending, Serves
  <1>5. CASE Forgotten(d)
    BY <1>1, <1>5 DEF Forgotten, Shuts, SameRest, SameBuffers, SameEnd, Ending, Serves
  <1>6. CASE Closed(d)
    BY <1>1, <1>6 DEF Closed, Shuts, SameProcess, Ending, Serves
  <1>7. CASE Advances(d)
    BY <1>1, <1>7 DEF Advances, SameProcess, SameBuffers
  <1>8. CASE Starts(d) \/ Restores(d) \/ Connects(d) \/ Greets(d)
    BY <1>1, <1>8 DEF Starts, Restores, Connects, Greets, SameRest, SameBuffers, SameEnd, Ending, Serves
  <1>9. CASE Joins(d) \/ Tells(d)
    BY <1>1, <1>9 DEF Joins, Tells, SameProcess, SameEnd
  <1>10. CASE Gets(d)
    BY <1>1, <1>10 DEF Gets, SameProcess, SameEnd, Ending, Serves
  <1>11. CASE Takes(d)
    BY <1>1, <1>11 DEF Takes, SameEnd, Ending, Serves
  <1>12. CASE Decides(d)
    BY <1>1, <1>12 DEF Decides, SameBuffers, SameEnd, Ending, Serves
  <1>13. CASE Replies(d)
    <2>1. Len(inbox[d]) = 1 => inbox'[d] = <<>>
      <3>1. Tail(inbox[d]) \in Seq(RequestType) /\ Len(Tail(inbox[d])) = Len(inbox[d]) - 1
        BY <1>13, FirstInbox DEF Replies
      <3>2. PICK rest \in Seq(RequestType) : rest = Tail(inbox[d])
        BY <3>1
      <3>3. Len(inbox[d]) = 1 => Len(rest) = 0
        BY <3>1, <3>2
      <3>4. inbox'[d] = rest
        BY <1>13, <3>2 DEF Replies
      <3> QED
        BY <3>3, <3>4, EmptySeq
    <2> QED
      BY <1>1, <1>13, <2>1 DEF Replies, SameEnd, Ending, Serves
  <1> QED
    BY <1>2, <1>3, <1>4, <1>5, <1>6, <1>7, <1>8, <1>9, <1>10, <1>11, <1>12, <1>13 DEF Effect, Handled

\* The manager never serves again.
LEMMA ServesNoMore == ASSUME [Next]_vars, apc' \in Serving PROVE apc \in Serving
  <1>1. CASE Rounds
    BY <1>1 DEF Rounds, Drain, CheckChild, CheckStop, Select, InputDone, PendingDone, DriversDone, Serving
  <1>2. CASE Handlers
    BY <1>2 DEF Handlers, Reap, Line, EndOfInput, SendRequest, Accept, ReceivePending, ReceiveDriver,
                Serving
  <1>3. CASE ShutDriver \/ ShutPending \/ Wait \/ KillDriver \/ WaitForDriver
    BY <1>3 DEF ShutDriver, ShutPending, Wait, KillDriver, WaitForDriver, Goto, Serving
  <1>4. CASE UNCHANGED app
    BY <1>4 DEF app
  <1> QED
    BY <1>1, <1>2, <1>3, <1>4, StepCases, AloneMoves

LEMMA UniqueStep ==
    ASSUME TaxiAssumption, TypeInv, TableInv, [Next]_vars
    PROVE  UniquePids' /\ (apc' \in Serving => UniqueFds')
  <1>1. UniquePids /\ (apc \in Serving => UniqueFds)
    BY DEF TableInv
  <1>2. apc' \in Serving => apc \in Serving
    BY ServesNoMore
  <1>3. ASSUME UNCHANGED drivers PROVE UniquePids'
    BY <1>1, <1>3 DEF UniquePids
  <1>4. ASSUME UNCHANGED pending PROVE apc' \in Serving => UniqueFds'
    BY <1>1, <1>2, <1>4 DEF UniqueFds
  <1>5. CASE UNCHANGED tables
    BY <1>3, <1>4, <1>5 DEF tables
  <1>6. CASE Reap
    <2>1. CASE UNCHANGED drivers
      BY <1>3, <1>4, <1>6, <2>1 DEF Reap
    <2>2. CASE \E i \in DOMAIN drivers : drivers' = Removed(drivers, i)
      <3>1. PICK i \in 1 .. Len(drivers) : drivers' = Removed(drivers, i)
        BY <2>2, Domains
      <3>2. UniquePids'
        BY <1>1, <3>1, DriverRemoved
      <3> QED
        BY <1>4, <1>6, <3>2 DEF Reap
    <2> QED
      BY <1>6, <2>1, <2>2 DEF Reap
  <1>7. CASE Line \/ EndOfInput
    <2>1. /\ \/ Asking
             \/ \E c \in Drivers : Forking(c)
             \/ UNCHANGED <<outbox, nextId, dpc, drivers>>
          /\ UNCHANGED pending
      BY <1>7, CommandEffect
    <2>2. CASE UNCHANGED drivers
      BY <1>3, <1>4, <2>1, <2>2
    <2>3. ASSUME NEW c \in Drivers, Forking(c) PROVE UniquePids'
      <3>1. ~Listed(c)
        BY <2>3 DEF Forking, TableInv
      <3> QED
        BY <1>1, <2>3, <3>1, DriverAdded DEF Forking
    <2> QED
      BY <1>4, <2>1, <2>2, <2>3 DEF Asking
  <1>8. CASE Accept
    <2>1. UNCHANGED drivers
      BY <1>8 DEF Accept
    <2>2. ASSUME NEW c \in Drivers, appEnd[c] = "backlog", pending' = Append(pending, c)
          PROVE  UniqueFds'
      <3>1. UniqueFds /\ ~Waits(c)
        BY <1>8, <2>2 DEF TableInv, Accept, Serving
      <3> QED
        BY <2>2, <3>1, PendingAdded
    <2> QED
      BY <1>3, <1>4, <1>8, <2>1, <2>2 DEF Accept
  <1>9. CASE ReceivePending
    <2>1. PICK i \in 1 .. Len(pending) :
             /\ pending[i] \in Drivers /\ pending' = Removed(pending, i)
             /\ Registering(i, pending[i]) \/ Refusing(i, pending[i])
      BY <1>9, PendingEffect
    <2>2. UniqueFds
      BY <1>1, <1>9 DEF ReceivePending, Serving
    <2>3. UniqueFds'
      BY <2>1, <2>2, PendingRemoved
    <2>4. UniquePids'
      BY <1>1, <1>3, <2>1, DriverRegistered DEF Refusing
    <2> QED
      BY <2>3, <2>4
  <1>10. CASE ReceiveDriver
    <2>1. UNCHANGED pending
      BY <1>10, DriverEffect
    <2>2. PICK i \in 1 .. Len(drivers) :
             \/ Hearing(drivers[i].pid) \/ Dropping(i, drivers[i].pid)
             \/ UNCHANGED <<drivers, appEnd, toApp, toDriver, history>>
      BY <1>10, DriverEffect
    <2>3. UniquePids'
      BY <1>1, <1>3, <2>2, DriverRemoved DEF Hearing, Dropping
    <2> QED
      BY <1>4, <2>1, <2>3
  <1>11. CASE Rounds
    BY <1>5, <1>11, RoundsMove
  <1>12. CASE SendRequest \/ ShutDriver \/ ShutPending \/ Wait \/ KillDriver \/ WaitForDriver
    BY <1>5, <1>12 DEF SendRequest, ShutDriver, ShutPending, Wait, KillDriver, WaitForDriver
  <1> QED
    BY <1>5, <1>6, <1>7, <1>8, <1>9, <1>10, <1>11, <1>12, StepCases, AloneMoves DEF Handlers

LEMMA TableStep ==
    ASSUME TaxiAssumption, TypeInv, LifeInv, TableInv, [Next]_vars, \A d \in Drivers : Effect(d)
    PROVE  TableInv'
  <1>1. UniquePids' /\ (apc' \in Serving => UniqueFds')
    BY UniqueStep
  <1>2. apc' \in Serving => apc \in Serving
    BY ServesNoMore
  <1>3. ASSUME NEW d \in Drivers
        PROVE  /\ Listed(d)' => dpc'[d] # "none"
               /\ Connected(d)' => dpc'[d] \notin Early /\ appEnd'[d] \in {"open", "closed"}
               /\ dpc'[d] \notin {"none"} \cup Ending => Listed(d)'
               /\ apc' \in Serving =>
                     /\ Waits(d)' => ~Connected(d)' /\ appEnd'[d] = "open"
                     /\ Connected(d)' => appEnd'[d] = "open"
                     /\ appEnd'[d] = "open" => Waits(d)' \/ Connected(d)'
    <2>1. /\ Listed(d) => dpc[d] # "none"
          /\ Connected(d) => dpc[d] \notin Early /\ appEnd[d] \in {"open", "closed"}
          /\ dpc[d] \notin {"none"} \cup Ending => Listed(d)
          /\ apc \in Serving =>
                /\ Waits(d) => ~Connected(d) /\ appEnd[d] = "open"
                /\ Connected(d) => appEnd[d] = "open"
                /\ appEnd[d] = "open" => Waits(d) \/ Connected(d)
      BY DEF TableInv, RunningDriversListed
    <2>2. dpc[d] \in DriverPC /\ (dpc[d] \in Early => toApp[d] = <<>>)
      BY DEF TypeInv, ProcessTyped, SocketsTyped
    <2>3. /\ dpc[d] \in {"none", "forked", "connect"} => appEnd[d] = "none"
          /\ dpc[d] \in {"hello"} \cup Serves <=> driverEnd[d] = "open"
      BY DEF LifeInv
    <2>4. CASE Still(d)
      BY <1>2, <2>1, <2>4 DEF Still, SameProcess, SameEnd, SameTables, SameEntry
    <2>5. CASE Exits(d)
      BY <1>2, <2>1, <2>5 DEF Exits, Ends, SameEnd, SameTables, SameEntry, Early, Ending
    <2>6. CASE Passes(d)
      BY <1>2, <2>1, <2>6 DEF Passes, SameEnd, SameTables, SameEntry, Early, Ending
    <2>7. CASE Forgotten(d)
      BY <1>2, <2>1, <2>7 DEF Forgotten, Shuts, SameEnd, Ending
    <2>8. CASE Closed(d)
      BY <1>2, <2>1, <2>2, <2>3, <2>8 DEF Closed, Shuts, SameProcess, Early, Serves, Ending, DriverPC
    <2>9. CASE Advances(d)
      BY <1>2, <2>1, <2>9 DEF Advances, SameProcess, SameEntry
    <2>10. CASE Starts(d)
      BY <1>2, <2>1, <2>10 DEF Starts, SameEnd, Early
    <2>11. CASE Restores(d) \/ Connects(d)
      BY <1>2, <2>1, <2>3, <2>11 DEF Restores, Connects, SameEnd, SameTables, SameEntry, Early, Ending
    <2>12. CASE Greets(d)
      BY <1>2, <2>1, <2>12 DEF Greets, SameEnd, SameTables, SameEntry, Early, Ending
    <2>13. CASE Joins(d)
      BY <1>2, <2>1, <2>2, <2>13 DEF Joins, SameProcess, SameEnd
    <2>14. CASE Gets(d) \/ Tells(d)
      BY <1>2, <2>1, <2>14 DEF Gets, Tells, SameProcess, SameEnd, SameTables, SameEntry
    <2>15. CASE Takes(d) \/ Decides(d) \/ Replies(d)
      BY <1>2, <2>1, <2>15 DEF Takes, Decides, Replies, SameEnd, SameTables, SameEntry, Early, Ending
    <2> QED
      BY <2>4, <2>5, <2>6, <2>7, <2>8, <2>9, <2>10, <2>11, <2>12, <2>13, <2>14, <2>15 DEF Effect, Handled
  <1> QED
    BY <1>1, <1>3 DEF TableInv, RunningDriversListed

LEMMA PlaceStep ==
    ASSUME TaxiAssumption, TypeInv, TypeInv', PlaceInv, TableInv, [Next]_vars
    PROVE  PlaceInv'
  <1>1. ready' \subseteq Drivers \cup {Stdin, Listener} /\ (outbox' # <<>> => apc' = "stdin")
    BY DEF TypeInv, ManagerTyped
  <1>2. /\ apc = "accept" => Stdin \notin ready
        /\ apc \in {"pending", "drivers"} => ready \subseteq Drivers
        /\ \A k \in 1 .. Len(outbox) : Connected(outbox[k].to)
    BY DEF PlaceInv, SendsToConnected
  <1>3. ASSUME apc' = Phase(ready')
        PROVE  /\ apc' = "accept" => Stdin \notin ready'
               /\ apc' \in {"pending", "drivers"} => ready' \subseteq Drivers
    BY <1>1, <1>3, PhaseFinds
  <1>4. ASSUME outbox' = <<>> PROVE SendsToConnected'
    <2>1. Len(outbox') = 0
      BY <1>4
    <2> QED
      BY <2>1 DEF SendsToConnected
  <1>5. ASSUME UNCHANGED <<outbox, drivers>> PROVE SendsToConnected'
    BY <1>2, <1>5 DEF SendsToConnected, Connected
  <1>6. CASE Rounds
    <2>1. UNCHANGED <<outbox, drivers>>
      BY <1>6, RoundsMove DEF tables
    <2>2. \/ apc' = Phase(ready')
          \/ apc' \notin {"accept", "pending", "drivers"}
          \/ apc = "pending" /\ ready' = ready /\ apc' = "drivers"
      BY <1>6 DEF Rounds, Drain, CheckChild, CheckStop, Select, InputDone, PendingDone, DriversDone, Goto
    <2>3. /\ apc' = "accept" => Stdin \notin ready'
          /\ apc' \in {"pending", "drivers"} => ready' \subseteq Drivers
      BY <1>2, <1>3, <2>2
    <2> QED
      BY <1>5, <2>1, <2>3 DEF PlaceInv
  <1>7. CASE Line \/ EndOfInput
    <2>1. /\ apc = "stdin" /\ apc' = "stdin"
          /\ \/ Asking
             \/ \E d \in Drivers : Forking(d)
             \/ UNCHANGED <<outbox, nextId, dpc, drivers>>
      BY <1>7, CommandEffect
    <2>2. SendsToConnected'
      <3>1. CASE Asking
        BY <3>1 DEF Asking, SendsToConnected, Connected
      <3>2. ASSUME NEW d \in Drivers, Forking(d)
            PROVE  SendsToConnected'
        <4>1. UniquePids /\ ~Listed(d)
          BY <3>2 DEF Forking, TableInv
        <4>2. \A e \in Drivers : Connected(e)' <=> Connected(e)
          BY <3>2, <4>1, DriverAdded DEF Forking
        <4>3. outbox' = outbox
          BY <3>2 DEF Forking
        <4>4. \A k \in 1 .. Len(outbox) : outbox[k].to \in Drivers
          <5> SUFFICES ASSUME NEW k \in 1 .. Len(outbox) PROVE outbox[k].to \in Drivers
            OBVIOUS
          <5>1. outbox[k] \in RequestType
            BY ElementOfSeq DEF TypeInv, ManagerTyped
          <5> QED
            BY <5>1 DEF RequestType
        <4>5. drivers \in Seq(Entry) /\ drivers' \in Seq(Entry)
          BY DEF TypeInv, ManagerTyped
        <4>6. \A e \in Drivers : Knows(drivers, e) => Knows(drivers', e)
          BY <4>2, <4>5, TableNow, TableNext
        <4>7. \A k \in 1 .. Len(outbox) : Knows(drivers', outbox[k].to)
          BY <1>2, <4>4, <4>5, <4>6, TableNow
        <4>8. DOMAIN drivers' = 1 .. Len(drivers')
          BY <4>5, LenProperties
        <4> QED
          BY <4>3, <4>7, <4>8 DEF SendsToConnected, Connected, Knows
      <3> QED
        BY <1>5, <2>1, <3>1, <3>2
    <2> QED
      BY <2>1, <2>2 DEF PlaceInv
  <1>8. CASE SendRequest
    <2>1. apc' = "stdin" /\ outbox # <<>> /\ outbox' = Tail(outbox) /\ drivers' = drivers
      BY <1>8 DEF SendRequest, tables
    <2>2. \A k \in 1 .. Len(outbox') : k + 1 \in 1 .. Len(outbox) /\ outbox'[k] = outbox[k + 1]
      BY <2>1, FirstRequest
    <2>3. SendsToConnected'
      BY <1>2, <2>1, <2>2 DEF SendsToConnected, Connected
    <2> QED
      BY <2>1, <2>3 DEF PlaceInv
  <1>9. CASE Accept
    <2>1. outbox' = outbox /\ drivers' = drivers
      BY <1>9 DEF Accept
    <2>2. apc' = Phase(ready') \/ (apc' = apc /\ ready' = ready)
      BY <1>9 DEF Accept, Goto
    <2> QED
      BY <1>2, <1>3, <1>5, <2>1, <2>2 DEF PlaceInv
  <1>10. CASE Reap \/ ReceivePending \/ ReceiveDriver
    <2>1. outbox' = <<>> /\ ready' = ready /\ apc' \in {apc, "stop"}
      BY <1>10 DEF Reap, Goto, ReceivePending, ReceiveDriver, TypeInv, ManagerTyped
    <2> QED
      BY <1>2, <1>4, <2>1 DEF PlaceInv
  <1>11. CASE ShutDriver \/ ShutPending \/ Wait \/ KillDriver \/ WaitForDriver
    <2>1. apc' \notin {"stdin", "accept", "pending", "drivers"}
      BY <1>11 DEF ShutDriver, ShutPending, Wait, KillDriver, WaitForDriver, Goto
    <2> QED
      BY <1>1, <1>4, <2>1 DEF PlaceInv
  <1>12. CASE UNCHANGED <<app, tables>>
    <2>1. UNCHANGED <<apc, ready, outbox, drivers>>
      BY <1>12 DEF app, tables
    <2> QED
      BY <1>2, <1>5, <2>1 DEF PlaceInv
  <1> QED
    BY <1>6, <1>7, <1>8, <1>9, <1>10, <1>11, <1>12, StepCases, AloneMoves DEF Handlers

LEMMA EndStep ==
    ASSUME TypeInv, IndexInv, TableInv, EndInv, [Next]_vars, \A d \in Drivers : Effect(d)
    PROVE  EndInv'
  <1>1. \A d \in Drivers : dpc[d] = "reaped" => dpc'[d] = "reaped"
    <2> SUFFICES ASSUME NEW d \in Drivers, dpc[d] = "reaped" PROVE dpc'[d] = "reaped"
      OBVIOUS
    <2>1. Effect(d)
      OBVIOUS
    <2> QED
      BY <2>1 DEF Effect, Handled, Still, Exits, Passes, Forgotten, Closed, Advances, Starts, Restores,
                  Connects, Greets, Joins, Gets, Tells, Takes, Decides, Replies, SameProcess, Ending
  <1>2. \A d \in Drivers : dpc[d] \in {"none"} \cup Ending => dpc'[d] \in {"none"} \cup Ending \/ apc' = "stdin"
    <2> SUFFICES ASSUME NEW d \in Drivers, dpc[d] \in {"none"} \cup Ending
                 PROVE  dpc'[d] \in {"none"} \cup Ending \/ apc' = "stdin"
      OBVIOUS
    <2>1. Effect(d)
      OBVIOUS
    <2> QED
      BY <2>1 DEF Effect, Handled, Still, Exits, Passes, Forgotten, Closed, Advances, Starts, Restores,
                  Connects, Greets, Joins, Gets, Tells, Takes, Decides, Replies, SameProcess, Ending
  <1>3. idx \in Nat /\ Len(drivers) \in Nat /\ \A j \in 1 .. Len(drivers) : drivers[j].pid \in Drivers
    BY EntryTyped, Domains DEF TypeInv, ManagerTyped
  <1>4. apc \in {"kill", "waitpid"} => idx >= 1 /\ \A j \in 1 .. idx - 1 : dpc[drivers[j].pid] = "reaped"
    BY DEF EndInv, IndexInv
  <1>5. CASE Wait
    <2>1. drivers' = drivers
      BY <1>5 DEF Wait, tables
    <2>2. apc' \in {"kill", "waitpid"} => idx' = 1
      BY <1>5 DEF Wait, Goto
    <2>3. apc' = "exited" => \A d \in Drivers : (Listed(d) => dpc[d] = "reaped") /\ dpc' = dpc
      BY <1>5 DEF Wait, Goto
    <2>4. \A d \in Drivers : dpc[d] \notin {"none"} \cup Ending => Listed(d)
      BY DEF TableInv, RunningDriversListed
    <2>5. NobodyLeftBehind'
      BY <2>3, <2>4 DEF NobodyLeftBehind, Ending
    <2> QED
      BY <2>2, <2>5 DEF EndInv
  <1>6. CASE KillDriver
    <2>1. drivers' = drivers /\ apc = "kill"
      BY <1>6 DEF KillDriver, tables
    <2>2. CASE idx <= Len(drivers) /\ dpc[drivers[idx].pid] = "reaped" /\ idx' = idx + 1 /\ dpc' = dpc
               /\ apc' = apc
      <3>1. \A j \in 1 .. idx' - 1 : j \in 1 .. idx - 1 \/ j = idx
        BY <1>3, <2>2
      <3> QED
        BY <1>4, <2>1, <2>2, <3>1 DEF EndInv, NobodyLeftBehind
    <2>3. CASE apc' = "waitpid" /\ idx' = idx /\ idx <= Len(drivers)
      <3>1. \A j \in 1 .. idx - 1 : j \in 1 .. Len(drivers)
        BY <1>3, <2>3
      <3> QED
        BY <1>1, <1>3, <1>4, <2>1, <2>3, <3>1 DEF EndInv, NobodyLeftBehind
    <2>4. CASE idx > Len(drivers) /\ apc' = "exited" /\ dpc' = dpc
      <3>1. \A j \in 1 .. Len(drivers) : j \in 1 .. idx - 1
        BY <1>3, <2>4
      <3>2. \A j \in 1 .. Len(drivers) : dpc[drivers[j].pid] = "reaped"
        BY <1>4, <2>1, <3>1
      <3>3. \A d \in Drivers : Listed(d) => dpc[d] = "reaped"
        BY <3>2, Domains DEF Listed
      <3>4. \A d \in Drivers : dpc[d] \notin {"none"} \cup Ending => Listed(d)
        BY DEF TableInv, RunningDriversListed
      <3> QED
        BY <2>4, <3>3, <3>4 DEF EndInv, NobodyLeftBehind, Ending
    <2> QED
      BY <1>6, <2>2, <2>3, <2>4 DEF KillDriver, Goto, process
  <1>7. CASE WaitForDriver
    <2>1. /\ drivers' = drivers /\ apc = "waitpid" /\ apc' = "kill" /\ idx' = idx + 1
          /\ dpc' = [dpc EXCEPT ![drivers[idx].pid] = "reaped"]
      BY <1>7 DEF WaitForDriver, Goto, Collect, tables
    <2>2. idx \in 1 .. Len(drivers)
      BY <1>3, <2>1 DEF IndexInv
    <2>3. dpc'[drivers[idx].pid] = "reaped"
      BY <1>3, <2>1, <2>2 DEF TypeInv, ProcessTyped
    <2>4. \A j \in 1 .. idx' - 1 : j = idx \/ (j \in 1 .. idx - 1 /\ j \in 1 .. Len(drivers))
      BY <1>3, <2>1, <2>2
    <2> QED
      BY <1>1, <1>3, <1>4, <2>1, <2>3, <2>4 DEF EndInv, NobodyLeftBehind
  <1>8. CASE Rounds \/ Handlers \/ ShutDriver \/ ShutPending
    <2>1. apc' \notin {"kill", "waitpid", "exited"}
      <3>1. CASE Rounds
        BY <3>1, PhaseFinds DEF Rounds, Drain, CheckChild, CheckStop, Select, InputDone, PendingDone,
                                DriversDone, Goto
      <3>2. CASE Handlers
        BY <3>2, HandlersMove DEF Serving
      <3>3. CASE ShutDriver \/ ShutPending
        BY <3>3 DEF ShutDriver, ShutPending, Goto
      <3> QED
        BY <1>8, <3>1, <3>2, <3>3
    <2> QED
      BY <2>1 DEF EndInv, NobodyLeftBehind
  <1>9. CASE UNCHANGED <<app, tables>>
    <2>1. UNCHANGED <<apc, idx, drivers>>
      BY <1>9 DEF app, tables
    <2>2. apc' \in {"kill", "waitpid"} => \A j \in 1 .. idx' - 1 : dpc'[drivers'[j].pid] = "reaped"
      <3> SUFFICES ASSUME apc \in {"kill", "waitpid"}, NEW j \in 1 .. idx - 1
                   PROVE  dpc'[drivers[j].pid] = "reaped"
        BY <2>1
      <3>1. dpc[drivers[j].pid] = "reaped"
        BY <1>4
      <3>2. j \in 1 .. Len(drivers)
        BY <1>3 DEF IndexInv
      <3> QED
        BY <1>1, <1>3, <3>1, <3>2
    <2>3. NobodyLeftBehind'
      <3> SUFFICES ASSUME apc' = "exited", NEW d \in Drivers PROVE dpc'[d] \in {"none"} \cup Ending
        BY DEF NobodyLeftBehind
      <3>1. dpc[d] \in {"none"} \cup Ending
        BY <2>1 DEF EndInv, NobodyLeftBehind
      <3> QED
        BY <1>2, <3>1
    <2> QED
      BY <2>2, <2>3 DEF EndInv
  <1> QED
    BY <1>5, <1>6, <1>7, <1>8, <1>9, StepCases, AloneMoves

-----------------------------------------------------------------------------
(* Requests and their answers.                                             *)

\* The lengths of what lies between the manager and a driver.
LEMMA Lengths ==
    ASSUME TypeInv, NEW d \in Drivers
    PROVE  /\ Len(toApp[d]) \in Nat /\ Len(inbox[d]) \in Nat /\ Len(toDriver[d]) \in Nat
           /\ Len(asked[d]) \in Nat
           /\ toApp[d] \in Seq(ReplyType) /\ inbox[d] \in Seq(RequestType)
           /\ toDriver[d] \in Seq(RequestType) /\ asked[d] \in Seq(Nat)
  BY LenProperties DEF TypeInv, ProcessTyped, SocketsTyped, HistoryTyped

LEMMA LengthsNext ==
    ASSUME TypeInv', NEW d \in Drivers
    PROVE  /\ toApp'[d] \in Seq(ReplyType) /\ inbox'[d] \in Seq(RequestType)
           /\ toDriver'[d] \in Seq(RequestType) /\ asked'[d] \in Seq(Nat)
  BY DEF TypeInv, ProcessTyped, SocketsTyped, HistoryTyped

LEMMA GetsInOrder ==
    ASSUME TypeInv, LifeInv, NEW d \in Drivers, Ordered(d), Gets(d)
    PROVE  Ordered(d)'
  <1>1. PICK a \in Nat, b \in Nat, c \in Nat, n \in Nat :
           a = Len(toApp[d]) /\ b = Len(inbox[d]) /\ c = Len(toDriver[d]) /\ n = Len(asked[d])
    BY Lengths
  <1>2. dpc[d] \notin Ending
    BY DEF Gets, LifeInv, Serves, Ending
  <1>3. /\ \A k \in 1 .. a : toApp[d][k].type \in Answer /\ toApp[d][k].id = asked[d][k]
        /\ n = a + b + c
        /\ \A k \in 1 .. b : inbox[d][k].id = asked[d][a + k]
        /\ \A k \in 1 .. c : toDriver[d][k].id = asked[d][a + b + k]
    BY <1>1, <1>2 DEF Ordered
  <1>4. PICK request \in RequestType :
           toDriver'[d] = Append(toDriver[d], request) /\ asked'[d] = Append(asked[d], request.id)
    BY DEF Gets
  <1>5. toApp'[d] = toApp[d] /\ inbox'[d] = inbox[d] /\ dpc'[d] = dpc[d]
    BY DEF Gets, SameProcess
  <1>6. request.id \in Nat
    BY DEF RequestType
  <1>7. /\ Len(toDriver'[d]) = c + 1 /\ toDriver'[d][c + 1] = request
        /\ \A k \in 1 .. c : toDriver'[d][k] = toDriver[d][k]
    BY <1>1, <1>4, Lengths, AppendProperties
  <1>8. /\ Len(asked'[d]) = n + 1 /\ asked'[d][n + 1] = request.id
        /\ \A k \in 1 .. n : asked'[d][k] = asked[d][k]
    BY <1>1, <1>4, <1>6, Lengths, AppendProperties
  <1>9. \A k \in 1 .. a : toApp'[d][k].type \in Answer /\ toApp'[d][k].id = asked'[d][k]
    <2>1. \A k \in 1 .. a : k \in 1 .. n
      BY <1>3
    <2> QED
      BY <1>3, <1>5, <1>8, <2>1
  <1>10. \A k \in 1 .. b : inbox'[d][k].id = asked'[d][a + k]
    <2>1. \A k \in 1 .. b : a + k \in 1 .. n
      BY <1>3
    <2> QED
      BY <1>3, <1>5, <1>8, <2>1
  <1>11. \A k \in 1 .. c + 1 : toDriver'[d][k].id = asked'[d][a + b + k]
    <2> SUFFICES ASSUME NEW k \in 1 .. c + 1 PROVE toDriver'[d][k].id = asked'[d][a + b + k]
      OBVIOUS
    <2>1. CASE k \in 1 .. c
      <3>1. a + b + k \in 1 .. n
        BY <1>3, <2>1
      <3> QED
        BY <1>3, <1>7, <1>8, <2>1, <3>1
    <2>2. CASE k = c + 1
      <3>1. a + b + k = n + 1
        BY <1>3, <2>2
      <3> QED
        BY <1>7, <1>8, <2>2, <3>1
    <2> QED
      BY <2>1, <2>2
  <1>12. n + 1 = a + b + (c + 1) /\ a <= n + 1
    BY <1>3
  <1> QED
    <2>1. Len(toApp'[d]) = a /\ Len(inbox'[d]) = b
      BY <1>1, <1>5
    <2>2. Len(toDriver'[d]) = c + 1 /\ Len(asked'[d]) = a + b + (c + 1)
      BY <1>7, <1>8, <1>12
    <2>3. /\ \A k \in 1 .. Len(toApp'[d]) : toApp'[d][k].type \in Answer
          /\ \A k \in 1 .. Len(toApp'[d]) : toApp'[d][k].id = asked'[d][k]
      BY <1>9, <2>1
    <2>4. Len(toApp'[d]) <= Len(asked'[d])
      BY <2>1, <2>2
    <2>5. /\ Len(asked'[d]) = Len(toApp'[d]) + Len(inbox'[d]) + Len(toDriver'[d])
          /\ \A k \in 1 .. Len(inbox'[d]) : inbox'[d][k].id = asked'[d][Len(toApp'[d]) + k]
          /\ \A k \in 1 .. Len(toDriver'[d]) :
                toDriver'[d][k].id = asked'[d][Len(toApp'[d]) + Len(inbox'[d]) + k]
      BY <1>10, <1>11, <2>1, <2>2
    <2> QED
      BY <2>3, <2>4, <2>5, Zenon DEF Ordered

LEMMA TellsInOrder ==
    ASSUME TypeInv, NEW d \in Drivers, Ordered(d), Tells(d)
    PROVE  Ordered(d)'
  <1>1. PICK a \in Nat, b \in Nat, c \in Nat, n \in Nat :
           a = Len(toApp[d]) /\ b = Len(inbox[d]) /\ c = Len(toDriver[d]) /\ n = Len(asked[d])
    BY Lengths
  <1>2. /\ \A k \in 1 .. a : toApp[d][k].type \in Answer /\ toApp[d][k].id = asked[d][k]
        /\ a <= n
        /\ dpc[d] \notin Ending =>
              /\ n = a + b + c
              /\ \A k \in 1 .. b : inbox[d][k].id = asked[d][a + k]
              /\ \A k \in 1 .. c : toDriver[d][k].id = asked[d][a + b + k]
    BY <1>1 DEF Ordered
  <1>3. PICK m \in 0 .. a :
           /\ Len(toApp'[d]) = a - m
           /\ \A k \in 1 .. a - m : toApp'[d][k] = toApp[d][m + k]
           /\ asked'[d] = SubSeq(asked[d], m + 1, n)
    BY <1>1 DEF Tells
  <1>4. toDriver'[d] = toDriver[d] /\ inbox'[d] = inbox[d] /\ dpc'[d] = dpc[d]
    BY DEF Tells, SameProcess
  <1>5. m \in Nat /\ m <= n
    BY <1>2, <1>3
  <1>6. Len(asked'[d]) = n - m /\ \A k \in 1 .. n - m : asked'[d][k] = asked[d][m + k]
    <2>1. PICK s : s = asked[d] /\ s \in Seq(Nat) /\ n = Len(s)
      BY <1>1, Lengths
    <2>2. /\ Len(SubSeq(s, m + 1, Len(s))) = Len(s) - m
          /\ \A k \in 1 .. Len(s) - m : SubSeq(s, m + 1, Len(s))[k] = s[m + k]
      BY <1>5, <2>1, Rest
    <2> QED
      BY <1>3, <2>1, <2>2
  <1>7. \A k \in 1 .. a - m : toApp'[d][k].type \in Answer /\ toApp'[d][k].id = asked'[d][k]
    <2>1. \A k \in 1 .. a - m : m + k \in 1 .. a /\ k \in 1 .. n - m
      BY <1>2, <1>3
    <2> QED
      BY <1>2, <1>3, <1>6, <2>1
  <1>8. ASSUME dpc[d] \notin Ending
        PROVE  /\ n - m = (a - m) + b + c
               /\ \A k \in 1 .. b : inbox[d][k].id = asked'[d][(a - m) + k]
               /\ \A k \in 1 .. c : toDriver[d][k].id = asked'[d][(a - m) + b + k]
    <2>1. n = a + b + c
      BY <1>2, <1>8
    <2>2. ASSUME NEW k \in 1 .. b PROVE inbox[d][k].id = asked'[d][(a - m) + k]
      <3>1. (a - m) + k \in 1 .. n - m /\ m + ((a - m) + k) = a + k
        BY <1>3, <2>1
      <3>2. inbox[d][k].id = asked[d][a + k]
        BY <1>2, <1>8
      <3>3. asked'[d][(a - m) + k] = asked[d][m + ((a - m) + k)]
        BY <1>6, <3>1
      <3> QED
        BY <3>1, <3>2, <3>3
    <2>3. ASSUME NEW k \in 1 .. c PROVE toDriver[d][k].id = asked'[d][(a - m) + b + k]
      <3>1. (a - m) + b + k \in 1 .. n - m /\ m + ((a - m) + b + k) = a + b + k
        BY <1>3, <2>1
      <3>2. toDriver[d][k].id = asked[d][a + b + k]
        BY <1>2, <1>8
      <3>3. asked'[d][(a - m) + b + k] = asked[d][m + ((a - m) + b + k)]
        BY <1>6, <3>1
      <3> QED
        BY <3>1, <3>2, <3>3
    <2>4. n - m = (a - m) + b + c
      BY <1>3, <2>1
    <2> QED
      BY <2>2, <2>3, <2>4
  <1>9. a - m <= n - m
    BY <1>2, <1>3
  <1> QED
    <2>1. a - m \in Nat /\ n - m \in Nat
      BY <1>3, <1>5
    <2>2. Len(inbox'[d]) = b /\ Len(toDriver'[d]) = c
      BY <1>1, <1>4
    <2>3. dpc'[d] \notin Ending =>
              /\ n - m = (a - m) + b + c
              /\ \A k \in 1 .. b : inbox'[d][k].id = asked'[d][(a - m) + k]
              /\ \A k \in 1 .. c : toDriver'[d][k].id = asked'[d][(a - m) + b + k]
      BY <1>4, <1>8
    <2>5. /\ \A k \in 1 .. Len(toApp'[d]) : toApp'[d][k].type \in Answer
          /\ Len(toApp'[d]) <= Len(asked'[d])
          /\ \A k \in 1 .. Len(toApp'[d]) : toApp'[d][k].id = asked'[d][k]
      BY <1>3, <1>6, <1>7, <1>9, <2>1
    <2>6. ASSUME dpc'[d] \notin Ending
          PROVE  /\ Len(asked'[d]) = Len(toApp'[d]) + Len(inbox'[d]) + Len(toDriver'[d])
                 /\ \A k \in 1 .. Len(inbox'[d]) : inbox'[d][k].id = asked'[d][Len(toApp'[d]) + k]
                 /\ \A k \in 1 .. Len(toDriver'[d]) :
                       toDriver'[d][k].id = asked'[d][Len(toApp'[d]) + Len(inbox'[d]) + k]
      BY <1>3, <1>6, <2>1, <2>2, <2>3, <2>6
    <2> QED
      BY <2>5, <2>6, Zenon DEF Ordered

LEMMA TakesInOrder ==
    ASSUME TypeInv, LifeInv, NEW d \in Drivers, Ordered(d), Takes(d)
    PROVE  Ordered(d)'
  <1>1. PICK a \in Nat, b \in Nat, c \in Nat, n \in Nat :
           a = Len(toApp[d]) /\ b = Len(inbox[d]) /\ c = Len(toDriver[d]) /\ n = Len(asked[d])
    BY Lengths
  <1>2. dpc[d] \notin Ending
    BY DEF Takes, Ending
  <1>3. /\ \A k \in 1 .. a : toApp[d][k].type \in Answer /\ toApp[d][k].id = asked[d][k]
        /\ n = a + b + c
        /\ \A k \in 1 .. c : toDriver[d][k].id = asked[d][a + b + k]
    BY <1>1, <1>2 DEF Ordered
  <1>4. PICK m \in 0 .. c :
           /\ Len(inbox'[d]) = m /\ \A k \in 1 .. m : inbox'[d][k] = toDriver[d][k]
           /\ Len(toDriver'[d]) = c - m
           /\ \A k \in 1 .. c - m : toDriver'[d][k] = toDriver[d][m + k]
    BY <1>1 DEF Takes
  <1>5. toApp'[d] = toApp[d] /\ asked'[d] = asked[d]
    BY DEF Takes, SameHistory
  <1>6. b = 0
    BY <1>1, EmptySeq, Lengths DEF LifeInv, Takes
  <1>7. \A k \in 1 .. m : inbox'[d][k].id = asked[d][a + k]
    <2> SUFFICES ASSUME NEW k \in 1 .. m PROVE inbox'[d][k].id = asked[d][a + k]
      OBVIOUS
    <2>1. k \in 1 .. c /\ a + b + k = a + k
      BY <1>4, <1>6
    <2>2. toDriver[d][k].id = asked[d][a + b + k]
      BY <1>3, <2>1
    <2> QED
      BY <1>4, <2>1, <2>2
  <1>8. \A k \in 1 .. c - m : toDriver'[d][k].id = asked[d][a + m + k]
    <2> SUFFICES ASSUME NEW k \in 1 .. c - m PROVE toDriver'[d][k].id = asked[d][a + m + k]
      OBVIOUS
    <2>1. m + k \in 1 .. c /\ a + b + (m + k) = a + m + k
      BY <1>4, <1>6
    <2>2. toDriver[d][m + k].id = asked[d][a + b + (m + k)]
      BY <1>3, <2>1
    <2> QED
      BY <1>4, <2>1, <2>2
  <1>9. n = a + m + (c - m) /\ a <= n
    BY <1>3, <1>4, <1>6
  <1> QED
    <2>1. m \in Nat /\ c - m \in Nat
      BY <1>4
    <2>2. Len(toApp'[d]) = a /\ Len(asked'[d]) = n
      BY <1>1, <1>5
    <2>3. /\ \A k \in 1 .. a : toApp'[d][k].type \in Answer
          /\ \A k \in 1 .. a : toApp'[d][k].id = asked'[d][k]
      BY <1>3, <1>5
    <2>4. dpc'[d] \notin Ending =>
              /\ n = a + m + (c - m)
              /\ \A k \in 1 .. m : inbox'[d][k].id = asked'[d][a + k]
              /\ \A k \in 1 .. c - m : toDriver'[d][k].id = asked'[d][a + m + k]
      BY <1>5, <1>7, <1>8, <1>9
    <2>5. /\ \A k \in 1 .. Len(toApp'[d]) : toApp'[d][k].type \in Answer
          /\ Len(toApp'[d]) <= Len(asked'[d])
          /\ \A k \in 1 .. Len(toApp'[d]) : toApp'[d][k].id = asked'[d][k]
      BY <1>9, <2>2, <2>3
    <2>6. ASSUME dpc'[d] \notin Ending
          PROVE  /\ Len(asked'[d]) = Len(toApp'[d]) + Len(inbox'[d]) + Len(toDriver'[d])
                 /\ \A k \in 1 .. Len(inbox'[d]) : inbox'[d][k].id = asked'[d][Len(toApp'[d]) + k]
                 /\ \A k \in 1 .. Len(toDriver'[d]) :
                       toDriver'[d][k].id = asked'[d][Len(toApp'[d]) + Len(inbox'[d]) + k]
      BY <1>4, <2>1, <2>2, <2>4, <2>6
    <2> QED
      BY <2>5, <2>6, Zenon DEF Ordered

LEMMA RepliesInOrder ==
    ASSUME TypeInv, NEW d \in Drivers, Ordered(d), Replies(d),
           reply[d].id = inbox[d][1].id, reply[d].type \in Answer
    PROVE  Ordered(d)'
  <1>1. PICK a \in Nat, b \in Nat, c \in Nat, n \in Nat :
           a = Len(toApp[d]) /\ b = Len(inbox[d]) /\ c = Len(toDriver[d]) /\ n = Len(asked[d])
    BY Lengths
  <1>2. dpc[d] \notin Ending
    BY DEF Replies, Ending
  <1>3. /\ \A k \in 1 .. a : toApp[d][k].type \in Answer /\ toApp[d][k].id = asked[d][k]
        /\ n = a + b + c
        /\ \A k \in 1 .. b : inbox[d][k].id = asked[d][a + k]
        /\ \A k \in 1 .. c : toDriver[d][k].id = asked[d][a + b + k]
    BY <1>1, <1>2 DEF Ordered
  <1>4. reply[d] \in ReplyType
    BY DEF TypeInv, ProcessTyped
  <1>5. /\ Len(toApp'[d]) = a + 1 /\ toApp'[d][a + 1] = reply[d]
        /\ \A k \in 1 .. a : toApp'[d][k] = toApp[d][k]
    BY <1>1, <1>4, Lengths, AppendProperties DEF Replies
  <1>6. b >= 1 /\ Len(inbox'[d]) = b - 1 /\ \A k \in 1 .. b - 1 : inbox'[d][k] = inbox[d][k + 1]
    BY <1>1, FirstInbox DEF Replies
  <1>7. toDriver'[d] = toDriver[d] /\ asked'[d] = asked[d]
    BY DEF Replies, SameHistory
  <1>8. \A k \in 1 .. a + 1 : toApp'[d][k].type \in Answer /\ toApp'[d][k].id = asked[d][k]
    <2> SUFFICES ASSUME NEW k \in 1 .. a + 1
                 PROVE  toApp'[d][k].type \in Answer /\ toApp'[d][k].id = asked[d][k]
      OBVIOUS
    <2>1. CASE k \in 1 .. a
      BY <1>3, <1>5, <2>1
    <2>2. CASE k = a + 1
      <3>1. 1 \in 1 .. b
        BY <1>6
      <3>2. inbox[d][1].id = asked[d][a + 1]
        BY <1>3, <3>1
      <3> QED
        BY <1>5, <2>2, <3>2
    <2> QED
      BY <2>1, <2>2
  <1>9. \A k \in 1 .. b - 1 : inbox'[d][k].id = asked[d][(a + 1) + k]
    <2> SUFFICES ASSUME NEW k \in 1 .. b - 1 PROVE inbox'[d][k].id = asked[d][(a + 1) + k]
      OBVIOUS
    <2>1. k + 1 \in 1 .. b /\ a + (k + 1) = (a + 1) + k
      BY <1>6
    <2>2. inbox[d][k + 1].id = asked[d][a + (k + 1)]
      BY <1>3, <2>1
    <2> QED
      BY <1>6, <2>1, <2>2
  <1>10. \A k \in 1 .. c : toDriver[d][k].id = asked[d][(a + 1) + (b - 1) + k]
    <2>1. (a + 1) + (b - 1) = a + b
      BY <1>6
    <2> QED
      BY <1>3, <2>1
  <1>11. n = (a + 1) + (b - 1) + c /\ a + 1 <= n
    BY <1>3, <1>6
  <1> QED
    <2>1. a + 1 \in Nat /\ b - 1 \in Nat
      BY <1>6
    <2>2. Len(toDriver'[d]) = c /\ Len(asked'[d]) = n
      BY <1>1, <1>7
    <2>3. \A k \in 1 .. a + 1 : toApp'[d][k].id = asked'[d][k]
      BY <1>7, <1>8
    <2>4. dpc'[d] \notin Ending =>
              /\ n = (a + 1) + (b - 1) + c
              /\ \A k \in 1 .. b - 1 : inbox'[d][k].id = asked'[d][(a + 1) + k]
              /\ \A k \in 1 .. c : toDriver'[d][k].id = asked'[d][(a + 1) + (b - 1) + k]
      BY <1>7, <1>9, <1>10, <1>11
    <2>5. /\ \A k \in 1 .. Len(toApp'[d]) : toApp'[d][k].type \in Answer
          /\ Len(toApp'[d]) <= Len(asked'[d])
          /\ \A k \in 1 .. Len(toApp'[d]) : toApp'[d][k].id = asked'[d][k]
      BY <1>5, <1>8, <1>11, <2>2, <2>3
    <2>6. ASSUME dpc'[d] \notin Ending
          PROVE  /\ Len(asked'[d]) = Len(toApp'[d]) + Len(inbox'[d]) + Len(toDriver'[d])
                 /\ \A k \in 1 .. Len(inbox'[d]) : inbox'[d][k].id = asked'[d][Len(toApp'[d]) + k]
                 /\ \A k \in 1 .. Len(toDriver'[d]) :
                       toDriver'[d][k].id = asked'[d][Len(toApp'[d]) + Len(inbox'[d]) + k]
      BY <1>5, <1>6, <2>1, <2>2, <2>4, <2>6
    <2> QED
      BY <2>5, <2>6, Zenon DEF Ordered

LEMMA AnswerStep ==
    ASSUME TypeInv, TypeInv', LifeInv, TableInv, NEW d \in Drivers, AnswerInv(d), Effect(d)
    PROVE  AnswerInv(d)'
  <1> DEFINE Hears == ~Connected(d) \/ appEnd[d] = "closed" => OnlyHello(d)
             Idle == ~Connected(d) /\ appEnd[d] # "closed" =>
                        inbox[d] = <<>> /\ toDriver[d] = <<>> /\ asked[d] = <<>>
             Talks == Connected(d) /\ appEnd[d] # "closed" => Ordered(d)
             Replied == dpc[d] = "reply" => reply[d].id = inbox[d][1].id /\ reply[d].type \in Answer
  <1>1. Hears /\ Idle /\ Talks /\ Replied
    BY DEF AnswerInv
  <1>2. SUFFICES Hears' /\ Idle' /\ Talks' /\ Replied'
    BY DEF AnswerInv
  <1>3. toApp'[d] = <<>> => OnlyHello(d)'
    BY DEF OnlyHello
  <1>4. toApp'[d] = toApp[d] /\ OnlyHello(d) => OnlyHello(d)'
    BY DEF OnlyHello
  <1>5. SameProcess(d) => Replied'
    BY <1>1 DEF SameProcess
  <1>6. /\ toApp'[d] = toApp[d] /\ inbox'[d] = inbox[d] /\ toDriver'[d] = toDriver[d]
        /\ asked'[d] = asked[d] /\ (dpc'[d] \notin Ending => dpc[d] \notin Ending) /\ Ordered(d)
        => Ordered(d)'
    BY DEF Ordered
  <1>7. CASE Still(d)
    BY <1>1, <1>4, <1>5, <1>6, <1>7
       DEF Still, SameProcess, SameBuffers, SameEnd, SameHistory, SameTables, SameEntry
  <1>8. CASE Exits(d)
    <2>1. Ordered(d) => Ordered(d)'
      <3>1. CASE toApp'[d] = toApp[d]
        BY <1>8, <3>1 DEF Exits, Ends, SameHistory, Ordered, Ending
      <3>2. CASE toApp'[d] = <<>>
        <4>1. Len(toApp'[d]) = 0 /\ Len(asked'[d]) \in Nat
          BY <1>8, <3>2, Lengths DEF Exits, SameHistory
        <4> QED
          BY <1>8, <4>1 DEF Exits, Ends, Ordered, Ending
      <3> QED
        BY <1>8, <3>1, <3>2 DEF Exits, Ends
    <2> QED
      BY <1>1, <1>3, <1>4, <1>8, <2>1
         DEF Exits, Ends, SameEnd, SameHistory, SameTables, SameEntry
  <1>9. CASE Passes(d)
    BY <1>1, <1>4, <1>6, <1>9
       DEF Passes, SameRest, SameBuffers, SameEnd, SameHistory, SameTables, SameEntry, Ending
  <1>10. CASE Forgotten(d)
    BY <1>1, <1>3, <1>4, <1>10 DEF Forgotten, Shuts, SameRest, SameBuffers, SameEnd
  <1>11. CASE Closed(d)
    <2>1. appEnd'[d] = "closed" /\ toApp'[d] = <<>>
      BY <1>11 DEF Closed, Shuts
    <2>2. Replied'
      BY <1>5, <1>11 DEF Closed
    <2> QED
      BY <1>3, <2>1, <2>2
  <1>12. CASE Advances(d)
    <2>1. ~Connected(d) /\ appEnd[d] # "closed" /\ ~Connected(d)'
      BY <1>12 DEF Advances, SameEntry, TableInv
    <2>2. Replied'
      BY <1>5, <1>12 DEF Advances
    <2>3. OnlyHello(d)'
      BY <1>1, <1>4, <1>12, <2>1 DEF Advances, SameBuffers
    <2>4. inbox'[d] = <<>> /\ toDriver'[d] = <<>> /\ asked'[d] = <<>>
      BY <1>1, <1>12, <2>1 DEF Advances, SameProcess, SameBuffers, SameHistory
    <2> QED
      BY <2>1, <2>2, <2>3, <2>4
  <1>13. CASE Starts(d) \/ Restores(d) \/ Connects(d)
    <2>1. appEnd[d] = "none" /\ dpc[d] \in Early
      BY <1>13 DEF Starts, Restores, Connects, LifeInv, Early
    <2>2. ~Connected(d) /\ ~Connected(d)'
      BY <1>13, <2>1 DEF Starts, Restores, Connects, TableInv, SameTables, SameEntry
    <2>3. appEnd'[d] # "closed" /\ dpc'[d] # "reply"
      BY <1>13, <2>1 DEF Starts, Restores, Connects, SameEnd
    <2>4. OnlyHello(d)'
      BY <1>1, <1>4, <1>13, <2>2 DEF Starts, Restores, Connects, SameBuffers
    <2>5. inbox'[d] = <<>> /\ toDriver'[d] = <<>> /\ asked'[d] = <<>>
      BY <1>1, <1>13, <2>1, <2>2 DEF Starts, Restores, Connects, SameRest, SameBuffers, SameHistory
    <2> QED
      BY <2>2, <2>3, <2>4, <2>5
  <1>14. CASE Greets(d)
    <2>1. ~Connected(d) /\ toApp[d] = <<>>
      BY <1>14 DEF Greets, TableInv, Early, TypeInv, SocketsTyped
    <2>2. toApp'[d] = <<Hello>> /\ Hello.type = "hello"
      BY <1>14, <2>1 DEF Greets, Hello, NoReply
    <2>3. OnlyHello(d)'
      BY <2>2 DEF OnlyHello
    <2> QED
      BY <1>1, <1>14, <2>1, <2>3 DEF Greets, SameRest, SameEnd, SameHistory, SameTables, SameEntry
  <1>15. CASE Joins(d)
    <2>1. /\ inbox[d] = <<>> /\ toDriver[d] = <<>> /\ asked[d] = <<>> /\ Len(toApp[d]) = 1
      BY <1>1, <1>15 DEF Joins, OnlyHello
    <2>2. Len(toApp'[d]) = 0 /\ Len(inbox'[d]) = 0 /\ Len(toDriver'[d]) = 0 /\ Len(asked'[d]) = 0
      BY <1>15, <2>1 DEF Joins, SameProcess, SameHistory
    <2>3. Ordered(d)'
      BY <2>2 DEF Ordered
    <2> QED
      BY <1>5, <1>15, <2>3 DEF Joins, SameEnd
  <1>16. CASE Gets(d)
    BY <1>1, <1>5, <1>16, GetsInOrder DEF Gets, SameEnd, SameTables, SameEntry
  <1>17. CASE Tells(d)
    BY <1>1, <1>5, <1>17, TellsInOrder DEF Tells, SameEnd, SameTables, SameEntry
  <1>18. CASE Takes(d)
    <2>1. (Connected(d)' <=> Connected(d)) /\ appEnd'[d] = appEnd[d] /\ toApp'[d] = toApp[d]
      BY <1>18 DEF Takes, SameEnd, SameTables, SameEntry
    <2>2. ASSUME ~Connected(d), appEnd[d] # "closed"
          PROVE  inbox'[d] = <<>> /\ toDriver'[d] = <<>> /\ asked'[d] = <<>>
      <3>1. toDriver[d] = <<>> /\ asked[d] = <<>>
        BY <1>1, <2>2
      <3>2. Len(toDriver[d]) = 0
        BY <3>1
      <3>3. Len(inbox'[d]) = 0 /\ Len(toDriver'[d]) = 0
        BY <1>18, <3>2 DEF Takes
      <3>4. inbox'[d] \in Seq(RequestType) /\ toDriver'[d] \in Seq(RequestType)
        BY LengthsNext
      <3>5. inbox'[d] = <<>> /\ toDriver'[d] = <<>>
        BY <3>3, <3>4, EmptySeq
      <3> QED
        BY <1>18, <3>1, <3>5 DEF Takes, SameHistory
    <2> QED
      BY <1>1, <1>4, <1>18, <2>1, <2>2, TakesInOrder DEF Takes
  <1>19. CASE Decides(d)
    <2>1. dpc[d] = "handle" /\ dpc'[d] = "reply" /\ inbox'[d] = inbox[d]
      BY <1>19 DEF Decides
    <2>2. Replied'
      <3>1. Head(inbox[d]) = inbox[d][1]
        BY <2>1, FirstInbox
      <3>2. PICK type \in Answer : reply'[d] = Response(Head(inbox[d]), type, reply'[d].timer)
        BY <1>19 DEF Decides
      <3>3. reply'[d].id = Head(inbox[d]).id /\ reply'[d].type = type
        BY <3>2 DEF Response
      <3> QED
        BY <2>1, <3>1, <3>3
    <2> QED
      BY <1>1, <1>4, <1>6, <1>19, <2>1, <2>2
         DEF Decides, SameBuffers, SameEnd, SameHistory, SameTables, SameEntry, Ending
  <1>20. CASE Replies(d)
    <2>1. dpc[d] = "reply" /\ appEnd[d] = "open" /\ dpc'[d] # "reply"
      BY <1>20 DEF Replies
    <2>2. inbox[d] # <<>>
      BY <2>1 DEF TypeInv, ProcessTyped
    <2>3. Connected(d) /\ Ordered(d)
      BY <1>1, <2>1, <2>2
    <2>4. Ordered(d)'
      BY <1>1, <1>20, <2>1, <2>3, RepliesInOrder
    <2> QED
      BY <1>20, <2>1, <2>3, <2>4 DEF Replies, SameEnd, SameTables, SameEntry
  <1> QED
    BY <1>7, <1>8, <1>9, <1>10, <1>11, <1>12, <1>13, <1>14, <1>15, <1>16, <1>17, <1>18, <1>19,
       <1>20 DEF Effect, Handled

-----------------------------------------------------------------------------
(* Tasks and what the responses tell of them.                              *)

\* A task is kept in mind until it is over.
Kept(end, deadlineOf, time) == deadlineOf = end \/ (deadlineOf = 0 /\ end <= time)
ToldRight(before, responses) ==
    \A k \in 1 .. Len(responses) :
       responses[k].type # "hello" => Right(responses[k], LastEnd(before, responses, k - 1))
LastTold(before, responses) == LastEnd(before, responses, Len(responses))
Meant(response, end) == IF response.type = "accepted" THEN EndOfTask(response) ELSE end

LEMMA TaskNow ==
    ASSUME NEW d \in Drivers
    PROVE  TaskInv(d) <=>
              /\ ToldRight(told[d], toApp[d])
              /\ dpc[d] \in Early => deadline[d] = 0 /\ told[d] = 0
              /\ dpc[d] \in {"select", "handle"} /\ appEnd[d] # "closed" =>
                    Kept(LastTold(told[d], toApp[d]), deadline[d], now)
              /\ dpc[d] = "reply" /\ appEnd[d] # "closed" =>
                    /\ Right(reply[d], LastTold(told[d], toApp[d]))
                    /\ Kept(Meant(reply[d], LastTold(told[d], toApp[d])), deadline[d], now)
  BY DEF TaskInv, ToldRight, LastTold, Kept, Keeps, KnownEnd, Meant

LEMMA TaskNext ==
    ASSUME NEW d \in Drivers,
           ToldRight(told'[d], toApp'[d]),
           dpc'[d] \in Early => deadline'[d] = 0 /\ told'[d] = 0,
           dpc'[d] \in {"select", "handle"} /\ appEnd'[d] # "closed" =>
              Kept(LastTold(told'[d], toApp'[d]), deadline'[d], now'),
           dpc'[d] = "reply" /\ appEnd'[d] # "closed" =>
              /\ Right(reply'[d], LastTold(told'[d], toApp'[d]))
              /\ Kept(Meant(reply'[d], LastTold(told'[d], toApp'[d])), deadline'[d], now')
    PROVE  TaskInv(d)'
  BY DEF TaskInv, ToldRight, LastTold, Kept, Keeps, KnownEnd, Meant

LEMMA TimesKnown ==
    ASSUME TaxiAssumption, TypeInv, NEW d \in Drivers
    PROVE  /\ now \in Nat /\ deadline[d] \in Nat /\ told[d] \in Nat /\ reply[d] \in ReplyType
           /\ LastTold(told[d], toApp[d]) \in Nat
           /\ Meant(reply[d], LastTold(told[d], toApp[d])) \in Nat
  <1>1. /\ told[d] \in Nat /\ toApp[d] \in Seq(ReplyType) /\ reply[d] \in ReplyType
        /\ Len(toApp[d]) \in Nat /\ now \in Nat /\ deadline[d] \in Nat
    BY Lengths DEF TypeInv, HistoryTyped, ProcessTyped, OutsideTyped, TaxiAssumption
  <1>2. LastTold(told[d], toApp[d]) \in Nat
    <2>1. PICK n \in Nat : n = Len(toApp[d])
      BY <1>1
    <2>2. n <= Len(toApp[d])
      BY <2>1
    <2>3. LastEnd(told[d], toApp[d], n) \in Nat
      BY <1>1, <2>2, LastEndIsTime
    <2> QED
      BY <2>1, <2>3 DEF LastTold
  <1>3. EndOfTask(reply[d]) \in Nat
    BY <1>1, EndIsTime
  <1> QED
    BY <1>1, <1>2, <1>3 DEF Meant

LEMMA TaskPasses ==
    ASSUME NEW end \in Nat, NEW n \in Nat, NEW t \in Nat, NEW u \in Nat, t <= u, Kept(end, n, t)
    PROVE  Kept(end, n, u)
  BY DEF Kept

\* A response more, after the others.
LEMMA ResponseAdded ==
    ASSUME NEW before, NEW s \in Seq(ReplyType), NEW response \in ReplyType, ToldRight(before, s),
           response.type # "hello" => Right(response, LastTold(before, s))
    PROVE  /\ ToldRight(before, Append(s, response))
           /\ LastTold(before, Append(s, response)) = Meant(response, LastTold(before, s))
  <1>1. PICK a \in Nat : a = Len(s)
    BY LenProperties
  <1>2. PICK t : t = Append(s, response)
    OBVIOUS
  <1>3. Len(t) = a + 1 /\ t[a + 1] = response /\ \A k \in 1 .. a : t[k] = s[k]
    BY <1>1, <1>2, AppendProperties
  <1>4. ASSUME NEW k \in 0 .. a PROVE LastEnd(before, t, k) = LastEnd(before, s, k)
    <2>1. k \in Nat /\ \A j \in 1 .. k : t[j] = s[j]
      BY <1>3
    <2> QED
      BY <2>1, LastEndSame
  <1>5. ASSUME NEW k \in 1 .. a + 1, t[k].type # "hello" PROVE Right(t[k], LastEnd(before, t, k - 1))
    <2>1. k - 1 \in 0 .. a
      OBVIOUS
    <2>2. LastEnd(before, t, k - 1) = LastEnd(before, s, k - 1)
      BY <1>4, <2>1
    <2>3. CASE k \in 1 .. a
      <3>1. t[k] = s[k]
        BY <1>3, <2>3
      <3> QED
        BY <1>1, <1>5, <2>2, <2>3, <3>1 DEF ToldRight
    <2>4. CASE k = a + 1
      <3>1. t[k] = response /\ k - 1 = a
        BY <1>3, <2>4
      <3> QED
        BY <1>1, <1>5, <2>2, <3>1 DEF LastTold
    <2> QED
      BY <2>3, <2>4
  <1>6. LastEnd(before, t, a + 1) =
           IF response.type = "accepted" THEN EndOfTask(response) ELSE LastEnd(before, s, a)
    <2>1. a \in 0 .. a
      OBVIOUS
    <2> QED
      BY <1>3, <1>4, <2>1, LastEndNext
  <1>7. ToldRight(before, t)
    BY <1>3, <1>5 DEF ToldRight
  <1>8. LastTold(before, t) = Meant(response, LastTold(before, s))
    BY <1>1, <1>3, <1>6 DEF LastTold, Meant
  <1> QED
    BY <1>2, <1>7, <1>8

\* What LastEndShift says of two lists, as one formula.
EndsShift(before, s, t, m) ==
    \A n \in Nat : (\A k \in 1 .. n : t[k] = s[m + k]) =>
       LastEnd(LastEnd(before, s, m), t, n) = LastEnd(before, s, m + n)

LEMMA EndsDoShift == ASSUME NEW before, NEW s, NEW t, NEW m \in Nat PROVE EndsShift(before, s, t, m)
  BY LastEndShift DEF EndsShift

\* The first m responses are printed.
LEMMA ResponsesPrinted ==
    ASSUME NEW before, NEW s, NEW t, NEW a \in Nat, NEW m \in Nat, m <= a, Len(s) = a, Len(t) = a - m,
           \A k \in 1 .. a - m : t[k] = s[m + k], ToldRight(before, s)
    PROVE  /\ ToldRight(LastEnd(before, s, m), t)
           /\ LastTold(LastEnd(before, s, m), t) = LastTold(before, s)
  <1>1. ASSUME NEW k \in Nat, k <= a - m
        PROVE  LastEnd(LastEnd(before, s, m), t, k) = LastEnd(before, s, m + k)
    <2>1. \A j \in 1 .. k : j \in 1 .. a - m
      BY <1>1
    <2>2. \A j \in 1 .. k : t[j] = s[m + j]
      BY <2>1
    <2>3. EndsShift(before, s, t, m)
      BY EndsDoShift
    <2> QED
      BY <2>2, <2>3 DEF EndsShift
  <1>2. ASSUME NEW k \in 1 .. a - m, t[k].type # "hello"
        PROVE  Right(t[k], LastEnd(LastEnd(before, s, m), t, k - 1))
    <2>1. m + k \in 1 .. a /\ k - 1 \in Nat /\ k - 1 <= a - m /\ m + (k - 1) = (m + k) - 1
      OBVIOUS
    <2>2. t[k] = s[m + k]
      OBVIOUS
    <2>3. Right(s[m + k], LastEnd(before, s, (m + k) - 1))
      BY <1>2, <2>1, <2>2 DEF ToldRight
    <2>4. LastEnd(LastEnd(before, s, m), t, k - 1) = LastEnd(before, s, m + (k - 1))
      BY <1>1, <2>1
    <2> QED
      BY <2>1, <2>2, <2>3, <2>4
  <1>3. a - m \in Nat /\ a - m <= a - m /\ m + (a - m) = a
    OBVIOUS
  <1>4. LastEnd(LastEnd(before, s, m), t, a - m) = LastEnd(before, s, a)
    BY <1>1, <1>3
  <1> QED
    BY <1>2, <1>4 DEF ToldRight, LastTold

\* A driver comes to an answer that is true of its last task.
LEMMA RightAnswer ==
    ASSUME TaxiAssumption, TypeInv, TypeInv', NEW d \in Drivers, Decides(d), now' = now,
           NEW end \in Nat, Kept(end, deadline[d], now)
    PROVE  Right(reply'[d], end) /\ Kept(Meant(reply'[d], end), deadline'[d], now')
  <1>1. PICK type \in Answer :
           /\ reply'[d] = Response(Head(inbox[d]), type, reply'[d].timer)
           /\ Answers(d, type, reply'[d].timer, deadline'[d])
    BY DEF Decides
  <1>2. PICK r \in ReplyType : r = reply'[d]
    BY DEF TypeInv, ProcessTyped
  <1>3. r.type = type /\ r.at = now /\ r.timer = reply'[d].timer
    BY <1>1, <1>2 DEF Response
  <1>4. PICK t \in Nat, old \in Nat, new \in Nat : t = now /\ old = deadline[d] /\ new = deadline'[d]
    BY TimesKnown DEF TypeInv, ProcessTyped
  <1>5. old = end \/ (old = 0 /\ end <= t)
    BY <1>4 DEF Kept
  <1>6. CASE type = "busy"
    <2>1. ~(t >= old) /\ r.timer = Remaining(old - t) /\ new = old
      BY <1>1, <1>3, <1>4, <1>6 DEF Answers, NoTask
    <2>2. old = end /\ end - t \in Nat /\ end - t > 0
      BY <1>5, <2>1
    <2>3. /\ Remaining(end - t) \in Nat
          /\ (Remaining(end - t) - 1) * Second < end - t /\ end - t <= Remaining(end - t) * Second
      BY <2>2, RoundedUp
    <2>4. Right(r, end)
      BY <1>3, <1>4, <1>6, <2>1, <2>2, <2>3 DEF Right
    <2>5. Meant(r, end) = end /\ new = end
      BY <1>3, <1>6, <2>1, <2>2 DEF Meant
    <2> QED
      BY <1>2, <1>4, <2>4, <2>5 DEF Kept
  <1>7. CASE type # "busy"
    <2>1. t >= old
      BY <1>1, <1>4, <1>7 DEF Answers, NoTask
    <2>2. end <= t /\ ~(end - t > 0)
      BY <1>5, <2>1
    <2>3. r.type \in {"accepted", "available"}
      BY <1>3, <1>7 DEF Answer
    <2>4. Right(r, end)
      BY <1>3, <1>4, <2>2, <2>3 DEF Right
    <2>5. CASE type = "available"
      <3>1. new = 0 /\ Meant(r, end) = end
        BY <1>1, <1>3, <1>4, <2>5 DEF Answers, Meant
      <3> QED
        BY <1>2, <1>4, <2>2, <2>4, <3>1 DEF Kept
    <2>6. CASE type = "accepted"
      <3>1. new = Meant(r, end)
        BY <1>1, <1>3, <1>4, <2>6 DEF Answers, Meant, EndOfTask
      <3> QED
        BY <1>2, <1>4, <2>4, <3>1 DEF Kept
    <2> QED
      BY <1>3, <2>3, <2>5, <2>6
  <1> QED
    BY <1>6, <1>7

\* Nothing is told, and nothing is lost.
LEMMA TaskSame ==
    ASSUME TaxiAssumption, TypeInv, TypeInv', NEW d \in Drivers, TaskInv(d), now' >= now,
           toApp'[d] = toApp[d], told'[d] = told[d], deadline'[d] = deadline[d],
           reply'[d] = reply[d],
           dpc'[d] \in Early => dpc[d] \in Early,
           dpc'[d] \in {"select", "handle"} /\ appEnd'[d] # "closed" =>
              dpc[d] \in {"select", "handle"} /\ appEnd[d] # "closed",
           dpc'[d] = "reply" /\ appEnd'[d] # "closed" => dpc[d] = "reply" /\ appEnd[d] # "closed"
    PROVE  TaskInv(d)'
  <1>1. PICK end \in Nat : end = LastTold(told[d], toApp[d])
    BY TimesKnown
  <1>2. PICK later \in Nat : later = Meant(reply[d], LastTold(told[d], toApp[d]))
    BY TimesKnown
  <1>3. PICK t \in Nat, u \in Nat, n \in Nat : t = now /\ u = now' /\ n = deadline[d]
    BY TimesKnown DEF TypeInv, OutsideTyped, TaxiAssumption
  <1>4. /\ ToldRight(told'[d], toApp'[d])
        /\ dpc'[d] \in Early => deadline'[d] = 0 /\ told'[d] = 0
    BY TaskNow
  <1>5. ASSUME dpc'[d] \in {"select", "handle"}, appEnd'[d] # "closed"
        PROVE  Kept(LastTold(told'[d], toApp'[d]), deadline'[d], now')
    <2>1. Kept(end, n, t)
      BY <1>1, <1>3, <1>5, TaskNow
    <2>2. Kept(end, n, u)
      BY <1>3, <2>1, TaskPasses
    <2> QED
      BY <1>1, <1>3, <2>2
  <1>6. ASSUME dpc'[d] = "reply", appEnd'[d] # "closed"
        PROVE  /\ Right(reply'[d], LastTold(told'[d], toApp'[d]))
               /\ Kept(Meant(reply'[d], LastTold(told'[d], toApp'[d])), deadline'[d], now')
    <2>1. Right(reply[d], LastTold(told[d], toApp[d])) /\ Kept(later, n, t)
      BY <1>2, <1>3, <1>6, TaskNow
    <2>2. Kept(later, n, u)
      BY <1>3, <2>1, TaskPasses
    <2> QED
      BY <1>2, <1>3, <2>1, <2>2
  <1> QED
    BY <1>4, <1>5, <1>6, TaskNext

\* Nothing on the connection tells anything.
LEMMA ToldNothing ==
    ASSUME NEW before, NEW s, Len(s) = 0
    PROVE  ToldRight(before, s) /\ LastTold(before, s) = before
  <1>1. LastEnd(before, s, 0) = before
    BY LastEndKnown
  <1> QED
    BY <1>1 DEF ToldRight, LastTold

LEMMA ToldHello ==
    ASSUME NEW before, NEW s, Len(s) = 1, s[1].type = "hello"
    PROVE  ToldRight(before, s) /\ LastTold(before, s) = before
  <1>1. LastEnd(before, s, 1) = before
    BY LastEndKnown
  <1> QED
    BY <1>1 DEF ToldRight, LastTold

LEMMA TaskStep ==
    ASSUME TaxiAssumption, TypeInv, TypeInv', LifeInv, TableInv, NEW d \in Drivers,
           AnswerInv(d), TaskInv(d), Effect(d)
    PROVE  TaskInv(d)'
  <1>1. CASE Still(d)
    BY <1>1, TaskSame DEF Still, SameProcess, SameBuffers, SameEnd, SameHistory
  <1>2. ASSUME Handled(d), now' = now PROVE TaskInv(d)'
    <2> USE <1>2
    <2>1. now' >= now
      BY TimesKnown
    <2>2. ToldRight(told[d], toApp[d])
      BY TaskNow
    <2>3. toApp'[d] = <<>> => ToldRight(told'[d], toApp'[d])
      <3>1. toApp'[d] = <<>> => Len(toApp'[d]) = 0
        OBVIOUS
      <3> QED
        BY <3>1, ToldNothing
    <2>4. ASSUME dpc'[d] \in Ending, ToldRight(told'[d], toApp'[d]) PROVE TaskInv(d)'
      <3>1. dpc'[d] \notin Early \cup {"select", "handle", "reply"}
        BY <2>4 DEF Ending, Early
      <3> QED
        BY <2>4, <3>1, TaskNext
    <2>5. CASE Exits(d) \/ Passes(d) \/ Forgotten(d)
      <3>1. dpc'[d] \in Ending /\ told'[d] = told[d] /\ toApp'[d] \in {toApp[d], <<>>}
        BY <2>5 DEF Exits, Ends, Passes, Forgotten, Shuts, SameHistory, SameBuffers, Ending
      <3> QED
        BY <2>2, <2>3, <2>4, <3>1
    <2>6. CASE Closed(d)
      <3>1. appEnd'[d] = "closed" /\ toApp'[d] = <<>> /\ told'[d] = told[d]
            /\ dpc'[d] = dpc[d] /\ deadline'[d] = deadline[d]
        BY <2>6 DEF Closed, Shuts, SameProcess, SameHistory
      <3>2. dpc[d] \in Early => deadline[d] = 0 /\ told[d] = 0
        BY TaskNow
      <3> QED
        BY <2>3, <3>1, <3>2, TaskNext
    <2>7. CASE Advances(d)
      BY <2>1, <2>7, TaskSame DEF Advances, SameProcess, SameBuffers, SameHistory
    <2>8. CASE Starts(d) \/ Restores(d) \/ Connects(d)
      <3>1. dpc[d] \in Early /\ dpc'[d] \in Early \ {"select", "handle", "reply"}
        BY <2>8 DEF Starts, Restores, Connects, Early
      <3> QED
        BY <2>1, <2>8, <3>1, TaskSame
           DEF Starts, Restores, Connects, SameRest, SameBuffers, SameHistory
    <2>9. CASE Greets(d)
      <3>1. dpc[d] = "hello" /\ dpc'[d] = "select" /\ deadline'[d] = deadline[d] /\ told'[d] = told[d]
        BY <2>9 DEF Greets, SameRest, SameHistory
      <3>2. toApp[d] = <<>> /\ deadline[d] = 0 /\ told[d] = 0
        BY <3>1, TaskNow DEF Early, TypeInv, SocketsTyped
      <3>3. PICK s : s = toApp'[d]
        OBVIOUS
      <3>4. Len(s) = 1 /\ s[1].type = "hello"
        <4>1. toApp'[d] = Append(toApp[d], Hello)
          BY <2>9 DEF Greets
        <4>2. Hello \in ReplyType /\ Hello.type = "hello"
          BY TaxiAssumption DEF Hello, NoReply, ReplyType, TaxiAssumption
        <4>3. Len(toApp[d]) = 0 /\ toApp[d] \in Seq(ReplyType)
          BY <3>2, Lengths
        <4>4. Len(s) = 0 + 1 /\ s[0 + 1] = Hello
          BY <3>3, <4>1, <4>2, <4>3, AppendProperties
        <4> QED
          BY <4>2, <4>4
      <3>5. ToldRight(told[d], s) /\ LastTold(told[d], s) = told[d]
        BY <3>4, ToldHello
      <3>6. dpc'[d] \notin Early /\ Kept(LastTold(told'[d], toApp'[d]), deadline'[d], now')
        BY <3>1, <3>2, <3>3, <3>5 DEF Kept, Early
      <3> QED
        BY <3>1, <3>3, <3>5, <3>6, TaskNext
    <2>10. CASE Joins(d)
      <3>1. /\ dpc'[d] = dpc[d] /\ appEnd'[d] = appEnd[d] /\ deadline'[d] = deadline[d]
            /\ told'[d] = told[d] /\ reply'[d] = reply[d]
        BY <2>10 DEF Joins, SameProcess, SameEnd, SameHistory
      <3>2. Len(toApp[d]) = 1 /\ toApp[d][1].type = "hello"
        BY <2>10 DEF Joins, AnswerInv, OnlyHello
      <3>3. Len(toApp'[d]) = 0
        BY <2>10, <3>2 DEF Joins
      <3>4. LastTold(told[d], toApp[d]) = told[d]
        BY <3>2, ToldHello
      <3>5. PICK s : s = toApp'[d] /\ Len(s) = 0
        BY <3>3
      <3>6. ToldRight(told[d], s) /\ LastTold(told[d], s) = told[d]
        BY <3>5, ToldNothing
      <3> QED
        BY <3>1, <3>4, <3>5, <3>6, TaskNow, TaskNext
    <2>11. CASE Gets(d)
      BY <2>1, <2>11, TaskSame DEF Gets, SameProcess, SameEnd
    <2>12. CASE Tells(d)
      <3>1. dpc'[d] = dpc[d] /\ appEnd'[d] = appEnd[d] /\ deadline'[d] = deadline[d]
            /\ reply'[d] = reply[d]
        BY <2>12 DEF Tells, SameProcess, SameEnd
      <3>2. dpc[d] \notin Early
        BY <2>12 DEF Tells, TableInv
      <3>3. PICK a \in Nat : a = Len(toApp[d])
        BY Lengths
      <3>4. PICK m \in 0 .. a :
               /\ Len(toApp'[d]) = a - m
               /\ \A k \in 1 .. a - m : toApp'[d][k] = toApp[d][m + k]
               /\ told'[d] = LastEnd(told[d], toApp[d], m)
        BY <2>12, <3>3 DEF Tells
      <3>5. PICK s, t, before : s = toApp[d] /\ t = toApp'[d] /\ before = told[d]
        OBVIOUS
      <3>6. /\ Len(s) = a /\ Len(t) = a - m /\ ToldRight(before, s)
            /\ \A k \in 1 .. a - m : t[k] = s[m + k]
        <4>1. Len(s) = a /\ Len(t) = a - m
          BY <3>3, <3>4, <3>5
        <4>2. ToldRight(before, s)
          BY <2>2, <3>5
        <4>3. \A k \in 1 .. a - m : t[k] = s[m + k]
          BY <3>4, <3>5
        <4> QED
          BY <4>1, <4>2, <4>3
      <3>7. /\ ToldRight(LastEnd(before, s, m), t)
            /\ LastTold(LastEnd(before, s, m), t) = LastTold(before, s)
        <4>1. m \in Nat /\ m <= a
          BY <3>4
        <4> QED
          BY <3>6, <4>1, ResponsesPrinted
      <3>8. ToldRight(told'[d], toApp'[d]) /\ LastTold(told'[d], toApp'[d]) = LastTold(told[d], toApp[d])
        BY <3>4, <3>5, <3>7
      <3> QED
        BY <3>1, <3>2, <3>8, TaskNow, TaskNext
    <2>13. CASE Takes(d)
      BY <2>1, <2>13, TaskSame DEF Takes, SameEnd, SameHistory, Early
    <2>14. CASE Decides(d)
      <3>1. /\ dpc[d] = "handle" /\ dpc'[d] = "reply" /\ appEnd'[d] = appEnd[d]
            /\ told'[d] = told[d] /\ toApp'[d] = toApp[d]
        BY <2>14 DEF Decides, SameBuffers, SameEnd, SameHistory
      <3>2. PICK end \in Nat : end = LastTold(told[d], toApp[d])
        BY TimesKnown
      <3>3. ASSUME appEnd[d] # "closed"
            PROVE  Right(reply'[d], end) /\ Kept(Meant(reply'[d], end), deadline'[d], now')
        <4>1. Kept(end, deadline[d], now)
          BY <3>1, <3>2, <3>3, TaskNow
        <4> QED
          BY <2>14, <4>1, RightAnswer
      <3>4. dpc'[d] \notin Early \cup {"select", "handle"}
        BY <3>1 DEF Early
      <3> QED
        BY <2>2, <3>1, <3>2, <3>3, <3>4, TaskNext
    <2>15. CASE Replies(d)
      <3>1. /\ dpc[d] = "reply" /\ dpc'[d] \in {"select", "handle"} /\ appEnd[d] = "open"
            /\ told'[d] = told[d] /\ toApp'[d] = Append(toApp[d], reply[d])
            /\ deadline'[d] = deadline[d]
        BY <2>15 DEF Replies, SameHistory
      <3>2. PICK s \in Seq(ReplyType), response \in ReplyType : s = toApp[d] /\ response = reply[d]
        BY Lengths, TimesKnown
      <3>3. Right(response, LastTold(told[d], s)) /\ Kept(Meant(response, LastTold(told[d], s)), deadline[d], now)
        BY <3>1, <3>2, TaskNow
      <3>4. /\ ToldRight(told[d], Append(s, response))
            /\ LastTold(told[d], Append(s, response)) = Meant(response, LastTold(told[d], s))
        BY <2>2, <3>2, <3>3, ResponseAdded
      <3>5. dpc'[d] \notin Early \cup {"reply"}
        BY <3>1 DEF Early
      <3> QED
        BY <3>1, <3>2, <3>3, <3>4, <3>5, TaskNext
    <2> QED
      BY <2>5, <2>6, <2>7, <2>8, <2>9, <2>10, <2>11, <2>12, <2>13, <2>14, <2>15 DEF Handled
  <1> QED
    BY <1>1, <1>2 DEF Effect

-----------------------------------------------------------------------------
(* The invariant holds.                                                    *)

LEMMA AllStart == ASSUME TaxiAssumption, Init PROVE IInv
  <1>1. TypeInv /\ IndexInv
    BY TypeStart
  <1>2. /\ drivers = <<>> /\ pending = <<>> /\ outbox = <<>> /\ apc = "drain" /\ now = 0
        /\ Len(drivers) = 0 /\ Len(pending) = 0 /\ Len(outbox) = 0
    BY DEF Init
  <1>3. \A d \in Drivers :
           /\ dpc[d] = "none" /\ appEnd[d] = "none" /\ driverEnd[d] = "none"
           /\ inbox[d] = <<>> /\ toApp[d] = <<>> /\ toDriver[d] = <<>> /\ asked[d] = <<>>
           /\ deadline[d] = 0 /\ told[d] = 0
    BY DEF Init
  <1>4. \A d \in Drivers : ~Listed(d) /\ ~Connected(d) /\ ~Waits(d)
    BY <1>2 DEF Listed, Connected, Waits
  <1>5. LifeInv
    BY <1>3 DEF LifeInv, Serves, Ending
  <1>6. PlaceInv
    BY <1>2 DEF PlaceInv, SendsToConnected
  <1>7. TableInv
    <2>1. UniquePids /\ UniqueFds
      BY <1>2 DEF UniquePids, UniqueFds
    <2> QED
      BY <1>3, <1>4, <2>1 DEF TableInv, RunningDriversListed
  <1>8. EndInv
    BY <1>2 DEF EndInv, NobodyLeftBehind
  <1>9. ASSUME NEW d \in Drivers PROVE AnswerInv(d)
    BY <1>3, <1>4 DEF AnswerInv, OnlyHello
  <1>10. ASSUME NEW d \in Drivers PROVE TaskInv(d)
    <2>1. Len(toApp[d]) = 0
      BY <1>3
    <2>2. ToldRight(told[d], toApp[d])
      BY <2>1, ToldNothing
    <2> QED
      BY <1>3, <2>2, TaskNow
  <1> QED
    BY <1>1, <1>5, <1>6, <1>7, <1>8, <1>9, <1>10 DEF IInv

LEMMA AllStep == ASSUME TaxiAssumption, IInv, [Next]_vars PROVE IInv'
  <1>1. TypeInv /\ IndexInv /\ LifeInv /\ PlaceInv /\ TableInv /\ EndInv
    BY DEF IInv
  <1>2. TypeInv' /\ IndexInv'
    BY <1>1, TypeStep, IndexStep
  <1>3. ASSUME NEW d \in Drivers PROVE Effect(d)
    BY <1>1, Effects
  <1>4. LifeInv' /\ EndInv' /\ TableInv' /\ PlaceInv'
    BY <1>1, <1>2, <1>3, LifeStep, EndStep, TableStep, PlaceStep
  <1>5. ASSUME NEW d \in Drivers PROVE AnswerInv(d)' /\ TaskInv(d)'
    <2>1. AnswerInv(d) /\ TaskInv(d)
      BY DEF IInv
    <2>2. Effect(d)
      BY <1>3
    <2> QED
      BY <1>1, <1>2, <2>1, <2>2, AnswerStep, TaskStep
  <1> QED
    BY <1>2, <1>4, <1>5 DEF IInv

\* The inductive invariant holds in every reachable state.
THEOREM Invariant == ASSUME TaxiAssumption PROVE Spec => []IInv
  <1>1. Init => IInv
    BY AllStart
  <1>2. IInv /\ [Next]_vars => IInv'
    BY AllStep
  <1> QED
    BY <1>1, <1>2, PTL DEF Spec

\* app_t and driver_t keep their types, the tables the bounds of their arrays, and the buffers
\* and connections theirs: for any number of drivers and any sizes.
THEOREM TypeCorrect == ASSUME TaxiAssumption PROVE Spec => []TypeOK
  <1>1. IInv => TypeOK
    BY DEF IInv, TypeInv, ManagerTyped, FlagsTyped, OutsideTyped, ProcessTyped, SocketsTyped,
           TypeOK, Entry, AppEnds, DriverEnds
  <1> QED
    BY <1>1, Invariant, PTL

\* While the manager serves, every open connection is in one of its tables and in one entry of
\* it, no driver is listed twice, and a driver that runs is listed: whatever the order in which
\* connections, HELLOs, the ends of connections and SIGCHLDs are seen, and whatever entry the
\* last one replaced.
THEOREM TablesCorrect == ASSUME TaxiAssumption PROVE Spec => []TablesTrue
  <1>1. ASSUME IInv PROVE TablesTrue
    <2>1. TypeInv /\ TableInv
      BY <1>1 DEF IInv
    <2>2. DOMAIN drivers = 1 .. Len(drivers) /\ DOMAIN pending = 1 .. Len(pending)
      BY <2>1 DEF TypeInv, ManagerTyped
    <2>3. \A d \in Drivers : Waits(d) <=> d \in Entries(pending)
      BY <2>2 DEF Waits, Entries
    <2>4. \A i \in DOMAIN pending : pending[i] \in Drivers
      BY <2>1, <2>2, ElementOfSeq DEF TypeInv, ManagerTyped
    <2>5. ASSUME apc \in Serving
          PROVE  {d \in Drivers : appEnd[d] = "open"}
                    = Entries(pending) \cup {d \in Drivers : Connected(d)}
      <3>1. Entries(pending) \subseteq Drivers
        BY <2>4 DEF Entries
      <3>2. \A d \in Drivers : appEnd[d] = "open" <=> d \in Entries(pending) \/ Connected(d)
        BY <2>1, <2>3, <2>5 DEF TableInv
      <3> QED
        BY <3>1, <3>2
    <2>6. ASSUME apc \in Serving
          PROVE  /\ \A i, j \in DOMAIN drivers : i # j => drivers[i].pid # drivers[j].pid
                 /\ \A i, j \in DOMAIN pending : i # j => pending[i] # pending[j]
                 /\ \A d \in Drivers : Connected(d) => d \notin Entries(pending)
      BY <2>1, <2>2, <2>3, <2>6 DEF TableInv, UniquePids, UniqueFds
    <2> QED
      BY <2>1, <2>5, <2>6 DEF TablesTrue, DescriptorsOwned, TableInv
  <1> QED
    BY <1>1, Invariant, PTL

\* When the manager has exited, no driver runs on: each was collected, or was never started, or
\* has closed its connection and is ending.
THEOREM NobodyLeft == ASSUME TaxiAssumption PROVE Spec => []NobodyLeftBehind
  <1>1. IInv => NobodyLeftBehind
    BY DEF IInv, EndInv
  <1> QED
    BY <1>1, Invariant, PTL

-----------------------------------------------------------------------------
(* The answers are true.                                                   *)

\* What travels on the connections.
Frames == ReplyType \cup RequestType

\* The ids of some frames.
LEMMA IdsOf ==
    ASSUME NEW s \in Seq(Frames)
    PROVE  /\ Ids(s) \in Seq(Nat) /\ Len(Ids(s)) = Len(s)
           /\ \A k \in 1 .. Len(s) : Ids(s)[k] = s[k].id
  <1>1. PICK n \in Nat : n = Len(s) /\ DOMAIN s = 1 .. n
    BY LenProperties
  <1>2. \A k \in 1 .. n : s[k] \in Frames
    BY <1>1, ElementOfSeq
  <1>3. \A k \in 1 .. n : s[k].id \in Nat
    BY <1>2 DEF Frames, ReplyType, RequestType
  <1>4. PICK ids : ids = [k \in 1 .. n |-> s[k].id]
    OBVIOUS
  <1>5. ids \in [1 .. n -> Nat]
    BY <1>3, <1>4
  <1>6. ids \in Seq(Nat)
    BY <1>5, SeqDef
  <1>7. Len(ids) = n
    BY <1>5, <1>6, LenProperties
  <1>8. Ids(s) = ids
    BY <1>1, <1>4 DEF Ids
  <1> QED
    BY <1>1, <1>4, <1>6, <1>7, <1>8

LEMMA FramesOf ==
    ASSUME NEW S \in SUBSET Frames, NEW s \in Seq(S)
    PROVE  s \in Seq(Frames)
  <1>1. PICK n \in Nat : n = Len(s) /\ s \in [1 .. n -> S]
    BY LenProperties
  <1>2. s \in [1 .. n -> Frames]
    BY <1>1
  <1> QED
    BY <1>2, SeqDef

\* A sequence of numbers that agrees with another one as far as it goes is a prefix of it.
LEMMA PrefixOf ==
    ASSUME NEW s \in Seq(Nat), NEW t \in Seq(Nat), Len(s) <= Len(t),
           \A k \in 1 .. Len(s) : s[k] = t[k]
    PROVE  IsPrefix(s, t)
  <1>1. PICK n \in Nat : n = Len(s)
    BY LenProperties
  <1>2. PICK u : u = SubSeq(s, 1, n)
    OBVIOUS
  <1>3. PICK v : v = SubSeq(t, 1, n)
    OBVIOUS
  <1>4. \A k \in 1 .. n : s[k] \in Nat /\ t[k] \in Nat
    BY <1>1, ElementOfSeq
  <1>5. u \in Seq(Nat) /\ Len(u) = n /\ \A k \in 1 .. n : u[k] = s[k]
    <2>1. /\ u \in Seq(Nat)
          /\ Len(u) = (IF 1 <= n THEN n - 1 + 1 ELSE 0)
          /\ \A k \in 1 .. n - 1 + 1 : u[k] = s[1 + k - 1]
      BY <1>2, <1>4, SubSeqProperties
    <2> QED
      BY <2>1
  <1>6. v \in Seq(Nat) /\ Len(v) = n /\ \A k \in 1 .. n : v[k] = t[k]
    <2>1. /\ v \in Seq(Nat)
          /\ Len(v) = (IF 1 <= n THEN n - 1 + 1 ELSE 0)
          /\ \A k \in 1 .. n - 1 + 1 : v[k] = t[1 + k - 1]
      BY <1>3, <1>4, SubSeqProperties
    <2> QED
      BY <2>1
  <1>7. u = v
    BY <1>1, <1>5, <1>6, SeqEqual
  <1> QED
    BY <1>1, <1>2, <1>3, <1>7 DEF IsPrefix

\* On the connection of a registered driver there are answers, and nothing else but its HELLO is
\* on any other.
LEMMA ResponsesOf ==
    ASSUME IInv, NEW d \in Drivers
    PROVE  IF Connected(d) /\ appEnd[d] # "closed"
           THEN Responses(d) = toApp[d] /\ \A k \in 1 .. Len(toApp[d]) : toApp[d][k].type \in Answer
           ELSE Responses(d) = <<>>
  <1>1. AnswerInv(d) /\ toApp[d] \in Seq(ReplyType)
    BY Lengths DEF IInv
  <1>2. PICK s \in Seq(ReplyType) : s = toApp[d]
    BY <1>1
  <1>3. CASE s = <<>>
    <2>1. Responses(d) = <<>> /\ Len(s) = 0
      BY <1>2, <1>3 DEF Responses
    <2> QED
      BY <1>2, <1>3, <2>1
  <1>4. CASE s # <<>>
    <2>1. Len(s) \in Nat \ {0} /\ Head(s) = s[1] /\ Tail(s) \in Seq(ReplyType) /\ Len(Tail(s)) = Len(s) - 1
      BY <1>4, EmptySeq, HeadTailProperties
    <2>2. CASE Connected(d) /\ appEnd[d] # "closed"
      <3>1. \A k \in 1 .. Len(s) : s[k].type \in Answer
        BY <1>1, <1>2, <2>2 DEF AnswerInv, Ordered
      <3>2. Head(s).type # "hello"
        BY <2>1, <3>1 DEF Answer
      <3> QED
        BY <1>2, <2>2, <3>1, <3>2 DEF Responses
    <2>3. CASE ~(Connected(d) /\ appEnd[d] # "closed")
      <3>1. Len(s) = 1 /\ s[1].type = "hello"
        BY <1>1, <1>2, <1>4, <2>3 DEF AnswerInv, OnlyHello
      <3>2. Tail(s) = <<>>
        <4>1. PICK rest \in Seq(ReplyType) : rest = Tail(s)
          BY <2>1
        <4>2. Len(rest) = 0
          BY <2>1, <3>1, <4>1
        <4> QED
          BY <4>1, <4>2, EmptySeq
      <3> QED
        BY <1>2, <1>4, <2>1, <2>3, <3>1, <3>2 DEF Responses
    <2> QED
      BY <2>2, <2>3
  <1> QED
    BY <1>3, <1>4

LEMMA AnswersOrdered == ASSUME IInv PROVE AnswersInOrder
  <1> SUFFICES ASSUME NEW d \in Drivers
               PROVE  IF dpc[d] \in Ending \/ appEnd[d] = "closed"
                      THEN IsPrefix(Ids(Responses(d)), asked[d])
                      ELSE Ids(Responses(d) \o Requests(d)) = asked[d]
    BY DEF AnswersInOrder
  <1>1. AnswerInv(d) /\ TypeInv
    BY DEF IInv
  <1>2. PICK p \in Seq(Frames), q \in Seq(Frames), r \in Seq(Frames), ids \in Seq(Nat) :
           p = toApp[d] /\ q = inbox[d] /\ r = toDriver[d] /\ ids = asked[d]
    <2>1. ReplyType \in SUBSET Frames /\ RequestType \in SUBSET Frames
      BY DEF Frames
    <2>2. toApp[d] \in Seq(Frames) /\ inbox[d] \in Seq(Frames) /\ toDriver[d] \in Seq(Frames)
      BY <1>1, <2>1, Lengths, FramesOf
    <2> QED
      BY <1>1, <2>2, Lengths
  <1>3. PICK a \in Nat, b \in Nat, c \in Nat, n \in Nat :
           a = Len(p) /\ b = Len(q) /\ c = Len(r) /\ n = Len(ids)
    BY LenProperties
  <1>4. CASE Connected(d) /\ appEnd[d] # "closed"
    <2>1. Responses(d) = p /\ Ordered(d)
      BY <1>1, <1>2, <1>4, ResponsesOf DEF AnswerInv
    <2>2. a <= n /\ \A k \in 1 .. a : p[k].id = ids[k]
      BY <1>2, <1>3, <2>1 DEF Ordered
    <2>3. CASE dpc[d] \in Ending
      <3>1. IsPrefix(Ids(p), ids)
        BY <1>3, <2>2, IdsOf, PrefixOf
      <3> QED
        BY <1>2, <2>1, <2>3, <3>1
    <2>4. CASE dpc[d] \notin Ending
      <3>1. /\ n = a + b + c
            /\ \A k \in 1 .. b : q[k].id = ids[a + k]
            /\ \A k \in 1 .. c : r[k].id = ids[a + b + k]
        BY <1>2, <1>3, <2>1, <2>4 DEF Ordered
      <3>2. PICK w : w = q \o r
        OBVIOUS
      <3>3. /\ w \in Seq(Frames) /\ Len(w) = b + c
            /\ \A k \in 1 .. b + c : w[k] = IF k <= b THEN q[k] ELSE r[k - b]
        BY <1>3, <3>2, ConcatProperties
      <3>4. PICK v : v = p \o w
        OBVIOUS
      <3>5. /\ v \in Seq(Frames) /\ Len(v) = a + (b + c)
            /\ \A k \in 1 .. a + (b + c) : v[k] = IF k <= a THEN p[k] ELSE w[k - a]
        <4>1. PICK m \in Nat : m = b + c
          BY <1>3
        <4>2. /\ v \in Seq(Frames) /\ Len(v) = Len(p) + Len(w)
              /\ \A k \in 1 .. Len(p) + Len(w) : v[k] = IF k <= Len(p) THEN p[k] ELSE w[k - Len(p)]
          BY <3>3, <3>4, ConcatProperties
        <4>3. /\ v \in Seq(Frames) /\ Len(v) = a + m
              /\ \A k \in 1 .. a + m : v[k] = IF k <= a THEN p[k] ELSE w[k - a]
          BY <1>3, <3>3, <4>1, <4>2
        <4> QED
          BY <4>1, <4>3
      <3>6. Len(v) = n
        BY <3>1, <3>5
      <3>7. ASSUME NEW k \in 1 .. n PROVE v[k].id = ids[k]
        <4>1. CASE k <= a
          <5>1. k \in 1 .. a /\ k \in 1 .. a + (b + c)
            BY <3>1, <4>1
          <5> QED
            BY <2>2, <3>5, <4>1, <5>1
        <4>2. CASE ~(k <= a) /\ k - a <= b
          <5>1. PICK j \in 1 .. b : j = k - a
            BY <4>2
          <5>2. k \in 1 .. a + (b + c) /\ j \in 1 .. b + c /\ j <= b /\ a + j = k
            BY <3>1, <5>1
          <5>3. v[k] = w[j] /\ w[j] = q[j]
            BY <3>3, <3>5, <4>2, <5>1, <5>2
          <5> QED
            BY <3>1, <5>2, <5>3
        <4>3. CASE ~(k <= a) /\ ~(k - a <= b)
          <5>1. PICK j \in 1 .. b + c : j = k - a
            BY <3>1, <4>3
          <5>2. PICK i \in 1 .. c : i = j - b
            BY <3>1, <4>3, <5>1
          <5>3. k \in 1 .. a + (b + c) /\ ~(j <= b) /\ a + b + i = k
            BY <3>1, <4>3, <5>1, <5>2
          <5>4. v[k] = w[j] /\ w[j] = r[i]
            BY <3>3, <3>5, <4>3, <5>1, <5>2, <5>3
          <5> QED
            BY <3>1, <5>3, <5>4
        <4> QED
          BY <4>1, <4>2, <4>3
      <3>8. /\ Ids(v) \in Seq(Nat) /\ Len(Ids(v)) = n
            /\ \A k \in 1 .. n : Ids(v)[k] = ids[k]
        BY <3>5, <3>6, <3>7, IdsOf
      <3>9. Ids(v) = ids
        BY <1>3, <3>8, SeqEqual
      <3> QED
        BY <1>2, <1>4, <2>1, <2>4, <3>2, <3>4, <3>9 DEF Requests
    <2> QED
      BY <2>3, <2>4
  <1>5. CASE ~(Connected(d) /\ appEnd[d] # "closed")
    <2>1. Responses(d) = <<>>
      BY <1>5, ResponsesOf
    <2>2. Ids(<<>>) = <<>>
      BY DEF Ids
    <2>3. CASE dpc[d] \in Ending \/ appEnd[d] = "closed"
      <3>1. PICK none \in Seq(Nat) : none = <<>> /\ Len(none) = 0
        BY EmptySeq
      <3>2. Len(none) <= Len(ids) /\ \A k \in 1 .. Len(none) : none[k] = ids[k]
        BY <1>3, <3>1
      <3>3. IsPrefix(none, ids)
        BY <3>2, PrefixOf
      <3> QED
        BY <1>2, <2>1, <2>2, <2>3, <3>1, <3>3
    <2>4. CASE ~(dpc[d] \in Ending \/ appEnd[d] = "closed")
      <3>1. inbox[d] = <<>> /\ toDriver[d] = <<>> /\ asked[d] = <<>>
        BY <1>1, <1>5, <2>4 DEF AnswerInv
      <3>2. <<>> \o <<>> = <<>>
        BY EmptySeq, ConcatEmptySeq
      <3> QED
        BY <2>1, <2>2, <2>4, <3>1, <3>2 DEF Requests
    <2> QED
      BY <2>3, <2>4
  <1> QED
    BY <1>4, <1>5

LEMMA TasksKept == ASSUME IInv PROVE TaskKept
  <1> SUFFICES ASSUME NEW d \in Drivers, NEW k \in DOMAIN Responses(d)
               PROVE  LET response == Responses(d)[k]
                          left == LastEnd(told[d], Responses(d), k - 1) - response.at IN
                      IF left > 0
                      THEN /\ response.type = "busy"
                           /\ (response.timer - 1) * Second < left
                           /\ left <= response.timer * Second
                      ELSE response.type \in {"accepted", "available"}
    BY DEF TaskKept
  <1>1. Connected(d) /\ appEnd[d] # "closed"
    <2>1. Responses(d) # <<>>
      OBVIOUS
    <2> QED
      BY <2>1, ResponsesOf
  <1>2. PICK s \in Seq(ReplyType) : s = toApp[d] /\ s = Responses(d)
    BY <1>1, ResponsesOf, Lengths DEF IInv
  <1>3. k \in 1 .. Len(s) /\ s[k].type # "hello"
    BY <1>1, <1>2, ResponsesOf DEF Answer
  <1>4. Right(s[k], LastEnd(told[d], s, k - 1))
    BY <1>2, <1>3 DEF IInv, TaskInv
  <1> QED
    BY <1>2, <1>4 DEF Right

\* No request is lost, doubled or overtaken on its way to a driver and back, through all the
\* buffers in between; and from accepting a task until its timer ends a driver says that it is
\* busy, with the seconds that remain, rounded up, and takes no other task.
THEOREM TrueAnswers == ASSUME TaxiAssumption PROVE Spec => []AnswersTrue
  <1>1. IInv => AnswersTrue
    BY AnswersOrdered, TasksKept DEF AnswersTrue
  <1> QED
    BY <1>1, Invariant, PTL
=============================================================================
