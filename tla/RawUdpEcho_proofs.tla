-------------------------- MODULE RawUdpEcho_proofs -------------------------
(***************************************************************************)
(* What holds of RawUdpEcho for any number of clients, endpoints, texts    *)
(* and datagrams under way: a client sees its messages numbered from one,  *)
(* and the server forgets an endpoint whose clients have left.             *)
(*                                                                         *)
(* The heart of it is that a client waits for the answer to its message    *)
(* before it sends another one: of the run that owns an endpoint there is  *)
(* one request, one reply under way or one reply in the inbox, or nothing, *)
(* and the counter of the server is ahead of what the client printed just  *)
(* while there is a reply.                                                 *)
(***************************************************************************)
EXTENDS RawUdpEcho, SequenceTheorems, TLAPS

Places == {"off", "prompt", "wait", "leave"}
Reply == [to : Endpoints, counter : 1 .. MaxCounter, text : Texts]
Request == [from : Endpoints, type : {"request"}, text : Texts]
Close == [from : Endpoints, type : {"close"}]

-----------------------------------------------------------------------------
(* The inductive invariant.                                                *)

TypeInv ==
    /\ pc \in [Clients -> Places] /\ interrupted \in [Clients -> BOOLEAN]
    /\ text \in [Clients -> Texts]
    /\ inbox \in [Clients -> Seq(Reply)]
    /\ \A p \in Clients : \A i \in 1 .. Len(inbox[p]) : inbox[p][i].to = Endpoint[p]
    /\ numbers \in [Clients -> Seq(1 .. MaxCounter)]
    /\ counter \in [Endpoints -> 0 .. MaxCounter]
    /\ toServer \in Seq(Request \union Close) /\ toClients \in Seq(Reply)
    /\ inputs \in 0 .. MaxInputs /\ faults \in 0 .. MaxFaults
    /\ fresh \subseteq Clients /\ disturbed \subseteq Endpoints

Asks(m, e) == m.from = e /\ m.type = "request"
Closes(m, e) == m.from = e /\ m.type = "close"
Nobody(e) == \A p \in Clients : Endpoint[p] = e => ~Open(p)

\* Whoever left an endpoint last has its ECHO_CLOSE behind everything else of the endpoint.
LastIsClose(e) ==
    \E i \in 1 .. Len(toServer) :
        /\ Closes(toServer[i], e)
        /\ \A j \in 1 .. Len(toServer) : i < j => toServer[j].from # e
NothingFrom(e) == \A j \in 1 .. Len(toServer) : toServer[j].from # e
ForgetInv ==
    \A e \in Endpoints \ disturbed :
        Nobody(e) => LastIsClose(e) \/ (counter[e] = 0 /\ NothingFrom(e))

\* What is on its way between a client and the server.
NoRequest(e) == \A j \in 1 .. Len(toServer) : ~Asks(toServer[j], e)
NoClose(e) == \A j \in 1 .. Len(toServer) : ~Closes(toServer[j], e)
NoReply(e) == \A j \in 1 .. Len(toClients) : toClients[j].to # e
OneRequest(e) ==
    \E i \in 1 .. Len(toServer) :
        /\ Asks(toServer[i], e)
        /\ \A j \in 1 .. Len(toServer) : toServer[j].from = e /\ j # i => j < i /\ Closes(toServer[j], e)
Carries(e, t) == \A j \in 1 .. Len(toServer) : Asks(toServer[j], e) => toServer[j].text = t
OneReply(p) ==
    \E i \in 1 .. Len(toClients) :
        /\ toClients[i].to = Endpoint[p] /\ toClients[i].counter = Len(numbers[p]) + 1
        /\ toClients[i].text = text[p]
        /\ \A j \in 1 .. Len(toClients) : toClients[j].to = Endpoint[p] => j = i
ReplyArrived(p) ==
    /\ Len(inbox[p]) = 1 /\ inbox[p][1].counter = Len(numbers[p]) + 1
    /\ inbox[p][1].text = text[p]

\* The counter agrees with what the client printed, or a CLOSE of an earlier run resets it.
Agrees(p) ==
    /\ NoClose(Endpoint[p]) => counter[Endpoint[p]] = Len(numbers[p])
    /\ ~NoClose(Endpoint[p]) => Len(numbers[p]) = 0

Idle(p) == NoRequest(Endpoint[p]) /\ NoReply(Endpoint[p]) /\ inbox[p] = <<>>
Asked(p) ==
    /\ OneRequest(Endpoint[p]) /\ Carries(Endpoint[p], text[p])
    /\ NoReply(Endpoint[p]) /\ inbox[p] = <<>> /\ Agrees(p)
Ahead(p) == NoClose(Endpoint[p]) /\ counter[Endpoint[p]] = Len(numbers[p]) + 1
Answered(p) == NoRequest(Endpoint[p]) /\ OneReply(p) /\ inbox[p] = <<>> /\ Ahead(p)
Delivered(p) == NoRequest(Endpoint[p]) /\ NoReply(Endpoint[p]) /\ ReplyArrived(p) /\ Ahead(p)

\* What holds of a run of a client while it owns its endpoint.
Owns(p) == p \in fresh /\ Open(p) /\ Endpoint[p] \notin disturbed
OwnerInv(p) ==
    /\ \A q \in Clients : Open(q) /\ Endpoint[q] = Endpoint[p] => q = p
    /\ \A i \in 1 .. Len(numbers[p]) : numbers[p][i] = i
    /\ pc[p] = "prompt" => Idle(p) /\ Agrees(p)
    /\ pc[p] # "prompt" => Idle(p) \/ Asked(p) \/ Answered(p) \/ Delivered(p)
NumberInv == \A p \in Clients : Owns(p) => OwnerInv(p)

IInv == TypeInv /\ ForgetInv /\ NumberInv

-----------------------------------------------------------------------------
(* Sequences that lose an element.                                         *)

\* Every element but the i-th keeps its place or moves up by one.
LEMMA Removal ==
    ASSUME NEW S, NEW q \in Seq(S), NEW i \in 1 .. Len(q)
    PROVE  /\ RemoveAt(q, i) \in Seq(S)
           /\ Len(RemoveAt(q, i)) = Len(q) - 1
           /\ \A j \in 1 .. Len(q) - 1 : RemoveAt(q, i)[j] = IF j < i THEN q[j] ELSE q[j + 1]
  <1>1. PICK n \in Nat : n = Len(q)
    BY LenProperties
  <1>2. i \in Int /\ i - 1 \in Int /\ i + 1 \in Int /\ n \in Int /\ 1 <= i /\ i <= n
    BY <1>1
  <1>3. PICK left : left = SubSeq(q, 1, i - 1)
    OBVIOUS
  <1>4. PICK right : right = SubSeq(q, i + 1, n)
    OBVIOUS
  <1>5. left \in Seq(S) /\ Len(left) = i - 1 /\ \A j \in 1 .. i - 1 : left[j] = q[j]
    <2>1. \A j \in 1 .. i - 1 : q[j] \in S
      BY <1>1, <1>2, ElementOfSeq
    <2> QED
      BY <1>2, <1>3, <2>1, SubSeqProperties
  <1>6. right \in Seq(S) /\ Len(right) = n - i /\ \A j \in 1 .. n - i : right[j] = q[i + j]
    <2>1. \A j \in i + 1 .. n : q[j] \in S
      BY <1>1, <1>2, ElementOfSeq
    <2>2. i + 1 <= n + 1 /\ n - (i + 1) + 1 = n - i /\ i + 1 \in Int /\ n \in Int
      BY <1>2
    <2>3. /\ right \in Seq(S)
          /\ Len(right) = IF i + 1 <= n THEN n - (i + 1) + 1 ELSE 0
          /\ \A j \in 1 .. n - (i + 1) + 1 : right[j] = q[i + 1 + j - 1]
      BY <1>4, <2>1, <2>2, SubSeqProperties
    <2>4. \A j \in Nat : i + 1 + j - 1 = i + j
      BY <1>2
    <2> QED
      BY <1>2, <2>2, <2>3, <2>4
  <1>7. PICK whole : whole = left \o right
    OBVIOUS
  <1>8. /\ whole \in Seq(S) /\ Len(whole) = n - 1
        /\ \A j \in 1 .. n - 1 : whole[j] = IF j <= i - 1 THEN left[j] ELSE right[j - (i - 1)]
    BY <1>2, <1>5, <1>6, <1>7, ConcatProperties
  <1>9. \A j \in 1 .. n - 1 : whole[j] = IF j < i THEN q[j] ELSE q[j + 1]
    <2> TAKE j \in 1 .. n - 1
    <2>1. CASE j < i
      <3>1. j \in 1 .. i - 1
        BY <1>2, <2>1
      <3> QED
        BY <1>2, <1>5, <1>8, <2>1, <3>1
    <2>2. CASE ~(j < i)
      <3>1. j - (i - 1) \in 1 .. n - i /\ i + (j - (i - 1)) = j + 1 /\ ~(j <= i - 1)
        BY <1>2, <2>2
      <3>2. whole[j] = right[j - (i - 1)]
        BY <1>8, <3>1
      <3>3. right[j - (i - 1)] = q[j + 1]
        BY <1>6, <3>1
      <3> QED
        BY <2>2, <3>2, <3>3
    <2> QED
      BY <2>1, <2>2
  <1>10. RemoveAt(q, i) = whole
    BY <1>1, <1>3, <1>4, <1>7 DEF RemoveAt
  <1> QED
    BY <1>1, <1>8, <1>9, <1>10

\* r is what is left of q, in the same order: its j-th element was the h[j]-th.
Kept(h, q, r) ==
    /\ h \in [1 .. Len(r) -> 1 .. Len(q)]
    /\ \A j \in 1 .. Len(r) : r[j] = q[h[j]]
    /\ \A j, k \in 1 .. Len(r) : j < k => h[j] < h[k]

\* r is q without its i-th element.
Without(q, i, h, r) ==
    /\ Kept(h, q, r)
    /\ Len(r) = Len(q) - 1
    /\ \A j \in 1 .. Len(r) : h[j] # i
    /\ \A k \in 1 .. Len(q) : k # i => \E j \in 1 .. Len(r) : h[j] = k

LEMMA RemovalKeeps ==
    ASSUME NEW S, NEW q \in Seq(S), NEW i \in 1 .. Len(q)
    PROVE  RemoveAt(q, i) \in Seq(S) /\ \E h : Without(q, i, h, RemoveAt(q, i))
  <1>1. PICK n \in Nat : n = Len(q)
    BY LenProperties
  <1>2. PICK r : r = RemoveAt(q, i)
    OBVIOUS
  <1>3. /\ r \in Seq(S) /\ Len(r) = n - 1
        /\ \A j \in 1 .. n - 1 : r[j] = IF j < i THEN q[j] ELSE q[j + 1]
    BY <1>1, <1>2, Removal
  <1>4. PICK h : h = [j \in 1 .. n - 1 |-> IF j < i THEN j ELSE j + 1]
    OBVIOUS
  <1>5. i \in 1 .. n
    BY <1>1
  <1>6. h \in [1 .. n - 1 -> 1 .. n]
    BY <1>4, <1>5
  <1>7. \A j \in 1 .. n - 1 : r[j] = q[h[j]] /\ h[j] # i
    BY <1>3, <1>4, <1>5
  <1>8. \A j, k \in 1 .. n - 1 : j < k => h[j] < h[k]
    BY <1>4, <1>5
  <1>9. \A k \in 1 .. n : k # i => \E j \in 1 .. n - 1 : h[j] = k
    <2> SUFFICES ASSUME NEW k \in 1 .. n, k # i PROVE \E j \in 1 .. n - 1 : h[j] = k
      OBVIOUS
    <2>1. CASE k < i
      <3>1. k \in 1 .. n - 1 /\ h[k] = k
        BY <1>4, <1>5, <2>1
      <3> QED
        BY <3>1
    <2>2. CASE ~(k < i)
      <3>1. k - 1 \in 1 .. n - 1 /\ h[k - 1] = k
        BY <1>4, <1>5, <2>2
      <3> QED
        BY <3>1
    <2> QED
      BY <2>1, <2>2
  <1>10. Without(q, i, h, r)
    BY <1>1, <1>3, <1>6, <1>7, <1>8, <1>9 DEF Without, Kept
  <1> QED
    BY <1>2, <1>3, <1>10

-----------------------------------------------------------------------------
(* What a datagram of another endpoint leaves alone.                       *)

SameAtServer(e) ==
    /\ NoRequest(e)' <=> NoRequest(e)
    /\ NoClose(e)' <=> NoClose(e)
    /\ OneRequest(e) => OneRequest(e)'
    /\ \A t : Carries(e, t) => Carries(e, t)'
    /\ LastIsClose(e) => LastIsClose(e)'
    /\ NothingFrom(e) => NothingFrom(e)'

LEMMA ForeignAppend ==
    ASSUME NEW e, NEW m, m.from # e, TypeInv, m \in Request \union Close,
           toServer' = Append(toServer, m)
    PROVE  SameAtServer(e)
  <1>1. PICK n \in Nat : n = Len(toServer)
    BY LenProperties DEF TypeInv
  <1>2. Len(toServer') = n + 1 /\ toServer'[n + 1] = m /\ \A j \in 1 .. n : toServer'[j] = toServer[j]
    BY <1>1, AppendProperties DEF TypeInv
  <1>3. \A j \in 1 .. n + 1 : j \in 1 .. n \/ j = n + 1
    BY <1>1
  <1>4. \A j \in 1 .. n : j \in 1 .. n + 1 /\ j < n + 1
    BY <1>1
  <1>5. NoRequest(e)' <=> NoRequest(e)
    BY <1>1, <1>2, <1>3, <1>4 DEF NoRequest, Asks
  <1>6. NoClose(e)' <=> NoClose(e)
    BY <1>1, <1>2, <1>3, <1>4 DEF NoClose, Closes
  <1>7. OneRequest(e) => OneRequest(e)'
    BY <1>1, <1>2, <1>3, <1>4 DEF OneRequest, Asks, Closes
  <1>8. LastIsClose(e) => LastIsClose(e)'
    BY <1>1, <1>2, <1>3, <1>4 DEF LastIsClose, Closes
  <1>9. NothingFrom(e) => NothingFrom(e)'
    BY <1>1, <1>2, <1>3, <1>4 DEF NothingFrom
  <1>10. ASSUME NEW t, Carries(e, t) PROVE Carries(e, t)'
    BY <1>1, <1>2, <1>3, <1>4, <1>10 DEF Carries, Asks
  <1> QED
    BY <1>5, <1>6, <1>7, <1>8, <1>9, <1>10 DEF SameAtServer

LEMMA ForeignRemoval ==
    ASSUME NEW e, NEW i \in 1 .. Len(toServer), toServer[i].from # e, TypeInv,
           toServer' = RemoveAt(toServer, i)
    PROVE  SameAtServer(e)
  <1>1. PICK h : Without(toServer, i, h, toServer')
    BY RemovalKeeps DEF TypeInv
  <1>2. PICK n \in Nat, m \in Int : n = Len(toServer) /\ m = Len(toServer') /\ m = n - 1
    BY <1>1, LenProperties DEF TypeInv, Without
  <1>3. /\ h \in [1 .. m -> 1 .. n]
        /\ \A j \in 1 .. m : toServer'[j] = toServer[h[j]] /\ h[j] # i
        /\ \A j, k \in 1 .. m : j < k => h[j] < h[k]
        /\ \A k \in 1 .. n : k # i => \E j \in 1 .. m : h[j] = k
    BY <1>1, <1>2, Zenon DEF Without, Kept
  <1>4. \A j \in 1 .. m : h[j] \in 1 .. n
    BY <1>3
  <1>5. ASSUME NEW j \in 1 .. m, NEW k \in 1 .. m, h[j] < h[k] PROVE j < k
    <2>1. ~(k < j) /\ k # j
      BY <1>3, <1>4, <1>5
    <2> QED
      BY <2>1
  <1>6. ASSUME NEW k \in 1 .. n, toServer[k].from = e
        PROVE  \E j \in 1 .. m : h[j] = k /\ toServer'[j] = toServer[k]
    <2>1. k # i
      BY <1>6
    <2>2. PICK j \in 1 .. m : h[j] = k
      BY <1>3, <2>1
    <2> QED
      BY <1>3, <2>2
  <1>7. NoRequest(e)' <=> NoRequest(e)
    <2>1. NoRequest(e) => NoRequest(e)'
      BY <1>2, <1>3, <1>4 DEF NoRequest, Asks
    <2>2. NoRequest(e)' => NoRequest(e)
      BY <1>2, <1>6 DEF NoRequest, Asks
    <2> QED
      BY <2>1, <2>2
  <1>8. NoClose(e)' <=> NoClose(e)
    <2>1. NoClose(e) => NoClose(e)'
      BY <1>2, <1>3, <1>4 DEF NoClose, Closes
    <2>2. NoClose(e)' => NoClose(e)
      BY <1>2, <1>6 DEF NoClose, Closes
    <2> QED
      BY <2>1, <2>2
  <1>9. OneRequest(e) => OneRequest(e)'
    <2> SUFFICES ASSUME OneRequest(e) PROVE OneRequest(e)'
      OBVIOUS
    <2>1. PICK k \in 1 .. n : /\ Asks(toServer[k], e)
                              /\ \A j \in 1 .. n : toServer[j].from = e /\ j # k
                                                      => j < k /\ Closes(toServer[j], e)
      BY <1>2 DEF OneRequest
    <2>2. PICK l \in 1 .. m : h[l] = k /\ toServer'[l] = toServer[k]
      BY <1>6, <2>1 DEF Asks
    <2>3. ASSUME NEW j \in 1 .. m, toServer'[j].from = e, j # l
          PROVE  j < l /\ Closes(toServer'[j], e)
      <3>1. h[j] \in 1 .. n /\ toServer'[j] = toServer[h[j]]
        BY <1>3, <1>4
      <3>2. h[j] # k
        <4>1. j < l \/ l < j
          BY <2>3
        <4> QED
          BY <1>3, <1>4, <2>2, <4>1
      <3> QED
        BY <1>5, <2>1, <2>2, <2>3, <3>1, <3>2
    <2> QED
      BY <1>2, <2>1, <2>2, <2>3 DEF OneRequest, Asks
  <1>10. LastIsClose(e) => LastIsClose(e)'
    <2> SUFFICES ASSUME LastIsClose(e) PROVE LastIsClose(e)'
      OBVIOUS
    <2>1. PICK k \in 1 .. n : /\ Closes(toServer[k], e)
                              /\ \A j \in 1 .. n : k < j => toServer[j].from # e
      BY <1>2 DEF LastIsClose
    <2>2. PICK l \in 1 .. m : h[l] = k /\ toServer'[l] = toServer[k]
      BY <1>6, <2>1 DEF Closes
    <2>3. ASSUME NEW j \in 1 .. m, l < j PROVE toServer'[j].from # e
      <3>1. k < h[j] /\ h[j] \in 1 .. n /\ toServer'[j] = toServer[h[j]]
        BY <1>3, <1>4, <2>2, <2>3
      <3> QED
        BY <2>1, <3>1
    <2> QED
      BY <1>2, <2>1, <2>2, <2>3 DEF LastIsClose, Closes
  <1>11. NothingFrom(e) => NothingFrom(e)'
    BY <1>2, <1>3, <1>4 DEF NothingFrom
  <1>12. ASSUME NEW t, Carries(e, t) PROVE Carries(e, t)'
    BY <1>2, <1>3, <1>4, <1>12 DEF Carries, Asks
  <1> QED
    BY <1>7, <1>8, <1>9, <1>10, <1>11, <1>12 DEF SameAtServer

LEMMA ServerQueueKept == ASSUME NEW e, toServer' = toServer PROVE SameAtServer(e)
  BY DEF SameAtServer, NoRequest, NoClose, OneRequest, Carries, LastIsClose, NothingFrom

SameAtClient(p) ==
    /\ NoReply(Endpoint[p]) => NoReply(Endpoint[p])'
    /\ OneReply(p) => OneReply(p)'

LEMMA ClientQueueKept ==
    ASSUME NEW p, toClients' = toClients, numbers'[p] = numbers[p], text'[p] = text[p]
    PROVE  SameAtClient(p)
  BY DEF SameAtClient, NoReply, OneReply

LEMMA ForeignReplyAppend ==
    ASSUME NEW p, NEW m \in Reply, m.to # Endpoint[p], TypeInv,
           toClients' = Append(toClients, m), numbers'[p] = numbers[p], text'[p] = text[p]
    PROVE  SameAtClient(p)
  <1>1. PICK n \in Nat : n = Len(toClients)
    BY LenProperties DEF TypeInv
  <1>2. /\ Len(toClients') = n + 1 /\ toClients'[n + 1] = m
        /\ \A j \in 1 .. n : toClients'[j] = toClients[j]
    BY <1>1, AppendProperties DEF TypeInv
  <1>3. \A j \in 1 .. n + 1 : j \in 1 .. n \/ j = n + 1
    BY <1>1
  <1>4. \A j \in 1 .. n : j \in 1 .. n + 1
    BY <1>1
  <1>5. NoReply(Endpoint[p]) => NoReply(Endpoint[p])'
    BY <1>1, <1>2, <1>3, <1>4 DEF NoReply
  <1>6. OneReply(p) => OneReply(p)'
    BY <1>1, <1>2, <1>3, <1>4 DEF OneReply
  <1> QED
    BY <1>5, <1>6 DEF SameAtClient

LEMMA ForeignReplyRemoval ==
    ASSUME NEW p, NEW i \in 1 .. Len(toClients), toClients[i].to # Endpoint[p], TypeInv,
           toClients' = RemoveAt(toClients, i), numbers'[p] = numbers[p], text'[p] = text[p]
    PROVE  SameAtClient(p)
  <1>1. PICK h : Without(toClients, i, h, toClients')
    BY RemovalKeeps DEF TypeInv
  <1>2. PICK n \in Nat, m \in Int : n = Len(toClients) /\ m = Len(toClients') /\ m = n - 1
    BY <1>1, LenProperties DEF TypeInv, Without
  <1>3. /\ h \in [1 .. m -> 1 .. n]
        /\ \A j \in 1 .. m : toClients'[j] = toClients[h[j]] /\ h[j] # i
        /\ \A j, k \in 1 .. m : j < k => h[j] < h[k]
        /\ \A k \in 1 .. n : k # i => \E j \in 1 .. m : h[j] = k
    BY <1>1, <1>2, Zenon DEF Without, Kept
  <1>4. \A j \in 1 .. m : h[j] \in 1 .. n
    BY <1>3
  <1>5. NoReply(Endpoint[p]) => NoReply(Endpoint[p])'
    BY <1>2, <1>3, <1>4 DEF NoReply
  <1>6. OneReply(p) => OneReply(p)'
    <2> SUFFICES ASSUME OneReply(p) PROVE OneReply(p)'
      OBVIOUS
    <2>1. PICK k \in 1 .. n :
             /\ toClients[k].to = Endpoint[p] /\ toClients[k].counter = Len(numbers[p]) + 1
             /\ toClients[k].text = text[p]
             /\ \A j \in 1 .. n : toClients[j].to = Endpoint[p] => j = k
      BY <1>2 DEF OneReply
    <2>2. PICK l \in 1 .. m : h[l] = k
      BY <1>3, <2>1
    <2>3. ASSUME NEW j \in 1 .. m, toClients'[j].to = Endpoint[p] PROVE j = l
      <3>1. h[j] = k
        BY <1>3, <1>4, <2>1, <2>3
      <3>2. ~(j < l) /\ ~(l < j)
        BY <1>2, <1>3, <2>1, <2>2, <3>1
      <3> QED
        BY <3>2
    <2> QED
      <3>1. l \in 1 .. Len(toClients') /\ toClients'[l] = toClients[k]
        BY <1>2, <1>3, <2>2
      <3> QED
        BY <1>2, <2>1, <2>3, <3>1 DEF OneReply
  <1> QED
    BY <1>5, <1>6 DEF SameAtClient

-----------------------------------------------------------------------------
(* A step that leaves a run and its datagrams alone keeps what holds of it. *)

LEMMA Frame ==
    ASSUME NEW p \in Clients, OwnerInv(p),
           \A q \in Clients : Endpoint[q] = Endpoint[p] /\ Open(q)' => Open(q),
           pc'[p] = pc[p], text'[p] = text[p], numbers'[p] = numbers[p], inbox'[p] = inbox[p],
           counter'[Endpoint[p]] = counter[Endpoint[p]],
           SameAtServer(Endpoint[p]), SameAtClient(p)
    PROVE  OwnerInv(p)'
  <1>1. Agrees(p) => Agrees(p)'
    BY DEF Agrees, SameAtServer
  <1>2. Ahead(p) => Ahead(p)'
    BY DEF Ahead, SameAtServer
  <1>3. Idle(p) => Idle(p)'
    BY DEF Idle, SameAtServer, SameAtClient
  <1>4. Asked(p) => Asked(p)'
    BY <1>1 DEF Asked, SameAtServer, SameAtClient
  <1>5. Answered(p) => Answered(p)'
    BY <1>2 DEF Answered, SameAtServer, SameAtClient
  <1>6. Delivered(p) => Delivered(p)'
    BY <1>2 DEF Delivered, ReplyArrived, SameAtServer, SameAtClient
  <1> QED
    BY <1>1, <1>3, <1>4, <1>5, <1>6 DEF OwnerInv

-----------------------------------------------------------------------------
(* Types.                                                                  *)

LEMMA TypeStep == ASSUME RawUdpEchoAssumption, TypeInv, [Next]_vars PROVE TypeInv'
  <1>1. ASSUME NEW p \in Clients, Start(p) PROVE TypeInv'
    <2>1. /\ pc' = [pc EXCEPT ![p] = "prompt"] /\ interrupted' = [interrupted EXCEPT ![p] = FALSE]
          /\ inbox' = [inbox EXCEPT ![p] = <<>>] /\ numbers' = [numbers EXCEPT ![p] = <<>>]
          /\ UNCHANGED <<text, counter, toServer, toClients, faults, disturbed>>
      BY <1>1 DEF Start, net
    <2>2. fresh' \subseteq Clients
      BY <1>1 DEF Start, TypeInv
    <2>3. inputs' \in 0 .. MaxInputs
      BY <1>1 DEF Start, Input, TypeInv, RawUdpEchoAssumption
    <2>4. <<>> \in Seq(Reply) /\ <<>> \in Seq(1 .. MaxCounter) /\ Len(<<>>) = 0
      BY EmptySeq
    <2> QED
      BY <2>1, <2>2, <2>3, <2>4 DEF TypeInv, Places
  <1>2. ASSUME NEW p \in Clients, NEW t \in Texts, Type(p, t) PROVE TypeInv'
    <2>1. UNCHANGED <<interrupted, inbox, numbers, counter, toClients, faults, fresh, disturbed>>
      BY <1>2 DEF Type
    <2>2. inputs' \in 0 .. MaxInputs
      BY <1>2 DEF Type, Input, TypeInv, RawUdpEchoAssumption
    <2>3. CASE interrupted[p]
      BY <1>2, <2>1, <2>2, <2>3 DEF Type, TypeInv, Places
    <2>4. CASE ~interrupted[p]
      <3>1. /\ pc' = [pc EXCEPT ![p] = "wait"] /\ text' = [text EXCEPT ![p] = t]
            /\ toServer' = Append(toServer, [from |-> Endpoint[p], type |-> "request", text |-> t])
        BY <1>2, <2>4 DEF Type
      <3>2. [from |-> Endpoint[p], type |-> "request", text |-> t] \in Request \union Close
        BY DEF Request, Endpoints
      <3>3. toServer' \in Seq(Request \union Close)
        BY <3>1, <3>2, AppendProperties DEF TypeInv
      <3> QED
        BY <2>1, <2>2, <3>1, <3>3 DEF TypeInv, Places
    <2> QED
      BY <2>3, <2>4
  <1>3. ASSUME NEW p \in Clients, Quit(p) \/ Notice(p) PROVE TypeInv'
    BY <1>3 DEF Quit, Notice, net, TypeInv, Places
  <1>4. ASSUME NEW p \in Clients, Receive(p) PROVE TypeInv'
    <2>1. UNCHANGED <<interrupted, text, counter, toServer, toClients, inputs, faults, fresh, disturbed>>
      BY <1>4 DEF Receive, net
    <2>2. inbox[p] \in Seq(Reply) /\ inbox[p] # <<>>
      BY <1>4 DEF Receive, TypeInv
    <2>3. /\ Head(inbox[p]) \in Reply /\ Tail(inbox[p]) \in Seq(Reply)
          /\ \A i \in 1 .. Len(Tail(inbox[p])) : i + 1 \in 1 .. Len(inbox[p])
                                                  /\ Tail(inbox[p])[i] = inbox[p][i + 1]
      BY <2>2, HeadTailProperties, EmptySeq, LenProperties
    <2>4. inbox' = [inbox EXCEPT ![p] = Tail(inbox[p])]
      BY <1>4 DEF Receive
    <2>5. inbox' \in [Clients -> Seq(Reply)]
      BY <2>3, <2>4 DEF TypeInv
    <2>6. \A q \in Clients : \A i \in 1 .. Len(inbox'[q]) : inbox'[q][i].to = Endpoint[q]
      BY <2>3, <2>4 DEF TypeInv
    <2>7. numbers' \in [Clients -> Seq(1 .. MaxCounter)] /\ pc' \in [Clients -> Places]
      <3>1. CASE UNCHANGED <<numbers, pc>>
        BY <3>1 DEF TypeInv
      <3>2. CASE numbers' = [numbers EXCEPT ![p] = Append(numbers[p], Head(inbox[p]).counter)]
                 /\ pc' = [pc EXCEPT ![p] = "prompt"]
        <4>1. Head(inbox[p]).counter \in 1 .. MaxCounter
          BY <2>3 DEF Reply
        <4>2. Append(numbers[p], Head(inbox[p]).counter) \in Seq(1 .. MaxCounter)
          BY <4>1, AppendProperties DEF TypeInv
        <4> QED
          BY <3>2, <4>2 DEF TypeInv, Places
      <3> QED
        BY <1>4, <3>1, <3>2 DEF Receive
    <2> QED
      BY <2>1, <2>5, <2>6, <2>7 DEF TypeInv
  <1>5. ASSUME NEW p \in Clients, Leave(p) PROVE TypeInv'
    <2>1. /\ pc' = [pc EXCEPT ![p] = "off"] /\ inbox' = [inbox EXCEPT ![p] = <<>>]
          /\ toServer' = toServer \o <<[from |-> Endpoint[p], type |-> "close"]>>
          /\ UNCHANGED <<interrupted, text, numbers, counter, toClients, inputs, faults, fresh, disturbed>>
      BY <1>5 DEF Leave, Farewell
    <2>2. [from |-> Endpoint[p], type |-> "close"] \in Request \union Close
      BY DEF Close, Endpoints
    <2>3. toServer' \in Seq(Request \union Close)
      BY <2>1, <2>2, ConcatProperties DEF TypeInv
    <2>4. <<>> \in Seq(Reply) /\ Len(<<>>) = 0
      BY EmptySeq
    <2> QED
      BY <2>1, <2>3, <2>4 DEF TypeInv, Places
  <1>6. ASSUME NEW p \in Clients, Interrupt(p) PROVE TypeInv'
    <2>1. /\ interrupted' = [interrupted EXCEPT ![p] = TRUE]
          /\ UNCHANGED <<pc, text, inbox, numbers, counter, toServer, toClients, faults, fresh,
                         disturbed>>
      BY <1>6 DEF Interrupt, net
    <2>2. inputs' \in 0 .. MaxInputs
      BY <1>6 DEF Interrupt, Input, TypeInv, RawUdpEchoAssumption
    <2> QED
      BY <2>1, <2>2 DEF TypeInv
  <1>7. ASSUME NEW p \in Clients, Kill(p) PROVE TypeInv'
    <2>1. <<>> \in Seq(Reply) /\ Len(<<>>) = 0
      BY EmptySeq
    <2>2. Endpoint[p] \in Endpoints
      BY DEF Endpoints
    <2>3. /\ pc' = [pc EXCEPT ![p] = "off"] /\ inbox' = [inbox EXCEPT ![p] = <<>>]
          /\ disturbed' = disturbed \union {Endpoint[p]}
          /\ UNCHANGED <<interrupted, text, numbers, counter, toServer, toClients, inputs, fresh>>
      BY <1>7 DEF Kill, net
    <2>4. faults' \in 0 .. MaxFaults
      BY <1>7 DEF Kill, Fault, TypeInv, RawUdpEchoAssumption
    <2> QED
      BY <2>1, <2>2, <2>3, <2>4 DEF TypeInv, Places
  <1>8. ASSUME NEW i \in DOMAIN toServer, Handle(i) PROVE TypeInv'
    <2>1. i \in 1 .. Len(toServer)
      BY LenProperties DEF TypeInv
    <2>2. toServer[i] \in Request \union Close
      BY <2>1, ElementOfSeq DEF TypeInv
    <2>3. toServer[i].from \in Endpoints
      BY <2>2 DEF Request, Close
    <2>4. toServer' \in Seq(Request \union Close)
      BY <1>8, <2>1, Removal DEF Handle, TypeInv
    <2>5. disturbed' \subseteq Endpoints
      BY <1>8, <2>3 DEF Handle, TypeInv
    <2>6. UNCHANGED <<pc, interrupted, text, inbox, numbers, inputs, faults, fresh>>
      BY <1>8 DEF Handle, process
    <2>7. counter' \in [Endpoints -> 0 .. MaxCounter] /\ toClients' \in Seq(Reply)
      <3>1. CASE counter' = Forget(toServer[i].from) /\ UNCHANGED toClients
        <4>1. 0 \in 0 .. MaxCounter
          BY DEF RawUdpEchoAssumption
        <4>2. counter' = [counter EXCEPT ![toServer[i].from] = 0] /\ toClients' = toClients
          BY <3>1 DEF Forget
        <4> QED
          BY <4>1, <4>2 DEF TypeInv
      <3>2. CASE UNCHANGED <<counter, toClients>>
        BY <3>2 DEF TypeInv
      <3>3. CASE /\ toServer[i].type = "request" /\ ~AtLimit(toServer[i].from)
                 /\ counter' = [counter EXCEPT ![toServer[i].from] = @ + 1]
                 /\ toClients' = Append(toClients,
                        [to |-> toServer[i].from, counter |-> counter[toServer[i].from] + 1,
                         text |-> toServer[i].text])
        <4>1. counter[toServer[i].from] + 1 \in 1 .. MaxCounter
          BY <2>3, <3>3 DEF AtLimit, TypeInv, RawUdpEchoAssumption
        <4>2. toServer[i].text \in Texts
          BY <2>2, <3>3 DEF Request, Close
        <4>3. [to |-> toServer[i].from, counter |-> counter[toServer[i].from] + 1,
               text |-> toServer[i].text] \in Reply
          BY <2>3, <4>1, <4>2 DEF Reply
        <4>4. toClients' \in Seq(Reply)
          BY <3>3, <4>3, AppendProperties DEF TypeInv
        <4> QED
          <5>1. counter[toServer[i].from] + 1 \in 0 .. MaxCounter
            BY <4>1
          <5>2. counter' = [counter EXCEPT ![toServer[i].from] = counter[toServer[i].from] + 1]
            BY <3>3
          <5>3. counter' \in [Endpoints -> 0 .. MaxCounter]
            BY <5>1, <5>2 DEF TypeInv
          <5> QED
            BY <4>4, <5>3
      <3> QED
        BY <1>8, <3>1, <3>2, <3>3 DEF Handle
    <2> QED
      BY <2>4, <2>5, <2>6, <2>7 DEF TypeInv
  <1>9. ASSUME NEW i \in DOMAIN toClients, Deliver(i) PROVE TypeInv'
    <2>1. i \in 1 .. Len(toClients)
      BY LenProperties DEF TypeInv
    <2>2. toClients[i] \in Reply
      BY <2>1, ElementOfSeq DEF TypeInv
    <2>3. toClients' \in Seq(Reply)
      BY <1>9, <2>1, Removal DEF Deliver, TypeInv
    <2>4. /\ inbox' = [q \in Clients |-> IF Open(q) /\ Endpoint[q] = toClients[i].to
                                         THEN Append(inbox[q], toClients[i]) ELSE inbox[q]]
          /\ UNCHANGED <<pc, interrupted, text, numbers, counter, toServer, inputs, faults,
                         fresh, disturbed>>
      BY <1>9 DEF Deliver
    <2>5. ASSUME NEW q \in Clients
          PROVE  inbox'[q] \in Seq(Reply) /\ \A j \in 1 .. Len(inbox'[q]) : inbox'[q][j].to = Endpoint[q]
      <3>1. inbox[q] \in Seq(Reply) /\ \A j \in 1 .. Len(inbox[q]) : inbox[q][j].to = Endpoint[q]
        BY DEF TypeInv
      <3>2. CASE Open(q) /\ Endpoint[q] = toClients[i].to
        <4>1. inbox'[q] = Append(inbox[q], toClients[i])
          BY <2>4, <3>2
        <4>2. PICK n \in Nat : n = Len(inbox[q])
          BY <3>1, LenProperties
        <4>3. /\ inbox'[q] \in Seq(Reply) /\ Len(inbox'[q]) = n + 1
              /\ \A j \in 1 .. n : inbox'[q][j] = inbox[q][j]
              /\ inbox'[q][n + 1] = toClients[i]
          BY <2>2, <3>1, <4>1, <4>2, AppendProperties
        <4> QED
          BY <3>1, <3>2, <4>2, <4>3
      <3>3. CASE ~(Open(q) /\ Endpoint[q] = toClients[i].to)
        BY <2>4, <3>1, <3>3
      <3> QED
        BY <3>2, <3>3
    <2>6. inbox' \in [Clients -> Seq(Reply)]
      BY <2>4, <2>5
    <2> QED
      BY <2>3, <2>4, <2>5, <2>6 DEF TypeInv
  <1>10. ASSUME Lose PROVE TypeInv'
    <2>1. UNCHANGED <<pc, interrupted, text, inbox, numbers, counter, inputs, fresh>>
      BY <1>10 DEF Lose, process
    <2>2. faults' \in 0 .. MaxFaults
      BY <1>10 DEF Lose, Fault, TypeInv, RawUdpEchoAssumption
    <2>3. ASSUME NEW i \in DOMAIN toServer, toServer' = RemoveAt(toServer, i),
                 disturbed' = disturbed \union
                    (IF toServer[i].type = "close" THEN {toServer[i].from} ELSE {}),
                 UNCHANGED toClients
          PROVE  TypeInv'
      <3>1. i \in 1 .. Len(toServer)
        BY LenProperties DEF TypeInv
      <3>2. toServer[i] \in Request \union Close /\ toServer' \in Seq(Request \union Close)
        BY <2>3, <3>1, ElementOfSeq, Removal DEF TypeInv
      <3>3. disturbed' \subseteq Endpoints
        BY <2>3, <3>2 DEF TypeInv, Request, Close
      <3> QED
        BY <2>1, <2>2, <2>3, <3>2, <3>3 DEF TypeInv
    <2>4. ASSUME NEW i \in DOMAIN toClients, toClients' = RemoveAt(toClients, i),
                 UNCHANGED <<toServer, disturbed>>
          PROVE  TypeInv'
      <3>1. i \in 1 .. Len(toClients)
        BY LenProperties DEF TypeInv
      <3>2. toClients' \in Seq(Reply)
        BY <2>4, <3>1, Removal DEF TypeInv
      <3> QED
        BY <2>1, <2>2, <2>4, <3>2 DEF TypeInv
    <2> QED
      BY <1>10, <2>3, <2>4 DEF Lose
  <1>11. ASSUME RestartServer PROVE TypeInv'
    BY <1>11 DEF RestartServer, Fault, process, net, TypeInv, RawUdpEchoAssumption
  <1>12. CASE UNCHANGED vars
    BY <1>12 DEF vars, process, net, TypeInv
  <1> QED
    BY <1>1, <1>2, <1>3, <1>4, <1>5, <1>6, <1>7, <1>8, <1>9, <1>10, <1>11, <1>12 DEF Next

-----------------------------------------------------------------------------
(* What a datagram of the endpoint itself changes.                         *)

NothingBefore(i, e) == \A j \in 1 .. i - 1 : toServer[j].from # e

\* The queue of n datagrams loses the i-th: element j of the m that stay was element h[j].
Moved(i, h, n, m) ==
    /\ n \in Nat /\ m \in Int
    /\ n = Len(toServer) /\ m = Len(toServer') /\ m = n - 1
    /\ \A j \in 1 .. m : h[j] \in 1 .. n /\ h[j] # i /\ toServer'[j] = toServer[h[j]]
    /\ \A j, k \in 1 .. m : h[j] < h[k] <=> j < k
    /\ \A k \in 1 .. n : k # i => \E j \in 1 .. m : h[j] = k

LEMMA ServerPlaces ==
    ASSUME NEW i \in 1 .. Len(toServer), TypeInv, toServer' = RemoveAt(toServer, i)
    PROVE  \E h, n, m : Moved(i, h, n, m)
  <1>1. PICK h : Without(toServer, i, h, toServer')
    BY RemovalKeeps DEF TypeInv
  <1>2. PICK n \in Nat, m \in Int : n = Len(toServer) /\ m = Len(toServer') /\ m = n - 1
    BY <1>1, LenProperties DEF TypeInv, Without
  <1>3. /\ h \in [1 .. m -> 1 .. n]
        /\ \A j \in 1 .. m : toServer'[j] = toServer[h[j]] /\ h[j] # i
        /\ \A j, k \in 1 .. m : j < k => h[j] < h[k]
        /\ \A k \in 1 .. n : k # i => \E j \in 1 .. m : h[j] = k
    BY <1>1, <1>2, Zenon DEF Without, Kept
  <1>4. \A j \in 1 .. m : h[j] \in 1 .. n
    BY <1>3
  <1>5. ASSUME NEW j \in 1 .. m, NEW k \in 1 .. m, h[j] < h[k] PROVE j < k
    <2>1. ~(k < j) /\ k # j
      BY <1>3, <1>4, <1>5
    <2> QED
      BY <2>1
  <1>6. Moved(i, h, n, m)
    BY <1>2, <1>3, <1>4, <1>5 DEF Moved
  <1> QED
    BY <1>6

\* One that is handled or lost.
LEMMA OwnRemoval ==
    ASSUME NEW e, NEW i \in 1 .. Len(toServer), TypeInv, toServer' = RemoveAt(toServer, i)
    PROVE  /\ NoRequest(e) => NoRequest(e)'
           /\ NoClose(e) => NoClose(e)'
           /\ OneRequest(e) /\ ~Asks(toServer[i], e) => OneRequest(e)'
           /\ OneRequest(e) /\ Asks(toServer[i], e) => NoRequest(e)'
           /\ OneRequest(e) /\ Asks(toServer[i], e) /\ NothingBefore(i, e)
                 => NoClose(e) /\ NoClose(e)'
           /\ \A t : Carries(e, t) => Carries(e, t)'
           /\ LastIsClose(e) /\ ~Closes(toServer[i], e) => LastIsClose(e)'
           /\ LastIsClose(e) /\ NothingBefore(i, e) => LastIsClose(e)' \/ NothingFrom(e)'
  <1>0. PICK h, n, m : Moved(i, h, n, m)
    BY ServerPlaces
  <1>1. /\ n \in Nat /\ m \in Int
        /\ n = Len(toServer) /\ m = Len(toServer') /\ m = n - 1
        /\ \A j \in 1 .. m : h[j] \in 1 .. n /\ h[j] # i /\ toServer'[j] = toServer[h[j]]
        /\ \A j, k \in 1 .. m : h[j] < h[k] <=> j < k
        /\ \A k \in 1 .. n : k # i => \E j \in 1 .. m : h[j] = k
    BY <1>0 DEF Moved
  <1>2. NoRequest(e) => NoRequest(e)'
    BY <1>1 DEF NoRequest
  <1>3. NoClose(e) => NoClose(e)'
    BY <1>1 DEF NoClose
  <1>4. ASSUME OneRequest(e) /\ ~Asks(toServer[i], e) PROVE OneRequest(e)'
    <2>1. PICK k \in 1 .. n : /\ Asks(toServer[k], e)
                              /\ \A j \in 1 .. n : toServer[j].from = e /\ j # k
                                                      => j < k /\ Closes(toServer[j], e)
      BY <1>1, <1>4 DEF OneRequest
    <2>0. k # i
      BY <1>4, <2>1
    <2>2. PICK l \in 1 .. m : h[l] = k /\ toServer'[l] = toServer[k]
      BY <1>1, <2>0
    <2>3. ASSUME NEW j \in 1 .. m, toServer'[j].from = e, j # l
          PROVE  j < l /\ Closes(toServer'[j], e)
      <3>1. h[j] \in 1 .. n /\ toServer'[j] = toServer[h[j]]
        BY <1>1
      <3>2. h[j] # k
        <4>1. j < l \/ l < j
          BY <2>3
        <4> QED
          BY <1>1, <2>2, <3>1, <4>1
      <3>3. h[j] < h[l] /\ Closes(toServer[h[j]], e)
        BY <2>1, <2>2, <2>3, <3>1, <3>2
      <3> QED
        BY <1>1, <3>1, <3>3
    <2>4. l \in 1 .. Len(toServer') /\ Asks(toServer'[l], e)
      BY <1>1, <2>1, <2>2
    <2> QED
      BY <1>1, <2>3, <2>4 DEF OneRequest
  <1>5. ASSUME OneRequest(e) /\ Asks(toServer[i], e)
        PROVE  \A j \in 1 .. n : j # i /\ toServer[j].from = e => j < i /\ Closes(toServer[j], e)
    <2>1. PICK k \in 1 .. n : /\ Asks(toServer[k], e)
                              /\ \A j \in 1 .. n : toServer[j].from = e /\ j # k
                                                      => j < k /\ Closes(toServer[j], e)
      BY <1>1, <1>5 DEF OneRequest
    <2>2. k = i
      <3>1. i \in 1 .. n /\ toServer[i].from = e /\ ~Closes(toServer[i], e)
        BY <1>1, <1>5 DEF Asks, Closes
      <3> QED
        BY <2>1, <3>1
    <2> QED
      BY <2>1, <2>2
  <1>6. ASSUME OneRequest(e) /\ Asks(toServer[i], e) PROVE NoRequest(e)'
    <2> SUFFICES ASSUME NEW j \in 1 .. m, Asks(toServer'[j], e) PROVE FALSE
      BY <1>1 DEF NoRequest
    <2>1. h[j] \in 1 .. n /\ h[j] # i /\ toServer'[j] = toServer[h[j]]
      BY <1>1
    <2>2. Closes(toServer[h[j]], e)
      BY <1>5, <1>6, <2>1 DEF Asks
    <2> QED
      BY <2>1, <2>2 DEF Asks, Closes
  <1>7. ASSUME OneRequest(e) /\ Asks(toServer[i], e) /\ NothingBefore(i, e) PROVE NoClose(e)'
    <2> SUFFICES ASSUME NEW j \in 1 .. m, Closes(toServer'[j], e) PROVE FALSE
      BY <1>1 DEF NoClose
    <2>1. h[j] \in 1 .. n /\ h[j] # i /\ toServer'[j] = toServer[h[j]]
      BY <1>1
    <2>2. h[j] < i /\ toServer[h[j]].from = e
      BY <1>5, <1>7, <2>1 DEF Closes
    <2> QED
      BY <1>1, <1>7, <2>1, <2>2 DEF NothingBefore
  <1>8. ASSUME NEW k \in 1 .. n, k # i, Closes(toServer[k], e),
               \A j \in 1 .. n : k < j => toServer[j].from # e
        PROVE  LastIsClose(e)'
    <2>1. PICK l \in 1 .. m : h[l] = k /\ toServer'[l] = toServer[k]
      BY <1>1, <1>8
    <2>2. ASSUME NEW j \in 1 .. m, l < j PROVE toServer'[j].from # e
      <3>1. k < h[j] /\ h[j] \in 1 .. n /\ toServer'[j] = toServer[h[j]]
        BY <1>1, <2>1, <2>2
      <3> QED
        BY <1>8, <3>1
    <2>3. l \in 1 .. Len(toServer') /\ Closes(toServer'[l], e)
      BY <1>1, <1>8, <2>1
    <2> QED
      BY <1>1, <2>2, <2>3 DEF LastIsClose
  <1>9. ASSUME LastIsClose(e) /\ ~Closes(toServer[i], e) PROVE LastIsClose(e)'
    BY <1>1, <1>8, <1>9 DEF LastIsClose
  <1>10. ASSUME LastIsClose(e) /\ NothingBefore(i, e) PROVE LastIsClose(e)' \/ NothingFrom(e)'
    <2>1. PICK k \in 1 .. n : Closes(toServer[k], e) /\ \A j \in 1 .. n : k < j => toServer[j].from # e
      BY <1>1, <1>10 DEF LastIsClose
    <2>2. CASE k # i
      BY <1>8, <2>1, <2>2
    <2>3. CASE k = i
      <3> SUFFICES ASSUME NEW j \in 1 .. m, toServer'[j].from = e PROVE FALSE
        BY <1>1 DEF NothingFrom
      <3>1. h[j] \in 1 .. n /\ h[j] # i /\ toServer[h[j]].from = e
        BY <1>1
      <3>2. h[j] \in 1 .. i - 1
        BY <1>1, <2>1, <2>3, <3>1
      <3> QED
        BY <1>10, <3>1, <3>2 DEF NothingBefore
    <2> QED
      BY <2>2, <2>3
  <1>11. ASSUME OneRequest(e) /\ Asks(toServer[i], e) /\ NothingBefore(i, e) PROVE NoClose(e)
    <2> SUFFICES ASSUME NEW j \in 1 .. n, Closes(toServer[j], e) PROVE FALSE
      BY <1>1 DEF NoClose
    <2>1. j # i /\ toServer[j].from = e
      BY <1>11 DEF Asks, Closes
    <2>2. j \in 1 .. i - 1
      BY <1>1, <1>5, <1>11, <2>1
    <2> QED
      BY <1>11, <2>1, <2>2 DEF NothingBefore
  <1>12. ASSUME NEW t, Carries(e, t) PROVE Carries(e, t)'
    <2> SUFFICES ASSUME NEW j \in 1 .. m, Asks(toServer'[j], e) PROVE toServer'[j].text = t
      BY <1>1 DEF Carries
    <2>1. h[j] \in 1 .. n /\ toServer'[j] = toServer[h[j]]
      BY <1>1
    <2> QED
      BY <1>1, <1>12, <2>1 DEF Carries
  <1> QED
    BY <1>2, <1>3, <1>4, <1>6, <1>7, <1>9, <1>10, <1>11, <1>12

\* A request or a CLOSE that is sent.
LEMMA OwnAppend ==
    ASSUME NEW e, NEW m \in Request \union Close, m.from = e, TypeInv,
           toServer' = Append(toServer, m)
    PROVE  /\ Asks(m, e) /\ NoRequest(e) => OneRequest(e)' /\ Carries(e, m.text)'
           /\ Asks(m, e) => (NoClose(e)' <=> NoClose(e))
           /\ Closes(m, e) => LastIsClose(e)'
  <1>1. PICK n \in Nat : n = Len(toServer)
    BY LenProperties DEF TypeInv
  <1>2. Len(toServer') = n + 1 /\ toServer'[n + 1] = m /\ \A j \in 1 .. n : toServer'[j] = toServer[j]
    BY <1>1, AppendProperties DEF TypeInv
  <1>3. \A j \in 1 .. n + 1 : j \in 1 .. n \/ j = n + 1
    BY <1>1
  <1>4. \A j \in 1 .. n : j \in 1 .. n + 1 /\ j < n + 1
    BY <1>1
  <1>5. n + 1 \in 1 .. n + 1 /\ \A j \in 1 .. n + 1 : ~(n + 1 < j)
    BY <1>1
  <1>6. ASSUME NEW j \in 1 .. n PROVE toServer[j] \in Request \union Close
    BY <1>1, ElementOfSeq DEF TypeInv
  <1>7. ASSUME Asks(m, e), NoRequest(e) PROVE OneRequest(e)'
    <2>1. ASSUME NEW j \in 1 .. n + 1, toServer'[j].from = e, j # n + 1
          PROVE  j < n + 1 /\ Closes(toServer'[j], e)
      <3>1. j \in 1 .. n /\ toServer'[j] = toServer[j] /\ toServer[j] \in Request \union Close
        BY <1>2, <1>3, <1>6, <2>1
      <3>2. ~Asks(toServer[j], e)
        BY <1>1, <1>7, <3>1 DEF NoRequest
      <3> QED
        BY <1>4, <2>1, <3>1, <3>2 DEF Asks, Closes, Request, Close
    <2> QED
      BY <1>2, <1>5, <1>7, <2>1 DEF OneRequest
  <1>8. Asks(m, e) => (NoClose(e)' <=> NoClose(e))
    BY <1>1, <1>2, <1>3, <1>4 DEF NoClose, Closes, Asks
  <1>9. Closes(m, e) => LastIsClose(e)'
    BY <1>2, <1>5 DEF LastIsClose
  <1>10. ASSUME Asks(m, e), NoRequest(e) PROVE Carries(e, m.text)'
    BY <1>1, <1>2, <1>3, <1>10 DEF Carries, NoRequest
  <1> QED
    BY <1>7, <1>8, <1>9, <1>10

\* A reply that is delivered or lost, and one that is sent.
LEMMA OwnReplyRemoval ==
    ASSUME NEW p \in Clients, NEW i \in 1 .. Len(toClients), toClients[i].to = Endpoint[p],
           TypeInv, toClients' = RemoveAt(toClients, i)
    PROVE  /\ ~NoReply(Endpoint[p])
           /\ OneReply(p) => /\ NoReply(Endpoint[p])'
                             /\ toClients[i].counter = Len(numbers[p]) + 1
                             /\ toClients[i].text = text[p]
  <1>1. PICK h : Without(toClients, i, h, toClients')
    BY RemovalKeeps DEF TypeInv
  <1>2. PICK n \in Nat, m \in Int : n = Len(toClients) /\ m = Len(toClients') /\ m = n - 1
    BY <1>1, LenProperties DEF TypeInv, Without
  <1>3. /\ h \in [1 .. m -> 1 .. n]
        /\ \A j \in 1 .. m : toClients'[j] = toClients[h[j]] /\ h[j] # i
    BY <1>1, <1>2, Zenon DEF Without, Kept
  <1>4. ~NoReply(Endpoint[p])
    BY DEF NoReply
  <1>5. ASSUME OneReply(p)
        PROVE  /\ NoReply(Endpoint[p])'
               /\ toClients[i].counter = Len(numbers[p]) + 1 /\ toClients[i].text = text[p]
    <2>1. PICK k \in 1 .. n :
             /\ toClients[k].counter = Len(numbers[p]) + 1 /\ toClients[k].text = text[p]
             /\ \A j \in 1 .. n : toClients[j].to = Endpoint[p] => j = k
      BY <1>2, <1>5 DEF OneReply
    <2>2. k = i
      BY <1>2, <2>1
    <2>3. ASSUME NEW j \in 1 .. m PROVE toClients'[j].to # Endpoint[p]
      <3>1. h[j] \in 1 .. n /\ h[j] # i /\ toClients'[j] = toClients[h[j]]
        BY <1>3
      <3> QED
        BY <2>1, <2>2, <3>1
    <2> QED
      BY <1>2, <2>1, <2>2, <2>3 DEF NoReply
  <1> QED
    BY <1>4, <1>5

LEMMA OwnReplyAppend ==
    ASSUME NEW p \in Clients, NEW m \in Reply, TypeInv, NoReply(Endpoint[p]),
           m.to = Endpoint[p], m.counter = Len(numbers[p]) + 1, m.text = text[p],
           toClients' = Append(toClients, m), numbers' = numbers, text' = text
    PROVE  OneReply(p)'
  <1>1. PICK n \in Nat : n = Len(toClients)
    BY LenProperties DEF TypeInv
  <1>2. /\ Len(toClients') = n + 1 /\ toClients'[n + 1] = m
        /\ \A j \in 1 .. n : toClients'[j] = toClients[j]
    BY <1>1, AppendProperties DEF TypeInv
  <1>3. ASSUME NEW j \in 1 .. n + 1, toClients'[j].to = Endpoint[p] PROVE j = n + 1
    <2>1. CASE j \in 1 .. n
      BY <1>1, <1>2, <1>3, <2>1 DEF NoReply
    <2> QED
      BY <2>1
  <1>4. n + 1 \in 1 .. n + 1
    BY <1>1
  <1> QED
    BY <1>2, <1>3, <1>4 DEF OneReply

-----------------------------------------------------------------------------
(* The server forgets.                                                     *)

LEMMA AppendOne == ASSUME NEW S, NEW s \in Seq(S), NEW x \in S PROVE s \o <<x>> = Append(s, x)
  BY AppendIsConcat

LEMMA ForgetStep ==
    ASSUME RawUdpEchoAssumption, TypeInv, ForgetInv, [Next]_vars
    PROVE  ForgetInv'
  <1> SUFFICES ASSUME NEW e \in Endpoints, e \notin disturbed', Nobody(e)'
               PROVE  (LastIsClose(e) \/ (counter[e] = 0 /\ NothingFrom(e)))'
    BY DEF ForgetInv
  <1> DEFINE Forgotten0 == LastIsClose(e) \/ (counter[e] = 0 /\ NothingFrom(e))
  <1>1. ASSUME Nobody(e), e \notin disturbed PROVE Forgotten0
    BY <1>1 DEF ForgetInv
  <1>2. ASSUME Nobody(e), e \notin disturbed, SameAtServer(e), counter'[e] = counter[e]
        PROVE  Forgotten0'
    <2>1. Forgotten0
      BY <1>1, <1>2
    <2> QED
      BY <1>2, <2>1 DEF SameAtServer
  <1> HIDE DEF Forgotten0
  <1>3. ASSUME UNCHANGED <<toServer, counter, disturbed>>,
               \A p \in Clients : Endpoint[p] = e => (Open(p) => Open(p)')
        PROVE  Forgotten0'
    <2>1. Nobody(e)
      BY <1>3 DEF Nobody
    <2> QED
      BY <1>2, <1>3, <2>1, ServerQueueKept
  <1>4. ASSUME NEW p \in Clients, Start(p) PROVE Forgotten0'
    <2>1. UNCHANGED <<toServer, counter, disturbed>>
      BY <1>4 DEF Start, net
    <2>2. pc' = [pc EXCEPT ![p] = "prompt"]
      BY <1>4 DEF Start
    <2> QED
      BY <1>3, <2>1, <2>2 DEF Open, TypeInv
  <1>5. ASSUME NEW p \in Clients, NEW t \in Texts, Type(p, t) PROVE Forgotten0'
    <2>1. UNCHANGED <<counter, disturbed>> /\ pc[p] = "prompt"
      BY <1>5 DEF Type
    <2>2. \A q \in Clients : Open(q)' <=> Open(q)
      BY <1>5 DEF Type, Open, TypeInv
    <2>3. Endpoint[p] # e
      BY <2>1, <2>2 DEF Nobody, Open
    <2>4. Nobody(e)
      BY <2>2 DEF Nobody
    <2>5. CASE interrupted[p]
      <3>1. toServer' = toServer
        BY <1>5, <2>5 DEF Type
      <3> QED
        BY <1>3, <2>1, <2>2, <3>1
    <2>6. CASE ~interrupted[p]
      <3>1. PICK m : m = [from |-> Endpoint[p], type |-> "request", text |-> t]
        OBVIOUS
      <3>2. toServer' = Append(toServer, m)
        BY <1>5, <2>6, <3>1 DEF Type
      <3>3. m \in Request \union Close /\ m.from # e
        BY <2>3, <3>1 DEF Request, Endpoints
      <3>4. SameAtServer(e)
        BY <3>2, <3>3, ForeignAppend
      <3> QED
        BY <1>2, <2>1, <2>4, <3>4
    <2> QED
      BY <2>5, <2>6
  <1>6. ASSUME NEW p \in Clients, Quit(p) \/ Notice(p) \/ Receive(p) \/ Interrupt(p) PROVE Forgotten0'
    <2>1. UNCHANGED <<toServer, counter, disturbed>>
      BY <1>6 DEF Quit, Notice, Receive, Interrupt, net
    <2>2. \A q \in Clients : Open(q) => Open(q)'
      BY <1>6 DEF Quit, Notice, Receive, Interrupt, Open, TypeInv
    <2> QED
      BY <1>3, <2>1, <2>2
  <1>7. ASSUME NEW p \in Clients, Leave(p) PROVE Forgotten0'
    <2>1. UNCHANGED <<counter, disturbed>> /\ pc' = [pc EXCEPT ![p] = "off"]
      BY <1>7 DEF Leave
    <2>2. PICK m : m = [from |-> Endpoint[p], type |-> "close"]
      OBVIOUS
    <2>3. m \in Request \union Close /\ m.from = Endpoint[p] /\ m.type = "close"
      BY <2>2 DEF Close, Endpoints
    <2>4. toServer' = Append(toServer, m)
      <3>1. toServer' = toServer \o <<m>>
        BY <1>7, <2>2 DEF Leave, Farewell
      <3> QED
        BY <2>3, <3>1, AppendOne DEF TypeInv
    <2>5. CASE Endpoint[p] = e
      BY <2>3, <2>4, <2>5, OwnAppend DEF Forgotten0, Closes
    <2>6. CASE Endpoint[p] # e
      <3>1. Nobody(e)
        BY <2>1, <2>6 DEF Nobody, Open, TypeInv
      <3>2. SameAtServer(e)
        BY <2>3, <2>4, <2>6, ForeignAppend
      <3> QED
        BY <1>2, <2>1, <3>1, <3>2
    <2> QED
      BY <2>5, <2>6
  <1>8. ASSUME NEW p \in Clients, Kill(p) PROVE Forgotten0'
    <2>1. UNCHANGED <<toServer, counter>> /\ pc' = [pc EXCEPT ![p] = "off"]
          /\ disturbed' = disturbed \union {Endpoint[p]}
      BY <1>8 DEF Kill, net
    <2>2. Endpoint[p] # e /\ e \notin disturbed
      BY <2>1
    <2>3. Nobody(e)
      BY <2>1, <2>2 DEF Nobody, Open, TypeInv
    <2> QED
      BY <1>2, <2>1, <2>2, <2>3, ServerQueueKept
  <1>9. ASSUME NEW i \in DOMAIN toServer, Handle(i) PROVE Forgotten0'
    <2>1. i \in 1 .. Len(toServer)
      BY LenProperties DEF TypeInv
    <2>2. /\ toServer' = RemoveAt(toServer, i) /\ pc' = pc
          /\ disturbed' = disturbed \union
                (IF \E k \in 1..(i - 1) : toServer[k].from = toServer[i].from
                 THEN {toServer[i].from} ELSE {})
      BY <1>9 DEF Handle, process
    <2>3. e \notin disturbed /\ Nobody(e)
      BY <2>2 DEF Nobody, Open
    <2>4. toServer[i] \in Request \union Close
      BY <2>1, ElementOfSeq DEF TypeInv
    <2>5. toServer[i].from \in Endpoints
      BY <2>4 DEF Request, Close
    <2>6. CASE toServer[i].from # e
      <3>1. SameAtServer(e)
        BY <2>1, <2>2, <2>6, ForeignRemoval
      <3>2. counter'[e] = counter[e]
        BY <1>9, <2>5, <2>6 DEF Handle, Forget, TypeInv
      <3> QED
        BY <1>2, <2>3, <3>1, <3>2
    <2>7. CASE toServer[i].from = e
      <3>1. NothingBefore(i, e)
        BY <2>2, <2>7 DEF NothingBefore
      <3>2. LastIsClose(e)
        BY <1>1, <2>1, <2>3, <2>7 DEF Forgotten0, NothingFrom
      <3>3. CASE Closes(toServer[i], e)
        <4>1. counter'[e] = 0
          BY <1>9, <2>7, <3>3 DEF Handle, Forget, Closes, TypeInv
        <4> QED
          BY <2>1, <2>2, <3>1, <3>2, <4>1, OwnRemoval DEF Forgotten0
      <3>4. CASE ~Closes(toServer[i], e)
        BY <2>1, <2>2, <3>2, <3>4, OwnRemoval DEF Forgotten0
      <3> QED
        BY <3>3, <3>4
    <2> QED
      BY <2>6, <2>7
  <1>10. ASSUME NEW i \in DOMAIN toClients, Deliver(i) PROVE Forgotten0'
    <2>1. UNCHANGED <<toServer, counter, disturbed, pc>>
      BY <1>10 DEF Deliver
    <2> QED
      BY <1>3, <2>1 DEF Open
  <1>11. ASSUME Lose PROVE Forgotten0'
    <2>1. counter' = counter /\ pc' = pc
      BY <1>11 DEF Lose, process
    <2>2. Nobody(e)
      BY <2>1 DEF Nobody, Open
    <2>3. ASSUME NEW i \in DOMAIN toServer, toServer' = RemoveAt(toServer, i),
                 disturbed' = disturbed \union
                    (IF toServer[i].type = "close" THEN {toServer[i].from} ELSE {})
          PROVE  Forgotten0'
      <3>1. i \in 1 .. Len(toServer)
        BY LenProperties DEF TypeInv
      <3>2. e \notin disturbed
        BY <2>3
      <3>3. CASE toServer[i].from # e
        <4>1. SameAtServer(e)
          BY <2>3, <3>1, <3>3, ForeignRemoval
        <4> QED
          BY <1>2, <2>1, <2>2, <3>2, <4>1
      <3>4. CASE toServer[i].from = e
        <4>1. ~Closes(toServer[i], e)
          BY <2>3, <3>4 DEF Closes
        <4>2. LastIsClose(e)
          BY <1>1, <2>2, <3>1, <3>2, <3>4 DEF Forgotten0, NothingFrom
        <4> QED
          BY <2>3, <3>1, <4>1, <4>2, OwnRemoval DEF Forgotten0
      <3> QED
        BY <3>3, <3>4
    <2>4. ASSUME UNCHANGED <<toServer, disturbed>> PROVE Forgotten0'
      BY <1>3, <2>1, <2>4 DEF Open
    <2> QED
      BY <1>11, <2>3, <2>4 DEF Lose
  <1>12. ASSUME RestartServer PROVE Forgotten0'
    <2>1. /\ UNCHANGED <<toServer, pc>> /\ counter'[e] = 0
          /\ e \notin disturbed
      BY <1>12 DEF RestartServer, process, net
    <2>2. Nobody(e)
      BY <2>1 DEF Nobody, Open
    <2>3. Forgotten0
      BY <1>1, <2>1, <2>2
    <2> QED
      BY <2>1, <2>3, ServerQueueKept DEF Forgotten0, SameAtServer
  <1>13. ASSUME UNCHANGED vars PROVE Forgotten0'
    BY <1>3, <1>13 DEF vars, process, net, Open
  <1>14. Forgotten0'
    BY <1>4, <1>5, <1>6, <1>7, <1>8, <1>9, <1>10, <1>11, <1>12, <1>13 DEF Next
  <1> QED
    BY <1>14 DEF Forgotten0

-----------------------------------------------------------------------------
(* A run that owns its endpoint.                                           *)

\* Nothing of a run can arrive twice: what each state of it allows.
LEMMA OwnerStates ==
    ASSUME NEW p \in Clients, OwnerInv(p)
    PROVE  /\ OneReply(p) => ~NoReply(Endpoint[p])
           /\ OneRequest(Endpoint[p]) => ~NoRequest(Endpoint[p])
           /\ ~NoReply(Endpoint[p]) => pc[p] # "prompt" /\ Answered(p)
           /\ ~NoRequest(Endpoint[p]) => pc[p] # "prompt" /\ Asked(p)
           /\ inbox[p] # <<>> => pc[p] # "prompt" /\ Delivered(p)
           /\ Idle(p) \/ Asked(p) \/ Answered(p) \/ Delivered(p)
  BY DEF OwnerInv, Idle, Asked, Answered, Delivered, OneReply, NoReply, OneRequest, NoRequest

LEMMA OwnerStart ==
    ASSUME NEW p \in Clients, TypeInv, ForgetInv, Start(p), Owns(p)'
    PROVE  OwnerInv(p)'
  <1> DEFINE e == Endpoint[p]
  <1>1. /\ ~Open(p) /\ pc' = [pc EXCEPT ![p] = "prompt"] /\ inbox' = [inbox EXCEPT ![p] = <<>>]
        /\ numbers' = [numbers EXCEPT ![p] = <<>>]
        /\ UNCHANGED <<counter, toServer, toClients, disturbed>>
    BY DEF Start, net
  <1>2. /\ {q \in Clients \ {p} : Open(q) /\ Endpoint[q] = Endpoint[p]} = {}
        /\ ~UnderWay(Endpoint[p])
    BY DEF Start, Owns
  <1>3. Nobody(e) /\ e \in Endpoints \ disturbed
    BY <1>1, <1>2 DEF Nobody, Endpoints, Owns
  <1>4. LastIsClose(e) \/ (counter[e] = 0 /\ NothingFrom(e))
    BY <1>3 DEF ForgetInv
  <1>5. NoRequest(e)
    <2> SUFFICES ASSUME NEW j \in 1 .. Len(toServer), Asks(toServer[j], e) PROVE FALSE
      BY DEF NoRequest
    <2>1. j \in DOMAIN toServer
      BY LenProperties DEF TypeInv
    <2> QED
      BY <1>2, <2>1 DEF UnderWay, Asks
  <1>6. NoReply(e)
    <2> SUFFICES ASSUME NEW j \in 1 .. Len(toClients), toClients[j].to = e PROVE FALSE
      BY DEF NoReply
    <2>1. j \in DOMAIN toClients
      BY LenProperties DEF TypeInv
    <2> QED
      BY <1>2, <2>1 DEF UnderWay
  <1>7. NoClose(e) => counter[e] = 0
    BY <1>4 DEF NoClose, LastIsClose
  <1>8. numbers'[p] = <<>> /\ Len(numbers'[p]) = 0 /\ inbox'[p] = <<>> /\ pc'[p] = "prompt"
    BY <1>1, EmptySeq DEF TypeInv
  <1>9. Idle(p)' /\ Agrees(p)'
    BY <1>1, <1>5, <1>6, <1>7, <1>8 DEF Idle, Agrees, NoRequest, NoReply, NoClose
  <1>10. \A q \in Clients : Open(q)' /\ Endpoint[q] = e => q = p
    BY <1>1, <1>2 DEF Open, TypeInv
  <1> QED
    BY <1>8, <1>9, <1>10 DEF OwnerInv

LEMMA OwnerType ==
    ASSUME NEW p \in Clients, NEW t \in Texts, TypeInv, Type(p, t), OwnerInv(p)
    PROVE  OwnerInv(p)'
  <1> DEFINE e == Endpoint[p]
  <1>1. /\ pc[p] = "prompt"
        /\ UNCHANGED <<inbox, numbers, counter, toClients>>
    BY DEF Type
  <1>2. Idle(p) /\ Agrees(p)
    BY <1>1 DEF OwnerInv
  <1>3. \A q \in Clients : Open(q)' <=> Open(q)
    BY DEF Type, Open, TypeInv
  <1>4. \A q \in Clients : Open(q)' /\ Endpoint[q] = e => q = p
    BY <1>3 DEF OwnerInv
  <1>5. \A i \in 1 .. Len(numbers'[p]) : numbers'[p][i] = i
    BY <1>1 DEF OwnerInv
  <1>6. CASE interrupted[p]
    <2>1. pc'[p] = "leave" /\ toServer' = toServer
      BY <1>6 DEF Type, TypeInv
    <2>2. Idle(p)'
      BY <1>1, <1>2, <2>1 DEF Idle, NoRequest, NoReply
    <2> QED
      BY <1>4, <1>5, <2>1, <2>2 DEF OwnerInv
  <1>7. CASE ~interrupted[p]
    <2>1. PICK m : m = [from |-> Endpoint[p], type |-> "request", text |-> t]
      OBVIOUS
    <2>2. toServer' = Append(toServer, m) /\ pc'[p] = "wait"
      BY <1>7, <2>1 DEF Type, TypeInv
    <2>3. m \in Request \union Close /\ Asks(m, e) /\ m.from = e
      BY <2>1 DEF Request, Endpoints, Asks
    <2>4. OneRequest(e)' /\ Carries(e, m.text)' /\ (NoClose(e)' <=> NoClose(e))
      BY <1>2, <2>2, <2>3, OwnAppend DEF Idle
    <2>5. Asked(p)'
      <3>1. m.text = text'[p]
        BY <1>7, <2>1 DEF Type, TypeInv
      <3> QED
        BY <1>1, <1>2, <2>4, <3>1 DEF Asked, Agrees, Idle, NoReply
    <2> QED
      BY <1>4, <1>5, <2>2, <2>5 DEF OwnerInv
  <1> QED
    BY <1>6, <1>7

LEMMA OwnerReceive ==
    ASSUME NEW p \in Clients, TypeInv, Receive(p), OwnerInv(p)
    PROVE  OwnerInv(p)'
  <1> DEFINE e == Endpoint[p]
             n == Len(numbers[p])
  <1>1. /\ pc[p] = "wait" /\ inbox[p] # <<>> /\ inbox' = [inbox EXCEPT ![p] = Tail(@)]
        /\ UNCHANGED <<text, counter, toServer, toClients>>
    BY DEF Receive, net
  <1>2. Delivered(p)
    BY <1>1, OwnerStates
  <1>3. Len(inbox[p]) = 1 /\ Head(inbox[p]).counter = n + 1 /\ Head(inbox[p]).text = text[p]
    <2>1. inbox[p] \in Seq(Reply)
      BY DEF TypeInv
    <2>2. Len(inbox[p]) = 1 /\ inbox[p][1].counter = n + 1 /\ inbox[p][1].text = text[p]
      BY <1>2 DEF Delivered, ReplyArrived
    <2>3. Head(inbox[p]) = inbox[p][1]
      BY <1>1, <2>1
    <2> QED
      BY <2>2, <2>3
  <1>4. inbox'[p] = <<>>
    <2>1. Tail(inbox[p]) \in Seq(Reply) /\ Len(Tail(inbox[p])) = 0
      BY <1>1, <1>3, HeadTailProperties DEF TypeInv
    <2>2. Tail(inbox[p]) = <<>>
      BY <2>1, EmptySeq
    <2> QED
      BY <1>1, <2>2 DEF TypeInv
  <1>5. /\ numbers' = [numbers EXCEPT ![p] = Append(numbers[p], n + 1)]
        /\ pc' = [pc EXCEPT ![p] = "prompt"]
    BY <1>3 DEF Receive, Matches
  <1>6. n \in Nat /\ numbers[p] \in Seq(1 .. MaxCounter) /\ n + 1 \in 1 .. MaxCounter
    <2>1. Head(inbox[p]) \in Reply
      BY <1>1, HeadTailProperties DEF TypeInv
    <2> QED
      BY <1>3, <2>1, LenProperties DEF TypeInv, Reply
  <1>7. numbers'[p] = Append(numbers[p], n + 1) /\ pc'[p] = "prompt"
    BY <1>5 DEF TypeInv
  <1>8. /\ Len(numbers'[p]) = n + 1 /\ numbers'[p][n + 1] = n + 1
        /\ \A i \in 1 .. n : numbers'[p][i] = numbers[p][i]
    BY <1>6, <1>7, AppendProperties
  <1>9. \A i \in 1 .. Len(numbers'[p]) : numbers'[p][i] = i
    <2> SUFFICES ASSUME NEW i \in 1 .. n + 1 PROVE numbers'[p][i] = i
      BY <1>8
    <2>1. CASE i \in 1 .. n
      BY <1>8, <2>1 DEF OwnerInv
    <2> QED
      BY <1>6, <1>8, <2>1
  <1>10. Idle(p)' /\ Agrees(p)'
    BY <1>1, <1>2, <1>4, <1>8 DEF Delivered, Ahead, Idle, Agrees, NoRequest, NoReply, NoClose
  <1>11. \A q \in Clients : Open(q)' /\ Endpoint[q] = e => q = p
    BY <1>1, <1>5 DEF OwnerInv, Open, TypeInv
  <1> QED
    BY <1>7, <1>9, <1>10, <1>11 DEF OwnerInv

LEMMA OwnerHandle ==
    ASSUME RawUdpEchoAssumption, NEW p \in Clients, NEW i \in 1 .. Len(toServer), TypeInv,
           Handle(i), OwnerInv(p), Endpoint[p] \notin disturbed'
    PROVE  OwnerInv(p)'
  <1> DEFINE e == Endpoint[p]
             n == Len(numbers[p])
  <1>1. /\ toServer' = RemoveAt(toServer, i)
        /\ UNCHANGED <<pc, interrupted, text, inbox, numbers>>
        /\ disturbed' = disturbed \union
              (IF \E k \in 1..(i - 1) : toServer[k].from = toServer[i].from
               THEN {toServer[i].from} ELSE {})
    BY DEF Handle, process
  <1>2. toServer[i] \in Request \union Close
    BY ElementOfSeq DEF TypeInv
  <1>3. toServer[i].from \in Endpoints /\ e \in Endpoints
    BY <1>2 DEF Request, Close, Endpoints
  <1>4. \A q \in Clients : Open(q)' <=> Open(q)
    BY <1>1 DEF Open
  <1>5. \A i_1 \in 1 .. Len(numbers'[p]) : numbers'[p][i_1] = i_1
    BY <1>1 DEF OwnerInv
  <1>6. CASE toServer[i].from # e
    <2>1. SameAtServer(e)
      BY <1>1, <1>6, ForeignRemoval
    <2>2. counter'[e] = counter[e]
      BY <1>3, <1>6 DEF Handle, Forget, TypeInv
    <2>3. SameAtClient(p)
      <3>1. CASE UNCHANGED toClients
        BY <1>1, <3>1, ClientQueueKept
      <3>2. CASE toServer[i].type = "request" /\ ~AtLimit(toServer[i].from)
        <4>1. PICK m : m = [to |-> toServer[i].from, counter |-> counter[toServer[i].from] + 1,
                            text |-> toServer[i].text]
          OBVIOUS
        <4>2. toClients' = Append(toClients, m)
          BY <3>2, <4>1 DEF Handle
        <4>3. counter[toServer[i].from] + 1 \in 1 .. MaxCounter
          BY <1>3, <3>2 DEF AtLimit, TypeInv, RawUdpEchoAssumption
        <4>4. m \in Reply /\ m.to # e
          BY <1>2, <1>3, <1>6, <3>2, <4>1, <4>3 DEF Reply, Request, Close
        <4> QED
          BY <1>1, <4>2, <4>4, ForeignReplyAppend
      <3> QED
        BY <3>1, <3>2 DEF Handle
    <2> QED
      BY <1>1, <1>4, <2>1, <2>2, <2>3, Frame
  <1>7. CASE Closes(toServer[i], e)
    <2>1. /\ counter'[e] = 0 /\ toClients' = toClients
      BY <1>3, <1>7 DEF Handle, Forget, Closes, TypeInv
    <2>2. ~NoClose(e)
      BY <1>7 DEF NoClose
    <2>3. ~Answered(p) /\ ~Delivered(p)
      BY <2>2 DEF Answered, Delivered, Ahead
    <2>4. Agrees(p) => Agrees(p)'
      BY <1>1, <2>1, <2>2 DEF Agrees
    <2>5. Idle(p) => Idle(p)'
      BY <1>1, <2>1, OwnRemoval DEF Idle, NoReply
    <2>6. Asked(p) => Asked(p)'
      <3>1. ~Asks(toServer[i], e)
        BY <1>7 DEF Asks, Closes
      <3>2. /\ OneRequest(e) => OneRequest(e)'
            /\ Carries(e, text[p]) => Carries(e, text[p])'
        BY <1>1, <3>1, OwnRemoval
      <3> QED
        BY <1>1, <2>1, <2>4, <3>2 DEF Asked, NoReply
    <2> QED
      BY <1>1, <1>4, <1>5, <2>3, <2>4, <2>5, <2>6 DEF OwnerInv
  <1>8. CASE Asks(toServer[i], e)
    <2>1. pc[p] # "prompt" /\ Asked(p)
      BY <1>8, OwnerStates DEF NoRequest
    <2>2. NothingBefore(i, e)
      BY <1>1, <1>8 DEF NothingBefore, Asks
    <2>3. NoRequest(e)' /\ NoClose(e)'
      BY <1>1, <1>8, <2>1, <2>2, OwnRemoval DEF Asked
    <2>4. NoReply(e) /\ inbox[p] = <<>>
      BY <2>1 DEF Asked
    <2>5. CASE AtLimit(e)
      <3>1. toClients' = toClients
        BY <1>8, <2>5 DEF Handle, Asks
      <3>2. Idle(p)'
        BY <1>1, <2>3, <2>4, <3>1 DEF Idle, NoReply
      <3> QED
        BY <1>1, <1>4, <1>5, <2>1, <3>2 DEF OwnerInv
    <2>6. CASE ~AtLimit(e)
      <3>1. PICK m : m = [to |-> e, counter |-> counter[e] + 1, text |-> toServer[i].text]
        OBVIOUS
      <3>2. toClients' = Append(toClients, m) /\ counter' = [counter EXCEPT ![e] = @ + 1]
        BY <1>8, <2>6, <3>1 DEF Handle, Asks
      <3>3. counter[e] + 1 \in 1 .. MaxCounter
        BY <1>3, <2>6 DEF AtLimit, TypeInv, RawUdpEchoAssumption
      <3>4. m \in Reply
        BY <1>2, <1>3, <1>8, <3>1, <3>3 DEF Reply, Request, Close, Asks
      <3>5. counter[e] = n /\ toServer[i].text = text[p]
        <4>1. NoClose(e)
          BY <1>1, <1>8, <2>1, <2>2, OwnRemoval DEF Asked
        <4> QED
          BY <1>8, <2>1, <4>1 DEF Asked, Agrees, Carries
      <3>6. OneReply(p)'
        BY <1>1, <2>4, <3>1, <3>2, <3>4, <3>5, OwnReplyAppend
      <3>7. Ahead(p)'
        BY <1>1, <1>3, <2>3, <3>2, <3>5 DEF Ahead, TypeInv
      <3>8. Answered(p)'
        BY <1>1, <2>3, <2>4, <3>6, <3>7 DEF Answered
      <3> QED
        BY <1>1, <1>4, <1>5, <2>1, <3>8 DEF OwnerInv
    <2> QED
      BY <2>5, <2>6
  <1> QED
    BY <1>2, <1>6, <1>7, <1>8 DEF Asks, Closes, Request, Close

LEMMA OwnerDeliver ==
    ASSUME NEW p \in Clients, NEW i \in 1 .. Len(toClients), TypeInv, Deliver(i), Open(p),
           OwnerInv(p)
    PROVE  OwnerInv(p)'
  <1> DEFINE e == Endpoint[p]
             reply == toClients[i]
  <1>1. /\ toClients' = RemoveAt(toClients, i)
        /\ inbox'[p] = IF e = reply.to THEN Append(inbox[p], reply) ELSE inbox[p]
        /\ UNCHANGED <<pc, interrupted, text, numbers, counter, toServer, disturbed>>
    BY DEF Deliver
  <1>2. SameAtServer(e)
    BY <1>1, ServerQueueKept
  <1>3. \A q \in Clients : Open(q)' <=> Open(q)
    BY <1>1 DEF Open
  <1>4. CASE reply.to # e
    <2>1. SameAtClient(p)
      BY <1>1, <1>4, ForeignReplyRemoval
    <2> QED
      BY <1>1, <1>2, <1>3, <1>4, <2>1, Frame
  <1>5. CASE reply.to = e
    <2>1. ~NoReply(e)
      BY <1>1, <1>5, OwnReplyRemoval
    <2>2. pc[p] # "prompt" /\ Answered(p)
      BY <2>1, OwnerStates
    <2>3. NoReply(e)' /\ reply.counter = Len(numbers[p]) + 1 /\ reply.text = text[p]
      BY <1>1, <1>5, <2>2, OwnReplyRemoval DEF Answered
    <2>4. inbox'[p] = Append(<<>>, reply)
      BY <1>1, <1>5, <2>2 DEF Answered
    <2>5. Len(inbox'[p]) = 1 /\ inbox'[p][1] = reply
      <3>1. reply \in Reply /\ <<>> \in Seq(Reply) /\ Len(<<>>) = 0
        BY EmptySeq, ElementOfSeq DEF TypeInv
      <3> QED
        BY <2>4, <3>1, AppendProperties
    <2>6. Delivered(p)'
      BY <1>1, <2>2, <2>3, <2>5 DEF Delivered, ReplyArrived, Answered, Ahead, NoRequest, NoClose
    <2> QED
      BY <1>1, <1>3, <2>2, <2>6 DEF OwnerInv
  <1> QED
    BY <1>4, <1>5

LEMMA OwnerLose ==
    ASSUME NEW p \in Clients, TypeInv, Lose, OwnerInv(p), Endpoint[p] \notin disturbed'
    PROVE  OwnerInv(p)'
  <1> DEFINE e == Endpoint[p]
  <1>1. UNCHANGED <<pc, interrupted, text, inbox, numbers, counter>>
    BY DEF Lose, process
  <1>2. \A q \in Clients : Open(q)' <=> Open(q)
    BY <1>1 DEF Open
  <1>3. ASSUME NEW i \in DOMAIN toServer, toServer' = RemoveAt(toServer, i),
               disturbed' = disturbed \union
                  (IF toServer[i].type = "close" THEN {toServer[i].from} ELSE {}),
               toClients' = toClients
        PROVE  OwnerInv(p)'
    <2>1. i \in 1 .. Len(toServer)
      BY LenProperties DEF TypeInv
    <2>2. SameAtClient(p)
      BY <1>1, <1>3, ClientQueueKept
    <2>3. CASE toServer[i].from # e
      <3>1. SameAtServer(e)
        BY <1>3, <2>1, <2>3, ForeignRemoval
      <3> QED
        BY <1>1, <1>2, <2>2, <3>1, Frame
    <2>4. CASE toServer[i].from = e
      <3>1. toServer[i] \in Request \union Close
        BY <2>1, ElementOfSeq DEF TypeInv
      <3>2. Asks(toServer[i], e)
        BY <1>3, <2>4, <3>1 DEF Asks, Request, Close
      <3>3. pc[p] # "prompt" /\ Asked(p)
        BY <2>1, <3>2, OwnerStates DEF NoRequest
      <3>4. NoRequest(e)'
        BY <1>3, <2>1, <3>2, <3>3, OwnRemoval DEF Asked
      <3>5. Idle(p)'
        BY <1>1, <1>3, <3>3, <3>4 DEF Idle, Asked, NoReply
      <3> QED
        BY <1>1, <1>2, <3>3, <3>5 DEF OwnerInv
    <2> QED
      BY <2>3, <2>4
  <1>4. ASSUME NEW i \in DOMAIN toClients, toClients' = RemoveAt(toClients, i),
               toServer' = toServer
        PROVE  OwnerInv(p)'
    <2>1. i \in 1 .. Len(toClients)
      BY LenProperties DEF TypeInv
    <2>2. SameAtServer(e)
      BY <1>4, ServerQueueKept
    <2>3. CASE toClients[i].to # e
      <3>1. SameAtClient(p)
        BY <1>1, <1>4, <2>1, <2>3, ForeignReplyRemoval
      <3> QED
        BY <1>1, <1>2, <2>2, <3>1, Frame
    <2>4. CASE toClients[i].to = e
      <3>1. ~NoReply(e)
        BY <1>4, <2>1, <2>4, OwnReplyRemoval
      <3>2. pc[p] # "prompt" /\ Answered(p)
        BY <3>1, OwnerStates
      <3>3. NoReply(e)'
        BY <1>4, <2>1, <2>4, <3>2, OwnReplyRemoval DEF Answered
      <3>4. Idle(p)'
        BY <1>1, <1>4, <3>2, <3>3 DEF Idle, Answered, NoRequest
      <3> QED
        BY <1>1, <1>2, <3>2, <3>4 DEF OwnerInv
    <2> QED
      BY <2>3, <2>4
  <1> QED
    BY <1>3, <1>4 DEF Lose

\* Quit and Notice turn to the exit and leave what is under way alone.
LEMMA OwnerTurnsBack ==
    ASSUME NEW p \in Clients, TypeInv, Quit(p) \/ Notice(p), OwnerInv(p)
    PROVE  OwnerInv(p)'
  <1>1. /\ pc' = [pc EXCEPT ![p] = "leave"]
        /\ UNCHANGED <<interrupted, text, inbox, numbers, counter, toServer, toClients>>
    BY DEF Quit, Notice, net
  <1>2. \A q \in Clients : Open(q)' => Open(q)
    BY DEF Open, Quit, Notice, TypeInv
  <1>3. pc'[p] # "prompt"
    BY <1>1 DEF TypeInv
  <1>4. Idle(p) \/ Asked(p) \/ Answered(p) \/ Delivered(p)
    BY OwnerStates
  <1>5. (Idle(p) \/ Asked(p) \/ Answered(p) \/ Delivered(p))'
    BY <1>1, <1>4 DEF Idle, Asked, Answered, Delivered, NoRequest, NoReply, NoClose, OneRequest,
       Carries, OneReply, ReplyArrived, Agrees, Ahead
  <1> QED
    BY <1>1, <1>2, <1>3, <1>5 DEF OwnerInv

\* What a client does leaves the run of an owner at another endpoint alone.
LEMMA OwnerOfAnother ==
    ASSUME NEW p \in Clients, NEW q \in Clients, q # p, Endpoint[q] # Endpoint[p],
           TypeInv, OwnerInv(p),
           \/ Start(q) \/ Quit(q) \/ Receive(q) \/ Notice(q) \/ Leave(q)
           \/ Interrupt(q) \/ Kill(q) \/ \E t \in Texts : Type(q, t)
    PROVE  OwnerInv(p)'
  <1> DEFINE e == Endpoint[p]
  <1>1. /\ pc'[p] = pc[p] /\ text'[p] = text[p] /\ numbers'[p] = numbers[p]
        /\ inbox'[p] = inbox[p] /\ counter' = counter /\ toClients' = toClients
    BY DEF Start, Quit, Receive, Notice, Leave, Interrupt, Kill, Type, net, TypeInv
  <1>2. \A r \in Clients : Endpoint[r] = e /\ Open(r)' => Open(r)
    <2> SUFFICES ASSUME NEW r \in Clients, r # q PROVE Open(r)' => Open(r)
      OBVIOUS
    <2> QED
      BY DEF Start, Quit, Receive, Notice, Leave, Interrupt, Kill, Type, Open, TypeInv
  <1>3. SameAtServer(e)
    <2>1. CASE toServer' = toServer
      BY <2>1, ServerQueueKept
    <2>2. ASSUME NEW t \in Texts, Type(q, t), ~interrupted[q] PROVE SameAtServer(e)
      <3>1. PICK m : m = [from |-> Endpoint[q], type |-> "request", text |-> t]
        OBVIOUS
      <3>2. toServer' = Append(toServer, m)
        BY <2>2, <3>1 DEF Type
      <3>3. m \in Request \union Close /\ m.from # e
        BY <3>1 DEF Request, Endpoints
      <3> QED
        BY <3>2, <3>3, ForeignAppend
    <2>3. ASSUME Leave(q) PROVE SameAtServer(e)
      <3>1. PICK m : m = [from |-> Endpoint[q], type |-> "close"]
        OBVIOUS
      <3>2. m \in Request \union Close /\ m.from # e
        BY <3>1 DEF Close, Endpoints
      <3>3. toServer' = toServer \o <<m>>
        BY <2>3, <3>1 DEF Leave, Farewell
      <3>4. toServer' = Append(toServer, m)
        BY <3>2, <3>3, AppendOne DEF TypeInv
      <3> QED
        BY <3>2, <3>4, ForeignAppend
    <2> QED
      BY <2>1, <2>2, <2>3 DEF Start, Quit, Receive, Notice, Interrupt, Kill, Type, net
  <1>4. SameAtClient(p)
    BY <1>1, ClientQueueKept
  <1> QED
    BY <1>1, <1>2, <1>3, <1>4, Frame

LEMMA NumberStep ==
    ASSUME RawUdpEchoAssumption, TypeInv, ForgetInv, NumberInv, [Next]_vars
    PROVE  NumberInv'
  <1> SUFFICES ASSUME NEW p \in Clients, Owns(p)' PROVE OwnerInv(p)'
    BY DEF NumberInv
  <1> DEFINE e == Endpoint[p]
  <1>1. Owns(p) => OwnerInv(p)
    BY DEF NumberInv
  <1>2. e \notin disturbed' /\ p \in fresh' /\ Open(p)'
    BY DEF Owns
  <1>3. CASE Start(p)
    BY <1>3, OwnerStart
  <1>4. ASSUME NEW t \in Texts, Type(p, t) PROVE OwnerInv(p)'
    <2>1. Owns(p)
      BY <1>2, <1>4 DEF Owns, Open, Type
    <2> QED
      BY <1>1, <1>4, <2>1, OwnerType
  <1>5. CASE Quit(p) \/ Notice(p)
    <2>1. Owns(p)
      BY <1>2, <1>5 DEF Owns, Open, Quit, Notice
    <2> QED
      BY <1>1, <1>5, <2>1, OwnerTurnsBack
  <1>6. CASE Receive(p)
    <2>1. Owns(p)
      BY <1>2, <1>6 DEF Owns, Open, Receive
    <2> QED
      BY <1>1, <1>6, <2>1, OwnerReceive
  <1>7. CASE Leave(p) \/ Kill(p)
    BY <1>2, <1>7 DEF Leave, Kill, Open, TypeInv
  <1>8. CASE Interrupt(p)
    <2>1. /\ Owns(p)
          /\ UNCHANGED <<pc, text, inbox, numbers, counter, toServer, toClients>>
      BY <1>2, <1>8 DEF Owns, Open, Interrupt, net
    <2>2. SameAtServer(e) /\ SameAtClient(p) /\ \A q \in Clients : Open(q)' => Open(q)
      BY <2>1, ServerQueueKept, ClientQueueKept DEF Open
    <2> QED
      BY <1>1, <2>1, <2>2, Frame
  <1>9. ASSUME NEW q \in Clients, q # p,
               \/ Start(q) \/ Quit(q) \/ Receive(q) \/ Notice(q) \/ Leave(q)
               \/ Interrupt(q) \/ Kill(q) \/ \E t \in Texts : Type(q, t)
        PROVE  OwnerInv(p)'
    <2>1. /\ p \in fresh /\ e \notin disturbed /\ pc'[p] = pc[p]
      <3>1. CASE Start(q)
        <4>1. p \in fresh \/ p = q
          BY <1>2, <3>1 DEF Start
        <4> QED
          BY <1>2, <1>9, <3>1, <4>1 DEF Start, TypeInv
      <3>2. CASE ~Start(q)
        <4>1. fresh' = fresh /\ disturbed \subseteq disturbed'
          BY <1>9, <3>2 DEF Quit, Receive, Notice, Leave, Interrupt, Kill, Type
        <4>2. pc'[p] = pc[p]
          BY <1>9, <3>2 DEF Quit, Receive, Notice, Leave, Interrupt, Kill, Type, TypeInv
        <4> QED
          BY <1>2, <4>1, <4>2
      <3> QED
        BY <3>1, <3>2
    <2>2. Owns(p) /\ OwnerInv(p)
      BY <1>1, <1>2, <2>1 DEF Owns, Open
    <2>3. CASE Endpoint[q] = e
      <3>1. ~Open(q)
        BY <1>9, <2>2, <2>3 DEF OwnerInv
      <3>2. Start(q)
        BY <1>9, <3>1 DEF Start, Quit, Receive, Notice, Leave, Interrupt, Kill, Type, Open
      <3>3. p \in {r \in Clients \ {q} : Open(r) /\ Endpoint[r] = Endpoint[q]}
        BY <1>9, <2>2, <2>3 DEF Owns
      <3>4. p \notin fresh'
        BY <1>9, <3>2, <3>3 DEF Start
      <3> QED
        BY <1>2, <3>4
    <2> QED
      BY <1>9, <2>2, <2>3, OwnerOfAnother
  <1>10. ASSUME NEW i \in DOMAIN toServer, Handle(i) PROVE OwnerInv(p)'
    <2>1. i \in 1 .. Len(toServer)
      BY LenProperties DEF TypeInv
    <2>2. Owns(p)
      BY <1>2, <1>10 DEF Owns, Open, Handle, process
    <2> QED
      BY <1>1, <1>2, <1>10, <2>1, <2>2, OwnerHandle
  <1>11. ASSUME NEW i \in DOMAIN toClients, Deliver(i) PROVE OwnerInv(p)'
    <2>1. i \in 1 .. Len(toClients)
      BY LenProperties DEF TypeInv
    <2>2. Owns(p)
      BY <1>2, <1>11 DEF Owns, Open, Deliver
    <2> QED
      BY <1>1, <1>11, <2>1, <2>2, OwnerDeliver DEF Owns
  <1>12. CASE Lose
    <2>1. Owns(p)
      BY <1>2, <1>12 DEF Owns, Open, Lose, process
    <2> QED
      BY <1>1, <1>2, <1>12, <2>1, OwnerLose
  <1>13. CASE RestartServer
    <2>1. /\ UNCHANGED <<pc, text, inbox, numbers, toServer, toClients, fresh>>
          /\ counter' = [f \in Endpoints |-> 0]
          /\ disturbed' = disturbed \union {f \in Endpoints : counter[f] > 0}
      BY <1>13 DEF RestartServer, process, net
    <2>2. Owns(p)
      BY <1>2, <2>1 DEF Owns, Open
    <2>3. e \in Endpoints /\ counter[e] \in 0 .. MaxCounter /\ MaxCounter \in Nat
      BY DEF Endpoints, TypeInv, RawUdpEchoAssumption
    <2>4. counter[e] = 0
      BY <1>2, <2>1, <2>3
    <2>5. counter'[e] = counter[e]
      BY <2>1, <2>3, <2>4
    <2>6. SameAtServer(e) /\ SameAtClient(p) /\ \A q \in Clients : Open(q)' => Open(q)
      BY <2>1, ServerQueueKept, ClientQueueKept DEF Open
    <2> QED
      BY <1>1, <2>1, <2>2, <2>5, <2>6, Frame
  <1>14. CASE UNCHANGED vars
    <2>1. UNCHANGED <<pc, text, inbox, numbers, counter, toServer, toClients, fresh, disturbed>>
      BY <1>14 DEF vars, process, net
    <2>2. Owns(p) /\ SameAtServer(e) /\ SameAtClient(p) /\ \A q \in Clients : Open(q)' => Open(q)
      BY <1>2, <2>1, ServerQueueKept, ClientQueueKept DEF Owns, Open
    <2> QED
      BY <1>1, <2>1, <2>2, Frame
  <1> QED
    BY <1>3, <1>4, <1>5, <1>6, <1>7, <1>8, <1>9, <1>10, <1>11, <1>12, <1>13, <1>14 DEF Next

-----------------------------------------------------------------------------
(* The theorems.                                                           *)

LEMMA StartsSound == ASSUME RawUdpEchoAssumption, Init PROVE IInv
  <1>1. TypeInv
    <2>1. /\ <<>> \in Seq(Reply) /\ <<>> \in Seq(1 .. MaxCounter)
          /\ <<>> \in Seq(Request \union Close) /\ Len(<<>>) = 0
      BY EmptySeq
    <2>2. \A p \in Clients : \A i \in 1 .. Len(inbox[p]) : inbox[p][i].to = Endpoint[p]
      BY <2>1 DEF Init
    <2>3. text \in [Clients -> Texts]
      BY DEF Init, RawUdpEchoAssumption
    <2> QED
      BY <2>1, <2>2, <2>3 DEF Init, TypeInv, Places, RawUdpEchoAssumption
  <1>2. ForgetInv
    <2>1. Len(toServer) = 0
      BY EmptySeq DEF Init
    <2> QED
      BY <2>1 DEF ForgetInv, NothingFrom, Init
  <1>3. NumberInv
    BY DEF NumberInv, Owns, Init
  <1> QED
    BY <1>1, <1>2, <1>3 DEF IInv

\* client_send_request, client_receive_response and server_handle_message: IInv holds in
\* every state that the clients, the server and a network that loses and reorders
\* datagrams can reach.
THEOREM Invariant == ASSUME RawUdpEchoAssumption PROVE Spec => []IInv
  <1>1. Init => IInv
    BY StartsSound
  <1>2. IInv /\ [Next]_vars => IInv'
    BY TypeStep, ForgetStep, NumberStep DEF IInv
  <1> QED
    BY <1>1, <1>2, PTL DEF Spec

\* The types of TypeOK; a reply in an inbox has the address of the client and a number that
\* did not wrap around (server_state_next_counter).
THEOREM TypeCorrect == ASSUME RawUdpEchoAssumption PROVE Spec => []TypeOK
  <1>1. IInv => TypeOK
    <2> SUFFICES ASSUME TypeInv PROVE TypeOK
      BY DEF IInv
    <2>1. ASSUME NEW p \in Clients
          PROVE  ToSet(inbox[p]) \subseteq [to : {Endpoint[p]}, counter : 1 .. MaxCounter, text : Texts]
      <3> SUFFICES ASSUME NEW m \in ToSet(inbox[p])
                   PROVE  m \in [to : {Endpoint[p]}, counter : 1 .. MaxCounter, text : Texts]
        OBVIOUS
      <3>1. PICK i \in 1 .. Len(inbox[p]) : m = inbox[p][i]
        BY LenProperties DEF ToSet, TypeInv
      <3>2. m \in Reply /\ m.to = Endpoint[p]
        BY <3>1, ElementOfSeq DEF TypeInv
      <3> QED
        BY <3>2 DEF Reply
    <2> QED
      BY <2>1 DEF TypeInv, TypeOK, Places
  <1> QED
    BY <1>1, Invariant, PTL

\* client_receive_response and server_state_next_counter: a run that owns its endpoint sees
\* the numbers 1, 2, 3, ..., whatever is lost, delayed or killed elsewhere; and an endpoint
\* whose clients left is forgotten once its datagrams are handled.
THEOREM NumbersAreRight == ASSUME RawUdpEchoAssumption PROVE Spec => []Numbered
  <1>1. IInv => NumberedFromOne
    <2> SUFFICES ASSUME TypeInv, NumberInv, NEW p \in fresh, Open(p), Endpoint[p] \notin disturbed,
                        NEW i \in DOMAIN numbers[p]
                 PROVE  numbers[p][i] = i
      BY DEF IInv, NumberedFromOne
    <2>1. p \in Clients /\ OwnerInv(p)
      BY DEF TypeInv, NumberInv, Owns
    <2>2. i \in 1 .. Len(numbers[p])
      BY <2>1, LenProperties DEF TypeInv
    <2> QED
      BY <2>1, <2>2 DEF OwnerInv
  <1>2. IInv => Forgotten
    <2> SUFFICES ASSUME TypeInv, ForgetInv, NEW e \in Endpoints \ disturbed,
                        \A p \in Clients : Endpoint[p] = e => ~Open(p),
                        \A i \in DOMAIN toServer : toServer[i].from # e
                 PROVE  counter[e] = 0
      BY DEF IInv, Forgotten
    <2>1. LastIsClose(e) \/ counter[e] = 0
      BY DEF ForgetInv, Nobody
    <2>2. ~LastIsClose(e)
      <3>1. DOMAIN toServer = 1 .. Len(toServer)
        BY LenProperties DEF TypeInv
      <3> QED
        BY <3>1 DEF LastIsClose, Closes
    <2> QED
      BY <2>1, <2>2
  <1> QED
    BY <1>1, <1>2, Invariant, PTL DEF Numbered
=============================================================================
