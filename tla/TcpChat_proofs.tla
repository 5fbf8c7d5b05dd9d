--------------------------- MODULE TcpChat_proofs ---------------------------
(***************************************************************************)
(* What holds of TcpChat for any set of clients, any number of slots, any  *)
(* capacities and anything the users do.                                   *)
(***************************************************************************)
EXTENDS TcpChat, FiniteSetTheorems, SequenceTheorems, WellFoundedInduction, TLAPS

-----------------------------------------------------------------------------
(* The inductive invariant: types.                                         *)

Kinds == {"join", "message", "begin", "chunk", "end", "leave"}
FrameType == [type : Kinds, from : Clients, id : Nat, size : Nat, n : Nat]
TransferType == [id : Nat, size : Nat, done : Nat]
FileType == [from : Clients, id : Nat, size : Nat, done : Nat]
SlotType ==
    [client : Clients \union {Nobody}, joined : BOOLEAN, transfer : TransferType, out : Seq(FrameType)]
EventType == [slot : Slots \union {Listener}, flags : SUBSET {"in", "out", "hup"}]
Ends == {"none", "queued", "open", "closed"}

SlotsTyped == slot \in [Slots -> SlotType] /\ \A s \in Slots : Len(slot[s].out) <= ServerOut

RoundTyped ==
    /\ spc \in {"wait", "handle", "receive", "stopping", "stopped"}
    /\ events \subseteq EventType /\ current \in EventType
    /\ \A e \in events : e = NoEvent \/ e.slot \in Slots
    /\ spc = "receive" => current.slot \in Slots /\ Active(current.slot)
    /\ backlog \in Seq(Clients) /\ stop \in BOOLEAN

ClientTyped ==
    /\ cpc \in [Clients -> {"off", "run", "drain", "close", "done"}]
    /\ out \in [Clients -> Seq(FrameType)] /\ \A c \in Clients : Len(out[c]) <= ClientOut
    /\ outgoing \in [Clients -> TransferType] /\ count \in [Clients -> Nat]
    /\ incoming \in [Clients -> SUBSET FileType]
    /\ \A c \in Clients : IsFiniteSet(incoming[c]) /\ Cardinality(incoming[c]) <= IncomingMax

SocketsTyped ==
    /\ serverEnd \in [Clients -> Ends] /\ clientEnd \in [Clients -> {"none", "open", "closed"}]
    /\ toServer \in [Clients -> Seq(FrameType)] /\ toClient \in [Clients -> Seq(FrameType)]
    /\ \A c \in Clients : Len(toServer[c]) <= Wire /\ Len(toClient[c]) <= Wire

HistoryTyped ==
    /\ first \in [Clients -> [Clients -> Nat]] /\ heard \in [Clients -> [Clients -> Nat]]
    /\ dropped \subseteq Clients

TypeInv == SlotsTyped /\ RoundTyped /\ ClientTyped /\ SocketsTyped /\ HistoryTyped

\* Every open connection has one slot, and every slot an open connection.
OwnInv ==
    /\ \A s \in Slots : Active(s) => serverEnd[slot[s].client] = "open"
    /\ \A s, t \in Slots : Active(s) /\ slot[t].client = slot[s].client => s = t
    /\ \A c \in Clients : serverEnd[c] = "open" => \E s \in Slots : slot[s].client = c

BacklogInv ==
    /\ \A c \in Clients : serverEnd[c] = "queued" <=> \E i \in 1 .. Len(backlog) : backlog[i] = c
    /\ \A i, j \in 1 .. Len(backlog) : backlog[i] = backlog[j] => i = j

\* A client that has not started, and one that runs.
LifeInv ==
    \A c \in Clients :
       /\ cpc[c] = "off" => /\ serverEnd[c] = "none" /\ toServer[c] = <<>> /\ out[c] = <<>>
                            /\ outgoing[c] = NoTransfer /\ count[c] = 0
       /\ cpc[c] \in {"run", "drain", "close"} => clientEnd[c] = "open" /\ serverEnd[c] # "none"
       /\ serverEnd[c] = "none" => toServer[c] = <<>> /\ out[c] = <<>>

\* Nobody has told anything to a client that has not joined.
Quiet(c) ==
    /\ toClient[c] = <<>> /\ incoming[c] = {}
    /\ \A d \in Clients : first[c][d] = 0 /\ heard[c][d] = 0

QuietInv ==
    /\ \A c \in Clients : serverEnd[c] \in {"none", "queued"} => Quiet(c)
    /\ \A s \in Slots : Active(s) /\ ~slot[s].joined =>
          Quiet(slot[s].client) /\ slot[s].out = <<>> /\ slot[s].transfer = NoTransfer

SlotInv == OwnInv /\ BacklogInv /\ LifeInv /\ QuietInv

-----------------------------------------------------------------------------
(* Queues and connections.                                                 *)

LEMMA FitsNumber ==
    ASSUME TcpChatAssumption, NEW S, NEW queue \in Seq(S), NEW wire \in Seq(S), Len(wire) <= Wire
    PROVE  /\ Fits(queue, wire) \in Nat /\ Fits(queue, wire) <= Len(queue)
           /\ Fits(queue, wire) + Len(wire) <= Wire
           /\ Len(queue) \in Nat /\ Len(wire) \in Nat
  BY LenProperties DEF Fits, TcpChatAssumption

\* What is sent and what is left are the queue behind what was on the wire.
LEMMA Flushing ==
    ASSUME TcpChatAssumption, NEW S, NEW queue \in Seq(S), NEW wire \in Seq(S), Len(wire) <= Wire
    PROVE  /\ Rest(queue, wire) \in Seq(S) /\ Len(Rest(queue, wire)) <= Len(queue)
           /\ Sent(queue, wire) \in Seq(S) /\ Len(Sent(queue, wire)) <= Wire
           /\ Sent(queue, wire) \o Rest(queue, wire) = wire \o queue
  <1>1. PICK k \in Nat, n \in Nat : k = Fits(queue, wire) /\ n = Len(queue)
    BY FitsNumber
  <1>2. k <= n /\ k + Len(wire) <= Wire /\ Len(wire) \in Nat
    BY <1>1, FitsNumber
  <1>3. PICK a \in Seq(S) : a = SubSeq(queue, 1, k) /\ Len(a) = k
    <2>1. \A i \in 1 .. k : queue[i] \in S
      BY <1>1, <1>2, ElementOfSeq
    <2>2. SubSeq(queue, 1, k) \in Seq(S) /\ Len(SubSeq(queue, 1, k)) = k
      BY <1>2, <2>1, SubSeqProperties
    <2> QED
      BY <2>2
  <1>4. PICK b \in Seq(S) : b = SubSeq(queue, k + 1, n) /\ Len(b) = n - k
    <2>1. \A i \in k + 1 .. n : queue[i] \in S
      BY <1>1, <1>2, ElementOfSeq
    <2>2. k + 1 \in 1 .. n + 1 /\ n \in Nat
      BY <1>1, <1>2
    <2>3. SubSeq(queue, k + 1, n) \in Seq(S)
          /\ Len(SubSeq(queue, k + 1, n)) = IF k + 1 <= n THEN n - (k + 1) + 1 ELSE 0
      BY <2>1, <2>2, SubSeqProperties
    <2>4. (IF k + 1 <= n THEN n - (k + 1) + 1 ELSE 0) = n - k
      BY <1>1, <1>2
    <2> QED
      BY <2>3, <2>4
  <1>5. Rest(queue, wire) = b /\ Sent(queue, wire) = wire \o a
    BY <1>1, <1>3, <1>4 DEF Rest, Sent
  <1>6. a \o b = queue
    <2>1. 1 \in 1 .. n + 1 /\ k \in 1 - 1 .. n /\ n \in k .. n
      BY <1>2
    <2>2. SubSeq(queue, 1, k) \o SubSeq(queue, k + 1, n) = SubSeq(queue, 1, n)
      BY <1>1, <2>1, ConcatAdjacentSubSeq
    <2> QED
      BY <1>1, <1>3, <1>4, <2>2, SubSeqFull
  <1>7. wire \o a \in Seq(S) /\ Len(wire \o a) = Len(wire) + k
    BY ZenonT(40), <1>3, ConcatProperties
  <1>8. (wire \o a) \o b = wire \o queue
    <2>1. a \in Seq(S) /\ b \in Seq(S)
      OBVIOUS
    <2>2. (wire \o a) \o b = wire \o (a \o b)
      BY <2>1, ConcatAssociative, SMTT(30)
    <2> QED
      BY <1>6, <2>2, Zenon
  <1>9. Len(b) <= n /\ Len(wire) + k <= Wire
    BY <1>2, <1>4, TcpChatAssumption DEF TcpChatAssumption
  <1>10. Len(Sent(queue, wire)) <= Wire /\ Len(Rest(queue, wire)) <= Len(queue)
    <2>1. Len(Sent(queue, wire)) = Len(wire) + k
      BY <1>5, <1>7, Zenon
    <2> QED
      BY <1>1, <1>5, <1>9, <2>1
  <1> QED
    BY <1>5, <1>7, <1>8, <1>10, Zenon

LEMMA Members ==
    ASSUME NEW S, NEW q \in Seq(S), NEW x
    PROVE  x \in ToSet(q) <=> \E i \in 1 .. Len(q) : q[i] = x
  BY LenProperties DEF ToSet

-----------------------------------------------------------------------------
(* What the server's steps do to slots and connections.                    *)

LEMMA ConstantsTyped ==
    ASSUME TcpChatAssumption
    PROVE  /\ Free \in SlotType /\ Len(Free.out) <= ServerOut /\ Free.client = Nobody
           /\ NoTransfer \in TransferType /\ NoEvent \in EventType
           /\ \A c \in Clients : Leave(c) \in FrameType /\ c # Nobody
  BY EmptySeq DEF Free, Nobody, SlotType, NoTransfer, TransferType, NoEvent, EventType, Listener,
                  Leave, Frame, FrameType, Kinds, TcpChatAssumption

\* Closing ends leaves the other connections alone.
LEMMA Closing ==
    ASSUME SocketsTyped, NEW cs,
           NEW wires \in [Clients -> Seq(FrameType)], \A c \in Clients : Len(wires[c]) <= Wire,
           TcpChatAssumption, CloseServerEnds(cs, wires)
    PROVE  /\ serverEnd' \in [Clients -> Ends]
           /\ toServer' \in [Clients -> Seq(FrameType)] /\ toClient' \in [Clients -> Seq(FrameType)]
           /\ \A c \in Clients : Len(toServer'[c]) <= Wire /\ Len(toClient'[c]) <= Wire
           /\ \A c \in Clients \ cs : /\ serverEnd'[c] = serverEnd[c] /\ toServer'[c] = wires[c]
                                      /\ toClient'[c] = toClient[c]
           /\ \A c \in Clients \cap cs : /\ serverEnd'[c] = "closed" /\ toServer'[c] = <<>>
                                         /\ toClient'[c] \in {<<>>, toClient[c]}
  <1>1. PICK reset : toClient' = [c \in Clients |-> IF c \in reset THEN <<>> ELSE toClient[c]]
                     /\ reset \subseteq cs
    BY DEF CloseServerEnds
  <1>2. /\ serverEnd' = [c \in Clients |-> IF c \in cs THEN "closed" ELSE serverEnd[c]]
        /\ toServer' = [c \in Clients |-> IF c \in cs THEN <<>> ELSE wires[c]]
    BY DEF CloseServerEnds
  <1>3. <<>> \in Seq(FrameType) /\ Len(<<>>) <= Wire
    BY EmptySeq DEF TcpChatAssumption
  <1> QED
    BY <1>1, <1>2, <1>3 DEF SocketsTyped, Ends

\* What a broadcast from slot s does to slot t.
Told(t, frame) == slot'[t] = [slot[t] EXCEPT !.out = Append(@, frame)] /\ Len(slot[t].out) < ServerOut

LEMMA Broadcasting ==
    ASSUME SlotsTyped, NEW s \in Slots, NEW frame, NEW own, slot' = Broadcast(s, frame, own)
    PROVE  /\ DOMAIN slot' = Slots
           /\ slot'[s] = own
           /\ \A t \in Slots \ {s} :
                 /\ t \in Slow(s) => slot'[t] = Free /\ Active(t)
                 /\ t \in Receivers(s) \ Slow(s) => Told(t, frame) /\ Active(t) /\ slot[t].joined
                 /\ t \notin Receivers(s) => slot'[t] = slot[t] /\ t \notin Slow(s)
                 /\ t \notin Receivers(s) => ~Active(t) \/ ~slot[t].joined
  <1>1. \A t \in Slots : slot[t].out \in Seq(FrameType)
    BY DEF SlotsTyped, SlotType
  <1>2. \A t \in Slots : Len(slot[t].out) \in Nat
    BY <1>1, LenProperties
  <1>3. s \notin Slow(s) /\ s \notin Receivers(s)
    BY DEF Slow, Receivers
  <1>4. ServerOut \in Nat
    BY TcpChatAssumption DEF TcpChatAssumption
  <1>5. \A t \in Slots \ {s} : t \in Receivers(s) <=> Active(t) /\ slot[t].joined
    BY DEF Receivers
  <1>6. \A t \in Slots : t \in Slow(s) <=> t \in Receivers(s) /\ Len(slot[t].out) >= ServerOut
    BY DEF Slow, Receivers
  <1>7. DOMAIN slot' = Slots /\ slot'[s] = own
    BY <1>3 DEF Broadcast
  <1>8. \A t \in Slots \ {s} :
           /\ t \in Slow(s) => slot'[t] = Free
           /\ t \in Receivers(s) \ Slow(s) => slot'[t] = [slot[t] EXCEPT !.out = Append(@, frame)]
           /\ t \notin Slow(s) /\ t \notin Receivers(s) => slot'[t] = slot[t]
    BY DEF Broadcast
  <1>9. \A t \in Slots : t \in Receivers(s) \ Slow(s) => Len(slot[t].out) < ServerOut
    BY <1>2, <1>4, <1>6
  <1> QED
    BY <1>5, <1>6, <1>7, <1>8, <1>9 DEF Told

LEMMA ToldTyped ==
    ASSUME SlotsTyped, TcpChatAssumption, NEW t \in Slots, NEW frame \in FrameType, Told(t, frame)
    PROVE  /\ slot'[t] \in SlotType /\ Len(slot'[t].out) <= ServerOut
           /\ slot'[t].client = slot[t].client /\ slot'[t].joined = slot[t].joined
           /\ slot'[t].transfer = slot[t].transfer /\ slot'[t].out = Append(slot[t].out, frame)
  <1>1. slot[t] \in SlotType
    BY DEF SlotsTyped
  <1>2. /\ slot'[t].client = slot[t].client /\ slot'[t].joined = slot[t].joined
        /\ slot'[t].transfer = slot[t].transfer /\ slot'[t].out = Append(slot[t].out, frame)
        /\ slot'[t] = [client |-> slot[t].client, joined |-> slot[t].joined,
                       transfer |-> slot[t].transfer, out |-> Append(slot[t].out, frame)]
    BY <1>1 DEF Told, SlotType
  <1>3. slot[t].out \in Seq(FrameType)
    BY <1>1 DEF SlotType
  <1>4. /\ Append(slot[t].out, frame) \in Seq(FrameType)
        /\ Len(Append(slot[t].out, frame)) = Len(slot[t].out) + 1 /\ Len(slot[t].out) \in Nat
    BY <1>3, AppendProperties, LenProperties
  <1>5. Len(Append(slot[t].out, frame)) <= ServerOut
    BY <1>4 DEF Told, TcpChatAssumption
  <1> QED
    BY <1>1, <1>2, <1>4, <1>5 DEF SlotType

LEMMA BroadcastTyped ==
    ASSUME SlotsTyped, TcpChatAssumption, NEW s \in Slots, NEW frame \in FrameType,
           NEW own \in SlotType, Len(own.out) <= ServerOut, slot' = Broadcast(s, frame, own)
    PROVE  SlotsTyped'
  <1>1. ASSUME NEW t \in Slots
        PROVE  slot'[t] \in SlotType /\ Len(slot'[t].out) <= ServerOut
    <2>1. CASE t = s
      BY <2>1, Broadcasting
    <2>2. CASE t # s /\ t \in Slow(s)
      BY <2>2, Broadcasting, ConstantsTyped
    <2>3. CASE t # s /\ t \in Receivers(s) \ Slow(s)
      BY <2>3, Broadcasting, ToldTyped
    <2>4. CASE t # s /\ t \notin Receivers(s)
      BY <2>4, Broadcasting DEF SlotsTyped
    <2> QED
      BY <2>1, <2>2, <2>3, <2>4
  <1>2. slot' = [t \in Slots |-> slot'[t]]
    BY DEF Broadcast
  <1> QED
    BY <1>1, <1>2 DEF SlotsTyped

-----------------------------------------------------------------------------
(* Types: the server.                                                      *)

LEMMA InitTyped == ASSUME TcpChatAssumption, Init PROVE TypeInv
  <1>1. <<>> \in Seq(FrameType) /\ <<>> \in Seq(Clients) /\ Len(<<>>) = 0
    BY EmptySeq
  <1>2. IsFiniteSet({}) /\ Cardinality({}) = 0
    BY FS_EmptySet
  <1>3. SlotsTyped
    BY ConstantsTyped DEF Init, SlotsTyped
  <1>4. RoundTyped
    BY <1>1, ConstantsTyped DEF Init, RoundTyped
  <1>5. ClientTyped
    BY <1>1, <1>2, ConstantsTyped DEF Init, ClientTyped, TcpChatAssumption
  <1>6. SocketsTyped
    BY <1>1 DEF Init, SocketsTyped, Ends, TcpChatAssumption
  <1>7. HistoryTyped
    BY DEF Init, HistoryTyped
  <1> QED
    BY <1>3, <1>4, <1>5, <1>6, <1>7 DEF TypeInv

\* The slot whose turn it is has a client.
LEMMA TurnTyped ==
    ASSUME TypeInv, TcpChatAssumption, NEW e \in events \union {current}, Turn(e)
    PROVE  /\ e \in EventType /\ e.slot \in Slots /\ Active(e.slot)
           /\ slot[e.slot] \in SlotType /\ slot[e.slot].client \in Clients
           /\ slot[e.slot].client # Nobody
  <1>1. e \in EventType /\ e.slot \in Slots /\ Active(e.slot)
    BY DEF TypeInv, RoundTyped, Turn
  <1>2. slot[e.slot] \in SlotType
    BY <1>1 DEF TypeInv, SlotsTyped
  <1> QED
    BY <1>1, <1>2 DEF SlotType, Active

LEMMA NextEventTyped ==
    ASSUME TypeInv, TcpChatAssumption, NEW remaining \in SUBSET events, NextEvent(remaining),
           backlog' \in Seq(Clients), stop' \in BOOLEAN
    PROVE  RoundTyped'
  <1>1. /\ events' \subseteq events /\ current' = NoEvent
        /\ spc' \in {"wait", "handle", "stopping"}
    BY DEF NextEvent
  <1> QED
    BY <1>1, ConstantsTyped DEF TypeInv, RoundTyped

LEMMA NotedTyped ==
    ASSUME TcpChatAssumption, NEW sl \in SlotType, NEW frame \in FrameType
    PROVE  /\ Noted(sl, frame) \in SlotType /\ Noted(sl, frame).client = sl.client
           /\ Noted(sl, frame).out = sl.out
  <1>1. /\ sl.client \in Clients \union {Nobody} /\ sl.joined \in BOOLEAN
        /\ sl.transfer \in TransferType /\ sl.out \in Seq(FrameType)
    BY DEF SlotType
  <1>2. \A j \in BOOLEAN : /\ [sl EXCEPT !.joined = j] \in SlotType
                           /\ [sl EXCEPT !.joined = j].client = sl.client
                           /\ [sl EXCEPT !.joined = j].out = sl.out
    BY DEF SlotType
  <1>3. \A x \in TransferType : /\ [sl EXCEPT !.transfer = x] \in SlotType
                                /\ [sl EXCEPT !.transfer = x].client = sl.client
                                /\ [sl EXCEPT !.transfer = x].out = sl.out
    BY DEF SlotType
  <1>4. CASE frame.type = "join"
    BY <1>2, <1>4 DEF Noted
  <1>5. CASE frame.type = "begin"
    <2>1. [id |-> frame.id, size |-> frame.size, done |-> 0] \in TransferType
      BY DEF FrameType, TransferType
    <2>2. Noted(sl, frame)
             = [sl EXCEPT !.transfer = [id |-> frame.id, size |-> frame.size, done |-> 0]]
      BY <1>5 DEF Noted
    <2> QED
      BY <1>3, <2>1, <2>2
  <1>6. CASE frame.type = "chunk"
    <2>1. [sl.transfer EXCEPT !.done = @ + 1] \in TransferType
      BY <1>1 DEF TransferType
    <2>2. Noted(sl, frame) = [sl EXCEPT !.transfer = [sl.transfer EXCEPT !.done = @ + 1]]
      BY <1>6 DEF Noted
    <2> QED
      BY <1>3, <2>1, <2>2
  <1>7. CASE frame.type = "end"
    <2>1. Noted(sl, frame) = [sl EXCEPT !.transfer = NoTransfer]
      BY <1>7 DEF Noted
    <2> QED
      BY <1>3, <2>1, ConstantsTyped
  <1>8. CASE frame.type \notin {"join", "begin", "chunk", "end"}
    BY <1>8 DEF Noted
  <1> QED
    BY <1>4, <1>5, <1>6, <1>7, <1>8

\* What reading a frame from a connection leaves there.
LEMMA Reading ==
    ASSUME TypeInv, NEW c \in Clients, toServer[c] # <<>>
    PROVE  /\ Head(toServer[c]) \in FrameType
           /\ [toServer EXCEPT ![c] = Tail(@)] \in [Clients -> Seq(FrameType)]
           /\ \A d \in Clients : Len([toServer EXCEPT ![c] = Tail(@)][d]) <= Wire
  <1>1. /\ Head(toServer[c]) \in FrameType /\ Tail(toServer[c]) \in Seq(FrameType)
        /\ Len(Tail(toServer[c])) = Len(toServer[c]) - 1 /\ Len(toServer[c]) \in Nat
    BY HeadTailProperties, LenProperties DEF TypeInv, SocketsTyped
  <1>2. Len(Tail(toServer[c])) <= Wire
    BY <1>1, TcpChatAssumption DEF TypeInv, SocketsTyped, TcpChatAssumption
  <1> QED
    BY <1>1, <1>2 DEF TypeInv, SocketsTyped

\* A frame is received: it is told to the others, the slow ones and, if it was its
\* last, the sender are closed.
LEMMA ReceiveFrameEffect ==
    ASSUME TypeInv, TcpChatAssumption, NEW e \in events \union {current}, ReceiveFrame(e)
    PROVE  \E s \in Slots, c \in Clients, frame \in FrameType :
           /\ s = e.slot /\ c = slot[s].client /\ frame = Head(toServer[c]) /\ Active(s)
           /\ toServer[c] # <<>> /\ Acceptable(slot[s], frame)
           /\ slot' = Broadcast(s, frame, IF frame.type = "leave" THEN Free ELSE Noted(slot[s], frame))
           /\ CloseServerEnds({slot[t].client : t \in Slow(s)}
                                 \union (IF frame.type = "leave" THEN {c} ELSE {}),
                              [toServer EXCEPT ![c] = Tail(@)])
           /\ dropped' = dropped \union {slot[t].client : t \in Slow(s)}
           /\ IF frame.type = "leave" THEN NextEvent(events \ {e})
              ELSE spc' = "receive" /\ current' = e /\ events' = events \ {e}
           /\ UNCHANGED <<backlog, stop, client, clientEnd, script, first, heard>>
  <1> DEFINE s == e.slot
             c == slot[s].client
             frame == Head(toServer[c])
  <1>1. Turn(e) /\ toServer[c] # <<>> /\ Acceptable(slot[s], frame)
    BY DEF ReceiveFrame
  <1>2. s \in Slots /\ Active(s) /\ c \in Clients
    BY <1>1, TurnTyped
  <1>3. frame \in FrameType
    BY <1>1, <1>2, Reading
  <1> DEFINE slow == {slot[t].client : t \in Slow(s)}
  <1>4. (IF frame.type = "leave" THEN slow \union {c} ELSE slow)
           = slow \union (IF frame.type = "leave" THEN {c} ELSE {})
    OBVIOUS
  <1>5. /\ slot' = Broadcast(s, frame, IF frame.type = "leave" THEN Free ELSE Noted(slot[s], frame))
        /\ CloseServerEnds(IF frame.type = "leave" THEN slow \union {c} ELSE slow,
                           [toServer EXCEPT ![c] = Tail(@)])
        /\ dropped' = dropped \union slow
        /\ IF frame.type = "leave" THEN NextEvent(events \ {e})
           ELSE spc' = "receive" /\ current' = e /\ events' = events \ {e}
        /\ UNCHANGED <<backlog, stop, client, clientEnd, script, first, heard>>
    BY DEF ReceiveFrame
  <1>6. s = e.slot /\ c = slot[s].client /\ frame = Head(toServer[c])
    OBVIOUS
  <1> HIDE DEF s, c, frame
  <1> QED
    BY <1>1, <1>2, <1>3, <1>4, <1>5, <1>6, Zenon

\* The clients of slow slots are clients.
LEMMA SlowClients ==
    ASSUME TypeInv, NEW s
    PROVE  /\ {slot[t].client : t \in Slow(s)} \subseteq Clients
           /\ Slow(s) \subseteq Slots \ {s} /\ Slow(s) \subseteq Receivers(s)
  BY DEF Slow, Receivers, Active, TypeInv, SlotsTyped, SlotType

LEMMA ReceiveFrameTyped ==
    ASSUME TypeInv, TcpChatAssumption, NEW e \in events \union {current}, ReceiveFrame(e)
    PROVE  TypeInv'
  <1>2. PICK s \in Slots, c \in Clients, frame \in FrameType :
        /\ s = e.slot /\ c = slot[s].client /\ Active(s)
        /\ toServer[c] # <<>>
        /\ slot' = Broadcast(s, frame, IF frame.type = "leave" THEN Free ELSE Noted(slot[s], frame))
        /\ CloseServerEnds({slot[t].client : t \in Slow(s)}
                              \union (IF frame.type = "leave" THEN {c} ELSE {}),
                           [toServer EXCEPT ![c] = Tail(@)])
        /\ dropped' = dropped \union {slot[t].client : t \in Slow(s)}
        /\ IF frame.type = "leave" THEN NextEvent(events \ {e})
           ELSE spc' = "receive" /\ current' = e /\ events' = events \ {e}
        /\ UNCHANGED <<backlog, stop, client, clientEnd, script, first, heard>>
    BY ZenonT(40), ReceiveFrameEffect
  <1>3. PICK own : own = IF frame.type = "leave" THEN Free ELSE Noted(slot[s], frame)
    OBVIOUS
  <1>4. slot[s] \in SlotType /\ Len(slot[s].out) <= ServerOut /\ slot[s].client # Nobody
    BY <1>2 DEF TypeInv, SlotsTyped, Active
  <1>5. own \in SlotType /\ Len(own.out) <= ServerOut
        /\ (frame.type # "leave" => own.client = slot[s].client)
    BY <1>2, <1>3, <1>4, NotedTyped, ConstantsTyped
  <1>6. SlotsTyped'
    BY <1>2, <1>3, <1>5, BroadcastTyped DEF TypeInv
  <1>7. slot'[s] = own
    BY <1>2, <1>3, Broadcasting DEF TypeInv
  <1>8. RoundTyped'
    <2>1. CASE frame.type = "leave"
      <3>1. NextEvent(events \ {e}) /\ backlog' \in Seq(Clients) /\ stop' \in BOOLEAN
        BY <1>2, <2>1 DEF TypeInv, RoundTyped
      <3> QED
        BY <3>1, NextEventTyped
    <2>2. CASE frame.type # "leave"
      <3>1. spc' = "receive" /\ current' = e /\ events' \subseteq events
        BY <1>2, <2>2
      <3>2. e \in EventType /\ e.slot \in Slots
        BY <1>2 DEF TypeInv, RoundTyped
      <3>3. Active(e.slot)'
        BY <1>2, <1>4, <1>5, <1>7, <2>2, <3>1 DEF Active
      <3> QED
        BY <1>2, <3>1, <3>2, <3>3 DEF TypeInv, RoundTyped, Active
    <2> QED
      BY <2>1, <2>2
  <1>9. SocketsTyped'
    <2>1. /\ [toServer EXCEPT ![c] = Tail(@)] \in [Clients -> Seq(FrameType)]
          /\ \A d \in Clients : Len([toServer EXCEPT ![c] = Tail(@)][d]) <= Wire
      BY <1>2, Reading
    <2> QED
      BY <1>2, <2>1, Closing DEF TypeInv, SocketsTyped
  <1>10. ClientTyped'
    BY <1>2 DEF TypeInv, ClientTyped, client, local
  <1>11. HistoryTyped'
    BY <1>2, SlowClients DEF TypeInv, HistoryTyped
  <1> QED
    BY <1>6, <1>8, <1>9, <1>10, <1>11 DEF TypeInv

\* A slot is given up, and the others hear of it if its client had joined.
LEMMA GiveUpEffect ==
    ASSUME TypeInv, TcpChatAssumption, NEW e \in events \union {current}, GiveUp(e)
    PROVE  \E s \in Slots, c \in Clients :
           /\ s = e.slot /\ c = slot[s].client /\ Active(s)
           /\ slot[s].joined => /\ slot' = Broadcast(s, Leave(c), Free)
                                /\ CloseServerEnds({slot[t].client : t \in Slow(s)} \union {c}, toServer)
                                /\ dropped' = dropped \union {slot[t].client : t \in Slow(s)}
           /\ ~slot[s].joined => /\ slot' = [slot EXCEPT ![s] = Free]
                                 /\ CloseServerEnds({c}, toServer) /\ dropped' = dropped
           /\ NextEvent(events \ {e})
           /\ UNCHANGED <<backlog, stop, client, clientEnd, script, first, heard>>
  <1> DEFINE s == e.slot
             c == slot[s].client
  <1>1. Turn(e) /\ Disconnect(e, toServer) /\ UNCHANGED <<backlog, stop, client, clientEnd, script, first, heard>>
    BY DEF GiveUp
  <1>2. s \in Slots /\ Active(s) /\ c \in Clients
    BY <1>1, TurnTyped
  <1> DEFINE slow == {slot[t].client : t \in Slow(s)}
             told == IF slot[s].joined THEN slow ELSE {}
  <1>3. /\ slot' = IF slot[s].joined THEN Broadcast(s, Leave(c), Free) ELSE [slot EXCEPT ![s] = Free]
        /\ CloseServerEnds(told \union {c}, toServer)
        /\ dropped' = dropped \union told
        /\ NextEvent(events \ {e})
    BY <1>1 DEF Disconnect
  <1>4. slot[s].joined => told = slow
    OBVIOUS
  <1>5. ~slot[s].joined => told \union {c} = {c} /\ dropped \union told = dropped
    OBVIOUS
  <1>6. s = e.slot /\ c = slot[s].client
    OBVIOUS
  <1> HIDE DEF told, s, c
  <1>7. slot[s].joined => /\ slot' = Broadcast(s, Leave(c), Free)
                          /\ CloseServerEnds({slot[t].client : t \in Slow(s)} \union {c}, toServer)
                          /\ dropped' = dropped \union {slot[t].client : t \in Slow(s)}
    BY <1>3, <1>4, Zenon
  <1>8. ~slot[s].joined => /\ slot' = [slot EXCEPT ![s] = Free]
                           /\ CloseServerEnds({c}, toServer) /\ dropped' = dropped
    BY <1>3, <1>5, Zenon
  <1> QED
    BY <1>1, <1>2, <1>3, <1>6, <1>7, <1>8, Zenon

LEMMA GiveUpTyped ==
    ASSUME TypeInv, TcpChatAssumption, NEW e \in events \union {current}, GiveUp(e)
    PROVE  TypeInv'
  <1>2. PICK s \in Slots, c \in Clients :
        /\ s = e.slot /\ c = slot[s].client /\ Active(s)
        /\ slot[s].joined => /\ slot' = Broadcast(s, Leave(c), Free)
                             /\ CloseServerEnds({slot[t].client : t \in Slow(s)} \union {c}, toServer)
                             /\ dropped' = dropped \union {slot[t].client : t \in Slow(s)}
        /\ ~slot[s].joined => /\ slot' = [slot EXCEPT ![s] = Free]
                              /\ CloseServerEnds({c}, toServer) /\ dropped' = dropped
        /\ NextEvent(events \ {e})
        /\ UNCHANGED <<backlog, stop, client, clientEnd, script, first, heard>>
    BY GiveUpEffect
  <1>3. Free \in SlotType /\ Len(Free.out) <= ServerOut /\ Leave(c) \in FrameType
    BY <1>2, ConstantsTyped
  <1>4. SlotsTyped'
    <2>1. CASE slot[s].joined
      BY <1>2, <1>3, <2>1, BroadcastTyped DEF TypeInv
    <2>2. CASE ~slot[s].joined
      BY <1>2, <1>3, <2>2 DEF TypeInv, SlotsTyped
    <2> QED
      BY <2>1, <2>2
  <1>5. RoundTyped'
    <2>1. backlog' \in Seq(Clients) /\ stop' \in BOOLEAN /\ events \ {e} \in SUBSET events
      BY <1>2 DEF TypeInv, RoundTyped
    <2> QED
      BY <1>2, <2>1, NextEventTyped
  <1>6. SocketsTyped'
    <2>1. toServer \in [Clients -> Seq(FrameType)] /\ \A d \in Clients : Len(toServer[d]) <= Wire
      BY DEF TypeInv, SocketsTyped
    <2>2. PICK cs : CloseServerEnds(cs, toServer)
      BY <1>2
    <2>3. SocketsTyped /\ clientEnd' = clientEnd
      BY <1>2 DEF TypeInv
    <2> QED
      BY <2>1, <2>2, <2>3, Closing DEF SocketsTyped
  <1>7. ClientTyped'
    BY <1>2 DEF TypeInv, ClientTyped, client, local
  <1>8. HistoryTyped'
    BY <1>2, SlowClients DEF TypeInv, HistoryTyped
  <1> QED
    BY <1>4, <1>5, <1>6, <1>7, <1>8 DEF TypeInv

\* Everything is read, and the queue of a slot may be flushed.
LEMMA WriteEffect ==
    ASSUME TypeInv, TcpChatAssumption, NEW e \in events \union {current}, Write(e)
    PROVE  \E s \in Slots, c \in Clients :
           /\ s = e.slot /\ c = slot[s].client /\ Active(s) /\ slot[s] \in SlotType
           /\ slot[s].out \in Seq(FrameType) /\ toClient[c] \in Seq(FrameType)
           /\ \/ slot' = slot /\ toClient' = toClient
              \/ Gone(c) /\ slot' = [slot EXCEPT ![s].out = <<>>] /\ toClient' = toClient
              \/ /\ slot' = [slot EXCEPT ![s].out = Rest(slot[s].out, toClient[c])]
                 /\ toClient' = [toClient EXCEPT ![c] = Sent(slot[s].out, toClient[c])]
           /\ NextEvent(events \ {e})
           /\ UNCHANGED <<backlog, stop, client, serverEnd, clientEnd, toServer, script, history>>
  <1> DEFINE s == e.slot
             c == slot[s].client
  <1>1. /\ Turn(e) /\ NextEvent(events \ {e})
        /\ UNCHANGED <<backlog, stop, client, serverEnd, clientEnd, toServer, script, history>>
    BY DEF Write
  <1>2. s \in Slots /\ Active(s) /\ c \in Clients /\ slot[s] \in SlotType
    BY <1>1, TurnTyped
  <1>3. slot[s].out \in Seq(FrameType) /\ toClient[c] \in Seq(FrameType)
    BY <1>2 DEF SlotType, TypeInv, SocketsTyped
  <1>4. slot \in [Slots -> SlotType] /\ toClient \in [Clients -> Seq(FrameType)]
    BY DEF TypeInv, SlotsTyped, SocketsTyped
  <1>5. \/ slot' = slot /\ toClient' = toClient
        \/ Gone(c) /\ slot' = [slot EXCEPT ![s].out = <<>>] /\ toClient' = toClient
        \/ /\ slot' = [slot EXCEPT ![s].out = Rest(slot[s].out, toClient[c])]
           /\ toClient' = [toClient EXCEPT ![c] = Sent(slot[s].out, toClient[c])]
    <2>1. CASE "out" \notin e.flags
      BY <2>1 DEF Write
    <2>2. CASE "out" \in e.flags /\ Gone(c)
      BY <2>2 DEF Write
    <2>3. CASE "out" \in e.flags /\ ~Gone(c)
      BY <2>3 DEF Write
    <2> QED
      BY <2>1, <2>2, <2>3
  <1>6. s = e.slot /\ c = slot[s].client
    OBVIOUS
  <1> HIDE DEF s, c
  <1> QED
    BY <1>1, <1>2, <1>3, <1>5, <1>6, Zenon

LEMMA WriteTyped ==
    ASSUME TypeInv, TcpChatAssumption, NEW e \in events \union {current}, Write(e)
    PROVE  TypeInv'
  <1>2. PICK s \in Slots, c \in Clients :
        /\ s = e.slot /\ c = slot[s].client /\ Active(s) /\ slot[s] \in SlotType
        /\ slot[s].out \in Seq(FrameType) /\ toClient[c] \in Seq(FrameType)
        /\ \/ slot' = slot /\ toClient' = toClient
           \/ Gone(c) /\ slot' = [slot EXCEPT ![s].out = <<>>] /\ toClient' = toClient
           \/ /\ slot' = [slot EXCEPT ![s].out = Rest(slot[s].out, toClient[c])]
              /\ toClient' = [toClient EXCEPT ![c] = Sent(slot[s].out, toClient[c])]
        /\ NextEvent(events \ {e})
        /\ UNCHANGED <<backlog, stop, client, serverEnd, clientEnd, toServer, script, history>>
    BY WriteEffect
  <1>3. PICK rest, sent : rest = Rest(slot[s].out, toClient[c]) /\ sent = Sent(slot[s].out, toClient[c])
    OBVIOUS
  <1>4. /\ rest \in Seq(FrameType) /\ Len(rest) <= Len(slot[s].out)
        /\ sent \in Seq(FrameType) /\ Len(sent) <= Wire
    BY <1>2, <1>3, Flushing DEF TypeInv, SocketsTyped
  <1>5. ServerOut \in Nat /\ Len(slot[s].out) \in Nat /\ Len(rest) \in Nat
        /\ Len(slot[s].out) <= ServerOut
    BY <1>2, <1>4, LenProperties DEF TypeInv, SlotsTyped, TcpChatAssumption
  <1>6. ASSUME NEW q \in Seq(FrameType), slot' = [slot EXCEPT ![s].out = q], Len(q) <= ServerOut
        PROVE  SlotsTyped'
    <2>1. slot' = [slot EXCEPT ![s] = [slot[s] EXCEPT !.out = q]]
      BY <1>6
    <2>2. [slot[s] EXCEPT !.out = q] \in SlotType /\ [slot[s] EXCEPT !.out = q].out = q
      BY <1>2 DEF SlotType
    <2>3. slot' \in [Slots -> SlotType] /\ slot'[s].out = q /\ \A t \in Slots \ {s} : slot'[t] = slot[t]
      BY <2>1, <2>2 DEF TypeInv, SlotsTyped
    <2> QED
      BY <1>6, <2>3 DEF TypeInv, SlotsTyped
  <1>7. <<>> \in Seq(FrameType) /\ Len(<<>>) <= ServerOut
    BY <1>5, EmptySeq
  <1>8. Len(rest) <= ServerOut
    BY <1>4, <1>5
  <1>9. SlotsTyped'
    BY <1>2, <1>3, <1>4, <1>6, <1>7, <1>8 DEF TypeInv, SlotsTyped
  <1>10. RoundTyped'
    <2>1. backlog' \in Seq(Clients) /\ stop' \in BOOLEAN /\ events \ {e} \in SUBSET events
      BY <1>2 DEF TypeInv, RoundTyped
    <2> QED
      BY <1>2, <2>1, NextEventTyped
  <1>11. SocketsTyped'
    <2>1. toClient' = toClient \/ toClient' = [toClient EXCEPT ![c] = sent]
      BY <1>2, <1>3
    <2>2. /\ toClient' \in [Clients -> Seq(FrameType)]
          /\ \A d \in Clients : Len(toClient'[d]) <= Wire
      BY ZenonT(40), <1>4, <2>1 DEF TypeInv, SocketsTyped
    <2>3. toServer' = toServer /\ serverEnd' = serverEnd /\ clientEnd' = clientEnd
      BY <1>2
    <2> QED
      BY <2>2, <2>3 DEF TypeInv, SocketsTyped
  <1>12. ClientTyped'
    BY <1>2 DEF TypeInv, ClientTyped, client, local
  <1>13. HistoryTyped'
    BY <1>2 DEF TypeInv, HistoryTyped, history
  <1> QED
    BY <1>9, <1>10, <1>11, <1>12, <1>13 DEF TypeInv

LEMMA SkipTyped ==
    ASSUME TypeInv, TcpChatAssumption, NEW e \in events \union {current}, Skip(e)
    PROVE  TypeInv'
  <1>1. NextEvent(events \ {e}) /\ UNCHANGED <<slot, backlog, stop, client, sockets, script, history>>
    BY DEF Skip
  <1>2. RoundTyped'
    <2>1. backlog' \in Seq(Clients) /\ stop' \in BOOLEAN /\ events \ {e} \in SUBSET events
      BY <1>1 DEF TypeInv, RoundTyped
    <2> QED
      BY <1>1, <2>1, NextEventTyped
  <1> QED
    BY <1>1, <1>2 DEF TypeInv, SlotsTyped, ClientTyped, SocketsTyped, HistoryTyped, client, local,
                      sockets, history

LEMMA WaitTyped == ASSUME TypeInv, TcpChatAssumption, Wait PROVE TypeInv'
  <1>1. /\ spc' = "handle" /\ events' = Ready
        /\ UNCHANGED <<current, slot, backlog, stop, client, sockets, script, history>>
    BY DEF Wait
  <1>2. \A e \in Ready : e \in EventType /\ (e = NoEvent \/ e.slot \in Slots)
    <2>1. \A s \in Slots : Flags(s) \subseteq {"in", "out", "hup"}
      BY DEF Flags
    <2>2. \A s \in Slots : [slot |-> s, flags |-> Flags(s)] \in EventType
      BY <2>1 DEF EventType
    <2> QED
      BY <2>2, ConstantsTyped DEF Ready
  <1>3. RoundTyped'
    BY <1>1, <1>2 DEF TypeInv, RoundTyped
  <1> QED
    BY <1>1, <1>3 DEF TypeInv, SlotsTyped, ClientTyped, SocketsTyped, HistoryTyped, client, local,
                      sockets, history

LEMMA InterruptTyped == ASSUME TypeInv, TcpChatAssumption, Interrupt PROVE TypeInv'
  <1>1. /\ stop' = TRUE /\ spc' \in {spc, IF spc = "wait" THEN "stopping" ELSE spc}
        /\ UNCHANGED <<events, current, slot, backlog, client, sockets, history>>
    BY DEF Interrupt
  <1>2. RoundTyped'
    BY <1>1 DEF TypeInv, RoundTyped, Active
  <1> QED
    BY <1>1, <1>2 DEF TypeInv, SlotsTyped, ClientTyped, SocketsTyped, HistoryTyped, client, local,
                      sockets, history

LEMMA StopTyped == ASSUME TypeInv, TcpChatAssumption, Stop PROVE TypeInv'
  <1>1. /\ spc' = "stopped" /\ slot' = [s \in Slots |-> Free] /\ backlog' = <<>>
        /\ CloseServerEnds({c \in Clients : serverEnd[c] \in {"queued", "open"}}, toServer)
        /\ UNCHANGED <<events, current, stop, client, clientEnd, script, history>>
    BY DEF Stop
  <1>2. SlotsTyped'
    BY <1>1, ConstantsTyped DEF SlotsTyped
  <1>3. RoundTyped'
    BY <1>1, EmptySeq DEF TypeInv, RoundTyped
  <1>4. SocketsTyped'
    BY <1>1, Closing DEF TypeInv, SocketsTyped
  <1> QED
    BY <1>1, <1>2, <1>3, <1>4 DEF TypeInv, ClientTyped, HistoryTyped, client, local, history

-----------------------------------------------------------------------------
(* Connections are accepted.                                               *)

\* The place in the backlog of the connection that slot s gets.
Rank(s) == Cardinality({t \in 1 .. s : ~Active(t)})

LEMMA Ranks ==
    ASSUME TcpChatAssumption, NEW s \in Slots, ~Active(s)
    PROVE  /\ Rank(s) \in Nat \ {0}
           /\ \A t \in Slots : t < s => Rank(t) < Rank(s)
  <1> DEFINE Empty(t) == {u \in 1 .. t : ~Active(u)}
  <1>1. s \in Nat \ {0}
    BY DEF Slots, TcpChatAssumption
  <1>2. ASSUME NEW t \in Nat PROVE IsFiniteSet(Empty(t)) /\ Cardinality(Empty(t)) \in Nat
    <2>1. IsFiniteSet(1 .. t)
      BY FS_Interval
    <2>2. Empty(t) \in SUBSET (1 .. t)
      OBVIOUS
    <2> HIDE DEF Empty
    <2> QED
      BY <2>1, <2>2, FS_Subset, FS_CardinalityType
  <1>3. s \in Empty(s)
    BY <1>1
  <1>4. Cardinality(Empty(s)) # 0
    BY <1>1, <1>2, <1>3, FS_EmptySet
  <1>5. ASSUME NEW t \in Slots, t < s
        PROVE  Cardinality(Empty(t)) < Cardinality(Empty(s))
    <2>1. t \in Nat
      BY DEF Slots, TcpChatAssumption
    <2>2. s \notin Empty(t) /\ Empty(t) \union {s} \subseteq Empty(s)
      BY <1>1, <1>3, <1>5, <2>1
    <2>3. Cardinality(Empty(t) \union {s}) = Cardinality(Empty(t)) + 1
      BY <1>2, <2>1, <2>2, FS_AddElement
    <2>4. Cardinality(Empty(t) \union {s}) <= Cardinality(Empty(s))
      BY <1>1, <1>2, <2>2, FS_Subset
    <2>5. Cardinality(Empty(t)) \in Nat /\ Cardinality(Empty(s)) \in Nat
      BY <1>1, <1>2, <2>1
    <2> HIDE DEF Empty
    <2> QED
      BY <2>3, <2>4, <2>5
  <1>6. \A t \in Slots : Rank(t) = Cardinality(Empty(t))
    BY DEF Rank
  <1> QED
    BY <1>1, <1>2, <1>4, <1>5, <1>6

LEMMA AcceptedCases ==
    ASSUME TypeInv, TcpChatAssumption, NEW s \in Slots
    PROVE  \/ (Active(s) \/ Rank(s) > Len(backlog)) /\ Accepted(s) = slot[s]
           \/ /\ ~Active(s) /\ Rank(s) \in 1 .. Len(backlog)
              /\ backlog[Rank(s)] \in Clients
              /\ Accepted(s) = [Free EXCEPT !.client = backlog[Rank(s)]]
  <1>1. Len(backlog) \in Nat /\ \A i \in 1 .. Len(backlog) : backlog[i] \in Clients
    BY LenProperties, ElementOfSeq DEF TypeInv, RoundTyped
  <1>2. CASE Active(s)
    BY <1>2 DEF Accepted
  <1>3. CASE ~Active(s)
    <2>1. Rank(s) \in Nat \ {0}
      BY <1>3, Ranks
    <2>2. CASE Rank(s) > Len(backlog)
      BY <2>2 DEF Accepted, Rank
    <2>3. CASE ~(Rank(s) > Len(backlog))
      <3>1. Rank(s) \in 1 .. Len(backlog)
        BY <1>1, <2>1, <2>3
      <3>2. Accepted(s) = [Free EXCEPT !.client = backlog[Rank(s)]]
        BY <1>3, <2>3 DEF Accepted, Rank
      <3> QED
        BY <1>1, <1>3, <3>1, <3>2
    <2> QED
      BY <2>2, <2>3
  <1> QED
    BY <1>2, <1>3

LEMMA NewSlot ==
    ASSUME TcpChatAssumption, NEW c \in Clients
    PROVE  /\ [Free EXCEPT !.client = c] \in SlotType
           /\ [Free EXCEPT !.client = c].client = c /\ ~[Free EXCEPT !.client = c].joined
           /\ [Free EXCEPT !.client = c].transfer = NoTransfer
           /\ [Free EXCEPT !.client = c].out = <<>>
  BY EmptySeq, ConstantsTyped DEF Free, SlotType, Nobody

LEMMA AcceptTyped == ASSUME TypeInv, TcpChatAssumption, Accept PROVE TypeInv'
  <1>1. /\ slot' = [s \in Slots |-> Accepted(s)] /\ backlog' = <<>>
        /\ NextEvent(events \ {NoEvent})
        /\ UNCHANGED <<stop, client, clientEnd, toClient, script, history>>
    BY DEF Accept
  <1>2. PICK served, refused :
           /\ serverEnd' = [c \in Clients |-> IF c \in served THEN "open"
                                              ELSE IF c \in refused THEN "closed" ELSE serverEnd[c]]
           /\ toServer' = [c \in Clients |-> IF c \in refused THEN <<>> ELSE toServer[c]]
    <2> DEFINE fed == {c \in ToSet(backlog) : \E s \in Slots : Accepted(s).client = c}
               sent == ToSet(backlog) \ fed
    <2>1. /\ serverEnd' = [c \in Clients |-> IF c \in fed THEN "open"
                                             ELSE IF c \in sent THEN "closed" ELSE serverEnd[c]]
          /\ toServer' = [c \in Clients |-> IF c \in sent THEN <<>> ELSE toServer[c]]
      BY DEF Accept
    <2> HIDE DEF fed, sent
    <2> QED
      BY <2>1, Zenon
  <1>3. SlotsTyped'
    <2>1. ASSUME NEW s \in Slots PROVE Accepted(s) \in SlotType /\ Len(Accepted(s).out) <= ServerOut
      <3>1. CASE Accepted(s) = slot[s]
        BY <3>1 DEF TypeInv, SlotsTyped
      <3>2. ASSUME NEW c \in Clients, Accepted(s) = [Free EXCEPT !.client = c]
            PROVE  Accepted(s) \in SlotType /\ Len(Accepted(s).out) <= ServerOut
        BY <3>2, NewSlot, EmptySeq DEF TcpChatAssumption
      <3> QED
        BY <3>1, <3>2, AcceptedCases
    <2> QED
      BY <1>1, <2>1 DEF SlotsTyped
  <1>4. RoundTyped'
    BY <1>1, NextEventTyped, EmptySeq DEF TypeInv, RoundTyped
  <1>5. SocketsTyped'
    BY <1>1, <1>2, EmptySeq DEF TypeInv, SocketsTyped, Ends, TcpChatAssumption
  <1> QED
    BY <1>1, <1>3, <1>4, <1>5 DEF TypeInv, ClientTyped, HistoryTyped, client, local, history

-----------------------------------------------------------------------------
(* Types: the clients.                                                     *)

LEMMA QuitEffect ==
    ASSUME TypeInv, TcpChatAssumption, NEW c \in Clients, NEW queue \in Seq(FrameType),
           Len(queue) <= ClientOut, Quit(c, queue)
    PROVE  \E last \in Seq(FrameType) :
              /\ out' = [out EXCEPT ![c] = last] /\ Len(last) <= ClientOut
              /\ \/ cpc' = [cpc EXCEPT ![c] = "close"] /\ last = queue
                 \/ cpc' = [cpc EXCEPT ![c] = "drain"] /\ last = Append(queue, Leave(c))
  <1>1. CASE Len(queue) < ClientOut
    <2>1. /\ Append(queue, Leave(c)) \in Seq(FrameType)
          /\ Len(Append(queue, Leave(c))) = Len(queue) + 1 /\ Len(queue) \in Nat
      BY AppendProperties, LenProperties, ConstantsTyped
    <2>2. Len(Append(queue, Leave(c))) <= ClientOut
      BY <1>1, <2>1 DEF TcpChatAssumption
    <2>3. /\ cpc' = [cpc EXCEPT ![c] = "drain"]
          /\ out' = [out EXCEPT ![c] = Append(queue, Leave(c))]
      BY <1>1 DEF Quit
    <2> QED
      BY <2>1, <2>2, <2>3
  <1>2. CASE ~(Len(queue) < ClientOut)
    <2>1. cpc' = [cpc EXCEPT ![c] = "close"] /\ out' = [out EXCEPT ![c] = queue]
      BY <1>2 DEF Quit
    <2> QED
      BY <2>1
  <1> QED
    BY <1>1, <1>2

LEMMA QuitTyped ==
    ASSUME TypeInv, TcpChatAssumption, NEW c \in Clients, NEW queue \in Seq(FrameType),
           Len(queue) <= ClientOut, Quit(c, queue)
    PROVE  /\ cpc' \in [Clients -> {"off", "run", "drain", "close", "done"}]
           /\ out' \in [Clients -> Seq(FrameType)] /\ \A d \in Clients : Len(out'[d]) <= ClientOut
  <1>1. PICK last \in Seq(FrameType) :
           /\ out' = [out EXCEPT ![c] = last] /\ Len(last) <= ClientOut
           /\ \/ cpc' = [cpc EXCEPT ![c] = "close"] /\ last = queue
              \/ cpc' = [cpc EXCEPT ![c] = "drain"] /\ last = Append(queue, Leave(c))
    BY QuitEffect
  <1> QED
    BY <1>1 DEF TypeInv, ClientTyped

\* A frame of the file is queued if there is room.
LEMMA Pumping ==
    ASSUME TypeInv, TcpChatAssumption, NEW c \in Clients
    PROVE  /\ PumpedOut(c) \in Seq(FrameType) /\ Len(PumpedOut(c)) <= ClientOut
           /\ PumpedFile(c) \in TransferType /\ PumpedCount(c) \in Nat
           /\ CanPump(c) => Pumped(c) \in FrameType
  <1>1. /\ out[c] \in Seq(FrameType) /\ Len(out[c]) <= ClientOut /\ Len(out[c]) \in Nat
        /\ outgoing[c] \in TransferType /\ count[c] \in Nat /\ ClientOut \in Nat
    BY LenProperties DEF TypeInv, ClientTyped, TcpChatAssumption
  <1>2. Pumped(c) \in FrameType
    <2>1. \A kind \in {"chunk", "end"} : Frame(c, kind, outgoing[c].id, 0, count[c] + 1) \in FrameType
      BY <1>1 DEF Frame, FrameType, Kinds, TransferType
    <2> QED
      BY <2>1 DEF Pumped
  <1>3. PumpedFile(c) \in TransferType
    <2>1. [outgoing[c] EXCEPT !.done = @ + 1] \in TransferType
      BY SMTT(30), <1>1 DEF TransferType
    <2>2. PumpedFile(c) \in {outgoing[c], [outgoing[c] EXCEPT !.done = @ + 1], NoTransfer}
      BY DEF PumpedFile
    <2> QED
      BY <1>1, <2>1, <2>2, ConstantsTyped
  <1>4. PumpedCount(c) \in Nat
    BY <1>1 DEF PumpedCount
  <1>5. /\ Append(out[c], Pumped(c)) \in Seq(FrameType)
        /\ Len(Append(out[c], Pumped(c))) = Len(out[c]) + 1
    BY <1>1, <1>2, AppendProperties
  <1>6. CanPump(c) => Len(Append(out[c], Pumped(c))) <= ClientOut
    BY <1>1, <1>5 DEF CanPump
  <1>7. PumpedOut(c) \in Seq(FrameType) /\ Len(PumpedOut(c)) <= ClientOut
    BY <1>1, <1>5, <1>6 DEF PumpedOut
  <1> QED
    BY <1>2, <1>3, <1>4, <1>7

LEMMA FlushTyped ==
    ASSUME TypeInv, TcpChatAssumption, NEW c \in Clients
    PROVE  /\ Flushed(c) \in Seq(FrameType) /\ Len(Flushed(c)) <= ClientOut
           /\ FlushOut(c) => /\ toServer' \in [Clients -> Seq(FrameType)]
                             /\ \A d \in Clients : Len(toServer'[d]) <= Wire
  <1>1. /\ PumpedOut(c) \in Seq(FrameType) /\ Len(PumpedOut(c)) <= ClientOut
        /\ Len(PumpedOut(c)) \in Nat /\ ClientOut \in Nat
    BY Pumping, LenProperties DEF TcpChatAssumption
  <1>2. toServer[c] \in Seq(FrameType) /\ Len(toServer[c]) <= Wire
    BY DEF TypeInv, SocketsTyped
  <1>3. PICK rest, sent : rest = Rest(PumpedOut(c), toServer[c]) /\ sent = Sent(PumpedOut(c), toServer[c])
    OBVIOUS
  <1>4. /\ rest \in Seq(FrameType) /\ Len(rest) <= Len(PumpedOut(c))
        /\ sent \in Seq(FrameType) /\ Len(sent) <= Wire
    BY <1>1, <1>2, <1>3, Flushing
  <1>5. Len(rest) \in Nat
    BY <1>4, LenProperties
  <1>6. Flushed(c) \in Seq(FrameType) /\ Len(Flushed(c)) <= ClientOut
    BY <1>1, <1>3, <1>4, <1>5, EmptySeq DEF Flushed
  <1>7. ASSUME FlushOut(c)
        PROVE  /\ toServer' \in [Clients -> Seq(FrameType)]
               /\ \A d \in Clients : Len(toServer'[d]) <= Wire
    <2>1. toServer' = toServer \/ toServer' = [toServer EXCEPT ![c] = sent]
      BY <1>3, <1>7 DEF FlushOut
    <2> QED
      BY <1>4, <2>1 DEF TypeInv, SocketsTyped
  <1> QED
    BY <1>6, <1>7

LEMMA StartTyped == ASSUME TypeInv, TcpChatAssumption, NEW c \in Clients, Start(c) PROVE TypeInv'
  <1>1. /\ \/ /\ cpc' = [cpc EXCEPT ![c] = "done"]
              /\ UNCHANGED <<backlog, serverEnd, clientEnd, out, count>>
           \/ /\ cpc' = [cpc EXCEPT ![c] = "run"]
              /\ backlog' = Append(backlog, c)
              /\ serverEnd' = [serverEnd EXCEPT ![c] = "queued"]
              /\ clientEnd' = [clientEnd EXCEPT ![c] = "open"]
              /\ out' = [out EXCEPT ![c] = <<Frame(c, "join", 0, 0, 1)>>]
              /\ count' = [count EXCEPT ![c] = 1]
        /\ UNCHANGED <<spc, events, current, slot, stop, outgoing, incoming,
                       toServer, toClient, history>>
    BY DEF Start
  <1>2. Frame(c, "join", 0, 0, 1) \in FrameType
    BY DEF Frame, FrameType, Kinds
  <1>3. <<Frame(c, "join", 0, 0, 1)>> \in Seq(FrameType) /\ Len(<<Frame(c, "join", 0, 0, 1)>>) = 1
    BY <1>2
  <1>4. Append(backlog, c) \in Seq(Clients)
    BY AppendProperties DEF TypeInv, RoundTyped
  <1>5. SlotsTyped' /\ HistoryTyped'
    BY <1>1 DEF TypeInv, SlotsTyped, HistoryTyped, history
  <1>6. RoundTyped'
    BY <1>1, <1>4 DEF TypeInv, RoundTyped, Active
  <1>7. ClientTyped'
    <2>1. cpc' \in [Clients -> {"off", "run", "drain", "close", "done"}]
      BY <1>1 DEF TypeInv, ClientTyped
    <2>2. PICK queue \in Seq(FrameType) : queue = <<Frame(c, "join", 0, 0, 1)>> /\ Len(queue) = 1
      BY <1>3
    <2>3. out' = out \/ out' = [out EXCEPT ![c] = queue]
      BY <1>1, <2>2, Zenon
    <2>4. out' \in [Clients -> Seq(FrameType)] /\ \A d \in Clients : Len(out'[d]) <= ClientOut
      <3>1. Len(queue) <= ClientOut
        BY <2>2 DEF TcpChatAssumption
      <3>2. queue \in Seq(FrameType)
        OBVIOUS
      <3>3. out \in [Clients -> Seq(FrameType)] /\ \A d \in Clients : Len(out[d]) <= ClientOut
        BY DEF TypeInv, ClientTyped
      <3> QED
        BY <2>3, <3>1, <3>2, <3>3
    <2>5. outgoing' = outgoing /\ incoming' = incoming
      BY <1>1
    <2>6. count' = count \/ count' = [count EXCEPT ![c] = 1]
      BY <1>1, Zenon
    <2>7. count' \in [Clients -> Nat]
      <3>1. count \in [Clients -> Nat]
        BY DEF TypeInv, ClientTyped
      <3> QED
        BY <2>6, <3>1
    <2> QED
      BY <2>1, <2>4, <2>5, <2>7 DEF TypeInv, ClientTyped
  <1>8. SocketsTyped'
    BY ZenonT(40), <1>1 DEF TypeInv, SocketsTyped, Ends
  <1> QED
    BY <1>5, <1>6, <1>7, <1>8 DEF TypeInv

\* The files a client receives stay within their number.
LEMMA FilesTyped ==
    ASSUME TypeInv, TcpChatAssumption, NEW c \in Clients, NEW frame \in FrameType, ~Refuses(c, frame)
    PROVE  /\ FilesAfter(c, frame) \in SUBSET FileType
           /\ IsFiniteSet(FilesAfter(c, frame)) /\ Cardinality(FilesAfter(c, frame)) <= IncomingMax
  <1> DEFINE files == Incoming(c, frame.from, frame.id)
             new == [from |-> frame.from, id |-> frame.id, size |-> frame.size, done |-> 0]
             more == [f \in files |-> [f EXCEPT !.done = @ + 1]]
             longer == {[f EXCEPT !.done = @ + 1] : f \in files}
  <1>1. /\ incoming[c] \subseteq FileType /\ IsFiniteSet(incoming[c])
        /\ Cardinality(incoming[c]) <= IncomingMax /\ IncomingMax \in Nat
        /\ Cardinality(incoming[c]) \in Nat
    BY FS_CardinalityType DEF TypeInv, ClientTyped, TcpChatAssumption
  <1>2. files \subseteq incoming[c]
    BY DEF Incoming
  <1>3. \A T \in SUBSET incoming[c] : /\ T \subseteq FileType /\ IsFiniteSet(T)
                                      /\ Cardinality(T) <= IncomingMax
    <2>1. ASSUME NEW T \in SUBSET incoming[c]
          PROVE  IsFiniteSet(T) /\ Cardinality(T) <= Cardinality(incoming[c]) /\ Cardinality(T) \in Nat
      BY <1>1, FS_Subset, FS_CardinalityType
    <2> QED
      BY <1>1, <2>1
  <1>4. CASE frame.type = "begin"
    <2>1. FilesAfter(c, frame) = incoming[c] \union {new}
      BY <1>4 DEF FilesAfter
    <2>2. ~(Cardinality(incoming[c]) >= IncomingMax)
      BY <1>4 DEF Refuses
    <2>3. new \in FileType
      BY DEF FrameType, FileType
    <2>4. IsFiniteSet(incoming[c] \union {new})
          /\ Cardinality(incoming[c] \union {new}) <= Cardinality(incoming[c]) + 1
          /\ Cardinality(incoming[c] \union {new}) \in Nat
      <3> HIDE DEF new
      <3>1. /\ IsFiniteSet(incoming[c] \union {new})
            /\ Cardinality(incoming[c] \union {new})
                  = IF new \in incoming[c] THEN Cardinality(incoming[c]) ELSE Cardinality(incoming[c]) + 1
        BY <1>1, FS_AddElement
      <3> QED
        BY <1>1, <3>1
    <2> QED
      BY <1>1, <2>1, <2>2, <2>3, <2>4
  <1>5. CASE frame.type = "chunk"
    <2>1. FilesAfter(c, frame) = (incoming[c] \ files) \union longer
      BY <1>5 DEF FilesAfter
    <2>2. longer \subseteq FileType
      BY <1>1, <1>2 DEF FileType
    <2>3. more \in Surjection(files, longer)
      BY DEF Surjection
    <2>4. IsFiniteSet(files) /\ IsFiniteSet(incoming[c] \ files)
          /\ Cardinality(files) \in Nat /\ Cardinality(incoming[c] \ files) \in Nat
      BY <1>1, <1>2, FS_Subset, FS_CardinalityType
    <2>5. IsFiniteSet(longer) /\ Cardinality(longer) <= Cardinality(files) /\ Cardinality(longer) \in Nat
      BY <2>3, <2>4, FS_Surjection, FS_CardinalityType
    <2>6. Cardinality(incoming[c]) = Cardinality(incoming[c] \ files) + Cardinality(files)
      <3>1. (incoming[c] \ files) \union files = incoming[c] /\ (incoming[c] \ files) \cap files = {}
        BY <1>2
      <3>2. Cardinality((incoming[c] \ files) \union files)
               = Cardinality(incoming[c] \ files) + Cardinality(files)
                    - Cardinality((incoming[c] \ files) \cap files)
        BY <2>4, FS_Union
      <3> HIDE DEF files
      <3>3. Cardinality((incoming[c] \ files) \cap files) = 0
        BY <3>1, FS_EmptySet
      <3>4. Cardinality(incoming[c] \ files) + Cardinality(files) - 0
               = Cardinality(incoming[c] \ files) + Cardinality(files)
        BY <2>4
      <3> QED
        BY <3>1, <3>2, <3>3, <3>4, Zenon
    <2>7. /\ IsFiniteSet((incoming[c] \ files) \union longer)
          /\ Cardinality((incoming[c] \ files) \union longer)
                <= Cardinality(incoming[c] \ files) + Cardinality(longer)
          /\ Cardinality((incoming[c] \ files) \union longer) \in Nat
      <3>1. IsFiniteSet((incoming[c] \ files) \cap longer)
            /\ Cardinality((incoming[c] \ files) \cap longer) \in Nat
        BY <2>5, FS_Subset, FS_CardinalityType
      <3> HIDE DEF files, longer
      <3>2. /\ IsFiniteSet((incoming[c] \ files) \union longer)
            /\ Cardinality((incoming[c] \ files) \union longer)
                  = Cardinality(incoming[c] \ files) + Cardinality(longer)
                       - Cardinality((incoming[c] \ files) \cap longer)
        BY <2>4, <2>5, FS_Union
      <3> QED
        BY <2>4, <2>5, <3>1, <3>2, FS_CardinalityType
    <2> HIDE DEF files, longer
    <2> QED
      BY <1>1, <2>1, <2>2, <2>4, <2>5, <2>6, <2>7
  <1>6. CASE frame.type \notin {"begin", "chunk"}
    <2>1. FilesAfter(c, frame) \subseteq incoming[c]
      BY <1>6 DEF FilesAfter
    <2> QED
      BY <1>3, <2>1
  <1> QED
    BY <1>4, <1>5, <1>6

LEMMA ReceiveTyped == ASSUME TypeInv, TcpChatAssumption, NEW c \in Clients, Receive(c) PROVE TypeInv'
  <1>1. PICK frame : frame = Head(toClient[c])
    OBVIOUS
  <1>2. /\ toClient[c] # <<>> /\ toClient' = [toClient EXCEPT ![c] = Tail(@)]
        /\ \/ Quit(c, out[c]) /\ UNCHANGED <<incoming, first, heard>>
           \/ /\ ~Refuses(c, frame) /\ incoming' = [incoming EXCEPT ![c] = FilesAfter(c, frame)]
              /\ first' = [first EXCEPT ![c][frame.from] = IF @ = 0 THEN frame.n ELSE @]
              /\ heard' = [heard EXCEPT ![c][frame.from] = IF frame.n = 0 THEN @ ELSE frame.n]
              /\ UNCHANGED <<cpc, out>>
        /\ UNCHANGED <<server, outgoing, count, serverEnd, clientEnd, toServer, script, dropped>>
    BY <1>1 DEF Receive
  <1>3. /\ frame \in FrameType /\ Tail(toClient[c]) \in Seq(FrameType)
        /\ Len(Tail(toClient[c])) = Len(toClient[c]) - 1 /\ Len(toClient[c]) \in Nat
    BY <1>1, <1>2, HeadTailProperties, LenProperties DEF TypeInv, SocketsTyped
  <1>4. Len(Tail(toClient[c])) <= Wire
    BY <1>3 DEF TypeInv, SocketsTyped, TcpChatAssumption
  <1>5. SocketsTyped'
    BY <1>2, <1>3, <1>4 DEF TypeInv, SocketsTyped
  <1>6. out[c] \in Seq(FrameType) /\ Len(out[c]) <= ClientOut
    BY DEF TypeInv, ClientTyped
  <1>7. ClientTyped' /\ HistoryTyped'
    <2>1. CASE Quit(c, out[c]) /\ UNCHANGED <<incoming, first, heard>>
      BY <1>2, <1>6, <2>1, QuitTyped DEF TypeInv, ClientTyped, HistoryTyped
    <2>2. CASE /\ ~Refuses(c, frame) /\ incoming' = [incoming EXCEPT ![c] = FilesAfter(c, frame)]
               /\ first' = [first EXCEPT ![c][frame.from] = IF @ = 0 THEN frame.n ELSE @]
               /\ heard' = [heard EXCEPT ![c][frame.from] = IF frame.n = 0 THEN @ ELSE frame.n]
               /\ UNCHANGED <<cpc, out>>
      <3>1. /\ FilesAfter(c, frame) \in SUBSET FileType /\ IsFiniteSet(FilesAfter(c, frame))
            /\ Cardinality(FilesAfter(c, frame)) <= IncomingMax
        BY <1>3, <2>2, FilesTyped
      <3>2. ClientTyped'
        BY <1>2, <2>2, <3>1 DEF TypeInv, ClientTyped
      <3>3. HistoryTyped'
        <4>1. PICK d \in Clients, n \in Nat : d = frame.from /\ n = frame.n
          BY <1>3 DEF FrameType
        <4>2. /\ first[c] \in [Clients -> Nat] /\ heard[c] \in [Clients -> Nat]
              /\ first \in [Clients -> [Clients -> Nat]] /\ heard \in [Clients -> [Clients -> Nat]]
          BY DEF TypeInv, HistoryTyped
        <4>3. PICK n1 \in Nat, n2 \in Nat :
                 /\ first' = [first EXCEPT ![c] = [first[c] EXCEPT ![d] = n1]]
                 /\ heard' = [heard EXCEPT ![c] = [heard[c] EXCEPT ![d] = n2]]
          BY <2>2, <4>1, <4>2
        <4>4. first' \in [Clients -> [Clients -> Nat]] /\ heard' \in [Clients -> [Clients -> Nat]]
          BY <4>2, <4>3
        <4> QED
          BY <1>2, <4>4 DEF TypeInv, HistoryTyped
      <3> QED
        BY <3>2, <3>3
    <2> QED
      BY <1>2, <2>1, <2>2
  <1>8. SlotsTyped' /\ RoundTyped'
    BY <1>2 DEF TypeInv, SlotsTyped, RoundTyped, server, Active
  <1> QED
    BY <1>5, <1>7, <1>8 DEF TypeInv

LEMMA ServerGoneTyped ==
    ASSUME TypeInv, TcpChatAssumption, NEW c \in Clients, ServerGone(c) PROVE TypeInv'
  <1>1. /\ Quit(c, out[c]) /\ UNCHANGED <<server, outgoing, incoming, count, sockets, script, history>>
    BY DEF ServerGone
  <1>2. out[c] \in Seq(FrameType) /\ Len(out[c]) <= ClientOut
    BY DEF TypeInv, ClientTyped
  <1>3. ClientTyped'
    BY <1>1, <1>2, QuitTyped DEF TypeInv, ClientTyped
  <1> QED
    BY <1>1, <1>3 DEF TypeInv, SlotsTyped, RoundTyped, SocketsTyped, HistoryTyped, server, sockets,
                      history, Active

LEMMA RoundStepTyped ==
    ASSUME TypeInv, TcpChatAssumption, NEW c \in Clients, Round(c) PROVE TypeInv'
  <1>1. /\ FlushOut(c) /\ out' = [out EXCEPT ![c] = Flushed(c)]
        /\ outgoing' = [outgoing EXCEPT ![c] = PumpedFile(c)]
        /\ count' = [count EXCEPT ![c] = PumpedCount(c)]
        /\ UNCHANGED <<server, cpc, incoming, serverEnd, clientEnd, toClient, script,
                       first, heard, dropped>>
    BY DEF Round
  <1>2. /\ Flushed(c) \in Seq(FrameType) /\ Len(Flushed(c)) <= ClientOut
        /\ toServer' \in [Clients -> Seq(FrameType)]
        /\ \A d \in Clients : Len(toServer'[d]) <= Wire
        /\ PumpedFile(c) \in TransferType /\ PumpedCount(c) \in Nat
    BY <1>1, FlushTyped, Pumping
  <1>3. ClientTyped'
    BY <1>1, <1>2 DEF TypeInv, ClientTyped
  <1>4. SocketsTyped'
    BY <1>1, <1>2 DEF TypeInv, SocketsTyped
  <1> QED
    BY <1>1, <1>3, <1>4 DEF TypeInv, SlotsTyped, RoundTyped, HistoryTyped, server, Active

LEMMA ReadFailsTyped ==
    ASSUME TypeInv, TcpChatAssumption, NEW c \in Clients, ReadFails(c) PROVE TypeInv'
  <1>1. /\ outgoing' = [outgoing EXCEPT ![c] = NoTransfer] /\ Quit(c, out[c])
        /\ UNCHANGED <<server, incoming, count, sockets, history>>
    BY DEF ReadFails
  <1>2. out[c] \in Seq(FrameType) /\ Len(out[c]) <= ClientOut
    BY DEF TypeInv, ClientTyped
  <1>3. ClientTyped'
    BY <1>1, <1>2, QuitTyped, ConstantsTyped DEF TypeInv, ClientTyped
  <1> QED
    BY <1>1, <1>3 DEF TypeInv, SlotsTyped, RoundTyped, SocketsTyped, HistoryTyped, server, sockets,
                      history, Active

\* What a user types is queued as one more frame, is not taken because a file is still
\* being sent, or ends the client.
LEMMA TypeEffect ==
    ASSUME TypeInv, TcpChatAssumption, NEW c \in Clients,
           NEW line \in {"message", "file", "empty", "exit"}, Type(c, line)
    PROVE  /\ cpc[c] = "run" /\ FlushOut(c)
           /\ \/ /\ out' = [out EXCEPT ![c] = Flushed(c)] /\ cpc' = cpc
                 /\ count' = [count EXCEPT ![c] = PumpedCount(c)]
                 /\ outgoing' = [outgoing EXCEPT ![c] = PumpedFile(c)]
              \/ /\ Quit(c, Flushed(c))
                 /\ count' = [count EXCEPT ![c] = PumpedCount(c)]
                 /\ outgoing' = [outgoing EXCEPT ![c] = PumpedFile(c)]
              \/ /\ Len(Flushed(c)) < ClientOut
                 /\ out' = [out EXCEPT ![c] = Append(Flushed(c),
                                                     Frame(c, "message", 0, 0, PumpedCount(c) + 1))]
                 /\ cpc' = cpc
                 /\ count' = [count EXCEPT ![c] = PumpedCount(c) + 1]
                 /\ outgoing' = [outgoing EXCEPT ![c] = PumpedFile(c)]
              \/ /\ Len(Flushed(c)) < ClientOut /\ PumpedFile(c).id = 0
                 /\ \E size \in {0, Size} :
                       /\ out' = [out EXCEPT ![c] = Append(Flushed(c),
                             Frame(c, "begin", PumpedCount(c) + 1, size, PumpedCount(c) + 1))]
                       /\ outgoing' = [outgoing EXCEPT ![c] =
                                          [id |-> PumpedCount(c) + 1, size |-> size, done |-> 0]]
                 /\ cpc' = cpc
                 /\ count' = [count EXCEPT ![c] = PumpedCount(c) + 1]
           /\ UNCHANGED <<server, incoming, serverEnd, clientEnd, toClient, first, heard, dropped>>
  <1>1. CASE line = "message"
    BY <1>1 DEF Type
  <1>2. CASE line = "exit"
    BY <1>2 DEF Type
  <1>3. CASE line \in {"file", "empty"} /\ PumpedFile(c).id # 0
    BY <1>3 DEF Type
  <1>4. CASE line = "file" /\ PumpedFile(c).id = 0
    BY <1>4 DEF Type
  <1>5. CASE line = "empty" /\ PumpedFile(c).id = 0
    BY <1>5 DEF Type
  <1> QED
    BY <1>1, <1>2, <1>3, <1>4, <1>5

LEMMA TypeTyped ==
    ASSUME TypeInv, TcpChatAssumption, NEW c \in Clients,
           NEW line \in {"message", "file", "empty", "exit"}, Type(c, line)
    PROVE  TypeInv'
  <1>1. /\ Flushed(c) \in Seq(FrameType) /\ Len(Flushed(c)) <= ClientOut
        /\ (FlushOut(c) => /\ toServer' \in [Clients -> Seq(FrameType)]
                           /\ \A d \in Clients : Len(toServer'[d]) <= Wire)
        /\ PumpedFile(c) \in TransferType /\ PumpedCount(c) \in Nat
    BY FlushTyped, Pumping
  <1>2. /\ FlushOut(c)
        /\ UNCHANGED <<server, incoming, serverEnd, clientEnd, toClient, first, heard, dropped>>
    BY TypeEffect
  <1>3. Len(Flushed(c)) \in Nat /\ ClientOut \in Nat /\ Size \in Nat
    BY <1>1, LenProperties DEF TcpChatAssumption
  <1>4. \A frame \in FrameType : Len(Flushed(c)) < ClientOut =>
           /\ Append(Flushed(c), frame) \in Seq(FrameType)
           /\ Len(Append(Flushed(c), frame)) <= ClientOut
    BY <1>1, <1>3, AppendProperties
  <1>5. \A n, size \in Nat : /\ Frame(c, "message", 0, 0, n) \in FrameType
                             /\ Frame(c, "begin", n, size, n) \in FrameType
                             /\ [id |-> n, size |-> size, done |-> 0] \in TransferType
    BY DEF Frame, FrameType, Kinds, TransferType
  <1>6. ClientTyped'
    <2>1. CASE /\ out' = [out EXCEPT ![c] = Flushed(c)] /\ cpc' = cpc
               /\ count' = [count EXCEPT ![c] = PumpedCount(c)]
               /\ outgoing' = [outgoing EXCEPT ![c] = PumpedFile(c)]
      BY <1>1, <1>2, <2>1 DEF TypeInv, ClientTyped
    <2>2. CASE /\ Quit(c, Flushed(c))
               /\ count' = [count EXCEPT ![c] = PumpedCount(c)]
               /\ outgoing' = [outgoing EXCEPT ![c] = PumpedFile(c)]
      BY <1>1, <1>2, <2>2, QuitTyped DEF TypeInv, ClientTyped
    <2>3. CASE /\ Len(Flushed(c)) < ClientOut
               /\ out' = [out EXCEPT ![c] = Append(Flushed(c),
                                                   Frame(c, "message", 0, 0, PumpedCount(c) + 1))]
               /\ cpc' = cpc
               /\ count' = [count EXCEPT ![c] = PumpedCount(c) + 1]
               /\ outgoing' = [outgoing EXCEPT ![c] = PumpedFile(c)]
      <3>1. PICK queue : queue = Append(Flushed(c), Frame(c, "message", 0, 0, PumpedCount(c) + 1))
        OBVIOUS
      <3>2. PumpedCount(c) + 1 \in Nat
        BY <1>1
      <3>3. queue \in Seq(FrameType) /\ Len(queue) <= ClientOut
        BY <1>4, <1>5, <2>3, <3>1, <3>2
      <3> QED
        BY <1>1, <1>2, <2>3, <3>1, <3>2, <3>3 DEF TypeInv, ClientTyped
    <2>4. CASE /\ Len(Flushed(c)) < ClientOut
               /\ \E size \in {0, Size} :
                     /\ out' = [out EXCEPT ![c] = Append(Flushed(c),
                           Frame(c, "begin", PumpedCount(c) + 1, size, PumpedCount(c) + 1))]
                     /\ outgoing' = [outgoing EXCEPT ![c] =
                                        [id |-> PumpedCount(c) + 1, size |-> size, done |-> 0]]
               /\ cpc' = cpc
               /\ count' = [count EXCEPT ![c] = PumpedCount(c) + 1]
      <3>1. PICK size \in {0, Size} :
               /\ out' = [out EXCEPT ![c] = Append(Flushed(c),
                     Frame(c, "begin", PumpedCount(c) + 1, size, PumpedCount(c) + 1))]
               /\ outgoing' = [outgoing EXCEPT ![c] =
                                  [id |-> PumpedCount(c) + 1, size |-> size, done |-> 0]]
        BY <2>4
      <3>2. PICK queue, file :
               /\ queue = Append(Flushed(c), Frame(c, "begin", PumpedCount(c) + 1, size, PumpedCount(c) + 1))
               /\ file = [id |-> PumpedCount(c) + 1, size |-> size, done |-> 0]
        OBVIOUS
      <3>3. size \in Nat /\ PumpedCount(c) + 1 \in Nat
        BY <1>1, <1>3
      <3>4. queue \in Seq(FrameType) /\ Len(queue) <= ClientOut /\ file \in TransferType
        BY <1>4, <1>5, <2>4, <3>2, <3>3
      <3> QED
        BY <1>2, <2>4, <3>1, <3>2, <3>3, <3>4 DEF TypeInv, ClientTyped
    <2> QED
      BY <2>1, <2>2, <2>3, <2>4, TypeEffect
  <1>7. SocketsTyped'
    BY <1>1, <1>2 DEF TypeInv, SocketsTyped
  <1> QED
    BY <1>2, <1>6, <1>7 DEF TypeInv, SlotsTyped, RoundTyped, HistoryTyped, server, Active

LEMMA DrainTyped == ASSUME TypeInv, TcpChatAssumption, NEW c \in Clients, Drain(c) PROVE TypeInv'
  <1>1. PICK rest, sent : rest = Rest(out[c], toServer[c]) /\ sent = Sent(out[c], toServer[c])
    OBVIOUS
  <1>2. /\ toServer' = toServer \/ toServer' = [toServer EXCEPT ![c] = sent]
        /\ out' = [out EXCEPT ![c] = rest]
        /\ cpc' = [cpc EXCEPT ![c] = "close"] \/ cpc' = [cpc EXCEPT ![c] = "drain"]
        /\ UNCHANGED <<server, outgoing, incoming, count, serverEnd, clientEnd, toClient,
                       script, history>>
    BY <1>1 DEF Drain
  <1>3. /\ out[c] \in Seq(FrameType) /\ Len(out[c]) <= ClientOut /\ Len(out[c]) \in Nat
        /\ toServer[c] \in Seq(FrameType) /\ Len(toServer[c]) <= Wire /\ ClientOut \in Nat
    BY LenProperties DEF TypeInv, ClientTyped, SocketsTyped, TcpChatAssumption
  <1>4. /\ rest \in Seq(FrameType) /\ Len(rest) <= Len(out[c]) /\ Len(rest) \in Nat
        /\ sent \in Seq(FrameType) /\ Len(sent) <= Wire
    BY <1>1, <1>3, Flushing, LenProperties
  <1>5. Len(rest) <= ClientOut
    BY <1>3, <1>4
  <1>6. ClientTyped'
    BY <1>2, <1>4, <1>5 DEF TypeInv, ClientTyped
  <1>7. SocketsTyped'
    BY ZenonT(40), <1>2, <1>4 DEF TypeInv, SocketsTyped
  <1> QED
    BY <1>2, <1>6, <1>7 DEF TypeInv, SlotsTyped, RoundTyped, HistoryTyped, server, history, Active

LEMMA DrainTimeoutTyped ==
    ASSUME TypeInv, TcpChatAssumption, NEW c \in Clients, DrainTimeout(c) PROVE TypeInv'
  <1>1. /\ cpc' = [cpc EXCEPT ![c] = "close"]
        /\ UNCHANGED <<server, local, sockets, script, history>>
    BY DEF DrainTimeout
  <1>2. ClientTyped'
    BY <1>1 DEF TypeInv, ClientTyped, local
  <1> QED
    BY <1>1, <1>2 DEF TypeInv, SlotsTyped, RoundTyped, SocketsTyped, HistoryTyped, server, sockets,
                      history, Active

LEMMA CloseTyped == ASSUME TypeInv, TcpChatAssumption, NEW c \in Clients, Close(c) PROVE TypeInv'
  <1>1. /\ cpc' = [cpc EXCEPT ![c] = "done"]
        /\ out' = [out EXCEPT ![c] = <<>>] /\ outgoing' = [outgoing EXCEPT ![c] = NoTransfer]
        /\ incoming' = [incoming EXCEPT ![c] = {}]
        /\ clientEnd' = [clientEnd EXCEPT ![c] = "closed"]
        /\ toClient' = [toClient EXCEPT ![c] = <<>>]
        /\ toServer' = toServer \/ toServer' = [toServer EXCEPT ![c] = <<>>]
        /\ count' = [count EXCEPT ![c] = 0]
        /\ first' = [first EXCEPT ![c] = [d \in Clients |-> 0]]
        /\ heard' = [heard EXCEPT ![c] = [d \in Clients |-> 0]]
        /\ UNCHANGED <<server, serverEnd, script, dropped>>
    BY DEF Close
  <1>2. <<>> \in Seq(FrameType) /\ Len(<<>>) <= ClientOut /\ Len(<<>>) <= Wire
    BY EmptySeq DEF TcpChatAssumption
  <1>3. IsFiniteSet({}) /\ Cardinality({}) <= IncomingMax
    BY FS_EmptySet DEF TcpChatAssumption
  <1>4. ClientTyped'
    BY <1>1, <1>2, <1>3, ConstantsTyped DEF TypeInv, ClientTyped
  <1>5. SocketsTyped'
    BY <1>1, <1>2 DEF TypeInv, SocketsTyped
  <1>6. HistoryTyped'
    BY <1>1 DEF TypeInv, HistoryTyped
  <1> QED
    BY <1>1, <1>4, <1>5, <1>6 DEF TypeInv, SlotsTyped, RoundTyped, server, Active

LEMMA StutterTyped == ASSUME TypeInv, UNCHANGED vars PROVE TypeInv'
  BY DEF TypeInv, SlotsTyped, RoundTyped, ClientTyped, SocketsTyped, HistoryTyped, vars, server,
         client, local, sockets, history, Active

-----------------------------------------------------------------------------
(* Types: every step.                                                      *)

\* A step is taken by the server, by a user or by a client.
LEMMA StepCases ==
    ASSUME [Next]_vars
    PROVE  \/ Wait \/ Stop \/ Accept
           \/ \E e \in events \union {current} : Skip(e) \/ ReceiveFrame(e) \/ GiveUp(e) \/ Write(e)
           \/ Interrupt
           \/ \E c \in Clients :
                 \/ Start(c) \/ ReadFails(c)
                 \/ \E line \in {"message", "file", "empty", "exit"} : Type(c, line)
                 \/ Receive(c) \/ ServerGone(c) \/ Round(c) \/ Drain(c) \/ DrainTimeout(c) \/ Close(c)
           \/ UNCHANGED vars
  BY DEF Next, ServerStep, UserStep, ClientStep, Done

LEMMA TypeStep == ASSUME TypeInv, TcpChatAssumption, [Next]_vars PROVE TypeInv'
  <1>1. ASSUME NEW e \in events \union {current}, Skip(e) \/ ReceiveFrame(e) \/ GiveUp(e) \/ Write(e)
        PROVE  TypeInv'
    BY <1>1, SkipTyped, ReceiveFrameTyped, GiveUpTyped, WriteTyped
  <1>2. ASSUME NEW c \in Clients, NEW line \in {"message", "file", "empty", "exit"}, Type(c, line)
        PROVE  TypeInv'
    BY <1>2, TypeTyped
  <1>3. ASSUME NEW c \in Clients,
               \/ Start(c) \/ ReadFails(c) \/ Receive(c) \/ ServerGone(c) \/ Round(c) \/ Drain(c)
               \/ DrainTimeout(c) \/ Close(c)
        PROVE  TypeInv'
    BY <1>3, StartTyped, ReadFailsTyped, ReceiveTyped, ServerGoneTyped, RoundStepTyped, DrainTyped,
       DrainTimeoutTyped, CloseTyped
  <1> QED
    BY <1>1, <1>2, <1>3, StepCases, WaitTyped, StopTyped, AcceptTyped, InterruptTyped, StutterTyped

LEMMA TypesImply == ASSUME TypeInv, TcpChatAssumption PROVE TypeOK
  <1>1. ToSet(backlog) \subseteq Clients
    BY Members, ElementOfSeq DEF TypeInv, RoundTyped
  <1> QED
    BY <1>1 DEF TypeOK, TypeInv, SlotsTyped, RoundTyped, ClientTyped, SocketsTyped, SlotType, Ends

\* Every variable keeps to its type, queues and buffers to their capacities.
THEOREM TypeCorrect == Spec => []TypeOK
  <1>1. Init => TypeInv
    BY InitTyped, TcpChatAssumption
  <1>2. TypeInv /\ [Next]_vars => TypeInv'
    BY TypeStep, TcpChatAssumption
  <1>3. TypeInv => TypeOK
    BY TypesImply, TcpChatAssumption
  <1> QED
    BY <1>1, <1>2, <1>3, PTL DEF Spec

-----------------------------------------------------------------------------
(* What a frame that is passed on does to the others.                      *)

\* The connection of client c stays as it is, but for what is read from it.
Kept(c, wires) ==
    serverEnd'[c] = serverEnd[c] /\ toClient'[c] = toClient[c] /\ toServer'[c] = wires[c]

Shut(c) == serverEnd[c] = "open" /\ serverEnd'[c] = "closed"

\* A frame of slot s is told to all that have joined; the slow ones lose their slots.
Passes(s, frame, own, wires) ==
    /\ slot'[s] = own
    /\ IF own.client = Nobody THEN Shut(slot[s].client) ELSE Kept(slot[s].client, wires)
    /\ \A t \in Slots \ {s} :
          \/ /\ slot'[t] = Free /\ Active(t) /\ Shut(slot[t].client)
             /\ slot[t].client \in dropped'
          \/ Active(t) /\ slot[t].joined /\ Told(t, frame) /\ Kept(slot[t].client, wires)
          \/ /\ slot'[t] = slot[t]
             /\ Active(t) => ~slot[t].joined /\ Kept(slot[t].client, wires)

\* Slot s is freed and nobody hears of it.
Vanishes(s, wires) ==
    /\ slot'[s] = Free /\ Shut(slot[s].client)
    /\ \A t \in Slots \ {s} : slot'[t] = slot[t] /\ (Active(t) => Kept(slot[t].client, wires))

\* Connections are kept or closed.
Closes(wires) ==
    \A c \in Clients :
       \/ Kept(c, wires)
       \/ Shut(c) /\ toServer'[c] = <<>> /\ toClient'[c] \in {<<>>, toClient[c]}

LEMMA Passing ==
    ASSUME TypeInv, TcpChatAssumption, OwnInv,
           NEW s \in Slots, Active(s), NEW c \in Clients, c = slot[s].client,
           NEW frame, NEW own, slot' = Broadcast(s, frame, own),
           own.client = Nobody \/ own.client = c,
           NEW wires \in [Clients -> Seq(FrameType)], \A d \in Clients : Len(wires[d]) <= Wire,
           CloseServerEnds({slot[t].client : t \in Slow(s)}
                              \union (IF own.client = Nobody THEN {c} ELSE {}), wires),
           dropped' = dropped \union {slot[t].client : t \in Slow(s)}
    PROVE  Passes(s, frame, own, wires) /\ Closes(wires)
  <1>1. PICK cs : cs = {slot[t].client : t \in Slow(s)}
                          \union (IF own.client = Nobody THEN {c} ELSE {})
    OBVIOUS
  <1>2. /\ \A d \in Clients \ cs : Kept(d, wires)
        /\ \A d \in Clients \cap cs : /\ serverEnd'[d] = "closed" /\ toServer'[d] = <<>>
                                      /\ toClient'[d] \in {<<>>, toClient[d]}
    BY <1>1, Closing DEF TypeInv, Kept
  <1>3. /\ Slow(s) \subseteq Slots \ {s} /\ Slow(s) \subseteq Receivers(s)
        /\ \A t \in Slow(s) : slot[t].client \in Clients /\ slot[t].client \in cs /\ Active(t)
                             /\ slot[t].client \in dropped'
    BY <1>1, SlowClients DEF Receivers
  <1>4. \A t \in Slots : Active(t) => slot[t].client \in Clients
    BY DEF TypeInv, SlotsTyped, SlotType, Active
  <1>5. \A t \in Slots \ {s} : Active(t) /\ t \notin Slow(s) => slot[t].client \notin cs
    <2> SUFFICES ASSUME NEW t \in Slots \ {s}, Active(t), t \notin Slow(s), slot[t].client \in cs
                 PROVE  FALSE
      OBVIOUS
    <2>1. PICK u \in Slots : slot[u].client = slot[t].client /\ (u \in Slow(s) \/ u = s)
      BY <1>1, <1>3
    <2>2. u = t
      BY <2>1 DEF OwnInv
    <2> QED
      BY <2>1, <2>2
  <1>6. own.client = Nobody <=> c \in cs
    <2>1. ASSUME NEW t \in Slow(s) PROVE slot[t].client # c
      BY <1>3, <2>1 DEF OwnInv
    <2>2. c # Nobody
      BY ConstantsTyped
    <2> QED
      BY <1>1, <2>1, <2>2
  <1>7. \A d \in Clients \cap cs : serverEnd[d] = "open"
    <2> SUFFICES ASSUME NEW d \in Clients \cap cs PROVE serverEnd[d] = "open"
      OBVIOUS
    <2>1. PICK u \in Slots : Active(u) /\ slot[u].client = d
      BY <1>1, <1>3
    <2> QED
      BY <2>1 DEF OwnInv
  <1>8. Closes(wires)
    BY <1>2, <1>7 DEF Closes, Shut
  <1>9. /\ slot'[s] = own
        /\ \A t \in Slots \ {s} :
              /\ t \in Slow(s) => slot'[t] = Free /\ Active(t)
              /\ t \in Receivers(s) \ Slow(s) => Told(t, frame) /\ Active(t) /\ slot[t].joined
              /\ t \notin Receivers(s) => slot'[t] = slot[t] /\ t \notin Slow(s)
              /\ t \notin Receivers(s) => ~Active(t) \/ ~slot[t].joined
    BY Broadcasting DEF TypeInv
  <1>10. IF own.client = Nobody THEN Shut(c) ELSE Kept(c, wires)
    BY <1>2, <1>6, <1>7 DEF Shut
  <1>11. ASSUME NEW t \in Slots \ {s}
         PROVE  \/ /\ slot'[t] = Free /\ Active(t) /\ Shut(slot[t].client)
                   /\ slot[t].client \in dropped'
                \/ Active(t) /\ slot[t].joined /\ Told(t, frame) /\ Kept(slot[t].client, wires)
                \/ /\ slot'[t] = slot[t]
                   /\ Active(t) => ~slot[t].joined /\ Kept(slot[t].client, wires)
    <2>1. CASE t \in Slow(s)
      BY <1>2, <1>3, <1>7, <1>9, <2>1 DEF Shut
    <2>2. CASE t \in Receivers(s) \ Slow(s)
      BY <1>2, <1>4, <1>5, <1>9, <2>2
    <2>3. CASE t \notin Receivers(s)
      BY <1>2, <1>4, <1>5, <1>9, <2>3
    <2> QED
      BY <2>1, <2>2, <2>3
  <1> QED
    BY <1>8, <1>9, <1>10, <1>11 DEF Passes

LEMMA Vanishing ==
    ASSUME TypeInv, TcpChatAssumption, OwnInv,
           NEW s \in Slots, Active(s), NEW c \in Clients, c = slot[s].client,
           slot' = [slot EXCEPT ![s] = Free], CloseServerEnds({c}, toServer)
    PROVE  Vanishes(s, toServer) /\ Closes(toServer)
  <1>1. toServer \in [Clients -> Seq(FrameType)] /\ \A d \in Clients : Len(toServer[d]) <= Wire
    BY DEF TypeInv, SocketsTyped
  <1>2. /\ \A d \in Clients \ {c} : Kept(d, toServer)
        /\ serverEnd'[c] = "closed" /\ toServer'[c] = <<>> /\ toClient'[c] \in {<<>>, toClient[c]}
    <2>1. PICK cs : cs = {c}
      OBVIOUS
    <2>2. CloseServerEnds(cs, toServer)
      BY <2>1
    <2>3. /\ \A d \in Clients \ cs : Kept(d, toServer)
          /\ \A d \in Clients \cap cs : /\ serverEnd'[d] = "closed" /\ toServer'[d] = <<>>
                                        /\ toClient'[d] \in {<<>>, toClient[d]}
      BY <1>1, <2>2, Closing DEF TypeInv, Kept
    <2> QED
      BY <2>1, <2>3
  <1>3. \A t \in Slots : Active(t) => slot[t].client \in Clients
    BY DEF TypeInv, SlotsTyped, SlotType, Active
  <1>4. serverEnd[c] = "open" /\ \A t \in Slots \ {s} : slot[t].client # c
    BY DEF OwnInv
  <1>5. slot'[s] = Free /\ \A t \in Slots \ {s} : slot'[t] = slot[t]
    BY DEF TypeInv, SlotsTyped
  <1> QED
    BY <1>2, <1>3, <1>4, <1>5 DEF Vanishes, Closes, Shut

\* Every step of the server that reads a frame or gives up a slot.
LEMMA ReceiveFramePasses ==
    ASSUME TypeInv, TcpChatAssumption, OwnInv, NEW e \in events \union {current}, ReceiveFrame(e)
    PROVE  \E s \in Slots, c \in Clients, frame \in FrameType, own \in SlotType :
              /\ c = slot[s].client /\ Active(s)
              /\ toServer[c] # <<>> /\ frame = Head(toServer[c]) /\ Acceptable(slot[s], frame)
              /\ own = IF frame.type = "leave" THEN Free ELSE Noted(slot[s], frame)
              /\ Passes(s, frame, own, [toServer EXCEPT ![c] = Tail(@)])
              /\ Closes([toServer EXCEPT ![c] = Tail(@)])
              /\ frame.type # "leave" => own.client = c /\ own.out = slot[s].out
              /\ dropped \subseteq dropped'
              /\ UNCHANGED <<backlog, stop, client, clientEnd, script, first, heard>>
  <1>1. PICK s \in Slots, c \in Clients, frame \in FrameType :
           /\ s = e.slot /\ c = slot[s].client /\ frame = Head(toServer[c]) /\ Active(s)
           /\ toServer[c] # <<>> /\ Acceptable(slot[s], frame)
           /\ slot' = Broadcast(s, frame, IF frame.type = "leave" THEN Free ELSE Noted(slot[s], frame))
           /\ CloseServerEnds({slot[t].client : t \in Slow(s)}
                                 \union (IF frame.type = "leave" THEN {c} ELSE {}),
                              [toServer EXCEPT ![c] = Tail(@)])
           /\ dropped' = dropped \union {slot[t].client : t \in Slow(s)}
           /\ UNCHANGED <<backlog, stop, client, clientEnd, script, first, heard>>
    BY ZenonT(40), ReceiveFrameEffect
  <1>2. PICK own : own = IF frame.type = "leave" THEN Free ELSE Noted(slot[s], frame)
    OBVIOUS
  <1>3. slot[s] \in SlotType /\ c # Nobody
    BY ConstantsTyped DEF TypeInv, SlotsTyped
  <1>4. /\ own \in SlotType /\ (own.client = Nobody <=> frame.type = "leave")
        /\ frame.type # "leave" => own.client = c /\ own.out = slot[s].out
    BY <1>1, <1>2, <1>3, NotedTyped, ConstantsTyped
  <1>5. PICK wires : wires = [toServer EXCEPT ![c] = Tail(@)]
    OBVIOUS
  <1>6. wires \in [Clients -> Seq(FrameType)] /\ \A d \in Clients : Len(wires[d]) <= Wire
    BY <1>1, <1>5, Reading
  <1>7. (IF frame.type = "leave" THEN {c} ELSE {}) = (IF own.client = Nobody THEN {c} ELSE {})
    BY <1>4
  <1>8. Passes(s, frame, own, wires) /\ Closes(wires)
    <2>1. slot' = Broadcast(s, frame, own)
      BY <1>1, <1>2, Zenon
    <2>2. CloseServerEnds({slot[t].client : t \in Slow(s)}
                             \union (IF own.client = Nobody THEN {c} ELSE {}), wires)
      BY <1>1, <1>5, <1>7, Zenon
    <2>3. own.client = Nobody \/ own.client = c
      BY <1>4
    <2>4. c = slot[s].client /\ Active(s) /\ dropped' = dropped \union {slot[t].client : t \in Slow(s)}
      BY <1>1, Zenon
    <2> QED
      BY <1>6, <2>1, <2>2, <2>3, <2>4, Passing, Zenon
  <1> QED
    BY <1>1, <1>2, <1>4, <1>5, <1>8

LEMMA GiveUpPasses ==
    ASSUME TypeInv, TcpChatAssumption, OwnInv, NEW e \in events \union {current}, GiveUp(e)
    PROVE  \E s \in Slots, c \in Clients :
              /\ c = slot[s].client /\ Active(s)
              /\ slot[s].joined => Passes(s, Leave(c), Free, toServer)
              /\ ~slot[s].joined => Vanishes(s, toServer)
              /\ Closes(toServer) /\ dropped \subseteq dropped'
              /\ UNCHANGED <<backlog, stop, client, clientEnd, script, first, heard>>
  <1>1. PICK s \in Slots, c \in Clients :
           /\ s = e.slot /\ c = slot[s].client /\ Active(s)
           /\ slot[s].joined => /\ slot' = Broadcast(s, Leave(c), Free)
                                /\ CloseServerEnds({slot[t].client : t \in Slow(s)} \union {c}, toServer)
                                /\ dropped' = dropped \union {slot[t].client : t \in Slow(s)}
           /\ ~slot[s].joined => /\ slot' = [slot EXCEPT ![s] = Free]
                                 /\ CloseServerEnds({c}, toServer) /\ dropped' = dropped
           /\ UNCHANGED <<backlog, stop, client, clientEnd, script, first, heard>>
    BY GiveUpEffect
  <1>2. toServer \in [Clients -> Seq(FrameType)] /\ \A d \in Clients : Len(toServer[d]) <= Wire
    BY DEF TypeInv, SocketsTyped
  <1>3. Free.client = Nobody
    BY ConstantsTyped
  <1>4. CASE slot[s].joined
    <2>1. (IF Free.client = Nobody THEN {c} ELSE {}) = {c}
      BY <1>3
    <2>2. Passes(s, Leave(c), Free, toServer) /\ Closes(toServer)
      BY <1>1, <1>2, <1>3, <1>4, <2>1, Passing
    <2> QED
      BY <1>1, <1>4, <2>2
  <1>5. CASE ~slot[s].joined
    <2>1. Vanishes(s, toServer) /\ Closes(toServer)
      BY <1>1, <1>5, Vanishing
    <2> QED
      BY <1>1, <1>5, <2>1
  <1> QED
    BY <1>4, <1>5

-----------------------------------------------------------------------------
(* Slots and their clients: the server.                                    *)

\* Slots keep their clients or are freed, and connections are kept or closed.
Moves(wires) ==
    /\ \A t \in Slots :
          \/ /\ slot'[t].client = slot[t].client /\ (Active(t) => Kept(slot[t].client, wires))
             /\ (slot'[t].joined \/ slot'[t] = slot[t])
          \/ slot'[t] = Free /\ Active(t) /\ Shut(slot[t].client)
    /\ Closes(wires)
    /\ \A c \in Clients : serverEnd[c] # "open" => wires[c] = toServer[c]

LEMMA MovesKeepOwn == ASSUME TypeInv, TcpChatAssumption, OwnInv, NEW wires, Moves(wires) PROVE OwnInv'
  <1>1. Free.client = Nobody
    BY ConstantsTyped
  <1>2. \A t \in Slots : \/ slot'[t].client = slot[t].client
                         \/ slot'[t].client = Nobody /\ Active(t) /\ Shut(slot[t].client)
    BY <1>1 DEF Moves
  <1>3. \A t \in Slots : slot'[t].client # Nobody =>
           slot'[t].client = slot[t].client /\ serverEnd'[slot[t].client] = serverEnd[slot[t].client]
    BY <1>1 DEF Moves, Active, Kept
  <1>4. \A c \in Clients : serverEnd'[c] = "open" => serverEnd[c] = "open"
    BY DEF Moves, Closes, Kept, Shut
  <1>5. \A t \in Slots : slot'[t].client # Nobody => serverEnd'[slot'[t].client] = "open"
    BY <1>3 DEF OwnInv, Active
  <1>6. ASSUME NEW s \in Slots, NEW t \in Slots, slot'[s].client # Nobody,
               slot'[t].client = slot'[s].client
        PROVE  s = t
    BY <1>3, <1>6 DEF OwnInv, Active
  <1>7. ASSUME NEW c \in Clients, serverEnd'[c] = "open"
        PROVE  \E s \in Slots : slot'[s].client = c
    <2>1. PICK s \in Slots : slot[s].client = c
      BY <1>4, <1>7 DEF OwnInv
    <2>2. ~Shut(c)
      BY <1>7 DEF Shut
    <2> QED
      BY <1>2, <2>1, <2>2
  <1> QED
    BY <1>5, <1>6, <1>7 DEF OwnInv, Active

LEMMA MovesKeepQuiet ==
    ASSUME TypeInv, TcpChatAssumption, QuietInv, NEW wires, Moves(wires),
           UNCHANGED <<incoming, first, heard>>
    PROVE  QuietInv'
  <1>1. Free.client = Nobody
    BY ConstantsTyped
  <1>2. ASSUME NEW c \in Clients, Quiet(c) PROVE Quiet(c)'
    <2>1. toClient'[c] = <<>>
      BY <1>2 DEF Moves, Closes, Kept, Quiet
    <2> QED
      BY <1>2, <2>1 DEF Quiet
  <1>3. \A c \in Clients : serverEnd'[c] \in {"none", "queued"} => serverEnd'[c] = serverEnd[c]
    BY DEF Moves, Closes, Kept, Shut
  <1>4. ASSUME NEW s \in Slots, Active(s)', ~slot'[s].joined
        PROVE  (Quiet(slot[s].client) /\ slot[s].out = <<>> /\ slot[s].transfer = NoTransfer)'
    <2>1. slot'[s] = slot[s]
      BY <1>1, <1>4 DEF Moves, Active
    <2>2. Active(s) /\ ~slot[s].joined /\ slot[s].client \in Clients
      BY <1>4, <2>1 DEF Active, TypeInv, SlotsTyped, SlotType
    <2>3. Quiet(slot[s].client) /\ slot[s].out = <<>> /\ slot[s].transfer = NoTransfer
      BY <2>2 DEF QuietInv
    <2>4. PICK c \in Clients : c = slot[s].client
      BY <2>2
    <2>5. Quiet(c)'
      BY <1>2, <2>3, <2>4
    <2>6. slot'[s].client = c /\ slot'[s].out = <<>> /\ slot'[s].transfer = NoTransfer
      BY <2>1, <2>3, <2>4
    <2> QED
      BY <2>5, <2>6 DEF Quiet
  <1>5. \A c \in Clients : serverEnd'[c] \in {"none", "queued"} => Quiet(c)'
    BY <1>2, <1>3 DEF QuietInv
  <1> QED
    BY <1>4, <1>5 DEF QuietInv

LEMMA MovesKeep ==
    ASSUME TypeInv, TcpChatAssumption, SlotInv, NEW wires, Moves(wires),
           UNCHANGED <<backlog, client, clientEnd, first, heard>>
    PROVE  SlotInv'
  <1>1. OwnInv'
    BY MovesKeepOwn DEF SlotInv
  <1>2. QuietInv'
    BY MovesKeepQuiet DEF SlotInv, client, local
  <1>3. \A c \in Clients : serverEnd'[c] # "closed" => serverEnd'[c] = serverEnd[c]
    BY DEF Moves, Closes, Kept, Shut
  <1>4. \A c \in Clients : serverEnd[c] \in {"none", "queued"} => serverEnd'[c] = serverEnd[c]
    BY DEF Moves, Closes, Kept, Shut
  <1>5. BacklogInv'
    BY <1>3, <1>4 DEF SlotInv, BacklogInv
  <1>6. \A c \in Clients : serverEnd[c] = "none" => toServer'[c] = toServer[c]
    BY DEF Moves, Closes, Kept, Shut
  <1>7. LifeInv'
    BY <1>3, <1>4, <1>6 DEF SlotInv, LifeInv, client, local
  <1> QED
    BY <1>1, <1>2, <1>5, <1>7 DEF SlotInv

LEMMA PassesMoves ==
    ASSUME TypeInv, TcpChatAssumption, OwnInv, NEW s \in Slots, Active(s), NEW frame, NEW own, NEW wires,
           Passes(s, frame, own, wires), Closes(wires),
           own = Free \/ (own.client = slot[s].client /\ own.joined),
           \A c \in Clients : serverEnd[c] # "open" => wires[c] = toServer[c]
    PROVE  Moves(wires)
  <1>1. Free.client = Nobody /\ slot[s].client # Nobody
    BY ConstantsTyped DEF Active
  <1>2. ASSUME NEW t \in Slots, Told(t, frame)
        PROVE  slot'[t].client = slot[t].client /\ slot'[t].joined = slot[t].joined
    BY <1>2 DEF Told, TypeInv, SlotsTyped, SlotType
  <1>3. ASSUME NEW t \in Slots \ {s}
        PROVE  \/ /\ slot'[t].client = slot[t].client /\ (Active(t) => Kept(slot[t].client, wires))
                  /\ (slot'[t].joined \/ slot'[t] = slot[t])
               \/ slot'[t] = Free /\ Active(t) /\ Shut(slot[t].client)
    BY <1>2 DEF Passes
  <1>4. \/ /\ slot'[s].client = slot[s].client /\ Kept(slot[s].client, wires) /\ slot'[s].joined
        \/ slot'[s] = Free /\ Shut(slot[s].client)
    BY <1>1 DEF Passes
  <1> QED
    BY <1>3, <1>4 DEF Moves

LEMMA VanishesMoves ==
    ASSUME TypeInv, OwnInv, NEW s \in Slots, Active(s), Vanishes(s, toServer), Closes(toServer)
    PROVE  Moves(toServer)
  BY DEF Moves, Vanishes

\* What the server accepts leaves its sender joined.
LEMMA NotedJoined ==
    ASSUME NEW sl \in SlotType, NEW frame \in FrameType, Acceptable(sl, frame)
    PROVE  Noted(sl, frame).joined
  BY DEF Acceptable, Noted, SlotType, FrameType

LEMMA ReceiveFrameMoves ==
    ASSUME TypeInv, TcpChatAssumption, OwnInv, NEW e \in events \union {current}, ReceiveFrame(e)
    PROVE  /\ \E wires : Moves(wires)
           /\ UNCHANGED <<backlog, client, clientEnd, first, heard>>
  <1>1. PICK s \in Slots, c \in Clients, frame \in FrameType, own \in SlotType :
              /\ c = slot[s].client /\ Active(s)
              /\ toServer[c] # <<>> /\ frame = Head(toServer[c]) /\ Acceptable(slot[s], frame)
              /\ own = IF frame.type = "leave" THEN Free ELSE Noted(slot[s], frame)
              /\ Passes(s, frame, own, [toServer EXCEPT ![c] = Tail(@)])
              /\ Closes([toServer EXCEPT ![c] = Tail(@)])
              /\ frame.type # "leave" => own.client = c /\ own.out = slot[s].out
              /\ dropped \subseteq dropped'
              /\ UNCHANGED <<backlog, stop, client, clientEnd, script, first, heard>>
    BY ReceiveFramePasses
  <1>2. PICK wires : wires = [toServer EXCEPT ![c] = Tail(@)]
    OBVIOUS
  <1>3. own = Free \/ (own.client = slot[s].client /\ own.joined)
    BY <1>1, NotedJoined DEF TypeInv, SlotsTyped
  <1>4. \A d \in Clients : serverEnd[d] # "open" => wires[d] = toServer[d]
    <2>1. serverEnd[c] = "open"
      BY <1>1, Zenon DEF OwnInv
    <2>2. \A d \in Clients \ {c} : wires[d] = toServer[d]
      BY <1>2 DEF TypeInv, SocketsTyped
    <2> QED
      BY <2>1, <2>2
  <1>5. Passes(s, frame, own, wires) /\ Closes(wires)
    BY <1>1, <1>2, Zenon
  <1>6. Active(s)
    BY <1>1, Zenon
  <1>7. Moves(wires)
    BY <1>3, <1>4, <1>5, <1>6, PassesMoves
  <1>8. UNCHANGED <<backlog, client, clientEnd, first, heard>>
    BY <1>1
  <1> QED
    BY <1>7, <1>8

LEMMA GiveUpMoves ==
    ASSUME TypeInv, TcpChatAssumption, OwnInv, NEW e \in events \union {current}, GiveUp(e)
    PROVE  Moves(toServer) /\ UNCHANGED <<backlog, client, clientEnd, first, heard>>
  <1>1. PICK s \in Slots, c \in Clients :
              /\ c = slot[s].client /\ Active(s)
              /\ slot[s].joined => Passes(s, Leave(c), Free, toServer)
              /\ ~slot[s].joined => Vanishes(s, toServer)
              /\ Closes(toServer) /\ dropped \subseteq dropped'
              /\ UNCHANGED <<backlog, stop, client, clientEnd, script, first, heard>>
    BY GiveUpPasses
  <1>2. CASE slot[s].joined
    BY <1>1, <1>2, PassesMoves
  <1>3. CASE ~slot[s].joined
    BY <1>1, <1>3, VanishesMoves
  <1> QED
    BY <1>1, <1>2, <1>3


LEMMA ServerMovesKeep ==
    ASSUME TypeInv, TcpChatAssumption, SlotInv, NEW e \in events \union {current},
           ReceiveFrame(e) \/ GiveUp(e)
    PROVE  SlotInv'
  <1>1. OwnInv
    BY DEF SlotInv
  <1>2. CASE ReceiveFrame(e)
    <2>1. PICK wires : Moves(wires)
      BY <1>1, <1>2, ReceiveFrameMoves
    <2>2. UNCHANGED <<backlog, client, clientEnd, first, heard>>
      BY <1>1, <1>2, ReceiveFrameMoves
    <2> QED
      BY <2>1, <2>2, MovesKeep
  <1>3. CASE GiveUp(e)
    <2>1. Moves(toServer) /\ UNCHANGED <<backlog, client, clientEnd, first, heard>>
      BY <1>1, <1>3, GiveUpMoves
    <2> QED
      BY <2>1, MovesKeep
  <1> QED
    BY <1>2, <1>3

\* A slot whose client has not joined has nothing to write, and nothing is written to it.
LEMMA WriteKeeps ==
    ASSUME TypeInv, TcpChatAssumption, SlotInv, NEW e \in events \union {current}, Write(e)
    PROVE  SlotInv'
  <1>1. PICK s \in Slots, c \in Clients :
           /\ s = e.slot /\ c = slot[s].client /\ Active(s) /\ slot[s] \in SlotType
           /\ slot[s].out \in Seq(FrameType) /\ toClient[c] \in Seq(FrameType)
           /\ \/ slot' = slot /\ toClient' = toClient
              \/ Gone(c) /\ slot' = [slot EXCEPT ![s].out = <<>>] /\ toClient' = toClient
              \/ /\ slot' = [slot EXCEPT ![s].out = Rest(slot[s].out, toClient[c])]
                 /\ toClient' = [toClient EXCEPT ![c] = Sent(slot[s].out, toClient[c])]
           /\ NextEvent(events \ {e})
           /\ UNCHANGED <<backlog, stop, client, serverEnd, clientEnd, toServer, script, history>>
    BY WriteEffect
  <1>2. UNCHANGED <<backlog, client, serverEnd, clientEnd, toServer, history>>
    BY <1>1
  <1>3. slot \in [Slots -> SlotType] /\ toClient \in [Clients -> Seq(FrameType)]
    BY DEF TypeInv, SlotsTyped, SocketsTyped
  <1>4. \A t \in Slots \ {s} : slot'[t] = slot[t]
    BY <1>1, <1>3
  <1>5. /\ slot'[s].client = slot[s].client /\ slot'[s].joined = slot[s].joined
        /\ slot'[s].transfer = slot[s].transfer
    <2>1. slot' = slot \/ \E o : slot' = [slot EXCEPT ![s].out = o]
      BY <1>1
    <2>2. ASSUME NEW o, slot' = [slot EXCEPT ![s].out = o] PROVE slot'[s] = [slot[s] EXCEPT !.out = o]
      BY <1>3, <2>2
    <2>3. slot[s] \in SlotType
      BY <1>3
    <2> QED
      BY <2>1, <2>2, <2>3 DEF SlotType
  <1>6. \A d \in Clients \ {c} : toClient'[d] = toClient[d]
    BY <1>1, <1>3
  <1>7. ASSUME ~slot[s].joined PROVE slot'[s].out = <<>> /\ toClient'[c] = <<>>
    <2>1. slot[s].out = <<>> /\ toClient[c] = <<>>
      BY <1>1, <1>7 DEF SlotInv, QuietInv, Quiet
    <2>2. Rest(<<>>, <<>>) = <<>> /\ Sent(<<>>, <<>>) = <<>>
      <3>1. <<>> \in Seq(FrameType) /\ Len(<<>>) = 0 /\ 0 <= Wire
        BY EmptySeq, TcpChatAssumption DEF TcpChatAssumption
      <3>2. /\ Rest(<<>>, <<>>) \in Seq(FrameType) /\ Len(Rest(<<>>, <<>>)) <= 0
            /\ Sent(<<>>, <<>>) \in Seq(FrameType)
            /\ Sent(<<>>, <<>>) \o Rest(<<>>, <<>>) = <<>> \o <<>>
        BY <3>1, Flushing
      <3>3. Rest(<<>>, <<>>) = <<>>
        BY <3>2, LenProperties, EmptySeq
      <3>4. Sent(<<>>, <<>>) \o <<>> = <<>> \o <<>>
        BY <3>2, <3>3, Zenon
      <3>5. <<>> \o <<>> = <<>> /\ Sent(<<>>, <<>>) \o <<>> = Sent(<<>>, <<>>)
        BY <3>1, <3>2, ConcatEmptySeq
      <3> QED
        BY <3>3, <3>4, <3>5, Zenon
    <2>3. \A x : slot[s].out = x /\ slot' = [slot EXCEPT ![s].out = x] => slot'[s].out = x
      BY <1>1, <1>3 DEF SlotType
    <2>4. slot' = slot \/ slot' = [slot EXCEPT ![s].out = <<>>]
      BY <1>1, <2>1, <2>2
    <2>5. slot'[s].out = <<>>
      BY <2>1, <2>3, <2>4
    <2>6. toClient' = toClient \/ toClient' = [toClient EXCEPT ![c] = <<>>]
      BY <1>1, <2>1, <2>2
    <2>7. toClient'[c] = <<>>
      BY <1>3, <2>1, <2>6
    <2> QED
      BY <2>5, <2>7
  <1>8. OwnInv'
    <2>1. \A t \in Slots : slot'[t].client = slot[t].client
      BY <1>4, <1>5
    <2> QED
      BY <1>2, <2>1 DEF SlotInv, OwnInv, Active
  <1>9. QuietInv'
    <2>1. ASSUME NEW d \in Clients \ {c}, Quiet(d) PROVE Quiet(d)'
      BY <1>2, <1>6, <2>1 DEF Quiet, client, local, history
    <2>2. ASSUME Quiet(c), ~slot[s].joined PROVE Quiet(c)'
      BY <1>2, <1>7, <2>2 DEF Quiet, client, local, history
    <2>3. serverEnd[c] = "open"
      BY <1>1 DEF SlotInv, OwnInv
    <2>4. \A d \in Clients : serverEnd'[d] \in {"none", "queued"} => Quiet(d)'
      BY <1>2, <2>1, <2>3 DEF SlotInv, QuietInv
    <2>5. ASSUME NEW t \in Slots, Active(t)', ~slot'[t].joined
          PROVE  Quiet(slot[t].client)' /\ slot'[t].client = slot[t].client
                 /\ slot'[t].out = <<>> /\ slot'[t].transfer = NoTransfer
      <3>1. slot'[t].client = slot[t].client /\ Active(t) /\ ~slot[t].joined
        BY <1>4, <1>5, <2>5 DEF Active
      <3>2. Quiet(slot[t].client) /\ slot[t].out = <<>> /\ slot[t].transfer = NoTransfer
        BY <3>1 DEF SlotInv, QuietInv
      <3>3. CASE t = s
        BY <1>1, <1>5, <1>7, <2>2, <3>1, <3>2, <3>3
      <3>4. CASE t # s
        <4>1. slot[t].client \in Clients \ {c}
          <5>1. slot[t].client \in Clients
            BY <1>3, <3>1 DEF Active, SlotType
          <5>2. slot[t].client # c
            BY <1>1, <3>1, <3>4 DEF SlotInv, OwnInv, Active
          <5> QED
            BY <5>1, <5>2
        <4>2. PICK d \in Clients \ {c} : d = slot[t].client
          BY <4>1
        <4>3. Quiet(d)'
          BY <2>1, <3>2, <4>2
        <4>4. slot'[t].client = d /\ slot'[t].out = <<>> /\ slot'[t].transfer = NoTransfer
          BY <1>4, <3>1, <3>2, <3>4, <4>2
        <4> QED
          BY <3>1, <4>3, <4>4 DEF Quiet
      <3> QED
        BY <3>3, <3>4
    <2> QED
      BY <2>4, <2>5 DEF QuietInv, Quiet
  <1>10. BacklogInv' /\ LifeInv'
    BY <1>2 DEF SlotInv, BacklogInv, LifeInv, client, local
  <1> QED
    BY <1>8, <1>9, <1>10 DEF SlotInv

\* A step that leaves the slots alone.
LEMMA IdleKeeps ==
    ASSUME SlotInv, UNCHANGED <<slot, backlog, client, sockets, history>>
    PROVE  SlotInv'
  BY DEF SlotInv, OwnInv, BacklogInv, LifeInv, QuietInv, Quiet, Active, client, local, sockets, history


LEMMA StopKeeps == ASSUME TypeInv, TcpChatAssumption, SlotInv, Stop PROVE SlotInv'
  <1>1. PICK cs : cs = {c \in Clients : serverEnd[c] \in {"queued", "open"}}
    OBVIOUS
  <1>2. /\ slot' = [s \in Slots |-> Free] /\ backlog' = <<>> /\ CloseServerEnds(cs, toServer)
        /\ UNCHANGED <<client, clientEnd, history>>
    BY <1>1 DEF Stop, history
  <1>3. /\ \A c \in Clients \ cs : /\ serverEnd'[c] = serverEnd[c] /\ toServer'[c] = toServer[c]
                                   /\ toClient'[c] = toClient[c]
        /\ \A c \in Clients \cap cs : /\ serverEnd'[c] = "closed" /\ toServer'[c] = <<>>
                                      /\ toClient'[c] \in {<<>>, toClient[c]}
    BY <1>2, Closing DEF TypeInv, SocketsTyped
  <1>4. \A s \in Slots : ~Active(s)'
    BY <1>2, ConstantsTyped DEF Active
  <1>5. \A c \in Clients : serverEnd'[c] \in {"none", "closed"}
    BY <1>1, <1>3 DEF TypeInv, SocketsTyped, Ends
  <1>6. Len(backlog') = 0
    BY <1>2, EmptySeq
  <1>7. \A c \in Clients : serverEnd'[c] = "none" => c \notin cs
    BY <1>3
  <1>8. ASSUME NEW c \in Clients, serverEnd'[c] \in {"none", "queued"} PROVE Quiet(c)'
    <2>1. serverEnd[c] = "none" /\ toClient'[c] = toClient[c]
      BY <1>3, <1>5, <1>7, <1>8
    <2>2. Quiet(c)
      BY <2>1 DEF SlotInv, QuietInv
    <2>3. UNCHANGED <<incoming, first, heard>>
      BY <1>2 DEF client, local, history
    <2> QED
      BY <2>1, <2>2, <2>3 DEF Quiet
  <1>9. LifeInv'
    <2>1. \A c \in Clients : serverEnd[c] = "none" <=> serverEnd'[c] = "none"
      BY <1>1, <1>3, <1>7
    <2>2. \A c \in Clients : serverEnd[c] = "none" => toServer'[c] = toServer[c]
      BY <1>1, <1>3
    <2>3. UNCHANGED <<cpc, out, outgoing, count, clientEnd>>
      BY <1>2 DEF client, local
    <2> QED
      BY <2>1, <2>2, <2>3 DEF SlotInv, LifeInv
  <1>10. OwnInv'
    <2>1. \A s \in Slots : Free.client = slot'[s].client /\ Free.client = Nobody
      BY <1>2, ConstantsTyped
    <2> QED
      BY <1>4, <1>5 DEF OwnInv
  <1>11. QuietInv'
    BY <1>4, <1>8 DEF QuietInv
  <1>12. BacklogInv'
    BY <1>5, <1>6 DEF BacklogInv
  <1> QED
    BY <1>9, <1>10, <1>11, <1>12 DEF SlotInv

LEMMA AcceptKeeps == ASSUME TypeInv, TcpChatAssumption, SlotInv, Accept PROVE SlotInv'
  <1>1. PICK served : served = {c \in ToSet(backlog) : \E s \in Slots : Accepted(s).client = c}
    OBVIOUS
  <1>2. /\ slot' = [s \in Slots |-> Accepted(s)] /\ backlog' = <<>>
        /\ serverEnd' = [c \in Clients |-> IF c \in served THEN "open"
                                           ELSE IF c \in ToSet(backlog) \ served THEN "closed" ELSE serverEnd[c]]
        /\ toServer' = [c \in Clients |-> IF c \in ToSet(backlog) \ served THEN <<>> ELSE toServer[c]]
        /\ UNCHANGED <<client, clientEnd, toClient, history>>
    BY <1>1 DEF Accept, history
  <1>3. backlog \in Seq(Clients)
    BY DEF TypeInv, RoundTyped
  <1>4. \A c \in Clients : c \in ToSet(backlog) <=> serverEnd[c] = "queued"
    BY <1>3, Members DEF SlotInv, BacklogInv
  <1>5. \A s \in Slots :
           \/ (Active(s) \/ Rank(s) > Len(backlog)) /\ slot'[s] = slot[s]
           \/ /\ ~Active(s) /\ Rank(s) \in 1 .. Len(backlog) /\ backlog[Rank(s)] \in Clients
              /\ slot'[s] = [Free EXCEPT !.client = backlog[Rank(s)]]
    BY <1>2, AcceptedCases
  <1>6. ASSUME NEW s \in Slots, slot'[s].client # Nobody
        PROVE  \/ Active(s) /\ slot'[s] = slot[s] /\ serverEnd[slot'[s].client] = "open"
               \/ /\ ~Active(s) /\ Rank(s) \in 1 .. Len(backlog) /\ backlog[Rank(s)] \in Clients
                  /\ slot'[s].client = backlog[Rank(s)] /\ serverEnd[slot'[s].client] = "queued"
                  /\ slot'[s].out = <<>> /\ slot'[s].transfer = NoTransfer
    <2>1. CASE slot'[s] = slot[s]
      BY <1>6, <2>1 DEF SlotInv, OwnInv, Active
    <2>2. CASE slot'[s] = [Free EXCEPT !.client = backlog[Rank(s)]] /\ ~Active(s)
               /\ Rank(s) \in 1 .. Len(backlog) /\ backlog[Rank(s)] \in Clients
      <3>1. slot'[s].client = backlog[Rank(s)] /\ slot'[s].out = <<>> /\ slot'[s].transfer = NoTransfer
        BY <2>2, NewSlot
      <3>2. serverEnd[backlog[Rank(s)]] = "queued"
        BY <2>2 DEF SlotInv, BacklogInv
      <3> QED
        BY <2>2, <3>1, <3>2
    <2> QED
      BY <1>5, <2>1, <2>2
  <1>7. \A s \in Slots : Active(s) => slot'[s] = slot[s]
    BY <1>5
  <1>8. ASSUME NEW c \in Clients
        PROVE  /\ serverEnd'[c] = "open" <=> serverEnd[c] = "open" \/ c \in served
               /\ serverEnd'[c] \in {"none", "queued"} => serverEnd[c] = "none"
               /\ serverEnd'[c] # "queued"
               /\ serverEnd'[c] = "none" <=> serverEnd[c] = "none"
               /\ serverEnd[c] = "none" => toServer'[c] = toServer[c]
    BY <1>1, <1>2, <1>4 DEF TypeInv, SocketsTyped, Ends
  <1>9. \A c \in Clients : c \in served <=> serverEnd[c] = "queued" /\ \E s \in Slots : slot'[s].client = c
    BY <1>1, <1>2, <1>4
  <1>10. OwnInv'
    <2>1. ASSUME NEW s \in Slots, slot'[s].client # Nobody
          PROVE  serverEnd'[slot'[s].client] = "open"
      <3>1. slot'[s].client \in Clients
        BY <1>6, <1>7, <2>1 DEF TypeInv, SlotsTyped, SlotType, Active
      <3> QED
        BY <1>6, <1>8, <1>9, <2>1, <3>1
    <2>2. ASSUME NEW s \in Slots, NEW t \in Slots, slot'[s].client # Nobody,
                 slot'[t].client = slot'[s].client
          PROVE  s = t
      <3>1. CASE Active(s) /\ Active(t)
        <4>1. slot'[s] = slot[s] /\ slot'[t] = slot[t]
          BY <1>7, <3>1
        <4>2. slot[t].client = slot[s].client
          BY <2>2, <4>1
        <4> QED
          BY <3>1, <4>2, Zenon DEF SlotInv, OwnInv
      <3>2. CASE (Active(s) /\ ~Active(t)) \/ (~Active(s) /\ Active(t))
        <4>1. slot'[t].client # Nobody
          BY <2>2
        <4>2. CASE Active(s) /\ ~Active(t)
          BY <1>6, <2>2, <4>1, <4>2
        <4>3. CASE ~Active(s) /\ Active(t)
          BY <1>6, <2>2, <4>1, <4>3
        <4> QED
          BY <3>2, <4>2, <4>3
      <3>3. CASE ~Active(s) /\ ~Active(t)
        <4>1. Rank(s) = Rank(t)
          BY <1>6, <2>2, <3>3 DEF SlotInv, BacklogInv
        <4>2. ~(s < t) /\ ~(t < s)
          BY <3>3, <4>1, Ranks
        <4> QED
          BY <4>2 DEF Slots
      <3> QED
        BY <3>1, <3>2, <3>3
    <2>3. ASSUME NEW c \in Clients, serverEnd'[c] = "open"
          PROVE  \E s \in Slots : slot'[s].client = c
      <3>1. CASE serverEnd[c] = "open"
        <4>1. PICK s \in Slots : slot[s].client = c
          BY <3>1 DEF SlotInv, OwnInv
        <4>2. Active(s)
          BY <4>1, ConstantsTyped DEF Active
        <4> QED
          BY <1>7, <4>1, <4>2
      <3> QED
        BY <1>8, <1>9, <2>3, <3>1
    <2> QED
      BY <2>1, <2>2, <2>3 DEF OwnInv, Active
  <1>11. ASSUME NEW c \in Clients, Quiet(c) PROVE Quiet(c)'
    BY <1>2, <1>11 DEF Quiet, client, local, history
  <1>12. QuietInv'
    <2>1. ASSUME NEW s \in Slots, slot'[s].client # Nobody, ~slot'[s].joined
          PROVE  /\ slot'[s].out = <<>> /\ slot'[s].transfer = NoTransfer
                 /\ \E c \in Clients : c = slot'[s].client /\ Quiet(c)
      <3>1. CASE Active(s)
        BY <1>7, <2>1, <3>1 DEF SlotInv, QuietInv, TypeInv, SlotsTyped, SlotType, Active
      <3>2. CASE ~Active(s)
        BY <1>6, <2>1, <3>2 DEF SlotInv, QuietInv
      <3> QED
        BY <3>1, <3>2
    <2>2. \A c \in Clients : serverEnd'[c] \in {"none", "queued"} => Quiet(c)'
      BY <1>8, <1>11 DEF SlotInv, QuietInv
    <2>3. ASSUME NEW s \in Slots, slot'[s].client # Nobody, ~slot'[s].joined
          PROVE  (Quiet(slot[s].client) /\ slot[s].out = <<>> /\ slot[s].transfer = NoTransfer)'
      <3>1. PICK c \in Clients : c = slot'[s].client /\ Quiet(c)
        BY <2>1, <2>3
      <3>2. Quiet(c)'
        BY <1>11, <3>1
      <3> QED
        BY <2>1, <2>3, <3>1, <3>2 DEF Quiet
    <2> QED
      BY <2>2, <2>3 DEF QuietInv, Active
  <1>13. BacklogInv'
    <2>1. Len(backlog') = 0
      BY <1>2, EmptySeq
    <2> QED
      BY <1>8, <2>1 DEF BacklogInv
  <1>14. LifeInv'
    BY <1>2, <1>8 DEF SlotInv, LifeInv, client, local
  <1> QED
    BY <1>10, <1>12, <1>13, <1>14 DEF SlotInv


-----------------------------------------------------------------------------
(* Slots and their clients: the clients.                                   *)

LEMMA StartKeeps ==
    ASSUME TypeInv, TcpChatAssumption, SlotInv, NEW c \in Clients, Start(c)
    PROVE  SlotInv'
  <1>1. /\ cpc[c] = "off" /\ serverEnd[c] = "none"
        /\ UNCHANGED <<slot, outgoing, incoming, toServer, toClient, history>>
    BY DEF Start, SlotInv, LifeInv
  <1>2. CASE /\ cpc' = [cpc EXCEPT ![c] = "done"]
             /\ UNCHANGED <<backlog, serverEnd, clientEnd, out, count>>
    <2>1. cpc' \in [Clients -> {"off", "run", "drain", "close", "done"}]
          /\ \A d \in Clients : cpc'[d] = cpc[d] \/ cpc'[d] = "done"
      BY <1>2 DEF TypeInv, ClientTyped
    <2>2. LifeInv'
      BY <1>1, <1>2, <2>1 DEF SlotInv, LifeInv
    <2>3. OwnInv' /\ BacklogInv' /\ QuietInv'
      BY <1>1, <1>2 DEF SlotInv, OwnInv, BacklogInv, QuietInv, Quiet, Active, history
    <2> QED
      BY <2>2, <2>3 DEF SlotInv
  <1>3. CASE /\ cpc' = [cpc EXCEPT ![c] = "run"]
             /\ backlog' = Append(backlog, c)
             /\ serverEnd' = [serverEnd EXCEPT ![c] = "queued"]
             /\ clientEnd' = [clientEnd EXCEPT ![c] = "open"]
             /\ out' = [out EXCEPT ![c] = <<Frame(c, "join", 0, 0, 1)>>]
             /\ count' = [count EXCEPT ![c] = 1]
    <2>1. /\ serverEnd'[c] = "queued" /\ \A d \in Clients \ {c} : serverEnd'[d] = serverEnd[d]
          /\ clientEnd'[c] = "open" /\ \A d \in Clients \ {c} : clientEnd'[d] = clientEnd[d]
          /\ cpc'[c] = "run" /\ \A d \in Clients \ {c} : cpc'[d] = cpc[d]
          /\ \A d \in Clients \ {c} : out'[d] = out[d] /\ count'[d] = count[d]
      BY <1>3 DEF TypeInv, ClientTyped, SocketsTyped
    <2>2. OwnInv'
      <3>1. \A s \in Slots : Active(s) => slot[s].client # c
        BY <1>1 DEF SlotInv, OwnInv
      <3>2. \A s \in Slots : Active(s) => slot[s].client \in Clients
        BY DEF TypeInv, SlotsTyped, SlotType, Active
      <3> QED
        BY <1>1, <2>1, <3>1, <3>2 DEF SlotInv, OwnInv, Active
    <2>3. BacklogInv'
      <3>1. PICK n \in Nat : n = Len(backlog)
        BY LenProperties DEF TypeInv, RoundTyped
      <3>2. /\ Len(backlog') = n + 1 /\ backlog'[n + 1] = c
            /\ \A i \in 1 .. n : backlog'[i] = backlog[i]
        BY <1>3, <3>1, AppendProperties DEF TypeInv, RoundTyped
      <3>3. \A i \in 1 .. n : backlog[i] # c
        BY <1>1, <3>1 DEF SlotInv, BacklogInv
      <3>4. \A d \in Clients : serverEnd'[d] = "queued" <=> \E i \in 1 .. n + 1 : backlog'[i] = d
        <4>1. \A d \in Clients \ {c} : serverEnd'[d] = "queued" <=> \E i \in 1 .. n : backlog[i] = d
          BY <2>1, <3>1 DEF SlotInv, BacklogInv
        <4> QED
          BY <2>1, <3>1, <3>2, <4>1
      <3>5. \A i, j \in 1 .. n : backlog[i] = backlog[j] => i = j
        BY <3>1 DEF SlotInv, BacklogInv
      <3>6. \A i, j \in 1 .. n + 1 : backlog'[i] = backlog'[j] => i = j
        BY <3>1, <3>2, <3>3, <3>5
      <3> QED
        BY <3>1, <3>2, <3>4, <3>6 DEF BacklogInv
    <2>4. QuietInv'
      <3>1. UNCHANGED <<slot, toClient, incoming, first, heard>>
        BY <1>1 DEF history
      <3>2. \A d \in Clients : serverEnd'[d] \in {"none", "queued"} => serverEnd[d] \in {"none", "queued"}
        BY <1>1, <2>1
      <3> QED
        BY <3>1, <3>2 DEF SlotInv, QuietInv, Quiet, Active
    <2>5. LifeInv'
      BY <1>1, <2>1 DEF SlotInv, LifeInv
    <2> QED
      BY <2>2, <2>3, <2>4, <2>5 DEF SlotInv
  <1> QED
    BY <1>2, <1>3 DEF Start

\* What a client does with its own queue, and with its end of the connection.
LEMMA ClientKeeps ==
    ASSUME TypeInv, TcpChatAssumption, SlotInv, NEW c \in Clients,
           cpc[c] \in {"run", "drain", "close"}, cpc'[c] # "off",
           clientEnd'[c] = clientEnd[c] \/ cpc'[c] = "done",
           \A d \in Clients \ {c} :
              /\ cpc'[d] = cpc[d] /\ out'[d] = out[d] /\ outgoing'[d] = outgoing[d] /\ count'[d] = count[d]
              /\ clientEnd'[d] = clientEnd[d] /\ toServer'[d] = toServer[d]
              /\ toClient'[d] = toClient[d] /\ incoming'[d] = incoming[d]
              /\ first'[d] = first[d] /\ heard'[d] = heard[d],
           Quiet(c) => Quiet(c)',
           UNCHANGED <<slot, backlog, serverEnd>>
    PROVE  SlotInv'
  <1>1. OwnInv' /\ BacklogInv'
    BY DEF SlotInv, OwnInv, BacklogInv, Active
  <1>2. \A d \in Clients : Quiet(d) => Quiet(d)'
    BY DEF Quiet
  <1>3. \A s \in Slots : Active(s) => slot[s].client \in Clients
    BY DEF TypeInv, SlotsTyped, SlotType, Active
  <1>4. QuietInv'
    <2>1. \A s \in Slots : Active(s)' /\ ~slot'[s].joined =>
             Quiet(slot[s].client)' /\ slot[s].out = <<>> /\ slot[s].transfer = NoTransfer
      <3>1. TAKE s \in Slots
      <3>2. HAVE Active(s)' /\ ~slot'[s].joined
      <3>3. Active(s) /\ ~slot[s].joined
        BY <3>2 DEF Active
      <3>4. PICK d \in Clients : d = slot[s].client
        BY <1>3, <3>3
      <3>5. Quiet(d) /\ slot[s].out = <<>> /\ slot[s].transfer = NoTransfer
        BY <3>3, <3>4 DEF SlotInv, QuietInv
      <3>6. Quiet(d)'
        BY <1>2, <3>5
      <3> QED
        BY <3>4, <3>5, <3>6 DEF Quiet
    <2> QED
      BY <1>2, <2>1 DEF SlotInv, QuietInv, Quiet
  <1>5. cpc[c] # "off" /\ serverEnd[c] # "none" /\ (cpc'[c] # "done" => clientEnd'[c] = "open")
    BY DEF SlotInv, LifeInv
  <1>6. LifeInv'
    BY <1>5 DEF SlotInv, LifeInv
  <1> QED
    BY <1>1, <1>4, <1>6 DEF SlotInv


LEMMA ReceiveKeeps ==
    ASSUME TypeInv, TcpChatAssumption, SlotInv, NEW c \in Clients, Receive(c)
    PROVE  SlotInv'
  <1>1. /\ cpc[c] = "run" /\ toClient[c] # <<>> /\ toClient' = [toClient EXCEPT ![c] = Tail(@)]
        /\ UNCHANGED <<server, outgoing, count, serverEnd, clientEnd, toServer>>
    BY DEF Receive
  <1>2. ~Quiet(c)
    BY <1>1 DEF Quiet
  <1>3. /\ cpc'[c] # "off"
        /\ \A d \in Clients \ {c} :
              /\ cpc'[d] = cpc[d] /\ out'[d] = out[d] /\ incoming'[d] = incoming[d]
              /\ first'[d] = first[d] /\ heard'[d] = heard[d]
    <2>1. CASE /\ Quit(c, out[c]) /\ UNCHANGED <<incoming, first, heard>>
      <3>1. out[c] \in Seq(FrameType) /\ Len(out[c]) <= ClientOut
        BY DEF TypeInv, ClientTyped
      <3> QED
        BY <2>1, <3>1, QuitEffect DEF TypeInv, ClientTyped
    <2>2. CASE /\ UNCHANGED <<cpc, out>>
               /\ \E x : incoming' = [incoming EXCEPT ![c] = x]
               /\ \E d, x : first' = [first EXCEPT ![c][d] = x]
               /\ \E d, x : heard' = [heard EXCEPT ![c][d] = x]
      BY <1>1, <2>2 DEF TypeInv, ClientTyped, HistoryTyped
    <2> QED
      BY ZenonT(40), <2>1, <2>2 DEF Receive
  <1>4. \A d \in Clients \ {c} : toClient'[d] = toClient[d]
    BY <1>1 DEF TypeInv, SocketsTyped
  <1> QED
    BY <1>1, <1>2, <1>3, <1>4, ClientKeeps DEF server

LEMMA QuitKeeps ==
    ASSUME TypeInv, TcpChatAssumption, NEW c \in Clients, NEW queue \in Seq(FrameType),
           Len(queue) <= ClientOut, Quit(c, queue)
    PROVE  /\ cpc'[c] # "off"
           /\ \A d \in Clients \ {c} : cpc'[d] = cpc[d] /\ out'[d] = out[d]
  BY QuitEffect DEF TypeInv, ClientTyped

LEMMA FlushKeeps ==
    ASSUME TypeInv, NEW c \in Clients, FlushOut(c)
    PROVE  \A d \in Clients \ {c} : toServer'[d] = toServer[d]
  BY DEF FlushOut, TypeInv, SocketsTyped

LEMMA TypeKeeps ==
    ASSUME TypeInv, TcpChatAssumption, SlotInv, NEW c \in Clients,
           NEW line \in {"message", "file", "empty", "exit"}, Type(c, line)
    PROVE  SlotInv'
  <1>1. /\ cpc[c] = "run" /\ FlushOut(c)
        /\ UNCHANGED <<server, incoming, serverEnd, clientEnd, toClient, first, heard, dropped>>
    BY TypeEffect
  <1>2. Flushed(c) \in Seq(FrameType) /\ Len(Flushed(c)) <= ClientOut
    BY FlushTyped
  <1>3. /\ (cpc' = cpc /\ \E x : out' = [out EXCEPT ![c] = x]) \/ Quit(c, Flushed(c))
        /\ \E x : outgoing' = [outgoing EXCEPT ![c] = x]
        /\ \E x : count' = [count EXCEPT ![c] = x]
    <2>1. (cpc' = cpc /\ \E x : out' = [out EXCEPT ![c] = x]) \/ Quit(c, Flushed(c))
      BY DEF Type
    <2>2. \E x : outgoing' = [outgoing EXCEPT ![c] = x]
      BY DEF Type
    <2>3. \E x : count' = [count EXCEPT ![c] = x]
      BY DEF Type
    <2> QED
      BY <2>1, <2>2, <2>3
  <1>4. /\ cpc'[c] # "off"
        /\ \A d \in Clients \ {c} : cpc'[d] = cpc[d] /\ out'[d] = out[d]
    BY <1>1, <1>2, <1>3, QuitKeeps DEF TypeInv, ClientTyped
  <1>5. \A d \in Clients \ {c} : outgoing'[d] = outgoing[d] /\ count'[d] = count[d]
    BY <1>3 DEF TypeInv, ClientTyped
  <1>6. \A d \in Clients \ {c} : toServer'[d] = toServer[d]
    BY <1>1, FlushKeeps
  <1>7. Quiet(c) => Quiet(c)'
    BY <1>1 DEF Quiet
  <1> QED
    BY <1>1, <1>4, <1>5, <1>6, <1>7, ClientKeeps DEF server

LEMMA RoundStepKeeps ==
    ASSUME TypeInv, TcpChatAssumption, SlotInv, NEW c \in Clients, Round(c)
    PROVE  SlotInv'
  <1>1. /\ cpc[c] = "run" /\ FlushOut(c) /\ out' = [out EXCEPT ![c] = Flushed(c)]
        /\ outgoing' = [outgoing EXCEPT ![c] = PumpedFile(c)]
        /\ count' = [count EXCEPT ![c] = PumpedCount(c)]
        /\ UNCHANGED <<slot, backlog, cpc, incoming, serverEnd, clientEnd, toClient, first, heard>>
    BY DEF Round, server
  <1>2. \A d \in Clients \ {c} : /\ out'[d] = out[d] /\ outgoing'[d] = outgoing[d]
                                 /\ count'[d] = count[d] /\ toServer'[d] = toServer[d]
    BY <1>1, FlushKeeps DEF TypeInv, ClientTyped
  <1>3. Quiet(c) => Quiet(c)'
    BY <1>1 DEF Quiet
  <1> QED
    BY <1>1, <1>2, <1>3, ClientKeeps

LEMMA QuittingKeeps ==
    ASSUME TypeInv, TcpChatAssumption, SlotInv, NEW c \in Clients, ServerGone(c) \/ ReadFails(c)
    PROVE  SlotInv'
  <1>1. /\ cpc[c] = "run" /\ Quit(c, out[c])
        /\ UNCHANGED <<slot, backlog, incoming, count, sockets, history>>
        /\ outgoing' = outgoing \/ outgoing' = [outgoing EXCEPT ![c] = NoTransfer]
    BY DEF ServerGone, ReadFails, server
  <1>2. out[c] \in Seq(FrameType) /\ Len(out[c]) <= ClientOut
    BY DEF TypeInv, ClientTyped
  <1>3. /\ cpc'[c] # "off" /\ \A d \in Clients \ {c} : cpc'[d] = cpc[d] /\ out'[d] = out[d]
        /\ \A d \in Clients \ {c} : outgoing'[d] = outgoing[d]
    BY <1>1, <1>2, QuitKeeps DEF TypeInv, ClientTyped
  <1>4. Quiet(c) => Quiet(c)'
    BY <1>1 DEF Quiet, sockets, history
  <1> QED
    BY <1>1, <1>3, <1>4, ClientKeeps DEF sockets, history

LEMMA DrainingKeeps ==
    ASSUME TypeInv, TcpChatAssumption, SlotInv, NEW c \in Clients, Drain(c) \/ DrainTimeout(c)
    PROVE  SlotInv'
  <1>1. /\ cpc[c] = "drain"
        /\ UNCHANGED <<slot, backlog, outgoing, incoming, count, serverEnd, clientEnd, toClient, first, heard>>
        /\ \E x \in {"close", "drain"} : cpc' = [cpc EXCEPT ![c] = x]
        /\ out' = out \/ \E x : out' = [out EXCEPT ![c] = x]
        /\ toServer' = toServer \/ \E x : toServer' = [toServer EXCEPT ![c] = x]
    BY DEF Drain, DrainTimeout, server, local, sockets, history
  <1>2. /\ cpc'[c] # "off"
        /\ \A d \in Clients \ {c} : cpc'[d] = cpc[d] /\ out'[d] = out[d] /\ toServer'[d] = toServer[d]
    BY <1>1 DEF TypeInv, ClientTyped, SocketsTyped
  <1>3. Quiet(c) => Quiet(c)'
    BY <1>1 DEF Quiet
  <1> QED
    BY <1>1, <1>2, <1>3, ClientKeeps

LEMMA CloseKeeps ==
    ASSUME TypeInv, TcpChatAssumption, SlotInv, NEW c \in Clients, Close(c)
    PROVE  SlotInv'
  <1>1. /\ cpc[c] = "close" /\ cpc' = [cpc EXCEPT ![c] = "done"]
        /\ out' = [out EXCEPT ![c] = <<>>] /\ outgoing' = [outgoing EXCEPT ![c] = NoTransfer]
        /\ incoming' = [incoming EXCEPT ![c] = {}]
        /\ clientEnd' = [clientEnd EXCEPT ![c] = "closed"]
        /\ toClient' = [toClient EXCEPT ![c] = <<>>]
        /\ toServer' = toServer \/ toServer' = [toServer EXCEPT ![c] = <<>>]
        /\ count' = [count EXCEPT ![c] = 0]
        /\ first' = [first EXCEPT ![c] = [d \in Clients |-> 0]]
        /\ heard' = [heard EXCEPT ![c] = [d \in Clients |-> 0]]
        /\ UNCHANGED <<slot, backlog, serverEnd>>
    BY DEF Close, server
  <1>2. /\ cpc'[c] = "done"
        /\ \A d \in Clients \ {c} : /\ cpc'[d] = cpc[d] /\ out'[d] = out[d] /\ outgoing'[d] = outgoing[d]
                                    /\ count'[d] = count[d] /\ incoming'[d] = incoming[d]
    BY <1>1 DEF TypeInv, ClientTyped
  <1>3. \A d \in Clients \ {c} : /\ clientEnd'[d] = clientEnd[d] /\ toClient'[d] = toClient[d]
                                 /\ toServer'[d] = toServer[d]
    BY <1>1 DEF TypeInv, SocketsTyped
  <1>4. \A d \in Clients \ {c} : first'[d] = first[d] /\ heard'[d] = heard[d]
    BY <1>1 DEF TypeInv, HistoryTyped
  <1>5. Quiet(c)'
    BY <1>1 DEF Quiet, TypeInv, ClientTyped, SocketsTyped, HistoryTyped
  <1> QED
    BY <1>1, <1>2, <1>3, <1>4, <1>5, ClientKeeps

LEMMA InitSlots == ASSUME TcpChatAssumption, Init PROVE SlotInv
  <1>1. \A s \in Slots : ~Active(s)
    BY ConstantsTyped DEF Init, Active
  <1>2. \A s \in Slots : slot[s].client = Nobody
    BY <1>1 DEF Active
  <1>3. Len(backlog) = 0
    BY EmptySeq DEF Init
  <1>4. OwnInv
    BY <1>1 DEF Init, OwnInv
  <1>5. BacklogInv
    BY <1>3 DEF Init, BacklogInv
  <1>6. LifeInv
    BY DEF Init, LifeInv
  <1>7. QuietInv
    BY <1>1 DEF Init, QuietInv, Quiet
  <1> QED
    BY <1>4, <1>5, <1>6, <1>7 DEF SlotInv

LEMMA SlotStep == ASSUME TypeInv, TcpChatAssumption, SlotInv, [Next]_vars PROVE SlotInv'
  <1>1. ASSUME NEW e \in events \union {current}, Skip(e) \/ ReceiveFrame(e) \/ GiveUp(e) \/ Write(e)
        PROVE  SlotInv'
    <2>1. CASE Skip(e)
      BY <2>1, IdleKeeps DEF Skip
    <2> QED
      BY <1>1, <2>1, ServerMovesKeep, WriteKeeps
  <1>2. ASSUME NEW c \in Clients, NEW line \in {"message", "file", "empty", "exit"}, Type(c, line)
        PROVE  SlotInv'
    BY <1>2, TypeKeeps
  <1>3. ASSUME NEW c \in Clients,
               \/ Start(c) \/ ReadFails(c) \/ Receive(c) \/ ServerGone(c) \/ Round(c) \/ Drain(c)
               \/ DrainTimeout(c) \/ Close(c)
        PROVE  SlotInv'
    BY <1>3, StartKeeps, QuittingKeeps, ReceiveKeeps, RoundStepKeeps, DrainingKeeps, CloseKeeps
  <1>4. CASE Wait \/ Interrupt \/ UNCHANGED vars
    BY <1>4, IdleKeeps DEF Wait, Interrupt, vars, server
  <1> QED
    BY <1>1, <1>2, <1>3, <1>4, StepCases, StopKeeps, AcceptKeeps

LEMMA SlotsImply == ASSUME TypeInv, TcpChatAssumption, SlotInv PROVE SlotsOwned
  <1>1. ASSUME NEW c \in Clients
        PROVE  serverEnd[c] = "open" <=> Cardinality({s \in Slots : slot[s].client = c}) = 1
    <2>1. CASE serverEnd[c] = "open"
      <3>1. PICK s \in Slots : slot[s].client = c
        BY <2>1 DEF SlotInv, OwnInv
      <3>2. {t \in Slots : slot[t].client = c} = {s}
        BY <3>1, ConstantsTyped DEF SlotInv, OwnInv, Active
      <3>3. Cardinality({s}) = 1
        BY FS_Singleton
      <3> QED
        BY <2>1, <3>2, <3>3
    <2>2. CASE serverEnd[c] # "open"
      <3>1. {t \in Slots : slot[t].client = c} = {}
        BY <2>2, ConstantsTyped DEF SlotInv, OwnInv, Active
      <3>2. Cardinality({t \in Slots : slot[t].client = c}) = 0
        BY <3>1, FS_EmptySet, Zenon
      <3> QED
        BY <2>2, <3>2
    <2> QED
      BY <2>1, <2>2
  <1>2. ASSUME NEW s \in Slots, Active(s), ~slot[s].joined
        PROVE  slot[s].transfer = NoTransfer /\ Queued(slot[s].client) = <<>>
    <2>1. Quiet(slot[s].client) /\ slot[s].out = <<>> /\ slot[s].transfer = NoTransfer
      BY <1>2 DEF SlotInv, QuietInv
    <2>2. PICK t \in Slots : t = CHOOSE x \in {x \in Slots : slot[x].client = slot[s].client} : TRUE
      OBVIOUS
    <2>3. slot[t].client = slot[s].client
      BY <2>2
    <2>4. t = s
      BY <1>2, <2>3 DEF SlotInv, OwnInv
    <2>5. Queued(slot[s].client) = toClient[slot[s].client] \o slot[t].out
      BY <2>2 DEF Queued
    <2>6. toClient[slot[s].client] = <<>> /\ <<>> \o <<>> = <<>>
      BY <2>1, EmptySeq, ConcatEmptySeq DEF Quiet
    <2> QED
      BY <2>1, <2>4, <2>5, <2>6
  <1> QED
    BY <1>1, <1>2 DEF SlotsOwned

\* A slot that is given to another client within a round of events keeps nothing of
\* the one before: every accepted connection has one slot, and a client that has not
\* joined is owed nothing and is sent nothing.
THEOREM SlotsCorrect == Spec => []SlotsOwned
  <1>1. Init => TypeInv /\ SlotInv
    BY InitTyped, InitSlots, TcpChatAssumption
  <1>2. TypeInv /\ SlotInv /\ [Next]_vars => TypeInv' /\ SlotInv'
    BY TypeStep, SlotStep, TcpChatAssumption
  <1>3. TypeInv /\ SlotInv => SlotsOwned
    BY SlotsImply, TcpChatAssumption
  <1> QED
    BY <1>1, <1>2, <1>3, PTL DEF Spec


-----------------------------------------------------------------------------
(* What one client has said, as its hearers understand it.                 *)

\* How far somebody is in the frames of a client.
View ==
    {v \in [stage : {"new", "joined", "left"}, transfer : TransferType, n : Nat] :
        v.transfer.id <= v.n /\ v.transfer.done <= v.transfer.size}

Fresh == [stage |-> "new", transfer |-> NoTransfer, n |-> 0]

\* The frames that client d may say next.
Expected(v, d, frame) ==
    /\ frame.from = d /\ v.stage # "left"
    /\ frame.type = "join" <=> v.stage = "new"
    /\ frame.n = IF frame.type = "leave" THEN 0 ELSE v.n + 1
    /\ frame.type = "begin" => v.transfer.id = 0 /\ frame.id = frame.n
    /\ frame.type \in {"chunk", "end"} => frame.id # 0 /\ v.transfer.id = frame.id
    /\ frame.type = "chunk" => v.transfer.done < v.transfer.size
    /\ frame.type = "end" => v.transfer.done = v.transfer.size

After(v, frame) ==
    [stage |-> CASE frame.type = "join" -> "joined" [] frame.type = "leave" -> "left" [] OTHER -> v.stage,
     transfer |-> CASE frame.type = "begin" -> [id |-> frame.id, size |-> frame.size, done |-> 0]
                    [] frame.type = "chunk" -> [v.transfer EXCEPT !.done = @ + 1]
                    [] frame.type \in {"end", "leave"} -> NoTransfer
                    [] OTHER -> v.transfer,
     n |-> IF frame.type = "leave" THEN v.n ELSE frame.n]

\* From one view to another one by a frame of whomever.
Goes(v, d, frame, w) ==
    IF frame.from = d THEN Expected(v, d, frame) /\ w = After(v, frame) ELSE w = v

\* The views between the frames of a queue.
Steps(views, queue, d) ==
    /\ views \in [0 .. Len(queue) -> View]
    /\ \A i \in 1 .. Len(queue) : Goes(views[i - 1], d, queue[i], views[i])

Leads(v, queue, d, w) ==
    \E views : Steps(views, queue, d) /\ views[0] = v /\ views[Len(queue)] = w

LEMMA AfterTyped ==
    ASSUME NEW v \in View, NEW d, NEW frame \in FrameType, Expected(v, d, frame)
    PROVE  After(v, frame) \in View
  <1>1. /\ v \in [stage : {"new", "joined", "left"}, transfer : TransferType, n : Nat]
        /\ v.transfer.id <= v.n /\ v.transfer.done <= v.transfer.size
    BY DEF View
  <1>2. /\ v.stage \in {"new", "joined", "left"} /\ v.n \in Nat /\ v.transfer \in TransferType
        /\ v.transfer.id \in Nat /\ v.transfer.size \in Nat /\ v.transfer.done \in Nat
    BY <1>1 DEF TransferType
  <1>3. frame.id \in Nat /\ frame.size \in Nat /\ frame.n \in Nat /\ frame.type \in Kinds
    BY DEF FrameType
  <1>4. PICK w : w = After(v, frame)
    OBVIOUS
  <1>5. w.stage \in {"new", "joined", "left"} /\ w.n \in Nat /\ w.n >= v.n
    BY <1>2, <1>3, <1>4 DEF After, Expected
  <1>6. w.transfer \in TransferType /\ w.transfer.id <= w.n /\ w.transfer.done <= w.transfer.size
    <2>1. w.transfer = CASE frame.type = "begin" -> [id |-> frame.id, size |-> frame.size, done |-> 0]
                         [] frame.type = "chunk" -> [v.transfer EXCEPT !.done = @ + 1]
                         [] frame.type \in {"end", "leave"} -> NoTransfer
                         [] OTHER -> v.transfer
      BY <1>4 DEF After
    <2>2. CASE frame.type = "begin"
      <3>1. w.transfer = [id |-> frame.id, size |-> frame.size, done |-> 0]
        BY <2>1, <2>2
      <3>2. frame.id = w.n
        BY <1>4, <2>2 DEF After, Expected
      <3> QED
        BY <1>3, <3>1, <3>2 DEF TransferType
    <2>3. CASE frame.type = "chunk"
      <3>1. w.transfer = [v.transfer EXCEPT !.done = @ + 1]
        BY <2>1, <2>3
      <3>2. v.transfer.done < v.transfer.size
        BY <2>3 DEF Expected
      <3> QED
        BY <1>1, <1>2, <1>5, <3>1, <3>2 DEF TransferType
    <2>4. CASE frame.type \in {"end", "leave"}
      <3>1. w.transfer = NoTransfer
        BY <2>1, <2>4
      <3> QED
        BY <1>5, <3>1 DEF NoTransfer, TransferType
    <2>5. CASE frame.type \in {"join", "message"}
      <3>1. w.transfer = v.transfer
        BY <2>1, <2>5
      <3> QED
        BY <1>1, <1>2, <1>5, <3>1
    <2> QED
      BY <1>3, <2>2, <2>3, <2>4, <2>5 DEF Kinds
  <1>7. w = [stage |-> w.stage, transfer |-> w.transfer, n |-> w.n]
    BY <1>4 DEF After
  <1> QED
    BY <1>4, <1>5, <1>6, <1>7 DEF View

LEMMA GoesTyped ==
    ASSUME NEW v \in View, NEW d, NEW frame \in FrameType, NEW w, Goes(v, d, frame, w)
    PROVE  w \in View
  BY AfterTyped DEF Goes

LEMMA FreshTyped == Fresh \in View
  BY DEF Fresh, View, NoTransfer, TransferType

LEMMA LeadsTyped ==
    ASSUME NEW v, NEW w, NEW d, NEW queue \in Seq(FrameType), Leads(v, queue, d, w)
    PROVE  v \in View /\ w \in View
  <1>1. Len(queue) \in Nat
    BY LenProperties
  <1>2. 0 \in 0 .. Len(queue) /\ Len(queue) \in 0 .. Len(queue)
    BY <1>1
  <1> QED
    BY <1>2 DEF Leads, Steps

LEMMA LeadsNowhere ==
    ASSUME NEW v \in View, NEW d, NEW w
    PROVE  Leads(v, <<>>, d, w) <=> w = v
  <1>1. Len(<<>>) = 0
    BY EmptySeq
  <1>2. ASSUME w = v PROVE Leads(v, <<>>, d, w)
    <2>1. PICK views : views = [i \in 0 .. 0 |-> v]
      OBVIOUS
    <2>2. views \in [0 .. 0 -> View] /\ views[0] = v
      BY <2>1
    <2>3. Steps(views, <<>>, d)
      BY <1>1, <2>2 DEF Steps
    <2> QED
      BY <1>1, <1>2, <2>2, <2>3 DEF Leads
  <1>3. Leads(v, <<>>, d, w) => w = v
    BY <1>1 DEF Leads
  <1> QED
    BY <1>2, <1>3

\* One frame more.
LEMMA LeadsOn ==
    ASSUME NEW v, NEW w, NEW x, NEW d, NEW queue \in Seq(FrameType), NEW frame \in FrameType,
           Leads(v, queue, d, w), Goes(w, d, frame, x)
    PROVE  Leads(v, Append(queue, frame), d, x)
  <1>1. PICK n \in Nat : n = Len(queue)
    BY LenProperties
  <1>2. PICK views : Steps(views, queue, d) /\ views[0] = v /\ views[n] = w
    BY <1>1 DEF Leads
  <1>3. views \in [0 .. n -> View] /\ \A i \in 1 .. n : Goes(views[i - 1], d, queue[i], views[i])
    BY <1>1, <1>2 DEF Steps
  <1>4. x \in View
    BY LeadsTyped, GoesTyped
  <1>5. PICK more : more = [i \in 0 .. n + 1 |-> IF i = n + 1 THEN x ELSE views[i]]
    OBVIOUS
  <1>6. PICK longer : longer = Append(queue, frame)
    OBVIOUS
  <1>7. Len(longer) = n + 1 /\ longer[n + 1] = frame /\ \A i \in 1 .. n : longer[i] = queue[i]
    BY <1>1, <1>6, AppendProperties
  <1>8. more \in [0 .. n + 1 -> View] /\ more[n + 1] = x /\ \A i \in 0 .. n : more[i] = views[i]
    BY <1>1, <1>3, <1>4, <1>5
  <1>9. ASSUME NEW i \in 1 .. n + 1 PROVE Goes(more[i - 1], d, longer[i], more[i])
    <2>1. CASE i = n + 1
      <3>1. more[i - 1] = w /\ more[i] = x /\ longer[i] = frame
        BY <1>1, <1>2, <1>7, <1>8, <2>1
      <3> QED
        BY <3>1
    <2>2. CASE i \in 1 .. n
      <3>1. more[i - 1] = views[i - 1] /\ more[i] = views[i] /\ longer[i] = queue[i]
        BY <1>1, <1>7, <1>8, <2>2
      <3> QED
        BY <1>3, <2>2, <3>1
    <2> QED
      BY <1>1, <2>1, <2>2
  <1>10. Steps(more, longer, d)
    BY <1>7, <1>8, <1>9 DEF Steps
  <1>11. more[0] = v
    BY <1>1, <1>2, <1>8
  <1> QED
    BY <1>6, <1>7, <1>8, <1>10, <1>11 DEF Leads

\* The first frame is taken from the queue.
LEMMA LeadsTail ==
    ASSUME NEW v, NEW w, NEW d, NEW queue \in Seq(FrameType), queue # <<>>, Leads(v, queue, d, w)
    PROVE  \E x \in View : Goes(v, d, Head(queue), x) /\ Leads(x, Tail(queue), d, w)
  <1>1. PICK n \in Nat : n = Len(Tail(queue)) /\ Len(queue) = n + 1
    BY HeadTailProperties, LenProperties
  <1>2. PICK views : Steps(views, queue, d) /\ views[0] = v /\ views[n + 1] = w
    BY <1>1 DEF Leads
  <1>3. /\ views \in [0 .. n + 1 -> View]
        /\ \A i \in 1 .. n + 1 : Goes(views[i - 1], d, queue[i], views[i])
    BY <1>1, <1>2 DEF Steps
  <1>4. PICK fewer : fewer = [i \in 0 .. n |-> views[i + 1]]
    OBVIOUS
  <1>5. PICK shorter : shorter = Tail(queue)
    OBVIOUS
  <1>6. Len(shorter) = n /\ \A i \in 1 .. n : shorter[i] = queue[i + 1]
    BY <1>1, <1>5, HeadTailProperties
  <1>7. fewer \in [0 .. n -> View] /\ \A i \in 0 .. n : fewer[i] = views[i + 1]
    BY <1>1, <1>3, <1>4
  <1>8. ASSUME NEW i \in 1 .. n PROVE Goes(fewer[i - 1], d, shorter[i], fewer[i])
    <2>1. fewer[i - 1] = views[i] /\ fewer[i] = views[i + 1] /\ shorter[i] = queue[i + 1]
      BY <1>1, <1>6, <1>7
    <2>2. i + 1 \in 1 .. n + 1 /\ (i + 1) - 1 = i
      BY <1>1
    <2>3. Goes(views[i], d, queue[i + 1], views[i + 1])
      BY <1>3, <2>2
    <2> QED
      BY <2>1, <2>3
  <1>9. Steps(fewer, shorter, d)
    BY <1>6, <1>7, <1>8 DEF Steps
  <1>10. fewer[0] = views[1] /\ fewer[n] = w /\ views[1] \in View
    BY <1>1, <1>2, <1>3, <1>7
  <1>11. Goes(v, d, Head(queue), views[1])
    <2>1. 1 \in 1 .. n + 1 /\ 1 - 1 = 0 /\ Head(queue) = queue[1]
      BY <1>1
    <2> QED
      BY <1>2, <1>3, <2>1
  <1>12. Leads(views[1], shorter, d, w)
    BY <1>6, <1>9, <1>10 DEF Leads
  <1> QED
    BY <1>5, <1>10, <1>11, <1>12

\* The last frames are lost.
LEMMA LeadsPart ==
    ASSUME NEW v, NEW w, NEW d, NEW queue \in Seq(FrameType), NEW rest \in Seq(FrameType),
           Leads(v, queue \o rest, d, w)
    PROVE  \E x \in View : Leads(v, queue, d, x)
  <1>1. PICK n \in Nat, m \in Nat : n = Len(queue) /\ m = Len(queue \o rest) /\ n <= m
    BY ConcatProperties, LenProperties
  <1>2. PICK whole : whole = queue \o rest
    OBVIOUS
  <1>3. \A i \in 1 .. n : whole[i] = queue[i]
    BY <1>1, <1>2, ConcatProperties, LenProperties
  <1>4. PICK views : Steps(views, whole, d) /\ views[0] = v
    BY <1>2 DEF Leads
  <1>5. views \in [0 .. m -> View] /\ \A i \in 1 .. m : Goes(views[i - 1], d, whole[i], views[i])
    BY <1>1, <1>2, <1>4 DEF Steps
  <1>6. PICK fewer : fewer = [i \in 0 .. n |-> views[i]]
    OBVIOUS
  <1>7. fewer \in [0 .. n -> View] /\ \A i \in 0 .. n : fewer[i] = views[i]
    BY <1>1, <1>5, <1>6
  <1>8. ASSUME NEW i \in 1 .. n PROVE Goes(fewer[i - 1], d, queue[i], fewer[i])
    <2>1. fewer[i - 1] = views[i - 1] /\ fewer[i] = views[i] /\ whole[i] = queue[i] /\ i \in 1 .. m
      BY <1>1, <1>3, <1>7
    <2> QED
      BY <1>5, <2>1
  <1>9. Steps(fewer, queue, d)
    BY <1>1, <1>7, <1>8 DEF Steps
  <1>10. fewer[0] = v /\ fewer[n] \in View
    BY <1>1, <1>4, <1>7
  <1> QED
    BY <1>1, <1>9, <1>10 DEF Leads


-----------------------------------------------------------------------------
(* Senders, server and hearers agree.                                      *)

\* Where the server is with client d.
Stands(d, v) ==
    /\ v \in View
    /\ serverEnd[d] \in {"none", "queued"} => v = Fresh
    /\ serverEnd[d] = "closed" => v.transfer.id = 0 \/ d \in dropped
    /\ \A s \in Slots : slot[s].client = d =>
          v.transfer = slot[s].transfer /\ v.stage = IF slot[s].joined THEN "joined" ELSE "new"

\* What the client has queued goes on from there to where the client is itself.
Unread(d) == toServer[d] \o out[d]
Says(d, v) ==
    serverEnd[d] # "closed" =>
        /\ \A i \in 1 .. Len(Unread(d)) : Unread(d)[i].from = d
        /\ \E w : /\ Leads(v, Unread(d), d, w)
                  /\ cpc[d] = "run" => w = [stage |-> "joined", transfer |-> outgoing[d], n |-> count[d]]

\* The file that a hearer keeps of a sender: one that began after the hearer came.
Files(d, since, u) ==
    {f \in {[from |-> d, id |-> u.transfer.id, size |-> u.transfer.size, done |-> u.transfer.done]} :
        since # 0 /\ since <= f.id}

\* Client c has handled what d said up to some view, since some frame.
Knows(c, d, u) ==
    /\ \/ first[c][d] = 0 /\ heard[c][d] = 0
       \/ heard[c][d] = u.n /\ first[c][d] \in 1 .. u.n
    /\ {f \in incoming[c] : f.from = d} = Files(d, first[c][d], u)

\* What is on its way to c goes on from there to where the server is.
Hears(c, d, v) ==
    cpc[c] = "run" =>
        \E u, w : /\ Knows(c, d, u) /\ Leads(u, Queued(c), d, w)
                  /\ serverEnd[c] = "open" => w = v

SaidInv ==
    \A d \in Clients : \E v : /\ Stands(d, v) /\ Says(d, v)
                              /\ \A c \in Clients \ {d} : Hears(c, d, v)

\* Nobody hears of itself.
SelfInv ==
    \A c \in Clients :
       /\ \A i \in 1 .. Len(Queued(c)) : Queued(c)[i].from # c
       /\ \A f \in incoming[c] : f.from # c

FlowInv == SaidInv /\ SelfInv

\* The queue of a client, of given slots and connections.
QueuedIn(slots, wires, c) ==
    LET mine == {s \in Slots : slots[s].client = c}
    IN  wires[c] \o (IF mine = {} THEN <<>> ELSE slots[CHOOSE s \in mine : TRUE].out)

LEMMA QueueOwned ==
    ASSUME NEW slots, NEW wires, NEW s \in Slots,
           \A t \in Slots : slots[t].client = slots[s].client => t = s
    PROVE  QueuedIn(slots, wires, slots[s].client) = wires[slots[s].client] \o slots[s].out
  <1>1. PICK mine : mine = {t \in Slots : slots[t].client = slots[s].client}
    OBVIOUS
  <1>2. s \in mine /\ \A t \in mine : t = s
    BY <1>1
  <1>3. (CHOOSE t \in mine : TRUE) = s
    BY <1>2
  <1>4. mine # {}
    BY <1>2
  <1> QED
    BY <1>1, <1>3, <1>4 DEF QueuedIn

LEMMA QueueUnowned ==
    ASSUME NEW slots, NEW wires, NEW c, wires[c] \in Seq(FrameType), \A t \in Slots : slots[t].client # c
    PROVE  QueuedIn(slots, wires, c) = wires[c]
  <1>1. {t \in Slots : slots[t].client = c} = {}
    OBVIOUS
  <1>2. QueuedIn(slots, wires, c) = wires[c] \o <<>>
    BY <1>1 DEF QueuedIn
  <1> QED
    BY <1>2, ConcatEmptySeq

LEMMA Queues ==
    ASSUME TypeInv, OwnInv, TcpChatAssumption
    PROVE  /\ \A s \in Slots : Active(s) =>
                 Queued(slot[s].client) = toClient[slot[s].client] \o slot[s].out
           /\ \A c \in Clients : serverEnd[c] # "open" => Queued(c) = toClient[c]
           /\ \A c \in Clients : Queued(c) \in Seq(FrameType)
  <1>1. \A c \in Clients : Queued(c) = QueuedIn(slot, toClient, c)
    BY DEF Queued, QueuedIn
  <1>2. /\ \A c \in Clients : toClient[c] \in Seq(FrameType)
        /\ \A s \in Slots : slot[s].out \in Seq(FrameType) /\ (Active(s) => slot[s].client \in Clients)
    BY DEF TypeInv, SlotsTyped, SlotType, SocketsTyped, Active
  <1>3. ASSUME NEW s \in Slots, Active(s)
        PROVE  Queued(slot[s].client) = toClient[slot[s].client] \o slot[s].out
    <2>1. \A t \in Slots : slot[t].client = slot[s].client => t = s
      BY <1>3 DEF OwnInv
    <2> QED
      BY <1>1, <1>2, <1>3, <2>1, QueueOwned
  <1>4. ASSUME NEW c \in Clients, serverEnd[c] # "open" PROVE Queued(c) = toClient[c]
    <2>1. \A t \in Slots : slot[t].client # c
      BY <1>4, ConstantsTyped DEF OwnInv, Active
    <2> QED
      BY <1>1, <1>2, <2>1, QueueUnowned
  <1>5. ASSUME NEW c \in Clients PROVE Queued(c) \in Seq(FrameType)
    <2>1. CASE serverEnd[c] = "open"
      <3>1. PICK s \in Slots : slot[s].client = c
        BY <2>1 DEF OwnInv
      <3>2. Active(s)
        BY <3>1, ConstantsTyped DEF Active
      <3>3. Queued(c) = toClient[c] \o slot[s].out
        BY <1>3, <3>1, <3>2
      <3> QED
        BY <1>2, <3>3, ConcatProperties
    <2> QED
      BY <1>2, <1>4, <2>1
  <1> QED
    BY <1>3, <1>4, <1>5

LEMMA NextQueues ==
    ASSUME TypeInv', OwnInv', TcpChatAssumption
    PROVE  /\ \A s \in Slots : slot'[s].client # Nobody =>
                 Queued(slot[s].client)' = toClient'[slot'[s].client] \o slot'[s].out
           /\ \A c \in Clients : serverEnd'[c] # "open" => Queued(c)' = toClient'[c]
           /\ \A c \in Clients : Queued(c)' \in Seq(FrameType)
  <1>1. /\ \A c \in Clients : Queued(c)' = QueuedIn(slot', toClient', c)
        /\ \A s \in Slots : Queued(slot[s].client)' = QueuedIn(slot', toClient', slot'[s].client)
    BY DEF Queued, QueuedIn
  <1>2. /\ \A c \in Clients : toClient'[c] \in Seq(FrameType)
        /\ \A s \in Slots : slot'[s].out \in Seq(FrameType)
        /\ \A s \in Slots : slot'[s].client # Nobody => slot'[s].client \in Clients
    BY DEF TypeInv, SlotsTyped, SlotType, SocketsTyped
  <1>3. ASSUME NEW s \in Slots, slot'[s].client # Nobody
        PROVE  /\ Queued(slot[s].client)' = toClient'[slot'[s].client] \o slot'[s].out
               /\ QueuedIn(slot', toClient', slot'[s].client) = toClient'[slot'[s].client] \o slot'[s].out
    <2>1. \A t \in Slots : slot'[t].client = slot'[s].client => t = s
      BY <1>3 DEF OwnInv, Active
    <2> QED
      BY <1>1, <2>1, QueueOwned
  <1>4. ASSUME NEW c \in Clients, serverEnd'[c] # "open" PROVE Queued(c)' = toClient'[c]
    <2>1. \A t \in Slots : slot'[t].client # c
      BY <1>4, ConstantsTyped DEF OwnInv, Active
    <2>2. QueuedIn(slot', toClient', c) = toClient'[c]
      BY <1>2, <2>1, QueueUnowned
    <2> QED
      BY <1>1, <2>2
  <1>5. ASSUME NEW c \in Clients PROVE Queued(c)' \in Seq(FrameType)
    <2>1. CASE serverEnd'[c] = "open"
      <3>1. PICK s \in Slots : slot'[s].client = c
        BY <2>1 DEF OwnInv
      <3>2. QueuedIn(slot', toClient', c) = toClient'[c] \o slot'[s].out
        BY <1>3, <3>1, ConstantsTyped
      <3> QED
        <4>1. toClient'[c] \o slot'[s].out \in Seq(FrameType)
          BY <1>2, ConcatProperties
        <4> QED
          BY <1>1, <3>2, <4>1
    <2> QED
      BY <1>2, <1>4, <2>1
  <1> QED
    BY <1>3, <1>4, <1>5

-----------------------------------------------------------------------------
(* What the hearers hear after a step.                                     *)

\* The client has handled nothing.
Unmoved(c) ==
    /\ cpc'[c] = "run" => cpc[c] = "run"
    /\ first'[c] = first[c] /\ heard'[c] = heard[c] /\ incoming'[c] = incoming[c]

LEMMA HearsNothing ==
    ASSUME NEW c \in Clients, NEW d \in Clients, NEW v \in View, Quiet(c)', Queued(c)' = <<>>
    PROVE  Hears(c, d, v)'
  <1>1. Leads(v, <<>>, d, v)
    BY LeadsNowhere
  <1>2. /\ {f \in incoming'[c] : f.from = d} = {} /\ first'[c][d] = 0 /\ heard'[c][d] = 0
    BY DEF Quiet
  <1>3. Knows(c, d, v)'
    BY <1>2 DEF Knows, Files
  <1> QED
    BY <1>1, <1>3 DEF Hears

LEMMA KnowsKept ==
    ASSUME NEW c, NEW d, NEW u, Unmoved(c), Knows(c, d, u)
    PROVE  Knows(c, d, u)'
  BY DEF Knows, Unmoved

LEMMA HearsSame ==
    ASSUME NEW c, NEW d, NEW v, NEW x, Unmoved(c), Hears(c, d, v), Queued(c)' = Queued(c),
           serverEnd'[c] = "open" => serverEnd[c] = "open" /\ x = v
    PROVE  Hears(c, d, x)'
  <1>1. SUFFICES ASSUME cpc'[c] = "run"
                 PROVE  (\E u, w : /\ Knows(c, d, u) /\ Leads(u, Queued(c), d, w)
                                   /\ serverEnd[c] = "open" => w = x)'
    BY DEF Hears
  <1>2. PICK u, w : /\ Knows(c, d, u) /\ Leads(u, Queued(c), d, w) /\ (serverEnd[c] = "open" => w = v)
    BY <1>1 DEF Hears, Unmoved
  <1>3. Knows(c, d, u)'
    BY <1>2, KnowsKept
  <1> QED
    BY <1>2, <1>3

LEMMA HearsMore ==
    ASSUME NEW c, NEW d, NEW v, NEW x, NEW frame \in FrameType, Queued(c) \in Seq(FrameType),
           Unmoved(c), Hears(c, d, v), Queued(c)' = Append(Queued(c), frame),
           serverEnd[c] = "open", Goes(v, d, frame, x)
    PROVE  Hears(c, d, x)'
  <1>1. SUFFICES ASSUME cpc'[c] = "run"
                 PROVE  (\E u, w : /\ Knows(c, d, u) /\ Leads(u, Queued(c), d, w)
                                   /\ serverEnd[c] = "open" => w = x)'
    BY DEF Hears
  <1>2. PICK u : Knows(c, d, u) /\ Leads(u, Queued(c), d, v)
    BY <1>1 DEF Hears, Unmoved
  <1>3. Knows(c, d, u)'
    BY <1>2, KnowsKept
  <1>4. Leads(u, Append(Queued(c), frame), d, x)
    BY <1>2, LeadsOn
  <1> QED
    BY <1>3, <1>4

LEMMA HearsLess ==
    ASSUME NEW c, NEW d, NEW v, NEW x, NEW rest \in Seq(FrameType), Queued(c)' \in Seq(FrameType),
           Unmoved(c), Hears(c, d, v), Queued(c) = Queued(c)' \o rest, serverEnd'[c] # "open"
    PROVE  Hears(c, d, x)'
  <1>1. SUFFICES ASSUME cpc'[c] = "run"
                 PROVE  (\E u, w : /\ Knows(c, d, u) /\ Leads(u, Queued(c), d, w)
                                   /\ serverEnd[c] = "open" => w = x)'
    BY DEF Hears
  <1>2. PICK u, w : Knows(c, d, u) /\ Leads(u, Queued(c), d, w)
    BY <1>1 DEF Hears, Unmoved
  <1>3. Knows(c, d, u)'
    BY <1>2, KnowsKept
  <1>4. PICK y : Leads(u, Queued(c)', d, y)
    BY <1>2, LeadsPart
  <1> QED
    BY <1>3, <1>4


-----------------------------------------------------------------------------
(* Frames that are passed on.                                              *)

\* A closed connection leaves a part of the queue, if anything.
LEMMA ShutQueue ==
    ASSUME TypeInv, TcpChatAssumption, OwnInv, TypeInv', OwnInv', NEW c \in Clients, Shut(c),
           toClient'[c] \in {<<>>, toClient[c]}
    PROVE  serverEnd'[c] # "open" /\ \E rest \in Seq(FrameType) : Queued(c) = Queued(c)' \o rest
  <1>1. serverEnd'[c] # "open" /\ Queued(c)' = toClient'[c]
    BY NextQueues DEF Shut
  <1>2. PICK s \in Slots : slot[s].client = c
    BY DEF OwnInv, Shut
  <1>3. Queued(c) = toClient[c] \o slot[s].out
    BY <1>2, Queues, ConstantsTyped DEF Active
  <1>4. PICK a \in Seq(FrameType), b \in Seq(FrameType) : a = toClient[c] /\ b = slot[s].out
    BY DEF TypeInv, SlotsTyped, SlotType, SocketsTyped
  <1>5. a \o b \in Seq(FrameType) /\ <<>> \o (a \o b) = a \o b
    BY ConcatProperties, ConcatEmptySeq
  <1>6. CASE toClient'[c] = <<>>
    BY <1>1, <1>3, <1>4, <1>5, <1>6
  <1>7. CASE toClient'[c] = toClient[c]
    BY <1>1, <1>3, <1>4, <1>7
  <1> QED
    BY <1>1, <1>6, <1>7

\* What client c is sent when a frame of client a is passed on.
Got(c, a, frame) ==
    \/ c # a /\ serverEnd[c] = "open" /\ Queued(c)' = Append(Queued(c), frame)
    \/ /\ c = a \/ serverEnd[c] # "open"
       /\ Queued(c)' = Queued(c) /\ serverEnd'[c] = serverEnd[c]
    \/ serverEnd'[c] # "open" /\ \E rest \in Seq(FrameType) : Queued(c) = Queued(c)' \o rest
    \/ c # a /\ Quiet(c)' /\ Queued(c)' = <<>> /\ Queued(c) = <<>>

LEMMA AppendLast ==
    ASSUME NEW S, NEW a \in Seq(S), NEW b \in Seq(S), NEW x \in S
    PROVE  a \o Append(b, x) = Append(a \o b, x)
  <1>1. <<x>> \in Seq(S)
    OBVIOUS
  <1>2. Append(b, x) = b \o <<x>>
    BY AppendIsConcat
  <1>3. a \o b \in Seq(S)
    BY ConcatProperties
  <1>4. Append(a \o b, x) = (a \o b) \o <<x>>
    BY <1>3, AppendIsConcat
  <1>5. (a \o b) \o <<x>> = a \o (b \o <<x>>)
    BY <1>1, ConcatAssociative
  <1> QED
    BY <1>2, <1>4, <1>5

LEMMA PassQueues ==
    ASSUME TypeInv, TcpChatAssumption, SlotInv, TypeInv', OwnInv',
           NEW s \in Slots, Active(s), NEW a \in Clients, a = slot[s].client,
           NEW frame \in FrameType, NEW own, NEW wires, Passes(s, frame, own, wires), Closes(wires),
           own = Free \/ (own.client = a /\ own.out = slot[s].out),
           UNCHANGED <<client, first, heard>>,
           NEW c \in Clients
    PROVE  Got(c, a, frame)
  <1>1. OwnInv /\ Free.client = Nobody /\ a # Nobody
    BY ConstantsTyped DEF SlotInv
  <1>2. CASE Shut(c)
    <2>1. toClient'[c] \in {<<>>, toClient[c]}
      BY <1>2 DEF Closes, Kept
    <2> QED
      BY <1>1, <1>2, <2>1, ShutQueue DEF Got
  <1>3. CASE Kept(c, wires) /\ serverEnd[c] # "open"
    <2>1. Queued(c) = toClient[c] /\ Queued(c)' = toClient'[c]
      BY <1>1, <1>3, Queues, NextQueues DEF Kept
    <2> QED
      BY <1>3, <2>1 DEF Kept, Got
  <1>4. CASE Kept(c, wires) /\ serverEnd[c] = "open"
    <2>1. PICK t \in Slots : slot[t].client = c
      BY <1>1, <1>4 DEF OwnInv
    <2>2. Active(t) /\ Queued(c) = toClient[c] \o slot[t].out /\ ~Shut(c)
      BY <1>1, <1>4, <2>1, Queues, ConstantsTyped DEF Active, Kept, Shut
    <2>3. CASE t = s
      <3>1. c = a /\ own.client = a /\ own.out = slot[s].out /\ slot'[s] = own
        BY <1>1, <2>1, <2>2, <2>3 DEF Passes
      <3>2. Queued(c)' = toClient'[c] \o slot'[s].out
        BY <1>1, <3>1, NextQueues
      <3> QED
        BY <1>4, <2>2, <2>3, <3>1, <3>2 DEF Kept, Got
    <2>4. CASE t # s
      <3>1. c # a
        BY <1>1, <2>1, <2>2, <2>4 DEF OwnInv
      <3>2. CASE slot[t].joined /\ Told(t, frame)
        <4>1. slot'[t].client = c /\ slot'[t].out = Append(slot[t].out, frame)
          BY <2>1, <3>2 DEF Told, TypeInv, SlotsTyped, SlotType
        <4>2. Queued(c)' = toClient'[c] \o Append(slot[t].out, frame)
          BY <4>1, NextQueues, ConstantsTyped
        <4>3. PICK x \in Seq(FrameType), y \in Seq(FrameType) : x = toClient[c] /\ y = slot[t].out
          BY DEF TypeInv, SlotsTyped, SlotType, SocketsTyped
        <4>4. x \o Append(y, frame) = Append(x \o y, frame)
          BY AppendLast
        <4> QED
          BY <1>4, <2>2, <3>1, <4>2, <4>3, <4>4 DEF Kept, Got
      <3>3. CASE slot'[t] = slot[t] /\ ~slot[t].joined
        <4>1. Quiet(c) /\ slot[t].out = <<>>
          BY <2>1, <2>2, <3>3 DEF SlotInv, QuietInv
        <4>2. Quiet(c)'
          BY <1>4, <4>1 DEF Quiet, Kept, client, local
        <4>3. Queued(c)' = toClient'[c] \o slot'[t].out
          BY <2>1, <3>3, NextQueues, ConstantsTyped
        <4>4. <<>> \o <<>> = <<>>
          BY EmptySeq, ConcatEmptySeq
        <4>5. toClient[c] = <<>> /\ toClient'[c] = <<>> /\ slot'[t].out = <<>>
          BY <3>3, <4>1, <4>2 DEF Quiet
        <4> QED
          BY <2>2, <3>1, <4>1, <4>2, <4>3, <4>4, <4>5 DEF Got
      <3> QED
        BY <2>1, <2>2, <2>4, <3>2, <3>3 DEF Passes
    <2> QED
      BY <2>3, <2>4
  <1> QED
    BY <1>2, <1>3, <1>4 DEF Closes

LEMMA PassHears ==
    ASSUME TypeInv, TcpChatAssumption, SlotInv, TypeInv', OwnInv',
           NEW s \in Slots, Active(s), NEW a \in Clients, a = slot[s].client,
           NEW frame \in FrameType, frame.from = a,
           NEW own, NEW wires, Passes(s, frame, own, wires), Closes(wires),
           own = Free \/ (own.client = a /\ own.out = slot[s].out),
           UNCHANGED <<client, first, heard>>,
           NEW c \in Clients, NEW d \in Clients, c # d,
           NEW v, NEW x \in View, Goes(v, d, frame, x), Hears(c, d, v)
    PROVE  Hears(c, d, x)'
  <1>1. Unmoved(c)
    BY DEF Unmoved, client, local
  <1>2. Queued(c) \in Seq(FrameType) /\ Queued(c)' \in Seq(FrameType)
    BY Queues, NextQueues DEF SlotInv
  <1>3. c = a => x = v
    BY DEF Goes
  <1>4. CASE serverEnd[c] = "open" /\ Queued(c)' = Append(Queued(c), frame)
    BY <1>1, <1>2, <1>4, HearsMore
  <1>5. CASE /\ c = a \/ serverEnd[c] # "open"
             /\ Queued(c)' = Queued(c) /\ serverEnd'[c] = serverEnd[c]
    BY <1>1, <1>3, <1>5, HearsSame
  <1>6. CASE serverEnd'[c] # "open" /\ \E rest \in Seq(FrameType) : Queued(c) = Queued(c)' \o rest
    BY <1>1, <1>2, <1>6, HearsLess
  <1>7. CASE Quiet(c)' /\ Queued(c)' = <<>>
    BY <1>7, HearsNothing
  <1>8. Got(c, a, frame)
    BY PassQueues
  <1> QED
    BY <1>4, <1>5, <1>6, <1>7, <1>8 DEF Got

\* A client whose connection has not changed still says what it said.
LEMMA SaysSame ==
    ASSUME NEW d, NEW v, Says(d, v), serverEnd'[d] # "closed" => serverEnd[d] # "closed",
           serverEnd'[d] # "closed" => toServer'[d] = toServer[d],
           out'[d] = out[d], cpc'[d] = "run" => cpc[d] = "run",
           outgoing'[d] = outgoing[d], count'[d] = count[d]
    PROVE  Says(d, v)'
  BY DEF Says, Unread

LEMMA PassSelf ==
    ASSUME TypeInv, TcpChatAssumption, SlotInv, SelfInv, TypeInv', OwnInv',
           NEW s \in Slots, Active(s), NEW a \in Clients, a = slot[s].client,
           NEW frame \in FrameType, frame.from = a,
           NEW own, NEW wires, Passes(s, frame, own, wires), Closes(wires),
           own = Free \/ (own.client = a /\ own.out = slot[s].out),
           UNCHANGED <<client, first, heard>>
    PROVE  SelfInv'
  <1>1. SUFFICES ASSUME NEW c \in Clients
                 PROVE  \A i \in 1 .. Len(Queued(c)') : (Queued(c)')[i].from # c
    BY DEF SelfInv, client, local
  <1>2. PICK old \in Seq(FrameType), new \in Seq(FrameType) : old = Queued(c) /\ new = Queued(c)'
    BY Queues, NextQueues DEF SlotInv
  <1>3. \A i \in 1 .. Len(old) : old[i].from # c
    BY <1>2 DEF SelfInv
  <1>4. CASE c # a /\ new = Append(old, frame)
    <2>1. PICK n \in Nat : n = Len(old)
      BY LenProperties
    <2>2. Len(new) = n + 1 /\ new[n + 1] = frame /\ \A i \in 1 .. n : new[i] = old[i]
      BY <1>4, <2>1, AppendProperties
    <2>3. \A i \in 1 .. n + 1 : i \in 1 .. n \/ i = n + 1
      BY <2>1
    <2>4. \A i \in 1 .. Len(new) : new[i].from # c
      BY <1>3, <1>4, <2>1, <2>2, <2>3
    <2> QED
      BY <1>2, <2>4
  <1>5. CASE \E rest \in Seq(FrameType) : old = new \o rest
    <2>1. PICK rest \in Seq(FrameType) : old = new \o rest
      BY <1>5
    <2>2. PICK n \in Nat, m \in Nat : n = Len(new) /\ m = Len(old) /\ n <= m
      BY <2>1, ConcatProperties, LenProperties
    <2>3. \A i \in 1 .. n : old[i] = new[i] /\ i \in 1 .. m
      BY <2>1, <2>2, ConcatProperties, LenProperties
    <2>4. \A i \in 1 .. Len(new) : new[i].from # c
      BY <1>3, <2>2, <2>3
    <2> QED
      BY <1>2, <2>4
  <1>6. CASE new = old \/ new = <<>>
    BY <1>2, <1>3, <1>6, EmptySeq
  <1>7. Got(c, a, frame)
    BY PassQueues
  <1> QED
    BY <1>2, <1>4, <1>5, <1>6, <1>7 DEF Got


LEMMA HeadFirst ==
    ASSUME NEW a \in Seq(FrameType), NEW b \in Seq(FrameType), a # <<>>
    PROVE  /\ a \o b \in Seq(FrameType) /\ a \o b # <<>>
           /\ Head(a \o b) = Head(a) /\ Head(a \o b) = (a \o b)[1] /\ 1 \in 1 .. Len(a \o b)
           /\ Tail(a \o b) = Tail(a) \o b
  <1>1. PICK n \in Nat, m \in Nat : Len(a) = n + 1 /\ Len(b) = m
    <2>1. Len(a) \in Nat \ {0} /\ Len(b) \in Nat
      BY EmptySeq, LenProperties
    <2> QED
      BY <2>1
  <1>2. PICK whole \in Seq(FrameType) : whole = a \o b
    BY ConcatProperties
  <1>3. Len(whole) = n + 1 + m /\ \A i \in 1 .. n + 1 + m : whole[i] = IF i <= n + 1 THEN a[i] ELSE b[i - (n + 1)]
    <2>1. /\ Len(a \o b) = Len(a) + Len(b)
          /\ \A i \in 1 .. Len(a) + Len(b) : (a \o b)[i] = IF i <= Len(a) THEN a[i] ELSE b[i - Len(a)]
      BY ConcatProperties
    <2> QED
      BY <1>1, <1>2, <2>1
  <1>4. whole # <<>> /\ Head(whole) = whole[1] /\ Head(a) = a[1] /\ whole[1] = a[1] /\ 1 \in 1 .. Len(whole)
    <2>1. whole # <<>> /\ 1 \in 1 .. n + 1 + m /\ 1 <= n + 1
      BY <1>1, <1>3, EmptySeq
    <2> QED
      BY <1>3, <2>1
  <1>5. PICK rest \in Seq(FrameType), tail \in Seq(FrameType) :
           /\ rest = Tail(a) /\ Len(rest) = n /\ \A i \in 1 .. n : rest[i] = a[i + 1]
           /\ tail = Tail(whole) /\ Len(tail) = n + m /\ \A i \in 1 .. n + m : tail[i] = whole[i + 1]
    <2>1. Tail(a) \in Seq(FrameType) /\ Len(Tail(a)) = n /\ \A i \in 1 .. n : Tail(a)[i] = a[i + 1]
      BY <1>1, HeadTailProperties
    <2>2. /\ Tail(whole) \in Seq(FrameType) /\ Len(Tail(whole)) = n + m
          /\ \A i \in 1 .. n + m : Tail(whole)[i] = whole[i + 1]
      BY <1>1, <1>3, <1>4, HeadTailProperties
    <2> QED
      BY <2>1, <2>2
  <1>6. PICK both \in Seq(FrameType) : both = rest \o b
    BY ConcatProperties
  <1>7. Len(both) = n + m /\ \A i \in 1 .. n + m : both[i] = IF i <= n THEN rest[i] ELSE b[i - n]
    <2>1. /\ Len(rest \o b) = Len(rest) + Len(b)
          /\ \A i \in 1 .. Len(rest) + Len(b) :
                (rest \o b)[i] = IF i <= Len(rest) THEN rest[i] ELSE b[i - Len(rest)]
      BY ConcatProperties
    <2> QED
      BY <1>1, <1>5, <1>6, <2>1
  <1>8. ASSUME NEW i \in 1 .. n + m PROVE tail[i] = both[i]
    <2>1. i + 1 \in 1 .. n + 1 + m /\ (i + 1) - (n + 1) = i - n
      BY <1>1
    <2>2. tail[i] = IF i + 1 <= n + 1 THEN a[i + 1] ELSE b[i - n]
      BY <1>3, <1>5, <2>1
    <2>3. CASE i <= n
      BY <1>1, <1>5, <1>7, <2>2, <2>3
    <2>4. CASE ~(i <= n)
      BY <1>1, <1>7, <2>2, <2>4
    <2> QED
      BY <2>3, <2>4
  <1>9. tail = both
    BY <1>5, <1>7, <1>8, SeqEqual
  <1> QED
    BY <1>2, <1>4, <1>5, <1>6, <1>9

LEMMA NotedAfter ==
    ASSUME NEW sl \in SlotType, NEW frame \in FrameType, NEW v \in View, NEW d, Expected(v, d, frame),
           v.transfer = sl.transfer, v.stage = IF sl.joined THEN "joined" ELSE "new",
           frame.type # "leave"
    PROVE  /\ Noted(sl, frame).joined /\ After(v, frame).stage = "joined"
           /\ After(v, frame).transfer = Noted(sl, frame).transfer
  <1>1. /\ sl = [client |-> sl.client, joined |-> sl.joined, transfer |-> sl.transfer, out |-> sl.out]
        /\ sl.joined \in BOOLEAN /\ sl.transfer \in TransferType
    BY DEF SlotType
  <1>2. frame.type \in {"join", "message", "begin", "chunk", "end"}
    BY DEF FrameType, Kinds
  <1>3. CASE frame.type = "join"
    BY <1>1, <1>3 DEF Noted, After
  <1>4. CASE frame.type \in {"message", "begin", "chunk", "end"}
    <2>1. sl.joined /\ After(v, frame).stage = v.stage
      BY <1>4 DEF Expected, After
    <2>2. CASE frame.type = "message"
      BY <2>1, <2>2 DEF Noted, After
    <2>3. CASE frame.type = "begin"
      BY <1>1, <2>1, <2>3 DEF Noted, After
    <2>4. CASE frame.type = "chunk"
      BY <1>1, <2>1, <2>4 DEF Noted, After
    <2>5. CASE frame.type = "end"
      BY <1>1, <2>1, <2>5 DEF Noted, After
    <2> QED
      BY <1>4, <2>2, <2>3, <2>4, <2>5
  <1> QED
    BY <1>2, <1>3, <1>4

\* The server stays where it is with everybody but the sender.
LEMMA PassStands ==
    ASSUME TypeInv, TcpChatAssumption, SlotInv,
           NEW s \in Slots, Active(s), NEW a \in Clients, a = slot[s].client,
           NEW frame, NEW own, NEW wires, Passes(s, frame, own, wires), Closes(wires),
           own.client = Nobody \/ own.client = a, dropped \subseteq dropped',
           NEW d \in Clients \ {a}, NEW v, Stands(d, v)
    PROVE  Stands(d, v)'
  <1>1. Free.client = Nobody /\ d # Nobody /\ OwnInv
    BY ConstantsTyped DEF SlotInv
  <1>2. serverEnd'[d] \in {"none", "queued"} => serverEnd'[d] = serverEnd[d]
    BY DEF Closes, Kept, Shut
  <1>3. ASSUME serverEnd'[d] = "closed" PROVE v.transfer.id = 0 \/ d \in dropped'
    <2>1. CASE Kept(d, wires)
      BY <1>3, <2>1 DEF Kept, Stands
    <2>2. CASE Shut(d)
      <3>1. PICK t \in Slots : slot[t].client = d
        BY <1>1, <2>2 DEF OwnInv, Shut
      <3>2. t # s /\ Active(t) /\ ~Kept(d, wires)
        BY <1>1, <2>2, <3>1 DEF Active, Shut, Kept
      <3> QED
        BY <3>1, <3>2 DEF Passes
    <2> QED
      BY <2>1, <2>2 DEF Closes
  <1>4. ASSUME NEW t \in Slots, slot'[t].client = d
        PROVE  v.transfer = slot'[t].transfer /\ v.stage = IF slot'[t].joined THEN "joined" ELSE "new"
    <2>1. t # s /\ slot'[t] # Free
      BY <1>1, <1>4 DEF Passes
    <2>2. /\ slot'[t].client = slot[t].client /\ slot'[t].transfer = slot[t].transfer
          /\ slot'[t].joined = slot[t].joined
      <3>1. slot[t] \in SlotType
        BY DEF TypeInv, SlotsTyped
      <3>2. slot'[t] = slot[t] \/ slot'[t] = [slot[t] EXCEPT !.out = Append(@, frame)]
        BY <2>1 DEF Passes, Told
      <3> QED
        BY <3>1, <3>2 DEF SlotType
    <2> QED
      BY <1>4, <2>2 DEF Stands
  <1>5. v \in View /\ (serverEnd'[d] \in {"none", "queued"} => v = Fresh)
    BY <1>2 DEF Stands
  <1> QED
    BY <1>3, <1>4, <1>5 DEF Stands

LEMMA PassSays ==
    ASSUME NEW a, NEW wires, Closes(wires), UNCHANGED client,
           NEW d \in Clients \ {a}, wires[d] = toServer[d], NEW v, Says(d, v)
    PROVE  Says(d, v)'
  <1>1. serverEnd'[d] # "closed" => Kept(d, wires)
    BY DEF Closes, Shut
  <1> QED
    BY <1>1, SaysSame DEF Kept, client, local

LEMMA PassFlow ==
    ASSUME TypeInv, TcpChatAssumption, SlotInv, FlowInv, TypeInv', OwnInv',
           NEW s \in Slots, Active(s), NEW a \in Clients, a = slot[s].client,
           NEW frame \in FrameType, NEW own, NEW wires, Passes(s, frame, own, wires), Closes(wires),
           own = Free \/ (own.client = a /\ own.out = slot[s].out), dropped \subseteq dropped',
           \A d \in Clients \ {a} : wires[d] = toServer[d],
           UNCHANGED <<client, first, heard>>,
           NEW v \in View, Expected(v, a, frame), \A c \in Clients \ {a} : Hears(c, a, v),
           Stands(a, After(v, frame))', Says(a, After(v, frame))'
    PROVE  FlowInv'
  <1>1. frame.from = a
    BY DEF Expected
  <1>2. PICK x \in View : x = After(v, frame)
    BY AfterTyped
  <1>3. own.client = Nobody \/ own.client = a
    BY ConstantsTyped
  <1>4. \A c \in Clients \ {a} : Hears(c, a, x)'
    <2>1. Goes(v, a, frame, x)
      BY <1>1, <1>2 DEF Goes
    <2>2. TAKE c \in Clients \ {a}
    <2>3. c \in Clients /\ c # a /\ Hears(c, a, v)
      OBVIOUS
    <2> QED
      BY <1>1, <2>1, <2>3, PassHears
  <1>5. ASSUME NEW d \in Clients \ {a}
        PROVE  \E y : /\ Stands(d, y)' /\ Says(d, y)'
                      /\ \A c \in Clients \ {d} : Hears(c, d, y)'
    <2>1. PICK y : Stands(d, y) /\ Says(d, y) /\ \A c \in Clients \ {d} : Hears(c, d, y)
      BY DEF FlowInv, SaidInv
    <2>2. Stands(d, y)'
      BY <1>3, <2>1, PassStands
    <2>3. Says(d, y)'
      BY <2>1, PassSays
    <2>4. y \in View /\ Goes(y, d, frame, y)
      BY <1>1, <2>1 DEF Stands, Goes
    <2>5. \A c \in Clients \ {d} : Hears(c, d, y)'
      <3>1. TAKE c \in Clients \ {d}
      <3>2. c \in Clients /\ c # d /\ Hears(c, d, y) /\ d \in Clients
        BY <2>1
      <3> QED
        BY <1>1, <2>4, <3>2, PassHears
    <2> QED
      BY <2>2, <2>3, <2>5
  <1>6. SaidInv'
    BY <1>2, <1>4, <1>5 DEF SaidInv
  <1>7. SelfInv'
    BY <1>1, PassSelf DEF FlowInv
  <1> QED
    BY <1>6, <1>7 DEF FlowInv


\* A client that loses its slot has none any more.
LEMMA PassFrees ==
    ASSUME TypeInv, TcpChatAssumption, OwnInv,
           NEW s \in Slots, Active(s), NEW a \in Clients, a = slot[s].client,
           NEW frame, NEW own, NEW wires, Passes(s, frame, own, wires),
           NEW t \in Slots, slot'[t].client = a
    PROVE  t = s /\ slot'[t] = own /\ own.client = a
  <1>1. Free.client = Nobody /\ a # Nobody
    BY ConstantsTyped
  <1>2. t # s => slot'[t] = Free \/ slot'[t].client = slot[t].client
    <2>1. SUFFICES ASSUME t # s, slot'[t] # Free PROVE slot'[t].client = slot[t].client
      OBVIOUS
    <2>2. slot'[t] = slot[t] \/ slot'[t] = [slot[t] EXCEPT !.out = Append(@, frame)]
      BY <2>1 DEF Passes, Told
    <2>3. slot[t] \in SlotType
      BY DEF TypeInv, SlotsTyped
    <2> QED
      BY <2>2, <2>3 DEF SlotType
  <1>3. t = s
    BY <1>1, <1>2 DEF OwnInv
  <1> QED
    BY <1>3 DEF Passes

LEMMA ReceiveFrameFlow ==
    ASSUME TypeInv, TcpChatAssumption, SlotInv, FlowInv, TypeInv', OwnInv',
           NEW e \in events \union {current}, ReceiveFrame(e)
    PROVE  FlowInv'
  <1>1. OwnInv
    BY DEF SlotInv
  <1>2. PICK s \in Slots, a \in Clients, frame \in FrameType, own \in SlotType :
              /\ a = slot[s].client /\ Active(s)
              /\ toServer[a] # <<>> /\ frame = Head(toServer[a]) /\ Acceptable(slot[s], frame)
              /\ own = IF frame.type = "leave" THEN Free ELSE Noted(slot[s], frame)
              /\ Passes(s, frame, own, [toServer EXCEPT ![a] = Tail(@)])
              /\ Closes([toServer EXCEPT ![a] = Tail(@)])
              /\ frame.type # "leave" => own.client = a /\ own.out = slot[s].out
              /\ dropped \subseteq dropped'
              /\ UNCHANGED <<backlog, stop, client, clientEnd, script, first, heard>>
    BY <1>1, ReceiveFramePasses
  <1>3. PICK wires : wires = [toServer EXCEPT ![a] = Tail(@)]
    OBVIOUS
  <1>4. wires[a] = Tail(toServer[a]) /\ \A d \in Clients \ {a} : wires[d] = toServer[d]
    BY <1>3 DEF TypeInv, SocketsTyped
  <1>5. Passes(s, frame, own, wires) /\ Closes(wires)
    BY <1>2, <1>3, Zenon
  <1>6. serverEnd[a] = "open"
    BY <1>1, <1>2, Zenon DEF OwnInv
  <1>7. PICK v : Stands(a, v) /\ Says(a, v) /\ \A c \in Clients \ {a} : Hears(c, a, v)
    BY DEF FlowInv, SaidInv
  <1>8. v \in View /\ v.transfer = slot[s].transfer /\ v.stage = IF slot[s].joined THEN "joined" ELSE "new"
    BY <1>2, <1>7 DEF Stands
  <1>9. PICK q \in Seq(FrameType), r \in Seq(FrameType) : q = toServer[a] /\ r = out[a] /\ q # <<>>
    BY <1>2 DEF TypeInv, SocketsTyped, ClientTyped
  <1>10. PICK whole \in Seq(FrameType) :
            /\ whole = q \o r /\ whole # <<>>
            /\ Head(whole) = frame /\ Head(whole) = whole[1] /\ 1 \in 1 .. Len(whole)
            /\ Tail(whole) = Tail(q) \o r
    <2>1. /\ q \o r \in Seq(FrameType) /\ q \o r # <<>>
          /\ Head(q \o r) = Head(q) /\ Head(q \o r) = (q \o r)[1] /\ 1 \in 1 .. Len(q \o r)
          /\ Tail(q \o r) = Tail(q) \o r
      <3>1. q # <<>> /\ q \in Seq(FrameType) /\ r \in Seq(FrameType)
        BY <1>9
      <3> QED
        BY <3>1, HeadFirst
    <2>2. Head(q) = frame
      BY <1>2, <1>9
    <2> QED
      BY <2>1, <2>2
  <1>11. PICK w : /\ \A i \in 1 .. Len(whole) : whole[i].from = a
                  /\ Leads(v, whole, a, w)
                  /\ cpc[a] = "run" => w = [stage |-> "joined", transfer |-> outgoing[a], n |-> count[a]]
    BY <1>6, <1>7, <1>9, <1>10 DEF Says, Unread
  <1>12. PICK x \in View : Goes(v, a, frame, x) /\ Leads(x, Tail(whole), a, w)
    <2>1. whole # <<>> /\ Leads(v, whole, a, w) /\ Head(whole) = frame
      BY <1>10, <1>11
    <2> QED
      BY <2>1, LeadsTail
  <1>13. frame.from = a
    BY <1>10, <1>11
  <1>14. Expected(v, a, frame) /\ x = After(v, frame)
    BY <1>12, <1>13 DEF Goes
  <1>15. own = Free \/ (own.client = a /\ own.out = slot[s].out)
    BY <1>2
  <1>16. UNCHANGED <<cpc, out, outgoing, count>>
    BY <1>2 DEF client, local
  <1>17. UNCHANGED <<client, first, heard>> /\ a = slot[s].client /\ Active(s) /\ dropped \subseteq dropped'
    BY <1>2
  <1>18. ASSUME NEW t \in Slots, slot'[t].client = a PROVE t = s /\ slot'[t] = own /\ own.client = a
    BY <1>1, <1>5, <1>17, <1>18, PassFrees
  <1>19. Says(a, x)'
    <2>1. SUFFICES ASSUME serverEnd'[a] # "closed"
                   PROVE  /\ \A i \in 1 .. Len(toServer'[a] \o out'[a]) : (toServer'[a] \o out'[a])[i].from = a
                          /\ \E y : /\ Leads(x, toServer'[a] \o out'[a], a, y)
                                    /\ cpc'[a] = "run" => y = [stage |-> "joined", transfer |-> outgoing'[a],
                                                               n |-> count'[a]]
      BY DEF Says, Unread
    <2>2. Kept(a, wires)
      BY <1>5, <2>1 DEF Closes, Shut
    <2>3. toServer'[a] \o out'[a] = Tail(whole)
      BY <1>4, <1>9, <1>10, <1>16, <2>2 DEF Kept
    <2>4. \A i \in 1 .. Len(Tail(whole)) : Tail(whole)[i].from = a
      <3>1. whole # <<>> /\ \A i \in 1 .. Len(whole) : whole[i].from = a
        BY <1>10, <1>11
      <3>2. /\ Tail(whole) \in Seq(FrameType) /\ Len(Tail(whole)) = Len(whole) - 1
            /\ \A i \in 1 .. Len(Tail(whole)) : Tail(whole)[i] = whole[i + 1]
        BY <3>1, HeadTailProperties
      <3>3. PICK tail \in Seq(FrameType) : tail = Tail(whole)
        BY <3>2
      <3>4. PICK n \in Nat, m \in Nat : n = Len(tail) /\ m = Len(whole)
        BY LenProperties
      <3>5. n = m - 1 /\ \A i \in 1 .. n : tail[i] = whole[i + 1]
        BY <3>2, <3>3, <3>4
      <3>6. \A i \in 1 .. n : tail[i].from = a
        BY <3>1, <3>4, <3>5
      <3> QED
        BY <3>3, <3>4, <3>6
    <2> QED
      BY <1>11, <1>12, <1>16, <2>3, <2>4
  <1>20. Stands(a, x)'
    <2>1. CASE frame.type = "leave"
      <3>1. own = Free /\ x.transfer.id = 0
        <4>1. own = Free
          BY <1>2, <2>1
        <4> QED
          BY <1>14, <2>1, <4>1 DEF After, NoTransfer
      <3>2. Shut(a) /\ \A t \in Slots : slot'[t].client # a
        BY <1>5, <1>17, <1>18, <3>1, ConstantsTyped DEF Passes
      <3> QED
        BY <3>1, <3>2 DEF Stands, Shut
    <2>2. CASE frame.type # "leave"
      <3>1. own = Noted(slot[s], frame) /\ own.client = a /\ slot[s] \in SlotType
        BY <1>2, <2>2 DEF TypeInv, SlotsTyped
      <3>2. own.joined /\ x.stage = "joined" /\ x.transfer = own.transfer
        BY <1>8, <1>14, <2>2, <3>1, NotedAfter
      <3>3. Kept(a, wires)
        BY <1>2, <1>5, <3>1, ConstantsTyped DEF Passes
      <3>4. serverEnd'[a] = "open"
        BY <1>6, <3>3 DEF Kept
      <3>5. \A t \in Slots : slot'[t].client = a => slot'[t] = own
        BY <1>18
      <3> QED
        BY <3>2, <3>4, <3>5 DEF Stands
    <2> QED
      BY <2>1, <2>2
  <1> QED
    BY <1>4, <1>5, <1>7, <1>8, <1>14, <1>15, <1>17, <1>19, <1>20, PassFlow

LEMMA GiveUpJoinedFlow ==
    ASSUME TypeInv, TcpChatAssumption, SlotInv, FlowInv, TypeInv', OwnInv',
           NEW s \in Slots, Active(s), NEW a \in Clients, a = slot[s].client, slot[s].joined,
           Passes(s, Leave(a), Free, toServer), Closes(toServer), dropped \subseteq dropped',
           UNCHANGED <<client, first, heard>>
    PROVE  FlowInv'
  <1>1. OwnInv
    BY DEF SlotInv
  <1>2. PICK v : Stands(a, v) /\ Says(a, v) /\ \A c \in Clients \ {a} : Hears(c, a, v)
    BY DEF FlowInv, SaidInv
  <1>3. v \in View /\ v.stage = "joined"
    BY <1>2 DEF Stands
  <1>4. PICK frame \in FrameType : frame = Leave(a)
    BY ConstantsTyped
  <1>5. /\ frame.type = "leave" /\ frame.from = a /\ frame.n = 0
    BY <1>4 DEF Leave, Frame
  <1>6. Expected(v, a, frame) /\ After(v, frame).transfer.id = 0 /\ After(v, frame) \in View
    BY <1>3, <1>5, AfterTyped DEF Expected, After, NoTransfer
  <1>7. Shut(a) /\ \A t \in Slots : slot'[t].client # a
    <2>1. Free.client = Nobody /\ a # Nobody
      BY ConstantsTyped
    <2>2. Shut(a)
      BY <2>1 DEF Passes
    <2>3. ASSUME NEW t \in Slots, slot'[t].client = a PROVE Free.client = a
      <3>1. PICK own : own = Free
        OBVIOUS
      <3>2. Passes(s, frame, own, toServer)
        BY <1>4, <3>1
      <3>3. own.client = a
        BY <1>1, <2>3, <3>2, PassFrees
      <3> QED
        BY <3>1, <3>3
    <2> QED
      BY <2>1, <2>2, <2>3
  <1>8. Stands(a, After(v, frame))'
    BY <1>6, <1>7 DEF Stands, Shut
  <1>9. Says(a, After(v, frame))'
    BY <1>7 DEF Says, Shut
  <1>10. Passes(s, frame, Free, toServer)
    BY <1>4
  <1> QED
    BY <1>2, <1>3, <1>6, <1>8, <1>9, <1>10, PassFlow


\* The slot of a client that has not joined is freed.
LEMMA VanishFlow ==
    ASSUME TypeInv, TcpChatAssumption, SlotInv, FlowInv, TypeInv', OwnInv',
           NEW s \in Slots, Active(s), NEW a \in Clients, a = slot[s].client, ~slot[s].joined,
           Vanishes(s, toServer), Closes(toServer), dropped \subseteq dropped',
           UNCHANGED <<client, first, heard>>
    PROVE  FlowInv'
  <1>1. OwnInv /\ Free.client = Nobody /\ a # Nobody /\ slot[s].transfer = NoTransfer
    BY ConstantsTyped DEF SlotInv, QuietInv
  <1>2. \A t \in Slots : slot'[t] = slot[t] \/ (t = s /\ slot'[t] = Free)
    BY DEF Vanishes
  <1>3. ASSUME NEW d \in Clients \ {a} PROVE Kept(d, toServer)
    <2>1. CASE Shut(d)
      <3>1. PICK t \in Slots : slot[t].client = d
        BY <1>1, <2>1 DEF OwnInv, Shut
      <3>2. t # s /\ Active(t)
        BY <1>1, <3>1, ConstantsTyped DEF Active
      <3> QED
        BY <3>1, <3>2 DEF Vanishes
    <2> QED
      BY <2>1 DEF Closes
  <1>4. Shut(a) /\ toClient'[a] \in {<<>>, toClient[a]}
    BY DEF Vanishes, Closes, Kept
  <1>5. ASSUME NEW c \in Clients
        PROVE  \/ Queued(c)' = Queued(c) /\ serverEnd'[c] = serverEnd[c]
               \/ serverEnd'[c] # "open" /\ \E rest \in Seq(FrameType) : Queued(c) = Queued(c)' \o rest
    <2>1. CASE c = a
      BY <1>1, <1>4, <2>1, ShutQueue
    <2>2. CASE c # a /\ serverEnd[c] # "open"
      <3>1. Kept(c, toServer)
        BY <1>3, <2>2
      <3>2. Queued(c) = toClient[c] /\ Queued(c)' = toClient'[c]
        BY <1>1, <2>2, <3>1, Queues, NextQueues DEF Kept
      <3> QED
        BY <3>1, <3>2 DEF Kept
    <2>3. CASE c # a /\ serverEnd[c] = "open"
      <3>1. Kept(c, toServer)
        BY <1>3, <2>3
      <3>2. PICK t \in Slots : slot[t].client = c
        BY <1>1, <2>3 DEF OwnInv
      <3>3. slot'[t] = slot[t] /\ Active(t)
        BY <1>2, <2>3, <3>2, ConstantsTyped DEF Active
      <3>4. Queued(c) = toClient[c] \o slot[t].out
        BY <1>1, <3>2, <3>3, Queues
      <3>5. Queued(c)' = toClient'[c] \o slot'[t].out
        BY <3>2, <3>3, NextQueues DEF Active
      <3> QED
        BY <3>1, <3>3, <3>4, <3>5 DEF Kept
    <2> QED
      BY <2>1, <2>2, <2>3
  <1>6. ASSUME NEW c \in Clients, NEW d \in Clients, NEW v, Hears(c, d, v) PROVE Hears(c, d, v)'
    <2>1. Unmoved(c) /\ Queued(c)' \in Seq(FrameType)
      BY NextQueues DEF Unmoved, client, local
    <2> QED
      BY <1>5, <1>6, <2>1, HearsSame, HearsLess
  <1>7. ASSUME NEW d \in Clients, NEW v, Says(d, v) PROVE Says(d, v)'
    <2>1. serverEnd'[d] # "closed" => Kept(d, toServer)
      BY DEF Closes, Shut
    <2> QED
      BY <1>7, <2>1, SaysSame DEF Kept, client, local
  <1>8. ASSUME NEW d \in Clients, NEW v, Stands(d, v) PROVE Stands(d, v)'
    <2>1. \A t \in Slots : slot'[t].client = d => slot'[t] = slot[t]
      BY <1>1, <1>2, ConstantsTyped
    <2>2. CASE d = a
      <3>1. v.transfer.id = 0 /\ v \in View
        BY <1>1, <1>8, <2>2 DEF Stands, NoTransfer
      <3> QED
        BY <1>4, <1>8, <2>1, <2>2, <3>1 DEF Stands, Shut
    <2>3. CASE d # a
      BY <1>3, <1>8, <2>1, <2>3 DEF Stands, Kept
    <2> QED
      BY <2>2, <2>3
  <1>9. SaidInv'
    <2>1. ASSUME NEW d \in Clients
          PROVE  \E v : /\ Stands(d, v)' /\ Says(d, v)'
                        /\ \A c \in Clients \ {d} : Hears(c, d, v)'
      <3>1. PICK v : Stands(d, v) /\ Says(d, v) /\ \A c \in Clients \ {d} : Hears(c, d, v)
        BY DEF FlowInv, SaidInv
      <3> QED
        BY <1>6, <1>7, <1>8, <3>1
    <2> QED
      BY <2>1 DEF SaidInv
  <1>10. SelfInv'
    <2>1. SUFFICES ASSUME NEW c \in Clients PROVE \A i \in 1 .. Len(Queued(c)') : (Queued(c)')[i].from # c
      BY DEF SelfInv, client, local, FlowInv
    <2>2. PICK old \in Seq(FrameType), new \in Seq(FrameType) : old = Queued(c) /\ new = Queued(c)'
      BY <1>1, Queues, NextQueues
    <2>3. \A i \in 1 .. Len(old) : old[i].from # c
      BY <2>2 DEF SelfInv, FlowInv
    <2>4. CASE \E rest \in Seq(FrameType) : old = new \o rest
      <3>1. PICK rest \in Seq(FrameType) : old = new \o rest
        BY <2>4
      <3>2. PICK n \in Nat, m \in Nat : n = Len(new) /\ m = Len(old) /\ n <= m
        BY <3>1, ConcatProperties, LenProperties
      <3>3. \A i \in 1 .. n : old[i] = new[i] /\ i \in 1 .. m
        BY <3>1, <3>2, ConcatProperties, LenProperties
      <3>4. \A i \in 1 .. Len(new) : new[i].from # c
        BY <2>3, <3>2, <3>3
      <3> QED
        BY <2>2, <3>4
    <2> QED
      BY <1>5, <2>2, <2>3, <2>4
  <1> QED
    BY <1>9, <1>10 DEF FlowInv

LEMMA GiveUpFlow ==
    ASSUME TypeInv, TcpChatAssumption, SlotInv, FlowInv, TypeInv', OwnInv',
           NEW e \in events \union {current}, GiveUp(e)
    PROVE  FlowInv'
  <1>1. OwnInv
    BY DEF SlotInv
  <1>2. PICK s \in Slots, c \in Clients :
              /\ c = slot[s].client /\ Active(s)
              /\ slot[s].joined => Passes(s, Leave(c), Free, toServer)
              /\ ~slot[s].joined => Vanishes(s, toServer)
              /\ Closes(toServer) /\ dropped \subseteq dropped'
              /\ UNCHANGED <<backlog, stop, client, clientEnd, script, first, heard>>
    BY <1>1, GiveUpPasses
  <1>3. UNCHANGED <<client, first, heard>>
    BY <1>2
  <1>4. CASE slot[s].joined
    BY <1>2, <1>3, <1>4, GiveUpJoinedFlow
  <1>5. CASE ~slot[s].joined
    BY <1>2, <1>3, <1>5, VanishFlow
  <1> QED
    BY <1>4, <1>5


-----------------------------------------------------------------------------
(* What a client says.                                                     *)

\* All in a queue is said by d, and it goes from one view to another one.
Speech(v, queue, d, w) ==
    Leads(v, queue, d, w) /\ \A i \in 1 .. Len(queue) : queue[i].from = d

LEMMA SpeechOn ==
    ASSUME NEW v, NEW w, NEW d, NEW queue \in Seq(FrameType), NEW frame \in FrameType,
           Speech(v, queue, d, w), Expected(w, d, frame)
    PROVE  Speech(v, Append(queue, frame), d, After(w, frame))
  <1>1. frame.from = d
    BY DEF Expected
  <1>2. Leads(v, Append(queue, frame), d, After(w, frame))
    BY <1>1, LeadsOn DEF Speech, Goes
  <1>3. PICK longer : longer = Append(queue, frame)
    OBVIOUS
  <1>4. PICK n \in Nat : n = Len(queue)
    BY LenProperties
  <1>5. Len(longer) = n + 1 /\ longer[n + 1] = frame /\ \A i \in 1 .. n : longer[i] = queue[i]
    BY <1>3, <1>4, AppendProperties
  <1>6. \A i \in 1 .. n : queue[i].from = d
    BY <1>4 DEF Speech
  <1>7. \A i \in 1 .. n + 1 : i \in 1 .. n \/ i = n + 1
    BY <1>4
  <1>8. \A i \in 1 .. Len(longer) : longer[i].from = d
    BY <1>1, <1>5, <1>6, <1>7
  <1> QED
    BY <1>2, <1>3, <1>8 DEF Speech

LEMMA SpeechPart ==
    ASSUME NEW v, NEW w, NEW d, NEW queue \in Seq(FrameType), NEW rest \in Seq(FrameType),
           Speech(v, queue \o rest, d, w)
    PROVE  \E x : Speech(v, queue, d, x)
  <1>1. PICK x : Leads(v, queue, d, x)
    BY LeadsPart DEF Speech
  <1>2. PICK whole : whole = queue \o rest
    OBVIOUS
  <1>3. PICK n \in Nat, m \in Nat : n = Len(queue) /\ m = Len(whole) /\ n <= m
    BY <1>2, ConcatProperties, LenProperties
  <1>4. \A i \in 1 .. n : whole[i] = queue[i] /\ i \in 1 .. m
    BY <1>2, <1>3, ConcatProperties, LenProperties
  <1>5. \A i \in 1 .. Len(queue) : queue[i].from = d
    BY <1>2, <1>3, <1>4 DEF Speech
  <1> QED
    BY <1>1, <1>5 DEF Speech

LEMMA SpeechNowhere ==
    ASSUME NEW v \in View, NEW d
    PROVE  Speech(v, <<>>, d, v)
  BY LeadsNowhere, EmptySeq DEF Speech

\* Where a client is that runs.
Own(file, n) == [stage |-> "joined", transfer |-> file, n |-> n]

LEMMA SaysSpeech ==
    ASSUME TypeInv, NEW c \in Clients, NEW v
    PROVE  Says(c, v) <=>
              (serverEnd[c] # "closed" =>
                 \E w : /\ Speech(v, toServer[c] \o out[c], c, w)
                        /\ cpc[c] = "run" => w = Own(outgoing[c], count[c]))
  BY DEF Says, Unread, Speech, Own

LEMMA NextSpeech ==
    ASSUME NEW c \in Clients, NEW v,
           serverEnd'[c] # "closed" =>
              \E w : /\ Speech(v, toServer'[c] \o out'[c], c, w)
                     /\ cpc'[c] = "run" => w = Own(outgoing'[c], count'[c])
    PROVE  Says(c, v)'
  BY DEF Says, Unread, Speech, Own

\* A frame of the file.
LEMMA PumpSpeech ==
    ASSUME TypeInv, TcpChatAssumption, NEW c \in Clients, cpc[c] = "run", serverEnd[c] # "closed",
           NEW v, Says(c, v)
    PROVE  /\ Speech(v, toServer[c] \o PumpedOut(c), c, Own(PumpedFile(c), PumpedCount(c)))
           /\ Own(PumpedFile(c), PumpedCount(c)) \in View
  <1>1. PICK w : Speech(v, toServer[c] \o out[c], c, w) /\ w = Own(outgoing[c], count[c])
    BY SaysSpeech
  <1>2. PICK q \in Seq(FrameType), r \in Seq(FrameType) : q = toServer[c] /\ r = out[c]
    BY DEF TypeInv, SocketsTyped, ClientTyped
  <1>3. q \o r \in Seq(FrameType)
    BY ConcatProperties
  <1>4. w \in View
    BY <1>1, <1>2, <1>3, LeadsTyped DEF Speech
  <1>5. outgoing[c] \in TransferType /\ count[c] \in Nat
    BY DEF TypeInv, ClientTyped
  <1>6. w.stage = "joined" /\ w.transfer = outgoing[c] /\ w.n = count[c]
    BY <1>1 DEF Own
  <1>7. CASE ~CanPump(c)
    BY <1>1, <1>4, <1>7 DEF PumpedOut, PumpedFile, PumpedCount
  <1>8. CASE CanPump(c)
    <2>1. PICK frame \in FrameType : frame = Pumped(c)
      BY <1>8, Pumping
    <2>2. PumpedOut(c) = Append(r, frame)
      BY <1>2, <1>8, <2>1 DEF PumpedOut
    <2>3. q \o Append(r, frame) = Append(q \o r, frame)
      BY AppendLast
    <2>4. /\ frame.from = c /\ frame.n = count[c] + 1 /\ frame.id = outgoing[c].id /\ frame.id # 0
          /\ frame.type = IF Unsent(c) THEN "chunk" ELSE "end"
      BY <1>8, <2>1 DEF Pumped, Frame, CanPump
    <2>5. /\ outgoing[c].done <= outgoing[c].size
          /\ outgoing[c].done \in Nat /\ outgoing[c].size \in Nat
      BY <1>4, <1>5, <1>6 DEF View, TransferType
    <2>6. Expected(w, c, frame)
      BY <1>6, <2>4, <2>5 DEF Expected, Unsent
    <2>7. After(w, frame) = Own(PumpedFile(c), PumpedCount(c))
      <3>1. PumpedCount(c) = frame.n
        BY <1>8, <2>4 DEF PumpedCount
      <3>2. CASE Unsent(c)
        <4>1. PumpedFile(c) = [outgoing[c] EXCEPT !.done = @ + 1] /\ frame.type = "chunk"
          BY <1>8, <2>4, <3>2 DEF PumpedFile
        <4> QED
          BY <1>6, <3>1, <4>1 DEF After, Own
      <3>3. CASE ~Unsent(c)
        <4>1. PumpedFile(c) = NoTransfer /\ frame.type = "end"
          BY <1>8, <2>4, <3>3 DEF PumpedFile
        <4> QED
          BY <1>6, <3>1, <4>1 DEF After, Own
      <3> QED
        BY <3>2, <3>3
    <2>8. Speech(v, Append(q \o r, frame), c, After(w, frame))
      BY <1>1, <1>2, <1>3, <2>6, SpeechOn
    <2>9. After(w, frame) \in View
      BY <1>4, <2>6, AfterTyped
    <2> QED
      BY <1>2, <2>2, <2>3, <2>7, <2>8, <2>9
  <1> QED
    BY <1>7, <1>8

LEMMA FlushingKeeps ==
    ASSUME TcpChatAssumption, NEW queue \in Seq(FrameType), NEW wire \in Seq(FrameType),
           Len(wire) <= Wire
    PROVE  Sent(queue, wire) \o Rest(queue, wire) = wire \o queue
  BY Flushing, Zenon

\* What is sent is not said anew.
LEMMA FlushSpeech ==
    ASSUME TypeInv, TcpChatAssumption, NEW c \in Clients, serverEnd[c] # "closed", FlushOut(c)
    PROVE  toServer'[c] \o Flushed(c) = toServer[c] \o PumpedOut(c)
  <1>1. PICK q \in Seq(FrameType), r \in Seq(FrameType) : q = PumpedOut(c) /\ r = toServer[c] /\ Len(r) <= Wire
    BY Pumping DEF TypeInv, SocketsTyped
  <1>2. toServer'[c] = Sent(q, r) /\ Flushed(c) = Rest(q, r)
    BY <1>1 DEF FlushOut, Flushed, Closed, TypeInv, SocketsTyped
  <1>3. Sent(q, r) \o Rest(q, r) = r \o q
    BY ZenonT(40), <1>1, FlushingKeeps
  <1> QED
    BY <1>1, <1>2, <1>3


\* A step of client c that leaves the server alone.
LEMMA ClientFlow ==
    ASSUME FlowInv, NEW c \in Clients, UNCHANGED <<slot, serverEnd, dropped>>,
           \A b \in Clients \ {c} :
              /\ cpc'[b] = cpc[b] /\ out'[b] = out[b] /\ outgoing'[b] = outgoing[b] /\ count'[b] = count[b]
              /\ toServer'[b] = toServer[b] /\ toClient'[b] = toClient[b] /\ incoming'[b] = incoming[b]
              /\ first'[b] = first[b] /\ heard'[b] = heard[b],
           \A v : Stands(c, v) /\ Says(c, v) => Says(c, v)',
           \A d \in Clients \ {c} : \A v : Hears(c, d, v) => Hears(c, d, v)',
           \A i \in 1 .. Len(Queued(c)') : (Queued(c)')[i].from # c,
           \A f \in incoming'[c] : f.from # c
    PROVE  FlowInv'
  <1>1. \A d \in Clients : \A v : Stands(d, v) => Stands(d, v)'
    BY DEF Stands
  <1>2. \A b \in Clients \ {c} : Queued(b)' = Queued(b) /\ Unmoved(b)
    <2>1. TAKE b \in Clients \ {c}
    <2>2. toClient'[b] = toClient[b] /\ slot' = slot
      OBVIOUS
    <2>3. Queued(b)' = Queued(b)
      BY <2>2 DEF Queued
    <2> QED
      BY <2>3 DEF Unmoved
  <1>3. ASSUME NEW b \in Clients \ {c}, NEW d \in Clients, NEW v, Hears(b, d, v) PROVE Hears(b, d, v)'
    BY <1>2, <1>3, HearsSame
  <1>4. ASSUME NEW d \in Clients \ {c}, NEW v, Says(d, v) PROVE Says(d, v)'
    BY <1>4, SaysSame
  <1>5. ASSUME NEW d \in Clients
        PROVE  \E v : /\ Stands(d, v)' /\ Says(d, v)'
                      /\ \A b \in Clients \ {d} : Hears(b, d, v)'
    <2>1. PICK v : Stands(d, v) /\ Says(d, v) /\ \A b \in Clients \ {d} : Hears(b, d, v)
      BY DEF FlowInv, SaidInv
    <2>2. Stands(d, v)'
      BY <1>1, <2>1
    <2>3. Says(d, v)'
      BY <1>4, <2>1
    <2>4. \A b \in Clients \ {d} : Hears(b, d, v)'
      BY <1>3, <2>1
    <2> QED
      BY <2>2, <2>3, <2>4
  <1>6. SelfInv'
    <2>1. ASSUME NEW b \in Clients \ {c}
          PROVE  (\A i \in 1 .. Len(Queued(b)') : (Queued(b)')[i].from # b) /\ \A f \in incoming'[b] : f.from # b
      <3>1. Queued(b)' = Queued(b) /\ incoming'[b] = incoming[b]
        BY <1>2
      <3> QED
        BY <3>1 DEF FlowInv, SelfInv
    <2> QED
      BY <2>1 DEF SelfInv
  <1> QED
    BY <1>5, <1>6 DEF FlowInv, SaidInv

\* A step in which the client receives nothing either.
LEMMA SenderFlow ==
    ASSUME FlowInv, NEW c \in Clients, cpc'[c] = "run" => cpc[c] = "run",
           UNCHANGED <<slot, serverEnd, toClient, incoming, history>>,
           \A b \in Clients \ {c} :
              /\ cpc'[b] = cpc[b] /\ out'[b] = out[b] /\ outgoing'[b] = outgoing[b] /\ count'[b] = count[b]
              /\ toServer'[b] = toServer[b],
           \A v : Stands(c, v) /\ Says(c, v) => Says(c, v)'
    PROVE  FlowInv'
  <1>1. Queued(c)' = Queued(c) /\ Unmoved(c)
    BY DEF Queued, Unmoved, history
  <1>2. \A d \in Clients \ {c} : \A v : Hears(c, d, v) => Hears(c, d, v)'
    BY <1>1, HearsSame
  <1>3. (\A i \in 1 .. Len(Queued(c)') : (Queued(c)')[i].from # c) /\ \A f \in incoming'[c] : f.from # c
    BY <1>1 DEF FlowInv, SelfInv
  <1> QED
    BY <1>2, <1>3, ClientFlow DEF history

LEMMA RoundFlow ==
    ASSUME TypeInv, TcpChatAssumption, FlowInv, NEW c \in Clients, Round(c)
    PROVE  FlowInv'
  <1>1. /\ cpc[c] = "run" /\ FlushOut(c) /\ out' = [out EXCEPT ![c] = Flushed(c)]
        /\ outgoing' = [outgoing EXCEPT ![c] = PumpedFile(c)]
        /\ count' = [count EXCEPT ![c] = PumpedCount(c)]
        /\ UNCHANGED <<slot, cpc, serverEnd, toClient, incoming, history>>
    BY DEF Round, server, history
  <1>2. \A b \in Clients \ {c} : /\ out'[b] = out[b] /\ outgoing'[b] = outgoing[b]
                                 /\ count'[b] = count[b] /\ toServer'[b] = toServer[b]
    BY <1>1, FlushKeeps DEF TypeInv, ClientTyped
  <1>3. out'[c] = Flushed(c) /\ outgoing'[c] = PumpedFile(c) /\ count'[c] = PumpedCount(c)
    BY <1>1 DEF TypeInv, ClientTyped
  <1>4. ASSUME NEW v, Says(c, v) PROVE Says(c, v)'
    <2>1. SUFFICES ASSUME serverEnd'[c] # "closed"
                   PROVE  \E w : /\ Speech(v, toServer'[c] \o out'[c], c, w)
                                 /\ cpc'[c] = "run" => w = Own(outgoing'[c], count'[c])
      BY NextSpeech
    <2>2. Speech(v, toServer[c] \o PumpedOut(c), c, Own(PumpedFile(c), PumpedCount(c)))
      BY <1>1, <1>4, <2>1, PumpSpeech
    <2>3. toServer'[c] \o out'[c] = toServer[c] \o PumpedOut(c)
      BY <1>1, <1>3, <2>1, FlushSpeech
    <2> QED
      BY <1>3, <2>2, <2>3
  <1> QED
    BY <1>1, <1>2, <1>4, SenderFlow

\* The last frame that a client queues.
LEMMA QuitFlow ==
    ASSUME TypeInv, TcpChatAssumption, NEW c \in Clients, NEW queue \in Seq(FrameType),
           Len(queue) <= ClientOut, Quit(c, queue), NEW v,
           NEW wire \in Seq(FrameType), NEW w \in View, w.stage = "joined",
           Speech(v, wire \o queue, c, w)
    PROVE  /\ cpc'[c] # "run"
           /\ \E x : Speech(v, wire \o out'[c], c, x)
  <1>1. PICK last \in Seq(FrameType) :
              /\ out' = [out EXCEPT ![c] = last] /\ Len(last) <= ClientOut
              /\ \/ cpc' = [cpc EXCEPT ![c] = "close"] /\ last = queue
                 \/ cpc' = [cpc EXCEPT ![c] = "drain"] /\ last = Append(queue, Leave(c))
    BY QuitEffect
  <1>2. out'[c] = last /\ cpc'[c] # "run"
    BY <1>1 DEF TypeInv, ClientTyped
  <1>3. CASE last = queue
    BY <1>2, <1>3
  <1>4. CASE last = Append(queue, Leave(c))
    <2>1. PICK frame \in FrameType : frame = Leave(c)
      BY ConstantsTyped
    <2>2. frame.type = "leave" /\ frame.from = c /\ frame.n = 0
      BY <2>1 DEF Leave, Frame
    <2>3. Expected(w, c, frame)
      BY <2>2 DEF Expected
    <2>4. wire \o Append(queue, frame) = Append(wire \o queue, frame) /\ wire \o queue \in Seq(FrameType)
      BY AppendLast, ConcatProperties
    <2>5. Speech(v, Append(wire \o queue, frame), c, After(w, frame))
      BY <2>3, <2>4, SpeechOn
    <2> QED
      BY <1>2, <1>4, <2>1, <2>4, <2>5
  <1> QED
    BY <1>1, <1>2, <1>3, <1>4

LEMMA QuittingFlow ==
    ASSUME TypeInv, TcpChatAssumption, FlowInv, NEW c \in Clients, ServerGone(c) \/ ReadFails(c)
    PROVE  FlowInv'
  <1>1. /\ cpc[c] = "run" /\ Quit(c, out[c])
        /\ UNCHANGED <<slot, incoming, count, serverEnd, toServer, toClient, history>>
        /\ outgoing' = outgoing \/ outgoing' = [outgoing EXCEPT ![c] = NoTransfer]
    BY DEF ServerGone, ReadFails, server, sockets
  <1>2. out[c] \in Seq(FrameType) /\ Len(out[c]) <= ClientOut
    BY DEF TypeInv, ClientTyped
  <1>3. /\ \A b \in Clients \ {c} : cpc'[b] = cpc[b] /\ out'[b] = out[b]
        /\ \A b \in Clients \ {c} : outgoing'[b] = outgoing[b]
    BY <1>1, <1>2, QuitKeeps DEF TypeInv, ClientTyped
  <1>4. ASSUME NEW v, Says(c, v) PROVE Says(c, v)'
    <2>1. SUFFICES ASSUME serverEnd[c] # "closed"
                   PROVE  \E w : /\ Speech(v, toServer[c] \o out'[c], c, w)
                                 /\ cpc'[c] = "run" => w = Own(outgoing'[c], count'[c])
      BY <1>1, NextSpeech
    <2>2. PICK w : Speech(v, toServer[c] \o out[c], c, w) /\ w = Own(outgoing[c], count[c])
      BY <1>1, <1>4, <2>1, SaysSpeech
    <2>3. PICK q \in Seq(FrameType), r \in Seq(FrameType) : q = toServer[c] /\ r = out[c]
      BY DEF TypeInv, SocketsTyped, ClientTyped
    <2>4. q \o r \in Seq(FrameType)
      BY ConcatProperties
    <2>5. w \in View /\ w.stage = "joined"
      BY <2>2, <2>3, <2>4, LeadsTyped DEF Speech, Own
    <2>6. cpc'[c] # "run" /\ \E x : Speech(v, q \o out'[c], c, x)
      BY <1>1, <1>2, <2>2, <2>3, <2>5, QuitFlow
    <2> QED
      BY <2>3, <2>6
  <1> QED
    BY <1>1, <1>3, <1>4, SenderFlow


\* A round with a line, and what it leaves the client to say.
LEMMA TypeFlow ==
    ASSUME TypeInv, TcpChatAssumption, FlowInv, NEW c \in Clients,
           NEW line \in {"message", "file", "empty", "exit"}, Type(c, line)
    PROVE  FlowInv'
  <1>1. /\ cpc[c] = "run" /\ FlushOut(c)
        /\ UNCHANGED <<server, incoming, serverEnd, clientEnd, toClient, first, heard, dropped>>
    BY TypeEffect
  <1>2. Flushed(c) \in Seq(FrameType) /\ Len(Flushed(c)) <= ClientOut
    BY FlushTyped
  <1>3. PICK queue \in Seq(FrameType) : queue = Flushed(c) /\ Len(queue) <= ClientOut
    BY <1>2
  <1>4. PICK file \in TransferType, n \in Nat : file = PumpedFile(c) /\ n = PumpedCount(c)
    BY Pumping
  <1>5. /\ (cpc' = cpc /\ \E x : out' = [out EXCEPT ![c] = x]) \/ Quit(c, Flushed(c))
        /\ \E x : outgoing' = [outgoing EXCEPT ![c] = x]
        /\ \E x : count' = [count EXCEPT ![c] = x]
    <2>1. (cpc' = cpc /\ \E x : out' = [out EXCEPT ![c] = x]) \/ Quit(c, Flushed(c))
      BY DEF Type
    <2>2. \E x : outgoing' = [outgoing EXCEPT ![c] = x]
      BY DEF Type
    <2>3. \E x : count' = [count EXCEPT ![c] = x]
      BY DEF Type
    <2> QED
      BY <2>1, <2>2, <2>3
  <1>6. \A b \in Clients \ {c} : cpc'[b] = cpc[b] /\ out'[b] = out[b]
    BY <1>2, <1>5, QuitKeeps DEF TypeInv, ClientTyped
  <1>7. \A b \in Clients \ {c} : outgoing'[b] = outgoing[b] /\ count'[b] = count[b]
    BY <1>5 DEF TypeInv, ClientTyped
  <1>8. \A b \in Clients \ {c} : toServer'[b] = toServer[b]
    BY <1>1, FlushKeeps
  <1>9. \/ /\ out'[c] = queue /\ outgoing'[c] = file /\ count'[c] = n
        \/ Quit(c, queue)
        \/ \E frame \in FrameType :
              /\ out'[c] = Append(queue, frame) /\ frame.from = c /\ frame.n = n + 1 /\ count'[c] = n + 1
              /\ \/ frame.type = "message" /\ outgoing'[c] = file
                 \/ /\ frame.type = "begin" /\ file.id = 0 /\ frame.id = n + 1
                    /\ outgoing'[c] = [id |-> n + 1, size |-> frame.size, done |-> 0]
    <2>1. CASE /\ out' = [out EXCEPT ![c] = queue]
               /\ count' = [count EXCEPT ![c] = n]
               /\ outgoing' = [outgoing EXCEPT ![c] = file]
      BY <2>1 DEF TypeInv, ClientTyped
    <2>2. CASE /\ out' = [out EXCEPT ![c] = Append(queue, Frame(c, "message", 0, 0, n + 1))]
               /\ count' = [count EXCEPT ![c] = n + 1]
               /\ outgoing' = [outgoing EXCEPT ![c] = file]
      <3>1. PICK frame \in FrameType : frame = Frame(c, "message", 0, 0, n + 1)
        <4>1. n + 1 \in Nat /\ "message" \in Kinds
          BY DEF Kinds
        <4>2. Frame(c, "message", 0, 0, n + 1) \in FrameType
          BY <4>1 DEF Frame, FrameType
        <4> QED
          BY <4>2
      <3>2. frame.from = c /\ frame.n = n + 1 /\ frame.type = "message"
        BY <3>1 DEF Frame
      <3>3. out'[c] = Append(queue, frame) /\ count'[c] = n + 1 /\ outgoing'[c] = file
        BY <2>2, <3>1 DEF TypeInv, ClientTyped
      <3> QED
        BY <3>2, <3>3
    <2>3. ASSUME NEW size \in {0, Size}, file.id = 0,
                 out' = [out EXCEPT ![c] = Append(queue, Frame(c, "begin", n + 1, size, n + 1))],
                 outgoing' = [outgoing EXCEPT ![c] = [id |-> n + 1, size |-> size, done |-> 0]],
                 count' = [count EXCEPT ![c] = n + 1]
          PROVE  \E frame \in FrameType :
                    /\ out'[c] = Append(queue, frame) /\ frame.from = c /\ frame.n = n + 1 /\ count'[c] = n + 1
                    /\ frame.type = "begin" /\ file.id = 0 /\ frame.id = n + 1
                    /\ outgoing'[c] = [id |-> n + 1, size |-> frame.size, done |-> 0]
      <3>1. PICK frame \in FrameType : frame = Frame(c, "begin", n + 1, size, n + 1)
        <4>1. n + 1 \in Nat /\ "begin" \in Kinds /\ size \in Nat
          BY TcpChatAssumption DEF Kinds, TcpChatAssumption
        <4>2. Frame(c, "begin", n + 1, size, n + 1) \in FrameType
          BY <4>1 DEF Frame, FrameType
        <4> QED
          BY <4>2
      <3>2. frame.from = c /\ frame.n = n + 1 /\ frame.type = "begin" /\ frame.id = n + 1 /\ frame.size = size
        BY <3>1 DEF Frame
      <3>3. /\ out'[c] = Append(queue, frame) /\ count'[c] = n + 1
            /\ outgoing'[c] = [id |-> n + 1, size |-> size, done |-> 0]
        BY <2>3, <3>1 DEF TypeInv, ClientTyped
      <3> QED
        BY <2>3, <3>2, <3>3
    <2>4. \/ /\ out' = [out EXCEPT ![c] = queue]
             /\ count' = [count EXCEPT ![c] = n]
             /\ outgoing' = [outgoing EXCEPT ![c] = file]
          \/ Quit(c, queue)
          \/ /\ out' = [out EXCEPT ![c] = Append(queue, Frame(c, "message", 0, 0, n + 1))]
             /\ count' = [count EXCEPT ![c] = n + 1]
             /\ outgoing' = [outgoing EXCEPT ![c] = file]
          \/ /\ file.id = 0
             /\ \E size \in {0, Size} :
                   /\ out' = [out EXCEPT ![c] = Append(queue, Frame(c, "begin", n + 1, size, n + 1))]
                   /\ outgoing' = [outgoing EXCEPT ![c] = [id |-> n + 1, size |-> size, done |-> 0]]
             /\ count' = [count EXCEPT ![c] = n + 1]
      BY SMTT(30), <1>3, <1>4, TypeEffect
    <2> QED
      BY <2>1, <2>2, <2>3, <2>4
  <1>10. cpc' = cpc \/ Quit(c, queue)
    BY <1>3, <1>5
  <1>11. ASSUME NEW v, Says(c, v), serverEnd[c] # "closed"
         PROVE  \E w : /\ Speech(v, toServer'[c] \o out'[c], c, w)
                       /\ cpc'[c] = "run" => w = Own(outgoing'[c], count'[c])
    <2>1. Speech(v, toServer[c] \o PumpedOut(c), c, Own(file, n)) /\ Own(file, n) \in View
      BY <1>1, <1>4, <1>11, PumpSpeech
    <2>2. PICK q \in Seq(FrameType) : q = toServer'[c]
      BY <1>1, FlushTyped
    <2>3. q \o queue = toServer[c] \o PumpedOut(c)
      BY <1>1, <1>3, <1>11, <2>2, FlushSpeech
    <2>4. PICK w \in View : Speech(v, q \o queue, c, w) /\ w = Own(file, n)
      BY <2>1, <2>3
    <2>5. w.stage = "joined" /\ w.transfer = file /\ w.n = n
      BY <2>4 DEF Own
    <2>6. CASE Quit(c, queue)
      <3>1. cpc'[c] # "run" /\ \E x : Speech(v, q \o out'[c], c, x)
        BY <1>3, <2>4, <2>5, <2>6, QuitFlow
      <3> QED
        BY <2>2, <3>1
    <2>7. CASE out'[c] = queue /\ outgoing'[c] = file /\ count'[c] = n
      BY <2>2, <2>4, <2>7
    <2>8. ASSUME NEW frame \in FrameType,
                 out'[c] = Append(queue, frame), frame.from = c, frame.n = n + 1, count'[c] = n + 1,
                 \/ frame.type = "message" /\ outgoing'[c] = file
                 \/ /\ frame.type = "begin" /\ file.id = 0 /\ frame.id = n + 1
                    /\ outgoing'[c] = [id |-> n + 1, size |-> frame.size, done |-> 0]
          PROVE  \E x : /\ Speech(v, toServer'[c] \o out'[c], c, x)
                        /\ cpc'[c] = "run" => x = Own(outgoing'[c], count'[c])
      <3>1. q \o Append(queue, frame) = Append(q \o queue, frame) /\ q \o queue \in Seq(FrameType)
        BY AppendLast, ConcatProperties
      <3>2. Expected(w, c, frame)
        BY <2>5, <2>8 DEF Expected
      <3>3. Speech(v, Append(q \o queue, frame), c, After(w, frame))
        BY <2>4, <3>1, <3>2, SpeechOn
      <3>4. After(w, frame) = Own(outgoing'[c], count'[c])
        BY <2>5, <2>8 DEF After, Own
      <3> QED
        BY <2>2, <2>8, <3>1, <3>3, <3>4
    <2> QED
      BY <1>9, <2>6, <2>7, <2>8
  <1>12. ASSUME NEW v, Says(c, v) PROVE Says(c, v)'
    BY <1>1, <1>11, <1>12, NextSpeech
  <1>13. cpc'[c] = "run" => cpc[c] = "run"
    BY <1>1
  <1>14. UNCHANGED <<slot, serverEnd, toClient, incoming, history>>
    BY <1>1 DEF server, history
  <1> QED
    BY <1>6, <1>7, <1>8, <1>12, <1>13, <1>14, SenderFlow


LEMMA DrainingFlow ==
    ASSUME TypeInv, TcpChatAssumption, FlowInv, NEW c \in Clients, Drain(c) \/ DrainTimeout(c)
    PROVE  FlowInv'
  <1>1. /\ cpc[c] = "drain"
        /\ UNCHANGED <<slot, outgoing, incoming, count, serverEnd, toClient, history>>
        /\ \E x \in {"close", "drain"} : cpc' = [cpc EXCEPT ![c] = x]
        /\ out' = out \/ \E x : out' = [out EXCEPT ![c] = x]
        /\ toServer' = toServer \/ \E x : toServer' = [toServer EXCEPT ![c] = x]
    BY DEF Drain, DrainTimeout, server, local, sockets
  <1>2. /\ cpc'[c] # "run"
        /\ \A b \in Clients \ {c} : cpc'[b] = cpc[b] /\ out'[b] = out[b] /\ toServer'[b] = toServer[b]
    BY <1>1 DEF TypeInv, ClientTyped, SocketsTyped
  <1>3. ASSUME serverEnd[c] # "closed" PROVE toServer'[c] \o out'[c] = toServer[c] \o out[c]
    <2>1. CASE DrainTimeout(c)
      BY <2>1 DEF DrainTimeout, local, sockets
    <2>2. CASE Drain(c)
      <3>1. PICK q \in Seq(FrameType), r \in Seq(FrameType) : q = out[c] /\ r = toServer[c] /\ Len(r) <= Wire
        BY DEF TypeInv, SocketsTyped, ClientTyped
      <3>2. toServer'[c] = Sent(q, r) /\ out'[c] = Rest(q, r)
        <4>1. /\ toServer' = [toServer EXCEPT ![c] = Sent(out[c], toServer[c])]
              /\ out' = [out EXCEPT ![c] = Rest(out[c], toServer[c])]
          BY <1>3, <2>2 DEF Drain
        <4>2. toServer'[c] = Sent(out[c], toServer[c]) /\ out'[c] = Rest(out[c], toServer[c])
          BY <4>1 DEF TypeInv, SocketsTyped, ClientTyped
        <4> QED
          BY <3>1, <4>2
      <3>3. Len(r) <= Wire
        BY <3>1
      <3>4. Sent(q, r) \o Rest(q, r) = r \o q
        BY <3>3, Flushing
      <3> QED
        BY <3>1, <3>2, <3>4
    <2> QED
      BY <2>1, <2>2
  <1>4. ASSUME NEW v, Says(c, v) PROVE Says(c, v)'
    <2>1. SUFFICES ASSUME serverEnd[c] # "closed"
                   PROVE  \E w : /\ Speech(v, toServer'[c] \o out'[c], c, w)
                                 /\ cpc'[c] = "run" => w = Own(outgoing'[c], count'[c])
      BY <1>1, NextSpeech
    <2>2. PICK w : Speech(v, toServer[c] \o out[c], c, w)
      BY <1>4, <2>1, SaysSpeech
    <2> QED
      BY <1>2, <1>3, <2>1, <2>2
  <1> QED
    BY <1>1, <1>2, <1>4, SenderFlow

LEMMA CloseFlow ==
    ASSUME TypeInv, TcpChatAssumption, SlotInv, FlowInv, TypeInv', OwnInv', NEW c \in Clients, Close(c)
    PROVE  FlowInv'
  <1>1. /\ cpc[c] = "close" /\ cpc' = [cpc EXCEPT ![c] = "done"]
        /\ out' = [out EXCEPT ![c] = <<>>] /\ outgoing' = [outgoing EXCEPT ![c] = NoTransfer]
        /\ incoming' = [incoming EXCEPT ![c] = {}]
        /\ toClient' = [toClient EXCEPT ![c] = <<>>]
        /\ toServer' = toServer \/ toServer' = [toServer EXCEPT ![c] = <<>>]
        /\ count' = [count EXCEPT ![c] = 0]
        /\ first' = [first EXCEPT ![c] = [d \in Clients |-> 0]]
        /\ heard' = [heard EXCEPT ![c] = [d \in Clients |-> 0]]
        /\ UNCHANGED <<slot, serverEnd, dropped>>
    BY DEF Close, server
  <1>2. /\ cpc'[c] = "done" /\ out'[c] = <<>> /\ incoming'[c] = {}
        /\ \A b \in Clients \ {c} : /\ cpc'[b] = cpc[b] /\ out'[b] = out[b] /\ outgoing'[b] = outgoing[b]
                                    /\ count'[b] = count[b] /\ incoming'[b] = incoming[b]
    BY <1>1 DEF TypeInv, ClientTyped
  <1>3. /\ \A b \in Clients \ {c} : toClient'[b] = toClient[b] /\ toServer'[b] = toServer[b]
        /\ toClient'[c] = <<>> /\ (toServer'[c] = toServer[c] \/ toServer'[c] = <<>>)
    BY <1>1 DEF TypeInv, SocketsTyped
  <1>4. \A b \in Clients \ {c} : first'[b] = first[b] /\ heard'[b] = heard[b]
    BY <1>1 DEF TypeInv, HistoryTyped
  <1>5. ASSUME NEW v, Stands(c, v), Says(c, v) PROVE Says(c, v)'
    <2>1. SUFFICES ASSUME serverEnd[c] # "closed"
                   PROVE  \E w : /\ Speech(v, toServer'[c] \o out'[c], c, w)
                                 /\ cpc'[c] = "run" => w = Own(outgoing'[c], count'[c])
      BY <1>1, NextSpeech
    <2>2. PICK w : Speech(v, toServer[c] \o out[c], c, w)
      BY <1>5, <2>1, SaysSpeech
    <2>3. PICK q \in Seq(FrameType), r \in Seq(FrameType) : q = toServer[c] /\ r = out[c]
      BY DEF TypeInv, SocketsTyped, ClientTyped
    <2>4. PICK x : Speech(v, q, c, x)
      BY <2>2, <2>3, SpeechPart
    <2>5. v \in View
      BY <1>5 DEF Stands
    <2>6. Speech(v, <<>>, c, v)
      BY <2>5, SpeechNowhere
    <2>7. q \o <<>> = q /\ <<>> \o <<>> = <<>>
      BY ConcatEmptySeq, EmptySeq
    <2>8. toServer'[c] \o out'[c] = q \/ toServer'[c] \o out'[c] = <<>>
      BY <1>2, <1>3, <2>3, <2>7
    <2> QED
      BY <1>2, <2>4, <2>6, <2>8
  <1>6. \A d \in Clients \ {c} : \A v : Hears(c, d, v)'
    BY <1>2 DEF Hears
  <1>7. \A i \in 1 .. Len(Queued(c)') : (Queued(c)')[i].from # c
    <2>1. OwnInv /\ \A i \in 1 .. Len(Queued(c)) : Queued(c)[i].from # c
      BY DEF SlotInv, FlowInv, SelfInv
    <2>2. CASE serverEnd[c] # "open"
      <3>1. Queued(c)' = <<>>
        BY <1>1, <1>3, <2>2, NextQueues
      <3> QED
        BY <3>1, EmptySeq
    <2>3. CASE serverEnd[c] = "open"
      <3>1. PICK s \in Slots : slot[s].client = c
        BY <2>1, <2>3 DEF OwnInv
      <3>2. PICK q \in Seq(FrameType), r \in Seq(FrameType) : q = toClient[c] /\ r = slot[s].out
        BY DEF TypeInv, SlotsTyped, SlotType, SocketsTyped
      <3>3. Queued(c) = q \o r
        BY <2>1, <3>1, <3>2, Queues, ConstantsTyped DEF Active
      <3>4. slot'[s].client = c /\ slot'[s].out = r /\ c # Nobody
        BY <1>1, <3>1, <3>2, ConstantsTyped
      <3>5. Queued(c)' = <<>> \o r
        BY <1>3, <3>4, NextQueues
      <3>6. Queued(c)' = r
        BY <3>5, ConcatEmptySeq
      <3>7. PICK n \in Nat, m \in Nat : n = Len(q) /\ m = Len(r)
        BY LenProperties
      <3>8. Len(q \o r) = n + m /\ \A i \in 1 .. n + m : (q \o r)[i] = IF i <= n THEN q[i] ELSE r[i - n]
        BY <3>7, ConcatProperties
      <3>9. ASSUME NEW i \in 1 .. m PROVE r[i].from # c
        <4>1. n + i \in 1 .. n + m /\ ~(n + i <= n) /\ (n + i) - n = i
          BY <3>7
        <4>2. (q \o r)[n + i] = r[i]
          BY <3>8, <4>1
        <4> QED
          BY <2>1, <3>3, <3>8, <4>1, <4>2
      <3> QED
        BY <3>6, <3>7, <3>9
    <2> QED
      BY <2>2, <2>3
  <1> QED
    BY <1>1, <1>2, <1>3, <1>4, <1>5, <1>6, <1>7, ClientFlow


-----------------------------------------------------------------------------
(* What a client hears.                                                    *)

LEMMA QueueRest ==
    ASSUME TypeInv, TcpChatAssumption, slot' = slot, NEW c \in Clients
    PROVE  \E rest \in Seq(FrameType) : /\ Queued(c) = toClient[c] \o rest
                                        /\ Queued(c)' = toClient'[c] \o rest
  <1>1. PICK mine : mine = {s \in Slots : slot[s].client = c}
    OBVIOUS
  <1>2. PICK rest : rest = IF mine = {} THEN <<>> ELSE slot[CHOOSE s \in mine : TRUE].out
    OBVIOUS
  <1>3. rest \in Seq(FrameType)
    <2>1. \A s \in mine : slot[s].out \in Seq(FrameType)
      BY <1>1 DEF TypeInv, SlotsTyped, SlotType
    <2>2. mine # {} => (CHOOSE s \in mine : TRUE) \in mine
      OBVIOUS
    <2> QED
      BY <1>2, <2>1, <2>2, EmptySeq
  <1>4. Queued(c) = toClient[c] \o rest
    BY <1>1, <1>2 DEF Queued
  <1>5. Queued(c)' = toClient'[c] \o rest
    BY <1>1, <1>2 DEF Queued
  <1> QED
    BY <1>3, <1>4, <1>5

\* The files of one sender after a frame of another one, and of the one itself.
From(files, d) == {f \in files : f.from = d}

LEMMA FilesOfOthers ==
    ASSUME NEW c, NEW frame \in FrameType, NEW b, b # frame.from, incoming[c] \subseteq FileType
    PROVE  From(FilesAfter(c, frame), b) = From(incoming[c], b)
  <1> SUFFICES {f \in FilesAfter(c, frame) : f.from = b} = {f \in incoming[c] : f.from = b}
    BY DEF From
  <1>1. PICK files : files = Incoming(c, frame.from, frame.id)
    OBVIOUS
  <1>2. /\ \A f \in files : f \in FileType /\ f.from = frame.from
    BY <1>1 DEF Incoming
  <1>3. \A f \in files : [f EXCEPT !.done = @ + 1].from = frame.from
    BY <1>2 DEF FileType
  <1>4. frame.type \in {"join", "message", "begin", "chunk", "end", "leave"}
    BY DEF FrameType, Kinds
  <1>5. CASE frame.type = "begin"
    BY <1>5 DEF FilesAfter
  <1>6. CASE frame.type = "chunk"
    <2>1. FilesAfter(c, frame) = (incoming[c] \ files) \union {[f EXCEPT !.done = @ + 1] : f \in files}
      BY <1>1, <1>6 DEF FilesAfter
    <2> QED
      BY <1>2, <1>3, <2>1
  <1>7. CASE frame.type = "end"
    <2>1. FilesAfter(c, frame) = incoming[c] \ files
      BY <1>1, <1>7 DEF FilesAfter
    <2> QED
      BY <1>2, <2>1
  <1>8. CASE frame.type = "leave"
    BY <1>8 DEF FilesAfter, CancelledBy
  <1>9. CASE frame.type \in {"join", "message"}
    BY <1>9 DEF FilesAfter
  <1> QED
    BY <1>4, <1>5, <1>6, <1>7, <1>8, <1>9

FilesChange(frame, old, new) ==
    /\ frame.type \in {"join", "message"} => new = old
    /\ frame.type = "begin" =>
          new = old \union {[from |-> frame.from, id |-> frame.id, size |-> frame.size, done |-> 0]}
    /\ frame.type = "chunk" /\ (\A f \in old : f.id = frame.id) =>
          new = {[f EXCEPT !.done = @ + 1] : f \in old}
    /\ frame.type = "end" /\ (\A f \in old : f.id = frame.id) => new = {}
    /\ frame.type = "leave" => new = {}

LEMMA FilesOfSender ==
    ASSUME NEW c, NEW frame \in FrameType, incoming[c] \subseteq FileType
    PROVE  FilesChange(frame, From(incoming[c], frame.from), From(FilesAfter(c, frame), frame.from))
  <1> SUFFICES ASSUME NEW d, d = frame.from, NEW old, old = {f \in incoming[c] : f.from = d},
                      NEW new, new = {f \in FilesAfter(c, frame) : f.from = d}
               PROVE  /\ frame.type \in {"join", "message"} => new = old
                      /\ frame.type = "begin" =>
                            new = old \union {[from |-> d, id |-> frame.id, size |-> frame.size, done |-> 0]}
                      /\ frame.type = "chunk" /\ (\A f \in old : f.id = frame.id) =>
                            new = {[f EXCEPT !.done = @ + 1] : f \in old}
                      /\ frame.type = "end" /\ (\A f \in old : f.id = frame.id) => new = {}
                      /\ frame.type = "leave" => new = {}
    BY DEF From, FilesChange
  <1>1. CASE frame.type \in {"join", "message"}
    BY <1>1 DEF FilesAfter
  <1>2. CASE frame.type = "begin"
    BY <1>2 DEF FilesAfter
  <1>3. CASE frame.type = "leave"
    BY <1>3 DEF FilesAfter, CancelledBy
  <1>4. ASSUME \A f \in old : f.id = frame.id PROVE Incoming(c, frame.from, frame.id) = old
    BY <1>4 DEF Incoming
  <1>5. CASE frame.type = "chunk" /\ \A f \in old : f.id = frame.id
    <2>1. FilesAfter(c, frame) = (incoming[c] \ old) \union {[f EXCEPT !.done = @ + 1] : f \in old}
      BY <1>4, <1>5 DEF FilesAfter
    <2>2. \A f \in old : [f EXCEPT !.done = @ + 1].from = d
      BY DEF FileType
    <2> QED
      BY <1>5, <2>1, <2>2
  <1>6. CASE frame.type = "end" /\ \A f \in old : f.id = frame.id
    <2>1. FilesAfter(c, frame) = incoming[c] \ old
      BY <1>4, <1>6 DEF FilesAfter
    <2> QED
      BY <1>6, <2>1
  <1> QED
    BY <1>1, <1>2, <1>3, <1>5, <1>6

LEMMA KnowsAfter ==
    ASSUME TypeInv, NEW c \in Clients, NEW d \in Clients, NEW frame \in FrameType, NEW u \in View,
           Knows(c, d, u), Expected(u, d, frame), incoming'[c] = FilesAfter(c, frame),
           first'[c][d] = IF first[c][d] = 0 THEN frame.n ELSE first[c][d],
           heard'[c][d] = IF frame.n = 0 THEN heard[c][d] ELSE frame.n
    PROVE  Knows(c, d, After(u, frame))'
  <1>1. PICK x : x = After(u, frame)
    OBVIOUS
  <1>2. u.n \in Nat /\ u.transfer \in TransferType /\ u.transfer.id <= u.n /\ u.transfer.id \in Nat
    BY DEF View, TransferType
  <1>3. PICK old, new : old = {f \in incoming[c] : f.from = d} /\ new = {f \in incoming'[c] : f.from = d}
    OBVIOUS
  <1>4. PICK since, later : since = first[c][d] /\ later = first'[c][d]
    OBVIOUS
  <1>5. since \in Nat /\ (since = 0 \/ since \in 1 .. u.n) /\ old = Files(d, since, u)
    BY <1>2, <1>3, <1>4 DEF Knows
  <1>6. frame.n = (IF frame.type = "leave" THEN 0 ELSE u.n + 1) /\ frame.from = d
    BY DEF Expected
  <1>7. x.n = IF frame.type = "leave" THEN u.n ELSE u.n + 1
    BY <1>1, <1>6 DEF After
  <1>8. \/ later = 0 /\ heard'[c][d] = 0
        \/ heard'[c][d] = x.n /\ later \in 1 .. x.n
    BY <1>2, <1>4, <1>5, <1>6, <1>7 DEF Knows
  <1>9. later = IF since = 0 /\ frame.type # "leave" THEN u.n + 1 ELSE since
    BY <1>4, <1>6
  <1>10. incoming[c] \subseteq FileType
    BY DEF TypeInv, ClientTyped
  <1>11. new = {f \in FilesAfter(c, frame) : f.from = d}
    BY <1>3
  <1>12. /\ frame.type \in {"join", "message"} => new = old
         /\ frame.type = "begin" =>
               new = old \union {[from |-> d, id |-> frame.id, size |-> frame.size, done |-> 0]}
         /\ frame.type = "chunk" /\ (\A f \in old : f.id = frame.id) =>
               new = {[f EXCEPT !.done = @ + 1] : f \in old}
         /\ frame.type = "end" /\ (\A f \in old : f.id = frame.id) => new = {}
         /\ frame.type = "leave" => new = {}
    <2>1. FilesChange(frame, old, new)
      BY <1>3, <1>6, <1>10, <1>11, FilesOfSender DEF From
    <2> QED
      BY <1>6, <2>1 DEF FilesChange
  <1>13. new = Files(d, later, x)
    <2>1. CASE frame.type \in {"join", "message"}
      <3>1. x.transfer = u.transfer
        BY <1>1, <2>1 DEF After
      <3> QED
        BY <1>2, <1>5, <1>9, <1>12, <2>1, <3>1 DEF Files
    <2>2. CASE frame.type = "begin"
      <3>1. /\ x.transfer = [id |-> frame.id, size |-> frame.size, done |-> 0]
            /\ u.transfer.id = 0 /\ frame.id = u.n + 1
        BY <1>1, <1>6, <2>2 DEF After, Expected
      <3>2. old = {}
        BY <1>5, <3>1 DEF Files
      <3>3. later # 0 /\ later <= frame.id
        BY <1>2, <1>5, <1>9, <2>2, <3>1
      <3> QED
        BY <1>12, <2>2, <3>1, <3>2, <3>3 DEF Files
    <2>3. CASE frame.type = "chunk"
      <3>1. /\ x.transfer = [u.transfer EXCEPT !.done = @ + 1] /\ u.transfer.id = frame.id
        BY <1>1, <2>3 DEF After, Expected
      <3>2. x.transfer.id = u.transfer.id /\ x.transfer.size = u.transfer.size
            /\ x.transfer.done = u.transfer.done + 1
        BY <1>2, <3>1 DEF TransferType
      <3>3. \A f \in old : f.id = frame.id
        BY <1>5, <3>1 DEF Files
      <3>4. CASE since # 0 /\ since <= u.transfer.id
        <4>1. old = {[from |-> d, id |-> u.transfer.id, size |-> u.transfer.size, done |-> u.transfer.done]}
          BY <1>5, <3>4 DEF Files
        <4>2. new = {[from |-> d, id |-> u.transfer.id, size |-> u.transfer.size, done |-> u.transfer.done + 1]}
          BY <1>12, <2>3, <3>3, <4>1
        <4>3. later = since
          BY <1>9, <3>4
        <4> QED
          BY <3>2, <3>4, <4>2, <4>3 DEF Files
      <3>5. CASE ~(since # 0 /\ since <= u.transfer.id)
        <4>1. old = {}
          BY <1>5, <3>5 DEF Files
        <4>2. new = {}
          BY <1>12, <2>3, <3>3, <4>1
        <4>3. ~(later # 0 /\ later <= x.transfer.id)
          BY <1>2, <1>5, <1>9, <2>3, <3>2, <3>5
        <4> QED
          BY <4>2, <4>3 DEF Files
      <3> QED
        BY <3>4, <3>5
    <2>4. CASE frame.type \in {"end", "leave"}
      <3>1. x.transfer.id = 0
        BY <1>1, <2>4 DEF After, NoTransfer
      <3>2. \A f \in old : frame.type = "end" => f.id = frame.id
        BY <1>5 DEF Files, Expected
      <3>3. new = {}
        BY <1>12, <2>4, <3>2
      <3>4. ~(later # 0 /\ later <= x.transfer.id)
        BY <1>2, <1>5, <1>9, <3>1
      <3> QED
        BY <3>3, <3>4 DEF Files
    <2> QED
      BY <2>1, <2>2, <2>3, <2>4 DEF FrameType, Kinds
  <1> QED
    BY <1>1, <1>3, <1>4, <1>8, <1>13 DEF Knows

LEMMA ReceiveFlow ==
    ASSUME TypeInv, TcpChatAssumption, FlowInv, NEW c \in Clients, Receive(c)
    PROVE  FlowInv'
  <1>1. PICK frame : frame = Head(toClient[c])
    OBVIOUS
  <1>2. /\ cpc[c] = "run" /\ toClient[c] # <<>> /\ toClient' = [toClient EXCEPT ![c] = Tail(@)]
        /\ \/ Quit(c, out[c]) /\ UNCHANGED <<incoming, first, heard>>
           \/ /\ incoming' = [incoming EXCEPT ![c] = FilesAfter(c, frame)]
              /\ first' = [first EXCEPT ![c][frame.from] = IF @ = 0 THEN frame.n ELSE @]
              /\ heard' = [heard EXCEPT ![c][frame.from] = IF frame.n = 0 THEN @ ELSE frame.n]
              /\ UNCHANGED <<cpc, out>>
        /\ UNCHANGED <<slot, outgoing, count, serverEnd, toServer, dropped>>
    BY <1>1 DEF Receive, server
  <1>3. PICK queue \in Seq(FrameType) :
              /\ queue = Queued(c) /\ queue # <<>> /\ frame = Head(queue)
              /\ frame = queue[1] /\ 1 \in 1 .. Len(queue) /\ Queued(c)' = Tail(queue)
    <2>1. slot' = slot /\ toClient'[c] = Tail(toClient[c])
      BY <1>2 DEF TypeInv, SocketsTyped
    <2>2. PICK rest \in Seq(FrameType) :
                Queued(c) = toClient[c] \o rest /\ Queued(c)' = toClient'[c] \o rest
      BY <2>1, QueueRest
    <2>3. PICK q \in Seq(FrameType) : q = toClient[c]
      BY DEF TypeInv, SocketsTyped
    <2>4. /\ q \o rest \in Seq(FrameType) /\ q \o rest # <<>>
          /\ Head(q \o rest) = Head(q) /\ Head(q \o rest) = (q \o rest)[1] /\ 1 \in 1 .. Len(q \o rest)
          /\ Tail(q \o rest) = Tail(q) \o rest
      BY <1>2, <2>3, HeadFirst
    <2> QED
      BY <1>1, <2>1, <2>2, <2>3, <2>4
  <1>4. frame \in FrameType /\ frame.from # c /\ frame.from \in Clients
    <2>1. frame \in FrameType
      BY <1>3, ElementOfSeq
    <2> QED
      BY <1>3, <2>1 DEF FlowInv, SelfInv, FrameType
  <1>5. \A b \in Clients \ {c} :
           /\ cpc'[b] = cpc[b] /\ out'[b] = out[b] /\ incoming'[b] = incoming[b]
           /\ first'[b] = first[b] /\ heard'[b] = heard[b] /\ toClient'[b] = toClient[b]
    <2>1. out[c] \in Seq(FrameType) /\ Len(out[c]) <= ClientOut
      BY DEF TypeInv, ClientTyped
    <2>2. \A b \in Clients \ {c} : cpc'[b] = cpc[b] /\ out'[b] = out[b]
      BY <1>2, <2>1, QuitKeeps
    <2>3. \A b \in Clients \ {c} : incoming'[b] = incoming[b] /\ first'[b] = first[b] /\ heard'[b] = heard[b]
      BY SMTT(30), <1>2 DEF TypeInv, ClientTyped, HistoryTyped
    <2>4. \A b \in Clients \ {c} : toClient'[b] = toClient[b]
      BY <1>2 DEF TypeInv, SocketsTyped
    <2> QED
      BY <2>2, <2>3, <2>4
  <1>6. ASSUME NEW v, Says(c, v) PROVE Says(c, v)'
    <2>1. SUFFICES ASSUME serverEnd[c] # "closed"
                   PROVE  \E w : /\ Speech(v, toServer[c] \o out'[c], c, w)
                                 /\ cpc'[c] = "run" => w = Own(outgoing'[c], count'[c])
      BY <1>2, NextSpeech
    <2>2. PICK w : Speech(v, toServer[c] \o out[c], c, w) /\ w = Own(outgoing[c], count[c])
      BY <1>2, <1>6, <2>1, SaysSpeech
    <2>3. CASE Quit(c, out[c])
      <3>1. PICK q \in Seq(FrameType), r \in Seq(FrameType) :
                  q = toServer[c] /\ r = out[c] /\ Len(r) <= ClientOut
        BY DEF TypeInv, SocketsTyped, ClientTyped
      <3>2. q \o r \in Seq(FrameType)
        BY ConcatProperties
      <3>3. w \in View /\ w.stage = "joined"
        BY <2>2, <3>1, <3>2, LeadsTyped DEF Speech, Own
      <3>4. cpc'[c] # "run" /\ \E x : Speech(v, q \o out'[c], c, x)
        BY <2>2, <2>3, <3>1, <3>3, QuitFlow
      <3> QED
        BY <3>1, <3>4
    <2>4. CASE UNCHANGED <<cpc, out>>
      BY <1>2, <2>2, <2>4
    <2> QED
      BY <1>2, <2>3, <2>4
  <1>7. ASSUME NEW d \in Clients \ {c}, NEW v, Hears(c, d, v) PROVE Hears(c, d, v)'
    <2>1. CASE Quit(c, out[c])
      <3>1. cpc'[c] # "run"
        BY <2>1 DEF Quit, TypeInv, ClientTyped
      <3> QED
        BY <3>1 DEF Hears
    <2>2. CASE /\ incoming' = [incoming EXCEPT ![c] = FilesAfter(c, frame)]
               /\ first' = [first EXCEPT ![c][frame.from] = IF @ = 0 THEN frame.n ELSE @]
               /\ heard' = [heard EXCEPT ![c][frame.from] = IF frame.n = 0 THEN @ ELSE frame.n]
               /\ UNCHANGED <<cpc, out>>
      <3>1. PICK u, w : Knows(c, d, u) /\ Leads(u, queue, d, w) /\ (serverEnd[c] = "open" => w = v)
        BY <1>2, <1>3, <1>7 DEF Hears
      <3>2. u \in View
        BY <3>1, LeadsTyped
      <3>3. PICK x \in View : Goes(u, d, frame, x) /\ Leads(x, Queued(c)', d, w)
        BY <1>3, <3>1, LeadsTail
      <3>4. incoming'[c] = FilesAfter(c, frame)
        BY <2>2 DEF TypeInv, ClientTyped
      <3>5. \A b \in Clients :
               /\ first'[c][b] = IF b = frame.from /\ first[c][b] = 0 THEN frame.n ELSE first[c][b]
               /\ heard'[c][b] = IF b = frame.from /\ frame.n # 0 THEN frame.n ELSE heard[c][b]
        BY <1>4, <2>2 DEF TypeInv, HistoryTyped
      <3>6. Knows(c, d, x)'
        <4>1. CASE frame.from = d
          <5>1. Expected(u, d, frame) /\ x = After(u, frame)
            BY <3>3, <4>1 DEF Goes
          <5>2. /\ first'[c][d] = IF first[c][d] = 0 THEN frame.n ELSE first[c][d]
                /\ heard'[c][d] = IF frame.n = 0 THEN heard[c][d] ELSE frame.n
            BY <3>5, <4>1
          <5>3. Knows(c, d, After(u, frame))'
            BY <1>4, <3>1, <3>2, <3>4, <5>1, <5>2, KnowsAfter
          <5>4. \A y : y = After(u, frame) => (Knows(c, d, y)' <=> Knows(c, d, After(u, frame))')
            BY DEF Knows, After
          <5> QED
            BY <5>1, <5>3, <5>4
        <4>2. CASE frame.from # d
          <5>1. x = u
            BY <3>3, <4>2 DEF Goes
          <5>2. first'[c][d] = first[c][d] /\ heard'[c][d] = heard[c][d]
            BY <3>5, <4>2
          <5>3. {f \in incoming'[c] : f.from = d} = {f \in incoming[c] : f.from = d}
            <6>1. incoming[c] \subseteq FileType
              BY DEF TypeInv, ClientTyped
            <6> QED
              BY SMTT(30), <1>4, <3>4, <4>2, <6>1, FilesOfOthers DEF From
          <5> QED
            BY <3>1, <5>1, <5>2, <5>3 DEF Knows
        <4> QED
          BY <4>1, <4>2
      <3> QED
        BY <1>2, <3>1, <3>3, <3>6 DEF Hears
    <2> QED
      BY <1>2, <2>1, <2>2
  <1>8. \A i \in 1 .. Len(Queued(c)') : (Queued(c)')[i].from # c
    <2>1. PICK n \in Nat : n = Len(Tail(queue)) /\ Len(queue) = n + 1
      BY <1>3, HeadTailProperties, LenProperties
    <2>2. \A i \in 1 .. n : Tail(queue)[i] = queue[i + 1] /\ i + 1 \in 1 .. n + 1
      BY <1>3, <2>1, HeadTailProperties
    <2>3. \A i \in 1 .. n + 1 : queue[i].from # c
      BY <1>3, <2>1 DEF FlowInv, SelfInv
    <2> QED
      BY <1>3, <2>1, <2>2, <2>3
  <1>9. \A f \in incoming'[c] : f.from # c
    <2>1. CASE incoming' = incoming
      BY <2>1 DEF FlowInv, SelfInv
    <2>2. CASE incoming' = [incoming EXCEPT ![c] = FilesAfter(c, frame)]
      <3>1. {f \in FilesAfter(c, frame) : f.from = c} = {f \in incoming[c] : f.from = c}
        <4>1. incoming[c] \subseteq FileType
          BY DEF TypeInv, ClientTyped
        <4>2. \A b : b # frame.from => From(FilesAfter(c, frame), b) = From(incoming[c], b)
          BY <1>4, <4>1, FilesOfOthers
        <4>3. From(FilesAfter(c, frame), c) = From(incoming[c], c)
          BY <1>4, <4>2
        <4> QED
          BY <4>3 DEF From
      <3>2. incoming'[c] = FilesAfter(c, frame)
        BY <2>2 DEF TypeInv, ClientTyped
      <3> QED
        BY <3>1, <3>2 DEF FlowInv, SelfInv
    <2> QED
      BY <1>2, <2>1, <2>2
  <1> QED
    BY <1>2, <1>5, <1>6, <1>7, <1>8, <1>9, ClientFlow

-----------------------------------------------------------------------------
(* Connections begin, are accepted, flushed and closed.                    *)

\* A step that leaves slots, connections and clients alone.
LEMMA IdleFlow ==
    ASSUME FlowInv, UNCHANGED <<slot, client, sockets, history>>
    PROVE  FlowInv'
  <1>1. UNCHANGED <<slot, cpc, out, outgoing, incoming, count, serverEnd, toServer, toClient,
                    first, heard, dropped>>
    BY DEF client, local, sockets, history
  <1>2. \A c \in Clients : Queued(c)' = Queued(c)
    BY <1>1 DEF Queued
  <1>3. ASSUME NEW d \in Clients, NEW v
        PROVE  /\ Stands(d, v) => Stands(d, v)'
               /\ Says(d, v) => Says(d, v)'
               /\ \A c \in Clients : Hears(c, d, v) => Hears(c, d, v)'
    <2>1. Stands(d, v) => Stands(d, v)'
      BY <1>1 DEF Stands
    <2>2. Says(d, v) => Says(d, v)'
      BY <1>1, SaysSame
    <2>3. \A c \in Clients : Hears(c, d, v) => Hears(c, d, v)'
      BY <1>1, <1>2, HearsSame DEF Unmoved
    <2> QED
      BY <2>1, <2>2, <2>3
  <1>4. SelfInv'
    BY <1>1, <1>2 DEF FlowInv, SelfInv
  <1>5. SaidInv'
    <2>1. ASSUME NEW d \in Clients
          PROVE  \E v : Stands(d, v)' /\ Says(d, v)' /\ \A c \in Clients \ {d} : Hears(c, d, v)'
      <3>1. PICK v : Stands(d, v) /\ Says(d, v) /\ \A c \in Clients \ {d} : Hears(c, d, v)
        BY DEF FlowInv, SaidInv
      <3> QED
        BY <1>3, <3>1
    <2> QED
      BY <2>1 DEF SaidInv
  <1> QED
    BY <1>4, <1>5 DEF FlowInv

LEMMA InitFlow == ASSUME TcpChatAssumption, Init, TypeInv, SlotInv PROVE FlowInv
  <1>1. \A c \in Clients : /\ cpc[c] = "off" /\ incoming[c] = {} /\ serverEnd[c] = "none"
                           /\ toClient[c] = <<>> /\ toServer[c] = <<>> /\ out[c] = <<>>
    BY DEF Init
  <1>2. \A c \in Clients : Queued(c) = <<>>
    BY <1>1, Queues DEF SlotInv
  <1>3. SelfInv
    BY <1>1, <1>2, EmptySeq DEF SelfInv
  <1>4. ASSUME NEW d \in Clients PROVE Stands(d, Fresh) /\ Says(d, Fresh)
    <2>1. \A s \in Slots : slot[s].client # d
      BY <1>1, <1>4, ConstantsTyped DEF SlotInv, OwnInv, Active
    <2>2. Stands(d, Fresh)
      BY <1>1, <2>1, FreshTyped DEF Stands
    <2>3. Speech(Fresh, <<>>, d, Fresh)
      BY FreshTyped, SpeechNowhere
    <2>4. <<>> \o <<>> = <<>> /\ toServer[d] \o out[d] = <<>> \o <<>>
      BY <1>1, ConcatEmptySeq, EmptySeq
    <2>5. Speech(Fresh, toServer[d] \o out[d], d, Fresh)
      BY <2>3, <2>4
    <2>6. cpc[d] # "run"
      BY <1>1
    <2> QED
      BY <2>2, <2>5, <2>6, SaysSpeech
  <1>5. \A c, d \in Clients : Hears(c, d, Fresh)
    BY <1>1 DEF Hears
  <1> QED
    BY <1>3, <1>4, <1>5 DEF FlowInv, SaidInv

LEMMA StartFlow ==
    ASSUME TypeInv, TcpChatAssumption, SlotInv, FlowInv, TypeInv', OwnInv', NEW c \in Clients, Start(c)
    PROVE  FlowInv'
  <1>1. /\ cpc[c] = "off" /\ serverEnd[c] = "none" /\ toServer[c] = <<>> /\ out[c] = <<>>
        /\ outgoing[c] = NoTransfer
        /\ UNCHANGED <<slot, outgoing, incoming, toServer, toClient, first, heard, dropped>>
    BY DEF Start, SlotInv, LifeInv, history
  <1>2. /\ \A b \in Clients \ {c} : /\ cpc'[b] = cpc[b] /\ out'[b] = out[b] /\ count'[b] = count[b]
                                    /\ serverEnd'[b] = serverEnd[b]
        /\ \/ cpc'[c] = "done" /\ serverEnd'[c] = "none" /\ out'[c] = out[c] /\ count'[c] = count[c]
           \/ /\ cpc'[c] = "run" /\ serverEnd'[c] = "queued"
              /\ out'[c] = <<Frame(c, "join", 0, 0, 1)>> /\ count'[c] = 1
    <2>1. CASE cpc' = [cpc EXCEPT ![c] = "done"] /\ UNCHANGED <<serverEnd, out, count>>
      BY <1>1, <2>1 DEF TypeInv, ClientTyped
    <2>2. CASE /\ cpc' = [cpc EXCEPT ![c] = "run"]
               /\ serverEnd' = [serverEnd EXCEPT ![c] = "queued"]
               /\ out' = [out EXCEPT ![c] = <<Frame(c, "join", 0, 0, 1)>>]
               /\ count' = [count EXCEPT ![c] = 1]
      BY <2>2 DEF TypeInv, ClientTyped, SocketsTyped
    <2> QED
      BY <2>1, <2>2 DEF Start
  <1>3. \A b \in Clients : Queued(b)' = Queued(b)
    BY <1>1 DEF Queued
  <1>4. Quiet(c)' /\ Queued(c)' = <<>>
    <2>1. Quiet(c)
      BY <1>1 DEF SlotInv, QuietInv
    <2>2. Queued(c) = toClient[c]
      BY <1>1, Queues DEF SlotInv
    <2> QED
      BY <1>1, <1>3, <2>1, <2>2 DEF Quiet
  <1>5. SelfInv'
    BY <1>1, <1>3 DEF FlowInv, SelfInv
  <1>6. ASSUME NEW d \in Clients, NEW b \in Clients, NEW v \in View, Hears(b, d, v) PROVE Hears(b, d, v)'
    <2>1. CASE b = c
      BY <1>4, <2>1, HearsNothing
    <2>2. CASE b # c
      <3>1. Unmoved(b) /\ serverEnd'[b] = serverEnd[b]
        BY <1>1, <1>2, <2>2 DEF Unmoved
      <3> QED
        BY <1>3, <1>6, <3>1, HearsSame
    <2> QED
      BY <2>1, <2>2
  <1>7. ASSUME NEW d \in Clients, NEW v, Stands(d, v), Says(d, v) PROVE Stands(d, v)' /\ Says(d, v)'
    <2>1. CASE d # c
      <3>1. Stands(d, v)'
        BY <1>1, <1>2, <1>7, <2>1 DEF Stands
      <3>2. Says(d, v)'
        BY <1>1, <1>2, <1>7, <2>1, SaysSame
      <3> QED
        BY <3>1, <3>2
    <2>2. CASE d = c
      <3>1. v = Fresh /\ v \in View /\ \A s \in Slots : slot[s].client # c
        BY <1>1, <1>7, <2>2, ConstantsTyped DEF Stands, SlotInv, OwnInv, Active
      <3>2. Stands(d, v)'
        BY <1>1, <1>2, <2>2, <3>1 DEF Stands
      <3>3. CASE cpc'[c] = "done" /\ serverEnd'[c] = "none" /\ out'[c] = out[c] /\ count'[c] = count[c]
        BY <1>1, <1>7, <2>2, <3>2, <3>3, SaysSame
      <3>4. CASE out'[c] = <<Frame(c, "join", 0, 0, 1)>> /\ count'[c] = 1
        <4>1. PICK frame \in FrameType : frame = Frame(c, "join", 0, 0, 1)
          BY DEF Frame, FrameType, Kinds
        <4>2. frame.from = c /\ frame.type = "join" /\ frame.n = 1
          BY <4>1 DEF Frame
        <4>3. Expected(Fresh, c, frame)
          BY <4>2 DEF Expected, Fresh
        <4>4. After(Fresh, frame) = Own(NoTransfer, 1)
          BY <4>2 DEF After, Fresh, Own
        <4>5. PICK none \in Seq(FrameType) : none = <<>> /\ Speech(Fresh, none, c, Fresh)
          BY FreshTyped, SpeechNowhere, EmptySeq
        <4>6. Speech(Fresh, Append(none, frame), c, Own(NoTransfer, 1))
          <5>1. Speech(Fresh, Append(none, frame), c, After(Fresh, frame))
            BY <4>3, <4>5, SpeechOn
          <5> QED
            BY <4>4, <5>1
        <4>7. toServer'[c] \o out'[c] = Append(none, frame)
          <5>1. <<frame>> \in Seq(FrameType) /\ Append(<<>>, frame) = <<frame>>
            OBVIOUS
          <5>2. PICK one \in Seq(FrameType) : one = <<frame>> /\ Append(none, frame) = one
            BY <4>5, <5>1
          <5>3. toServer'[c] = <<>> /\ out'[c] = one
            BY <1>1, <3>4, <4>1, <5>2
          <5>4. <<>> \o one = one
            BY ConcatEmptySeq
          <5> QED
            BY <5>2, <5>3, <5>4
        <4>8. outgoing'[c] = NoTransfer
          BY <1>1
        <4> QED
          BY <2>2, <3>1, <3>2, <3>4, <4>6, <4>7, <4>8, NextSpeech
      <3> QED
        BY <1>2, <3>3, <3>4
    <2> QED
      BY <2>1, <2>2
  <1>8. SaidInv'
    <2>1. ASSUME NEW d \in Clients
          PROVE  \E v : Stands(d, v)' /\ Says(d, v)' /\ \A b \in Clients \ {d} : Hears(b, d, v)'
      <3>1. PICK v : Stands(d, v) /\ Says(d, v) /\ \A b \in Clients \ {d} : Hears(b, d, v)
        BY DEF FlowInv, SaidInv
      <3>2. v \in View
        BY <3>1 DEF Stands
      <3> QED
        BY <1>6, <1>7, <3>1, <3>2
    <2> QED
      BY <2>1 DEF SaidInv
  <1> QED
    BY <1>5, <1>8 DEF FlowInv

\* What is left of a queue is not said by its hearer either.
LEMMA PartOfOthers ==
    ASSUME NEW c, NEW old \in Seq(FrameType), NEW new \in Seq(FrameType), NEW rest \in Seq(FrameType),
           old = new \o rest, \A i \in 1 .. Len(old) : old[i].from # c
    PROVE  \A i \in 1 .. Len(new) : new[i].from # c
  <1>1. PICK n \in Nat, m \in Nat : n = Len(new) /\ m = Len(old) /\ n <= m
    BY ConcatProperties, LenProperties
  <1>2. \A i \in 1 .. n : old[i] = new[i] /\ i \in 1 .. m
    BY <1>1, ConcatProperties, LenProperties
  <1> QED
    BY <1>1, <1>2

\* What a slot's turn to be written leaves of its client's queue.
LEMMA WriteQueues ==
    ASSUME TypeInv, TcpChatAssumption, SlotInv, TypeInv', OwnInv',
           NEW e \in events \union {current}, Write(e), NEW d \in Clients
    PROVE  \/ Queued(d)' = Queued(d)
           \/ cpc[d] # "run" /\ \E rest \in Seq(FrameType) : Queued(d) = Queued(d)' \o rest
  <1>1. PICK s \in Slots, c \in Clients :
           /\ s = e.slot /\ c = slot[s].client /\ Active(s) /\ slot[s] \in SlotType
           /\ slot[s].out \in Seq(FrameType) /\ toClient[c] \in Seq(FrameType)
           /\ \/ slot' = slot /\ toClient' = toClient
              \/ Gone(c) /\ slot' = [slot EXCEPT ![s].out = <<>>] /\ toClient' = toClient
              \/ /\ slot' = [slot EXCEPT ![s].out = Rest(slot[s].out, toClient[c])]
                 /\ toClient' = [toClient EXCEPT ![c] = Sent(slot[s].out, toClient[c])]
           /\ NextEvent(events \ {e})
           /\ UNCHANGED <<backlog, stop, client, serverEnd, clientEnd, toServer, script, history>>
    BY WriteEffect
  <1>2. slot \in [Slots -> SlotType] /\ toClient \in [Clients -> Seq(FrameType)]
    BY DEF TypeInv, SlotsTyped, SocketsTyped
  <1>3. PICK o, w : /\ slot' = slot \/ slot' = [slot EXCEPT ![s].out = o]
                    /\ toClient' = toClient \/ toClient' = [toClient EXCEPT ![c] = w]
    BY <1>1
  <1>4. \A t \in Slots \ {s} : slot'[t] = slot[t]
    BY <1>2, <1>3
  <1>5. \A b \in Clients \ {c} : toClient'[b] = toClient[b]
    BY <1>2, <1>3
  <1>6. slot'[s].client = c /\ c # Nobody
    <2>1. slot[s].client = c /\ c # Nobody
      BY <1>1, ConstantsTyped
    <2>2. CASE slot' = [slot EXCEPT ![s].out = o]
      <3>1. slot'[s] = [slot[s] EXCEPT !.out = o]
        BY <1>2, <2>2
      <3> QED
        BY <1>1, <2>1, <3>1 DEF SlotType
    <2> QED
      BY <1>3, <2>1, <2>2
  <1>7. CASE d # c
    <2>1. CASE serverEnd[d] = "open"
      <3>1. PICK t \in Slots : slot[t].client = d
        BY <2>1 DEF SlotInv, OwnInv
      <3>2. t # s /\ d # Nobody
        BY <1>1, <1>7, <3>1, ConstantsTyped
      <3>3. slot'[t] = slot[t] /\ toClient'[d] = toClient[d]
        BY <1>4, <1>5, <1>7, <3>2
      <3>4. Queued(d) = toClient[d] \o slot[t].out
        BY <3>1, <3>2, Queues DEF SlotInv, Active
      <3>5. Queued(d)' = toClient'[d] \o slot'[t].out
        BY <3>1, <3>2, <3>3, NextQueues
      <3> QED
        BY <3>3, <3>4, <3>5
    <2>2. CASE serverEnd[d] # "open"
      <3>1. serverEnd'[d] = serverEnd[d] /\ toClient'[d] = toClient[d]
        BY <1>1, <1>5, <1>7
      <3>2. Queued(d) = toClient[d]
        BY <2>2, Queues DEF SlotInv
      <3>3. Queued(d)' = toClient'[d]
        BY <2>2, <3>1, NextQueues
      <3> QED
        BY <3>1, <3>2, <3>3
    <2> QED
      BY <2>1, <2>2
  <1>8. CASE d = c
    <2>1. PICK q \in Seq(FrameType), r \in Seq(FrameType) : q = slot[s].out /\ r = toClient[c] /\ Len(r) <= Wire
      BY <1>1 DEF TypeInv, SocketsTyped
    <2>2. Queued(d) = r \o q
      BY <1>1, <1>8, <2>1, Queues DEF SlotInv
    <2>3. Queued(d)' = toClient'[c] \o slot'[s].out
      BY <1>6, <1>8, NextQueues
    <2>4. CASE slot' = slot /\ toClient' = toClient
      BY <2>1, <2>2, <2>3, <2>4
    <2>5. CASE Gone(c) /\ slot' = [slot EXCEPT ![s].out = <<>>] /\ toClient' = toClient
      <3>1. slot'[s].out = <<>>
        <4>1. slot'[s] = [slot[s] EXCEPT !.out = <<>>]
          BY <1>2, <2>5
        <4> QED
          BY <1>1, <4>1 DEF SlotType
      <3>2. Queued(d)' = r
        BY <2>1, <2>3, <2>5, <3>1, ConcatEmptySeq
      <3>3. cpc[d] # "run"
        BY <1>8, <2>5 DEF Gone, SlotInv, LifeInv
      <3> QED
        BY <2>2, <3>2, <3>3
    <2>6. CASE /\ slot' = [slot EXCEPT ![s].out = Rest(slot[s].out, toClient[c])]
               /\ toClient' = [toClient EXCEPT ![c] = Sent(slot[s].out, toClient[c])]
      <3>1. slot'[s].out = Rest(q, r) /\ toClient'[c] = Sent(q, r)
        <4>1. PICK x, y : x = Rest(slot[s].out, toClient[c]) /\ y = Sent(slot[s].out, toClient[c])
          OBVIOUS
        <4>2. slot'[s] = [slot[s] EXCEPT !.out = x] /\ toClient'[c] = y
          BY <1>2, <2>6, <4>1
        <4>3. slot'[s].out = x
          BY <1>1, <4>2 DEF SlotType
        <4> QED
          BY <2>1, <4>1, <4>2, <4>3
      <3>2. Len(r) <= Wire
        BY <2>1
      <3>3. Sent(q, r) \o Rest(q, r) = r \o q
        BY <3>2, Flushing
      <3> QED
        BY <2>2, <2>3, <3>1, <3>3
    <2> QED
      BY <1>1, <2>4, <2>5, <2>6
  <1> QED
    BY <1>7, <1>8

LEMMA WriteFlow ==
    ASSUME TypeInv, TcpChatAssumption, SlotInv, FlowInv, TypeInv', OwnInv',
           NEW e \in events \union {current}, Write(e)
    PROVE  FlowInv'
  <1>1. PICK s \in Slots :
              /\ slot' = slot \/ \E o : slot' = [slot EXCEPT ![s].out = o]
              /\ UNCHANGED <<client, serverEnd, toServer, history>>
    BY WriteEffect
  <1>2. UNCHANGED <<cpc, out, outgoing, incoming, count, serverEnd, toServer, first, heard, dropped>>
    BY <1>1 DEF client, local, history
  <1>3. \A t \in Slots : /\ slot'[t].client = slot[t].client /\ slot'[t].joined = slot[t].joined
                         /\ slot'[t].transfer = slot[t].transfer
    <2>1. slot \in [Slots -> SlotType]
      BY DEF TypeInv, SlotsTyped
    <2>2. ASSUME NEW o, slot' = [slot EXCEPT ![s].out = o]
          PROVE  slot'[s] = [slot[s] EXCEPT !.out = o] /\ \A t \in Slots \ {s} : slot'[t] = slot[t]
      BY <2>1, <2>2
    <2>3. slot[s] \in SlotType
      BY <2>1
    <2> QED
      <3>1. CASE slot' = slot
        BY <3>1
      <3>2. ASSUME NEW o, slot' = [slot EXCEPT ![s].out = o]
            PROVE  /\ slot'[s].client = slot[s].client /\ slot'[s].joined = slot[s].joined
                   /\ slot'[s].transfer = slot[s].transfer
                   /\ \A t \in Slots \ {s} : slot'[t] = slot[t]
        BY <2>2, <2>3, <3>2 DEF SlotType
      <3> QED
        BY <1>1, <3>1, <3>2
  <1>4. ASSUME NEW d \in Clients, NEW v, Stands(d, v), Says(d, v) PROVE Stands(d, v)' /\ Says(d, v)'
    <2>1. Stands(d, v)'
      BY <1>2, <1>3, <1>4 DEF Stands
    <2>2. Says(d, v)'
      BY <1>2, <1>4, SaysSame
    <2> QED
      BY <2>1, <2>2
  <1>5. ASSUME NEW c \in Clients, NEW d \in Clients, NEW v, Hears(c, d, v) PROVE Hears(c, d, v)'
    <2>1. CASE Queued(c)' = Queued(c)
      BY <1>2, <1>5, <2>1, HearsSame DEF Unmoved
    <2>2. CASE cpc[c] # "run"
      BY <1>2, <2>2 DEF Hears
    <2> QED
      BY <2>1, <2>2, WriteQueues
  <1>6. SelfInv'
    <2>1. ASSUME NEW c \in Clients PROVE \A i \in 1 .. Len(Queued(c)') : (Queued(c)')[i].from # c
      <3>1. PICK old \in Seq(FrameType), new \in Seq(FrameType) : old = Queued(c) /\ new = Queued(c)'
        BY Queues, NextQueues DEF SlotInv
      <3>2. \A i \in 1 .. Len(old) : old[i].from # c
        BY <3>1 DEF FlowInv, SelfInv
      <3>3. new = old \/ \E rest \in Seq(FrameType) : old = new \o rest
        BY <3>1, WriteQueues
      <3>4. \A i \in 1 .. Len(new) : new[i].from # c
        BY <3>2, <3>3, PartOfOthers
      <3> QED
        BY <3>1, <3>4
    <2> QED
      BY <1>2, <2>1 DEF FlowInv, SelfInv
  <1>7. SaidInv'
    <2>1. ASSUME NEW d \in Clients
          PROVE  \E v : Stands(d, v)' /\ Says(d, v)' /\ \A b \in Clients \ {d} : Hears(b, d, v)'
      <3>1. PICK v : Stands(d, v) /\ Says(d, v) /\ \A b \in Clients \ {d} : Hears(b, d, v)
        BY DEF FlowInv, SaidInv
      <3> QED
        BY <1>4, <1>5, <3>1
    <2> QED
      BY <2>1 DEF SaidInv
  <1> QED
    BY <1>6, <1>7 DEF FlowInv

LEMMA AcceptEffect ==
    ASSUME TypeInv, TcpChatAssumption, SlotInv, Accept
    PROVE  /\ \A s \in Slots :
                 \/ slot'[s] = slot[s]
                 \/ /\ ~slot'[s].joined /\ slot'[s].transfer = NoTransfer /\ slot'[s].out = <<>>
                    /\ serverEnd[slot'[s].client] = "queued"
           /\ \A c \in Clients :
                 \/ serverEnd'[c] = serverEnd[c] /\ toServer'[c] = toServer[c] /\ serverEnd[c] # "queued"
                 \/ serverEnd[c] = "queued" /\ serverEnd'[c] = "open" /\ toServer'[c] = toServer[c]
                 \/ serverEnd[c] = "queued" /\ serverEnd'[c] = "closed"
           /\ UNCHANGED <<cpc, out, outgoing, incoming, count, toClient, first, heard, dropped>>
  <1>1. PICK served : served = {c \in ToSet(backlog) : \E s \in Slots : Accepted(s).client = c}
    OBVIOUS
  <1>2. /\ slot' = [s \in Slots |-> Accepted(s)]
        /\ serverEnd' = [c \in Clients |-> IF c \in served THEN "open"
                                           ELSE IF c \in ToSet(backlog) \ served THEN "closed" ELSE serverEnd[c]]
        /\ toServer' = [c \in Clients |-> IF c \in ToSet(backlog) \ served THEN <<>> ELSE toServer[c]]
        /\ UNCHANGED <<client, toClient, history>>
    BY <1>1 DEF Accept, history
  <1>3. \A c \in Clients : c \in ToSet(backlog) <=> serverEnd[c] = "queued"
    BY Members DEF SlotInv, BacklogInv, TypeInv, RoundTyped
  <1>4. ASSUME NEW s \in Slots
        PROVE  \/ slot'[s] = slot[s]
               \/ /\ ~slot'[s].joined /\ slot'[s].transfer = NoTransfer /\ slot'[s].out = <<>>
                  /\ serverEnd[slot'[s].client] = "queued"
    <2>1. \/ slot'[s] = slot[s]
          \/ /\ Rank(s) \in 1 .. Len(backlog) /\ backlog[Rank(s)] \in Clients
             /\ slot'[s] = [Free EXCEPT !.client = backlog[Rank(s)]]
      BY <1>2, AcceptedCases
    <2>2. ASSUME NEW c \in Clients, NEW i \in 1 .. Len(backlog), c = backlog[i],
                 slot'[s] = [Free EXCEPT !.client = c]
          PROVE  /\ ~slot'[s].joined /\ slot'[s].transfer = NoTransfer /\ slot'[s].out = <<>>
                 /\ serverEnd[slot'[s].client] = "queued"
      <3>1. /\ slot'[s].client = c /\ ~slot'[s].joined /\ slot'[s].transfer = NoTransfer
            /\ slot'[s].out = <<>>
        BY <2>2, NewSlot
      <3>2. serverEnd[c] = "queued"
        BY <2>2 DEF SlotInv, BacklogInv
      <3> QED
        BY <3>1, <3>2
    <2> QED
      BY <2>1, <2>2
  <1>5. \A c \in Clients :
           \/ serverEnd'[c] = serverEnd[c] /\ toServer'[c] = toServer[c] /\ serverEnd[c] # "queued"
           \/ serverEnd[c] = "queued" /\ serverEnd'[c] = "open" /\ toServer'[c] = toServer[c]
           \/ serverEnd[c] = "queued" /\ serverEnd'[c] = "closed"
    BY <1>1, <1>2, <1>3
  <1>6. UNCHANGED <<cpc, out, outgoing, incoming, count, toClient, first, heard, dropped>>
    BY <1>2 DEF client, local, history
  <1> QED
    BY <1>4, <1>5, <1>6

LEMMA AcceptFlow ==
    ASSUME TypeInv, TcpChatAssumption, SlotInv, FlowInv, TypeInv', OwnInv', Accept
    PROVE  FlowInv'
  <1>1. /\ \A s \in Slots :
              \/ slot'[s] = slot[s]
              \/ /\ ~slot'[s].joined /\ slot'[s].transfer = NoTransfer /\ slot'[s].out = <<>>
                 /\ serverEnd[slot'[s].client] = "queued"
        /\ \A c \in Clients :
              \/ serverEnd'[c] = serverEnd[c] /\ toServer'[c] = toServer[c] /\ serverEnd[c] # "queued"
              \/ serverEnd[c] = "queued" /\ serverEnd'[c] = "open" /\ toServer'[c] = toServer[c]
              \/ serverEnd[c] = "queued" /\ serverEnd'[c] = "closed"
        /\ UNCHANGED <<cpc, out, outgoing, incoming, count, toClient, first, heard, dropped>>
    BY AcceptEffect
  <1>2. \A c \in Clients : Unmoved(c)
    BY <1>1 DEF Unmoved
  <1>3. ASSUME NEW c \in Clients, serverEnd[c] = "queued" PROVE Quiet(c)' /\ Queued(c)' = <<>>
    <2>1. Quiet(c)
      BY <1>3 DEF SlotInv, QuietInv
    <2>2. Quiet(c)' /\ toClient'[c] = <<>>
      BY <1>1, <2>1 DEF Quiet
    <2>3. CASE serverEnd'[c] # "open"
      BY <2>2, <2>3, NextQueues
    <2>4. CASE serverEnd'[c] = "open"
      <3>1. PICK s \in Slots : slot'[s].client = c
        BY <2>4 DEF OwnInv
      <3>2. c # Nobody
        BY ConstantsTyped
      <3>3. slot'[s].out = <<>>
        <4>1. slot'[s] # slot[s]
          BY <1>3, <3>1, <3>2 DEF SlotInv, OwnInv, Active
        <4> QED
          BY <1>1, <4>1
      <3>4. Queued(c)' = <<>> \o <<>>
        BY <2>2, <3>1, <3>2, <3>3, NextQueues
      <3> QED
        BY <2>2, <3>4, ConcatEmptySeq, EmptySeq
    <2> QED
      BY <2>2, <2>3, <2>4
  <1>4. ASSUME NEW c \in Clients, serverEnd[c] # "queued"
        PROVE  Queued(c)' = Queued(c) /\ serverEnd'[c] = serverEnd[c]
    <2>1. serverEnd'[c] = serverEnd[c] /\ toClient'[c] = toClient[c]
      BY <1>1, <1>4
    <2>2. CASE serverEnd[c] # "open"
      <3>1. Queued(c) = toClient[c]
        BY <2>2, Queues DEF SlotInv
      <3>2. Queued(c)' = toClient'[c]
        BY <2>1, <2>2, NextQueues
      <3> QED
        BY <2>1, <3>1, <3>2
    <2>3. CASE serverEnd[c] = "open"
      <3>1. PICK s \in Slots : slot'[s].client = c
        BY <2>1, <2>3 DEF OwnInv
      <3>2. slot'[s] = slot[s] /\ c # Nobody
        BY <1>1, <2>3, <3>1, ConstantsTyped
      <3>3. Queued(c) = toClient[c] \o slot[s].out
        BY <3>1, <3>2, Queues DEF SlotInv, Active
      <3>4. Queued(c)' = toClient'[c] \o slot'[s].out
        BY <3>1, <3>2, NextQueues
      <3> QED
        BY <2>1, <3>2, <3>3, <3>4
    <2> QED
      BY <2>1, <2>2, <2>3
  <1>5. ASSUME NEW c \in Clients, NEW d \in Clients, NEW v \in View, Hears(c, d, v) PROVE Hears(c, d, v)'
    <2>1. CASE serverEnd[c] = "queued"
      BY <1>3, <2>1, HearsNothing
    <2>2. CASE serverEnd[c] # "queued"
      BY <1>2, <1>4, <1>5, <2>2, HearsSame
    <2> QED
      BY <2>1, <2>2
  <1>6. ASSUME NEW d \in Clients, NEW v, Stands(d, v), Says(d, v) PROVE Stands(d, v)' /\ Says(d, v)'
    <2>1. v \in View /\ (serverEnd[d] \in {"none", "queued"} => v = Fresh)
      BY <1>6 DEF Stands
    <2>2. serverEnd'[d] \in {"none", "queued"} => v = Fresh
      BY <1>1, <2>1
    <2>3. serverEnd'[d] = "closed" => v.transfer.id = 0 \/ d \in dropped'
      <3>1. CASE serverEnd[d] = "queued"
        BY <2>1, <3>1 DEF Fresh, NoTransfer
      <3>2. CASE serverEnd[d] # "queued"
        BY <1>1, <1>6, <3>2 DEF Stands
      <3> QED
        BY <3>1, <3>2
    <2>4. ASSUME NEW s \in Slots, slot'[s].client = d
          PROVE  v.transfer = slot'[s].transfer /\ v.stage = IF slot'[s].joined THEN "joined" ELSE "new"
      <3>1. CASE slot'[s] = slot[s]
        BY <1>6, <2>4, <3>1 DEF Stands
      <3>2. CASE /\ ~slot'[s].joined /\ slot'[s].transfer = NoTransfer
                 /\ serverEnd[slot'[s].client] = "queued"
        BY <2>1, <2>4, <3>2 DEF Fresh
      <3> QED
        BY <1>1, <3>1, <3>2
    <2>5. Stands(d, v)'
      BY <2>1, <2>2, <2>3, <2>4 DEF Stands
    <2>6. Says(d, v)'
      BY <1>1, <1>6, SaysSame
    <2> QED
      BY <2>5, <2>6
  <1>7. SelfInv'
    <2>1. ASSUME NEW c \in Clients PROVE \A i \in 1 .. Len(Queued(c)') : (Queued(c)')[i].from # c
      <3>1. CASE serverEnd[c] = "queued"
        BY <1>3, <3>1, EmptySeq
      <3>2. CASE serverEnd[c] # "queued"
        BY <1>4, <3>2 DEF FlowInv, SelfInv
      <3> QED
        BY <3>1, <3>2
    <2> QED
      BY <1>1, <2>1 DEF FlowInv, SelfInv
  <1>8. SaidInv'
    <2>1. ASSUME NEW d \in Clients
          PROVE  \E v : Stands(d, v)' /\ Says(d, v)' /\ \A b \in Clients \ {d} : Hears(b, d, v)'
      <3>1. PICK v : Stands(d, v) /\ Says(d, v) /\ \A b \in Clients \ {d} : Hears(b, d, v)
        BY DEF FlowInv, SaidInv
      <3>2. v \in View
        BY <3>1 DEF Stands
      <3> QED
        BY <1>5, <1>6, <3>1, <3>2
    <2> QED
      BY <2>1 DEF SaidInv
  <1> QED
    BY <1>7, <1>8 DEF FlowInv

LEMMA StopFlow ==
    ASSUME TypeInv, TcpChatAssumption, SlotInv, FlowInv, TypeInv', OwnInv', Stop
    PROVE  FlowInv'
  <1>1. PICK cs : cs = {c \in Clients : serverEnd[c] \in {"queued", "open"}}
    OBVIOUS
  <1>2. /\ slot' = [s \in Slots |-> Free] /\ CloseServerEnds(cs, toServer)
        /\ UNCHANGED <<cpc, out, outgoing, incoming, count, first, heard, dropped>>
    BY <1>1 DEF Stop, client, local, history
  <1>3. /\ \A c \in Clients \ cs : /\ serverEnd'[c] = serverEnd[c] /\ toServer'[c] = toServer[c]
                                   /\ toClient'[c] = toClient[c]
        /\ \A c \in Clients \cap cs : /\ serverEnd'[c] = "closed" /\ toServer'[c] = <<>>
                                      /\ toClient'[c] \in {<<>>, toClient[c]}
    BY <1>2, Closing DEF TypeInv, SocketsTyped
  <1>4. \A c \in Clients : serverEnd'[c] \in {"none", "closed"} /\ (serverEnd'[c] = "none" => serverEnd[c] = "none")
    BY <1>1, <1>3 DEF TypeInv, SocketsTyped, Ends
  <1>5. \A c \in Clients : Unmoved(c)
    BY <1>2 DEF Unmoved
  <1>6. ASSUME NEW c \in Clients
        PROVE  Queued(c)' = Queued(c) \/ \E rest \in Seq(FrameType) : Queued(c) = Queued(c)' \o rest
    <2>1. CASE serverEnd[c] = "open"
      <3>1. Shut(c) /\ toClient'[c] \in {<<>>, toClient[c]}
        BY <1>1, <1>3, <2>1 DEF Shut
      <3> QED
        BY <3>1, ShutQueue DEF SlotInv
    <2>2. CASE serverEnd[c] # "open"
      <3>1. Queued(c) = toClient[c]
        BY <2>2, Queues DEF SlotInv
      <3>2. Queued(c)' = toClient'[c]
        BY <1>4, NextQueues
      <3>3. serverEnd[c] = "queued" => toClient[c] = <<>>
        BY DEF SlotInv, QuietInv, Quiet
      <3>4. toClient'[c] = toClient[c]
        BY <1>1, <1>3, <2>2, <3>3
      <3> QED
        BY <3>1, <3>2, <3>4
    <2> QED
      BY <2>1, <2>2
  <1>7. ASSUME NEW c \in Clients, NEW d \in Clients, NEW v, Hears(c, d, v) PROVE Hears(c, d, Fresh)'
    <2>1. serverEnd'[c] # "open"
      BY <1>4
    <2>2. CASE Queued(c)' = Queued(c)
      BY <1>5, <1>7, <2>1, <2>2, HearsSame
    <2>3. CASE \E rest \in Seq(FrameType) : Queued(c) = Queued(c)' \o rest
      BY <1>5, <1>7, <2>1, <2>3, NextQueues, HearsLess
    <2> QED
      BY <1>6, <2>2, <2>3
  <1>8. ASSUME NEW d \in Clients, NEW v, Stands(d, v), Says(d, v)
        PROVE  Stands(d, Fresh)' /\ Says(d, Fresh)'
    <2>1. \A s \in Slots : slot'[s].client # d
      BY <1>2, ConstantsTyped
    <2>2. Fresh.transfer.id = 0
      BY DEF Fresh, NoTransfer
    <2>3. Stands(d, Fresh)'
      BY <2>1, <2>2, FreshTyped DEF Stands
    <2>4. CASE serverEnd'[d] = "none"
      <3>1. serverEnd[d] = "none" /\ v = Fresh /\ toServer'[d] = toServer[d]
        BY <1>1, <1>3, <1>4, <1>8, <2>4 DEF Stands
      <3>2. Says(d, v)'
        BY <1>2, <1>8, <3>1, SaysSame
      <3> QED
        BY <2>3, <3>1, <3>2
    <2>5. CASE serverEnd'[d] = "closed"
      BY <2>3, <2>5 DEF Says
    <2> QED
      BY <1>4, <2>4, <2>5
  <1>9. SelfInv'
    <2>1. ASSUME NEW c \in Clients PROVE \A i \in 1 .. Len(Queued(c)') : (Queued(c)')[i].from # c
      <3>1. PICK old \in Seq(FrameType), new \in Seq(FrameType) : old = Queued(c) /\ new = Queued(c)'
        BY Queues, NextQueues DEF SlotInv
      <3>2. \A i \in 1 .. Len(old) : old[i].from # c
        BY <3>1 DEF FlowInv, SelfInv
      <3>3. new = old \/ \E rest \in Seq(FrameType) : old = new \o rest
        BY <1>6, <3>1
      <3>4. \A i \in 1 .. Len(new) : new[i].from # c
        BY <3>2, <3>3, PartOfOthers
      <3> QED
        BY <3>1, <3>4
    <2> QED
      BY <1>2, <2>1 DEF FlowInv, SelfInv
  <1>10. SaidInv'
    <2>1. ASSUME NEW d \in Clients
          PROVE  \E v : Stands(d, v)' /\ Says(d, v)' /\ \A b \in Clients \ {d} : Hears(b, d, v)'
      <3>1. PICK v : Stands(d, v) /\ Says(d, v) /\ \A b \in Clients \ {d} : Hears(b, d, v)
        BY DEF FlowInv, SaidInv
      <3>2. Stands(d, Fresh)' /\ Says(d, Fresh)' /\ \A b \in Clients \ {d} : Hears(b, d, Fresh)'
        BY <1>7, <1>8, <3>1
      <3> QED
        BY <3>2
    <2> QED
      BY <2>1 DEF SaidInv
  <1> QED
    BY <1>9, <1>10 DEF FlowInv

-----------------------------------------------------------------------------
(* Every step.                                                             *)

LEMMA FlowStep == ASSUME TypeInv, TcpChatAssumption, SlotInv, FlowInv, [Next]_vars PROVE FlowInv'
  <1>1. TypeInv' /\ OwnInv'
    BY TypeStep, SlotStep DEF SlotInv
  <1>2. ASSUME NEW e \in events \union {current}, Skip(e) \/ ReceiveFrame(e) \/ GiveUp(e) \/ Write(e)
        PROVE  FlowInv'
    <2>1. CASE Skip(e)
      BY <2>1, IdleFlow DEF Skip
    <2> QED
      BY <1>1, <1>2, <2>1, ReceiveFrameFlow, GiveUpFlow, WriteFlow
  <1>3. ASSUME NEW c \in Clients, NEW line \in {"message", "file", "empty", "exit"}, Type(c, line)
        PROVE  FlowInv'
    BY <1>3, TypeFlow
  <1>4. ASSUME NEW c \in Clients,
               \/ Start(c) \/ ReadFails(c) \/ Receive(c) \/ ServerGone(c) \/ Round(c) \/ Drain(c)
               \/ DrainTimeout(c) \/ Close(c)
        PROVE  FlowInv'
    BY <1>1, <1>4, StartFlow, QuittingFlow, ReceiveFlow, RoundFlow, DrainingFlow, CloseFlow
  <1>5. CASE Wait \/ Interrupt \/ UNCHANGED vars
    BY <1>5, IdleFlow DEF Wait, Interrupt, vars, server
  <1> QED
    BY <1>1, <1>2, <1>3, <1>4, <1>5, StepCases, StopFlow, AcceptFlow

\* The inductive invariant.
Inv == TypeInv /\ SlotInv /\ FlowInv

LEMMA InvHolds == Spec => []Inv
  <1>1. Init => Inv
    BY InitTyped, InitSlots, InitFlow, TcpChatAssumption DEF Inv
  <1>2. Inv /\ [Next]_vars => Inv'
    BY TypeStep, SlotStep, FlowStep, TcpChatAssumption DEF Inv
  <1> QED
    BY <1>1, <1>2, PTL DEF Spec

-----------------------------------------------------------------------------
(* What the server accepts.                                                *)

LEMMA FlowAccepts == ASSUME Inv, TcpChatAssumption PROVE NeverRefused
  <1>1. SUFFICES ASSUME NEW s \in Slots, Active(s), toServer[slot[s].client] # <<>>
                 PROVE  Acceptable(slot[s], Head(toServer[slot[s].client]))
    BY DEF NeverRefused
  <1>2. PICK c \in Clients : c = slot[s].client
    BY <1>1 DEF Inv, TypeInv, SlotsTyped, SlotType, Active
  <1>3. serverEnd[c] = "open"
    BY <1>1, <1>2 DEF Inv, SlotInv, OwnInv
  <1>4. PICK v : Stands(c, v) /\ Says(c, v)
    BY DEF Inv, FlowInv, SaidInv
  <1>5. PICK q \in Seq(FrameType), r \in Seq(FrameType) : q = toServer[c] /\ r = out[c]
    BY DEF Inv, TypeInv, SocketsTyped, ClientTyped
  <1>6. PICK queue : queue = q \o r
    OBVIOUS
  <1>7. /\ queue \in Seq(FrameType) /\ queue # <<>>
        /\ Head(queue) = Head(q) /\ Head(queue) = queue[1] /\ 1 \in 1 .. Len(queue)
    BY <1>1, <1>2, <1>5, <1>6, HeadFirst
  <1>8. PICK w : Leads(v, queue, c, w) /\ \A i \in 1 .. Len(queue) : queue[i].from = c
    BY <1>3, <1>4, <1>5, <1>6 DEF Says, Unread
  <1>9. PICK frame : frame = Head(toServer[c])
    OBVIOUS
  <1>10. frame = Head(queue) /\ frame.from = c
    BY <1>5, <1>7, <1>8, <1>9
  <1>11. Expected(v, c, frame)
    <2>1. PICK x \in View : Goes(v, c, Head(queue), x)
      BY <1>7, <1>8, LeadsTail
    <2> QED
      BY <1>10, <2>1 DEF Goes
  <1>12. v.transfer = slot[s].transfer /\ v.stage = IF slot[s].joined THEN "joined" ELSE "new"
    BY <1>2, <1>4 DEF Stands
  <1>13. Acceptable(slot[s], frame)
    BY <1>2, <1>10, <1>11, <1>12 DEF Expected, Acceptable
  <1> QED
    BY <1>2, <1>9, <1>13

\* The server never refuses a frame of a client, whatever files, disconnections and full
\* queues came before: what handle_message and validate_file_transfer note of a transfer
\* is where its sender was when it queued the frame that is read next.
THEOREM ServerAccepts == Spec => []NeverRefused
  <1>1. Inv => NeverRefused
    BY FlowAccepts, TcpChatAssumption
  <1> QED
    BY <1>1, InvHolds, PTL

-----------------------------------------------------------------------------
(* What the clients are sent.                                              *)

\* A non-empty set of numbers has a least element.
LEMMA LeastNatural ==
    ASSUME NEW S \in SUBSET Nat, S # {}
    PROVE  \E n \in S : \A k \in S : n <= k
  <1> DEFINE R == OpToRel(<, Nat)
  <1>1. IsWellFoundedOn(R, Nat)
    BY NatLessThanWellFounded
  <1>2. R = {pair \in Nat \X Nat : pair[1] < pair[2]}
    BY Zenon DEF OpToRel
  <1> HIDE DEF R
  <1>3. PICK n \in S : \A k \in S : <<k, n>> \notin R
    BY <1>1, WFMin
  <1>4. ASSUME NEW k \in S PROVE n <= k
    <2>1. n \in Nat /\ k \in Nat
      OBVIOUS
    <2>2. <<k, n>> \notin {pair \in Nat \X Nat : pair[1] < pair[2]}
      BY <1>2, <1>3, Zenon
    <2> QED
      BY <2>1, <2>2, SMT
  <1> QED
    BY <1>4

\* The first place after a where something that held does not hold any more.
LEMMA FirstChange ==
    ASSUME NEW a \in Nat, NEW b \in Nat, a <= b, NEW S, a \in S, b \notin S
    PROVE  \E k \in a + 1 .. b : k - 1 \in S /\ k \notin S
  <1>1. PICK T : T = {k \in a .. b : k \notin S}
    OBVIOUS
  <1>2. T \in SUBSET Nat /\ b \in T
    BY <1>1
  <1>3. PICK k \in T : \A j \in T : k <= j
    BY <1>2, LeastNatural
  <1>4. k \in a .. b /\ k \notin S /\ k # a
    BY <1>1, <1>3
  <1>5. k \in a + 1 .. b /\ k - 1 \in a .. b
    BY <1>4
  <1>6. k - 1 \in S
    BY <1>1, <1>3, <1>4, <1>5
  <1> QED
    BY <1>4, <1>5, <1>6

\* Nothing of d is in a part of a queue.
Silent(queue, d, a, b) == \A k \in a + 1 .. b : queue[k].from # d

\* Where a hearer is while it hears nothing of d, and once it has heard that d left.
LEMMA StepsStand ==
    ASSUME NEW d, NEW queue \in Seq(FrameType), NEW views, Steps(views, queue, d),
           NEW a \in 0 .. Len(queue), NEW b \in a .. Len(queue),
           Silent(queue, d, a, b)
    PROVE  views[b] = views[a]
  <1>1. PICK n \in Nat : n = Len(queue)
    BY LenProperties
  <1>2. a \in Nat /\ b \in Nat /\ a <= b /\ b <= n
    BY <1>1
  <1>3. PICK S : S = {k \in 0 .. n : views[k] = views[a]}
    OBVIOUS
  <1>4. SUFFICES ASSUME views[b] # views[a] PROVE FALSE
    OBVIOUS
  <1>5. a \in S /\ b \notin S
    BY <1>2, <1>3, <1>4
  <1>6. PICK k \in a + 1 .. b : k - 1 \in S /\ k \notin S
    BY <1>2, <1>5, FirstChange
  <1>7. k \in 1 .. n /\ k \in 0 .. n
    BY <1>2
  <1>8. Goes(views[k - 1], d, queue[k], views[k]) /\ queue[k].from # d
    BY <1>1, <1>7 DEF Steps, Silent
  <1>9. views[k] = views[k - 1]
    BY <1>8 DEF Goes
  <1> QED
    BY <1>3, <1>6, <1>7, <1>9

LEMMA StepsLeft ==
    ASSUME NEW d, NEW queue \in Seq(FrameType), NEW views, Steps(views, queue, d),
           NEW a \in 0 .. Len(queue), NEW b \in a .. Len(queue), views[a].stage = "left"
    PROVE  views[b].stage = "left"
  <1>1. PICK n \in Nat : n = Len(queue)
    BY LenProperties
  <1>2. a \in Nat /\ b \in Nat /\ a <= b /\ b <= n
    BY <1>1
  <1>3. PICK S : S = {k \in 0 .. n : views[k].stage = "left"}
    OBVIOUS
  <1>4. SUFFICES ASSUME views[b].stage # "left" PROVE FALSE
    OBVIOUS
  <1>5. a \in S /\ b \notin S
    BY <1>2, <1>3, <1>4
  <1>6. PICK k \in a + 1 .. b : k - 1 \in S /\ k \notin S
    BY <1>2, <1>5, FirstChange
  <1>7. k \in 1 .. n /\ k \in 0 .. n
    BY <1>2
  <1>8. Goes(views[k - 1], d, queue[k], views[k])
    BY <1>1, <1>7 DEF Steps
  <1>9. views[k - 1].stage = "left"
    BY <1>3, <1>6
  <1>10. views[k] = views[k - 1]
    BY <1>8, <1>9 DEF Goes, Expected
  <1> QED
    BY <1>3, <1>6, <1>7, <1>9, <1>10

\* Two frames of d, the later of which is the next one or not.
LEMMA StepsOrder ==
    ASSUME NEW d, NEW queue \in Seq(FrameType), NEW views, Steps(views, queue, d),
           NEW i \in 1 .. Len(queue), queue[i].from = d,
           NEW j \in 1 .. i - 1, queue[j].from = d
    PROVE  /\ queue[j].type # "leave"
           /\ queue[i].type # "leave" /\ {k \in j + 1 .. i - 1 : queue[k].from = d} = {} =>
                 queue[i].n = queue[j].n + 1
  <1>1. PICK n \in Nat : n = Len(queue)
    BY LenProperties
  <1>2. j \in 1 .. n /\ i - 1 \in j .. n /\ j \in 0 .. n
    BY <1>1
  <1>3. Goes(views[i - 1], d, queue[i], views[i]) /\ Goes(views[j - 1], d, queue[j], views[j])
    BY <1>1, <1>2 DEF Steps
  <1>4. /\ Expected(views[i - 1], d, queue[i]) /\ Expected(views[j - 1], d, queue[j])
        /\ views[j] = After(views[j - 1], queue[j])
    BY <1>3 DEF Goes
  <1>5. queue[j].type # "leave"
    <2>1. SUFFICES ASSUME queue[j].type = "leave" PROVE FALSE
      OBVIOUS
    <2>2. views[j].stage = "left"
      BY <1>4, <2>1 DEF After
    <2>3. views[i - 1].stage = "left"
      BY <1>1, <1>2, <2>2, StepsLeft
    <2> QED
      BY <1>4, <2>3 DEF Expected
  <1>6. ASSUME queue[i].type # "leave", {k \in j + 1 .. i - 1 : queue[k].from = d} = {}
        PROVE  queue[i].n = queue[j].n + 1
    <2>1. PICK b \in j .. Len(queue) : b = i - 1
      BY <1>1, <1>2
    <2>2. j \in 0 .. Len(queue) /\ Silent(queue, d, j, b)
      BY <1>1, <1>2, <1>6, <2>1 DEF Silent
    <2>3. views[b] = views[j]
      BY <2>2, StepsStand
    <2>4. views[j].n = queue[j].n
      BY <1>4, <1>5 DEF After
    <2>5. queue[i].n = views[i - 1].n + 1
      BY <1>4, <1>6 DEF Expected
    <2> QED
      BY <2>1, <2>3, <2>4, <2>5
  <1> QED
    BY <1>5, <1>6

LEMMA FlowOrdered == ASSUME Inv, TcpChatAssumption PROVE InOrderOnce
  <1>1. SUFFICES ASSUME NEW c \in Clients, NEW d \in Clients, serverEnd[c] = "open", cpc[c] = "run",
                        NEW queue, queue = Queued(c), NEW i \in DOMAIN queue, queue[i].from = d
                 PROVE  /\ queue[i].type # "leave" /\ {k \in 0 + 1 .. i - 1 : queue[k].from = d} = {} =>
                              heard[c][d] \in {0, queue[i].n - 1}
                        /\ \A j \in 1 .. i - 1 : queue[j].from = d =>
                              /\ queue[j].type # "leave"
                              /\ queue[i].type # "leave"
                                    /\ {k \in j + 1 .. i - 1 : queue[k].from = d} = {} =>
                                       queue[i].n = queue[j].n + 1
    BY DEF InOrderOnce
  <1>2. queue \in Seq(FrameType)
    BY <1>1, Queues, TcpChatAssumption DEF Inv, SlotInv
  <1>3. PICK n \in Nat : n = Len(queue) /\ DOMAIN queue = 1 .. n
    BY <1>2, LenProperties
  <1>4. d # c
    BY <1>1, <1>3 DEF Inv, FlowInv, SelfInv
  <1>5. PICK v : Hears(c, d, v)
    BY <1>4 DEF Inv, FlowInv, SaidInv
  <1>6. PICK u, w : Knows(c, d, u) /\ Leads(u, queue, d, w)
    BY <1>1, <1>5 DEF Hears
  <1>7. PICK views : Steps(views, queue, d) /\ views[0] = u
    BY <1>6 DEF Leads
  <1>8. \A j \in 1 .. i - 1 : queue[j].from = d =>
           /\ queue[j].type # "leave"
           /\ queue[i].type # "leave" /\ {k \in j + 1 .. i - 1 : queue[k].from = d} = {} =>
                 queue[i].n = queue[j].n + 1
    BY <1>1, <1>2, <1>3, <1>7, StepsOrder
  <1>9. ASSUME queue[i].type # "leave", {k \in 0 + 1 .. i - 1 : queue[k].from = d} = {}
        PROVE  heard[c][d] \in {0, queue[i].n - 1}
    <2>1. PICK b \in 0 .. Len(queue) : b = i - 1
      BY <1>3
    <2>2. 0 \in 0 .. Len(queue) /\ i \in 1 .. n /\ Silent(queue, d, 0, b) /\ b \in 0 .. Len(queue)
      BY <1>3, <1>9, <2>1 DEF Silent
    <2>3. views[b] = u
      <3>1. views[b] = views[0]
        BY <1>2, <1>7, <2>2, StepsStand
      <3> QED
        BY <1>7, <3>1
    <2>4. Goes(u, d, queue[i], views[i])
      BY <1>3, <1>7, <2>1, <2>2, <2>3 DEF Steps
    <2>5. queue[i].n = u.n + 1
      BY <1>1, <1>9, <2>4 DEF Goes, Expected
    <2>6. u.n \in Nat
      BY <1>2, <1>6, LeadsTyped DEF View
    <2>7. heard[c][d] \in {0, u.n}
      BY <1>6 DEF Knows
    <2> QED
      BY <2>5, <2>6, <2>7
  <1> QED
    BY <1>8, <1>9

\* A client is sent every frame of another one from some frame on, in order and without
\* gaps, and nothing after the news that it left, for any number of clients and slots,
\* with connections closed and slots given to others in between: broadcast_frame queues a
\* frame for all that have joined or closes their connections.
THEOREM SentInOrderOnce == Spec => []InOrderOnce
  <1>1. Inv => InOrderOnce
    BY FlowOrdered, TcpChatAssumption
  <1> QED
    BY <1>1, InvHolds, PTL

-----------------------------------------------------------------------------
(* What the clients accept.                                                *)

\* The next frame of a client, and where its sender was before it.
LEMMA NextFrame ==
    ASSUME Inv, TcpChatAssumption, NEW c \in Clients, cpc[c] = "run", toClient[c] # <<>>,
           NEW frame, frame = Head(toClient[c])
    PROVE  /\ frame \in FrameType /\ frame.from # c
           /\ \E u \in View : Knows(c, frame.from, u) /\ Expected(u, frame.from, frame)
  <1>1. PICK queue \in Seq(FrameType) : queue = Queued(c) /\ queue # <<>> /\ Head(queue) = frame
                                        /\ frame = queue[1] /\ 1 \in 1 .. Len(queue)
    <2>1. PICK rest \in Seq(FrameType) : Queued(c) = toClient[c] \o rest
      <3>1. CASE serverEnd[c] = "open"
        <4>1. PICK s \in Slots : slot[s].client = c
          BY <3>1 DEF Inv, SlotInv, OwnInv
        <4>2. Queued(c) = toClient[c] \o slot[s].out
          BY <4>1, Queues, ConstantsTyped DEF Inv, SlotInv, Active
        <4> QED
          BY <4>2 DEF Inv, TypeInv, SlotsTyped, SlotType
      <3>2. CASE serverEnd[c] # "open"
        <4>1. Queued(c) = toClient[c]
          BY <3>2, Queues DEF Inv, SlotInv
        <4>2. toClient[c] \in Seq(FrameType)
          BY DEF Inv, TypeInv, SocketsTyped
        <4>3. toClient[c] = toClient[c] \o <<>> /\ <<>> \in Seq(FrameType)
          BY <4>2, ConcatEmptySeq, EmptySeq
        <4> QED
          BY <4>1, <4>3
      <3> QED
        BY <3>1, <3>2
    <2>2. PICK q \in Seq(FrameType) : q = toClient[c]
      BY DEF Inv, TypeInv, SocketsTyped
    <2>3. /\ q \o rest \in Seq(FrameType) /\ q \o rest # <<>> /\ Head(q \o rest) = Head(q)
          /\ Head(q \o rest) = (q \o rest)[1] /\ 1 \in 1 .. Len(q \o rest)
      BY <2>2, HeadFirst
    <2> QED
      BY <2>1, <2>2, <2>3
  <1>2. frame \in FrameType /\ frame.from # c
    <2>1. frame \in FrameType
      BY <1>1, ElementOfSeq
    <2> QED
      BY <1>1, <2>1 DEF Inv, FlowInv, SelfInv
  <1>3. PICK d \in Clients \ {c} : d = frame.from
    BY <1>2 DEF FrameType
  <1>4. PICK v : Hears(c, d, v)
    BY DEF Inv, FlowInv, SaidInv
  <1>5. PICK u, w : Knows(c, d, u) /\ Leads(u, queue, d, w)
    BY <1>1, <1>4 DEF Hears
  <1>6. u \in View
    BY <1>5, LeadsTyped
  <1>7. PICK x : Goes(u, d, Head(queue), x)
    BY <1>1, <1>5, LeadsTail
  <1>8. Expected(u, d, frame)
    BY <1>1, <1>3, <1>7 DEF Goes
  <1> QED
    BY <1>2, <1>3, <1>5, <1>6, <1>8

\* A frame about a file is refused by a client that has come too late for the file, and
\* the beginning of one only if as many other files as it can receive are under way.
LEMMA RefusedOnes ==
    ASSUME Inv, TcpChatAssumption, NEW c \in Clients, cpc[c] = "run", toClient[c] # <<>>,
           NEW frame, frame = Head(toClient[c]), Refuses(c, frame)
    PROVE  \/ /\ frame.type # "begin"
              /\ first[c][frame.from] = 0 \/ first[c][frame.from] > frame.id
           \/ /\ frame.type = "begin" /\ Cardinality(incoming[c]) >= IncomingMax
              /\ From(incoming[c], frame.from) = {}
  <1>1. PICK d : d = frame.from
    OBVIOUS
  <1>2. frame \in FrameType /\ \E u \in View : Knows(c, d, u) /\ Expected(u, d, frame)
    BY <1>1, NextFrame
  <1>3. PICK u \in View : Knows(c, d, u) /\ Expected(u, d, frame)
    BY <1>2
  <1>4. u.n \in Nat /\ u.transfer \in TransferType /\ u.transfer.id <= u.n /\ u.transfer.id \in Nat
    BY DEF View, TransferType
  <1>5. d \in Clients /\ first[c][d] \in Nat /\ frame.id \in Nat
    BY <1>1, <1>2 DEF FrameType, Inv, TypeInv, HistoryTyped
  <1>6. PICK since : since = first[c][d] /\ since \in Nat
    BY <1>5
  <1>7. From(incoming[c], d) = Files(d, since, u)
    BY <1>3, <1>6 DEF Knows, From
  <1>8. Incoming(c, d, frame.id) = {f \in From(incoming[c], d) : f.id = frame.id}
    BY DEF Incoming, From
  <1>9. CASE frame.type = "begin"
    <2>1. u.transfer.id = 0
      BY <1>3, <1>9 DEF Expected
    <2>2. From(incoming[c], d) = {}
      BY <1>6, <1>7, <2>1 DEF Files
    <2>3. Incoming(c, d, frame.id) = {}
      BY <1>8, <2>2
    <2>4. Cardinality(incoming[c]) >= IncomingMax
      BY <1>1, <1>9, <2>3 DEF Refuses
    <2> QED
      BY <1>1, <1>9, <2>2, <2>4
  <1>10. CASE frame.type \in {"chunk", "end"}
    <2>1. /\ u.transfer.id = frame.id
          /\ frame.type = "chunk" => u.transfer.done < u.transfer.size
          /\ frame.type = "end" => u.transfer.done = u.transfer.size
      BY <1>3, <1>10 DEF Expected
    <2>2. SUFFICES ASSUME since # 0, since <= frame.id PROVE FALSE
      BY <1>1, <1>5, <1>6, <1>10
    <2>3. PICK f : f = [from |-> d, id |-> u.transfer.id, size |-> u.transfer.size, done |-> u.transfer.done]
      OBVIOUS
    <2>4. f \in From(incoming[c], d) /\ f.id = frame.id /\ f.size = u.transfer.size /\ f.done = u.transfer.done
      BY <1>7, <2>1, <2>2, <2>3 DEF Files
    <2>5. f \in Incoming(c, d, frame.id)
      BY <1>8, <2>4
    <2>6. u.transfer.done \in Nat /\ u.transfer.size \in Nat
      BY <1>4 DEF TransferType
    <2>7. CASE frame.type = "chunk"
      <3>1. f.done >= f.size
        BY <1>1, <2>5, <2>7 DEF Refuses
      <3> QED
        BY <2>1, <2>4, <2>6, <2>7, <3>1
    <2>8. CASE frame.type = "end"
      <3>1. f.done # f.size
        BY <1>1, <2>5, <2>8 DEF Refuses
      <3> QED
        BY <2>1, <2>4, <2>8, <3>1
    <2> QED
      BY <1>10, <2>7, <2>8
  <1>11. CASE frame.type \notin {"begin", "chunk", "end"}
    BY <1>11 DEF Refuses
  <1> QED
    BY <1>9, <1>10, <1>11

\* A client keeps at most one file of every other client.
LEMMA OneFileEach ==
    ASSUME Inv, TcpChatAssumption, NEW c \in Clients, cpc[c] = "run", IsFiniteSet(Clients),
           NEW d \in Clients \ {c}, From(incoming[c], d) = {}
    PROVE  Cardinality(incoming[c]) < Cardinality(Clients) - 1
  <1>1. PICK others : others = (Clients \ {c}) \ {d}
    OBVIOUS
  <1>2. IsFiniteSet(others) /\ Cardinality(others) = Cardinality(Clients) - 2 /\ Cardinality(Clients) \in Nat
    <2>1. IsFiniteSet(Clients \ {c}) /\ Cardinality(Clients \ {c}) = Cardinality(Clients) - 1
      BY FS_RemoveElement
    <2>2. IsFiniteSet(others) /\ Cardinality(others) = Cardinality(Clients \ {c}) - 1
      BY <1>1, <2>1, FS_RemoveElement
    <2>3. Cardinality(Clients) \in Nat
      BY FS_CardinalityType
    <2> QED
      BY <2>1, <2>2, <2>3
  <1>3. \A f \in incoming[c] : f.from \in others
    <2>1. TAKE f \in incoming[c]
    <2>2. f.from \in Clients /\ f.from # c
      BY DEF Inv, TypeInv, ClientTyped, FileType, FlowInv, SelfInv
    <2>3. f.from # d
      BY DEF From
    <2> QED
      BY <1>1, <2>2, <2>3
  <1>4. ASSUME NEW f \in incoming[c], NEW g \in incoming[c], f.from = g.from PROVE f = g
    <2>1. PICK b \in Clients \ {c} : b = f.from
      BY <1>1, <1>3
    <2>2. PICK v : Hears(c, b, v)
      BY DEF Inv, FlowInv, SaidInv
    <2>3. PICK u : Knows(c, b, u)
      BY <2>2 DEF Hears
    <2>4. {h \in incoming[c] : h.from = b} = Files(b, first[c][b], u)
      BY <2>3 DEF Knows
    <2>5. f \in Files(b, first[c][b], u) /\ g \in Files(b, first[c][b], u)
      BY <1>4, <2>1, <2>4
    <2> QED
      BY <2>5 DEF Files
  <1>5. IsFiniteSet(incoming[c])
    BY DEF Inv, TypeInv, ClientTyped
  <1>6. PICK senders : senders = [f \in incoming[c] |-> f.from]
    OBVIOUS
  <1>7. senders \in [incoming[c] -> others] /\ \A f, g \in incoming[c] : senders[f] = senders[g] => f = g
    BY <1>3, <1>4, <1>6
  <1>8. ~(Cardinality(others) < Cardinality(incoming[c]))
    <2>1. SUFFICES ASSUME Cardinality(others) < Cardinality(incoming[c]) PROVE FALSE
      OBVIOUS
    <2>2. \E f, g \in incoming[c] : f # g /\ senders[f] = senders[g]
      BY <1>2, <1>5, <1>7, <2>1, FS_PigeonHole
    <2> QED
      BY <1>7, <2>2
  <1>9. Cardinality(incoming[c]) \in Nat /\ Cardinality(others) \in Nat
    BY <1>2, <1>5, FS_CardinalityType
  <1> QED
    BY <1>2, <1>8, <1>9

\* A client fails over a frame of a file only if it joined after the file was begun, and
\* over the beginning of a file only if it is receiving as many files as it can, all of
\* other senders.
OnlyLateOrFullOnesRefuse ==
    \A c \in Clients : toClient[c] # <<>> /\ cpc[c] = "run" =>
        LET frame == Head(toClient[c])
        IN  Refuses(c, frame) =>
                \/ /\ frame.type # "begin"
                   /\ first[c][frame.from] = 0 \/ first[c][frame.from] > frame.id
                \/ /\ frame.type = "begin" /\ Cardinality(incoming[c]) >= IncomingMax
                   /\ From(incoming[c], frame.from) = {}

\* Whatever the number of clients, a client that has been there since a file began never
\* fails over it; its limit of incoming files is the only other reason to fail
\* (begin_incoming_file, write_incoming_chunk, finish_incoming_file).
THEOREM ClientsAccept == Spec => []OnlyLateOrFullOnesRefuse
  <1>1. Inv => OnlyLateOrFullOnesRefuse
    BY RefusedOnes, TcpChatAssumption DEF OnlyLateOrFullOnesRefuse
  <1> QED
    BY <1>1, InvHolds, PTL

LEMMA FlowFramesAccepted ==
    ASSUME Inv, TcpChatAssumption, IsFiniteSet(Clients), Cardinality(Clients) <= IncomingMax + 1
    PROVE  FramesAccepted
  <1>1. ASSUME NEW c \in Clients, toClient[c] # <<>>, cpc[c] = "run",
               NEW frame, frame = Head(toClient[c]), Refuses(c, frame)
        PROVE  frame.type # "begin" /\ (first[c][frame.from] = 0 \/ first[c][frame.from] > frame.id)
    <2>1. SUFFICES ASSUME Cardinality(incoming[c]) >= IncomingMax, From(incoming[c], frame.from) = {}
                   PROVE  FALSE
      BY <1>1, RefusedOnes
    <2>2. PICK d \in Clients \ {c} : d = frame.from
      BY <1>1, NextFrame DEF FrameType
    <2>3. Cardinality(incoming[c]) < Cardinality(Clients) - 1
      BY <1>1, <2>1, <2>2, OneFileEach
    <2>4. Cardinality(incoming[c]) \in Nat /\ Cardinality(Clients) \in Nat /\ IncomingMax \in Nat
      BY FS_CardinalityType, TcpChatAssumption DEF Inv, TypeInv, ClientTyped, TcpChatAssumption
    <2> QED
      BY <2>1, <2>3, <2>4
  <1>2. OnlyLateOnesRefuse
    BY <1>1 DEF OnlyLateOnesRefuse
  <1> QED
    BY <1>2, FlowAccepts DEF FramesAccepted

\* As long as no more than CLIENT_INCOMING_FILES_MAX others can be connected, client and
\* server agree on which frames may come: the server accepts them all, and a client fails
\* only over a file that was begun before it joined.
THEOREM AllAccepted ==
    ASSUME IsFiniteSet(Clients), Cardinality(Clients) <= IncomingMax + 1
    PROVE  Spec => []FramesAccepted
  <1>1. Inv => FramesAccepted
    BY FlowFramesAccepted, TcpChatAssumption
  <1> QED
    BY <1>1, InvHolds, PTL

-----------------------------------------------------------------------------
(* How files end.                                                          *)

\* A hearer's view of a file changes only with the end of it or with its sender's leaving.
LEMMA FileEnds ==
    ASSUME NEW d, NEW queue \in Seq(FrameType), NEW u \in View, NEW w, Leads(u, queue, d, w),
           u.transfer.id # 0, w.transfer.id # u.transfer.id
    PROVE  \E i \in 1 .. Len(queue) :
              queue[i].from = d /\ (queue[i].type = "leave" \/ (queue[i].type = "end" /\ queue[i].id = u.transfer.id))
  <1>1. PICK n \in Nat : n = Len(queue)
    BY LenProperties
  <1>2. PICK views : Steps(views, queue, d) /\ views[0] = u /\ views[n] = w
    BY <1>1 DEF Leads
  <1>3. PICK S : S = {k \in 0 .. n : views[k].transfer.id = u.transfer.id}
    OBVIOUS
  <1>4. 0 \in S /\ n \notin S /\ 0 \in Nat /\ 0 <= n
    BY <1>1, <1>2, <1>3
  <1>5. PICK k \in 0 + 1 .. n : k - 1 \in S /\ k \notin S
    BY <1>4, FirstChange
  <1>6. k \in 1 .. n /\ k \in 0 .. n
    BY <1>5
  <1>7. PICK v, x, frame : v = views[k - 1] /\ x = views[k] /\ frame = queue[k]
    OBVIOUS
  <1>8. Goes(v, d, frame, x) /\ v.transfer.id = u.transfer.id /\ x.transfer.id # u.transfer.id
    BY <1>1, <1>2, <1>3, <1>5, <1>6, <1>7 DEF Steps
  <1>9. v \in View /\ frame \in FrameType
    <2>1. k - 1 \in 0 .. n
      BY <1>3, <1>5
    <2> QED
      BY <1>1, <1>2, <1>6, <1>7, <2>1, ElementOfSeq DEF Steps
  <1>10. frame.from = d /\ Expected(v, d, frame) /\ x = After(v, frame)
    BY <1>8 DEF Goes
  <1>11. CASE frame.type \in {"join", "message"}
    <2>1. x.transfer = v.transfer
      BY <1>10, <1>11 DEF After
    <2> QED
      BY <1>8, <2>1
  <1>12. CASE frame.type = "begin"
    BY <1>8, <1>10, <1>12 DEF Expected
  <1>13. CASE frame.type = "chunk"
    <2>1. x.transfer = [v.transfer EXCEPT !.done = @ + 1] /\ v.transfer \in TransferType
      BY <1>9, <1>10, <1>13 DEF After, View
    <2>2. x.transfer.id = v.transfer.id
      BY <2>1 DEF TransferType
    <2> QED
      BY <1>8, <2>2
  <1>14. CASE frame.type = "end"
    <2>1. frame.id = u.transfer.id
      BY <1>8, <1>10, <1>14 DEF Expected
    <2> QED
      BY <1>1, <1>6, <1>7, <1>10, <1>14, <2>1
  <1>15. CASE frame.type = "leave"
    BY <1>1, <1>6, <1>7, <1>10, <1>15
  <1> QED
    BY <1>9, <1>11, <1>12, <1>13, <1>14, <1>15 DEF FrameType, Kinds

LEMMA FlowEnds == ASSUME Inv, TcpChatAssumption PROVE NoOrphans
  <1>1. SUFFICES ASSUME NEW c \in Clients, serverEnd[c] = "open", cpc[c] = "run", NEW f \in incoming[c],
                        f.from \notin dropped,
                        ~ \E s \in Slots : slot[s].client = f.from /\ slot[s].transfer.id = f.id
                 PROVE  \E i \in DOMAIN Queued(c) :
                           /\ Queued(c)[i].from = f.from
                           /\ \/ Queued(c)[i].type = "leave"
                              \/ Queued(c)[i].type = "end" /\ Queued(c)[i].id = f.id
    BY DEF NoOrphans
  <1>2. PICK d \in Clients \ {c} : d = f.from
    BY DEF Inv, TypeInv, ClientTyped, FileType, FlowInv, SelfInv
  <1>3. PICK v : Stands(d, v) /\ Hears(c, d, v)
    BY DEF Inv, FlowInv, SaidInv
  <1>4. PICK u : Knows(c, d, u) /\ Leads(u, Queued(c), d, v)
    BY <1>1, <1>3 DEF Hears
  <1>5. PICK queue \in Seq(FrameType) : queue = Queued(c)
    BY Queues DEF Inv, SlotInv
  <1>6. u \in View
    BY <1>4, <1>5, LeadsTyped
  <1>7. f.id = u.transfer.id /\ f.id # 0
    <2>1. f \in Files(d, first[c][d], u)
      BY <1>2, <1>4 DEF Knows
    <2>2. f.id = u.transfer.id /\ first[c][d] # 0 /\ first[c][d] <= f.id
      BY <2>1 DEF Files
    <2>3. first[c][d] \in Nat
      BY DEF Inv, TypeInv, HistoryTyped
    <2>4. u.transfer.id \in Nat
      BY <1>6 DEF View, TransferType
    <2> QED
      BY <2>2, <2>3, <2>4
  <1>8. v.transfer.id # f.id
    <2>1. CASE serverEnd[d] = "open"
      <3>1. PICK s \in Slots : slot[s].client = d
        BY <2>1 DEF Inv, SlotInv, OwnInv
      <3>2. v.transfer = slot[s].transfer
        BY <1>3, <3>1 DEF Stands
      <3> QED
        BY <1>1, <1>2, <3>1, <3>2
    <2>2. CASE serverEnd[d] = "closed"
      BY <1>1, <1>2, <1>3, <1>7, <2>2 DEF Stands
    <2>3. CASE serverEnd[d] \in {"none", "queued"}
      BY <1>3, <1>7, <2>3 DEF Stands, Fresh, NoTransfer
    <2> QED
      BY <2>1, <2>2, <2>3 DEF Inv, TypeInv, SocketsTyped, Ends
  <1>9. \E i \in 1 .. Len(queue) :
           queue[i].from = d /\ (queue[i].type = "leave" \/ (queue[i].type = "end" /\ queue[i].id = u.transfer.id))
    BY <1>4, <1>5, <1>6, <1>7, <1>8, FileEnds
  <1>10. DOMAIN queue = 1 .. Len(queue)
    BY LenProperties
  <1> QED
    BY <1>2, <1>5, <1>7, <1>9, <1>10

\* A client that keeps a half-received file will hear how it ends, whatever the sender, the
\* server and the other clients did: the file of a sender that disappears is cancelled by
\* the news of its leaving, unless the sender was closed because it was slow.
THEOREM FilesEnd == Spec => []NoOrphans
  <1>1. Inv => NoOrphans
    BY FlowEnds, TcpChatAssumption
  <1> QED
    BY <1>1, InvHolds, PTL

=============================================================================
