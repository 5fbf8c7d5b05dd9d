------------------------------- MODULE TcpChat ------------------------------
(***************************************************************************)
(* The server and the clients of                                           *)
(* 03-ipc-and-network-programming/07-tcp-chat-and-file-transfer: an epoll  *)
(* loop over slots with output queues on one side, a poll loop per client  *)
(* on the other, nonblocking TCP connections in between.                   *)
(*                                                                         *)
(* A client is named by its sender id, and so is its only connection.      *)
(* Frames arrive whole, and buffers are measured in frames, as if every    *)
(* frame were of the greatest size.  A transfer id is the number of the    *)
(* frame that begins the transfer.  The size of a file is its number of    *)
(* chunks.                                                                 *)
(***************************************************************************)
EXTENDS Integers, FiniteSets, SequencesExt

CONSTANTS
    Clients,      \* the client processes
    SlotMax,      \* SERVER_MAX_CLIENTS
    ServerOut,    \* SERVER_OUTPUT_CAPACITY, in frames
    ClientOut,    \* CLIENT_OUTPUT_CAPACITY, in frames
    IncomingMax,  \* CLIENT_INCOMING_FILES_MAX
    Wire,         \* frames a connection buffers in one direction
    Size,         \* chunks of a file that is not empty
    Scripts       \* what the users do: each a tuple of sequences of <<process, line>>

Nobody == "nobody"

ASSUME TcpChatAssumption ==
    /\ Nobody \notin Clients
    /\ SlotMax \in Nat \ {0} /\ ServerOut \in Nat \ {0} /\ ClientOut \in Nat \ {0}
    /\ IncomingMax \in Nat \ {0} /\ Wire \in Nat \ {0} /\ Size \in Nat \ {0}
    /\ \A s \in Scripts : \A u \in DOMAIN s : ToSet(s[u]) \subseteq
          (Clients \X {"start", "message", "file", "empty", "exit", "shorten"})
             \union {<<"server", "interrupt">>}

VARIABLES
    spc,                \* where the server is
    events, current,    \* epoll events still to be handled, the one being handled
    slot,               \* server->clients
    backlog,            \* connections not accepted yet
    stop,               \* the server's stop flag
    cpc,                \* where each client is
    out, outgoing,      \* its output queue, the file it is sending
    incoming,           \* the files it is receiving
    count,              \* frames it has queued
    serverEnd, clientEnd,   \* both ends of each connection
    toServer, toClient,     \* frames buffered in it
    script,             \* what each user is still going to do
    first, heard,       \* first and last frame each client handled from each other one
    dropped             \* clients closed because they were slow

server == <<spc, events, current, slot, backlog, stop>>
local == <<out, outgoing, incoming, count>>
client == <<cpc, local>>
sockets == <<serverEnd, clientEnd, toServer, toClient>>
history == <<first, heard, dropped>>
vars == <<server, client, sockets, script, history>>

Slots == 1..SlotMax
Listener == 0
NoTransfer == [id |-> 0, size |-> 0, done |-> 0]
Free == [client |-> Nobody, joined |-> FALSE, transfer |-> NoTransfer, out |-> <<>>]
NoEvent == [slot |-> Listener, flags |-> {}]

Init ==
    /\ spc = "wait" /\ events = {} /\ current = NoEvent
    /\ slot = [s \in Slots |-> Free] /\ backlog = <<>> /\ stop = FALSE
    /\ cpc = [c \in Clients |-> "off"]
    /\ out = [c \in Clients |-> <<>>] /\ outgoing = [c \in Clients |-> NoTransfer]
    /\ incoming = [c \in Clients |-> {}]
    /\ count = [c \in Clients |-> 0]
    /\ serverEnd = [c \in Clients |-> "none"] /\ clientEnd = [c \in Clients |-> "none"]
    /\ toServer = [c \in Clients |-> <<>>] /\ toClient = [c \in Clients |-> <<>>]
    /\ script \in Scripts
    /\ first = [c \in Clients |-> [d \in Clients |-> 0]]
    /\ heard = [c \in Clients |-> [d \in Clients |-> 0]]
    /\ dropped = {}

-----------------------------------------------------------------------------
(* Faulty variants of definitions below.                                   *)

Rest_Whole(queue, wire) == queue
Receivers_NotJoined(s) == {t \in Slots \ {s} : slot[t].client # Nobody}
Noted_EndKept(sl, frame) ==
    CASE frame.type = "join" -> [sl EXCEPT !.joined = TRUE]
      [] frame.type = "begin" -> [sl EXCEPT !.transfer = [id |-> frame.id, size |-> frame.size, done |-> 0]]
      [] frame.type = "chunk" -> [sl EXCEPT !.transfer.done = @ + 1]
      [] OTHER -> sl
Flags_InputOnly(s) ==
    LET c == slot[s].client
    IN  IF toServer[c] # <<>> \/ clientEnd[c] = "closed" THEN {"in"} ELSE {}
CancelledBy_Anybody(f, frame) == TRUE
CancelledBy_Nobody(f, frame) == FALSE
CanPump_NoRoom(c) == outgoing[c].id # 0

-----------------------------------------------------------------------------
(* Frames, queues and connections.                                         *)

Frame(c, type, id, size, n) == [type |-> type, from |-> c, id |-> id, size |-> size, n |-> n]

\* The only frame without a number of its own: client and server both make it.
Leave(c) == Frame(c, "leave", 0, 0, 0)

\* How many frames of a queue a connection takes.
Fits(queue, wire) == IF Len(queue) < Wire - Len(wire) THEN Len(queue) ELSE Wire - Len(wire)
Rest(queue, wire) == SubSeq(queue, Fits(queue, wire) + 1, Len(queue))
Sent(queue, wire) == wire \o SubSeq(queue, 1, Fits(queue, wire))

\* The server closes its ends of some connections.  What it has not read is
\* dropped, and then the peer may be reset before it has read all.
CloseServerEnds(cs, wires) ==
    /\ serverEnd' = [c \in Clients |-> IF c \in cs THEN "closed" ELSE serverEnd[c]]
    /\ toServer' = [c \in Clients |-> IF c \in cs THEN <<>> ELSE wires[c]]
    /\ \E reset \in SUBSET {c \in cs : wires[c] # <<>>} :
          toClient' = [c \in Clients |-> IF c \in reset THEN <<>> ELSE toClient[c]]

-----------------------------------------------------------------------------
(* The server: slots.                                                      *)

Active(s) == slot[s].client # Nobody

\* broadcast_frame: who is addressed, and who has no room for a frame.
Receivers(s) == {t \in Slots \ {s} : Active(t) /\ slot[t].joined}
Slow(s) == {t \in Receivers(s) : Len(slot[t].out) >= ServerOut}

\* The slots after a frame from s was queued for the others, the slow ones were
\* closed, and s became own.
Broadcast(s, frame, own) ==
    [t \in Slots |-> CASE t = s -> own
                       [] t \in Slow(s) -> Free
                       [] t \in Receivers(s) \ Slow(s) -> [slot[t] EXCEPT !.out = Append(@, frame)]
                       [] OTHER -> slot[t]]

\* handle_message and validate_file_transfer accept a frame.
Acceptable(sl, frame) ==
    IF ~sl.joined THEN frame.type = "join"
    ELSE /\ frame.type # "join" /\ frame.from = sl.client
         /\ frame.type = "begin" => sl.transfer.id = 0
         /\ frame.type \in {"chunk", "end"} => sl.transfer.id = frame.id
         /\ frame.type = "chunk" => sl.transfer.done < sl.transfer.size
         /\ frame.type = "end" => sl.transfer.done = sl.transfer.size

\* What they note in the slot.
Noted(sl, frame) ==
    CASE frame.type = "join" -> [sl EXCEPT !.joined = TRUE]
      [] frame.type = "begin" -> [sl EXCEPT !.transfer = [id |-> frame.id, size |-> frame.size, done |-> 0]]
      [] frame.type = "chunk" -> [sl EXCEPT !.transfer.done = @ + 1]
      [] frame.type = "end" -> [sl EXCEPT !.transfer = NoTransfer]
      [] OTHER -> sl

\* The next event of the round, or the test of the stop flag and the next round.
NextEvent(remaining) ==
    /\ events' = remaining /\ current' = NoEvent
    /\ spc' = IF remaining # {} THEN "handle" ELSE IF stop THEN "stopping" ELSE "wait"

\* disconnect_client: the others are told if the client had joined.
Disconnect(e, wires) ==
    LET s == e.slot
        slow == IF slot[s].joined THEN {slot[t].client : t \in Slow(s)} ELSE {}
    IN  /\ slot' = IF slot[s].joined THEN Broadcast(s, Leave(slot[s].client), Free)
                   ELSE [slot EXCEPT ![s] = Free]
        /\ CloseServerEnds(slow \union {slot[s].client}, wires)
        /\ dropped' = dropped \union slow
        /\ NextEvent(events \ {e})

-----------------------------------------------------------------------------
(* The server: server_run.                                                 *)

Gone(c) == clientEnd[c] = "closed"

Flags(s) ==
    LET c == slot[s].client
    IN  {flag \in {"in", "out", "hup"} :
           CASE flag = "in" -> toServer[c] # <<>> \/ Gone(c)
             [] flag = "out" -> slot[s].out # <<>> /\ (Len(toClient[c]) < Wire \/ Gone(c))
             [] flag = "hup" -> Gone(c)}

\* What epoll_wait returns, in any order.
Ready ==
    {[slot |-> s, flags |-> Flags(s)] : s \in {s \in Slots : Active(s) /\ Flags(s) # {}}}
    \union (IF backlog = <<>> THEN {} ELSE {NoEvent})

Wait ==
    /\ spc = "wait" /\ Ready # {}
    /\ spc' = "handle" /\ events' = Ready
    /\ UNCHANGED <<current, slot, backlog, stop, client, sockets, script, history>>

\* The next thing one of the users does.
User(process, line) ==
    \E u \in DOMAIN script :
        /\ script[u] # <<>> /\ Head(script[u]) = <<process, line>>
        /\ script' = [script EXCEPT ![u] = Tail(@)]

\* SIGINT ends epoll_wait, unless it came between the test of the flag and the call.
Interrupt ==
    /\ User("server", "interrupt") /\ spc # "stopped" /\ stop' = TRUE
    /\ spc' \in {spc, IF spc = "wait" THEN "stopping" ELSE spc}
    /\ UNCHANGED <<events, current, slot, backlog, client, sockets, history>>

\* cleanup_server.
Stop ==
    /\ spc = "stopping" /\ spc' = "stopped"
    /\ slot' = [s \in Slots |-> Free] /\ backlog' = <<>>
    /\ CloseServerEnds({c \in Clients : serverEnd[c] \in {"queued", "open"}}, toServer)
    /\ UNCHANGED <<events, current, stop, client, clientEnd, script, history>>

\* accept_clients: every connection gets the first free slot, or is closed.
Accepted(s) ==
    LET i == Cardinality({t \in 1..s : ~Active(t)})
    IN  IF Active(s) \/ i > Len(backlog) THEN slot[s] ELSE [Free EXCEPT !.client = backlog[i]]
Accept ==
    LET served == {c \in ToSet(backlog) : \E s \in Slots : Accepted(s).client = c}
        refused == ToSet(backlog) \ served
    IN  /\ spc = "handle" /\ NoEvent \in events
        /\ slot' = [s \in Slots |-> Accepted(s)] /\ backlog' = <<>>
        /\ serverEnd' = [c \in Clients |-> IF c \in served THEN "open"
                                           ELSE IF c \in refused THEN "closed" ELSE serverEnd[c]]
        /\ toServer' = [c \in Clients |-> IF c \in refused THEN <<>> ELSE toServer[c]]
        /\ NextEvent(events \ {NoEvent})
        /\ UNCHANGED <<stop, client, clientEnd, toClient, script, history>>

\* The event the loop is at: a new one, unless its slot was freed in this round, or
\* the one whose input is being read.
Turn(e) ==
    IF spc = "handle" THEN e \in events \ {NoEvent} /\ Active(e.slot)
    ELSE spc = "receive" /\ e = current

\* The input is read to its end before anything else is done for the slot.
MustRead(e) == "in" \in e.flags

Skip(e) ==
    /\ spc = "handle" /\ e \in events \ {NoEvent} /\ ~Active(e.slot)
    /\ NextEvent(events \ {e})
    /\ UNCHANGED <<slot, backlog, stop, client, sockets, script, history>>

\* One accepted frame in receive_client_data.
ReceiveFrame(e) ==
    LET s == e.slot
        c == slot[s].client
        frame == Head(toServer[c])
        slow == {slot[t].client : t \in Slow(s)}
        wires == [toServer EXCEPT ![c] = Tail(@)]
        left == frame.type = "leave"
    IN  /\ Turn(e) /\ MustRead(e) /\ toServer[c] # <<>> /\ Acceptable(slot[s], frame)
        /\ slot' = Broadcast(s, frame, IF left THEN Free ELSE Noted(slot[s], frame))
        /\ CloseServerEnds(IF left THEN slow \union {c} ELSE slow, wires)
        /\ dropped' = dropped \union slow
        /\ IF left THEN NextEvent(events \ {e})
           ELSE spc' = "receive" /\ current' = e /\ events' = events \ {e}
        /\ UNCHANGED <<backlog, stop, client, clientEnd, script, first, heard>>

\* The slot is given up: the input has ended or is not acceptable, the flush fails,
\* or the event says that the peer has hung up.
GiveUp(e) ==
    LET s == e.slot
        c == slot[s].client
    IN  /\ Turn(e)
        /\ IF MustRead(e) /\ toServer[c] # <<>> THEN ~Acceptable(slot[s], Head(toServer[c]))
           ELSE \/ MustRead(e) /\ Gone(c)
                \/ "hup" \in e.flags
                \/ "out" \in e.flags /\ slot[s].out # <<>> /\ Gone(c)
        /\ Disconnect(e, toServer)
        /\ UNCHANGED <<backlog, stop, client, clientEnd, script, first, heard>>

\* Everything is read; flush_client_output.  The first send to a client that has
\* just gone may still succeed.
Write(e) ==
    LET s == e.slot
        c == slot[s].client
        flushes == "out" \in e.flags
    IN  /\ Turn(e) /\ "hup" \notin e.flags
        /\ MustRead(e) => toServer[c] = <<>> /\ ~Gone(c)
        /\ slot' = IF ~flushes THEN slot
                   ELSE [slot EXCEPT ![s].out = IF Gone(c) THEN <<>> ELSE Rest(@, toClient[c])]
        /\ toClient' = IF ~flushes \/ Gone(c) THEN toClient
                       ELSE [toClient EXCEPT ![c] = Sent(slot[s].out, @)]
        /\ NextEvent(events \ {e})
        /\ UNCHANGED <<backlog, stop, client, serverEnd, clientEnd, toServer, script, history>>

ServerStep ==
    \/ Wait \/ Stop \/ Accept
    \/ \E e \in events \union {current} : Skip(e) \/ ReceiveFrame(e) \/ GiveUp(e) \/ Write(e)

-----------------------------------------------------------------------------
(* The client: files.                                                      *)

\* A transfer the client receives.
Incoming(c, d, id) == {f \in incoming[c] : f.from = d /\ f.id = id}

\* handle_received_message fails: begin_incoming_file, write_incoming_chunk,
\* finish_incoming_file.
Refuses(c, frame) ==
    LET files == Incoming(c, frame.from, frame.id)
    IN  CASE frame.type = "begin" -> files # {} \/ Cardinality(incoming[c]) >= IncomingMax
          [] frame.type = "chunk" -> \A f \in files : f.done >= f.size
          [] frame.type = "end" -> \A f \in files : f.done # f.size
          [] OTHER -> FALSE

\* cancel_incoming_files.
CancelledBy(f, frame) == f.from = frame.from

\* What it does to the incoming files otherwise.
FilesAfter(c, frame) ==
    LET files == Incoming(c, frame.from, frame.id)
    IN  CASE frame.type = "begin" ->
               incoming[c] \union {[from |-> frame.from, id |-> frame.id, size |-> frame.size, done |-> 0]}
          [] frame.type = "chunk" ->
               (incoming[c] \ files) \union {[f EXCEPT !.done = @ + 1] : f \in files}
          [] frame.type = "end" -> incoming[c] \ files
          [] frame.type = "leave" -> {f \in incoming[c] : ~CancelledBy(f, frame)}
          [] OTHER -> incoming[c]

\* pump_outgoing_file queues one frame when there is room for the longest.
CanPump(c) == outgoing[c].id # 0 /\ Len(out[c]) < ClientOut
Unsent(c) == outgoing[c].done < outgoing[c].size
Pumped(c) == Frame(c, IF Unsent(c) THEN "chunk" ELSE "end", outgoing[c].id, 0, count[c] + 1)

\* The client leaves its loop: a last frame is queued if there is room.
Quit(c, queue) ==
    /\ cpc' = [cpc EXCEPT ![c] = IF Len(queue) < ClientOut THEN "drain" ELSE "close"]
    /\ out' = [out EXCEPT ![c] = IF Len(queue) < ClientOut THEN Append(queue, Leave(c)) ELSE queue]

-----------------------------------------------------------------------------
(* The client: client_run.                                                 *)

\* The connection waits to be accepted; nobody listens once the server stopped.
Start(c) ==
    /\ cpc[c] = "off" /\ User(c, "start")
    /\ IF spc = "stopped"
       THEN /\ cpc' = [cpc EXCEPT ![c] = "done"]
            /\ UNCHANGED <<backlog, serverEnd, clientEnd, out, count>>
       ELSE /\ cpc' = [cpc EXCEPT ![c] = "run"]
            /\ backlog' = Append(backlog, c)
            /\ serverEnd' = [serverEnd EXCEPT ![c] = "queued"]
            /\ clientEnd' = [clientEnd EXCEPT ![c] = "open"]
            /\ out' = [out EXCEPT ![c] = <<Frame(c, "join", 0, 0, 1)>>]
            /\ count' = [count EXCEPT ![c] = 1]
    /\ UNCHANGED <<spc, events, current, slot, stop, outgoing, incoming,
                   toServer, toClient, history>>

\* One frame in receive_messages.  Frames arrive one by one: the loop may find the
\* next one now or after the rest of the round.
Receive(c) ==
    LET frame == Head(toClient[c])
        d == frame.from
    IN  /\ cpc[c] = "run" /\ toClient[c] # <<>>
        /\ toClient' = [toClient EXCEPT ![c] = Tail(@)]
        /\ IF Refuses(c, frame)
           THEN /\ Quit(c, out[c])
                /\ UNCHANGED <<incoming, first, heard>>
           ELSE /\ incoming' = [incoming EXCEPT ![c] = FilesAfter(c, frame)]
                /\ first' = [first EXCEPT ![c][d] = IF @ = 0 THEN frame.n ELSE @]
                /\ heard' = [heard EXCEPT ![c][d] = IF frame.n = 0 THEN @ ELSE frame.n]
                /\ UNCHANGED <<cpc, out>>
        /\ UNCHANGED <<server, outgoing, count, serverEnd, clientEnd, toServer, script, dropped>>

\* The server has closed the connection: the end of the input, or a flush that fails.
ServerGone(c) ==
    /\ cpc[c] = "run" /\ serverEnd[c] = "closed" /\ toClient[c] = <<>>
    /\ Quit(c, out[c])
    /\ UNCHANGED <<server, outgoing, incoming, count, sockets, script, history>>

\* pump_outgoing_file: the queue, the file and the number of frames after it.
PumpedOut(c) == IF CanPump(c) THEN Append(out[c], Pumped(c)) ELSE out[c]
PumpedFile(c) ==
    IF ~CanPump(c) THEN outgoing[c]
    ELSE IF Unsent(c) THEN [outgoing[c] EXCEPT !.done = @ + 1] ELSE NoTransfer
PumpedCount(c) == IF CanPump(c) THEN count[c] + 1 ELSE count[c]

\* flush_output.  What is sent to a closed end is lost.
Closed(c) == serverEnd[c] = "closed"
Flushed(c) == IF Closed(c) THEN <<>> ELSE Rest(PumpedOut(c), toServer[c])
FlushOut(c) ==
    toServer' = IF Closed(c) THEN toServer ELSE [toServer EXCEPT ![c] = Sent(PumpedOut(c), @)]

\* The rest of a round in which no line was typed: a frame of the file is queued and
\* what fits is sent.
Round(c) ==
    /\ cpc[c] = "run"
    /\ CanPump(c) \/ (out[c] # <<>> /\ (Closed(c) \/ Len(toServer[c]) < Wire))
    /\ FlushOut(c) /\ out' = [out EXCEPT ![c] = Flushed(c)]
    /\ outgoing' = [outgoing EXCEPT ![c] = PumpedFile(c)]
    /\ count' = [count EXCEPT ![c] = PumpedCount(c)]
    /\ UNCHANGED <<server, cpc, incoming, serverEnd, clientEnd, toClient, script,
                   first, heard, dropped>>

\* Instead of a line the user shortens the file: fread fails.
ReadFails(c) ==
    /\ cpc[c] = "run" /\ CanPump(c) /\ Unsent(c)
    /\ User(c, "shorten")
    /\ outgoing' = [outgoing EXCEPT ![c] = NoTransfer]
    /\ Quit(c, out[c])
    /\ UNCHANGED <<server, incoming, count, sockets, history>>

\* A round in which a line was typed: handle_stdin follows the flush.  A text or the
\* beginning of a file that finds no room ends the client, and so does "/exit".
Type(c, line) ==
    LET type == IF line \in {"file", "empty"} THEN "begin" ELSE line
        size == IF line = "file" THEN Size ELSE 0
        queue == Flushed(c)
        n == PumpedCount(c) + 1
        room == Len(queue) < ClientOut
        busy == type = "begin" /\ PumpedFile(c).id # 0
        id == IF type = "begin" THEN n ELSE 0
        taken == type # "exit" /\ room /\ ~busy
    IN  /\ cpc[c] = "run" /\ User(c, line)
        /\ FlushOut(c)
        /\ IF busy THEN out' = [out EXCEPT ![c] = queue] /\ UNCHANGED cpc
           ELSE IF taken THEN out' = [out EXCEPT ![c] = Append(queue, Frame(c, type, id, size, n))] /\ UNCHANGED cpc
           ELSE Quit(c, queue)
        /\ count' = [count EXCEPT ![c] = IF taken THEN n ELSE PumpedCount(c)]
        /\ outgoing' = [outgoing EXCEPT ![c] = IF taken /\ type = "begin"
                                               THEN [id |-> n, size |-> size, done |-> 0] ELSE PumpedFile(c)]
        /\ UNCHANGED <<server, incoming, serverEnd, clientEnd, toClient,
                       first, heard, dropped>>

\* drain_output.
Drain(c) ==
    LET rest == Rest(out[c], toServer[c])
        lost == serverEnd[c] = "closed"
    IN  /\ cpc[c] = "drain" /\ (lost \/ Len(toServer[c]) < Wire)
        /\ toServer' = IF lost THEN toServer ELSE [toServer EXCEPT ![c] = Sent(out[c], @)]
        /\ out' = [out EXCEPT ![c] = rest]
        /\ cpc' = [cpc EXCEPT ![c] = IF lost \/ rest = <<>> THEN "close" ELSE "drain"]
        /\ UNCHANGED <<server, outgoing, incoming, count, serverEnd, clientEnd, toClient,
                       script, history>>

\* Its poll waits a second for room.
DrainTimeout(c) ==
    /\ cpc[c] = "drain" /\ serverEnd[c] # "closed" /\ Len(toServer[c]) = Wire
    /\ cpc' = [cpc EXCEPT ![c] = "close"]
    /\ UNCHANGED <<server, local, sockets, script, history>>

\* cleanup_client: unfinished files are removed.  Bytes not read reset the
\* connection, and the server may not read what is under way to it.
Close(c) ==
    /\ cpc[c] = "close" /\ cpc' = [cpc EXCEPT ![c] = "done"]
    /\ out' = [out EXCEPT ![c] = <<>>] /\ outgoing' = [outgoing EXCEPT ![c] = NoTransfer]
    /\ incoming' = [incoming EXCEPT ![c] = {}]
    /\ clientEnd' = [clientEnd EXCEPT ![c] = "closed"]
    /\ toClient' = [toClient EXCEPT ![c] = <<>>]
    /\ toServer' \in {toServer, IF toClient[c] # <<>> THEN [toServer EXCEPT ![c] = <<>>] ELSE toServer}
    /\ count' = [count EXCEPT ![c] = 0]
    /\ first' = [first EXCEPT ![c] = [d \in Clients |-> 0]]
    /\ heard' = [heard EXCEPT ![c] = [d \in Clients |-> 0]]
    /\ UNCHANGED <<server, serverEnd, script, dropped>>

ClientStep(c) == Receive(c) \/ ServerGone(c) \/ Round(c) \/ Drain(c) \/ DrainTimeout(c) \/ Close(c)

UserStep(c) ==
    \/ Start(c) \/ ReadFails(c) \/ \E line \in {"message", "file", "empty", "exit"} : Type(c, line)

\* Every client has ended or waits for a line, and the server has nothing to do.
Idle(c) ==
    \/ cpc[c] \in {"off", "done"}
    \/ cpc[c] = "run" /\ ~CanPump(c) /\ out[c] = <<>> /\ toClient[c] = <<>> /\ ~Closed(c)
Done ==
    /\ \A c \in Clients : Idle(c)
    /\ spc = "stopped" \/ (spc = "wait" /\ Ready = {})
    /\ UNCHANGED vars

Next ==
    \/ ServerStep \/ Interrupt
    \/ \E c \in Clients : UserStep(c) \/ ClientStep(c)
    \/ Done

\* Some process runs while one can.  Users need not do anything.
Fairness == WF_vars(ServerStep \/ \E c \in Clients : ClientStep(c))

Spec == Init /\ [][Next]_vars
FairSpec == Spec /\ Fairness

-----------------------------------------------------------------------------
(* Properties.                                                             *)

\* What is on its way to a client whose slot has not been taken from it.
Queued(c) ==
    LET mine == {s \in Slots : slot[s].client = c}
    IN  toClient[c] \o (IF mine = {} THEN <<>> ELSE slot[CHOOSE s \in mine : TRUE].out)

\* Every variable keeps to its type, queues and buffers to their capacities.
TypeOK ==
    /\ spc \in {"wait", "handle", "receive", "stopping", "stopped"}
    /\ \A s \in Slots : /\ slot[s].client \in Clients \union {Nobody}
                        /\ Len(slot[s].out) <= ServerOut
    /\ stop \in BOOLEAN /\ ToSet(backlog) \subseteq Clients
    /\ \A c \in Clients :
          /\ cpc[c] \in {"off", "run", "drain", "close", "done"}
          /\ Len(out[c]) <= ClientOut /\ Cardinality(incoming[c]) <= IncomingMax
          /\ serverEnd[c] \in {"none", "queued", "open", "closed"}
          /\ clientEnd[c] \in {"none", "open", "closed"}
          /\ Len(toServer[c]) <= Wire /\ Len(toClient[c]) <= Wire

\* A slot that is given to another client within a round of events keeps nothing
\* of the one before: every accepted connection has one slot, and a client that
\* has not joined is owed nothing and is sent nothing.
SlotsOwned ==
    /\ \A c \in Clients :
          serverEnd[c] = "open" <=> Cardinality({s \in Slots : slot[s].client = c}) = 1
    /\ \A s \in Slots : Active(s) /\ ~slot[s].joined =>
          slot[s].transfer = NoTransfer /\ Queued(slot[s].client) = <<>>

\* The server's account of a transfer agrees with the client's, whatever was cut
\* short in between: it never has to refuse a frame of a client.
NeverRefused ==
    \A s \in Slots : Active(s) /\ toServer[slot[s].client] # <<>> =>
        Acceptable(slot[s], Head(toServer[slot[s].client]))

\* A client is sent every frame of another one from some frame on, in order and
\* without gaps, and nothing after the news that it left.
InOrderOnce ==
    \A c \in Clients, d \in Clients : serverEnd[c] = "open" /\ cpc[c] = "run" =>
        LET queue == Queued(c)
            Between(j, i) == {k \in j + 1 .. i - 1 : queue[k].from = d}
        IN  \A i \in DOMAIN queue : queue[i].from = d =>
            /\ queue[i].type # "leave" /\ Between(0, i) = {} => heard[c][d] \in {0, queue[i].n - 1}
            /\ \A j \in 1 .. i - 1 : queue[j].from = d =>
                  /\ queue[j].type # "leave"
                  /\ queue[i].type # "leave" /\ Between(j, i) = {} => queue[i].n = queue[j].n + 1

\* A client fails over a frame about a file only if it joined after the file was begun.
OnlyLateOnesRefuse ==
    \A c \in Clients : toClient[c] # <<>> /\ cpc[c] = "run" =>
        LET frame == Head(toClient[c])
        IN  Refuses(c, frame) =>
                frame.type # "begin" /\ (first[c][frame.from] = 0 \/ first[c][frame.from] > frame.id)

\* Client and server agree on which frames may come: the server accepts them all, and a
\* client fails only over a file that was begun before it joined.
FramesAccepted == NeverRefused /\ OnlyLateOnesRefuse

\* A client that keeps a half-received file will hear how it ends: its sender is
\* still sending it, or the end or the news of the leaving is under way, unless the
\* sender was closed because it was slow.
NoOrphans ==
    \A c \in Clients : serverEnd[c] = "open" /\ cpc[c] = "run" =>
        \A f \in incoming[c] :
            \/ f.from \in dropped
            \/ \E s \in Slots : slot[s].client = f.from /\ slot[s].transfer.id = f.id
            \/ \E i \in DOMAIN Queued(c) :
                  LET frame == Queued(c)[i]
                  IN  frame.from = f.from /\ (frame.type = "leave" \/ (frame.type = "end" /\ frame.id = f.id))

\* Full queues on both sides do not make anybody wait for ever, and no event is
\* missed: once the users are quiet, every transfer has ended, every queue and every
\* connection is empty, slots are held by running clients only, and of a file that is
\* still half-received the sender was closed because it was slow.
SettlesDown ==
    <>[]/\ \A c \in Clients :
              /\ outgoing[c] = NoTransfer /\ out[c] = <<>>
              /\ cpc[c] = "run" => toServer[c] = <<>> /\ toClient[c] = <<>>
              /\ \A f \in incoming[c] : f.from \in dropped
        /\ \A s \in Slots : Active(s) => cpc[slot[s].client] = "run" /\ slot[s].out = <<>>

=============================================================================
