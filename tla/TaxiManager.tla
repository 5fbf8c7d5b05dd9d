----------------------------- MODULE TaxiManager ----------------------------
(***************************************************************************)
(* The manager and the driver processes of                                 *)
(* 03-ipc-and-network-programming/cross-02-taxi-process-manager: one       *)
(* select loop with a self-pipe for signals on one side, a timer and a     *)
(* request loop per driver on the other, one TCP connection in between.    *)
(*                                                                         *)
(* A driver is named by its pid, and so is its only connection.  Frames    *)
(* arrive whole.  Time passes in ticks.                                    *)
(***************************************************************************)
EXTENDS Integers, FiniteSets, SequencesExt

CONSTANTS
    Drivers,      \* the pids of the drivers, given in ascending order
    DriverMax,    \* APP_DRIVER_MAX
    Timers,       \* task timers a user types, in seconds
    Second,       \* ticks in a second
    InputFrames,  \* capacity of every input buffer, in frames
    SocketRoom,   \* frames a connection buffers in one direction
    ChunkMax,     \* bound on the lines one read from stdin returns
    MaxCommands,  \* bound on the lines typed ...
    ForkWeight,   \* ... where create_driver counts for so many
    MaxKills,     \* bound on the drivers killed from outside
    MaxTime       \* bound on the clock

ASSUME TaxiAssumption ==
    /\ DriverMax \in Nat \ {0} /\ InputFrames \in Nat \ {0} /\ SocketRoom \in Nat \ {0}
    /\ Second \in Nat \ {0} /\ Timers \subseteq Nat \ {0}
    /\ Drivers \subseteq Nat \ {0} /\ ForkWeight \in Nat
    /\ ChunkMax \in Nat /\ MaxCommands \in Nat /\ MaxKills \in Nat /\ MaxTime \in Nat

VARIABLES
    apc,                \* where the manager is
    ready,              \* the descriptors select returned, as long as they matter
    idx,                \* index or count of the loop the manager is in
    outbox,             \* requests of the current command still to be sent
    running,            \* stdin has not ended
    drivers, pending,   \* app->drivers, app->pending
    nextId,             \* app->next_request_id
    stopRequested, childChanged, notified,  \* signal_handler.c, the pipe has a byte
    listening,          \* the listener is open
    dpc,                \* where each driver process is
    inbox, reply,       \* input buffer, response being sent
    deadline,           \* end of the task, 0 while the driver is not busy
    appEnd, driverEnd,  \* both ends of each connection
    toApp, toDriver,    \* frames buffered in it
    now, typed, kills,  \* clock and bounds
    asked,              \* ids of the requests sent whose responses are not printed yet
    told                \* end of the last task that the printed responses told of

app == <<apc, ready, idx, outbox, running>>
tables == <<drivers, pending, nextId>>
flags == <<stopRequested, childChanged, notified>>
process == <<dpc, inbox, reply, deadline>>
ends == <<listening, appEnd, driverEnd>>
sockets == <<ends, toApp, toDriver>>
outside == <<now, typed, kills>>
history == <<asked, told>>
vars == <<app, tables, flags, process, sockets, outside, history>>

\* Numbers that are no pids.
Stdin == 0
Listener == -1
NoReply == [type |-> "none", id |-> 0, timer |-> 0, at |-> 0]

Init ==
    /\ apc = "drain" /\ ready = {} /\ idx = 0 /\ outbox = <<>> /\ running = TRUE
    /\ drivers = <<>> /\ pending = <<>> /\ nextId = 0
    /\ stopRequested = FALSE /\ childChanged = FALSE /\ notified = FALSE
    /\ dpc = [d \in Drivers |-> "none"] /\ inbox = [d \in Drivers |-> <<>>]
    /\ reply = [d \in Drivers |-> NoReply] /\ deadline = [d \in Drivers |-> 0]
    /\ listening = TRUE
    /\ appEnd = [d \in Drivers |-> "none"] /\ driverEnd = [d \in Drivers |-> "none"]
    /\ toApp = [d \in Drivers |-> <<>>] /\ toDriver = [d \in Drivers |-> <<>>]
    /\ now = 0 /\ typed = 0 /\ kills = 0
    /\ asked = [d \in Drivers |-> <<>>] /\ told = [d \in Drivers |-> 0]

-----------------------------------------------------------------------------
(* Faulty variants of definitions below.                                   *)

Notify_NoByte == UNCHANGED notified
Removed_WithoutCopy(list, i) == Front(list)
Read_OneTooMany(buffer) ==
    SubSeq(buffer, 1, IF Len(buffer) <= InputFrames THEN Len(buffer) ELSE InputFrames + 1)
Unread_NotMoved(buffer) == buffer
Unread_Dropped(buffer) == <<>>
Listed_WhenConnected(d) == \E i \in DOMAIN drivers : drivers[i].pid = d /\ drivers[i].connected
Registers_AnyHello(d) == TRUE
NoTask_AfterDeadline(d) == deadline[d] = 0 \/ now > deadline[d]

-----------------------------------------------------------------------------
(* Tables and sockets.                                                     *)

Listed(d) == \E i \in DOMAIN drivers : drivers[i].pid = d
Connected(d) == \E i \in DOMAIN drivers : drivers[i].pid = d /\ drivers[i].connected

\* The last entry takes the place of the removed one.
Removed(list, i) ==
    IF i = Len(list) THEN Front(list) ELSE [Front(list) EXCEPT ![i] = Last(list)]

\* recv fills the input buffer.
Read(buffer) == SubSeq(buffer, 1, IF Len(buffer) < InputFrames THEN Len(buffer) ELSE InputFrames)
Unread(buffer) == SubSeq(buffer, Len(Read(buffer)) + 1, Len(buffer))

\* The manager closes its end after it has written out.  What it has not read is
\* dropped, and then the other end may be reset before it has read all.
CloseApp(d, out) ==
    /\ appEnd' = [appEnd EXCEPT ![d] = "closed"]
    /\ toApp' = [toApp EXCEPT ![d] = <<>>]
    /\ \/ toDriver' = out
       \/ toApp[d] # <<>> /\ toDriver' = [out EXCEPT ![d] = <<>>]

\* The manager's end of a connection is readable.
Readable(d) == toApp[d] # <<>> \/ driverEnd[d] = "closed"

Goto(where) == apc' = where

\* The write to the self-pipe in the handlers.
Notify == notified' = TRUE

-----------------------------------------------------------------------------
(* The manager: run_event_loop.                                            *)

Drain ==
    /\ apc = "drain" /\ Goto("child")
    /\ notified' = FALSE
    /\ UNCHANGED <<ready, idx, outbox, running, tables, stopRequested, childChanged,
                   process, sockets, outside, history>>

\* The flag is cleared before the children are collected.
CheckChild ==
    /\ apc = "child"
    /\ Goto(IF childChanged THEN "reap" ELSE "stop")
    /\ childChanged' = FALSE
    /\ UNCHANGED <<ready, idx, outbox, running, tables, stopRequested, notified,
                   process, sockets, outside, history>>

\* One waitpid of reap_children.
Reap ==
    /\ apc = "reap"
    /\ \/ \E d \in Drivers :
             /\ dpc[d] = "zombie"
             /\ dpc' = [dpc EXCEPT ![d] = "reaped"]
             /\ asked' = [asked EXCEPT ![d] = <<>>]
             /\ \/ ~Listed(d) /\ UNCHANGED drivers
                \/ \E i \in DOMAIN drivers : drivers[i].pid = d /\ drivers' = Removed(drivers, i)
             /\ \/ Connected(d) /\ CloseApp(d, toDriver)
                \/ ~Connected(d) /\ UNCHANGED <<appEnd, toApp, toDriver>>
             /\ UNCHANGED apc
       \/ /\ \A d \in Drivers : dpc[d] # "zombie"
          /\ Goto("stop")
          /\ UNCHANGED <<dpc, drivers, appEnd, toApp, toDriver, asked>>
    /\ UNCHANGED <<ready, idx, outbox, running, pending, nextId, flags, inbox, reply,
                   deadline, listening, driverEnd, outside, told>>

CheckStop ==
    /\ apc = "stop"
    /\ \/ stopRequested /\ Goto("shut_drivers") /\ idx' = 1
       \/ ~stopRequested /\ Goto("select") /\ UNCHANGED idx
    /\ UNCHANGED <<ready, outbox, running, tables, flags, process, sockets, outside, history>>

ReadySockets ==
    {d \in Drivers : appEnd[d] = "open" /\ Readable(d)}
       \cup (IF \E d \in Drivers : appEnd[d] = "backlog" THEN {Listener} ELSE {})

\* Where handle_ready_descriptors finds the first work.
Phase(some) ==
    IF Stdin \in some THEN "stdin"
    ELSE IF Listener \in some THEN "accept"
    ELSE IF \E i \in DOMAIN pending : pending[i] \in some THEN "pending"
    ELSE "drivers"

\* select; with a byte in the self-pipe the rest waits for the next round.
Select(input) ==
    /\ apc = "select"
    /\ \/ /\ notified
          /\ notified' = FALSE
          /\ Goto("drain")
          /\ UNCHANGED <<ready, idx>>
       \/ /\ ~notified
          /\ ready' = ReadySockets \cup (IF input THEN {Stdin} ELSE {})
          /\ ready' # {}
          /\ Goto(Phase(ready'))
          /\ idx' = IF input THEN 0 ELSE 1
          /\ UNCHANGED notified
    /\ UNCHANGED <<outbox, running, tables, stopRequested, childChanged, process, sockets,
                   outside, history>>

-----------------------------------------------------------------------------
(* The manager: commands.                                                  *)

\* create_driver.
Fork ==
    /\ \/ \E d \in Drivers :
             /\ Len(drivers) < DriverMax
             /\ dpc[d] = "none" /\ \A e \in Drivers : e < d => dpc[e] # "none"
             /\ dpc' = [dpc EXCEPT ![d] = "forked"]
             /\ drivers' = Append(drivers, [pid |-> d, connected |-> FALSE])
       \/ Len(drivers) = DriverMax /\ UNCHANGED <<dpc, drivers>>
    /\ UNCHANGED <<outbox, nextId>>

\* The connected drivers of some, in the order of the table.
Addressees(some) ==
    LET among[i \in 0 .. Len(drivers)] ==
            IF i = 0 THEN <<>>
            ELSE IF drivers[i].connected /\ drivers[i].pid \in some
                 THEN Append(among[i - 1], drivers[i].pid)
            ELSE among[i - 1]
    IN among[Len(drivers)]

\* send_driver_request for each of them.
Request(some, type, timer) ==
    LET to == Addressees(some) IN
    /\ outbox' = [i \in DOMAIN to |->
                    [to |-> to[i], type |-> type, id |-> nextId + i, timer |-> timer]]
    /\ nextId' = nextId + Len(to)
    /\ UNCHANGED <<dpc, drivers>>

Ask ==
    \/ \E d \in Drivers, timer \in Timers : Request({d}, "task", timer)
    \/ \E d \in Drivers : Request({d}, "status", 0)
    \/ Request(Drivers, "status", 0)

\* One line of what read returned.
Line ==
    /\ apc = "stdin" /\ outbox = <<>> /\ running
    /\ idx < ChunkMax /\ idx' = idx + 1
    /\ \/ Fork /\ typed' = typed + ForkWeight
       \/ Ask /\ typed' = typed + 1
    /\ typed' <= MaxCommands
    /\ UNCHANGED <<apc, ready, running, pending, flags, inbox, reply, deadline, sockets,
                   now, kills, history>>

\* read returned 0; a line without its end is a command too.
EndOfInput ==
    /\ apc = "stdin" /\ idx = 0 /\ running
    /\ running' = FALSE
    /\ \/ Fork \/ Ask
       \/ UNCHANGED <<outbox, nextId, dpc, drivers>>
    /\ UNCHANGED <<apc, ready, idx, pending, flags, inbox, reply, deadline, sockets,
                   outside, history>>

HasRoom(buffer) == Len(buffer) < SocketRoom

\* send_message: it waits for room as long as it takes and fails when the driver
\* has closed its end.
SendRequest ==
    LET request == Head(outbox)
        d == request.to IN
    /\ apc = "stdin" /\ outbox # <<>>
    /\ \/ /\ driverEnd[d] = "closed"
          /\ UNCHANGED <<toDriver, asked>>
       \/ /\ driverEnd[d] = "open" /\ HasRoom(toDriver[d])
          /\ toDriver' = [toDriver EXCEPT ![d] = Append(@, request)]
          /\ asked' = [asked EXCEPT ![d] = Append(@, request.id)]
    /\ outbox' = Tail(outbox)
    /\ UNCHANGED <<apc, ready, idx, running, tables, flags, process, ends, toApp, outside, told>>

InputDone ==
    /\ apc = "stdin" /\ outbox = <<>>
    /\ \/ running /\ ready' = ready \ {Stdin} /\ Goto(Phase(ready'))
       \/ ~running /\ ready' = {} /\ Goto("shut_drivers")
    /\ idx' = 1
    /\ UNCHANGED <<outbox, running, tables, flags, process, sockets, outside, history>>

-----------------------------------------------------------------------------
(* The manager: connections.                                               *)

\* accept_connections, one at a time.
Accept ==
    /\ apc = "accept"
    /\ \/ \E d \in Drivers :
             /\ appEnd[d] = "backlog" /\ Len(pending) < DriverMax
             /\ appEnd' = [appEnd EXCEPT ![d] = "open"]
             /\ pending' = Append(pending, d)
             /\ UNCHANGED <<apc, ready>>
       \/ /\ Len(pending) = DriverMax \/ \A d \in Drivers : appEnd[d] # "backlog"
          /\ ready' = ready \ {Listener}
          /\ Goto(Phase(ready'))
          /\ UNCHANGED <<appEnd, pending>>
    /\ UNCHANGED <<idx, outbox, running, drivers, nextId, flags, process, listening,
                   driverEnd, toApp, toDriver, outside, history>>

\* register_connection accepts a HELLO from a listed driver without a connection.
Registers(d) == Listed(d) /\ ~Connected(d)

\* The next entry, from idx on, whose descriptor select reported.
NextReady(list, i) == i >= idx /\ list[i] \in ready /\ \A j \in idx .. i - 1 : list[j] \notin ready

\* receive_pending.  The loop passes over the entry that took the place of a
\* registered one, but not of a closed one.
ReceivePending ==
    /\ apc = "pending"
    /\ \E i \in DOMAIN pending :
          LET d == pending[i] IN
          /\ NextReady(pending, i)
          /\ pending' = Removed(pending, i)
          /\ \/ /\ toApp[d] # <<>> /\ Registers(d)
                /\ drivers' = [k \in DOMAIN drivers |->
                                 IF drivers[k].pid = d THEN [drivers[k] EXCEPT !.connected = TRUE]
                                 ELSE drivers[k]]
                /\ toApp' = [toApp EXCEPT ![d] = Tail(@)]
                /\ idx' = i + 1
                /\ UNCHANGED <<appEnd, toDriver>>
             \/ /\ toApp[d] = <<>> \/ ~Registers(d)
                /\ CloseApp(d, toDriver)
                /\ idx' = i
                /\ UNCHANGED drivers
    /\ UNCHANGED <<apc, ready, outbox, running, nextId, flags, process, listening, driverEnd,
                   outside, history>>

PendingDone ==
    /\ apc = "pending" /\ \A i \in idx .. Len(pending) : pending[i] \notin ready
    /\ Goto("drivers") /\ idx' = 1
    /\ UNCHANGED <<ready, outbox, running, tables, flags, process, sockets, outside, history>>

EndOfTask(response) == response.at + response.timer * Second

\* The end of the last task that the first n of some responses tell of, or the one known
\* before them.
LastEnd(before, responses, n) ==
    LET tasks == {k \in 1 .. n : responses[k].type = "accepted"} IN
    IF tasks = {} THEN before
    ELSE EndOfTask(responses[CHOOSE k \in tasks : \A j \in tasks : j <= k])

\* driver->fd, which is -1 before the registration.
Descriptors == [i \in DOMAIN drivers |-> IF drivers[i].connected THEN drivers[i].pid ELSE Listener]

\* receive_driver: print what came, or remove the driver at the end.  One that was
\* registered in this round is still marked ready, but its recv may find nothing.
ReceiveDriver ==
    /\ apc = "drivers"
    /\ \E i \in DOMAIN drivers :
          LET d == drivers[i].pid
              came == Read(toApp[d]) IN
          /\ NextReady(Descriptors, i)
          /\ \/ /\ toApp[d] # <<>>
                /\ asked' = [asked EXCEPT ![d] = SubSeq(@, Len(came) + 1, Len(@))]
                /\ told' = [told EXCEPT ![d] = LastEnd(@, came, Len(came))]
                /\ toApp' = [toApp EXCEPT ![d] = Unread(@)]
                /\ idx' = i + 1
                /\ UNCHANGED <<drivers, appEnd, toDriver>>
             \/ /\ toApp[d] = <<>> /\ driverEnd[d] = "closed"
                /\ drivers' = Removed(drivers, i)
                /\ CloseApp(d, toDriver)
                /\ idx' = i
                /\ UNCHANGED history
             \/ /\ ~Readable(d)
                /\ idx' = i + 1
                /\ UNCHANGED <<drivers, appEnd, toApp, toDriver, history>>
    /\ UNCHANGED <<apc, ready, outbox, running, pending, nextId, flags, process, listening,
                   driverEnd, outside>>

DriversDone ==
    /\ apc = "drivers" /\ \A i \in idx .. Len(drivers) : Descriptors[i] \notin ready
    /\ Goto("drain") /\ idx' = 0 /\ ready' = {}
    /\ UNCHANGED <<outbox, running, tables, flags, process, sockets, outside, history>>

-----------------------------------------------------------------------------
(* The manager: shutdown_app.                                              *)

\* SHUTDOWN on a connection, and its end.
Dismiss(d) ==
    \/ driverEnd[d] = "closed" /\ CloseApp(d, toDriver)
    \/ /\ driverEnd[d] = "open" /\ HasRoom(toDriver[d])
       /\ CloseApp(d, [toDriver EXCEPT ![d] =
             Append(@, [to |-> d, type |-> "shutdown", id |-> 0, timer |-> 0])])

ShutDriver ==
    /\ apc = "shut_drivers"
    /\ \/ /\ idx <= Len(drivers)
          /\ IF drivers[idx].connected THEN Dismiss(drivers[idx].pid)
             ELSE UNCHANGED <<appEnd, toApp, toDriver>>
          /\ idx' = idx + 1 /\ UNCHANGED apc
       \/ /\ idx > Len(drivers)
          /\ Goto("shut_pending") /\ idx' = 1 /\ UNCHANGED <<appEnd, toApp, toDriver>>
    /\ UNCHANGED <<ready, outbox, running, tables, flags, process, listening, driverEnd, outside,
                   history>>

\* After the last one the listener is closed, with what waits in its backlog.
ShutPending ==
    /\ apc = "shut_pending"
    /\ \/ /\ idx <= Len(pending)
          /\ Dismiss(pending[idx])
          /\ idx' = idx + 1 /\ UNCHANGED <<apc, listening>>
       \/ /\ idx > Len(pending)
          /\ listening' = FALSE
          /\ appEnd' = [d \in Drivers |-> IF appEnd[d] = "backlog" THEN "closed" ELSE appEnd[d]]
          /\ Goto("wait") /\ idx' = 0 /\ UNCHANGED <<toApp, toDriver>>
    /\ UNCHANGED <<ready, outbox, running, tables, flags, process, driverEnd, outside, history>>

Collect(d) ==
    /\ dpc[d] = "zombie"
    /\ dpc' = [dpc EXCEPT ![d] = "reaped"]

\* Half a second of waitpid(WNOHANG) for the listed drivers ...
Wait ==
    /\ apc = "wait"
    /\ \/ \E d \in Drivers : Listed(d) /\ Collect(d) /\ UNCHANGED <<apc, idx>>
       \/ /\ \A d \in Drivers : Listed(d) => dpc[d] = "reaped"
          /\ Goto("exited") /\ UNCHANGED <<idx, dpc>>
       \/ Goto("kill") /\ idx' = 1 /\ UNCHANGED dpc
    /\ UNCHANGED <<ready, outbox, running, tables, flags, inbox, reply, deadline, sockets,
                   outside, history>>

Ending == {"dying", "zombie", "reaped"}

\* The end of processes: their sockets are closed before SIGCHLD is sent.  A
\* connection with unread requests is reset, and responses may be lost with it.
Finish(some) ==
    /\ dpc' = [d \in Drivers |-> IF d \in some THEN "dying" ELSE dpc[d]]
    /\ driverEnd' = [d \in Drivers |->
           IF d \in some /\ driverEnd[d] = "open" THEN "closed" ELSE driverEnd[d]]
    /\ inbox' = [d \in Drivers |-> IF d \in some THEN <<>> ELSE inbox[d]]
    /\ reply' = [d \in Drivers |-> IF d \in some THEN NoReply ELSE reply[d]]
    /\ deadline' = [d \in Drivers |-> IF d \in some THEN 0 ELSE deadline[d]]
    /\ toDriver' = [d \in Drivers |-> IF d \in some THEN <<>> ELSE toDriver[d]]
    /\ \E lost \in SUBSET {d \in some : toDriver[d] # <<>>} :
          toApp' = [d \in Drivers |-> IF d \in lost THEN <<>> ELSE toApp[d]]

\* A signal with its default action; between fork and the restoring of the default
\* actions the inherited handler swallows it.
Terminated(some) == Finish({d \in some : dpc[d] \notin {"none", "forked"} \cup Ending})

\* ... then SIGTERM and a blocking waitpid for each that is left.
KillDriver ==
    /\ apc = "kill"
    /\ \/ /\ idx <= Len(drivers) /\ dpc[drivers[idx].pid] = "reaped"
          /\ idx' = idx + 1 /\ UNCHANGED <<apc, process, driverEnd, toApp, toDriver>>
       \/ /\ idx <= Len(drivers) /\ dpc[drivers[idx].pid] # "reaped"
          /\ Terminated({drivers[idx].pid})
          /\ Goto("waitpid") /\ UNCHANGED idx
       \/ /\ idx > Len(drivers)
          /\ Goto("exited") /\ UNCHANGED <<idx, process, driverEnd, toApp, toDriver>>
    /\ UNCHANGED <<ready, outbox, running, tables, flags, listening, appEnd, outside, history>>

WaitForDriver ==
    /\ apc = "waitpid" /\ Collect(drivers[idx].pid)
    /\ Goto("kill") /\ idx' = idx + 1
    /\ UNCHANGED <<ready, outbox, running, tables, flags, inbox, reply, deadline, sockets,
                   outside, history>>

AppStep ==
    \/ Drain \/ CheckChild \/ Reap \/ CheckStop \/ Select(FALSE)
    \/ Line \/ EndOfInput \/ SendRequest \/ InputDone
    \/ Accept \/ ReceivePending \/ PendingDone \/ ReceiveDriver \/ DriversDone
    \/ ShutDriver \/ ShutPending \/ Wait \/ KillDriver \/ WaitForDriver

-----------------------------------------------------------------------------
(* A driver.                                                               *)

DriverGoto(d, where) == dpc' = [dpc EXCEPT ![d] = where]

\* signal_handler_restore_defaults in the child.
Restore(d) ==
    /\ dpc[d] = "forked" /\ DriverGoto(d, "connect")
    /\ UNCHANGED <<app, tables, flags, inbox, reply, deadline, sockets, outside, history>>

Connect(d) ==
    /\ dpc[d] = "connect"
    /\ \/ /\ listening
          /\ DriverGoto(d, "hello")
          /\ appEnd' = [appEnd EXCEPT ![d] = "backlog"]
          /\ driverEnd' = [driverEnd EXCEPT ![d] = "open"]
          /\ UNCHANGED <<inbox, reply, deadline, toApp, toDriver>>
       \/ ~listening /\ Finish({d}) /\ UNCHANGED appEnd
    /\ UNCHANGED <<app, tables, flags, listening, outside, history>>

SendHello(d) ==
    /\ dpc[d] = "hello"
    /\ \/ /\ appEnd[d] # "closed"
          /\ toApp' = [toApp EXCEPT ![d] = Append(@, [NoReply EXCEPT !.type = "hello"])]
          /\ DriverGoto(d, "select")
          /\ UNCHANGED <<inbox, reply, deadline, driverEnd, toDriver>>
       \/ appEnd[d] = "closed" /\ Finish({d})
    /\ UNCHANGED <<app, tables, flags, listening, appEnd, outside, history>>

\* receive_input: whole frames, or the end of the connection.
Receive(d) ==
    /\ dpc[d] = "select"
    /\ \/ /\ toDriver[d] # <<>>
          /\ inbox' = [inbox EXCEPT ![d] = Read(toDriver[d])]
          /\ toDriver' = [toDriver EXCEPT ![d] = Unread(@)]
          /\ DriverGoto(d, "handle")
          /\ UNCHANGED <<reply, deadline, driverEnd, toApp>>
       \/ toDriver[d] = <<>> /\ appEnd[d] = "closed" /\ Finish({d})
    /\ UNCHANGED <<app, tables, flags, listening, appEnd, outside, history>>

\* update_state: the task is over.
NoTask(d) == now >= deadline[d]

Remaining(ticks) == (ticks + Second - 1) \div Second

Response(request, type, timer) == [type |-> type, id |-> request.id, timer |-> timer, at |-> now]

\* handle_message up to its send.
Handle(d) ==
    LET request == Head(inbox[d]) IN
    /\ dpc[d] = "handle"
    /\ \/ request.type = "shutdown" /\ Finish({d})
       \/ /\ request.type \in {"task", "status"} /\ ~NoTask(d)
          /\ reply' = [reply EXCEPT ![d] = Response(request, "busy", Remaining(deadline[d] - now))]
          /\ DriverGoto(d, "reply") /\ UNCHANGED <<inbox, deadline, driverEnd, toApp, toDriver>>
       \/ /\ request.type = "status" /\ NoTask(d)
          /\ reply' = [reply EXCEPT ![d] = Response(request, "available", 0)]
          /\ deadline' = [deadline EXCEPT ![d] = 0]
          /\ DriverGoto(d, "reply") /\ UNCHANGED <<inbox, driverEnd, toApp, toDriver>>
       \/ /\ request.type = "task" /\ NoTask(d)
          /\ reply' = [reply EXCEPT ![d] = Response(request, "accepted", request.timer)]
          /\ deadline' = [deadline EXCEPT ![d] = now + request.timer * Second]
          /\ DriverGoto(d, "reply") /\ UNCHANGED <<inbox, driverEnd, toApp, toDriver>>
    /\ UNCHANGED <<app, tables, flags, listening, appEnd, outside, history>>

\* send_message waits for room too.
Reply(d) ==
    /\ dpc[d] = "reply"
    /\ \/ appEnd[d] = "closed" /\ Finish({d})
       \/ /\ appEnd[d] = "open" /\ HasRoom(toApp[d])
          /\ toApp' = [toApp EXCEPT ![d] = Append(@, reply[d])]
          /\ reply' = [reply EXCEPT ![d] = NoReply]
          /\ inbox' = [inbox EXCEPT ![d] = Tail(@)]
          /\ DriverGoto(d, IF Len(inbox[d]) = 1 THEN "select" ELSE "handle")
          /\ UNCHANGED <<deadline, driverEnd, toDriver>>
    /\ UNCHANGED <<app, tables, flags, listening, appEnd, outside, history>>

\* The end of the process: its descriptors are closed already, SIGCHLD comes last.
Die(d) ==
    /\ dpc[d] = "dying" /\ DriverGoto(d, "zombie")
    /\ childChanged' = TRUE /\ Notify
    /\ UNCHANGED <<app, tables, stopRequested, inbox, reply, deadline, sockets, outside, history>>

DriverStep(d) ==
    \/ Restore(d) \/ Connect(d) \/ SendHello(d) \/ Receive(d) \/ Handle(d) \/ Reply(d) \/ Die(d)

-----------------------------------------------------------------------------
(* What happens from outside.                                              *)

\* SIGINT from the terminal reaches the drivers too, SIGTERM only the manager.
Stop(group) ==
    /\ apc # "exited" /\ ~stopRequested
    /\ stopRequested' = TRUE /\ Notify
    /\ Terminated(group)
    /\ UNCHANGED <<app, tables, childChanged, listening, appEnd, outside, history>>

Kill(d) ==
    /\ dpc[d] \notin {"none"} \cup Ending /\ kills < MaxKills
    /\ kills' = kills + 1
    /\ Finish({d})
    /\ UNCHANGED <<app, tables, flags, listening, appEnd, now, typed, history>>

\* The clock matters to nobody while no driver has a task.
Tick ==
    /\ now < MaxTime /\ now' = now + 1
    /\ \E d \in Drivers : deadline[d] # 0 /\ now <= deadline[d]
    /\ UNCHANGED <<app, tables, flags, process, sockets, typed, kills, history>>

Done == apc = "exited" /\ UNCHANGED vars

Next ==
    \/ AppStep \/ Select(TRUE)
    \/ \E d \in Drivers : DriverStep(d) \/ Kill(d)
    \/ \E group \in {{}, Drivers} : Stop(group)
    \/ Tick \/ Done

\* All processes are scheduled.  Nobody has to type, to send signals or to kill.
Fairness == WF_vars(AppStep) /\ \A d \in Drivers : WF_vars(DriverStep(d))

Spec == Init /\ [][Next]_vars
FairSpec == Spec /\ Fairness

-----------------------------------------------------------------------------
(* Properties.                                                             *)

AppPC == {"drain", "child", "reap", "stop", "select", "stdin", "accept", "pending", "drivers",
          "shut_drivers", "shut_pending", "wait", "kill", "waitpid", "exited"}
Serving == {"drain", "child", "reap", "stop", "select", "stdin", "accept", "pending", "drivers"}
DriverPC == {"none", "forked", "connect", "hello", "select", "handle", "reply"} \cup Ending
RequestType == [to : Drivers, type : {"task", "status", "shutdown"}, id : Nat, timer : Nat]
ReplyType == [type : {"none", "hello", "accepted", "busy", "available"}, id : Nat,
              timer : Nat, at : 0 .. MaxTime]

\* Types: app_t and driver_t with the bounds of their arrays and of the sockets.
TypeOK ==
    /\ apc \in AppPC /\ ready \subseteq Drivers \cup {Stdin, Listener} /\ idx \in Nat
    /\ outbox \in Seq(RequestType) /\ (outbox # <<>> => apc = "stdin")
    /\ drivers \in Seq([pid : Drivers, connected : BOOLEAN]) /\ Len(drivers) <= DriverMax
    /\ pending \in Seq(Drivers) /\ Len(pending) <= DriverMax
    /\ nextId \in Nat /\ typed \in 0 .. MaxCommands /\ kills \in 0 .. MaxKills
    /\ <<running, stopRequested, childChanged, notified, listening>>
          \in BOOLEAN \X BOOLEAN \X BOOLEAN \X BOOLEAN \X BOOLEAN
    /\ dpc \in [Drivers -> DriverPC]
    /\ reply \in [Drivers -> ReplyType] /\ deadline \in [Drivers -> Nat]
    /\ \A d \in Drivers :
          /\ inbox[d] \in Seq(RequestType) /\ Len(inbox[d]) <= InputFrames
          /\ toDriver[d] \in Seq(RequestType) /\ Len(toDriver[d]) <= SocketRoom
          /\ toApp[d] \in Seq(ReplyType) /\ Len(toApp[d]) <= SocketRoom
          /\ dpc[d] \in {"handle", "reply"} => inbox[d] # <<>>
    /\ appEnd \in [Drivers -> {"none", "backlog", "open", "closed"}]
    /\ driverEnd \in [Drivers -> {"none", "open", "closed"}]
    /\ now \in 0 .. MaxTime

Entries(list) == {list[i] : i \in DOMAIN list}

\* The two tables own every open connection exactly once, and list no driver
\* twice, whatever order connections, their ends and SIGCHLDs are seen in: no
\* descriptor is lost in a swap, shared, or used after it was closed.
DescriptorsOwned ==
    apc \in Serving =>
       /\ \A i, j \in DOMAIN drivers : i # j => drivers[i].pid # drivers[j].pid
       /\ \A i, j \in DOMAIN pending : i # j => pending[i] # pending[j]
       /\ \A d \in Drivers : Connected(d) => d \notin Entries(pending)
       /\ {d \in Drivers : appEnd[d] = "open"} = Entries(pending) \cup {d \in Drivers : Connected(d)}

\* The manager never loses sight of a driver that runs: it stays in the table until
\* its process is on its way out.
RunningDriversListed ==
    \A d \in Drivers : dpc[d] \notin {"none"} \cup Ending => Listed(d)

\* The tables of the manager agree with the world: with the descriptors that are open and
\* with the processes that run.
TablesTrue == DescriptorsOwned /\ RunningDriversListed

Ids(messages) == [i \in DOMAIN messages |-> messages[i].id]

\* HELLO comes before the responses; nothing comes after a SHUTDOWN, which ends the connection.
Responses(d) ==
    IF toApp[d] # <<>> /\ Head(toApp[d]).type = "hello" THEN Tail(toApp[d]) ELSE toApp[d]
Requests(d) == inbox[d] \o toDriver[d]

\* No request is lost, doubled or overtaken: the responses on their way to the
\* manager and the requests a driver has not answered yet are, in this order, the
\* requests without an answer so far.  A connection that ends may cost the rest.
AnswersInOrder ==
    \A d \in Drivers :
       LET open == Ids(Responses(d) \o Requests(d)) IN
       IF dpc[d] \in Ending \/ appEnd[d] = "closed" THEN IsPrefix(Ids(Responses(d)), asked[d])
       ELSE open = asked[d]

\* The responses of a driver tell one story: from accepting a task until its timer
\* ends every response is Busy with the whole seconds that remain, rounded up, and
\* a second task changes nothing; otherwise the driver accepts or is available.
TaskKept ==
    \A d \in Drivers : \A k \in DOMAIN Responses(d) :
       LET response == Responses(d)[k]
           left == LastEnd(told[d], Responses(d), k - 1) - response.at IN
       IF left > 0
       THEN /\ response.type = "busy"
            /\ (response.timer - 1) * Second < left /\ left <= response.timer * Second
       ELSE response.type \in {"accepted", "available"}

\* What the manager hears from a driver is a true account of it: every request has its
\* answer, in order, and the answers agree with the timer.
AnswersTrue == AnswersInOrder /\ TaskKept

\* When the manager has exited, no driver process goes on: each is collected, or has
\* closed its connection and is ending.
NobodyLeftBehind ==
    apc = "exited" => \A d \in Drivers : dpc[d] \in {"none"} \cup Ending

\* A driver that died is collected and forgotten: the self-pipe loses no SIGCHLD.
DeadDriversForgotten ==
    \A d \in Drivers :
       (dpc[d] = "zombie") ~> ((dpc[d] = "reaped" /\ ~Listed(d)) \/ apc \notin Serving)

\* Every request is answered unless its driver or the manager ends.
RequestsAnswered ==
    \A d \in Drivers :
       (asked[d] # <<>>) ~> (asked[d] = <<>> \/ dpc[d] \in Ending \/ apc \notin Serving)

\* While the manager serves, nothing that happens to a driver goes unnoticed: neither its
\* death nor its answers.
ServiceGoesOn == DeadDriversForgotten /\ RequestsAnswered

\* The manager ends after SIGINT, SIGTERM or the end of its input.
EndsWhenTold == (stopRequested \/ ~running) ~> (apc = "exited")
=============================================================================
