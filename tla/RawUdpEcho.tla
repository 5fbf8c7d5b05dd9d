------------------------------ MODULE RawUdpEcho ----------------------------
(***************************************************************************)
(* 03-ipc-and-network-programming/cross-01-raw-udp-echo: the server sends  *)
(* every message back with its number among the messages of that client,   *)
(* which it knows by address and port until the client says ECHO_CLOSE.    *)
(* Sockets are raw: every process sees the datagrams of its whole address, *)
(* and two of them may use one port.                                       *)
(***************************************************************************)
EXTENDS Integers, SequencesExt

CONSTANTS
    Clients,      \* client processes; one that ended may be started again
    Endpoint,     \* address and port of each of them
    Texts,        \* payloads
    MaxCounter,   \* UINT32_MAX
    MaxInputs,    \* bound on what users do: start a client, type, press Ctrl+C
    MaxFaults     \* bound on lost datagrams, killed clients and restarts of the server

RawUdpEchoAssumption ==
    Texts # {} /\ MaxCounter \in Nat \ {0} /\ MaxInputs \in Nat /\ MaxFaults \in Nat

VARIABLES
    pc, interrupted, text,   \* of the clients: the loop, the signal, the payload sent last
    inbox,                   \* datagrams that reached the socket of a client
    numbers,                 \* what a client printed since it was started
    counter,                 \* of each endpoint in the list of the server, 0 for none
    toServer, toClients,     \* datagrams under way
    inputs, faults,          \* bounds
    fresh,                   \* clients that started when no request or reply was under way
    disturbed                \* endpoints whose ECHO_CLOSE or list entry was lost or overtaken

process == <<pc, interrupted, text, inbox, numbers>>
net == <<toServer, toClients>>
vars == <<process, counter, net, inputs, faults, fresh, disturbed>>

Endpoints == {Endpoint[p] : p \in Clients}
Open(p) == pc[p] # "off"

Init ==
    /\ pc = [p \in Clients |-> "off"] /\ interrupted = [p \in Clients |-> FALSE]
    /\ text \in [Clients -> {CHOOSE t \in Texts : TRUE}]
    /\ inbox = [p \in Clients |-> <<>>] /\ numbers = [p \in Clients |-> <<>>]
    /\ counter = [e \in Endpoints |-> 0]
    /\ toServer = <<>> /\ toClients = <<>>
    /\ inputs = 0 /\ faults = 0
    /\ fresh = {} /\ disturbed = {}

-----------------------------------------------------------------------------
(* Faulty variants of definitions below.                                   *)

Forget_Nothing(e) == counter
AtLimit_Never(e) == FALSE
Polls_OnlyReplies(p) == inbox[p] # <<>>
Farewell_Quit(p) == IF interrupted[p] THEN <<>> ELSE <<[from |-> Endpoint[p], type |-> "close"]>>

-----------------------------------------------------------------------------
(* The client: main and client_send_request.                               *)

Input == inputs < MaxInputs /\ inputs' = inputs + 1
Fault == faults < MaxFaults /\ faults' = faults + 1

UnderWay(e) ==
    \/ \E i \in DOMAIN toServer : toServer[i].from = e /\ toServer[i].type = "request"
    \/ \E i \in DOMAIN toClients : toClients[i].to = e

\* client_open: bind does not object to a port in use.
Start(p) ==
    LET sharing == {q \in Clients \ {p} : Open(q) /\ Endpoint[q] = Endpoint[p]}
    IN  /\ ~Open(p) /\ Input
        /\ pc' = [pc EXCEPT ![p] = "prompt"] /\ interrupted' = [interrupted EXCEPT ![p] = FALSE]
        /\ inbox' = [inbox EXCEPT ![p] = <<>>] /\ numbers' = [numbers EXCEPT ![p] = <<>>]
        /\ fresh' = (fresh \ (sharing \union {p})) \union
               (IF sharing = {} /\ ~UnderWay(Endpoint[p]) THEN {p} ELSE {})
        /\ UNCHANGED <<text, counter, net, faults, disturbed>>

\* client_send_request refuses the line that ended an fgets which missed the signal.
Type(p, t) ==
    /\ pc[p] = "prompt" /\ Input
    /\ IF interrupted[p]
       THEN pc' = [pc EXCEPT ![p] = "leave"] /\ UNCHANGED <<text, toServer>>
       ELSE /\ pc' = [pc EXCEPT ![p] = "wait"] /\ text' = [text EXCEPT ![p] = t]
            /\ toServer' = Append(toServer, [from |-> Endpoint[p], type |-> "request", text |-> t])
    /\ UNCHANGED <<interrupted, inbox, numbers, counter, toClients, faults, fresh, disturbed>>

\* "/quit", the end of the input, or the signal that ended fgets.
Quit(p) ==
    /\ pc[p] = "prompt" /\ pc' = [pc EXCEPT ![p] = "leave"]
    /\ UNCHANGED <<interrupted, text, inbox, numbers, counter, net, inputs, faults, fresh, disturbed>>

\* client_receive_response takes a reply with the payload of the request and skips others.
Matches(p, reply) == reply.text = text[p]
Receive(p) ==
    LET reply == Head(inbox[p])
    IN  /\ pc[p] = "wait" /\ inbox[p] # <<>>
        /\ inbox' = [inbox EXCEPT ![p] = Tail(@)]
        /\ IF Matches(p, reply)
           THEN /\ numbers' = [numbers EXCEPT ![p] = Append(@, reply.counter)]
                /\ pc' = [pc EXCEPT ![p] = "prompt"]
           ELSE UNCHANGED <<numbers, pc>>
        /\ UNCHANGED <<interrupted, text, counter, net, inputs, faults, fresh, disturbed>>

\* poll returns after 250 milliseconds, or at once with EINTR.
Polls(p) == TRUE
Notice(p) ==
    /\ pc[p] = "wait" /\ interrupted[p] /\ Polls(p)
    /\ pc' = [pc EXCEPT ![p] = "leave"]
    /\ UNCHANGED <<interrupted, text, inbox, numbers, counter, net, inputs, faults, fresh, disturbed>>

Farewell(p) == <<[from |-> Endpoint[p], type |-> "close"]>>
Leave(p) ==
    /\ pc[p] = "leave" /\ pc' = [pc EXCEPT ![p] = "off"]
    /\ inbox' = [inbox EXCEPT ![p] = <<>>]
    /\ toServer' = toServer \o Farewell(p)
    /\ UNCHANGED <<interrupted, text, numbers, counter, toClients, inputs, faults, fresh, disturbed>>

Interrupt(p) ==
    /\ Open(p) /\ ~interrupted[p] /\ Input
    /\ interrupted' = [interrupted EXCEPT ![p] = TRUE]
    /\ UNCHANGED <<pc, text, inbox, numbers, counter, net, faults, fresh, disturbed>>

-----------------------------------------------------------------------------
(* The server: server_handle_message, for the i-th datagram under way.     *)

\* server_state_next_counter.
AtLimit(e) == counter[e] = MaxCounter
Forget(e) == [counter EXCEPT ![e] = 0]

Handle(i) ==
    LET request == toServer[i]
        e == request.from
    IN  /\ toServer' = RemoveAt(toServer, i)
        /\ \/ request.type = "close" /\ counter' = Forget(e) /\ UNCHANGED toClients
           \/ /\ request.type = "request" /\ ~AtLimit(e)
              /\ counter' = [counter EXCEPT ![e] = @ + 1]
              /\ toClients' = Append(toClients,
                     [to |-> e, counter |-> counter[e] + 1, text |-> request.text])
           \/ request.type = "request" /\ AtLimit(e) /\ UNCHANGED <<counter, toClients>>
        /\ disturbed' = disturbed \union
               (IF \E k \in 1..(i - 1) : toServer[k].from = e THEN {e} ELSE {})
        /\ UNCHANGED <<process, inputs, faults, fresh>>

-----------------------------------------------------------------------------
(* The network and the outside.                                            *)

\* A reply reaches every process of its address.
Deliver(i) ==
    LET reply == toClients[i]
    IN  /\ toClients' = RemoveAt(toClients, i)
        /\ inbox' = [p \in Clients |-> IF Open(p) /\ Endpoint[p] = reply.to
                                       THEN Append(inbox[p], reply) ELSE inbox[p]]
        /\ UNCHANGED <<pc, interrupted, text, numbers, counter, toServer, inputs, faults,
                       fresh, disturbed>>

Lose ==
    /\ Fault
    /\ \/ \E i \in DOMAIN toServer :
             /\ toServer' = RemoveAt(toServer, i)
             /\ disturbed' = disturbed \union
                    (IF toServer[i].type = "close" THEN {toServer[i].from} ELSE {})
             /\ UNCHANGED toClients
       \/ \E i \in DOMAIN toClients :
             toClients' = RemoveAt(toClients, i) /\ UNCHANGED <<toServer, disturbed>>
    /\ UNCHANGED <<process, counter, inputs, fresh>>

Kill(p) ==
    /\ Open(p) /\ Fault
    /\ pc' = [pc EXCEPT ![p] = "off"] /\ inbox' = [inbox EXCEPT ![p] = <<>>]
    /\ disturbed' = disturbed \union {Endpoint[p]}
    /\ UNCHANGED <<interrupted, text, numbers, counter, net, inputs, fresh>>

\* The list of clients lives in the server process.
RestartServer ==
    /\ Fault
    /\ counter' = [e \in Endpoints |-> 0]
    /\ disturbed' = disturbed \union {e \in Endpoints : counter[e] > 0}
    /\ UNCHANGED <<process, net, inputs, fresh>>

-----------------------------------------------------------------------------

Next ==
    \/ \E p \in Clients :
          \/ Start(p) \/ Quit(p) \/ Receive(p) \/ Notice(p) \/ Leave(p)
          \/ Interrupt(p) \/ Kill(p) \/ \E t \in Texts : Type(p, t)
    \/ \E i \in DOMAIN toServer : Handle(i)
    \/ \E i \in DOMAIN toClients : Deliver(i)
    \/ Lose \/ RestartServer

\* A client is scheduled; datagrams may be lost and users need not act.
Steps == \E p \in Clients : Receive(p) \/ Notice(p) \/ Leave(p)
Fairness == WF_vars(Steps)

Spec == Init /\ [][Next]_vars
FairSpec == Spec /\ Fairness

-----------------------------------------------------------------------------
(* Properties.                                                             *)

\* Every variable keeps to its type; a number never wraps around to 0.
TypeOK ==
    /\ \A p \in Clients :
          /\ pc[p] \in {"off", "prompt", "wait", "leave"}
          /\ interrupted[p] \in BOOLEAN /\ text[p] \in Texts
          /\ numbers[p] \in Seq(1..MaxCounter)
          /\ ToSet(inbox[p]) \subseteq [to : {Endpoint[p]}, counter : 1..MaxCounter, text : Texts]
    /\ counter \in [Endpoints -> 0..MaxCounter]
    /\ inputs \in 0..MaxInputs /\ faults \in 0..MaxFaults
    /\ fresh \subseteq Clients /\ disturbed \subseteq Endpoints

\* A client sees its messages numbered 1, 2, 3, ... from its start, although the server
\* knows it by address and port only and another run used them before: unless requests or
\* replies of that run were still under way, or its ECHO_CLOSE was lost or overtaken.
NumberedFromOne ==
    \A p \in fresh :
        Open(p) /\ Endpoint[p] \notin disturbed => \A i \in DOMAIN numbers[p] : numbers[p][i] = i

\* When all clients of an endpoint have left and their datagrams are handled, the server
\* has forgotten the endpoint, however the clients were interrupted.
Forgotten ==
    \A e \in Endpoints \ disturbed :
        /\ \A p \in Clients : Endpoint[p] = e => ~Open(p)
        /\ \A i \in DOMAIN toServer : toServer[i].from # e
        => counter[e] = 0

\* A numbering belongs to one run of one client, from its beginning to its end.
Numbered == NumberedFromOne /\ Forgotten

\* A client that waits for a lost reply still ends when it is interrupted.
StopsWaiting == []<>(\A p \in Clients : ~(pc[p] = "wait" /\ interrupted[p]))

=============================================================================
