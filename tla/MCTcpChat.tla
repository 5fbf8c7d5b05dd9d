----------------------------- MODULE MCTcpChat ------------------------------
(***************************************************************************)
(* Instances of TcpChat for TLC.                                           *)
(***************************************************************************)
EXTENDS TcpChat

CONSTANTS c1, c2, c3, c4

\* A user does several things to one client.
Does(c, lines) == [i \in DOMAIN lines |-> <<c, lines[i]>>]
Starts(cs) == [i \in DOMAIN cs |-> <<cs[i], "start">>]

\* Three in the chat, one sends a file and another one leaves; a fourth finds all slots
\* taken; one comes while another one is dropped; two in the chat, both send, or one types while it sends, sends twice, or stops
\* in the middle; the server is interrupted.
MCScripts == {
    << Starts(<<c3, c2, c1>>) \o << <<c1, "empty">>, <<c2, "exit">> >> >>,
    << Starts(<<c1, c3, c4>>), Starts(<<c2>>) >>,
    << Starts(<<c1, c2>>) \o << <<c2, "exit">>, <<c3, "start">> >>, << <<c1, "message">> >> >>,
    << Does(c1, <<"start", "file", "file">>), Does(c2, <<"start", "message">>) >>,
    << Does(c1, <<"start", "file">>), Does(c2, <<"start", "empty">>) >>,
    << Does(c1, <<"start", "message", "file", "shorten">>), Does(c2, <<"start", "exit">>) >>,
    << Does(c1, <<"start", "file">>), Starts(<<c2>>), << <<"server", "interrupt">> >> >>}
=============================================================================
