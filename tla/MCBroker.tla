------------------------------ MODULE MCBroker ------------------------------
(***************************************************************************)
(* Instances of Broker for TLC.                                            *)
(***************************************************************************)
EXTENDS Broker, TLC

CONSTANTS p1, p2, s1, s2

\* Everybody is interested in one topic, which the first subscriber may name twice.
OneTopic == p1 :> "t" @@ p2 :> "t"
OneTopicTwice == s1 :> <<"t", "t">> @@ s2 :> <<"t">>
OneTopicOnce == s1 :> <<"t">> @@ s2 :> <<"t">>

\* One topic for each publisher, and subscribers with one or both.
TwoTopics == p1 :> "t" @@ p2 :> "u"
BothOrOne == s1 :> <<"t", "u">> @@ s2 :> <<"u">>
=============================================================================
