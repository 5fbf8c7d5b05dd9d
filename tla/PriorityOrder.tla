---------------------------- MODULE PriorityOrder ---------------------------
(***************************************************************************)
(* What the priority queue of 02-c-programming/04-02-priority-queue        *)
(* promises: of the messages with the highest priority asked for, the one  *)
(* that was added first comes out first, and no message is lost.           *)
(***************************************************************************)
EXTENDS Integers, SequencesExt

CONSTANTS
    Levels,      \* PRIORITY_LEVELS
    Messages

VARIABLES
    waiting,     \* the messages of each priority, in the order of their addition
    answer       \* what the last operation asked for, added or returned

Priority == 0..(Levels - 1)
None == "none"

Init == waiting = [p \in Priority |-> <<>>] /\ answer = [op |-> None]

Total(held) == FoldSet(LAMBDA p, n : n + Len(held[p]), 0, Priority)

\* Additions go behind what waits, and the answer says how many were made.
Add(before, after) ==
    /\ \A p \in Priority : IsPrefix(before[p], after[p]) /\ ToSet(after[p]) \subseteq Messages
    /\ answer' = [op |-> "add", count |-> Total(after) - Total(before)]

\* The first message of the highest priority among those asked for.
First(held, asked) ==
    LET some == {p \in asked : held[p] # <<>>}
    IN  IF some = {} THEN None ELSE Head(held[Max(some)])

Peek(before, after) ==
    /\ after = before
    /\ answer' = [op |-> "peek", message |-> First(before, Priority)]

Take(before, after, asked) ==
    /\ answer' = [op |-> "take", asked |-> asked, message |-> First(before, asked)]
    /\ IF First(before, asked) = None THEN after = before
       ELSE LET p == Max({q \in asked : before[q] # <<>>})
            IN  after = [before EXCEPT ![p] = Tail(@)]

Next ==
    \E before \in {waiting}, after \in {waiting'} :
        \/ Add(before, after) \/ Peek(before, after)
        \/ \E p \in Priority : Take(before, after, {p}) \/ Take(before, after, p..(Levels - 1))
        \/ (\A p \in Priority : after[p] = <<>>) /\ answer' = [op |-> "end"]

Spec == Init /\ [][Next]_<<waiting, answer>>

=============================================================================
