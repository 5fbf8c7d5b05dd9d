---------------------------- MODULE PriorityQueue ---------------------------
(***************************************************************************)
(* 02-c-programming/04-02-priority-queue: one linked list of messages for  *)
(* every priority, with a pointer to its last node.  An address is a       *)
(* number, NULL is 0.                                                      *)
(***************************************************************************)
EXTENDS Integers, SequencesExt

CONSTANTS
    Levels,      \* PRIORITY_LEVELS
    Messages,    \* texts that a user types
    Generated,   \* a text that generate_messages makes
    MaxNodes     \* nodes the memory has room for; then malloc fails

PriorityQueueAssumption == Levels \in Nat \ {0} /\ MaxNodes \in Nat

VARIABLES
    heap,        \* the allocated nodes by address
    queue,       \* head and tail of every list
    answer,      \* what the last command printed
    running

vars == <<heap, queue, answer, running>>

Priority == 0..(Levels - 1)
Address == 1..MaxNodes
None == "none"

Init ==
    /\ heap = <<>>
    /\ queue = [p \in Priority |-> [head |-> 0, tail |-> 0]]
    /\ answer = [op |-> None] /\ running = TRUE

-----------------------------------------------------------------------------
(* Faulty variants of definitions below.                                   *)

Linked_TailKept(nodes, lists, p, a) ==
    IF lists[p].head = 0 THEN [lists EXCEPT ![p] = [head |-> a, tail |-> a]] ELSE lists
AtLeast_Above(p) == (p + 1)..(Levels - 1)
NewTail_Kept(list, next) == list.tail

-----------------------------------------------------------------------------
(* The lists.                                                              *)

Allocated == DOMAIN heap

\* create_node and push: the nodes and the lists after them; unchanged if malloc fails.
Fails(nodes) == DOMAIN nodes = Address
Malloc(nodes, a, message) ==
    [b \in DOMAIN nodes \union {a} |->
        IF b = a THEN [message |-> message, next |-> 0] ELSE nodes[b]]
Linked(nodes, lists, p, a) ==
    IF lists[p].head = 0 THEN [lists EXCEPT ![p] = [head |-> a, tail |-> a]]
    ELSE [lists EXCEPT ![p].tail = a]
Push(q, p, message) ==
    IF Fails(q.nodes) THEN q
    ELSE LET a == Min(Address \ DOMAIN q.nodes)
             made == Malloc(q.nodes, a, message)
             last == q.lists[p].tail
         IN  [nodes |-> IF q.lists[p].head = 0 THEN made ELSE [made EXCEPT ![last].next = a],
              lists |-> Linked(made, q.lists, p, a), count |-> q.count + 1]

\* pop_from_queue on a list that is not empty.
NewTail(list, next) == IF next = 0 THEN 0 ELSE list.tail
Pop(p) ==
    LET node == queue[p].head
        next == heap[node].next
    IN  /\ queue' = [queue EXCEPT ![p] = [head |-> next, tail |-> NewTail(@, next)]]
        /\ heap' = [b \in Allocated \ {node} |-> heap[b]]

\* The list that a scan from the highest priority finds, or none.
Served(asked) ==
    LET some == {p \in asked : queue[p].head # 0} IN IF some = {} THEN {} ELSE {Max(some)}

\* push in a loop: up to the first failure.
Pushed(messages) ==
    FoldLeft(LAMBDA q, m : Push(q, m.priority, m.text),
             [nodes |-> heap, lists |-> queue, count |-> 0], messages)

-----------------------------------------------------------------------------
(* The menu: main.                                                         *)

Add(messages) ==
    /\ running
    /\ \E after \in {Pushed(messages)} :
          /\ heap' = after.nodes /\ queue' = after.lists
          /\ answer' = [op |-> "add", count |-> after.count]
    /\ UNCHANGED running

AddMessage(p, message) == Add(<<[priority |-> p, text |-> message]>>)

\* rand chooses the priorities.
GenerateMessages(priorities) ==
    Add([i \in DOMAIN priorities |-> [priority |-> priorities[i], text |-> Generated]])

PeekMessage ==
    /\ running
    /\ answer' = [op |-> "peek",
                  message |-> IF Served(Priority) = {} THEN None
                              ELSE heap[queue[Max(Served(Priority))].head].message]
    /\ UNCHANGED <<heap, queue, running>>

Take(asked, levels) ==
    /\ running
    /\ \/ /\ Served(levels) = {}
          /\ answer' = [op |-> "take", asked |-> asked, message |-> None]
          /\ UNCHANGED <<heap, queue>>
       \/ \E p \in Served(levels) :
             /\ answer' = [op |-> "take", asked |-> asked, message |-> heap[queue[p].head].message]
             /\ Pop(p)
    /\ UNCHANGED running

PopFirst == Take(Priority, Priority)
PopExactPriority(p) == Take({p}, {p})
AtLeast(p) == p..(Levels - 1)
PopAtLeastPriority(p) == Take(p..(Levels - 1), AtLeast(p))

\* priority_queue_free.
Exit ==
    /\ running /\ running' = FALSE
    /\ heap' = <<>> /\ queue' = [p \in Priority |-> [head |-> 0, tail |-> 0]]
    /\ answer' = [op |-> "end"]

-----------------------------------------------------------------------------

Next ==
    \/ \E p \in Priority, message \in Messages : AddMessage(p, message)
    \/ \E p, q \in Priority : GenerateMessages(<<p, q>>)
    \/ PeekMessage \/ PopFirst \/ Exit
    \/ \E p \in Priority : PopExactPriority(p) \/ PopAtLeastPriority(p)

Spec == Init /\ [][Next]_vars

-----------------------------------------------------------------------------
(* Properties.                                                             *)

\* The addresses from a head on, and the messages there.
Path(p) ==
    LET from[a \in Address \union {0}] ==
            IF a \in Allocated THEN <<a>> \o from[heap[a].next] ELSE <<>>
    IN  from[queue[p].head]
Waiting == [p \in Priority |-> LET path == Path(p) IN [i \in DOMAIN path |-> heap[path[i]].message]]

\* Every variable keeps to its type, and no pointer refers to memory that was freed.
TypeOK ==
    LET pointer == Allocated \union {0}
    IN  /\ Allocated \subseteq Address /\ running \in BOOLEAN
        /\ heap \in [Allocated -> [message : Messages \union {Generated}, next : pointer]]
        /\ queue \in [Priority -> [head : pointer, tail : pointer]]

\* Whatever was added and taken before, a tail is the last node of its list, an empty list
\* has none, and every node in memory is in exactly one list.
ListsSound ==
    /\ \A p \in Priority :
          LET path == Path(p) IN queue[p].tail = IF path = <<>> THEN 0 ELSE Last(path)
    /\ UNION {ToSet(Path(p)) : p \in Priority} = Allocated
    /\ \A p, q \in Priority : p # q => ToSet(Path(p)) \intersect ToSet(Path(q)) = {}

\* The lists behave as one queue ordered by priority and, within a priority, by arrival.
Abstract == INSTANCE PriorityOrder WITH
    waiting <- Waiting, Messages <- Messages \union {Generated}
IsPriorityQueue == Abstract!Spec

=============================================================================
