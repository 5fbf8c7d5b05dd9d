------------------------ MODULE DoublyLinkedPhoneBook -----------------------
(***************************************************************************)
(* 02-c-programming/04-01-doubly-linked-phone-book: contacts in a doubly   *)
(* linked list ordered by last name.  An address is a number, NULL is 0.   *)
(***************************************************************************)
EXTENDS Integers, SequencesExt

CONSTANTS LastNames, Names, Items, MaxItems, MaxId   \* see PhoneBook

DoublyLinkedPhoneBookAssumption == MaxItems \in Nat /\ MaxId \in Nat \ {0}

VARIABLES
    list,              \* .head, and the allocated contacts by address .at
    next_id, free_ids, \* the id manager
    editing,           \* the contact whose edit menu is open
    running

vars == <<list, next_id, free_ids, editing, running>>

Address == 1..(MaxId + 1)

Init ==
    /\ list = [head |-> 0, at |-> <<>>]
    /\ next_id = 1 /\ free_ids = <<>>
    /\ editing = 0 /\ running = TRUE

-----------------------------------------------------------------------------
(* Faulty variants of definitions below.                                   *)

NextId_NoWrap == next_id + 1
ReleaseId_Twice(id) == <<id, id>> \o free_ids
Passed_OnlyLess(contact, c) == contact.last < c.last
SetPrevious_Never(at, a, previous) == at

-----------------------------------------------------------------------------
(* The list.                                                               *)

Allocated == DOMAIN list.at

\* The addresses from head on; a pointer to freed memory would end them.
Path(l) ==
    LET from[a \in Address \union {0}] ==
            IF a \in DOMAIN l.at THEN <<a>> \o from[l.at[a].next] ELSE <<>>
    IN  from[l.head]

\* phone_book_find_by_id.
Found(id) ==
    LET path == Path(list)
        places == {i \in DOMAIN path : list.at[path[i]].id = id}
    IN  IF places = {} THEN 0 ELSE path[Min(places)]

SetNext(at, a, next) == IF a = 0 THEN at ELSE [at EXCEPT ![a].next = next]
SetPrevious(at, a, previous) == IF a = 0 THEN at ELSE [at EXCEPT ![a].previous = previous]

\* phone_book_add walks past the contacts whose last name is not greater.
Passed(contact, c) == contact.last <= c.last
Insert(l, a) ==
    LET path == Path(l)
        beyond == {i \in DOMAIN path : ~Passed(l.at[path[i]], l.at[a])}
        current == IF beyond = {} THEN 0 ELSE path[Min(beyond)]
        previous == IF current = l.head THEN 0
                    ELSE IF current = 0 THEN Last(path) ELSE l.at[current].previous
        linked == [l.at EXCEPT ![a].next = current, ![a].previous = previous]
    IN  [head |-> IF previous = 0 THEN a ELSE l.head,
         at |-> SetPrevious(SetNext(linked, previous, a), current, a)]

\* phone_book_detach.
Detach(l, a) ==
    LET node == l.at[a]
        linked == SetPrevious(SetNext(l.at, node.previous, node.next), node.next, node.previous)
    IN  [head |-> IF node.previous = 0 THEN node.next ELSE l.head,
         at |-> [linked EXCEPT ![a].next = 0, ![a].previous = 0]]

Malloc(l, a, node) ==
    [l EXCEPT !.at = [b \in DOMAIN @ \union {a} |-> IF b = a THEN node ELSE @[b]]]
Free(l, a) == [l EXCEPT !.at = [b \in DOMAIN @ \ {a} |-> @[b]]]

\* phone_book_take_id: a released id first; next_id wraps to 0 and stays there.
HasId == free_ids # <<>> \/ next_id # 0
NextId == (next_id + 1) % (MaxId + 1)
TakenId == IF free_ids # <<>> THEN Head(free_ids) ELSE next_id
TakeId ==
    IF free_ids # <<>> THEN free_ids' = Tail(free_ids) /\ UNCHANGED next_id
    ELSE next_id' = NextId /\ UNCHANGED free_ids
ReleaseId(id) == <<id>> \o free_ids

-----------------------------------------------------------------------------
(* The main menu: phone_book_run.                                          *)

InMenu == running /\ editing = 0

AddContact(last, name) ==
    LET a == Min(Address \ Allocated)
        node == [id |-> TakenId, last |-> last, name |-> name, items |-> <<>>,
                 next |-> 0, previous |-> 0]
    IN  /\ InMenu /\ HasId /\ TakeId
        /\ list' = Insert(Malloc(list, a, node), a)
        /\ UNCHANGED <<editing, running>>

RemoveContact(id) ==
    LET a == Found(id)
    IN  /\ InMenu /\ a # 0
        /\ free_ids' = ReleaseId(id)
        /\ list' = Free(Detach(list, a), a)
        /\ UNCHANGED <<next_id, editing, running>>

Edit(id) ==
    /\ InMenu /\ Found(id) # 0 /\ editing' = Found(id)
    /\ UNCHANGED <<list, next_id, free_ids, running>>

\* phone_book_clear.
Exit ==
    /\ InMenu /\ running' = FALSE
    /\ list' = [head |-> 0, at |-> <<>>] /\ next_id' = 1 /\ free_ids' = <<>>
    /\ UNCHANGED editing

-----------------------------------------------------------------------------
(* The edit menu: edit_contact.                                            *)

Store(after) ==
    /\ running /\ editing # 0 /\ list' = after
    /\ UNCHANGED <<next_id, free_ids, editing, running>>

\* edit_text_field and edit_contact_item find the contact again by its id.
Edited == Found(list.at[editing].id)
EditName(name) == Store([list EXCEPT !.at[Edited].name = name])
EditItem(k, item) ==
    /\ editing # 0 /\ k \in DOMAIN list.at[Edited].items
    /\ Store([list EXCEPT !.at[Edited].items[k] = item])

\* phone_book_edit_last_name takes the contact out and puts it back in its new place.
EditLastName(last) ==
    Store(Insert([Detach(list, Edited) EXCEPT !.at[Edited].last = last], Edited))

\* add_contact_item uses the contact that the menu holds.
AddItem(item) ==
    /\ editing # 0 /\ Len(list.at[editing].items) < MaxItems
    /\ Store([list EXCEPT !.at[editing].items = Append(@, item)])

Back ==
    /\ running /\ editing # 0 /\ editing' = 0
    /\ UNCHANGED <<list, next_id, free_ids, running>>

-----------------------------------------------------------------------------

Next ==
    \/ \E last \in LastNames, name \in Names : AddContact(last, name)
    \/ \E id \in 1..MaxId : RemoveContact(id) \/ Edit(id)
    \/ Exit \/ Back
    \/ \E name \in Names : EditName(name)
    \/ \E last \in LastNames : EditLastName(last)
    \/ \E item \in Items : AddItem(item) \/ \E k \in 1..MaxItems : EditItem(k, item)

Spec == Init /\ [][Next]_vars

-----------------------------------------------------------------------------
(* Properties.                                                             *)

ContactAt(a) ==
    [id |-> list.at[a].id, last |-> list.at[a].last, name |-> list.at[a].name, items |-> list.at[a].items]
Book ==
    LET from[a \in Address \union {0}] ==
            IF a \in Allocated THEN <<ContactAt(a)>> \o from[list.at[a].next] ELSE <<>>
    IN  from[list.head]

\* Every variable keeps to its type; next_id does not leave the width of an unsigned int.
TypeOK ==
    /\ Allocated \subseteq Address /\ {list.head, editing} \subseteq Allocated \union {0}
    /\ \A a \in Allocated :
          /\ list.at[a].id \in 1..MaxId /\ Len(list.at[a].items) <= MaxItems
          /\ {list.at[a].next, list.at[a].previous} \subseteq Allocated \union {0}
    /\ next_id \in 0..MaxId /\ free_ids \in Seq(1..MaxId) /\ running \in BOOLEAN

\* The links of the list agree in both directions: what follows a contact has it as its
\* predecessor, only the first has none, and every contact in memory is in the list.
LinksAgree ==
    LET path == Path(list)
    IN  /\ ToSet(path) = Allocated
        /\ \A i \in DOMAIN path : list.at[path[i]].previous = IF i = 1 THEN 0 ELSE path[i - 1]

\* After any sequence of operations every id that was given belongs to one contact or waits
\* once among the released ones.
IdsConserved ==
    LET used == {list.at[a].id : a \in Allocated}
        given == IF next_id = 0 THEN 1..MaxId ELSE 1..(next_id - 1)
    IN  /\ Cardinality(Allocated) + Len(free_ids) = Cardinality(given)
        /\ used \union ToSet(free_ids) = given

\* The list behaves as a phone book in which a contact stands behind those whose last name
\* is not greater, also after its own last name was edited.
Abstract == INSTANCE PhoneBook WITH book <- Book, open <- running, Sorted <- TRUE
IsPhoneBook == Abstract!Spec

=============================================================================
