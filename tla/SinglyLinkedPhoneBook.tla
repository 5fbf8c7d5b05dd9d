------------------------ MODULE SinglyLinkedPhoneBook -----------------------
(***************************************************************************)
(* 02-c-programming/02-01-phone-book: contacts in a singly linked list, in *)
(* the order they were added, and the menus that operate on it.  An        *)
(* address is a number, NULL is 0; the heap holds the allocated contacts.  *)
(***************************************************************************)
EXTENDS Integers, SequencesExt

CONSTANTS LastNames, Names, Items, MaxItems, MaxId   \* see PhoneBook

SinglyLinkedPhoneBookAssumption == MaxItems \in Nat /\ MaxId \in Nat \ {0}

VARIABLES
    heap, head,        \* the contacts by address, and the first of them
    next_id, free_ids, \* the id manager
    editing,           \* the contact whose edit menu is open
    reported,          \* the id printed by the last step, or 0
    running

vars == <<heap, head, next_id, free_ids, editing, reported, running>>

Address == 1..(MaxId + 1)

Init ==
    /\ heap = <<>> /\ head = 0
    /\ next_id = 1 /\ free_ids = <<>>
    /\ editing = 0 /\ reported = 0 /\ running = TRUE

-----------------------------------------------------------------------------
(* Faulty variants of definitions below.                                   *)

NextId_NoWrap == next_id + 1
Unlinked_KeepHead(a) == head
ReleaseId_Twice(id) == <<id, id>> \o free_ids
LastAdded_First(path) == Head(path)

-----------------------------------------------------------------------------
(* The list.                                                               *)

Allocated == DOMAIN heap

\* The addresses from head on; a pointer to freed memory would end them.
Path ==
    LET from[a \in Address \union {0}] ==
            IF a \in Allocated THEN <<a>> \o from[heap[a].next] ELSE <<>>
    IN  from[head]

\* phone_book_find_by_id.
Found(id) ==
    LET path == Path
        places == {i \in DOMAIN path : heap[path[i]].id = id}
    IN  IF places = {} THEN 0 ELSE path[Min(places)]

Free(a) == [b \in Allocated \ {a} |-> heap[b]]

\* phone_book_take_id: a released id first; next_id wraps to 0 and stays there.
HasId == free_ids # <<>> \/ next_id # 0
NextId == (next_id + 1) % (MaxId + 1)
TakenId == IF free_ids # <<>> THEN Head(free_ids) ELSE next_id
TakeId ==
    IF free_ids # <<>> THEN free_ids' = Tail(free_ids) /\ UNCHANGED next_id
    ELSE next_id' = NextId /\ UNCHANGED free_ids
ReleaseId(id) == <<id>> \o free_ids

\* phone_book_add: behind the last one.
LastAdded(path) == Last(path)
Linked(a, contact) ==
    LET path == Path
        added == [b \in Allocated \union {a} |-> IF b = a THEN contact ELSE heap[b]]
    IN  IF path = <<>> THEN added ELSE [added EXCEPT ![Last(path)].next = a]

\* phone_book_remove.
Previous(a) ==
    LET before == {b \in Allocated : heap[b].next = a}
    IN  IF before = {} THEN 0 ELSE CHOOSE b \in before : TRUE
Unlinked(a) == IF Previous(a) = 0 THEN heap[a].next ELSE head
Rest(a) ==
    IF Previous(a) = 0 THEN Free(a)
    ELSE [Free(a) EXCEPT ![Previous(a)].next = heap[a].next]

-----------------------------------------------------------------------------
(* The main menu: phone_book_run.                                          *)

InMenu == running /\ editing = 0

\* add_contact prints the id of the last contact.
AddContact(last, name) ==
    LET a == Min(Address \ Allocated)
    IN  /\ InMenu /\ HasId /\ TakeId
        /\ heap' = Linked(a, [id |-> TakenId, last |-> last, name |-> name,
                              items |-> <<>>, next |-> 0])
        /\ head' = IF head = 0 THEN a ELSE head
        /\ reported' = heap'[LastAdded(Append(Path, a))].id
        /\ UNCHANGED <<editing, running>>

RemoveContact(id) ==
    LET a == Found(id)
    IN  /\ InMenu /\ a # 0
        /\ free_ids' = ReleaseId(id)
        /\ head' = Unlinked(a) /\ heap' = Rest(a)
        /\ reported' = 0 /\ UNCHANGED <<next_id, editing, running>>

Edit(id) ==
    /\ InMenu /\ Found(id) # 0 /\ editing' = Found(id)
    /\ reported' = 0
    /\ UNCHANGED <<heap, head, next_id, free_ids, running>>

\* phone_book_clear.
Exit ==
    /\ InMenu /\ running' = FALSE
    /\ heap' = <<>> /\ head' = 0 /\ next_id' = 1 /\ free_ids' = <<>>
    /\ reported' = 0 /\ UNCHANGED editing

-----------------------------------------------------------------------------
(* The edit menu: edit_contact.                                            *)

Store(a, contact) ==
    /\ running /\ editing # 0
    /\ heap' = [heap EXCEPT ![a] = contact]
    /\ reported' = 0 /\ UNCHANGED <<head, next_id, free_ids, editing, running>>

\* edit_text_field and edit_contact_item find the contact again by its id.
Edited == Found(heap[editing].id)
EditName(name) == Store(Edited, [heap[Edited] EXCEPT !.name = name])
EditLastName(last) == Store(Edited, [heap[Edited] EXCEPT !.last = last])
EditItem(k, item) ==
    /\ editing # 0 /\ k \in DOMAIN heap[Edited].items
    /\ Store(Edited, [heap[Edited] EXCEPT !.items[k] = item])

\* add_contact_item uses the contact that the menu holds.
AddItem(item) ==
    /\ editing # 0 /\ Len(heap[editing].items) < MaxItems
    /\ Store(editing, [heap[editing] EXCEPT !.items = Append(@, item)])

Back ==
    /\ running /\ editing # 0 /\ editing' = 0
    /\ reported' = 0
    /\ UNCHANGED <<heap, head, next_id, free_ids, running>>

-----------------------------------------------------------------------------

Next ==
    \/ \E last \in LastNames, name \in Names : AddContact(last, name)
    \/ \E id \in 1..MaxId : RemoveContact(id) \/ Edit(id)
    \/ Exit \/ Back
    \/ \E name \in Names : EditName(name)
    \/ \E last \in LastNames : EditLastName(last)
    \/ \E item \in Items : AddItem(item) \/ \E k \in 1..MaxItems : EditItem(k, item)

Spec == Init /\ [][Next]_vars

-----------------------------------------------------------------------------
(* Properties.                                                             *)

ContactAt(a) ==
    [id |-> heap[a].id, last |-> heap[a].last, name |-> heap[a].name, items |-> heap[a].items]
Book ==
    LET from[a \in Address \union {0}] ==
            IF a \in Allocated THEN <<ContactAt(a)>> \o from[heap[a].next] ELSE <<>>
    IN  from[head]

\* Every variable keeps to its type; next_id does not leave the width of an unsigned int.
TypeOK ==
    /\ Allocated \subseteq Address /\ {head, editing} \subseteq Allocated \union {0}
    /\ \A a \in Allocated :
          heap[a].id \in 1..MaxId /\ heap[a].next \in Allocated \union {0}
          /\ Len(heap[a].items) <= MaxItems
    /\ next_id \in 0..MaxId /\ free_ids \in Seq(1..MaxId)
    /\ reported \in 0..MaxId /\ running \in BOOLEAN

\* After any sequence of operations every id is in exactly one place: it belongs to one
\* contact of the list, or waits once among the released ones, or was never given; and no
\* contact is in memory that is not in the list.
IdsConserved ==
    LET used == Book
        given == IF next_id = 0 THEN 1..MaxId ELSE 1..(next_id - 1)
    IN  /\ Len(used) + Len(free_ids) = Cardinality(given)
        /\ {used[i].id : i \in DOMAIN used} \union ToSet(free_ids) = given
        /\ ToSet(Path) = Allocated

\* The id that add_contact prints is the one of the contact it added.
PrintsNewId ==
    [][\A before \in {Book}, after \in {Book'} : Len(after) > Len(before) =>
          \E i \in DOMAIN after : after[i].id = reported' /\ after[i] \notin ToSet(before)]_vars

\* The list behaves as a phone book in the order of additions.
Abstract == INSTANCE PhoneBook WITH book <- Book, open <- running, Sorted <- FALSE
IsPhoneBook == Abstract!Spec

=============================================================================
