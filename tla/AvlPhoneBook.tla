---------------------------- MODULE AvlPhoneBook ----------------------------
(***************************************************************************)
(* 02-c-programming/04-03-avl-tree-phone-book: contacts in an AVL tree     *)
(* ordered by last name.  An address is a number, NULL is 0; memory is     *)
(* given out again like the ids, the last one released first.              *)
(***************************************************************************)
EXTENDS Integers, SequencesExt

CONSTANTS
    LastNames, Names, Items, MaxItems, MaxId,   \* see PhoneBook
    MaxEntries   \* a bound: the items of all contacts together

AvlPhoneBookAssumption == {MaxItems, MaxEntries} \subseteq Nat /\ MaxId \in Nat \ {0}

VARIABLES
    tree,              \* .top, the root, and the allocated contacts by address .at
    next_id, free_ids, \* the id manager
    editing,           \* the contact whose edit menu is open
    reported,          \* the id printed by the last step, or 0
    running

vars == <<tree, next_id, free_ids, editing, reported, running>>

Init ==
    /\ tree = [at |-> <<>>, top |-> 0]
    /\ next_id = 1 /\ free_ids = <<>>
    /\ editing = 0 /\ reported = 0 /\ running = TRUE

-----------------------------------------------------------------------------
(* Faulty variants of definitions below.                                   *)

LeansBack_Never(lean) == FALSE
SideOf_EqualLeft(contact, c) == IF contact.last >= c.last THEN "left" ELSE "right"
OnlyChild_Dropped(at, left) == [at |-> at, top |-> 0]
NextId_NoWrap == next_id + 1
NewContactId_Next == next_id

-----------------------------------------------------------------------------
(* Rotations.  An operator that changes a subtree returns the memory after *)
(* it and the new top of the subtree.                                      *)

Side == {"left", "right"}
Other(side) == IF side = "left" THEN "right" ELSE "left"

Height(at, a) == IF a = 0 THEN 0 ELSE at[a].height
BFactor(at, a) == Height(at, at[a].right) - Height(at, at[a].left)
FixHeight(at, a) ==
    [at EXCEPT ![a].height = 1 + Max({Height(at, at[a].left), Height(at, at[a].right)})]

\* right_rotate raises the left child, left_rotate the right one.
Raise(at, a, side) ==
    LET tmp == at[a][side]
        moved == [at EXCEPT ![a][side] = at[tmp][Other(side)], ![tmp][Other(side)] = a]
    IN  [at |-> FixHeight(FixHeight(moved, a), tmp), top |-> tmp]

\* How far the balance of a subtree leans to a side.
Lean(at, a, side) == IF side = "right" THEN BFactor(at, a) ELSE -BFactor(at, a)
LeansBack(lean) == lean < 0

Balance(at, a) ==
    LET fixed == FixHeight(at, a)
        heavy == {side \in Side : Lean(fixed, a, side) = 2}
    IN  IF heavy = {} THEN [at |-> fixed, top |-> a]
        ELSE LET side == CHOOSE s \in heavy : TRUE
                 child == fixed[a][side]
                 inner == IF LeansBack(Lean(fixed, child, side)) THEN Raise(fixed, child, Other(side))
                          ELSE [at |-> fixed, top |-> child]
             IN  Raise([inner.at EXCEPT ![a][side] = inner.top], a, side)

-----------------------------------------------------------------------------
(* The tree.                                                               *)

Allocated == DOMAIN tree.at

\* phone_book_add: equal last names go to the right.
SideOf(contact, c) == IF contact.last > c.last THEN "left" ELSE "right"

RECURSIVE Insert(_, _, _)
Insert(at, a, new) ==
    IF a = 0 THEN [at |-> at, top |-> new]
    ELSE LET side == SideOf(at[a], at[new])
             below == Insert(at, at[a][side], new)
         IN  Balance([below.at EXCEPT ![a][side] = below.top], a)

RECURSIVE FindMin(_, _)
FindMin(at, a) == IF at[a].left = 0 THEN a ELSE FindMin(at, at[a].left)

RECURSIVE RemoveMin(_, _)
RemoveMin(at, a) ==
    IF at[a].left = 0 THEN [at |-> at, top |-> at[a].right]
    ELSE LET below == RemoveMin(at, at[a].left)
         IN  Balance([below.at EXCEPT ![a].left = below.top], a)

\* phone_book_extract_node, the contact found.
OnlyChild(at, left) == [at |-> at, top |-> left]
TakeOut(at, a) ==
    LET left == at[a].left
        right == at[a].right
        alone == [at EXCEPT ![a].left = 0, ![a].right = 0, ![a].height = 1]
        min == FindMin(alone, right)
        below == RemoveMin(alone, right)
    IN  IF right = 0 THEN OnlyChild(alone, left)
        ELSE Balance([below.at EXCEPT ![min].right = below.top, ![min].left = left], min)

\* phone_book_extract_node: the left subtree is searched first.
RECURSIVE Extract(_, _, _)
Extract(at, a, id) ==
    IF a = 0 THEN [at |-> at, top |-> 0, extracted |-> 0]
    ELSE IF at[a].id = id THEN TakeOut(at, a) @@ [extracted |-> a]
    ELSE LET l == Extract(at, at[a].left, id)
             onLeft == [l.at EXCEPT ![a].left = l.top]
             r == IF l.extracted # 0 THEN [l EXCEPT !.at = onLeft, !.top = onLeft[a].right]
                  ELSE Extract(onLeft, onLeft[a].right, id)
         IN  Balance([r.at EXCEPT ![a].right = r.top], a) @@ [extracted |-> r.extracted]

\* The addresses in the order in which print_contacts_in_order visits them.
RECURSIVE InOrder(_)
InOrder(a) ==
    IF a \notin Allocated THEN <<>>
    ELSE InOrder(tree.at[a].left) \o <<a>> \o InOrder(tree.at[a].right)
Path == InOrder(tree.top)

\* phone_book_find_by_id.
Found(id) ==
    LET path == Path
        places == {i \in DOMAIN path : tree.at[path[i]].id = id}
    IN  IF places = {} THEN 0 ELSE path[Min(places)]

\* phone_book_node_create_and_add.
With(new) ==
    Insert([a \in Allocated \union {new.id} |-> IF a = new.id THEN new ELSE tree.at[a]],
           tree.top, new.id)

\* phone_book_remove.
Without(id) ==
    LET rest == Extract(tree.at, tree.top, id)
    IN  [at |-> [a \in Allocated \ {rest.extracted} |-> rest.at[a]], top |-> rest.top]

\* phone_book_edit_last_name takes the contact out and adds it again.
Renamed(id, last) ==
    LET rest == Extract(tree.at, tree.top, id)
    IN  Insert([rest.at EXCEPT ![rest.extracted].last = last], rest.top, rest.extracted)

\* phone_book_take_id: a released id first; next_id wraps to 0 and stays there.
HasId == free_ids # <<>> \/ next_id # 0
NextId == (next_id + 1) % (MaxId + 1)
TakenId == IF free_ids # <<>> THEN Head(free_ids) ELSE next_id
TakeId ==
    IF free_ids # <<>> THEN free_ids' = Tail(free_ids) /\ UNCHANGED next_id
    ELSE next_id' = NextId /\ UNCHANGED free_ids
ReleaseId(id) == <<id>> \o free_ids

-----------------------------------------------------------------------------
(* The main menu: phone_book_run.                                          *)

InMenu == running /\ editing = 0

\* add_contact predicts the id before it adds the contact.
NewContactId == IF free_ids # <<>> THEN Head(free_ids) ELSE next_id
AddContact(last, name) ==
    LET node == [id |-> TakenId, last |-> last, name |-> name, items |-> <<>>,
                 left |-> 0, right |-> 0, height |-> 1]
    IN  /\ InMenu /\ HasId /\ TakeId
        /\ tree' = With(node)
        /\ reported' = NewContactId
        /\ UNCHANGED <<editing, running>>

RemoveContact(id) ==
    /\ InMenu /\ Found(id) # 0
    /\ free_ids' = ReleaseId(id) /\ tree' = Without(id)
    /\ reported' = 0 /\ UNCHANGED <<next_id, editing, running>>

Edit(id) ==
    /\ InMenu /\ Found(id) # 0 /\ editing' = Found(id)
    /\ reported' = 0
    /\ UNCHANGED <<tree, next_id, free_ids, running>>

\* phone_book_clear.
Exit ==
    /\ InMenu /\ running' = FALSE
    /\ tree' = [at |-> <<>>, top |-> 0] /\ next_id' = 1 /\ free_ids' = <<>>
    /\ reported' = 0 /\ UNCHANGED editing

-----------------------------------------------------------------------------
(* The edit menu: edit_contact.                                            *)

Store(after) ==
    /\ running /\ editing # 0 /\ tree' = after
    /\ reported' = 0 /\ UNCHANGED <<next_id, free_ids, editing, running>>

\* edit_text_field and edit_contact_item find the contact again by its id.
Edited == Found(tree.at[editing].id)
EditName(name) == Store([tree EXCEPT !.at[Edited].name = name])
EditLastName(last) == editing # 0 /\ Store(Renamed(tree.at[editing].id, last))
EditItem(k, item) ==
    /\ editing # 0 /\ k \in DOMAIN tree.at[Edited].items
    /\ Store([tree EXCEPT !.at[Edited].items[k] = item])

\* add_contact_item uses the contact that the menu holds.
AddItem(item) ==
    /\ FoldSet(LAMBDA a, n : n + Len(tree.at[a].items), 0, Allocated) < MaxEntries
    /\ editing # 0 /\ Len(tree.at[editing].items) < MaxItems
    /\ Store([tree EXCEPT !.at[editing].items = Append(@, item)])

Back ==
    /\ running /\ editing # 0 /\ editing' = 0
    /\ reported' = 0
    /\ UNCHANGED <<tree, next_id, free_ids, running>>

-----------------------------------------------------------------------------

Next ==
    \/ \E last \in LastNames, name \in Names : AddContact(last, name)
    \/ \E id \in 1..MaxId : RemoveContact(id) \/ Edit(id)
    \/ Exit \/ Back
    \/ \E name \in Names : EditName(name)
    \/ \E last \in LastNames : EditLastName(last)
    \/ \E item \in Items : AddItem(item) \/ \E k \in 1..MaxItems : EditItem(k, item)

Spec == Init /\ [][Next]_vars

-----------------------------------------------------------------------------
(* Properties.                                                             *)

ContactAt(a) ==
    [id |-> tree.at[a].id, last |-> tree.at[a].last, name |-> tree.at[a].name,
     items |-> tree.at[a].items]

RECURSIVE Contacts(_)
Contacts(a) ==
    IF a \notin Allocated THEN <<>>
    ELSE Contacts(tree.at[a].left) \o <<ContactAt(a)>> \o Contacts(tree.at[a].right)
Book == Contacts(tree.top)

RECURSIVE Depth(_)
Depth(a) == IF a = 0 THEN 0 ELSE 1 + Max({Depth(tree.at[a].left), Depth(tree.at[a].right)})

\* Every variable keeps to its type; next_id does not leave the width of an unsigned int.
TypeOK ==
    /\ Allocated \subseteq 1..MaxId /\ {tree.top, editing} \subseteq Allocated \union {0}
    /\ \A a \in Allocated :
          /\ tree.at[a].id \in 1..MaxId /\ Len(tree.at[a].items) <= MaxItems
          /\ {tree.at[a].left, tree.at[a].right} \subseteq Allocated \union {0}
    /\ next_id \in 0..MaxId /\ free_ids \in Seq(1..MaxId)
    /\ reported \in 0..MaxId /\ running \in BOOLEAN

\* After any sequence of additions, removals and renamings the two subtrees of every contact
\* differ in depth by at most one, and the heights stored in the nodes are their depths.
Balanced ==
    \A a \in Allocated :
        /\ tree.at[a].height = Depth(a)
        /\ Depth(tree.at[a].left) - Depth(tree.at[a].right) \in -1..1

\* After any sequence of operations every id that was given belongs to one contact of the
\* tree or waits once among the released ones, and no other contact is in memory.
IdsConserved ==
    LET path == Path
        given == IF next_id = 0 THEN 1..MaxId ELSE 1..(next_id - 1)
    IN  /\ Len(path) + Len(free_ids) = Cardinality(given)
        /\ {tree.at[a].id : a \in Allocated} \union ToSet(free_ids) = given
        /\ ToSet(path) = Allocated

\* The id that add_contact predicted is the one of the contact it added.
PrintsNewId ==
    [][\A before \in {Book}, after \in {Book'} : Len(after) > Len(before) =>
          \E i \in DOMAIN after : after[i].id = reported' /\ after[i] \notin ToSet(before)]_vars

\* The tree behaves as a phone book in which a contact stands behind those whose last name
\* is not greater, whatever rotations were made since they were added.
Abstract == INSTANCE PhoneBook WITH book <- Book, open <- running, Sorted <- TRUE
IsPhoneBook == Abstract!Spec

=============================================================================
