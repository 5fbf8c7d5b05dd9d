------------------------------ MODULE PhoneBook -----------------------------
(***************************************************************************)
(* What a phone book of 02-c-programming promises its user, whatever it    *)
(* keeps its contacts in: they come in a definite order, each with an id   *)
(* of its own, and an operation changes the contact it names and no other. *)
(***************************************************************************)
EXTENDS Integers, SequencesExt

CONSTANTS
    LastNames,   \* numbers, in the order of strcmp
    Names,       \* values of the fields that do not decide the order
    Items,       \* telephone numbers, e-mail addresses and links
    MaxItems,    \* MAX_PHONE_NUMBERS and the like
    MaxId,       \* UINT_MAX
    Sorted       \* ordered by last name, or as they were added

VARIABLES
    book,        \* the contacts in order
    open         \* the program runs

Ids(contacts) == {contacts[i].id : i \in DOMAIN contacts}

\* A contact comes after those whose last name is not greater.
Placed(contacts, c) ==
    LET notAfter == {i \in DOMAIN contacts : ~Sorted \/ contacts[i].last <= c.last}
    IN  InsertAt(contacts, 1 + (IF notAfter = {} THEN 0 ELSE Max(notAfter)), c)

Without(contacts, id) == SelectSeq(contacts, LAMBDA c : c.id # id)

Init == book = <<>> /\ open = TRUE

\* Every operation, from the contacts before it to those after it.
EditName(before, after) ==
    \E i \in DOMAIN before, name \in Names : after = [before EXCEPT ![i].name = name]
AddItem(before, after) ==
    \E i \in DOMAIN before, item \in Items :
        /\ Len(before[i].items) < MaxItems
        /\ after = [before EXCEPT ![i].items = Append(@, item)]
EditItem(before, after) ==
    \E i \in DOMAIN before, item \in Items : \E k \in DOMAIN before[i].items :
        after = [before EXCEPT ![i].items[k] = item]
Add(before, after) ==
    \E c \in ToSet(after) :
        /\ c.id \in (1..MaxId) \ Ids(before)
        /\ c.last \in LastNames /\ c.name \in Names /\ c.items = <<>>
        /\ after = Placed(before, c)
RemoveContact(before, after) ==
    \E id \in Ids(before) \ Ids(after) : after = Without(before, id)
EditLastName(before, after) ==
    \E i \in DOMAIN before, last \in LastNames :
        LET c == [before[i] EXCEPT !.last = last]
        IN  after = IF Sorted THEN Placed(Without(before, c.id), c) ELSE [before EXCEPT ![i] = c]

Operation(before, after) ==
    \/ EditName(before, after) \/ AddItem(before, after) \/ EditItem(before, after)
    \/ Add(before, after) \/ RemoveContact(before, after) \/ EditLastName(before, after)

Next ==
    /\ open
    /\ \E before \in {book}, after \in {book'} :
          \/ Operation(before, after) /\ UNCHANGED open
          \/ after = <<>> /\ open' = FALSE

Spec == Init /\ [][Next]_<<book, open>>

=============================================================================
