----------------------------- MODULE MCPrograms -----------------------------
(***************************************************************************)
(* Instances for TLC of the programs that have nothing to do with each     *)
(* other: a behaviour is one of a program, chosen in the beginning.        *)
(***************************************************************************)
EXTENDS Integers

CONSTANTS
    p1, p2, p3,          \* processes of the message queue chat
    e1, e2,              \* files of the pipe copier, clients of the echo server
    LastNames, Names, MaxItems   \* of the phone books

\* Three processes that come and go, or two whose users act.
MCCrowds == {[who |-> {p1, p2, p3}, inputs |-> 0], [who |-> {p1, p2}, inputs |-> 3]}
MCFiles == <<e1, e2>>
\* Both clients use one port.
MCEndpoint == [c \in {e1, e2} |-> "e"]

VARIABLES
    program,
    mqPc, mqRpc, mqStop, mqInterrupted, mqSendQueue, mqReceiveQueue, mqIsOwner, mqName,
    mqQueue, mqInputs, mqParting, mqDisturbed,
    pipeUseFifo, pipeName, pipePc, pipeResult, pipeContent, pipeReaders, pipeWriters,
    pipeLength, pipeIndex, pipeOut, pipeLeft, pipeAnnounced, pipeTaking, pipeRest, pipeGot,
    pipeCopy, pipeFaults,
    echoPc, echoInterrupted, echoText, echoInbox, echoNumbers, echoCounter, echoToServer,
    echoToClients, echoInputs, echoFaults, echoFresh, echoDisturbed,
    singlyHeap, singlyHead, singlyNextId, singlyFreeIds, singlyEditing, singlyReported,
    singlyRunning,
    doublyList, doublyNextId, doublyFreeIds, doublyEditing, doublyRunning,
    avlTree, avlNextId, avlFreeIds, avlEditing, avlReported, avlRunning,
    prioHeap, prioQueue, prioAnswer, prioRunning,
    ledsLedMask, ledsLedsAreOn, ledsModuleIsStopping, ledsKeyboard, ledsPending, ledsActive,
    ledsStore, ledsPc, ledsFailures

Mq == INSTANCE MqChat WITH
    Procs <- {p1, p2, p3}, Crowds <- MCCrowds, MaxMessages <- 2,
    pc <- mqPc, rpc <- mqRpc, stop <- mqStop, interrupted <- mqInterrupted,
    sendQueue <- mqSendQueue, receiveQueue <- mqReceiveQueue, isOwner <- mqIsOwner,
    name <- mqName, queue <- mqQueue, inputs <- mqInputs, parting <- mqParting,
    disturbed <- mqDisturbed
Pipe == INSTANCE PipeCopier WITH
    Files <- MCFiles, MaxLength <- 3, Chunk <- 2, PipeSize <- 2, MaxFaults <- 2,
    useFifo <- pipeUseFifo, name <- pipeName, pc <- pipePc, result <- pipeResult,
    content <- pipeContent, readers <- pipeReaders, writers <- pipeWriters,
    length <- pipeLength, index <- pipeIndex, out <- pipeOut, left <- pipeLeft,
    announced <- pipeAnnounced, taking <- pipeTaking, rest <- pipeRest, got <- pipeGot,
    copy <- pipeCopy, faults <- pipeFaults
Echo == INSTANCE RawUdpEcho WITH
    Clients <- {e1, e2}, Endpoint <- MCEndpoint, Texts <- {"t", "u"}, MaxCounter <- 2,
    MaxInputs <- 5, MaxFaults <- 1,
    pc <- echoPc, interrupted <- echoInterrupted, text <- echoText, inbox <- echoInbox,
    numbers <- echoNumbers, counter <- echoCounter, toServer <- echoToServer,
    toClients <- echoToClients, inputs <- echoInputs, faults <- echoFaults,
    fresh <- echoFresh, disturbed <- echoDisturbed
Singly == INSTANCE SinglyLinkedPhoneBook WITH
    Items <- {"i", "j"}, MaxId <- 3,
    heap <- singlyHeap, head <- singlyHead, next_id <- singlyNextId,
    free_ids <- singlyFreeIds, editing <- singlyEditing, reported <- singlyReported,
    running <- singlyRunning
Doubly == INSTANCE DoublyLinkedPhoneBook WITH
    Items <- {"i", "j"}, MaxId <- 3,
    list <- doublyList, next_id <- doublyNextId, free_ids <- doublyFreeIds,
    editing <- doublyEditing, running <- doublyRunning
Avl == INSTANCE AvlPhoneBook WITH
    Items <- {"i"}, MaxId <- 4, MaxEntries <- 1,
    tree <- avlTree, next_id <- avlNextId, free_ids <- avlFreeIds, editing <- avlEditing,
    reported <- avlReported, running <- avlRunning
Prio == INSTANCE PriorityQueue WITH
    Levels <- 3, Messages <- {"m"}, Generated <- "g", MaxNodes <- 3,
    heap <- prioHeap, queue <- prioQueue, answer <- prioAnswer, running <- prioRunning
Leds == INSTANCE KbLeds WITH
    Writers <- {"w1", "w2"}, MaxMask <- 2, MaxFailures <- 1,
    led_mask <- ledsLedMask, leds_are_on <- ledsLedsAreOn,
    module_is_stopping <- ledsModuleIsStopping, keyboard <- ledsKeyboard,
    pending <- ledsPending, active <- ledsActive, store <- ledsStore, pc <- ledsPc,
    failures <- ledsFailures

ASSUME MCProgramsAssumption ==
    /\ Mq!MqChatAssumption /\ Pipe!PipeCopierAssumption /\ Echo!RawUdpEchoAssumption
    /\ Singly!SinglyLinkedPhoneBookAssumption /\ Doubly!DoublyLinkedPhoneBookAssumption
    /\ Avl!AvlPhoneBookAssumption
    /\ Prio!PriorityQueueAssumption /\ Leds!KbLedsAssumption

mqVars == <<mqPc, mqRpc, mqStop, mqInterrupted, mqSendQueue, mqReceiveQueue, mqIsOwner,
            mqName, mqQueue, mqInputs, mqParting, mqDisturbed>>
pipeVars == <<pipeUseFifo, pipeName, pipePc, pipeResult, pipeContent, pipeReaders,
              pipeWriters, pipeLength, pipeIndex, pipeOut, pipeLeft, pipeAnnounced,
              pipeTaking, pipeRest, pipeGot, pipeCopy, pipeFaults>>
echoVars == <<echoPc, echoInterrupted, echoText, echoInbox, echoNumbers, echoCounter,
              echoToServer, echoToClients, echoInputs, echoFaults, echoFresh, echoDisturbed>>
singlyVars == <<singlyHeap, singlyHead, singlyNextId, singlyFreeIds, singlyEditing,
                singlyReported, singlyRunning>>
doublyVars == <<doublyList, doublyNextId, doublyFreeIds, doublyEditing, doublyRunning>>
avlVars == <<avlTree, avlNextId, avlFreeIds, avlEditing, avlReported, avlRunning>>
prioVars == <<prioHeap, prioQueue, prioAnswer, prioRunning>>
ledsVars == <<ledsLedMask, ledsLedsAreOn, ledsModuleIsStopping, ledsKeyboard, ledsPending,
              ledsActive, ledsStore, ledsPc, ledsFailures>>
vars == <<program, mqVars, pipeVars, echoVars, singlyVars, doublyVars, avlVars, prioVars,
          ledsVars>>

\* The initial states of a program differ only where it is the one that runs.
Init ==
    /\ program \in {"chat", "copier", "echo", "singly", "doubly", "avl", "priorities", "leds"}
    /\ Mq!Init /\ Pipe!Init /\ Echo!Init /\ Singly!Init /\ Doubly!Init /\ Avl!Init
    /\ Prio!Init /\ Leds!Init
    /\ program # "chat" => mqInputs = 0
    /\ program # "copier" =>
          /\ ~pipeUseFifo /\ \A p \in Pipe!Pipe : pipeName[p] = "none"
          /\ \A f \in {e1, e2} : pipeLength[f] = 0

MqNext ==
    /\ program = "chat" /\ Mq!Next
    /\ UNCHANGED <<program, pipeVars, echoVars, singlyVars, doublyVars, avlVars, prioVars,
                    ledsVars>>
PipeNext ==
    /\ program = "copier" /\ Pipe!Next
    /\ UNCHANGED <<program, mqVars, echoVars, singlyVars, doublyVars, avlVars, prioVars,
                    ledsVars>>
EchoNext ==
    /\ program = "echo" /\ Echo!Next
    /\ UNCHANGED <<program, mqVars, pipeVars, singlyVars, doublyVars, avlVars, prioVars,
                    ledsVars>>
SinglyNext ==
    /\ program = "singly" /\ Singly!Next
    /\ UNCHANGED <<program, mqVars, pipeVars, echoVars, doublyVars, avlVars, prioVars,
                    ledsVars>>
DoublyNext ==
    /\ program = "doubly" /\ Doubly!Next
    /\ UNCHANGED <<program, mqVars, pipeVars, echoVars, singlyVars, avlVars, prioVars,
                    ledsVars>>
AvlNext ==
    /\ program = "avl" /\ Avl!Next
    /\ UNCHANGED <<program, mqVars, pipeVars, echoVars, singlyVars, doublyVars, prioVars,
                    ledsVars>>
PrioNext ==
    /\ program = "priorities" /\ Prio!Next
    /\ UNCHANGED <<program, mqVars, pipeVars, echoVars, singlyVars, doublyVars, avlVars,
                    ledsVars>>
LedsNext ==
    /\ program = "leds" /\ Leds!Next
    /\ UNCHANGED <<program, mqVars, pipeVars, echoVars, singlyVars, doublyVars, avlVars,
                    prioVars>>

Next ==
    \/ MqNext \/ PipeNext \/ EchoNext \/ SinglyNext \/ DoublyNext \/ AvlNext
    \/ PrioNext \/ LedsNext

\* The fairness of every program, as its module states it.
Fairness ==
    /\ \A p \in {p1, p2, p3} : WF_mqVars(program = "chat" /\ Mq!Steps(p))
    /\ WF_pipeVars(program = "copier" /\ Pipe!Step)
    /\ WF_echoVars(program = "echo" /\ Echo!Steps)
    /\ WF_ledsVars(program = "leds" /\ Leds!Work)

Spec == Init /\ [][Next]_vars /\ Fairness

-----------------------------------------------------------------------------
(* The properties of the programs, as their modules state them.            *)

\* Every variable keeps to its type, in the program that runs.
TypeOK ==
    /\ program = "chat" => Mq!TypeOK
    /\ program = "copier" => Pipe!TypeOK
    /\ program = "echo" => Echo!TypeOK
    /\ program = "singly" => Singly!TypeOK
    /\ program = "doubly" => Doubly!TypeOK
    /\ program = "avl" => Avl!TypeOK
    /\ program = "priorities" => Prio!TypeOK
    /\ program = "leds" => Leds!TypeOK

\* Message queue chat: processes agree on the pair of queues they use and on how they part.
PeersAgree == program = "chat" => Mq!PeersAgree

\* Message queue chat: exits come first, and the receiving thread is joined.
ChatEnds == Mq!ChatEnds

\* Pipe copier: copies, exit status and FIFOs left behind agree.
CopiesTrue == program = "copier" => Pipe!CopiesTrue

\* Raw UDP echo: a numbering belongs to one run of a client.
Numbered == program = "echo" => Echo!Numbered

\* Pipe copier and raw UDP echo: both processes of the copier end, whoever failed, and a
\* client that waits for a lost reply can be interrupted.
NobodyWaits == (program = "copier" => Pipe!BothEnd) /\ Echo!StopsWaiting

\* Phone books and priority queue: after any sequence of operations links, tails, heights
\* and ids are right, and every node in memory is in the structure once.
StructuresSound ==
    /\ program = "singly" => Singly!IdsConserved
    /\ program = "doubly" => Doubly!LinksAgree /\ Doubly!IdsConserved
    /\ program = "avl" => Avl!Balanced /\ Avl!IdsConserved
    /\ program = "priorities" => Prio!ListsSound

\* Phone books and priority queue: the lists implement PhoneBook and PriorityOrder, and the
\* printed id is the new contact's.
ListsImplement ==
    Singly!IsPhoneBook /\ Singly!PrintsNewId /\ Doubly!IsPhoneBook /\ Prio!IsPriorityQueue

\* AVL phone book: the tree implements PhoneBook, and the predicted id is the new contact's.
TreeImplements == Avl!IsPhoneBook /\ Avl!PrintsNewId

\* Keyboard LEDs: work is queued while there is something to do, and not after kbleds_exit.
WorkSound == program = "leds" => Leds!WorkSound

\* Keyboard LEDs: a mask that stays is followed in the end.
FollowsMask == Leds!FollowsMask

=============================================================================
