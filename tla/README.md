# TLA+ specifications of the Eltex education repository

The repository is a collection of C programs written for a systems-programming
course: IPC and network programs (`src/03-ipc-and-network-programming`),
data-structure exercises (`src/02-c-programming`) and Linux kernel modules
(`src/05-linux-kernel-modules`).  The programs of the first group are small but
concurrent: processes meet in shared memory, message queues, sockets and
signals.  They are what this development is about.

## 1. Inventory

| component | state | operations | meets its peers through | hard behaviour |
|---|---|---|---|---|
| `04-system-v-shared-memory`, `05-posix-shared-memory` | a segment with a header and a linked list of blocks, a semaphore, the names of both | producer: create, publish, wait, remove; consumer: open, register, take, finish, leave | shared memory under one semaphore | interleaving of critical sections, killed processes, restarts, removal while others hold the objects |
| `02-system-v-message-broker` | the queue, the broker's lists of publishers and subscriptions, a stop flag per process | broker: receive, register, forward, notify, drain, remove; subscriber: subscribe, receive, unsubscribe; publisher: send, poll the queue | one bounded System V queue used in both directions, SIGINT, removal of the queue | a full queue, a signal between a check and a blocking call, order of subscription and publication, shutdown |
| `cross-02-taxi-process-manager` | the manager's tables of drivers and pending connections, a request counter; each driver's status and timer | create_driver, send_task, get_status, get_drivers; HELLO, task and status messages; reaping, shutdown | TCP on loopback, SIGCHLD / SIGTERM through a self-pipe | order of connection loss and SIGCHLD, blocking sends in both directions, timers, swap-removal while iterating |
| `07-tcp-chat-and-file-transfer` | server: slots with input and output buffers, names; client: outgoing queue, incoming files | join, text, leave, file begin / chunk / end / cancel | TCP, one epoll or poll loop per process | slow receivers, slots reused inside one round of events, a client that joins in the middle of a file |
| `03-posix-message-queue-chat` | two queues, their owner, the stop flag shared by two threads | open, attach, send, receive, close | POSIX queues with priorities, two threads | priority overtakes order, signal before a blocking read, unlinking by the owner |
| `cross-01-raw-udp-echo` | per-client counters on the server | echo, close | raw UDP | lost replies, restarts of either side |
| `06-udp-broadcast-chat` | participants' names | join, text, leave | UDP broadcast | loss, reordering |
| `01-pipe-file-copier` | reader, writer, ready handshake, framed chunks | copy | pipes between processes, signals | partial reads and writes, death of one side |
| `08-raw-socket-packet-capture` | filter, output file | capture | raw socket | mostly I/O |
| `02-c-programming` | phone books (singly linked, doubly linked, AVL tree), priority queue, calculators, bit masks | insert, delete, find, balance | sequential | structural invariants over long sequences of calls |
| `05-linux-kernel-modules` | keyboard LEDs work item, /proc and character device buffers, netlink socket | store, read, write, timer | kernel callbacks | work rescheduled after removal, content changed between two reads |
| `01-linux-administration`, `04-computer-networks` | none | none | none | no program |

The properties that make each modelled component correct are listed with its
module below; `PROJECT.json` lists the hazards with their lines and the
properties that cover them.

## 2. Modules and plan

| module | what it is | checked by |
|---|---|---|
| `SharedMemory`, `BlockPool`, `SharedMemory_proofs` | the exchange through shared memory, what it promises, its proofs | `ShmSysV`, `ShmSysVRestart`, `ShmPosix`, `ShmPosixRestart` |
| `Broker`, `Broker_proofs` | the System V message broker, its publishers and subscribers | `BrokerOrder`, `BrokerService`, `BrokerFull`, `BrokerLostSignal` |
| `TaxiManager`, `TaxiManager_proofs` | the manager and its drivers, its proofs | `TaxiService`, `TaxiStuck` |
| `TcpChat`, `TcpChat_proofs` | chat server and clients, file transfer, their proofs | `TcpChat` |
| `MqChat`, `MqChat_proofs` | the chat over POSIX message queues | `Programs` |
| `PipeCopier`, `PipeCopier_proofs` | parent and child of the file copier | `Programs` |
| `RawUdpEcho`, `RawUdpEcho_proofs` | echo clients and server over raw UDP | `Programs` |
| `SinglyLinkedPhoneBook`, `DoublyLinkedPhoneBook`, `AvlPhoneBook`, `PhoneBook` | three phone books and the ordered book they implement | `Programs` |
| `PriorityQueue`, `PriorityOrder` | a list per priority and the queue it implements | `Programs` |
| `KbLeds`, `KbLeds_proofs` | the keyboard LED module | `Programs` |

`MCSharedMemory`, `MCBroker`, `MCTaxiManager` and `MCTcpChat` extend their modules with
instances for TLC.  `MCPrograms` instantiates the modules of the last six rows side by
side; see section 7.

A run checks few properties.  Some of them are conjunctions of claims that belong
together, each of which is defined, commented and named on its own in its module
(`Consistent == ChecksNeverFail /\ CountersExact`): when TLC reports the conjunction
violated, evaluating the conjuncts in the last state tells which.

Proofs are in the `_proofs` modules, each of which extends the module it is about.
Section 8 says which invariants are proved and which are checked on instances only.

Left of the plan: proofs about the links of the two list phone books and of the priority
queue, whose modules are free of RECURSIVE operators for that reason; only `AvlPhoneBook`
has them and stays with TLC.

## 3. Shared memory (`SharedMemory`, `BlockPool`, `MCSharedMemory`)

### Correspondence

One module stands for both programs; the constant `SystemV` tells them apart.
A process is a position `pc[p]` in `producer_run` or `consumer_run`: `lock_x` is
a call of `ipc_semaphore_lock`, `x` the critical section after it, and every
other position one system call on the objects.  A critical section is one
action, because the semaphore makes it atomic for all who respect it, and
`MutualExclusion` checks that they do; only `Crash` cuts it in the middle and
leaves the stores done so far.

| TLA+ | code |
|---|---|
| `header`, `block` | `shared_header_t`, `shared_block_t` in each segment ever created |
| `semName`, `shmName` | the object found under the key or name |
| `semOf`, `shmOf` | `sem_id`/`semaphore` and `base` of each process |
| `sem` | value of each semaphore |
| `fitting`, `taken`, `result` | locals of the two `run` functions |
| `CreateSemaphore` ... `RemoveSemaphore` | `producer_run` |
| `OpenSemaphore` ... `FinishBlock` | `consumer_run` |
| `Lock`, `LockFails`, `Unlock` | `ipc_semaphore_lock`, `ipc_semaphore_unlock` |
| `HeaderValid`, `BlockValid`, `Walk` | `shared_header_is_valid`, `shared_block_is_valid`, the loops over `next_offset` |

Offsets and sizes are in 4-byte words, so that the alignment and the padding of
`shared_block_size` are what they are in the code.  An array's values are
abstracted to their number.  Every producer process runs once; a restart is the
second element of `Producers`.

`BlockPool` is what the exchange promises: a block goes from absent to ready to
taken (by one worker) to complete, nothing is added to a closed pool, and
success is reported on a closed pool whose blocks are complete.

### Runs

| run | instance | shows |
|---|---|---|
| `ShmSysV` | 1 producer, 2 consumers, 27 words (two blocks), 2 crashes, fairness | with processes killed anywhere: types, mutual exclusion, one taker per block, success only after everything is processed, the exchange implements `BlockPool`, nobody stuck on the lock.  While nobody is killed: the "cannot happen" error paths never run, the counters are exact, every registered consumer leaves, the producer succeeds and removes its objects |
| `ShmSysVRestart` | 2 producers, 2 consumers, 22 words (one block), 1 crash | starting together or one after the other, producers never mix their objects, and old semaphores never guard new segments |
| `ShmPosix` | 2 producers, 2 consumers, 27 words, fairness | `O_EXCL` keeps a producer from unlinking the other's names; in an exchange that is not started again the counters are exact, the producer finishes, and a consumer that registered always succeeds |
| `ShmPosixRestart` | 2 producers, 22 words | a disagreement: see Findings |

`Undisturbed` is the condition of the properties that speak of exchanges in
which nobody was killed (and, in POSIX, the exchange was not started again, which
is the subject of the finding).  States in which it holds and the condition of
the property bites are most of those of `ShmSysV` and `ShmPosix`; the faulty
variants `PROJECT.json` lists under "mutants" violate each of them there.

Bounds.  Two consumers are enough for every conflict over a block, and one more
for a waiting third is not distinguished by the code.  A segment of 27 words
holds two blocks, so that a block has a predecessor to be linked to and a
successor to be passed to, and puts the second one against the end of the
segment; lengths 1 and 2 give blocks with and without padding.  `MaxCrashes`
bounds the killed processes.  The runs with 22 words have one block, because
their subject is the objects' names.

Fairness.  A process that was started is scheduled (weak fairness of its
calls), and gets the lock it keeps asking for (strong fairness of `Lock`): every
loop of both programs sleeps at least one second between two critical sections
(`*_config_is_valid` refuses a zero interval), so that the lock is free
infinitely often and its queue is served.  Starting a process is not fair: a
consumer may never come, and `ProducerFinishes` therefore says "once one
consumer has registered".  Being killed is never fair.

### Findings

`ShmPosixRestart`: a POSIX consumer opens the semaphore and the segment by two
separate names.  When the producer finishes between the two calls and is started
again, the consumer maps the new segment and locks the old semaphore, and is
inside the critical section together with the new producer, although the README
calls the semaphore the one that protects the shared structure.  In System V the
old semaphore is dead by then, and the consumer's first lock fails:
`ShmSysVRestart` checks it and `SemaphoreProtectsSegment` proves it.

### Proofs (`SharedMemory_proofs`)

For all sets of producers and consumers, all segment sizes and lengths, and any
bound on crashes:

- `TypeCorrect`: `Spec => []TypeOK`.  The content is `MemoryOK`: every offset a
  process ever stores lies inside the segment.  It needs `Handles` (a process
  between its first lock and its last unlock holds objects, and a producer
  holds its own), and the lemmas on `BlockWords` and `AppendStores`.
- `SemaphoreProtectsSegment`: `Spec => []MutualExclusion`, in System V with any
  number of producers, and in POSIX with one.  `SemInv` says that a semaphore's
  value and its holders add up; `NameInv` that whoever got through to the lock
  of a segment holds the semaphore created with it.  `NameInv` is inductive
  because the producer removes the segment's name before the semaphore
  (`producer.c:234-235`) and a removed semaphore cannot be locked.
- `TakenOnce`: `Spec => []TakenByOne`.  The strengthening `TakenInv` says that
  blocks which are not READY lie below `free_offset` of an initialised segment,
  so that appending and initialising never touch them.  Steps are classified as
  `Quiet`, as taking, or as `Ending`.

- `OwnersKeepApart`: `Spec => []OwnersApart`.  Whoever runs the exchange or is about
  to remove a name is the creator of the object behind it, and creation is refused as
  long as there is one.
- `Drained`: `Spec => []DrainedBeforeRemoval`.  The code compares `processed_blocks`
  with `published_blocks`; that this means "all blocks are PROCESSED" is a counting
  argument over a linked list.  `ChainInv` says what the walk over `next_offset` visits
  (an ascending chain from the header to the terminator, also between the stores of an
  append), `CountInv` that the first counter is the number of blocks on it and the
  second at most the number of PROCESSED ones: a killed consumer leaves it too small,
  which delays the success and never forges it.  `HoldInv` gives every taken block to
  one consumer, `PhaseInv` orders the producer's calls.
- `Implements`: `Spec => ImplementsPool`, the refinement of `BlockPool`: each action
  maps to publishing, taking, completing, closing, succeeding, or to nothing.
- `StaysConsistent`: `Spec => []Consistent`.  While nobody was killed the second
  counter is exact and so is the number of active consumers (`UncrashedInv`), hence no
  check of the code fails and none of its "cannot happen" branches is taken.

`Walk` is a recursive function; what it returns is proved by induction over the natural
numbers, stated for one set at a time (`LeastNatural`, from the well-foundedness of `<`),
because the library's induction rule takes an operator.

Assumptions: `ProcessesAssumption` and `ConfigAssumption` of `SharedMemory`, the
checks of `producer_config_is_valid`.  TLC evaluates both in every run.

Model-checked only: the liveness properties, which are beyond the prover.

### Not modelled

Failures of `malloc`, `ftok`, attaching and mapping (each ends the process at a
place where it holds nothing); the two steps inside the creating calls (`semget`
and `SETVAL`, `shm_open` and `ftruncate`), during which a consumer waits or
fails as if it had come earlier; `sizeof` overflow checks; `UINT32_MAX`
consumers and `UINT64_MAX` blocks.

## 4. Message broker (`Broker`, `MCBroker`)

### Correspondence

One System V queue carries everything: commands to the broker have type 1,
publications the pid of their subscriber.  Every process is at a position `pc`
in its `run_*` function; `call` is the state of the blocking system call it is
at: `entering`, `asleep` because it had to wait, or `interrupted` by a signal
that came while it slept.  A signal that comes before the call only sets the
flag; this is the window of the second finding.

| TLA+ | code |
|---|---|
| `queue`, `exists`, `QueueLimit` | the messages, the life of the queue, `msg_qbytes` counted in messages |
| `publishers`, `subscriptions` | `registered_publishers`, `subscriptions`, newest first |
| `outgoing` | what the loop of `forward_publication` still has to send |
| `stop` | `broker_should_stop`, `subscriber_should_stop` |
| `BrokerReceive`, `Forward`, `NotifyPublishers`, `NotifySubscribers`, `Drain`, `RemoveQueue` | `run_broker` and the functions it calls |
| `Subscribe`, `SubscriberReceive`, `Unsubscribe` | `run_subscriber` |
| `ReadInput`, `NoticeRemoval`, `Send` | `run_publisher` |
| `Put`, `Take`, `FirstFor`, `Sleep`, `MustWait` | `msgsnd`, `msgrcv` |

`received` and `since` record, for the properties, what a subscriber printed and
how much its publishers had sent when its command was queued.

### Runs

| run | instance | shows |
|---|---|---|
| `BrokerOrder` | 1 publisher, 2 subscribers of one topic (one names it twice), 2 publications, SIGINTs, one killed client, queue of 2 messages | every publication once, in order, without a gap, only what was asked for; a subscriber that left is forgotten or its command is still in the queue |
| `BrokerService` | 2 publishers on two topics, 1 subscriber of both, queue of 3, anybody may remove the queue, fairness | topics are kept apart; every publisher heard of is told; after the broker's loop everybody ends; publications arrive while the broker serves |
| `BrokerFull` | 1 publisher, 1 subscriber, queue of 2 messages, 3 publications | a disagreement: see Findings |
| `BrokerLostSignal` | one SIGINT to the only subscriber | a disagreement: see Findings |

Bounds.  A queue of two messages is the smallest in which the order of two
messages and a full queue both occur; `BrokerService` has three so that the
queue does not fill and arrival can be promised at all.  Two publications give an order and a
gap; `ShutdownTimeout` of one second gives both a round of draining and its end.
One topic per publisher is the interface of the program (`-p topic`).

Fairness.  The processes are scheduled: weak fairness of the broker's and the
subscribers' steps, of a publisher's check whether the queue is still there
(`poll` with a timeout, `publisher.c:50-59`) and of its `msgsnd`.  Typing,
signals, kills, and the removal of the queue by others are not fair.  Deadlock
is not checked, because the system really may stop: with nothing typed, with a
full queue, with a lost signal.

### Findings

`BrokerFull`: the broker forwards with a blocking `msgsnd` into the queue that
only the broker empties of commands.  Publishers that fill it in the meantime
leave the broker and themselves asleep, and the publication does not arrive.

`BrokerLostSignal`: a SIGINT between the subscriber's test of its flag and
`msgrcv` has no effect until a message or another signal comes, although the
README says that subscribers end when a signal was received.

### Proofs (`Broker_proofs`)

For any publishers, subscribers, topics, capacity of the queue, publications, signals and
kills:

- `TypeCorrect`: `Spec => []TypeOK`, with `StepInv`, which bounds the loops over a
  subscriber's topics.
- `Delivery`: `Spec => []DeliveredInOrder`.  A publication is on one of four stations:
  in the queue for the broker, in the rest of `forward_publication`'s loop, in the queue
  for a subscriber, printed.  `OrderInv` says that the publications of one publisher are
  in order on each station and that later stations hold earlier ones; `SinceInv` that
  nothing on the last three was sent before its subscriber asked; `ServedInv` that, while
  the broker serves, everything due to a subscriber is on one of the stations.  Once the
  broker has left its loop it drops publications: `NotifiedInv` and `GaplessInv` say that
  it drops them from the end, so that what is printed still has no gap.
- `Service`: `Spec => []ClientsServed`, which adds that a publisher heard of is told
  (`KnownInv`, `ToldInv`).
- `Forgotten`: `Spec => []NoStaleSubscription`.  `MadeInv` and `StopInv` tie a
  subscription to a process that still has to take it back, and count the SIGINTs it
  takes to prevent that; commands of one subscriber stay in order in the queue.

To whom a publication goes is a recursive function over the list of subscriptions
(`Interested`); the proofs need that it returns those subscribers, once each.
`NoStaleSubscription` speaks of the time in which the queue exists: when somebody else
removes it, the broker ends and its lists are gone.

Assumptions: `ProcessesAssumption` and `BoundsAssumption`, which TLC evaluates in every run.  Model-checked only:
that publications arrive and that everybody ends, which are liveness properties.

### Not modelled

Malformed messages, sizes in bytes, failing `malloc`, a second broker, a killed
broker, reuse of pids.  The kernel hands a message to a process asleep in
`msgrcv`; in the model the message stays in the queue until that process takes it.

## 5. Taxi manager (`TaxiManager`, `MCTaxiManager`)

### Correspondence

`apc` is the manager's position in `run_event_loop`, `shutdown_app` and the
functions they call, `dpc[d]` the position of driver process `d`, from `fork`
(`forked`) over the restoring of the default signal actions, `connect` and HELLO
to its request loop and its end (`dying`: sockets closed, no SIGCHLD yet;
`zombie`; `reaped`).

| TLA+ | code |
|---|---|
| `drivers`, `pending` | `app->drivers`, `app->pending`, with their removal by moving the last entry |
| `ready`, `idx` | the result of `select` and the index of the running loop |
| `stopRequested`, `childChanged`, `notified` | the flags of `signal_handler.c`, a byte in the self-pipe |
| `Drain` ... `Select` | one round of `run_event_loop` before the descriptors |
| `Line`, `EndOfInput`, `Fork`, `Request`, `SendRequest` | `receive_cli_input` to `send_message` |
| `Accept`, `ReceivePending`, `ReceiveDriver` | `handle_ready_descriptors` |
| `ShutDriver` ... `WaitForDriver` | `shutdown_app` |
| `Receive`, `Handle`, `Reply` | `receive_input`, `handle_message`, `send_message` of `driver.c` |
| `appEnd`, `driverEnd`, `toApp`, `toDriver` | both ends of a connection and the frames buffered in it |

A driver is named by its pid, and pids are given in ascending order.  Frames are
whole.  A connection that is closed with unread input is reset, and the other
side may lose what it had not read.  Steps of the manager that touch only its own variables (passing over a
descriptor that is not ready) are part of the next step.  `asked` and `told`
record, for the properties, the requests without a response so far and the end
of the last task that was printed as accepted.

### Runs

| run | instance | shows |
|---|---|---|
| `TaxiService` | two drivers, or one with up to two requests before the end of the input, one killed from outside, SIGINT (to the group) or SIGTERM, fairness | the tables own every descriptor once; a running driver is listed; no request is lost, doubled or overtaken; responses agree with the timer; nobody is left behind; dead drivers are forgotten; requests are answered; the manager ends when told |
| `TaxiStuck` | one driver, a connection that holds one frame in each direction | a disagreement: see Findings |

Bounds.  `ForkWeight` lets `MaxCommands` = 4 stand for two `create_driver`, or
one and two requests, or four requests without drivers; the line without its end
before the end of the input is one more command.  `InputFrames` = 1 makes a
second frame wait for the next `recv`; `SocketRoom` = 5 never fills in
`TaxiService` (filling is the subject of `TaxiStuck`).  A second has two ticks
and a task takes one second, so that requests come in the middle, at the end and
after a task; the clock stops at `MaxTime` = 2 and only moves while a driver has
a task, which nobody else can tell.

Fairness.  Manager and drivers are scheduled (weak fairness of `AppStep` and of
each `DriverStep`).  Typing, signals, kills and the clock are not fair.
`TaxiService` checks deadlock; `TaxiStuck` does not, because a deadlock is what
it shows.

### What is proved

`TaxiManager_proofs`, for any number of drivers, any timers and length of a second, any
sizes of tables and buffers, and any number of commands and kills, under
`TaxiAssumption`: `TypeCorrect`, `TablesCorrect` (`TablesTrue`), `TrueAnswers`
(`AnswersTrue`) and `NobodyLeft` (`NobodyLeftBehind`).  All four follow from one
inductive invariant, `IInv`:

- `LifeInv`: where a driver's process is fixes which ends of its connection exist;
- `TableInv`: no entry of `drivers` or `pending` is doubled, a connection is open at the
  manager's end exactly when one of the tables has it, and never both have it.  The
  induction also needs that a listed driver was started and that a connected one is past
  its HELLO, which `TablesTrue` does not say;
- `IndexInv`, `PlaceInv`, `EndInv`: how far the loops of `shutdown_app` have got, that
  requests are only sent to connected drivers, and that the final `waitpid`s collect the
  listed drivers one after the other;
- `AnswerInv`: on the connection of a driver that is not registered there is nothing but
  its HELLO; on any other, the responses under way, the request being answered and those
  still in a buffer are, in this order, the requests without an answer;
- `TaskInv`: every response under way is right after those before it, and the driver's
  deadline is the end of the last task that they tell of, or that task is over.

The steps are not taken one by one for each of these parts.  `Effect(d)` lists the fifteen
things that may happen to one driver in a step (its process ends, its connection is
accepted, closed, registered, a request is sent to it, its responses are printed, ...);
`Effects` shows that every step of the manager and of the drivers is one of them or leaves
the driver alone, and the parts of the invariant are carried over these effects.
The addressees of a command are a recursive function over the table; `FilterExists` and
`AddresseesConnected` show by the least counterexample that it is defined and what it
returns.

### Findings

`TaxiStuck`: `wait_until_writable` waits without a limit on both sides.  With a
request and a response too many in the connection, manager and driver each wait
for the other to read, and neither SIGINT, SIGTERM nor the end of the input ends
the manager.  One frame per direction stands for the sockets' buffers: one read
from stdin holds up to 42 commands while four frames are read from a driver in
the same round, so piped input can fill them.

### Not modelled

Partial frames and the checks of the header (`protocol.c`), splitting of lines
(`cli.c`), the 32-bit wrap of request ids, reuse of pids, the backlog of 16,
failures of `fork`, `accept`, `select` and of the clock, input of the user that
breaks the grammar, and the copies of the manager's descriptors that a new driver
holds between `fork` and `close_inherited_descriptors`.

## 6. TCP chat (`TcpChat`, `MCTcpChat`)

### Correspondence

The server is an epoll loop over slots: `Wait` is `epoll_wait`, which copies the
events of that moment, `NextEvent` the handling of one of them, whatever has become
of its slot since.  A client is a `poll` loop: `Round` is one turn of it, with
everything the code does in that turn (pumping the file, flushing the queue,
reading).  A client is named by its sender id.

| TLA+ | code |
|---|---|
| `slot` | `server->clients`: the connection, whether it joined, its transfer, its output queue |
| `events`, `current` | the rest of the array filled by `epoll_wait`, the entry being handled |
| `Accept`, `ReceiveFrame`, `Write`, `GiveUp`, `Skip` | the branches of the event loop |
| `Broadcast`, `Slow`, `Disconnect` | queueing a frame for every other joined client, closing those whose queue is full |
| `Acceptable`, `Noted` | the checks of a frame against the sender's transfer |
| `Refuses`, `FilesAfter` | the client's table of incoming files |
| `Type`, `CanPump`, `Pumped` | a line of the user; the file that is sent while there is room |
| `Drain`, `DrainTimeout`, `Close` | leaving: the queue is flushed for a limited time |

`first` and `heard` record which frames of each other client one has handled,
`dropped` whom the server closed for being slow.

### Run

`TcpChat`: four clients for three slots, in seven scripts (`MCScripts`); each script
is a set of users who act independently of each other.  They cover a sender, a
receiver and somebody who leaves; more clients than slots; somebody who comes while
somebody is dropped; two senders at once; a text during a transfer; two files one
after the other; a file that becomes shorter while it is sent; SIGINT at the server.
It shows that a reused slot carries nothing over (`SlotsOwned`), that streams arrive in
order (`InOrderOnce`), that the accounts of a transfer agree (`FramesAccepted`), that
half-received files are not forgotten (`NoOrphans`), and that nobody waits for ever on
a full queue (`SettlesDown`).  Deadlock is checked: `Done` is a step of its own.

Bounds.  Every queue and every connection holds one frame, so that a second frame
always meets a full one: blocking and dropping of slow receivers happen in all
scripts.  A file has one chunk, so that a transfer has a beginning, a middle and an
end.  The limit of 16 incoming files is not reached by well-behaved senders in these
scripts; `IncomingMax` = 1 stands for it.  Frames are of one size and whole; a wait
returns all ready slots, which is what the code does up to 32 events.

Fairness.  Some process runs while one can: weak fairness of the union of the steps
of server and clients.  Nothing more is needed, since no loop spins while others wait.

### What is proved

`TcpChat_proofs`, for any clients, any number of slots, any capacities and any scripts of
the users, under `TcpChatAssumption`: `TypeCorrect`, `SlotsCorrect` (`SlotsOwned`),
`ServerAccepts` (`NeverRefused`), `SentInOrderOnce` (`InOrderOnce`), `ClientsAccept`,
`AllAccepted` (`FramesAccepted`) and `FilesEnd` (`NoOrphans`), from one inductive
invariant, `Inv`:

- `TypeInv`: types and capacities, and that the server reads from a slot in use;
- `SlotInv`: a slot in use belongs to an open connection and no connection has two
  (`OwnInv`), the backlog holds the connections not yet accepted, once each
  (`BacklogInv`), where a client is fixes which ends of its connection exist (`LifeInv`),
  and a client that has not joined has not been told anything (`QuietInv`), which is what
  makes it safe to reuse a slot in the middle of a round of events;
- `FlowInv`: what one client says is one sequence of frames, of which its own queue, its
  connection, the queues of its hearers and the tables of files they receive are
  consecutive pieces.  A small machine with a position (`View`, `Expected`, `After`) says
  which frame may come next: outside a file, or at chunk `done` of file `id`.  For every
  client there is a position where the server is with it (`Stands`), from which the frames
  the server has not read lead to where the client itself is (`Says`), and to which the
  frames queued for any hearer lead from where that hearer's table of files is (`Hears`);
  once the hearer's connection is closed, it need not get that far any more.  `SelfInv`
  says that nobody hears of itself.

Every step either moves a border between two of the pieces, appends a frame to the last
one, passes one on from the second to all the hearers, or closes a connection.  The proof
is arranged by these, and not by the parts of the invariant.

`FramesAccepted` says that a client fails over a late file only.  The code has one more
reason: `begin_incoming_file` fails when `CLIENT_INCOMING_FILES_MAX` (16) files are being
received, and the server, which has 64 slots, does not prevent that.  `AllAccepted`
therefore asks for at most `IncomingMax + 1` clients; `ClientsAccept`
(`OnlyLateOrFullOnesRefuse`) is the statement for any number of them, with that
exception.  The scripts of the run never reach the limit.

Model-checked only: `SettlesDown`, a liveness property.

### What the code does that a reader may not expect

- A client that joins in the middle of a transfer is sent the remaining chunks,
  refuses the first of them and ends with an error.  `FramesAccepted` says that
  this is the only case as long as its table of incoming files has room.
- A slow receiver is closed without a LEAVE to the others, who keep its
  half-received file: the exception in `NoOrphans` and `SettlesDown`.
- An event of a slot that was freed and given to a newcomer in the same round is
  applied to the newcomer, who may be closed by the hang-up of its predecessor.
- A text typed while a transfer fills the output queue ends the client.
- A SIGINT between the test of the flag and `epoll_wait` is noticed at the next event.

Not modelled: partial frames, failures of system calls other than sending and
receiving, failing writes of a received file, SIGINT at a client (it acts as `/exit`).

## 7. The small programs (`MCPrograms`)

The remaining programs share nothing.  `MCPrograms` instantiates their modules side by
side, each with variables of its own, and the variable `program`, chosen in the
beginning, says whose steps a behaviour takes.  The states are the disjoint union of
those of the eight programs, and each property says which program it is about: the run
`Programs` checks exactly what eight separate runs would.  Deadlock is not checked
because all of these programs end.  The assumptions on the constants are evaluated by
`MCProgramsAssumption`.

### Message queue chat (`MqChat`)

Whoever creates the first of two named queues owns both and removes them; the next
process attaches the other way round.  Main and receiving thread of a process step
separately: `pc` is the main thread's position, `rpc` the other one's, and `Signalled`
the `pthread_kill` that gets the main thread out of a blocking read or send.  A name
refers to a queue by the number of its creation, so that a queue removed while others
have it open lives on.

Instance: three processes that come and go in any order without their users typing, or
two whose users do three things (a line or Ctrl+C); queues of two messages.  Three
processes are what it takes for an owner's removal to overlap with the next creation
and with an attachment.

`PeersAgree`: an owner never unlinks somebody else's queue, two processes that found
each other use the same pair both ways, and a process parts in one way whichever of its
threads decides first.  The second claim excepts processes during
whose opening names were removed: attaching opens the two names one after the other,
and then they may belong to two pairs.  `ChatEnds`: an exit overtakes the texts, and the
main thread that joins the receiving one ends.  Fairness: weak, for each process, which is scheduled; its
receiving thread wakes up every 100 ms.

Proved (`MqChat_proofs`), for any number of processes: `TypeCorrect`, `PeersDoAgree`
(`PeersAgree`) and the action property `ExitsAreFirst` (`ExitFirst`).  The invariant is
about who can be behind a name.  An owner holds a name from its creation until it removes
it, and of all owners one at a time holds each name (`NameInv`).  `MeetInv` is what an
attachment needs: as long as the owner of the first queue has not created the second one,
a process that attached found the second queue of an earlier owner, and then that owner
still has to remove it, so that the creation fails and the two never count as peers.
`PartInv` relates `stop`, which either thread sets, to the way a process parts.

Not modelled: failures of `mq_receive`, `sigaction` and the `pthread` calls (after a
failing `pthread_sigmask` the program joins a thread it never started), too long lines.

### Pipe file copier (`PipeCopier`)

Parent, child, two pipes, unnamed or FIFOs.  A header, a name and a byte of a file are
one unit each; reads and writes are partial wherever the pipe is, so chunks and pipe
cut the messages at every place.  Faults: any read, write, open or fork fails, either
process is killed, a file shrinks after its size was sent.

Instance: two files of up to three bytes (or missing), chunks and pipes of two, two
faults, FIFOs left by another run.

`CopiesTrue`: copies are beginnings of their files, success means complete copies, and a
parent that was not killed leaves no FIFO of its own.  `NobodyWaits` (with the echo client): neither process
waits for ever, except in the open of a FIFO whose partner was killed before.  Fairness:
weak, of the union of both processes' steps.

Proved (`PipeCopier_proofs`), for any files, chunks, capacities and faults:
`TypeCorrect` and `TrueCopies` (`CopiesTrue`).  The stream is what is in the data pipe
followed by what the parent is about to write.  Each of its units is the one due after
its predecessor (`Chain`), the first is what the child waits for (`HeadInv`), and the
parent produces what is due after the last (`TailInv`): partial reads and writes move the
borders inside the stream and change nothing else.  `CopyInv` and `DoneInv` say that an
announced file is copied, being copied, or in the stream.  `PipeCopierAssumption` demands
that the files are named once: a file named twice is copied over its own copy, and the
claim would have to speak of the last of them.

The parent keeps the default action for SIGPIPE: a child that dies early kills it
and the FIFOs stay, so that the next run under that name fails.  In the model this is
`Kill`.  Arguments of which one names the copy of another one are not in the instance.

### Raw UDP echo (`RawUdpEcho`)

The server numbers the messages of each endpoint until it says ECHO_CLOSE; raw sockets
see every datagram of the address.  Datagrams are delivered in any order (`Handle(i)`,
`Deliver(i)`), and lost; clients are killed, the server is restarted.

Instance: two clients on one port, two texts, numbers up to two, five user actions, one
fault.  Two clients of one port are the hard case for a server that knows its clients
by their endpoint.

`Numbered`: a run of a client sees 1, 2, 3, ..., and the server forgets an endpoint whose
clients have left.  `NobodyWaits`: a client that waits for a lost reply ends when it is
interrupted.
Proved (`RawUdpEcho_proofs`), for any clients, shared endpoints, texts, limits and
faults: `TypeCorrect` and `NumbersAreRight` (`Numbered`).  A client waits for the answer
before it sends again; of a run that owns its endpoint there is therefore one request
under way, one reply under way, one reply in the inbox, or nothing, and the counter is
ahead of what the client printed exactly while there is a reply (`OwnerInv`).  A CLOSE of
an earlier run may still be under way when the run begins: then it is in front of the
request, or the endpoint counts as disturbed.  That a CLOSE is behind everything else its
run has sent (`ForgetInv`) is what lets the server forget.

The exceptions are in the text of `NumberedFromOne`: a late reply to the same text is
taken for the answer, a CLOSE that is lost or overtaken leaves the numbering behind,
and two clients of one port share a counter.  At `UINT32_MAX` the server stops answering.
Fairness: clients are scheduled; the network and the server promise nothing.

### Phone books (`SinglyLinkedPhoneBook`, `DoublyLinkedPhoneBook`, `AvlPhoneBook`)

Each models its nodes and pointers, the ids that are given out again, every command of
the menu, and the failures of `malloc`, which leave everything as it was.  `PhoneBook` is
what all of them promise: an ordered book in which an operation changes one contact.
It is instantiated by each of them with the sequence of contacts read off its links
(`IsPhoneBook`).  `StructuresSound` holds the structural invariants: links agree in both
directions, the tree is ordered and its heights and balances are right, ids in use and
free ids are disjoint and lose none.  `PrintsNewId`: the id that the menu predicts before
it adds a contact is the one it gets.

Instances: up to three contacts in the lists and four in the tree, which is the
smallest tree whose removals need each of the rotations; two last names (the order has
ties), one item each.

An end of the input inside the edit menu makes it ask for ever, while the main menu ends;
this ends no operation and changes nothing.  The two library variants of the doubly
linked book are byte for byte the same files.  Searching and printing change nothing
and appear only as the order of the contacts.

### Priority queue (`PriorityQueue`)

A list per priority, each with head and tail, and the commands of the menu;
`generate_messages` stops at the first failing `malloc`.  `ListsSound` relates heads,
tails and memory, and `IsPriorityQueue` says that all of them together behave as one
queue ordered by priority and by arrival (`PriorityOrder`).  Three levels stand for 256:
one above and one below the one asked for.  Three nodes give a list with a middle, and
fill the memory.

### Keyboard LED module (`KbLeds`)

Writers of the sysfs file, the work item, and the steps of loading and unloading
interleave; what happens under the mutex is one step, and queueing the work comes after
it, as in the code.  `cancel_delayed_work_sync` is two steps: taking the item out of the
queue (nothing is queued from then on) and waiting for the running handler.

`WorkSound`: after `kbleds_exit` nothing of the module is queued or runs and the
keyboard has its LEDs back, and until then no write is lost.  `FollowsMask`: a mask that
stays is followed: LEDs blink, or stay dark.  It speaks of masks that nobody is writing: writing
the same mask again and again resets `leds_are_on` and may keep the LEDs from going
dark.  One call of the console may fail; a failed call at mask 0 leaves the LEDs lit,
which is why `Dark` excepts it.  Fairness: the kernel's worker takes what is queued.

Proved (`KbLeds_proofs`), for any number of writers, any largest mask and any number of
failing calls: `TypeCorrect` and `WorkIsSound` (`WorkSound`).  The invariant says in which
stages of loading and unloading a write may be under way, the work be queued, and the
handler take the work for the last of its kind.

## 8. Not modelled

`PROJECT.json`, "components", has a reason for each:

- command lines, menus' wording, printing: input and output without kept state;
- `06-udp-broadcast-chat`: a datagram is sent once and shown on arrival, and nothing is
  kept that a lost one could spoil;
- `08-raw-socket-packet-capture`: a sequential filter and output;
- calculators, permission bits, subnets: stateless functions;
- `02-procfs-userspace-exchange`, `04-character-device-exchange`: each handler uses the
  one buffer as a whole under one mutex, and copies from user space before it locks; who
  reads a message in several pieces may get pieces of two, and nothing promises otherwise;
- netlink exchange and hello module: one reply without state, two log lines;
- `01-linux-administration` and `04-computer-networks` hold logs and laboratory files.

Limits on the whole: no component is composed with another one's program, because none
of them talk to each other.

Proved for every value of the constants: all invariants and action properties of
`SharedMemory` with its refinement of `BlockPool`, all invariants of `Broker`, of `TaxiManager`
and of `TcpChat` (`FramesAccepted` for as many clients as a table of incoming files can
hold files of), and of the programs in `MCPrograms` the invariants of `MqChat`, `PipeCopier`, `RawUdpEcho` and
`KbLeds` (theorems about them state the properties of their own modules; those of
`MCPrograms` are these under "this program runs").  Each theorem about one of these four
takes the assumption of its module as a hypothesis; `MCProgramsAssumption` is their
conjunction, and TLC evaluates it.

Shown by TLC on the instances above only: all liveness properties, because neither
fairness nor ENABLED is within the prover's reach; the phone books and the priority queue with their refinements.
