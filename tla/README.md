# Verification of the chat system and its libraries

TLA+ modules, TLC instances and TLAPS proofs for
`assignment_16/chat_project`, for the containers it is built on and for the
network programs of assignment 15. Paths in this file are relative to
`src/assignment_16/chat_project/` unless they say otherwise.

## 1. The system

The repository is a course: sixteen assignments in C, from one-function
exercises to the chat system, and four STM32 programs on vendor code. The
chat system is a TCP server that keeps accounts and chat groups, and clients
that ask it for a group's multicast address and then talk to each other over
UDP multicast, in a receiver and a sender process of their own.

| component | state | operations | talks to |
|---|---|---|---|
| user manager `managers/src/user_manager.c` | a map of accounts by name, a map of logged-in users by socket; both point at the same `User` records | register, login, logout, name by socket | called by the server's handlers |
| group manager `managers/src/group_manager.c` | a map of groups by name (address, port, member list, member count), a queue of free multicast addresses, the next port | create, find, add member, remove member, remove member from all groups | called by the server's handlers |
| chat server `server/src/*.c` | the listener, `masterSet`, `tempSet`, `maxFd`, the client connections | accept; receive, handle and answer one packet; close | both managers; the clients over TCP |
| protocol `common/src/protocol.c` | none | build and parse fourteen kinds of packet | server and client |
| chat client `client/src/*.c` | the connection, the menu's state, the table of running chat sessions, the name of the group it asked about | one request and one answer at a time; start and stop chat processes | the server over TCP; its chat processes over a message queue and signals |
| chat processes `common/src/multicast.c`, `common/src/chat_ipc.c` | a UDP socket | report the PID, receive for ever, send lines | the client; each other over multicast |
| shared library `src/assignment_14/sharedLib` | list, vector, queue, stack, heap, hash map | their operations | the managers use the hash map, the list and the queue |
| binary search tree `src/assignment_11` | nodes with a father pointer | insert, remove through an iterator, iterate, three traversals | - |
| single linked list `src/assignment_09` | persons linked through themselves | insert and remove at the head and by key | - |
| poll server `src/assignment_15/TcpClientNonBlockingServerUsePoll/server.c` | the array `fds`, its length `nfds` | accept, answer, remove, one `poll` per round | its clients over TCP |
| producer/consumer client `.../TcpProducerConsumerClientNonBlockingServerUsePoll/client.c` | a queue of sockets, two semaphores, a mutex | a thread that connects, a thread that talks and closes | each other; the poll server |
| other exercises, STM32 programs | local | single functions, demonstration programs, LED loops | nothing |

What is hard about it:

* **Orders nobody tests.** The server has one thread, but its clients
  interleave arbitrarily; descriptors are closed inside a round of `select`
  and their numbers given out again in a later one; an answer is true when it
  is sent and is read later, after other clients have left groups and deleted
  them.
* **State kept twice.** Two maps of users, the key of one inside the record
  that the other's owner modifies; a member count next to a member list;
  `masterSet` and `maxFd` next to the kernel's table; addresses that are in
  the pool or in a group.
* **Things that fail half-way.** An allocation fails after an address was
  taken; the group was created and its creator cannot be added; `recv` fails
  and only the descriptor is cleaned up.
* **Ends of connections.** A client exits, closes, or dies with an answer
  unread; the server sees 0, or an error, and does different things.
* **Limits.** A pool of 100 addresses, a port counter that never goes back,
  a port that must fit five digits and 16 bits, a full descriptor table; an
  array that shrinks, a ring that wraps, a buffer that is full or empty.
* **Pointers kept by others.** An iterator stands on a node while its
  neighbour is unlinked, or while a tree moves another node's item into it; a
  removed node keeps a link; an array entry is overwritten by the last one
  while a loop runs over the array.
* **Bytes, not packets.** A packet arrives in pieces on a socket that does
  not block.

What makes each component correct:

* user manager: the two maps agree at every moment; a session never moves to
  another user or socket;
* group manager: no address is lost or shared, the member count is exact,
  ports are never reused, a live group never changes its address or port;
* server: the descriptor sets describe the open connections, a report of
  `select` is never stale, every request has exactly one answer and gets it, a
  granted join is true when it is read, logging out leaves all groups, a group
  nobody is in has an explanation and an end, dead peers are noticed;
* client and chat processes: every process is in the table or about to be, a
  group has one session, the menu and the server agree on who is logged in, a
  chat is a membership, and no two groups hear each other until the ports
  repeat on the wire;
* containers: each does what an abstract container does, call by call, with
  failing allocations among the calls;
* poll server: the array is the connections, each report is served once;
* producer and consumer: no call on the queue fails, a socket has one owner
  and is closed in the end.

## 2. Plan

In order; all but the last are done.

1. `UserManager`, `GroupManager`: each manager on its own, as operators on a
   record (so the server's handlers can call several in one step) and as a
   specification under arbitrary calls. *Done, checked and proved.*
2. `ChatServer`: the server with both managers and its clients as the
   environment. *Done, checked; the safety and action properties proved.*
3. `GroupManager_proofs`, `UserManager_proofs`, `ChatServer_proofs`. *Done for
   the properties listed in section 5.*
4. `CircularQueue`: the ring buffer of the shared library, shown to implement
   `BoundedFifo`, which is what `GroupManager` uses. *Done, checked, proved.*
5. `ChatSessions`: the client's session table and its chat processes. *Done,
   checked; the safety properties proved.*
6. `ChatSystem`: the client's menus, composed with the server and the
   sessions. *Done, checked; the refinements of the server and of the
   sessions and the safety properties proved.*
7. `PacketFraming`: `RecvAll` on a blocking and on a non-blocking socket.
   *Done, checked; the safety property proved.*
8. `PollServer`, `ProducerConsumer` and their composition `EchoSystem`.
   *Done, checked; the safety properties and the composition proved.*
9. `DoubleLinkedList`, `DynamicVector`, `GenHeap`, `HashMap`, `BinTree`,
   `SingleList`, against `SequenceCursor`, `PriorityQueue`, `Dictionary` and
   `SortedSet`. *Done, checked; all but the tree
   proved.*
10. Proofs still to write: that the tree implements the sorted set, for any
    number of nodes.

## 3. The modules

`ChatCommon` holds what the managers share: the form of a call's result
(`Outcome`) and the allocation failures (`Faults`): one request may have one
failing allocation, of an object, of a map insertion or of a list member.

`UserManager` is `user_manager.c`. `accounts` is `m_username_to_user`,
`socketToUser` is `m_socket_to_user`. In C the key of an entry of the second
map is a pointer to the record's own `m_socket`; the model keeps the key the
entry was inserted under, and `SocketMapConsistent` says that `m_socket`
keeps that value as long as the entry lives. Login changes the record before
it inserts it and takes the change back if the insertion is refused; both are
one call, which nothing can observe half-way.

`GroupManager` is `group_manager.c`. Addresses are numbers, the free ones a
sequence (a bounded FIFO). `RemoveUserFromAllGroups` has the two passes of
the code: leave every group, then remove every group that is empty, in the
hash map's visiting order, which is arbitrary (`VisitOrders`) and decides the
order in which addresses come back.

`ChatServer` composes them. `conn[c]` is a client's connection as the kernel
sees it (phase, descriptor, the packets in both directions, whether and how
the peer went), `acceptQueue` is the listener's backlog, `masterSet`,
`tempSet` and `maxFd` are the variables of `main`.

| action | code |
|---|---|
| `Select` | `server/src/server.c:81-91` |
| `AcceptNewClient`, `AcceptFails` | `server/src/server.c:98-111`, `AcceptNewClient` |
| `PeerClosed`, `RecvFailed` | the first two branches of `ProcessClient` |
| `HandleRegisterRequest` ... `HandleLeaveGroupRequest` | the seven handlers, the answer and the rest of `ProcessClient` |
| `ConnectToServer`, `SendRequest`, `ReceiveResponse`, `ClientEnds` | the clients: `client/src/client_networking.c`, `ProcessClientRequest`, the process's end |

One iteration of the descriptor loop is one action: between `recv` and `send`
the server blocks nowhere and shares nothing. `tempSet` is kept without the
descriptors already passed, and iterations over descriptors outside `tempSet`
are no steps.

`ChatSessions` is `client/src/client_chat.c` with `common/src/chat_ipc.c` and
the two roles at the start of the client's `main`. `sessions[c]` has the table
`g_sessions`, the point `StartChatSession` has come to (it blocks in `msgrcv`,
so its launches and receptions are steps of their own), the unread reports and
the processes behind the PIDs. The processes report, end, and have their PIDs
used again at any moment. `queuesLeft` is the kernel's limit of message
queues, which nothing in the code removes. The module has a specification of
its own in which clients open and close sessions at will.

| action | code |
|---|---|
| `StartChatSession`, `Launch`, `ReceivePid` | `client_chat.c:37-67`, `69-87`, `89-99` |
| `StopChatSession`, `StopAllChatSessions`, `RemoveChatSession` | `client_chat.c:151-218` |
| `SendPid`, `ProcessEnds` | `client.c:211-229`; the process's end or the user's closing of its terminal |

`ChatSystem` composes both with the client's program: `client[c]` is its menu,
`g_loggedInUsername` and `g_pendingGroupName`. A `Choose...` action is one
choice of a menu with the request it sends, a `...Read` action is what
`ProcessClientRequest` and the menu loop make of the answer, up to the first
wait of `StartChatSession`. A client is one run of the program: after its end
only its processes may be left (`orphan`).

`PacketFraming` is one direction of a connection at the level of bytes:
`RecvTcpPacket` with its three `RecvAll` loops, of the server
(`server/src/server_networking.c`) and of the client
(`client/src/client_networking.c`), on a network that delivers in pieces of
any size. A packet is `<<tag, length>>` and its value.

| action | code |
|---|---|
| `RecvTcpPacket`, `RecvMore` | the call and its `recv`s, each for what is still wanted |
| `RecvWouldBlock` | EAGAIN: `RecvAll` fails, the bytes read are dropped, the server keeps the connection |
| `RecvClosed` | `recv` returns 0 |
| `SendTcpPacket`, `Deliver`, `HangUp` | the sender, which waits for each answer, and the network |

`PollServer` is the poll server of assignment 15, which three directories
have. `fds`, `nfds` and the loop's `i` are the variables of its `main`; `conn`
is the connections as the kernel sees them, and `unserved` records which
reports of this round's `poll` have not been acted on.

| action | code (`TcpClientNonBlockingServerUsePoll/server.c`) |
|---|---|
| `Poll` | the call of `poll` |
| `AcceptNewClient`, `AcceptDone` | one turn of the accept loop, its end; `AddClient` or the refusal |
| `ServeEntry` | one turn of the loop over the clients, with `HandleClientMessage` and `RemoveClient` |
| `RoundDone` | the end of that loop |
| `Connect`, `Send`, `Receive`, `Close` | a client |

`ProducerConsumer` has a step for every call of the two threads that may wait
or that the other thread can see: `sem_wait`, `pthread_mutex_lock`, the call
on the queue, the unlock, `sem_post`, and the calls on the socket. The queue is
the sequence that `CircularQueue` is shown to implement. `EchoSystem` puts
these threads and the server together: a socket is a connection, `connect`
waits for the backlog, the consumer's `send`, `recv` and `close` are the
client's side of `PollServer`.

What the model of the network assumes: TCP delivers in order; in `ChatServer`
packets arrive whole (`PacketFraming` says what happens otherwise); a client that ends with an answer unread resets the connection (the
server's `recv` fails), otherwise it closes it (`recv` returns 0); the
kernel hands out the least free descriptor. Clients are the shipped client:
it waits for each answer before the next request and sends well-formed
packets. In `ChatServer` it sends them in any order (also a "logout" without a
login); in `ChatSystem` the menus decide.

`BoundedFifo` and `CircularQueue` are the queue of the shared library as
`circularQueue.h` promises it and as `circularQueue.c` does it; `returned`
records what a call gave back, so that the refinement is about results.
`GroupManager` keeps its free addresses as the abstract sequence.

The other containers are modelled in the same way. Each has a variable with
the result of the last call, so that refining the abstract container means
giving the same answers.

| module | code | is shown to implement |
|---|---|---|
| `DoubleLinkedList` | `sharedLib/src/doubleLinkedList.c`: the two end nodes, pushes, pops, iterators | `SequenceCursor`: a sequence and an iterator that stays on its item |
| `DynamicVector` | `dynamicVector.c`, and `dynamicStack.c`, which renames its calls | its own two properties |
| `GenHeap` | `genHeap.c`, on `DynamicVector`'s record | `PriorityQueue`: counted items, the best comes first |
| `HashMap` | `HashMap.c`: prime number of buckets, a list made with the first pair and destroyed with the last | `Dictionary`: at most one value for a key |
| `BinTree` | `src/assignment_11/src/bin_tree.c`: both insertions, removal, iterators, traversals | `SortedSet`: a set walked in order, with an iterator that can lose its node |
| `SingleList` | `src/assignment_09/SingleLinkedList`: by key with loops and with recursion, at the head | `ListedInOrder` (by key) |

The list and the tree are modelled pointer by pointer, since which pointer a
removal forgets is the point. A node's address is a model value, and a freed
one may be allocated again. `FirstMatch`, `BestChild`, `FindLeftMost` and the
like are the loops of the code as what they find. `HeapifyUp` and `HeapifyDown`
are theirs turn by turn (`UpTurn`, `DownTurn`), with as many turns as a loop can
make; a turn after the `break` changes nothing. Where the code recurses,
`SingleList` and `HashMap` use recursive functions, which the provers take
too, and `BinTree` recursive operators.

## 4. The runs

The runs of the chat system bound the port counter (`PortBound`: creations
stop there), the backlog (1 or 2) and, by stop-and-wait, each channel to one
packet. A run over several independent components (`MCManagers`,
`MCContainers`, `MCNetwork`) chooses one of them, `subject`, at the start of a
behaviour.

| run | shows | instance |
|---|---|---|
| `managers` | both managers' types, `SocketMapConsistent`, `SessionNeverStolen`, `AddressPoolConserved`, `MemberCountExact`, `PortsUnique`, `AddressStable` | 3 users, 2 passwords, 2 sockets; 3 names for 2 addresses, 6 creations; all failures |
| `server_descriptors` | `DescriptorsTracked`, `ReportedStillReadable`, `DeadConnectionsReleased` | 3 clients for 2 descriptors, no user, no groups |
| `server_faults` | `AnsweredExactlyOnce`, `EveryRequestAnswered` | 2 clients for 1 descriptor, 1 user, 1 group, all failures, ports that stop fitting |
| `sessions` | `NoStrayProcess`, `OneSessionPerGroup`, `StartCompletes` | 1 client, 3 groups for a table of 2, 3 PIDs, 3 queues |
| `system` | `ServerTypeOK`, `GrantStillHolds`, `LogoutClearsMemberships`, `MenuAgreesWithServer`, `GrantsAreNew`, `ChatsAreMemberships` | 2 clients, 2 users, 1 group, 2 creations, 2 PIDs each, 2 sessions in all |
| `system_ports` | `NoCrosstalk`, `EmptyGroupsExplained` | 2 clients, 1 user, 2 groups, 2 creations on a wire with 2 ports, failing member lists |
| `containers` | `RingConsistent`, `ItemsInArray`, `ListedInOrder`, `ShrinkLeavesRoom` and the five refinements `Implements...` | ring of 3; list and tree of 4 nodes; arrays of up to 4; 3 keys; 4 persons, two with one id |
| `network` | `PacketsKeepTheirBounds`, `PacketsArrive`, `EntriesMatchConnections`, `ReportsServedOnce`, `QueueCallsSucceed`, `EachSocketHasOneOwner`, `EverySocketIsClosed` | 2 of 3 packets; 3 sockets, a queue of 2, a server with 2 entries, backlog 1 |
| `server_stale_login` | violated: `LoggedInUsersAreConnected` | 1 client |
| `server_wire_ports` | violated: `PortsUniqueOnTheWire` | 1 client, 2 groups, ports one bit wide |
| `single_list` | violated: `RemovedStayOut` | 4 persons |
| `list_prev` | violated: `BeginStaysBegin` | a list of 2 nodes |

Why the bounds are enough. The managers treat all names alike, so two users
and one name more than there are addresses reach every branch: a full and an
empty pool, the second member, the last member, a group created again under
its old name. The server serves one descriptor at a time; two clients give
every interleaving of two sessions. Three clients for two descriptors give
rounds in which one descriptor is closed while the other is still to be looked
at, a third connection that takes the number over in a later round (the
listener is the least descriptor, so a round accepts before it closes), a table
that is full while somebody waits, and a client that dies waiting. Two clients
for one descriptor make the second wait with a request already sent. Users,
passwords, groups and clients are symmetric; descriptors, which are compared as
numbers, are not. The runs with a liveness property use no symmetry.

A ring of three slots is the least in which head, tail and the middle differ;
the run wraps each index any number of times. Three groups for a table of two
reach the full table and the entry that is moved on removal; three PIDs are
one fewer than two sessions have processes, so PIDs must be used again. In
`system` two sessions in all (`MaxQueues`) let a client leave and come back
after others; two creations let a group be deleted and made anew.

Four slots give a heap of two levels below its root, so an item sinks twice
and chooses between two children; vectors are created with 0, 1 and 4 slots
and blocks of 0, 1 and 2, which gives fixed ones, ones that grow from nothing
and ones that never fill. With 2 buckets the keys 0 and 2 collide and 3 does
not, with 3 the keys 0 and 3 do; both prime numbers are chosen by the code
from the sizes asked for. Four tree nodes give every shape in which a removed
node has two children and the next node is its child or lies deeper. Which
nodes the allocator returns does not matter, so list and tree nodes are
symmetric.

Three sockets for a server with two entries and a queue of two make the server
refuse one that waits in the queue, make the producer wait, and let a socket
number be used again. The packets are one without a value, one whose value
could be taken for a tag and a length, and one whose value is a plausible
length; two of them are enough for a torn packet to be misread with the next.

The port limits are scaled: `LargestPortText` stands for 99999 and
`WirePorts` for 65536. The counter starts at 5000, so the real server needs
more than 65536 creations in one life before a port repeats on the wire (5000
and 70536 are one port there) and 95000 before one does not fit five digits.
`NoCrosstalk` compares ports as `htons` leaves them (`OnWire`) and claims
nothing once more ports were given than the wire has. In `system_ports` the
wire has two, all of them are given, and the bound is exact: with one creation
more (`PortBound` 8 and one more port allowed in the property) TLC finds two
groups on one port.

Deadlock is not checked: the chat system may stop, when every client has ended
or waits at a descriptor table that is full of idle connections; callers of a
container or a manager may stop calling. Where stopping would be wrong it is a
liveness property that says so (`EveryRequestAnswered` and
`DeadConnectionsReleased` for the chat server, `EverySocketIsClosed` for the
two threads and the poll server).

What the two liveness properties of the chat server except, they name.
`ShutOut(c)`: c waits in the backlog and the descriptor table stays full for
ever, which idle clients can do, since the server closes nobody. The table is
full again and again in both runs, `accept` fails (`AcceptFails`), and who
waits must be served once a descriptor comes free. `CannotBeAnswered(c)`: the
answer would carry a port of more than five digits, for which the handler sends
nothing at all.

Fairness. `FairSpec` has weak fairness of `Server`: one thread that blocks
only in `select`, its descriptors being non-blocking, so it runs whenever
something is readable; and of each `ReceiveResponse`: a client blocked in
`recv` wakes up. Nothing obliges a client to connect, send or end.
`SessionsFairSpec` has weak fairness of a client's start (its thread runs
unless it is blocked in `msgrcv`) and of each process's report, the first
thing the process does. That a process ends before it reports remains
possible, and `StartCompletes` excepts exactly that: the code has no timeout.
`FramingFairSpec` lets the network deliver and a receiver with something to
read run. `EchoFairSpec` has weak fairness of each of the three threads of
control: they are POSIX threads and a process, and each of their steps is
taken without a wait when it is enabled at all. Weak fairness of a thread is
enough also for the semaphores, as each is waited on by one thread; the mutex
is released after one call, which the other thread's fairness then gives it
time to take: strong fairness was not needed.

The four disagreements:

* `server_stale_login`. A client logs in, sends another request and is killed
  before it reads the answer. Its kernel resets the connection, the server's
  `recv` fails, and `ProcessClient` closes the descriptor without
  `UserManagerLogout` (`server/src/server_manager.c:471-482`, in contrast to
  the branch for 0 and to the exit). `m_socket_to_user`, "Currently logged in
  users" by its comment, keeps the entry; the user cannot log in again and the
  next connection with that descriptor is taken for that user.
* `server_wire_ports`. Each creation spends a port and none comes back.
  `README.md` promises each group a unique address and port; what the group
  really gets on the wire is the counter modulo 2^16. (The address is unique:
  `AddressPoolConserved`.)

* `single_list`. `ListRemoveHead` does not clear the removed person's
  `m_next` (the assignment is commented out), and `ListInsertByKey` into an
  empty list does not set it. A person taken off the head and inserted into
  the emptied list brings along whoever came after it.
  `singleLinkedlist.h:38` says "The removed node is detached from the list."
  By key alone the list is right: `ListedInOrder` holds in `containers`.

* `list_prev`. `doubleLinkedList.h:102` says of `ListItrPrev` "if _itr is begin
  iterator it will be returned". The test that did so is commented out
  (`src/assignment_14/sharedLib/src/doubleLinkedList.c:196-199`, under the
  comment "Do not expose head to the user"), so the head node is returned; in
  assignment 13's copy of the list the test is still there. `SequenceCursor` is
  what the header says, `ImplementsSequence` names the one step that the code
  adds (`PrevToHead`) and holds of everything else, what is called at the head
  afterwards included. The one caller of `ListItrPrev` in the repository
  (`src/assignment_10/src/main.c:129`) does not stand at the begin.

## 5. The proofs

| theorem | property |
|---|---|
| `UserManagerTypeCorrect`, `MapsNeverDisagree`, `SessionsSafe` | the user manager's of `managers` |
| `GroupManagerTypeCorrect`, `AddressesConserved`, `MemberCountsExact`, `PortsNeverShared`, `GroupsStayPut` | the group manager's of `managers` |
| `ServerTypeCorrect` | `ServerTypeOK` |
| `DescriptorsAlwaysTracked` | `DescriptorsTracked` |
| `ReportsNeverStale` | `ReportedStillReadable` |
| `RequestsAnsweredOnce` | `AnsweredExactlyOnce` |
| `ManagersStayConsistent`, `ServerKeepsSessionsAndGroups` | the managers' invariants and action properties, in the composed server |
| `NoUnexplainedEmptyGroup` | `EmptyGroupsExplained` |
| `GrantsStillHold` | `GrantStillHolds` |
| `LogoutsClearMemberships` | `LogoutClearsMemberships` |
| `SystemImplementsServer`, `SystemKeepsServerInvariants` | the whole system refines `ChatServer`, and so keeps what is proved of it |
| `SystemImplementsSessions`, `SystemKeepsSessionInvariants` | the whole system refines `ChatSessions`, and so keeps what is proved of it |
| `MenusAgreeWithServer` | `MenuAgreesWithServer` |
| `ChatsStayMemberships` | `ChatsAreMemberships` |
| `GrantsStayNew` | `GrantsAreNew` |
| `GroupsNeverCross` | `NoCrosstalk` |
| `SessionsTypeCorrect`, `NoProcessStrays`, `SessionsNeverDoubled` | type, `NoStrayProcess`, `OneSessionPerGroup` |
| `RingAlwaysConsistent`, `RingImplementsFifo` | `RingConsistent`, `ImplementsFifo` |
| `ItemsStayInArray`, `ShrinkingLeavesRoom` | `ItemsInArray`, `ShrinkLeavesRoom` |
| `ListImplementsSequence` | `ImplementsSequence`: the header's sequence, and the one step `PrevToHead` |
| `CarefulListIsASequence` | the header's sequence without exception, for callers that never ask for the iterator before the begin |
| `ListStaysInOrder` | `ListedInOrder` |
| `MapImplementsDictionary` | `ImplementsDictionary` |
| `HeapImplementsQueue` | `ImplementsPriorityQueue` |
| `QueueCallsNeverFail`, `SocketsHaveOneOwner` | `QueueCallsSucceed`, `EachSocketHasOneOwner`, of the threads alone |
| `EntriesAlwaysMatch`, `ReportsAlwaysServedOnce` | `EntriesMatchConnections`, `ReportsServedOnce`, of the poll server alone |
| `EchoImplementsBoth`, `EchoSystemSafe` | the connected programs refine both, and have all four |
| `PacketsStayWhole` | `PacketsKeepTheirBounds` |

Assumptions: those named in the modules (descriptors are numbers, the
listener's is the least, there is at least one address, the queue has a
place, markers such as `NoSocket` are no values) for the member count,
that the user names are a finite set, and for the lists that their nodes are.
For the map the keys are a finite set, the caller's hash is a natural number
and the search for a prime ends (`HashMapAssumption`; TLC evaluates it for the
instance). For the heap the comparator is a strict weak order
(`GenHeapAssumption`), which `genHeap.h:22` asks for with "a less than
comparator". The theorems that relate the server to
the sessions have one hypothesis more, `AddressesKnown`: the set of addresses
the sessions are written for has every address the server can give, whatever
its port. It is a hypothesis and no `ASSUME` because the ports are all the
numbers, which TLC cannot enumerate; the instances define `Addresses` so that
it holds (`AllAddresses` in `MCChatSystem`).

The argument. For each manager the inductive invariant is a predicate of the
manager record: `UsersInv(m)` is the type and the agreement of the maps;
`ManagerInv(m)` is the type, the pool, the counts, the ports and the
finiteness of the sets counted. One lemma per operation says that the
operator keeps it, for any arguments and any fault; the manager's own theorem
and the server's handlers cite the same lemmas. The server's invariant
`ServerInv` adds `NetInv`: every client in the backlog is there once and is
`queued` (`QueueOK`), an open connection has a descriptor
(`OpenHaveDescriptors`), `DescriptorsTracked`, and every descriptor still
pending in the round is readable (`ReportedReadable`). The last needs the
others: closing a descriptor takes it out of `tempSet`, a new connection gets
a number that is not in `masterSet` and so not pending, and nobody else reads
from a pending one.

`AnsweredExactlyOnce` needs `AnsweredInv` on top: of every connection whose
client is there, what is in flight is one packet if it waits and none if not,
or none while it waits and a port has outgrown its five digits. That last case
stays true because the counter never goes back, which the group manager's
lemmas about `Stable` say of each operation.

`GrantStillHolds` is not inductive: that a granted membership outlasts the
requests of others is easy, but it must also outlast its own user's. So
`GrantInv` says for each connection with a grant on its way that it is about
the user logged in on that descriptor, and that the client has sent nothing
since (from `AnsweredInv`). That the descriptor is still this client's is
`NetInv`; that no other connection is logged in as the same user is the user
manager's invariant; that the group still has this address and port is the
group manager's.

`EmptyGroupsExplained` needs of the group manager that each operation leaves a
group empty only if it was empty before or was just created
(`NewlyAlone` in `GroupManager_proofs`), of the create handler that it adds
the creator at once and answers with failure when that fails, and of the logout
that its second pass removes every empty group, whoever made it.

`LogoutClearsMemberships` follows the handlers: a login ends by the logout, by
the exit or with the connection, and the last two take the descriptor out of
`masterSet`.

For the sessions (`SessionInv`) it is the type, the table (`TableInv`: within
its size, one entry per group, complete but for the newest while a start is
under way), the start (`StartInv`: a role is launched once for the newest
entry, its report is read once and is about that process), and that every live
process is `Known`, in the table and reported, or `Expected`, launched for the
newest entry with its report still to be read. The table changes by moving its
last entry to a removed one's place, so each clause is about entries wherever
they are.

For the ring the inductive invariant is its type with `RingConsistent`
(`tail = (head + size) % Capacity` and every slot in use holds an item); each
operation is then shown to do to `Contents` what `BoundedFifo` says. For the
vector (`VectorOK`) it is the type, every slot below the size written, and
`InBlocks`: the array is a whole number of blocks longer than it was created,
without which shrinking could undercut the original size.

For the list (`ListInv`) it is that some numbering `at[0]` to `at[n + 1]` of
nodes leads from the head to the tail, is linked both ways, has no node twice
and, between its ends, exactly the allocated ones. `ListContents` and the
iterator's position are recursive functions that walk along the pointers; that
the walk follows the numbering is shown by induction (there is no least step
at which it leaves it, `LeastNatural`). An insertion is then a numbering with
one place more, a removal one with one place less, and the calls do to the
contents what `SequenceCursor` says.

For the single list (`KeyedInv`) there is a numbering too, `SortedAt`: it ends
at `NoPerson`, ascends strictly and has exactly the inserted persons, and a
person that is not on the list points nowhere. The last is needed because an
insertion into the empty list leaves `m_next` as it is. What a recursion
returns at each depth is written down and shown by induction from the end of
the list; the loops stop where the same numbering says.

For the map (`MapInv`) every pair is in its key's bucket, no bucket has a key
twice (`BucketsOK`), and the count is the number of keys. The dictionary is read
off `AllPairs`, the walk over the buckets; it meets every pair in every bucket
once (`AllPairsFacts`, by induction from the last bucket), so what an operation
does to one bucket it does to the dictionary.

For the heap (`HeapInv`) it is the vector's `VectorOK`, the heap's own count
equal to the vector's, and no item better than its parent (`InOrder`). While an
item moves, the order is broken at one index only, the hole: where an item
sinks, only the hole's children may be better than their parent (`Heaped`);
where one rises, only the hole may be (`Rising`); and in both no child of the
hole is better than the hole's parent (`Bridged`). A turn moves the hole and keeps this and the count of
every item, a turn that moves nothing has closed it, and the index of the hole
leaves no room for more turns than the loop has (by induction over the turns,
`EachTurn`). `HeapBuild` closes one hole after the other from the last parent
down to the root. The comparator may call different items equal, so what is best
is not unique; that the root is one of the best needs the order to be weak, not
total.

For the threads (`ThreadsInv`): who is in the queue's calls holds the mutex
(`MutexExcludes`); `empty` and the places promised, and `full` and the items
promised, add up to the queue's length (`SemaphoresCount`); and the owners.
For the poll server (`PollInv`): the type, who waits in the backlog
(`BacklogWaits`) and the two properties themselves. The connected programs
refine the threads because every step of a socket is one the threads allow,
and the server because every step of the threads is, to a connection, one a
client may take.

For the system, every step of a client does to its connection what the
environment of `ChatServer` may do, or nothing; so the server's invariants
hold in it. `SystemInv` joins them to the clients: for each client, its menu,
its connection and its table fit together (`ClientInv`). Its parts are what
each packet on the way, each answer and each table entry says about the
server's state: the server knows the client by the name it uses, except
between a logout and its answer (`LoginOK`); what is in the table is a
membership with the group's address, except a group that an answer on its way
says was left (`TableOK`); a granted group is not in the table (`GrantOK`); and
a client that starts a session waits for nothing (`MenuOK`). The last is what
makes the system's steps steps of `ChatSessions`, whose starts and stops do not
overlap; then `NoStrayProcess` leads from processes to table entries and
`TableOK` from these to memberships.

`NoCrosstalk` is about processes whose client, connection and group may all be
gone, so `ClientInv` says nothing of them. `PortInv` is about ports alone:
whatever carries one, a live group, an answer, a table entry or a process,
carries it for the same group, and all are below the counter and not below
`DefaultMulticastPort`. As long as the counter has not passed
`DefaultMulticastPort + WirePorts` two of these ints that are equal modulo
`WirePorts` are therefore equal (`WireTellsApart`), and what holds of the ints
holds on the wire. The bound is part of the property, since `GrantsAreNew`,
`AddressStable` and `PortsUnique` speak of the server's ints and hold for ever,
while `PortsUniqueOnTheWire` does not.

For the packets (`FramingInv`): unless one was torn, either everything sent was
received, or all but the last packet, and that one is the bytes read, those
that arrived and those on the way, in this order (`InTransit`); and bytes on
the way behind others that arrived come from a packet in pieces. A `recv` asks
for no more than is missing (`Bounds`), so it never reads into the next packet.

Only model-checked: the refinement of the tree, whose module recurses over its
nodes by `RECURSIVE` operators, which the prover's arithmetic does not take; and
the liveness properties, since liveness under fairness is out of its reach.

## 6. Not modelled, and why

* `select` failing. With no signal handler and exact sets (`DescriptorsTracked`
  excludes EBADF) it cannot fail except for lack of kernel memory.
* Partial packets in the composed server: `ChatServer` assumes that packets
  arrive whole, and `PacketsKeepTheirBounds` says that they are then never
  torn. `ReportedStillReadable` is what makes the first `recv` of a packet
  never fail with EAGAIN.
* SIGPIPE: no program ignores it, and a second `send` to a peer that has reset
  would end it. The chat server answers each request once, and finds the reset
  at its next `recv`.
* Unknown tags and packets that do not parse: the client never builds one.
* `MAX_CLIENTS`, `FD_SETSIZE`: nothing enforces them; the descriptors of an
  instance are below.
* The bytes of a packet, menus, logging, UDP multicast.
* A signal that reaches a stranger. `StopChatSession` sends SIGTERM to the
  PIDs it was told; if the process ended and the number was given to another
  process, that one is ended. The model lets it happen (`Killed`), no document
  promises otherwise.
* A chat for every membership: the client ignores the result of
  `StartChatSession`, and a user that comes back after a crash is still a
  member on the server, without a chat.
* Memberships after the end of a connection. `PeerClosed`, `RecvFailed` and
  `HandleExitRequest` leave the user in its groups (the code calls only
  `UserManagerLogout`), so a group can be held by users that are gone. No
  document says otherwise, so there is no property, only the contrast that
  `LogoutClearsMemberships` draws.
* The containers' `Destroy` functions, which end them, and the `ForEach` of the
  vector, the heap and the single list, which change nothing. (`HeapForEach`
  does not count the item at which its action stops, though `genHeap.h:75`
  says the number of invocations.) `ListReverse` of the single list returns its argument, `ListGetLastNode`
  only reads. `HashMap_Rehash` and `HashMap_GetStatistics` are declared but
  not written.
* The output `*_p` of the single list's removals. `ListRemoveByKey` of an empty
  list returns before it sets it, although `singleLinkedlist.h:65` says that
  it is set to NULL if the key is not found; the recursive version sets it.
* The earlier copies of the containers (assignments 7, 8, 10, 12, 13), which
  are the shared library's but for `ListItrPrev` of assignment 13's list.
* The other programs of assignment 15: the `select` server keeps its sets as
  the chat server does, the TCP and UDP exchanges are calls in a straight line
  with one peer. The IPC exercises of assignment 14 and the shell of
  assignment 9 are a parent and a child that take turns.
* The exercises of assignments 1 to 6 (digits, strings, bits, sorting), which
  are functions without state.
* The STM32 programs: LED loops of a few lines each over the vendor's
  generated code. That code (HAL, CMSIS) is about 235,000 of the repository's
  258,000 lines; what the course wrote itself is about 23,000 lines, most of
  them demonstration programs and the exercises above. The share of the
  repository that is modelled is small for that reason, not because parts of
  the chat system, the containers or the poll server are missing.
