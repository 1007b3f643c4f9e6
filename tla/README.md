# Specifications of cpp-socket-chat

TLA+ specifications of the chat server in `src/server`, of the client in
`src/client`, and of the bytes between them; TLC configurations that check them on small
instances; and theorems checked by TLAPS. Line numbers below are those of the
repository; paths are given without the common prefixes `src/server/src/`,
`src/server/include/` and `src/client/src/`.

## The system

One process serves chat rooms over TCP. An I/O thread runs an epoll loop; every
packet it reads becomes a task of a thread pool whose workers run the packet
handlers; the handlers share a client directory and a room directory, and send
with blocking retries to any descriptor they like. Clients have two threads on
one socket.

| Part | State | Operations | Talks to |
| --- | --- | --- | --- |
| Thread pool (`concurrency/ThreadPool`, `containers/SafeQueue`) | workers, `m_queue`, `m_stop`, condition variable | `enqueue`, `worker_thread`, destructor | called by `Server` |
| Event loop (`application/Server`, `io/EpollManager`) | epoll set, `m_is_running` | `run`, `~Server`, `eventLoop`, `handleEvent`, `sendPacket`, `broadcastPacketForRoom` | everything |
| Connections (`network/Listener`, `ConnectionManager`) | listening socket, open descriptors | initialize, close, accept, register, hang up, close | epoll, client directory |
| Framing (`network/PacketReceiver`, `PacketSender`) | per-call buffers; `recv_buffer` of a client | `receiveAndParse`, `send` | sockets |
| Client directory (`domain/client/ClientManager`) | `m_clients`, `m_nicknames`, one mutex | add, remove, `getClient`, `isNicknameTaken`, `setNickname` | I/O thread, handlers |
| Rooms (`domain/room/Room`, `RoomManager`) | `rooms`, its mutex; a vector of descriptors and a mutex per room | `addRoom`, `joinRoom`, `leaveRoom`, `getRoom`, `getClientFds` | handlers |
| Handlers (`domain/handler/*`) | locals only | REGISTER, CREATE, JOIN, EXIT, MESSAGE | all of the above |
| Client (`src/client`) | one socket, two threads, the flags of `Lobby` and its services | connect, register, create, join, receive, display, exit | the server |
| Configuration, loggers | -- | read once, write only | -- |

What is hard here:

* **Interleaving.** Two packets of one connection may be handled by two workers
  at once; test and update of a nickname are two critical sections
  (`NicknameHandler.cpp:32-38`); `getClient` and `getRoom` return pointers that
  outlive the lock (`ClientManager.cpp:26`, `RoomManager.cpp:104`);
  `getClientFds` copies a vector without its mutex (`Room.h:28`).
* **Stale names.** Tasks, rooms and broadcasts name a client by its bare
  descriptor, which the kernel hands out again after `close`.
* **Partial clean-up.** `closeConnection` cleans the client directory and
  leaves rooms alone.
* **Blocking and dying.** A send to a slow reader is retried without end
  (`PacketSender.cpp:29`), one to a peer that is gone raises `SIGPIPE`.
* **Waking and stopping.** The pool's wait predicate knows nothing of `m_stop`,
  and every failure during start-up runs into it.
* **Two readers on one socket.** The client's input thread waits for the answer
  to `/exit` while its receiver thread reads broadcasts from the same socket; each
  packet is read in two calls (`NetworkClient.cpp:43-84`).
* **Bytes.** Packets arrive in pieces or several at once; sends are partial; and
  several workers may send to one descriptor.

What makes the parts correct: the pool runs every task once, in the order it was
given, and sleeps only when there is nothing to do; descriptors, epoll events
and the client directory agree; rooms respect their limits and list nobody
twice; a client's `roomCode` and the room's list agree; nicknames are unique and
are given back; a broadcast reaches members only; a request is answered, to the
one who asked; the packets taken off the wire are the packets put on it; the
client agrees with the server on where it is, shows every broadcast once and in
order, and comes back from every request.

`PROJECT.json` lists all of this per source line under `hazards`.

## The modules

    TaskPool <-- refined by -- ThreadPool <-- ThreadPoolProofs
       |                           ^
       |                           +-- ServerLife          (start-up and destruction)
       |  its contract: `queue'
    ChatServer <-- MCChatServer                            (instances for TLC)
       ^    ^----- ChatServerProofs <-- ChatPromisesProofs <-- ChatRoomsProofs
       |  its assumption on peers: Orderly
    OrderlyPeer <-- refined by -- ChatClient <-- ChatClientProofs <-- ClientPromisesProofs

    PacketRelay <-- PacketRelayProofs <-- RelayFramingProofs
       (the wire: client -> server -> another client)

Arrows without a word are EXTENDS. `ChatServer` sends whole packets between peers
of which it assumes an order of requests; `ChatClient` is what such a peer is made
of, and `PacketRelay` is why packets may be taken as whole.

### TaskPool and ThreadPool

`TaskPool` is what a caller of the pool may rely on: tasks leave the queue in the
order they entered it, each is run by one worker, once. `ThreadPool` is the code.
A worker is at `"loop"` (the test of `m_stop`), `"popping"` (about to evaluate
the predicate of `wait_and_pop`, holding or acquiring the mutex), `"waiting"`
(inside `condition_variable::wait`), `"running"` or `"exited"`. `Push` is one
critical section plus `notify_one`, which moves any one waiting worker to
`"popping"`; `SpuriousWakeup` is what the standard allows. The destructor is
three steps, `SetStop`, `NotifyAll`, `Join`. `PoolKeepsPromise` is the refinement
with `pending <- m_queue, running <- task`; sleeping and waking are stuttering steps.

### ServerLife

`ThreadPool` with the main thread around it. `main` is where the main thread is:
`ListenerInitialize`, `EpollInitialize`, `AddListener`, `StartIO` are the calls of
`Server::run` (`Server.cpp:32-63`), each of which may fail and send it to
`"stop"`; `StopEpoll` and `CloseListener` are `~Server`, `DestroyPool` and
`DestroyRest` the members' destructors, in the reverse order of `Server.h:44-58`.
`listener` and `epoll` are the two descriptors, `io` is the I/O thread, which hands
tasks to the pool (`Handle`). `stop()` is called by `~Server` only and `epoll_wait`'s
errors are logged and ignored, so a server that has started runs until it is
killed; `EndLoop` and `Returns` are in the module because they are in the code.

### ChatServer

The I/O thread, the workers, both directories and the peers, in one module,
because every interesting behaviour is between them.

| Variables | Code |
| --- | --- |
| `peer, pending, wire, unread, sends` | the remote ends and the kernel: listen queue, bytes sent and not read, bytes buffered towards a peer |
| `socket, batch, adding, closing` | open descriptors, the rest of `epoll_wait`'s events, and where the I/O thread is inside `acceptNewConnection` and `closeConnection` |
| `m_clients, info, m_nicknames` | `ClientManager` |
| `rooms` | `RoomManager::rooms` with each `Room` |
| `queue` | the pool's queue |
| `pc, task, ptr, code, todo, response` | a worker: its place, its packet, and the handler's locals |
| `status` | whether the process is up, killed by a signal, or has used a dangling pointer |
| `joined` | history only: rooms each connection was ever admitted to |

One action is one critical section, one system call, or one read of memory that
another thread may be changing; so `NicknameHandler::handle` is
`IsNicknameTaken; SetNickname; Reply`, `handleCreateRoom` is `AddRoom; GetClient;
JoinRoom; SetRoomCode; Reply`, `handleJoinRoom` is `GetClient; CheckClient;
JoinRoom; SetRoomCode; GetRoom; CopyFds; SendNext*; Reply`, `handleExitRoom` adds
`LeaveRoom; ClearRoomCode` after its broadcast, and `MessageHandler::handle` is
`GetClient; CheckClient; GetRoom; CopyFds; SendNext*`. The early returns of each
handler are the branches of these steps; what a handler does when it finds no
client differs per packet type and is spelled out in `GetClient`. The I/O thread
is `EpollWait`, then per event `Accept; AddClient`, `AcceptFails`, `AddFdFails`,
`Receive` or `HangUp; Close`.

Abstractions, and what they keep:

* A packet is its type and one argument. JSON either parses or is `Malformed`.
  Whole packets travel; `PacketRelay` has the buffer and the partial sends.
* `wire` is unbounded, so `Receive` may take any non-empty prefix of it: `recv`
  returns what has arrived. The end of file is seen when the wire is empty
  and the peer is gone.
* A `ClientInfo` lives in a heap cell. Erasing a map node frees the cell and
  leaves its contents, so a handler that kept the pointer reads stale data, or
  the data of the next client that got the cell; `DanglingUse` is the third
  outcome, a crash. A `Room*` is represented by its code; a copy of the list of a
  room that was erased reads nothing or another room's list.
* `getClientFds` unprotected: while another worker is in `acceptNewUser` or
  `leaveUser` of that room, the copy may miss or repeat elements (`Torn`).
* `generateRoomCode` draws any code not in use. Its failure after 100 attempts is
  `Used = Codes`. A code may come back after its room is erased.
* `accept` may return any free descriptor. (POSIX says the lowest; other files,
  the logger's included, come and go.)
* A socket buffers at most `SendCap` packets for a peer that does not read;
  `Transmit` is not enabled on a full socket, which is the retry of
  `PacketSender.cpp:29`: the worker stays where it is until there is room.
* Sending to a peer that is gone succeeds (no reset yet), or fails and is logged,
  or kills the process (`BrokenPipe`).
* Reads of a string that another thread is assigning are taken as old or new
  value, not as torn strings.
* `Orderly` peers are the shipped client: register, then create or join, then
  chat or exit, each time waiting for the answer (`Lobby.cpp:31-170`), and closing
  only when no answer is outstanding. Peers that are not orderly send any
  request of `Requests` at any time, unknown types and pipelined requests
  included; `server_any_peers` has them. The other runs have orderly ones, in two of
  them with payloads that do not parse; the theorems say for which peers they hold,
  and `ClientPromisesProofs` that the client is orderly until an answer is mixed up.
* Every packet is within `MAX_PAYLOAD_SIZE`, as the client sees to before it sends
  (`NetworkClient.cpp:91`). "Any peers", here and in the theorems, are peers that keep
  to it: see Not modelled.
* `Capacity` keeps the conversion of `Room.cpp:13`: `size() < maxUserCnt` compares
  in `size_t`, so a negative limit admits nearly everybody and zero nobody.

### ChatClient and OrderlyPeer

`OrderlyPeer` is the peer `ChatServer` assumes when `Orderly` is TRUE, as an abstract
specification: a place (`"anon"`, `"lobby"`, `"chat"`, `"waiting"`, `"silent"` ...), the request
it waits for, and where the answer may lead. `ChatClient` is the client's code and
refines it (`Peer == INSTANCE OrderlyPeer WITH peer <- PeerState`) up to the
moment an answer is mixed up, after which the peer is `"astray"`.

| Variables | Code |
| --- | --- |
| `pc, got, asked` | the input thread (`Lobby::Run`, `InputLoop` and the services it calls) and the receiver thread (`ChatService::ReceiveLoop`); the packet each has read; the request the input thread waits for |
| `m_connected, m_is_receiving, m_current_room_code, stdin` | the members of these names; whether `std::cin` still gives input |
| `stream, readTo, cut, hangup` | the socket: packets delivered, how many were read, what was read of the next one, the server's end |
| `asks, outgoing, listed, roomCode, served, sent` | the server as far as this client can tell |
| `unentered` | history: the room the client was last told it has, if it never entered it |
| `wrong, shown` | history: packets read by the thread they were not meant for; packets displayed |

`NetworkClient::Receive` is `CallRecv; RecvHeader; CallRecv; RecvPayload`, run by
either thread, with what the other may do in between: `RecvText` reads text as a
header, which is oversized (`PacketHeader.size` of two printable characters is at
least 0x2020, more than `MAX_PAYLOAD_SIZE`) and closes the connection; `RecvRest`
waits for bytes that are gone. `StartChatSession` assigns `m_receiver_thread`, which
ends the program when a thread is still joinable there. `/exit` is `ExitRoom;`
`OnExitAnswer; StopReceiving; JoinReceiver`. The server handles the requests in any
order, lists a client before it answers and copies a room's list before it
sends, as `RoomHandler.cpp:156-197` and `Server.cpp:105-116` do, so broadcasts may
overtake the answer to a JOIN. `Handle` in this module is thus `ChatServer`'s
handlers seen from one client, whatever the other clients do meanwhile: a CREATE may
be refused, answered OK, or answered OK without the creator being in the room
(`LeavesOut`; `RoomHandler.cpp:75-92`, which `ChatServer` has in `GetClient` and
`Refusal`). In the last case the client chats in a room it is not in, its `/exit`
is answered with `ROOM_EXIT_FAIL`, and it is back in the lobby with its room code
kept (`RoomService.cpp:152-157`); the next room overwrites it. `unentered` remembers
that room, so that `RoomAgrees` can say what the two sides know of it.

`Talk` is a broadcast at any time, the moments before the client has a room included:
a connection on a descriptor that a departed member left on a room's list gets that
room's broadcasts from the start (`reused_descriptor`).

The peer's place (`PeerState`) is where the program is: `"anon"` at the nickname
prompt, `"chat"` while it has a receiver thread and has not asked to exit, `"lobby"`
otherwise, and `"silent"` once its input has ended, after which it asks nothing more.
In `ChatServer` a silent peer is one that sends no more, which it never has to.

`m_is_running` and the formatting of messages are left out; the plain `bool` flags
of the services are read and written as if they were atomic.

### PacketRelay

One packet's way, cell by cell. A cell is a header field or a run of payload text.
`BeginSend` and `SendSome` are `NetworkClient::Send`; `Receive` appends what `recv`
gave to `recvBuffer`; `Parse` is one round of the loop of `parsePackets`, which
enqueues a task; `Handle(w)` and `Transmit(w)` are a worker taking the task and one
`::send` of what is left (`EAGAIN` is the absence of a step: it is tried again);
`ReadHeader`, `ReadPayload` and `Deliver` are the other client's two calls of `recv`
with `MSG_WAITALL`. The sockets take and give any number of cells. `overlapped`
remembers that a worker sent while another was in mid-packet, which nothing
prevents; `ReadAsSent` and `EverythingArrives` claim nothing from then on.

## The runs

All configurations of `ChatServer` bound what peers send (`MaxSends`), the socket
buffer (`SendCap`) and the number of connections, descriptors, workers, room codes
and nicknames; nothing else is bounded. `SizeMod = 16` stands for 2^64 and is larger
than any list. `ChatClient` bounds the requests (`MaxAsks`) and the packets the
server makes (`MaxTalk`, after which the other members are silent), `PacketRelay` the
packets (`MaxPackets`). Runs of `ChatServer` without liveness use symmetry over
connections, nicknames, workers, descriptors and cells (none of them is ordered, and
no property chooses among them); the codes are not symmetric, since requests name
`r1`.

| Run | Question | Instance |
| --- | --- | --- |
| `thread_pool` | Does the pool lose, duplicate, reorder or forget a task, or a wakeup? No. | 3 workers, 3 tasks, destruction at any time, spurious wakeups |
| `pool_destructor` | Does the process end when start-up fails? **No.** | 2 workers |
| `server_orderly` | Are descriptors, directory and memberships coherent under the shipped client, which leaves whenever it does not wait for an answer? Yes. | 3 connections on 2 descriptors, 2 workers, 2 codes, 5 requests |
| `server_any_peers` | Do rooms keep their limits whatever peers send? Yes. | 3 connections, 2 workers, 2 codes, at most 1 room, rooms for 1 or 2, 3 requests, pipelined and unknown ones included |
| `server_one_worker` | Is every request answered when all peers read, and is the nickname table exact, when one worker runs? Yes. | 2 connections, 1 worker, 5 requests, REGISTERs that do not parse included |
| `server_nobody_leaves` | Are broadcasts, memberships and answers right as long as nobody disconnects? Yes, with one worker. | 2 connections, 2 codes, rooms for 1 or 2, 9 requests, JOINs that do not parse included |
| `sigpipe` | Does the server survive a departure? **No.** | 2 connections, 1 worker |
| `reused_descriptor` | Do broadcasts stay within the room? **Not after a disconnect.** | 3 connections on 2 descriptors, 1 worker |
| `nickname_race` | Are nicknames unique with two workers? **No.** | 2 connections, 1 name, 2 workers |
| `client` | Does the client agree with the server on its room, have one reader in the lobby, keep its connection, show what it is sent in order, come back from the lobby's requests and end with its connection? Yes, and it is an orderly peer until an answer is mixed up. | 1 room, 3 requests, chat messages up to the 2nd packet |
| `client_exit` | Does `/exit` come back? **No.** | 1 room, 3 requests, chat messages up to the 3rd packet |
| `packet_relay` | Do packets survive the wire? Yes, while no two sends overlap. | 3 packets with payloads of 0 or 1 cells, 2 workers, sockets of 5 cells, `recv` of 4 |

Why the bounds suffice. Two descriptors and two workers are the least with
which handlers race, a member leaves while another broadcasts, and a descriptor
is closed under a running handler; five requests let two clients register, meet in a
room and one of them leave it. The third connection finds no descriptor free, or gets
the one of a client that left, its name included. With one worker two connections are
enough for either to want the other's name, or to take it over with the descriptor
after a departure; a worker that cannot finish a request then keeps every other one
waiting, while of several some may still be free. What several workers do to each
other's clients and rooms is in `server_orderly`; no run has liveness with more than one.
In `server_any_peers` three connections race for the last place of a room of two, or
two of them with the creator for the only place of a room of one; two of them create
rooms when one is allowed and two codes are free; and one connection's two requests are
handled at once. Nobody registers there, since no room handler asks for it
(`RoomHandler.cpp:62-76,126-156`). In `server_nobody_leaves` nine requests let both
clients register, meet, leave and meet again, and a room for one, which a program
other than the shipped client may create, refuses the other. Three workers are needed
for the pool: one notified, one overtaking it, one asleep. Three requests take the
client through a registration, a room, one it was not entered in included, and `/exit`,
after which it is where a second chat would begin, or through refusals; further rooms
and requests are left to the theorems. A packet
the server has made may be delivered any time later (`Deliver`), so even one broadcast
made at the start comes before an answer, between its header and its payload, and
after it, in whatever phase of the dialogue; two broadcasts can be displayed out of
order, and one of them be mistaken for an answer while the other is shown. In the relay
a socket of five cells holds one packet and part of the next, three packets make one
overtake two, and a `recv` of four splits a packet anywhere.

Deadlock is checked in every run. `Rest` lets `ChatServer` stop where it may: when
the process is dead, or when it is `Quiet`, that is, `epoll_wait` has nothing to
report, the queue is empty and no handler runs. `ChatClient` rests when it has
ended or its prompt repeats itself for ever, `PacketRelay` when everything was
sent, `ServerLife` when `main` has returned. Any other state without a step would
be reported. (A client that waits in `recv` for an answer nobody will read to it is
never without a step: the server may still hang up.)

### What the violated properties say

`PROJECT.json` quotes the comment or document each one contradicts.

* `pool_destructor`: `Server::run` makes the pool first. When the listener or epoll
  then fails, `main` destroys the server: `m_stop` is set, everybody is woken, the
  predicate `!m_queue.empty()` is false, everybody sleeps again, `join` waits, after
  a graceful shutdown was logged.
* `sigpipe`: a member closes; the next broadcast sends to it before the I/O thread
  has closed the descriptor; `send` without `MSG_NOSIGNAL` raises `SIGPIPE`.
* `reused_descriptor`: a disconnect leaves the descriptor in `Room::clients`. The
  room never becomes empty, so it is never deleted, and the next connection
  accepted on that number is sent the room's messages. In the trace the broadcast is
  the announcement of another client that joins the room; the property judges only
  descriptors `broadcastPacketForRoom` sends to, not the sender it skips.
* `nickname_race`: both workers pass `isNicknameTaken` before either has set it.
* `client_exit`: `StopReceiving` clears a flag the receiver looks at between two
  packets, but it is waiting in `recv`, and `join` waits for it until another packet
  comes or the connection ends. Or the receiver reads the answer to `/exit` and
  drops it, and the input thread waits instead.

Some properties hold only under conditions, which the comment at each property
names:

| Property | Holds for |
| --- | --- |
| `NicknamesUnique` | one worker |
| `NicknamesExact` | one worker; clients that register until they succeed and are not gone before the answer |
| `BroadcastsReachMembers` | one worker, no disconnects |
| `EmptyRoomsDeleted`, `OneRoomAtATime` | orderly clients, no disconnects; the former with limits that are not 0 |
| `ChattersHaveRooms` | orderly clients, one worker, limits that are not 0 |
| `MembershipAgrees` | orderly clients |
| `AnswersReachAsker` | orderly clients, which do not leave while they wait: it says that the server does not hang up on them |
| `RequestsAnswered` | orderly clients, all of which read what they are sent or leave |

`ChattersHaveRooms` needs its one worker because of `CREATE`: between a creator's `addRoom`
and its `joinRoom`, another worker may let a second client into the new room and out
again, which erases it, or fill it; the creator's `joinRoom` is refused, and
`handleCreateRoom` answers `ROOM_CREATE_OK` all the same. With the configuration of
`server_nobody_leaves`, two workers and one room code, TLC finds such a trace within
seconds. (The other must know the code: codes are drawn anew, and one may return.)

The theorems have these conditions as hypotheses. `handleCreateRoom` has no test that
its client is in no room, and answers OK even if the creator could not enter; a peer
that is not the shipped client can be in two rooms, or, with a limit of zero, in none.

### Fairness

`ThreadsRun` is weak fairness of the I/O thread and of each worker: the kernel
schedules a thread that can run. A worker on a full socket cannot take a step, so
weak fairness does not push it. `PeersRead` is weak fairness of reading, for the
connections in `Readers` only: it is an assumption about the clients, stated as
such, and the property fails without it: a worker that broadcasts to a peer whose
socket is full retries in a loop and never answers the request it has. In
`server_one_worker` every peer is a reader. Nothing is assumed about peers sending,
leaving or connecting. `ThreadPool` assumes weak fairness of each
worker's own steps and of the destructor once begun, none of spurious wakeups, of
callers pushing, or of anybody beginning the destruction. `ServerLife` assumes that
the main thread, the I/O thread and the workers are scheduled.

`ChatClient` assumes weak fairness of each thread in `Receive`, of the input thread
(`InputRuns`) and of the receiver (`ReceiverRuns`), of the server handling and
delivering what it was asked, and of `User`: somebody at the keyboard answers a
prompt sooner or later. The last is used by `HangUpEndsClient` alone, because the
program waits in `getline` for the Enter it asks for (`Lobby.cpp:187`); an end of
input may come instead, and the property excepts it, since the menu and the
nickname prompt then repeat themselves for ever (`Lobby.cpp:83`). Nothing is assumed
of the server hanging up or the others talking. `PacketRelay` assumes weak fairness
of every thread's step, none of packets being sent.

### Mutants

Every property of a passing run has a mutant in `PROJECT.json`: a variant of one
definition with a plausible bug (a dropped notification, a missing null test, a
user too many, the wrong element erased, a nickname kept). They stand next to
what they replace, under a comment that begins `Faulty:`.

## The proofs

`ThreadPoolProofs`, for every set of tasks and every finite set of workers:

* `TypeCorrect`: types, and a worker holds a task exactly while it runs it.
* `TaskRunsOnce` (`ExactlyOnce`): inductive as it stands, on top of the types.
* `NoLostWakeup` (`SleepersNotNeeded`): while anyone sleeps, there are at least as many
  workers about to look at the queue as there are tasks in it. Each push adds a
  task and wakes one; each pop takes both away; nobody sleeps unless it saw the
  queue empty. The invariant is inductive with the types; the cardinalities are why
  the set of workers is assumed finite.
* `PoolImplementsTaskPool`: the refinement, step by step.

`ChatServerProofs`, for all constants that satisfy `ServerAssumption` (finite sets of
descriptors, cells and codes, at least as many cells as descriptors, the "no such
thing" values distinct from the things, well-typed requests) and `RoomAssumption`
(`NoRoom` is not a room), and for any peers, orderly or not:

* `TypeCorrect`: types, and every handler holds the locals its next step needs. It
  needs `IOCoherent`, because a packet that is read gets its connection from the
  descriptor.
* `DescriptorsCoherent` (`IOCoherent`) and `NoSpuriousClose`
  (`HangUpOnlyOnDeparted`). The inductive invariant is `IOInv`: types, coherence,
  `Acquainted` (a peer whose connection is pending or accepted has opened it, so
  that connecting never duplicates a connection behind a descriptor) and
  `ClosingDeparted` (between `removeClient` and `close` the peer is gone and the
  wire is empty). Peers and workers are dealt with together: each of their steps
  but `Connect` is `Calm`, that is, it touches neither descriptors nor the
  directory's keys, ends no hang-up and takes back no packet; the I/O thread has
  one lemma per step.
* `RoomsKeepLimits` (`RoomsSound`), for any peers and requests: inductive on top of the
  types, by what `acceptNewUser` and `addRoom` test under the lock they write under, and
  by `WithoutType`, which says what `leaveUser` does to the list. The run
  `server_any_peers` has the races for the last place. `WithoutType`, `CopiesType` and
  `WorkerStep` are the lemmas about helpers.

`ChatPromisesProofs` goes on from there, with what each theorem needs as its
hypothesis:

* `SerialNicknames` (`NicknamesUnique`), for one worker and any peers. `NameInv` adds
  that every holder's name is in the table and that the name about to be set is
  not: with one worker nothing comes between the test and the write, and the run
  `nickname_race` shows that with two something does.
* `AnswersFindTheAsker` (`AnswersReachAsker`), for orderly peers. `OneAsk` says that
  a request not yet answered is in one place, the wire, the queue or a worker's
  hands; that nothing follows it; and that its connection is still the one behind the
  descriptor it names. Hence its descriptor cannot have been closed and
  given to somebody else: the peer is waiting, so it has not left.
* `ClientsAreListed` (`MembershipAgrees`), for orderly peers. `MemberInv` adds that
  a worker's pointer is the current cell of its client and that a client about to
  be told its room is listed there. The steps of other workers can only add to, or
  take *their own* clients out of, a room (`RoomsOnlyLose`, `WithoutKeeps`).

`ChatRoomsProofs` is about what the directories hold over a whole session. What its
theorems have in common is how a peer's place outlives its messages: `Upheld(P, T, U)`
says that the connections of peers in a place of `P`, and of requests of a type in
`T` on the wire or in the queue, are in the set `U`, and one lemma says when a step
keeps it. `OnRoute` says that each worker is at a step of the handler of its packet.
"One worker" is `\A v, w \in Workers : v = w`.

| Theorem | For | Property |
| --- | --- | --- |
| `SerialNicknameTable` | orderly peers, one worker | `NicknamesExact` |
| `OneRoomPerClient` | orderly peers, no disconnects, any number of workers | `OneRoomAtATime` |
| `NoRoomStaysEmpty` | orderly peers, no disconnects, positive limits, any number of workers | `EmptyRoomsDeleted` |
| `ChattersAreListed` | orderly peers, one worker, positive limits, disconnects or not | `ChattersHaveRooms` |
| `BroadcastsStayInside` | any peers, no disconnects, one worker | `BroadcastsReachMembers` |

* `SerialNicknameTable`: `NewcomersFresh` (a peer that registers has no name yet, and
  keeps none until `setNickname`, so no name is overwritten and left behind) and
  `NamesHeld` (every name in the table is a client's).
* `OneRoomPerClient`: `NewcomersOutside` (a client whose CREATE or JOIN is on its way
  has no room code) and `UsersKnow` (a client on a room's list has that room's code,
  or is about to be given it by the one worker that serves it). The latter needs
  `LeavesOwnRoom` and `HasLeft`: an EXIT takes its client out of the room whose code
  it clears. When clients hang up it fails, as `reused_descriptor` shows.
* `NoRoomStaysEmpty`: `Founded`, that a room on whose list nobody is has a worker on
  its way to enter it for its creator. It needs `HaveClients`: a request that waits
  for its answer finds its client in the directory.
* `ChattersAreListed`: `ChattersInside` (a peer told that it is in a room has a room
  code, all the way from `setRoomCode` to the answer), with `NewRoom`: nobody else
  enters a room between `addRoom` and the creator's `joinRoom`. With two workers
  somebody can, and fill it, and `handleCreateRoom` answers OK all the same.
* `BroadcastsStayInside`: `Real` (descriptors name the connections they named when a
  packet was read), `Guests` (whoever is on a list was admitted) and `Targets` (so was
  whoever is on the copy a broadcast works through).

The hypotheses are about constants. `PositiveLimits` says that no room is asked for
with a limit that is 0 once converted: `handleCreateRoom` passes on any `int`, and a
room with limit 0 admits nobody, not even its creator, and is never deleted. No
disconnects is `Leavers = {}`. "Orderly peers" is what the shipped client is until an
answer is mixed up, which a broadcast that overtakes the answer to its JOIN is enough
for (`RoomHandler.cpp:156`); it offers limits from 2 to 10.

`ChatClientProofs`, for all rooms, broadcasts and bounds (`ClientAssumption`). The
inductive invariant `Inv` is the types, `LobbyReadsAlone`, and `HeaderInHand`: while
the connection is open, a header whose payload is still to come is in a thread's
hands.

* `TypeCorrect`, `OneReader` (`LobbyReadsAlone`: also that no receiver thread is
  assigned over) and `ClosesForCause` (`ClosedForCause`).

`ClientPromisesProofs` proves what the client and the server know of each other.
`DialogueInv` holds as long as nothing was mixed up and the connection is open:
`InStep` (at most one thread is between its two calls, and it has the next header),
`Placed` and `Outside` (where in the dialogue the client has a room, and where the
server has it in none) and `OneAnswer`: while the input thread waits there is exactly
one answer to come, which is asked for (`Pending`), made (`Made`) or delivered
(`Delivered`) and fits the request and the server's idea of the client's room;
otherwise there is none.

* `RoomsAgree` (`RoomAgrees`): the room code the client keeps is that of the room the
  server has it in, or, if that is none, of the room it was last told it has and never
  entered. So a client whose code is not its room was told so by the server.
* `ClientImplementsOrderlyPeer` (`ClientIsOrderly`): every step of the client is a
  step of `OrderlyPeer` or a stutter. With this, `Orderly`, the hypothesis of
  `AnswersFindTheAsker` and `ClientsAreListed`, is what the shipped client does until a
  broadcast is taken for an answer. The two specifications are not composed into
  one; the link is the module both name.
* `NewsInOrder` (`DisplayedInOrder`): what was displayed is what a recursive function
  (`News`) makes of all packets read. `Tells(s, n, lost, e)` says that the function is
  defined up to `n` and gives `e`; `TellsMore` and `TellsSame` say how it changes when
  one packet more is read, and that packets read by the wrong thread, or delivered
  later, change nothing before them. `DisplayInv` is `InStep`, `Mistaken` (the
  numbers in `wrong` are those of packets already read) and `Told`; `Numbered` is that
  no two packets have one number.

`PacketRelayProofs`, for every number of workers, packets and sizes
(`RelayAssumption`): `OvertakingIsBounded` (`FewOvertaken`). `RelayInv` is weak types,
`InOrder` (the queue holds the packets parsed and not yet taken, in order) and
`Served`: each packet taken was begun once, or is untouched in the hands of one
worker. So whoever overtakes a packet has left it with a worker of its own, and there
are fewer of those than workers (`OvertakenAreHeld`).

`RelayFramingProofs`, under the same assumptions, is about the cells themselves:

* `ServerFraming` (`Framed`). `Underway(sent, parsed, buffer, rest)` says that the cells
  parsed, in the buffer and still on their way are those of the packets sent, in
  order. Parsing takes the next packet sent off the front, never a part of one.
* `ParsedAtOnce` (`NothingHeldBack`): the loop of `parsePackets` ends only when what is
  left is less than the packet its header announces.
* `DeliveredAsSent` (`ReadAsSent`): while no two sends overlapped, `Faithful` says that
  the cells in the reader's hands, on the downlink, and still with the one worker in
  mid-packet are the wire form of the packets begun and not yet read.
* `RelayTypeCorrect` (`TypeOK`): the bounds on the buffers follow from the above.

The wire form of a sequence of packets is a fold (`FlattenSeq`). Its equations are
proved by induction on the length. The library's induction theorems take a
predicate as parameter; `Induction` here takes a set of numbers, and follows from
finite sets being well-founded under strict inclusion.

Between them, the theorems state every invariant and every action property of the
passing runs, and both refinements. Only model-checked:

* liveness: `EveryTaskRuns`, `RequestsAnswered`, `LobbyRequestsReturn`,
  `HangUpEndsClient`, `EverythingArrives`, which are out of the prover's reach;
* all violations: each is a counterexample.

## Not modelled

* `Env`, the loggers and `Utils`: configuration read once, and output. No later
  behaviour depends on them but through the port and the limits, which are
  constants here.
* `ClientManager::removeNickname` and `RoomManager::removeRoom` have no callers,
  `broadcastPacket`, `PacketSender::broadcast` and `getAllAuthenticatedClientFds` are
  used by nobody else; `ui/ChatClient.cpp` is an earlier client that `main.cpp` does
  not use.
* A nickname registered over an older one leaves the old one taken
  (`ClientManager.cpp:54`). The model has it; no run asks about it, since the shipped
  client registers once.
* Packets larger than `MAX_PAYLOAD_SIZE`. `PacketReceiver.cpp:40-53` takes the size from
  the header, up to 65535, waits for that many bytes and copies them into a `Packet`
  of 1028 on the stack; what a program that sends such a packet makes of the server is
  not described by any module. `ChatServer` and `PacketRelay` have senders that keep to
  the limit, and so do the theorems, those for any peers included.
* The bytes two workers interleave on one descriptor, past the moment they
  overlap: what the reader then makes of them is in `PacketRelay`, unclaimed.
* A machine whose `hardware_concurrency()` is 0 (`Server.cpp:34`): the pool then has
  no workers and runs nothing.
* Failing to create a worker thread in the middle of `ThreadPool`'s constructor.
* The JSON library is third-party code; `MessageHandler`'s `std::localtime` uses a
  static buffer shared by the workers, which affects only the timestamp's text.

## Plan

Done: the pool and its refinement; the server, the client, the refinement of the peer
the server assumes; the wire; the server's life; and theorems for all invariants
the runs check. What is left, in this order:

1. An abstract specification of rooms (who is in which room, changed atomically)
   that `ChatServer` refines for orderly peers that stay, as `ClientsAreListed` and
   `OneRoomPerClient` suggest, and the proof of it.
2. Theorems about `ServerLife`: the descriptors it opens are closed, and what its
   threads touch still exists, for every number of workers.
3. `ChatServer` composed with several `ChatClient`s in one specification.
4. `Env`: parsing of `key=value` lines against a reference definition.
