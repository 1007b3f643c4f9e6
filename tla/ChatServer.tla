----------------------------- MODULE ChatServer -----------------------------
(***************************************************************************)
(* The chat server: peers, the I/O thread (epoll, accept, receive, close), *)
(* the client and room directories, and the packet handlers run by the     *)
(* worker threads.  A critical section, a system call or a read of data    *)
(* another thread may be changing is a step of its own; the pool is        *)
(* TaskPool's: a FIFO of packets whose head any idle worker takes.         *)
(*                                                                         *)
(* Data are abstracted to what the handlers test: a packet is its type and *)
(* one argument, a socket's send buffer is a count of unread packets.      *)
(* `joined' is the only history variable.                                  *)
(***************************************************************************)
EXTENDS Integers, Sequences, FiniteSets, Functions

CONSTANTS
  Conns,       \* the TCP connections peers may open
  Fds,         \* the descriptors accept() may return
  Workers,     \* the threads of the pool
  Cells,       \* the heap cells a ClientInfo may occupy
  Codes,       \* what generateRoomCode may draw
  Nicks,       \* nicknames
  maxRoomCnt,  \* MAX_ROOM_CNT
  SizeMod,     \* 2^(bits of size_t)
  Requests,    \* the packets a peer may send, all within MAX_PAYLOAD_SIZE
  Leavers,     \* the connections whose peer may hang up
  Readers,     \* the connections whose peer keeps reading what it is sent
  Orderly,     \* peers ask one thing at a time, and only what they may ask
  MaxSends,    \* bound: packets sent by all peers together
  SendCap,     \* packets a socket buffers for a peer that does not read
  Listener, Malformed, NoConn, NoFd, NoCell, NoCode, NoNick, NoRoom, NoTask

RequestTypes == {"REGISTER", "CREATE", "JOIN", "EXIT", "MESSAGE", "UNKNOWN"}

(* The argument of a request: a name, a limit, a code, or nothing.         *)
Arguments(type) == CASE type = "REGISTER" -> Nicks
                     [] type = "CREATE" -> Int
                     [] type = "JOIN" -> Codes
                     [] OTHER -> {NoCode}

(* A packet on its way through the pool remembers its connection; the      *)
(* server only has the descriptor.                                         *)
Packet(fd, c, q) == [fd |-> fd, conn |-> c, type |-> q.type, arg |-> q.arg]

Packets == {Packet(fd, c, q) : fd \in Fds, c \in Conns, q \in Requests}

ASSUME ServerAssumption ==
  /\ IsFiniteSet(Fds) /\ IsFiniteSet(Cells) /\ IsFiniteSet(Codes)
  /\ Cardinality(Fds) <= Cardinality(Cells)
  /\ NoConn \notin Conns /\ NoFd \notin Fds /\ NoCell \notin Cells
  /\ NoCode \notin Codes /\ NoNick \notin Nicks /\ Listener \notin Fds \cup {NoFd}
  /\ maxRoomCnt \in Nat /\ SizeMod \in Nat \ {0} /\ SendCap \in Nat \ {0}
  /\ \A q \in Requests : q.type \in RequestTypes /\ (q.arg = Malformed \/ q.arg \in Arguments(q.type))
  /\ NoTask \notin Packets
  /\ MaxSends \in Nat /\ Orderly \in BOOLEAN /\ Leavers \subseteq Conns /\ Readers \subseteq Conns

Rooms == [maxUserCnt : Int, clients : Seq(Fds)]

ASSUME RoomAssumption == NoRoom \notin Rooms

VARIABLES
  peer,         \* peer[c]: what the remote end of connection c is doing
  pending,      \* connections waiting in the listen queue
  wire,         \* wire[c]: packets the peer sent and the server has not read
  unread,       \* unread[c]: packets buffered towards the peer
  sends,        \* packets sent by peers so far
  socket,       \* socket[fd]: the connection behind an open descriptor
  batch,        \* events of the current epoll_wait not handled yet
  adding,       \* the descriptor acceptNewConnection is about to register
  closing,      \* the descriptor closeConnection is about to close
  m_clients,    \* ClientManager::m_clients: the cell of each client
  info,         \* info[x]: the ClientInfo in cell x, stale once erased
  m_nicknames,  \* ClientManager::m_nicknames
  rooms,        \* RoomManager::rooms
  queue,        \* the thread pool's queue
  pc,           \* pc[w]: the next step of worker w
  task,         \* task[w]: the packet it handles, and for which descriptor
  ptr,          \* its ClientInfo* local
  code,         \* its roomCode local, then the room it broadcasts to
  todo,         \* the descriptors its broadcast loop still has to serve
  response,     \* the kind of response it will send
  status,       \* "up", "killed" by a signal or "corrupt" by a dangling use
  joined        \* history: the rooms each connection was ever admitted to

peerVars   == <<peer, pending, wire, unread, sends>>
ioVars     == <<socket, batch, adding, closing>>
clientVars == <<m_clients, info, m_nicknames>>
roomVars   == <<rooms, joined>>
workVars   == <<pc, task, ptr, code, todo, response>>
vars == <<peerVars, ioVars, clientVars, roomVars, workVars, queue, status>>

-----------------------------------------------------------------------------
Blank == [nickname |-> NoNick, isAuthenticated |-> FALSE, roomCode |-> NoCode]

Open == {fd \in Fds : socket[fd] # NoConn}
Live == {m_clients[fd] : fd \in Fds} \ {NoCell}
Used == {r \in Codes : rooms[r] # NoRoom}

Connected(c) == peer[c] \in {"anon", "lobby", "chat", "waiting"}

Goto(w, l) == pc' = [pc EXCEPT ![w] = l]

Init ==
  /\ peer = [c \in Conns |-> "off"]
  /\ pending = {}
  /\ wire = [c \in Conns |-> <<>>]
  /\ unread = [c \in Conns |-> 0]
  /\ sends = 0
  /\ socket = [fd \in Fds |-> NoConn]
  /\ batch = {} /\ adding = NoFd /\ closing = NoFd
  /\ m_clients = [fd \in Fds |-> NoCell]
  /\ info = [x \in Cells |-> Blank]
  /\ m_nicknames = {}
  /\ rooms = [r \in Codes |-> NoRoom]
  /\ queue = <<>>
  /\ pc = [w \in Workers |-> "idle"]
  /\ task = [w \in Workers |-> NoTask]
  /\ ptr = [w \in Workers |-> NoCell]
  /\ code = [w \in Workers |-> NoCode]
  /\ todo = [w \in Workers |-> <<>>]
  /\ response = [w \in Workers |-> "none"]
  /\ status = "up"
  /\ joined = [c \in Conns |-> {}]

(* Nothing happens once the process is dead.                               *)
StaysUp == status = "up" /\ UNCHANGED status

-----------------------------------------------------------------------------
(* Peers: any program that speaks the protocol and keeps to its packet     *)
(* size, or (Orderly) the shipped client, which registers, then creates or *)
(* joins a room from the lobby, then chats or exits, and waits for the     *)
(* answer to what it asked.  It sends nothing the server does not know.    *)
Asks(c, type) ==
  IF ~Orderly THEN Connected(c)
  ELSE peer[c] = CASE type = "REGISTER" -> "anon"
                   [] type \in {"CREATE", "JOIN"} -> "lobby"
                   [] type \in {"EXIT", "MESSAGE"} -> "chat"
                   [] OTHER -> "never"

Connect(c) == /\ peer[c] = "off"
              /\ peer' = [peer EXCEPT ![c] = "anon"]
              /\ pending' = pending \cup {c}
              /\ UNCHANGED <<wire, unread, sends, ioVars, clientVars, roomVars, workVars, queue>> /\ StaysUp

Send(c, q) == /\ sends < MaxSends
              /\ Asks(c, q.type)
              /\ sends' = sends + 1
              /\ wire' = [wire EXCEPT ![c] = Append(@, q)]
              /\ peer' = [peer EXCEPT ![c] = IF q.type \in {"MESSAGE", "UNKNOWN"} THEN @ ELSE "waiting"]
              /\ UNCHANGED <<pending, unread, ioVars, clientVars, roomVars, workVars, queue>> /\ StaysUp

Read(c) == /\ unread[c] > 0
           /\ unread' = [unread EXCEPT ![c] = @ - 1]
           /\ UNCHANGED <<peer, pending, wire, sends, ioVars, clientVars, roomVars, workVars, queue>> /\ StaysUp

Disconnect(c) == /\ c \in Leavers
                 /\ Connected(c)
                 /\ Orderly => peer[c] # "waiting"
                 /\ peer' = [peer EXCEPT ![c] = "gone"]
                 /\ unread' = [unread EXCEPT ![c] = 0]
                 /\ UNCHANGED <<pending, wire, sends, ioVars, clientVars, roomVars, workVars, queue>> /\ StaysUp

-----------------------------------------------------------------------------
(* The I/O thread: epoll_wait fills a batch, the callback handles one      *)
(* event after the other.                                                  *)
\* Faulty: an event for a socket that has nothing to read.
AnyOpen(fd) == socket[fd] # NoConn

Readable(fd) == /\ socket[fd] # NoConn
                /\ wire[socket[fd]] # <<>> \/ peer[socket[fd]] = "gone"

EpollWait == /\ batch = {} /\ adding = NoFd /\ closing = NoFd
             /\ batch' = {fd \in Fds : Readable(fd)}
                           \cup (IF pending = {} THEN {} ELSE {Listener})
             /\ batch' # {}
             /\ UNCHANGED <<peerVars, socket, adding, closing, clientVars, roomVars, workVars, queue>> /\ StaysUp

Handling(e) == e \in batch /\ adding = NoFd /\ closing = NoFd

(* accept() returns a free descriptor, which goes non-blocking into epoll. *)
Accept(c, fd) == /\ Handling(Listener)
                 /\ c \in pending /\ fd \notin Open
                 /\ pending' = pending \ {c}
                 /\ socket' = [socket EXCEPT ![fd] = c]
                 /\ adding' = fd
                 /\ batch' = batch \ {Listener}
                 /\ UNCHANGED <<peer, wire, unread, sends, closing, clientVars, roomVars, workVars, queue>> /\ StaysUp

(* accept() fails for want of a descriptor, or addFd fails and the new     *)
(* socket is closed at once.                                               *)
AcceptFails == /\ Handling(Listener)
               /\ Open = Fds
               /\ batch' = batch \ {Listener}
               /\ UNCHANGED <<peerVars, socket, adding, closing, clientVars, roomVars, workVars, queue>> /\ StaysUp

AddFdFails(c) == /\ Handling(Listener)
                 /\ c \in pending /\ Open # Fds
                 /\ pending' = pending \ {c}
                 /\ peer' = [peer EXCEPT ![c] = "dropped"]
                 /\ batch' = batch \ {Listener}
                 /\ UNCHANGED <<wire, unread, sends, socket, adding, closing, clientVars, roomVars, workVars, queue>> /\ StaysUp

(* addClient: m_clients[fd] = {fd, ip, "", false, {}}, in a new map node   *)
(* unless the descriptor has one already.                                  *)
AddClient(x) == /\ adding # NoFd
                /\ IF m_clients[adding] # NoCell THEN x = m_clients[adding] ELSE x \notin Live
                /\ m_clients' = [m_clients EXCEPT ![adding] = x]
                /\ info' = [info EXCEPT ![x] = Blank]
                /\ adding' = NoFd
                /\ UNCHANGED <<m_nicknames, peerVars, socket, batch, closing, roomVars, workVars, queue>> /\ StaysUp

(* receiveAndParse: what was read is enqueued packet by packet.  Requests  *)
(* are packets within MAX_PAYLOAD_SIZE, which the sender sees to           *)
(* (NetworkClient.cpp:91): the server copies what the header says.         *)
Receive(fd, n) == /\ Handling(fd)
                  /\ m_clients[fd] # NoCell
                  /\ n \in 1 .. Len(wire[socket[fd]])
                  /\ queue' = queue \o [i \in 1 .. n |-> Packet(fd, socket[fd], wire[socket[fd]][i])]
                  /\ wire' = [wire EXCEPT ![socket[fd]] = SubSeq(@, n + 1, Len(@))]
                  /\ batch' = batch \ {fd}
                  /\ UNCHANGED <<peer, pending, unread, sends, socket, adding, closing, clientVars, roomVars, workVars>> /\ StaysUp

(* receive() finds no client, end of file or EAGAIN: closeConnection takes *)
(* the client out of the directory and leaves its room as it is.           *)
\* Faulty: the client stays in the directory, or its nickname in the table.
KeepClient(fd) == UNCHANGED <<m_clients, m_nicknames>>

LeakNickname(fd) == m_clients' = [m_clients EXCEPT ![fd] = NoCell] /\ UNCHANGED m_nicknames

RemoveClient(fd) ==
  LET x == m_clients[fd] IN
  /\ m_clients' = [m_clients EXCEPT ![fd] = NoCell]
  /\ m_nicknames' = IF x # NoCell /\ info[x].isAuthenticated
                      THEN m_nicknames \ {info[x].nickname} ELSE m_nicknames

HangUp(fd) == /\ Handling(fd)
              /\ m_clients[fd] = NoCell \/ wire[socket[fd]] = <<>>
              /\ RemoveClient(fd)
              /\ closing' = fd
              /\ batch' = batch \ {fd}
              /\ UNCHANGED <<info, peerVars, socket, adding, roomVars, workVars, queue>> /\ StaysUp

(* removeFd and close(fd): the number is free for the next accept().       *)
Close == /\ closing # NoFd
         /\ socket' = [socket EXCEPT ![closing] = NoConn]
         /\ peer' = IF Connected(socket[closing])
                      THEN [peer EXCEPT ![socket[closing]] = "dropped"] ELSE peer
         /\ closing' = NoFd
         /\ UNCHANGED <<pending, wire, unread, sends, batch, adding, clientVars, roomVars, workVars, queue>> /\ StaysUp

-----------------------------------------------------------------------------
(* Worker steps.  A handler that returns gives up its locals.              *)
Idle(w) == /\ Goto(w, "idle")
           /\ task' = [task EXCEPT ![w] = NoTask]
           /\ ptr' = [ptr EXCEPT ![w] = NoCell]
           /\ code' = [code EXCEPT ![w] = NoCode]
           /\ todo' = [todo EXCEPT ![w] = <<>>]
           /\ response' = [response EXCEPT ![w] = "none"]

Answer(w, b) == /\ Goto(w, "reply")
                /\ response' = [response EXCEPT ![w] = b]

(* PacketHandler's table; what is not in it is logged and dropped.         *)
Entry == [REGISTER |-> "isNicknameTaken", CREATE |-> "addRoom",
          JOIN |-> "getClient", EXIT |-> "getClient", MESSAGE |-> "getClient"]

Unparsable(q) == q.arg = Malformed /\ q.type \in {"REGISTER", "CREATE", "JOIN"}

Handle(w) ==
  /\ pc[w] = "idle" /\ queue # <<>>
  /\ queue' = Tail(queue)
  /\ LET q == Head(queue) IN
     IF q.type \notin DOMAIN Entry
       THEN UNCHANGED workVars
       ELSE /\ task' = [task EXCEPT ![w] = q]
            /\ IF Unparsable(q) THEN Answer(w, "FAIL") ELSE Goto(w, Entry[q.type]) /\ UNCHANGED response
            /\ UNCHANGED <<ptr, code, todo>>
  /\ UNCHANGED <<peerVars, ioVars, clientVars, roomVars>> /\ StaysUp

(* NicknameHandler: the test and the update are two critical sections.     *)
\* Faulty: no test for duplicates, or no response to one.
TakeAnyNickname(w) ==
  /\ pc[w] = "isNicknameTaken"
  /\ Goto(w, "setNickname")
  /\ UNCHANGED <<response, task, ptr, code, todo, peerVars, ioVars, clientVars, roomVars, queue>> /\ StaysUp

IgnoreDuplicate(w) ==
  /\ pc[w] = "isNicknameTaken"
  /\ IF task[w].arg \in m_nicknames THEN Idle(w) ELSE Goto(w, "setNickname") /\ UNCHANGED <<response, task, ptr, code, todo>>
  /\ UNCHANGED <<peerVars, ioVars, clientVars, roomVars, queue>> /\ StaysUp

IsNicknameTaken(w) ==
  /\ pc[w] = "isNicknameTaken"
  /\ IF task[w].arg \in m_nicknames THEN Answer(w, "FAIL") ELSE Goto(w, "setNickname") /\ UNCHANGED response
  /\ UNCHANGED <<task, ptr, code, todo, peerVars, ioVars, clientVars, roomVars, queue>> /\ StaysUp

SetNickname(w) ==
  LET x == m_clients[task[w].fd] IN
  /\ pc[w] = "setNickname"
  /\ IF x = NoCell
       THEN UNCHANGED <<info, m_nicknames>>
       ELSE /\ info' = [info EXCEPT ![x].nickname = task[w].arg, ![x].isAuthenticated = TRUE]
            /\ m_nicknames' = m_nicknames \cup {task[w].arg}
  /\ Answer(w, "OK")
  /\ UNCHANGED <<m_clients, task, ptr, code, todo, peerVars, ioVars, roomVars, queue>> /\ StaysUp

(* RoomManager::addRoom.                                                   *)
\* Faulty: one room too many.
CanAddOneMore == Cardinality(Used) <= maxRoomCnt /\ Used # Codes

CanAddRoom == Cardinality(Used) < maxRoomCnt /\ Used # Codes

AddRoom(w) ==
  /\ pc[w] = "addRoom"
  /\ \/ ~CanAddRoom /\ Answer(w, "FAIL") /\ UNCHANGED <<rooms, code>>
     \/ /\ CanAddRoom
        /\ \E r \in Codes \ Used :
             /\ rooms' = [rooms EXCEPT ![r] = [maxUserCnt |-> task[w].arg, clients |-> <<>>]]
             /\ code' = [code EXCEPT ![w] = r]
        /\ Goto(w, "getClient") /\ UNCHANGED response
  /\ UNCHANGED <<joined, task, ptr, todo, peerVars, ioVars, clientVars, queue>> /\ StaysUp

(* getClient hands out a pointer that outlives the critical section.       *)
\* Faulty: no test for a null pointer.
UncheckedClient(w) ==
  /\ pc[w] = "getClient"
  /\ ptr' = [ptr EXCEPT ![w] = m_clients[task[w].fd]]
  /\ Goto(w, IF task[w].type = "CREATE" THEN "joinRoom" ELSE "checkClient")
  /\ UNCHANGED <<task, code, todo, response, peerVars, ioVars, clientVars, roomVars, queue>> /\ StaysUp

GetClient(w) ==
  LET x == m_clients[task[w].fd] IN
  /\ pc[w] = "getClient"
  /\ IF x = NoCell
       THEN CASE task[w].type = "CREATE"  -> Answer(w, "OK") /\ UNCHANGED <<task, ptr, code, todo>>
              [] task[w].type = "MESSAGE" -> Idle(w)
              [] OTHER                    -> Answer(w, "FAIL") /\ UNCHANGED <<task, ptr, code, todo>>
       ELSE /\ ptr' = [ptr EXCEPT ![w] = x]
            /\ Goto(w, IF task[w].type = "CREATE" THEN "joinRoom" ELSE "checkClient")
            /\ UNCHANGED <<task, code, todo, response>>
  /\ UNCHANGED <<peerVars, ioVars, clientVars, roomVars, queue>> /\ StaysUp

(* What the handlers read through the pointer before they go on.           *)
CheckClient(w) ==
  LET me == info[ptr[w]]  q == task[w] IN
  /\ pc[w] = "checkClient"
  /\ CASE q.type = "JOIN" ->
            IF me.roomCode # NoCode
              THEN Answer(w, "FAIL") /\ UNCHANGED <<task, ptr, code, todo>>
              ELSE /\ code' = [code EXCEPT ![w] = q.arg]
                   /\ Goto(w, "joinRoom") /\ UNCHANGED <<task, ptr, todo, response>>
       [] q.type = "EXIT" ->
            IF me.roomCode = NoCode
              THEN Answer(w, "FAIL") /\ UNCHANGED <<task, ptr, code, todo>>
              ELSE /\ code' = [code EXCEPT ![w] = me.roomCode]
                   /\ Goto(w, "getRoom") /\ UNCHANGED <<task, ptr, todo, response>>
       [] OTHER ->
            IF ~me.isAuthenticated \/ me.roomCode = NoCode \/ q.arg = Malformed
              THEN Idle(w)
              ELSE Goto(w, "getRoom") /\ UNCHANGED <<task, ptr, code, todo, response>>
  /\ UNCHANGED <<peerVars, ioVars, clientVars, roomVars, queue>> /\ StaysUp

(* RoomManager::joinRoom and Room::acceptNewUser: the user count is        *)
(* compared with the limit as a size_t.                                    *)
Capacity(max) == max % SizeMod

\* Faulty: one user too many, or the same user again.
AdmitsOneMore(r, fd) == /\ r \in Codes /\ rooms[r] # NoRoom
                        /\ Len(rooms[r].clients) <= Capacity(rooms[r].maxUserCnt)
                        /\ fd \notin Range(rooms[r].clients)

AdmitsAgain(r, fd) == /\ r \in Codes /\ rooms[r] # NoRoom
                      /\ Len(rooms[r].clients) < Capacity(rooms[r].maxUserCnt)

Admits(r, fd) == /\ r \in Codes /\ rooms[r] # NoRoom
                 /\ Len(rooms[r].clients) < Capacity(rooms[r].maxUserCnt)
                 /\ fd \notin Range(rooms[r].clients)

(* A refused join fails a JOIN; handleCreateRoom ignores it.               *)
\* Faulty: nobody looks at what joinRoom returned.
AlwaysOK(w) == "OK"

Refusal(w) == IF task[w].type = "CREATE" THEN "OK" ELSE "FAIL"

JoinRoom(w) ==
  LET r == code[w]  fd == task[w].fd IN
  /\ pc[w] = "joinRoom"
  /\ IF Admits(r, fd)
       THEN /\ rooms' = [rooms EXCEPT ![r].clients = Append(@, fd)]
            /\ joined' = [joined EXCEPT ![task[w].conn] = @ \cup {r}]
            /\ Goto(w, "setRoomCode") /\ UNCHANGED response
       ELSE Answer(w, Refusal(w)) /\ UNCHANGED roomVars
  /\ UNCHANGED <<task, ptr, code, todo, peerVars, ioVars, clientVars, queue>> /\ StaysUp

SetRoomCode(w) ==
  /\ pc[w] = "setRoomCode"
  /\ info' = [info EXCEPT ![ptr[w]].roomCode = code[w]]
  /\ IF task[w].type = "CREATE" THEN Answer(w, "OK") ELSE Goto(w, "getRoom") /\ UNCHANGED response
  /\ UNCHANGED <<m_clients, m_nicknames, task, ptr, code, todo, peerVars, ioVars, roomVars, queue>> /\ StaysUp

(* broadcastPacketForRoom: find the room, copy its descriptors, send to    *)
(* each but the sender.  MessageHandler passes client->roomCode itself.    *)
AfterBroadcast(w) ==
  CASE task[w].type = "MESSAGE" -> Idle(w)
    [] task[w].type = "JOIN" -> Answer(w, "OK") /\ UNCHANGED <<task, ptr, code>> /\ todo' = [todo EXCEPT ![w] = <<>>]
    [] OTHER -> Goto(w, "leaveRoom") /\ UNCHANGED <<task, ptr, code, response>> /\ todo' = [todo EXCEPT ![w] = <<>>]

Target(w) == IF task[w].type = "MESSAGE" THEN info[ptr[w]].roomCode ELSE code[w]

GetRoom(w) ==
  /\ pc[w] = "getRoom"
  /\ IF Target(w) \in Used
       THEN /\ code' = [code EXCEPT ![w] = Target(w)]
            /\ Goto(w, "copyFds") /\ UNCHANGED <<task, ptr, todo, response>>
       ELSE AfterBroadcast(w)
  /\ UNCHANGED <<peerVars, ioVars, clientVars, roomVars, queue>> /\ StaysUp

(* getClientFds copies the vector without the room's mutex.  While another *)
(* worker is inside acceptNewUser or leaveUser of that room the copy may   *)
(* repeat or miss an element; after the room was erased it reads whatever  *)
(* the node holds now: nothing, or another room.                           *)
Racing(w) == \E v \in Workers \ {w} : pc[v] \in {"joinRoom", "leaveRoom"} /\ code[v] = code[w]

Torn(s) == {s} \cup UNION {[1 .. n -> Range(s)] : n \in {Len(s), Len(s) - 1} \cap Nat}

\* Faulty: the descriptors of any room.
AnyRoom(w) == {rooms[r].clients : r \in Used}

Copies(w) ==
  IF code[w] \notin Used THEN {<<>>} \cup {rooms[r].clients : r \in Used}
  ELSE IF Racing(w) THEN Torn(rooms[code[w]].clients) ELSE {rooms[code[w]].clients}

CopyFds(w) ==
  /\ pc[w] = "copyFds"
  /\ \E copy \in Copies(w) :
       IF copy = <<>>
         THEN AfterBroadcast(w)
         ELSE /\ todo' = [todo EXCEPT ![w] = copy]
              /\ Goto(w, "send") /\ UNCHANGED <<task, ptr, code, response>>
  /\ UNCHANGED <<peerVars, ioVars, clientVars, roomVars, queue>> /\ StaysUp

(* PacketSender::send: a closed descriptor is logged and given up, a full  *)
(* socket is tried again for as long as it takes, a peer that is gone may  *)
(* or may not have answered with a reset yet.                              *)
Transmit(fd) ==
  LET c == socket[fd] IN
  IF c = NoConn THEN UNCHANGED unread
  ELSE IF ~Connected(c) THEN UNCHANGED unread
  ELSE unread[c] < SendCap /\ unread' = [unread EXCEPT ![c] = @ + 1]

SendNext(w) ==
  /\ pc[w] = "send"
  /\ IF Head(todo[w]) = task[w].fd THEN UNCHANGED unread ELSE Transmit(Head(todo[w]))
  /\ IF Len(todo[w]) > 1
       THEN todo' = [todo EXCEPT ![w] = Tail(@)] /\ UNCHANGED <<pc, task, ptr, code, response>>
       ELSE AfterBroadcast(w)
  /\ UNCHANGED <<peer, pending, wire, sends, ioVars, clientVars, roomVars, queue>> /\ StaysUp

(* RoomManager::leaveRoom and Room::leaveUser; an empty room is erased.    *)
\* Faulty: the user stays, the first user goes instead, the room is kept.
NobodyOut(s, fd) == s

FirstOut(s, fd) == Tail(s)

KeepsRoom(r, left) == [rooms[r] EXCEPT !.clients = left]

Without(s, fd) == IF fd \in Range(s)
                    THEN LET i == CHOOSE j \in DOMAIN s : s[j] = fd
                         IN SubSeq(s, 1, i - 1) \o SubSeq(s, i + 1, Len(s))
                    ELSE s

Remains(r, left) == IF left = <<>> THEN NoRoom ELSE [rooms[r] EXCEPT !.clients = left]

LeaveRoom(w) ==
  LET r == code[w] IN
  /\ pc[w] = "leaveRoom"
  /\ rooms' = IF r \in Used
                THEN [rooms EXCEPT ![r] = Remains(r, Without(rooms[r].clients, task[w].fd))]
                ELSE rooms
  /\ Goto(w, "clearRoomCode")
  /\ UNCHANGED <<joined, task, ptr, code, todo, response, peerVars, ioVars, clientVars, queue>> /\ StaysUp

ClearRoomCode(w) ==
  /\ pc[w] = "clearRoomCode"
  /\ info' = [info EXCEPT ![ptr[w]].roomCode = NoCode]
  /\ Answer(w, "OK")
  /\ UNCHANGED <<m_clients, m_nicknames, task, ptr, code, todo, peerVars, ioVars, roomVars, queue>> /\ StaysUp

(* The response ends the handler; the peer that asked knows where it is.   *)
Believes(q, b) ==
  CASE q.type = "REGISTER" -> IF b = "OK" THEN "lobby" ELSE "anon"
    [] q.type \in {"CREATE", "JOIN"} -> IF b = "OK" THEN "chat" ELSE "lobby"
    [] OTHER -> "lobby"

Reply(w) ==
  LET q == task[w]  c == socket[q.fd] IN
  /\ pc[w] = "reply"
  /\ Transmit(q.fd)
  /\ peer' = IF c # NoConn /\ c = q.conn /\ peer[c] = "waiting"
               THEN [peer EXCEPT ![c] = Believes(q, response[w])] ELSE peer
  /\ Idle(w)
  /\ UNCHANGED <<pending, wire, sends, ioVars, clientVars, roomVars, queue>> /\ StaysUp

-----------------------------------------------------------------------------
(* What ends the process.  No send passes MSG_NOSIGNAL and nothing ignores *)
(* SIGPIPE; a pointer into an erased map node may point anywhere.          *)
Sending(w) == IF pc[w] = "send" THEN Head(todo[w]) ELSE task[w].fd

BrokenPipe(w) ==
  /\ pc[w] = "reply" \/ (pc[w] = "send" /\ Head(todo[w]) # task[w].fd)
  /\ Sending(w) \in Open /\ ~Connected(socket[Sending(w)])
  /\ status = "up" /\ status' = "killed"
  /\ UNCHANGED <<peerVars, ioVars, clientVars, roomVars, workVars, queue>>

UsesClient(w) == \/ pc[w] \in {"checkClient", "setRoomCode", "clearRoomCode"}
                 \/ pc[w] = "getRoom" /\ task[w].type = "MESSAGE"

DanglingUse(w) ==
  /\ \/ UsesClient(w) /\ ptr[w] \notin Live
     \/ pc[w] = "copyFds" /\ (code[w] \notin Used \/ Racing(w))
  /\ status = "up" /\ status' = "corrupt"
  /\ UNCHANGED <<peerVars, ioVars, clientVars, roomVars, workVars, queue>>

-----------------------------------------------------------------------------
Peers == \E c \in Conns :
  Connect(c) \/ Read(c) \/ Disconnect(c) \/ \E q \in Requests : Send(c, q)

IO == \/ EpollWait \/ AcceptFails \/ Close
      \/ \E c \in Conns, fd \in Fds : Accept(c, fd)
      \/ \E c \in Conns : AddFdFails(c)
      \/ \E x \in Cells : AddClient(x)
      \/ \E fd \in Fds : HangUp(fd) \/ \E n \in 1 .. MaxSends : Receive(fd, n)

Work(w) ==
  \/ Handle(w) \/ IsNicknameTaken(w) \/ SetNickname(w) \/ AddRoom(w) \/ GetClient(w)
  \/ CheckClient(w) \/ JoinRoom(w) \/ SetRoomCode(w) \/ GetRoom(w) \/ CopyFds(w)
  \/ SendNext(w) \/ LeaveRoom(w) \/ ClearRoomCode(w) \/ Reply(w)

Dies(w) == BrokenPipe(w) \/ DanglingUse(w)

(* epoll_wait and wait_and_pop block for good when peers say nothing more. *)
Quiet == /\ queue = <<>> /\ batch = {} /\ adding = NoFd /\ closing = NoFd /\ pending = {}
         /\ \A w \in Workers : pc[w] = "idle"
         /\ \A fd \in Fds : ~Readable(fd)

Rest == (status # "up" \/ Quiet) /\ UNCHANGED vars

Next == \/ Peers \/ IO \/ Rest
        \/ \E w \in Workers : Work(w) \/ Dies(w)

Spec == Init /\ [][Next]_vars

(* The kernel schedules the threads; the readers read.                     *)
ThreadsRun == /\ WF_vars(IO)
              /\ \A w \in Workers : WF_vars(Work(w))

PeersRead == \A c \in Readers : WF_vars(Read(c))

FairSpec == Spec /\ ThreadsRun /\ PeersRead

-----------------------------------------------------------------------------
(* Types of everything the server and its peers keep.                      *)
Infos == [nickname : Nicks \cup {NoNick}, isAuthenticated : BOOLEAN,
          roomCode : Codes \cup {NoCode}]

PcLabels == {"idle", "isNicknameTaken", "setNickname", "addRoom", "getClient", "checkClient",
             "joinRoom", "setRoomCode", "getRoom", "copyFds", "send", "leaveRoom",
             "clearRoomCode", "reply"}

LocalsOK(w) ==
  /\ pc[w] = "idle" <=> task[w] = NoTask
  /\ pc[w] \in {"isNicknameTaken", "setNickname"} => task[w].arg \in Nicks
  /\ pc[w] = "addRoom" => task[w].type = "CREATE" /\ task[w].arg \in Int
  /\ pc[w] \in {"getClient", "checkClient"} /\ task[w].type = "JOIN" => task[w].arg \in Codes
  /\ pc[w] \in {"checkClient", "joinRoom", "setRoomCode", "getRoom", "copyFds", "send",
               "leaveRoom", "clearRoomCode"} => ptr[w] # NoCell
  /\ pc[w] = "send" => todo[w] # <<>>

PeerTypeOK ==
  /\ peer \in [Conns -> {"off", "anon", "lobby", "chat", "waiting", "gone", "dropped"}]
  /\ pending \subseteq Conns
  /\ wire \in [Conns -> Seq(Requests)]
  /\ unread \in [Conns -> 0 .. SendCap]
  /\ sends \in 0 .. MaxSends

IOTypeOK ==
  /\ socket \in [Fds -> Conns \cup {NoConn}]
  /\ batch \subseteq Fds \cup {Listener}
  /\ adding \in Fds \cup {NoFd}
  /\ closing \in Fds \cup {NoFd}

ClientTypeOK ==
  /\ m_clients \in [Fds -> Cells \cup {NoCell}]
  /\ info \in [Cells -> Infos]
  /\ m_nicknames \subseteq Nicks

RoomTypeOK ==
  /\ rooms \in [Codes -> Rooms \cup {NoRoom}]
  /\ joined \in [Conns -> SUBSET Codes]

WorkTypeOK ==
  /\ pc \in [Workers -> PcLabels]
  /\ task \in [Workers -> Packets \cup {NoTask}]
  /\ ptr \in [Workers -> Cells \cup {NoCell}]
  /\ code \in [Workers -> Codes \cup {NoCode}]
  /\ todo \in [Workers -> Seq(Fds)]
  /\ response \in [Workers -> {"none", "OK", "FAIL"}]
  /\ \A w \in Workers : LocalsOK(w)

TypeOK == /\ PeerTypeOK /\ IOTypeOK /\ ClientTypeOK /\ RoomTypeOK /\ WorkTypeOK
          /\ queue \in Seq(Packets)
          /\ status \in {"up", "killed", "corrupt"}

(* The I/O thread, its batch and the client directory agree: an open       *)
(* descriptor belongs to one connection and one client, an event is always *)
(* for a registered client with something to read, and only the descriptor *)
(* being accepted or closed has no client.  So no descriptor is closed     *)
(* twice and no live client's entry is overwritten                         *)
(* (ConnectionManager.cpp:11-45, EpollManager.cpp:51-67).                  *)
IOCoherent ==
  /\ adding = NoFd \/ closing = NoFd
  /\ \A fd \in Fds : m_clients[fd] # NoCell <=> fd \in Open /\ fd \notin {adding, closing}
  /\ {adding, closing} \ {NoFd} \subseteq Open
  /\ {adding, closing} \cap batch = {}
  /\ \A fd \in batch \ {Listener} : Readable(fd)
  /\ Listener \in batch => pending # {}
  /\ \A f, g \in Open : socket[f] = socket[g] => f = g
  /\ \A f \in Open : socket[f] \notin pending
  /\ \A f, g \in Fds : m_clients[f] = m_clients[g] /\ m_clients[f] # NoCell => f = g

(* The rooms keep what was promised to those who made and joined them:     *)
(* no more users than maxUserCnt, nobody twice, no more than maxRoomCnt    *)
(* rooms, whatever the workers interleave (Room.cpp:10-31, RoomManager.cpp:*)
(* 27-51,61-94).                                                           *)
RoomsSound ==
  /\ Cardinality(Used) <= maxRoomCnt
  /\ \A r \in Used : /\ IsInjective(rooms[r].clients)
                     /\ Len(rooms[r].clients) <= Capacity(rooms[r].maxUserCnt)

(* A client that asks one thing at a time and waits for the answer is      *)
(* listed in the room its ClientInfo names, except while its EXIT is       *)
(* between leaveRoom and the reset of roomCode                             *)
(* (RoomHandler.cpp:79-81,156-168,262-265).                                *)
MembershipAgrees ==
  \A fd \in Fds : m_clients[fd] # NoCell =>
    LET r == info[m_clients[fd]].roomCode IN
    r # NoCode =>
      \/ r \in Used /\ fd \in Range(rooms[r].clients)
      \/ \E w \in Workers : pc[w] = "clearRoomCode" /\ ptr[w] = m_clients[fd]

(* A request other than a chat message that is queued or handled finds the *)
(* connection it came from still behind its descriptor, so the response    *)
(* reaches the peer that asked: the pool is given a bare descriptor.  For  *)
(* peers that wait for the answer and do not disconnect before it came:    *)
(* the server does not hang up on them (Server.cpp:83-88).                 *)
AnswersReachAsker ==
  \A q \in Range(queue) \cup ({task[w] : w \in Workers} \ {NoTask}) :
    q.type # "MESSAGE" => socket[q.fd] = q.conn

(* A connection the server hangs up on was given up by its peer, and       *)
(* everything the peer had sent was read first: no spurious close on       *)
(* EAGAIN, no request lost at end of file (PacketReceiver.cpp:9-27,        *)
(* ConnectionManager.cpp:34-45).                                           *)
HangUpOnlyOnDeparted ==
  [][\A fd \in Fds : socket[fd] # NoConn /\ socket'[fd] = NoConn =>
       peer[socket[fd]] = "gone" /\ wire[socket[fd]] = <<>>]_vars

(* Two clients never hold the same nickname, with one worker: two of them  *)
(* may both find it free (NicknameHandler.cpp:31-38).                      *)
Holders == {fd \in Fds : m_clients[fd] # NoCell /\ info[m_clients[fd]].isAuthenticated}

NicknamesUnique ==
  \A f, g \in Holders : info[m_clients[f]].nickname = info[m_clients[g]].nickname => f = g

(* The table of nicknames holds exactly those of the connected clients: a  *)
(* departed client's name is free again.  With one worker and clients that *)
(* register until they succeed, then no more, and do not depart while they *)
(* wait for the answer (ClientManager.cpp:9-19,48-58).                     *)
NicknamesExact == m_nicknames = {info[m_clients[f]].nickname : f \in Holders}

(* When a room's broadcast is sent to a connection other than its sender,  *)
(* that connection itself was admitted to the room once.  With one worker, *)
(* as long as nobody disconnects: descriptors then name one connection     *)
(* each (MessageHandler.cpp:55-56, Server.cpp:105-116).                    *)
BroadcastsReachMembers ==
  \A w \in Workers : pc[w] = "send" /\ Head(todo[w]) # task[w].fd =>
    LET c == socket[Head(todo[w])] IN c # NoConn => code[w] \in joined[c]

(* When everything sent was handled, a room that still exists has someone  *)
(* in it: RoomManager.cpp:88 deletes a room nobody is in.  As long as      *)
(* nobody disconnects, which leaves the client on the list, and rooms are  *)
(* asked for from the lobby, for one user or more.                         *)
EmptyRoomsDeleted ==
  status = "up" /\ Quiet =>
    \A r \in Used : \E fd \in Fds : m_clients[fd] # NoCell /\ info[m_clients[fd]].roomCode = r

(* A client is in one room at a time, if it creates and joins rooms from   *)
(* the lobby only and nobody disconnects: a CREATE is not refused to a     *)
(* client in a room as a JOIN is (RoomHandler.cpp:62-81,144-148).          *)
OneRoomAtATime ==
  \A fd \in Open, r, s \in Used :
    fd \in Range(rooms[r].clients) \cap Range(rooms[s].clients) => r = s

(* A peer told that it is in a room, by the answer to its CREATE or JOIN,  *)
(* is listed in one.  With one worker and rooms for one user or more: the  *)
(* answer to a CREATE is the same when the creator could not enter         *)
(* (RoomHandler.cpp:75-84,156-166).                                        *)
ChattersHaveRooms ==
  \A fd \in Open : peer[socket[fd]] = "chat" =>
                      \E r \in Used : fd \in Range(rooms[r].clients)

(* No peer's departure ends the server (PacketSender.cpp:28-34 logs a      *)
(* failed send and returns).                                               *)
SurvivesDepartures == status # "killed"

(* Every request of an orderly peer is answered as long as every peer      *)
(* reads what it is sent or departs: one that does neither keeps a worker  *)
(* in PacketSender's retry, and may keep them all.  Readers has to be all  *)
(* of Conns (PacketSender.cpp:22-36).                                      *)
RequestsAnswered ==
  \A c \in Readers : peer[c] = "waiting" ~> (peer[c] # "waiting" \/ status # "up")
=============================================================================
