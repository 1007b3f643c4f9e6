--------------------------- MODULE ChatRoomsProofs ---------------------------
(***************************************************************************)
(* Theorems about what the directories hold over a whole session: the      *)
(* table of nicknames, the room a client is in, the users of a room, and   *)
(* who a broadcast reaches.                                                *)
(***************************************************************************)
EXTENDS ChatPromisesProofs

-----------------------------------------------------------------------------
(* A worker's step changes its own locals only, and no descriptor.         *)
LEMMA OtherWorkers ==
  ASSUME TypeOK, NEW w \in Workers, Work(w) \/ Dies(w), NEW v \in Workers, v # w
  PROVE  /\ pc'[v] = pc[v] /\ task'[v] = task[v] /\ ptr'[v] = ptr[v]
         /\ code'[v] = code[v] /\ todo'[v] = todo[v] /\ response'[v] = response[v]
<1>0. /\ pc \in [Workers -> PcLabels] /\ task \in [Workers -> Packets \cup {NoTask}]
      /\ ptr \in [Workers -> Cells \cup {NoCell}] /\ code \in [Workers -> Codes \cup {NoCode}]
      /\ todo \in [Workers -> Seq(Fds)] /\ response \in [Workers -> {"none", "OK", "FAIL"}]
  BY DEF TypeOK, WorkTypeOK
<1>1. CASE UNCHANGED workVars
  BY <1>1 DEF workVars
<1>2. CASE Idle(w)
  BY <1>0, <1>2 DEF Idle, Goto
<1>3. CASE Handle(w)
  BY <1>0, <1>1, <1>3 DEF Handle, Answer, Goto
<1>4. CASE IsNicknameTaken(w) \/ SetNickname(w) \/ AddRoom(w) \/ JoinRoom(w) \/ SetRoomCode(w)
             \/ LeaveRoom(w) \/ ClearRoomCode(w)
  BY <1>0, <1>4 DEF IsNicknameTaken, SetNickname, AddRoom, JoinRoom, SetRoomCode, LeaveRoom, ClearRoomCode,
                   Answer, Goto
<1>5. CASE GetClient(w) \/ CheckClient(w)
  BY <1>0, <1>2, <1>5 DEF GetClient, CheckClient, Answer, Goto
<1>6. CASE AfterBroadcast(w)
  BY <1>0, <1>2, <1>6 DEF AfterBroadcast, Answer, Goto
<1>7. CASE GetRoom(w) \/ CopyFds(w) \/ SendNext(w)
  BY <1>0, <1>6, <1>7 DEF GetRoom, CopyFds, SendNext, Goto
<1> QED
  BY <1>1, <1>2, <1>3, <1>4, <1>5, <1>7 DEF Work, Dies, Reply, BrokenPipe, DanglingUse

LEMMA WorkersKeepIO ==
  ASSUME NEW w \in Workers, Work(w) \/ Dies(w)
  PROVE  /\ UNCHANGED <<wire, pending, ioVars, m_clients>>
         /\ peer' = peer \/ Reply(w)
         /\ queue' = queue \/ Handle(w)
         /\ info' = info \/ SetNickname(w) \/ SetRoomCode(w) \/ ClearRoomCode(w)
         /\ rooms' = rooms \/ AddRoom(w) \/ JoinRoom(w) \/ LeaveRoom(w)
BY DEF Work, Dies, Handle, IsNicknameTaken, SetNickname, AddRoom, GetClient, CheckClient, JoinRoom,
       SetRoomCode, GetRoom, CopyFds, SendNext, LeaveRoom, ClearRoomCode, Reply, BrokenPipe, DanglingUse,
       peerVars, clientVars, roomVars

(* Each handler takes its own steps.                                       *)
Steps(type) ==
  CASE type = "REGISTER" -> {"isNicknameTaken", "setNickname", "reply"}
    [] type = "CREATE" -> {"addRoom", "getClient", "joinRoom", "setRoomCode", "reply"}
    [] type = "JOIN" -> {"getClient", "checkClient", "joinRoom", "setRoomCode", "getRoom", "copyFds",
                         "send", "reply"}
    [] type = "EXIT" -> {"getClient", "checkClient", "getRoom", "copyFds", "send", "leaveRoom",
                         "clearRoomCode", "reply"}
    [] type = "MESSAGE" -> {"getClient", "checkClient", "getRoom", "copyFds", "send"}
    [] OTHER -> {}

Busy(w) == task[w] # NoTask

OnRoute == \A w \in Workers : Busy(w) => pc[w] \in Steps(task[w].type)

LEMMA WorkersKeepRoutes ==
  ASSUME TypeOK, OnRoute, NEW w \in Workers, Work(w) \/ Dies(w)
  PROVE  OnRoute'
<1>0. /\ pc \in [Workers -> PcLabels] /\ task \in [Workers -> Packets \cup {NoTask}]
      /\ (pc[w] = "idle" <=> task[w] = NoTask)
  BY DEF TypeOK, WorkTypeOK, LocalsOK
<1>1. SUFFICES ASSUME Busy(w)' PROVE pc'[w] \in Steps(task'[w].type)
  BY OtherWorkers DEF OnRoute, Busy
<1>2. ~Idle(w)
  BY <1>0, <1>1 DEF Idle, Busy
<1>3. CASE UNCHANGED workVars
  BY <1>1, <1>3 DEF workVars, OnRoute, Busy
<1>4. CASE Handle(w)
  BY <1>0, <1>1, <1>3, <1>4 DEF Handle, Entry, Unparsable, Answer, Goto, Steps
<1>5. pc[w] # "idle" /\ task' = task => pc[w] \in Steps(task[w].type)
  BY <1>0 DEF OnRoute, Busy
<1>6. CASE IsNicknameTaken(w) \/ SetNickname(w)
  BY <1>0, <1>5, <1>6 DEF IsNicknameTaken, SetNickname, Answer, Goto, Steps
<1>7. CASE AddRoom(w) \/ JoinRoom(w)
  BY <1>0, <1>5, <1>7 DEF AddRoom, JoinRoom, Answer, Goto, Steps
<1>8. CASE SetRoomCode(w) \/ LeaveRoom(w) \/ ClearRoomCode(w)
  BY <1>0, <1>5, <1>8 DEF SetRoomCode, LeaveRoom, ClearRoomCode, Answer, Goto, Steps
<1>9. CASE GetClient(w)
  BY <1>0, <1>2, <1>5, <1>9 DEF GetClient, Answer, Goto, Steps
<1>10. CASE CheckClient(w)
  BY <1>0, <1>2, <1>5, <1>10 DEF CheckClient, Answer, Goto, Steps
<1>11. CASE GetRoom(w) \/ CopyFds(w) \/ SendNext(w)
  BY <1>0, <1>2, <1>5, <1>11 DEF GetRoom, CopyFds, SendNext, AfterBroadcast, Answer, Goto, Steps
<1> QED
  BY <1>2, <1>3, <1>4, <1>6, <1>7, <1>8, <1>9, <1>10, <1>11 DEF Work, Dies, Reply, BrokenPipe, DanglingUse

(* The steps of peers and of the I/O thread.                               *)
LEMMA OutsideWorkers ==
  ASSUME [Next]_vars
  PROVE  Peers \/ IO \/ UNCHANGED vars \/ (\E w \in Workers : Work(w) \/ Dies(w))
BY DEF Next, Rest

LEMMA StillWorkers ==
  ASSUME Peers \/ IO \/ UNCHANGED vars
  PROVE  UNCHANGED <<workVars, roomVars>>
BY DEF Peers, Connect, Read, Disconnect, Send, IO, EpollWait, AcceptFails, Close, Accept, AddFdFails, AddClient,
       HangUp, Receive, vars

LEMMA InitRoutes == Init => OnRoute
BY DEF Init, OnRoute, Busy

LEMMA StepRoutes == TypeOK /\ OnRoute /\ [Next]_vars => OnRoute'
<1>1. CASE Peers \/ IO \/ UNCHANGED vars
  BY <1>1, StillWorkers DEF OnRoute, Busy, workVars
<1> QED BY <1>1, OutsideWorkers, WorkersKeepRoutes

-----------------------------------------------------------------------------
(* What holds of a connection while its peer is in one of the states P,    *)
(* and while a request of one of the types T is on its way to a worker: it *)
(* belongs to U.                                                           *)
Upheld(P, T, U) ==
  /\ \A c \in Conns : peer[c] \in P => c \in U
  /\ \A c \in Conns : \A i \in 1 .. Len(wire[c]) : wire[c][i].type \in T => c \in U
  /\ \A i \in 1 .. Len(queue) : queue[i].type \in T => queue[i].conn \in U

LEMMA PeersUphold ==
  ASSUME TypeOK, NEW P, NEW T, NEW U, NEW V, Upheld(P, T, U), U \subseteq V, NEW c \in Conns,
         Connect(c) \/ Read(c) \/ Disconnect(c) \/ \E q \in Requests : Send(c, q),
         P \subseteq {"anon", "lobby", "chat"},
         \A type \in T : Asks(c, type) => peer[c] \in P,
         Connect(c) => c \in V
  PROVE  Upheld(P, T, V)'
<1>0. /\ peer \in [Conns -> {"off", "anon", "lobby", "chat", "waiting", "gone", "dropped"}]
      /\ wire \in [Conns -> Seq(Requests)]
      /\ UNCHANGED queue
  BY DEF TypeOK, PeerTypeOK, Connect, Read, Disconnect, Send
<1>1. CASE UNCHANGED wire /\ (peer' = peer \/ peer' = [peer EXCEPT ![c] = "gone"])
  BY <1>0, <1>1 DEF Upheld
<1>2. CASE Connect(c)
  BY <1>0, <1>2 DEF Connect, Upheld
<1>3. ASSUME NEW q \in Requests, Send(c, q) PROVE Upheld(P, T, V)'
  <2>1. /\ wire[c] \in Seq(Requests) /\ wire' = [wire EXCEPT ![c] = Append(@, q)]
        /\ q.type \in T => peer[c] \in P
        /\ \A d \in Conns : peer'[d] = peer[d] \/ peer'[d] = "waiting"
    BY <1>0, <1>3 DEF Send
  <2>2. /\ \A d \in Conns \ {c} : wire'[d] = wire[d]
        /\ Len(wire'[c]) = Len(wire[c]) + 1 /\ Len(wire[c]) \in Nat
        /\ \A i \in 1 .. Len(wire'[c]) : wire'[c][i] = IF i = Len(wire'[c]) THEN q ELSE wire[c][i]
    BY <1>0, <2>1, AppendProperties
  <2>3. \A i \in 1 .. Len(wire'[c]) : wire'[c][i].type \in T => c \in V
    BY <2>1, <2>2 DEF Upheld
  <2>4. \A d \in Conns : peer'[d] \in P => d \in V
    BY <2>1 DEF Upheld
  <2> QED BY <1>0, <2>2, <2>3, <2>4 DEF Upheld
<1> QED BY <1>1, <1>2, <1>3 DEF Read, Disconnect

LEMMA ReceiveUpholds ==
  ASSUME IOInv, NEW P, NEW T, NEW U, NEW V, Upheld(P, T, U), U \subseteq V,
         NEW fd \in Fds, NEW n \in 1 .. MaxSends, Receive(fd, n)
  PROVE  Upheld(P, T, V)'
<1> DEFINE c == socket[fd]
           read == [i \in 1 .. n |-> Packet(fd, c, wire[c][i])]
<1>0. /\ c \in Conns /\ wire[c] \in Seq(Requests) /\ queue \in Seq(Packets)
      /\ wire \in [Conns -> Seq(Requests)]
  BY EventFacts DEF Receive, IOInv, TypeOK, PeerTypeOK
<1>1. /\ n \in 1 .. Len(wire[c]) /\ queue' = queue \o read /\ peer' = peer
      /\ wire' = [wire EXCEPT ![c] = SubSeq(@, n + 1, Len(@))]
  BY DEF Receive
<1>2. /\ wire'[c] = SubSeq(wire[c], n + 1, Len(wire[c]))
      /\ \A d \in Conns \ {c} : wire'[d] = wire[d]
  BY <1>0, <1>1
<1>3. \A i \in 1 .. Len(wire'[c]) : n + i \in 1 .. Len(wire[c]) /\ wire'[c][i] = wire[c][n + i]
  BY <1>0, <1>1, <1>2
<1>4. read \in Seq(Packets) /\ Len(read) = n
  <2>1. \A i \in 1 .. n : wire[c][i] \in Requests
    BY <1>0, <1>1
  <2> QED BY <1>0, <1>1, <2>1, PacketType
<1>5. \A i \in 1 .. n : i \in 1 .. Len(wire[c])
  BY <1>0, <1>1
<1>6. \A i \in 1 .. Len(queue') : \/ i \in 1 .. Len(queue) /\ queue'[i] = queue[i]
                                  \/ \E k \in 1 .. n : queue'[i] = Packet(fd, c, wire[c][k])
  <2> SUFFICES ASSUME NEW i \in 1 .. Len(queue') 
               PROVE  \/ i \in 1 .. Len(queue) /\ queue'[i] = queue[i]
                      \/ \E k \in 1 .. n : queue'[i] = Packet(fd, c, wire[c][k])
    OBVIOUS
  <2>1. /\ Len(queue) \in Nat /\ Len(queue') = Len(queue) + n /\ n \in Nat
        /\ i \in 1 .. Len(queue) => queue'[i] = queue[i]
        /\ i > Len(queue) => i - Len(queue) \in 1 .. n /\ queue'[i] = read[i - Len(queue)]
    BY <1>0, <1>1, <1>4
  <2> QED BY <2>1
<1>7. \A i \in 1 .. Len(queue') : queue'[i].type \in T => queue'[i].conn \in V
  <2>1. \A k \in 1 .. n : wire[c][k].type \in T => c \in V
    BY <1>0, <1>5 DEF Upheld
  <2>2. \A q : Packet(fd, c, q).type = q.type /\ Packet(fd, c, q).conn = c
    BY DEF Packet
  <2>3. \A i \in 1 .. Len(queue) : queue[i].type \in T => queue[i].conn \in V
    BY DEF Upheld
  <2> HIDE DEF c
  <2> QED BY <1>6, <2>1, <2>2, <2>3
<1>8. \A d \in Conns : \A i \in 1 .. Len(wire'[d]) : wire'[d][i].type \in T => d \in V
  BY <1>0, <1>2, <1>3, ZenonT(30) DEF Upheld
<1> QED BY <1>1, <1>7, <1>8 DEF Upheld

LEMMA IOUpholds ==
  ASSUME IOInv, NEW P, NEW T, NEW U, NEW V, Upheld(P, T, U), U \subseteq V,
         P \subseteq {"anon", "lobby", "chat"}, IO
  PROVE  Upheld(P, T, V)'
<1>1. CASE UNCHANGED <<wire, queue>> /\ \A c \in Conns : peer'[c] \in {peer[c], "dropped"}
  BY <1>1 DEF Upheld
<1>2. peer \in [Conns -> {"off", "anon", "lobby", "chat", "waiting", "gone", "dropped"}]
  BY DEF IOInv, TypeOK, PeerTypeOK
<1>3. CASE Close \/ \E c \in Conns : AddFdFails(c)
  BY <1>1, <1>2, <1>3 DEF Close, AddFdFails
<1> QED
  BY <1>1, <1>3, ReceiveUpholds
  DEF IO, EpollWait, AcceptFails, Accept, AddClient, HangUp, peerVars

(* A worker may take away from U the connection it answers; its answer     *)
(* must be true to U.                                                      *)
LEMMA WorkersUphold ==
  ASSUME TypeOK, OneAsk, NEW P, NEW T, NEW U, NEW V, Upheld(P, T, U),
         NEW w \in Workers, Work(w) \/ Dies(w),
         "waiting" \notin P, "MESSAGE" \notin T,
         \A c \in U \ V : Engaged(w) /\ c = task[w].conn,
         Reply(w) => U \subseteq V /\ (Believes(task[w], response[w]) \in P => task[w].conn \in V)
  PROVE  Upheld(P, T, V)'
<1>0. /\ peer \in [Conns -> {"off", "anon", "lobby", "chat", "waiting", "gone", "dropped"}]
      /\ queue \in Seq(Packets) /\ wire' = wire
  BY WorkersKeepIO DEF TypeOK, PeerTypeOK
<1>1. Engaged(w) => Held(task[w]) /\ task[w] \in Packets
  BY DEF OneAsk, TasksHeld, Engaged, TypeOK, WorkTypeOK
<1>2. \A c \in Conns : peer'[c] \in P => c \in V
  <2>1. CASE peer' = peer
    BY <1>1, <2>1 DEF Held, Upheld
  <2>2. CASE Reply(w)
    BY <1>0, <2>2 DEF Reply, Upheld
  <2> QED BY <2>1, <2>2, WorkersKeepIO
<1>3. \A c \in Conns : \A i \in 1 .. Len(wire[c]) : wire[c][i].type \in T => c \in V
  BY <1>1 DEF Held, Upheld
<1>4. \A i \in 1 .. Len(queue) : queue[i].type \in T => queue[i].conn \in V
  BY DEF Upheld, OneAsk, BothApart, IsAsk
<1>5. \A i \in 1 .. Len(queue') : \E j \in 1 .. Len(queue) : queue'[i] = queue[j]
  <2>1. CASE queue' = queue
    BY <2>1
  <2>2. CASE Handle(w)
    <3>1. queue # <<>> /\ queue' = Tail(queue)
      BY <2>2 DEF Handle
    <3>2. \A i \in 1 .. Len(queue') : i + 1 \in 1 .. Len(queue) /\ queue'[i] = queue[i + 1]
      BY <1>0, <3>1, HeadTailProperties
    <3> QED BY <3>2
  <2> QED BY <2>1, <2>2, WorkersKeepIO
<1> QED BY <1>0, <1>2, <1>3, <1>4, <1>5 DEF Upheld

-----------------------------------------------------------------------------
(* Nicknames.  A peer that registers has no nickname yet, and keeps none   *)
(* until setNickname: nobody takes a second name.                          *)
Fresh == {c \in Conns : \A fd \in Holders : socket[fd] # c}

Unnamed(w) == Busy(w) /\ task[w].type = "REGISTER" /\ ~(pc[w] = "reply" /\ response[w] = "OK")

NewcomersFresh ==
  /\ Upheld({"anon"}, {"REGISTER"}, Fresh)
  /\ \A w \in Workers : Unnamed(w) => task[w].conn \in Fresh

NamesHeld == \A n \in m_nicknames : \E f \in Holders : info[m_clients[f]].nickname = n

LEMMA IOKeepsFresh == ASSUME IOInv, IO PROVE Fresh \subseteq Fresh'
<1>0. /\ TypeOK /\ IOCoherent
      /\ m_clients \in [Fds -> Cells \cup {NoCell}] /\ info \in [Cells -> Infos]
      /\ socket \in [Fds -> Conns \cup {NoConn}] /\ NoConn \notin Conns
  BY ServerAssumption DEF IOInv, TypeOK, IOTypeOK, ClientTypeOK
<1>1. CASE UNCHANGED <<socket, m_clients, info>>
  BY <1>1 DEF Fresh, Holders
<1>2. ASSUME NEW c \in Conns, NEW fd \in Fds, Accept(c, fd) PROVE Fresh \subseteq Fresh'
  <2>1. /\ UNCHANGED <<m_clients, info>> /\ m_clients[fd] = NoCell
        /\ \A g \in Fds \ {fd} : socket'[g] = socket[g]
    BY <1>0, <1>2 DEF Accept, clientVars, IOCoherent
  <2> QED BY <2>1 DEF Fresh, Holders
<1>3. ASSUME NEW x \in Cells, AddClient(x) PROVE Fresh \subseteq Fresh'
  <2>1. /\ adding \in Fds /\ m_clients[adding] = NoCell /\ x \notin Live /\ socket' = socket
        /\ \A g \in Fds : m_clients'[g] = IF g = adding THEN x ELSE m_clients[g]
        /\ \A y \in Cells : info'[y] = IF y = x THEN Blank ELSE info[y]
    BY <1>0, <1>3 DEF AddClient, IOCoherent, TypeOK, IOTypeOK
  <2>2. \A g \in Fds \ {adding} : m_clients[g] # NoCell => m_clients[g] \in Cells \ {x}
    BY <1>0, <2>1 DEF Live
  <2>3. ~Blank.isAuthenticated
    BY DEF Blank
  <2>4. Holders' \subseteq Holders
    BY <2>1, <2>2, <2>3 DEF Holders
  <2> QED BY <2>1, <2>4 DEF Fresh
<1>4. ASSUME NEW fd \in Fds, HangUp(fd) PROVE Fresh \subseteq Fresh'
  <2>1. /\ UNCHANGED <<info, socket>>
        /\ \A g \in Fds : m_clients'[g] = IF g = fd THEN NoCell ELSE m_clients[g]
    BY <1>0, <1>4 DEF HangUp, RemoveClient
  <2> QED BY <2>1 DEF Fresh, Holders
<1>5. CASE Close
  <2>1. UNCHANGED <<m_clients, info>> /\ \A g \in Fds : socket'[g] = socket[g] \/ socket'[g] = NoConn
    BY <1>0, <1>5 DEF Close, clientVars
  <2> QED BY <1>0, <2>1 DEF Fresh, Holders
<1> QED
  BY <1>1, <1>2, <1>3, <1>4, <1>5
  DEF IO, EpollWait, AcceptFails, AddFdFails, Receive, peerVars, clientVars

LEMMA WorkersKeepFresh ==
  ASSUME IOInv, OneAsk, NEW w \in Workers, Work(w) \/ Dies(w)
  PROVE  /\ \A c \in Fresh \ Fresh' : Engaged(w) /\ c = task[w].conn
         /\ ~SetNickname(w) => Fresh \subseteq Fresh'
<1>0. /\ TypeOK /\ UNCHANGED <<socket, m_clients>>
      /\ m_clients \in [Fds -> Cells \cup {NoCell}] /\ info \in [Cells -> Infos]
  BY WorkersKeepIO DEF IOInv, TypeOK, ClientTypeOK, ioVars
<1>1. CASE info' = info
  BY <1>0, <1>1 DEF Fresh, Holders
<1>2. CASE SetRoomCode(w) \/ ClearRoomCode(w)
  <2>1. ptr[w] \in Cells /\ code[w] \in Codes \cup {NoCode}
    BY <1>0, <1>2 DEF TypeOK, WorkTypeOK, LocalsOK, SetRoomCode, ClearRoomCode
  <2>2. \E r \in Codes \cup {NoCode} : info' = [info EXCEPT ![ptr[w]].roomCode = r]
    BY <1>2, <2>1 DEF SetRoomCode, ClearRoomCode
  <2>3. Holders' = Holders
    BY <1>0, <2>1, <2>2, RoomCodeOnly DEF Holders
  <2> QED BY <1>0, <2>3 DEF Fresh
<1>3. CASE SetNickname(w)
  <2> DEFINE fd == task[w].fd
  <2>1. Engaged(w) /\ task[w] \in Packets /\ fd \in Fds /\ socket[fd] = task[w].conn
    BY <1>0, <1>3, PacketFields
    DEF SetNickname, OneAsk, AskAnswered, AskSteps, TasksHeld, Held, Engaged, TypeOK, WorkTypeOK
  <2>2. info' = info \/ (m_clients[fd] \in Cells /\ \A y \in Cells \ {m_clients[fd]} : info'[y] = info[y])
    BY <1>0, <1>3, <2>1 DEF SetNickname
  <2>3. \A f \in Fds : f # fd /\ m_clients[f] # NoCell => m_clients[f] # m_clients[fd]
    BY <2>1 DEF IOInv, IOCoherent
  <2>4. Holders' \subseteq Holders \cup {fd}
    BY <1>0, <2>2, <2>3 DEF Holders
  <2> QED BY <1>0, <1>3, <2>1, <2>4 DEF Fresh
<1> QED BY <1>1, <1>2, <1>3, WorkersKeepIO

LEMMA NewcomersStayFresh ==
  ASSUME Orderly, IOInv, OneAsk, OnRoute, NewcomersFresh, [Next]_vars
  PROVE  NewcomersFresh'
<1>0. TypeOK
  BY DEF IOInv
<1>1. PICK U : U = Fresh
  OBVIOUS
<1>2. PICK V : V = Fresh'
  OBVIOUS
<1>3. Upheld({"anon"}, {"REGISTER"}, U)
  BY <1>1 DEF NewcomersFresh
<1>4. SUFFICES /\ Upheld({"anon"}, {"REGISTER"}, V)'
               /\ \A w \in Workers : Unnamed(w)' => task'[w].conn \in V
  BY <1>2 DEF NewcomersFresh, Upheld
<1>5. ASSUME U \subseteq V, UNCHANGED workVars
      PROVE  \A w \in Workers : Unnamed(w)' => task'[w].conn \in V
  BY <1>1, <1>5 DEF NewcomersFresh, Unnamed, Busy, workVars
<1>6. CASE UNCHANGED vars
  <2>1. V = U
    BY <1>1, <1>2, <1>6 DEF Fresh, Holders, vars, ioVars, clientVars
  <2>2. Upheld({"anon"}, {"REGISTER"}, V)'
    BY <1>3, <1>6, <2>1 DEF Upheld, vars, peerVars
  <2> QED BY <1>5, <1>6, <2>1, <2>2 DEF vars
<1>7. CASE IO
  <2>1. U \subseteq V
    BY <1>1, <1>2, <1>7, IOKeepsFresh
  <2>2. Upheld({"anon"}, {"REGISTER"}, V)'
    BY <1>3, <1>7, <2>1, IOUpholds
  <2> QED BY <1>5, <1>7, <2>1, <2>2, StillWorkers
<1>8. ASSUME NEW c \in Conns, Connect(c) \/ Read(c) \/ Disconnect(c) \/ \E q \in Requests : Send(c, q)
      PROVE  /\ Upheld({"anon"}, {"REGISTER"}, V)'
             /\ \A w \in Workers : Unnamed(w)' => task'[w].conn \in V
  <2>1. UNCHANGED <<ioVars, clientVars, workVars>>
    BY <1>8 DEF Connect, Read, Disconnect, Send
  <2>2. V = U
    BY <1>1, <1>2, <2>1 DEF Fresh, Holders, ioVars, clientVars
  <2>3. Connect(c) => c \in V
    BY <1>1, <2>2 DEF Connect, Fresh, Holders, IOInv, Acquainted
  <2>4. Asks(c, "REGISTER") => peer[c] \in {"anon"}
    BY DEF Asks
  <2>5. Upheld({"anon"}, {"REGISTER"}, V)'
    BY <1>0, <1>3, <1>8, <2>2, <2>3, <2>4, PeersUphold
  <2> QED BY <1>5, <2>1, <2>2, <2>5
<1>9. ASSUME NEW w \in Workers, Work(w) \/ Dies(w)
      PROVE  /\ Upheld({"anon"}, {"REGISTER"}, V)'
             /\ \A v \in Workers : Unnamed(v)' => task'[v].conn \in V
  <2>1. /\ \A c \in U \ V : Engaged(w) /\ c = task[w].conn
        /\ ~SetNickname(w) => U \subseteq V
    BY <1>1, <1>2, <1>9, WorkersKeepFresh
  <2>2. /\ pc \in [Workers -> PcLabels] /\ task \in [Workers -> Packets \cup {NoTask}]
        /\ response \in [Workers -> {"none", "OK", "FAIL"}]
        /\ (pc[w] = "idle" <=> task[w] = NoTask) /\ (Busy(w) => pc[w] \in Steps(task[w].type))
    BY <1>0 DEF TypeOK, WorkTypeOK, LocalsOK, OnRoute
  <2>3. Reply(w) => U \subseteq V /\ (Believes(task[w], response[w]) \in {"anon"} => task[w].conn \in V)
    <3> SUFFICES ASSUME Reply(w) PROVE U \subseteq V /\ (Believes(task[w], response[w]) = "anon" => task[w].conn \in V)
      OBVIOUS
    <3>1. U \subseteq V
      BY <2>1 DEF Reply, SetNickname
    <3>2. Believes(task[w], response[w]) = "anon" => Unnamed(w)
      BY <2>2 DEF Reply, Believes, Unnamed, Busy
    <3> QED BY <1>1, <3>1, <3>2 DEF NewcomersFresh
  <2>4. Upheld({"anon"}, {"REGISTER"}, V)'
    BY <1>0, <1>3, <1>9, <2>1, <2>3, WorkersUphold
  <2>5. ASSUME NEW v \in Workers, v # w, Unnamed(v)' PROVE task'[v].conn \in V
    <3>1. Unnamed(v) /\ task'[v] = task[v]
      BY <1>0, <1>9, <2>5, OtherWorkers DEF Unnamed, Busy
    <3>2. task[v].conn \in U /\ Engaged(v)
      BY <1>1, <3>1 DEF NewcomersFresh, Unnamed, Busy, Engaged, IsAsk
    <3> QED BY <2>1, <2>5, <3>1, <3>2 DEF OneAsk, TasksApart
  <2>6. ASSUME Unnamed(w)' PROVE task'[w].conn \in V
    <3>1. CASE Handle(w)
      <4>1. task'[w] = Head(queue) /\ queue # <<>> /\ Head(queue).type = "REGISTER"
        BY <2>2, <2>6, <3>1 DEF Handle, Unnamed, Busy, Entry, workVars
      <4>2. Head(queue) = queue[1] /\ 1 \in 1 .. Len(queue)
        BY <1>0, <4>1 DEF TypeOK
      <4> QED BY <1>3, <2>1, <3>1, <4>1, <4>2 DEF Upheld, Handle, SetNickname
    <3>2. CASE Dies(w)
      BY <1>5, <2>1, <2>6, <3>2 DEF Dies, BrokenPipe, DanglingUse, SetNickname, workVars, UsesClient
    <3>3. CASE IsNicknameTaken(w)
      <4>1. Unnamed(w) /\ task' = task
        BY <2>2, <2>6, <3>3 DEF IsNicknameTaken, Unnamed, Busy
      <4> QED BY <1>1, <2>1, <3>3, <4>1 DEF NewcomersFresh, IsNicknameTaken, SetNickname
    <3>4. CASE SetNickname(w)
      BY <2>2, <2>6, <3>4 DEF SetNickname, Answer, Goto, Unnamed
    <3>5. CASE Reply(w)
      BY <2>2, <2>6, <3>5 DEF Reply, Idle, Goto, Unnamed, Busy
    <3>6. CASE pc[w] \notin {"idle", "isNicknameTaken", "setNickname", "reply"} /\ (task' = task \/ Idle(w))
      BY <2>2, <2>6, <3>6 DEF Steps, Unnamed, Busy, Idle
    <3> QED
      BY <1>9, <3>1, <3>2, <3>3, <3>4, <3>5, <3>6
      DEF Work, AddRoom, GetClient, CheckClient, JoinRoom, SetRoomCode, GetRoom, CopyFds, SendNext, LeaveRoom,
          ClearRoomCode, AfterBroadcast
  <2> QED BY <2>4, <2>5, <2>6
<1> QED BY <1>6, <1>7, <1>8, <1>9, OutsideWorkers DEF Peers

(* A name that is in the table is somebody's.                              *)
LEMMA NamesStayHeld ==
  ASSUME IOInv, NameInv, NamesHeld, OneAsk, OnRoute, NewcomersFresh, [Next]_vars
  PROVE  NamesHeld'
<1>0. /\ TypeOK /\ IOCoherent
      /\ m_clients \in [Fds -> Cells \cup {NoCell}] /\ info \in [Cells -> Infos]
  BY DEF IOInv, TypeOK, ClientTypeOK
<1>1. ASSUME m_nicknames' \subseteq m_nicknames,
             \A f \in Holders : f \in Holders' /\ info'[m_clients'[f]].nickname = info[m_clients[f]].nickname
      PROVE  NamesHeld'
  BY <1>1 DEF NamesHeld
<1>2. CASE UNCHANGED clientVars
  BY <1>1, <1>2 DEF clientVars, Holders
<1>3. ASSUME NEW x \in Cells, AddClient(x) PROVE NamesHeld'
  <2>1. /\ adding \in Fds /\ m_clients[adding] = NoCell /\ x \notin Live /\ m_nicknames' = m_nicknames
        /\ \A g \in Fds : m_clients'[g] = IF g = adding THEN x ELSE m_clients[g]
        /\ \A y \in Cells : info'[y] = IF y = x THEN Blank ELSE info[y]
    BY <1>0, <1>3 DEF AddClient, IOCoherent, TypeOK, IOTypeOK
  <2>2. \A g \in Fds \ {adding} : m_clients[g] # NoCell => m_clients[g] \in Cells \ {x}
    BY <1>0, <2>1 DEF Live
  <2> QED BY <1>1, <2>1, <2>2 DEF Holders
<1>4. ASSUME NEW fd \in Fds, HangUp(fd) PROVE NamesHeld'
  <2>1. /\ m_clients[fd] # NoCell /\ info' = info
        /\ m_nicknames' = IF info[m_clients[fd]].isAuthenticated
                            THEN m_nicknames \ {info[m_clients[fd]].nickname} ELSE m_nicknames
    BY <1>4, EventFacts DEF HangUp, RemoveClient
  <2>2. \A g \in Fds : m_clients'[g] = IF g = fd THEN NoCell ELSE m_clients[g]
    BY <1>0, <1>4 DEF HangUp, RemoveClient
  <2>3. Holders' = Holders \ {fd} /\ \A f \in Holders' : m_clients'[f] = m_clients[f]
    BY <2>1, <2>2 DEF Holders
  <2>4. fd \in Holders <=> info[m_clients[fd]].isAuthenticated
    BY <2>1 DEF Holders
  <2> SUFFICES ASSUME NEW n \in m_nicknames'
               PROVE  \E f \in Holders' : info[m_clients'[f]].nickname = n
    BY <2>1 DEF NamesHeld
  <2>5. PICK f \in Holders : info[m_clients[f]].nickname = n
    BY <2>1 DEF NamesHeld
  <2>6. f # fd
    BY <2>1, <2>4, <2>5
  <2> QED BY <2>3, <2>5, <2>6
<1>5. ASSUME NEW w \in Workers, SetRoomCode(w) \/ ClearRoomCode(w) PROVE NamesHeld'
  <2>1. ptr[w] \in Cells /\ code[w] \in Codes \cup {NoCode} /\ UNCHANGED <<m_clients, m_nicknames>>
    BY <1>0, <1>5 DEF TypeOK, WorkTypeOK, LocalsOK, SetRoomCode, ClearRoomCode
  <2>2. \E r \in Codes \cup {NoCode} : info' = [info EXCEPT ![ptr[w]].roomCode = r]
    BY <1>5, <2>1 DEF SetRoomCode, ClearRoomCode
  <2>3. \A y \in Cells : info'[y].nickname = info[y].nickname /\ info'[y].isAuthenticated = info[y].isAuthenticated
    BY <1>0, <2>1, <2>2, RoomCodeOnly
  <2>4. \A f \in Holders : f \in Holders' /\ info'[m_clients'[f]].nickname = info[m_clients[f]].nickname
    BY <1>0, <2>1, <2>3 DEF Holders
  <2> QED BY <1>1, <2>1, <2>4
<1>6. ASSUME NEW w \in Workers, SetNickname(w) PROVE NamesHeld'
  <2> DEFINE fd == task[w].fd
             x == m_clients[fd]
  <2>1. /\ Engaged(w) /\ task[w] \in Packets /\ fd \in Fds /\ task[w].arg \in Nicks
        /\ socket[fd] = task[w].conn /\ task[w].conn \in Conns
    BY <1>0, <1>6, PacketFields
    DEF SetNickname, OneAsk, AskAnswered, AskSteps, TasksHeld, Held, Engaged, TypeOK, WorkTypeOK, LocalsOK
  <2>2. CASE x = NoCell
    BY <1>2, <1>6, <2>2 DEF SetNickname, clientVars
  <2>3. CASE x # NoCell
    <3>1. Unnamed(w)
      BY <1>6, <2>1 DEF SetNickname, Unnamed, Busy, OnRoute, Engaged, Steps
    <3>2. fd \notin Holders
      BY <2>1, <3>1 DEF NewcomersFresh, Fresh
    <3>3. x \in Cells /\ \A f \in Holders : m_clients[f] \in Cells \ {x}
      BY <1>0, <2>1, <2>3, <3>2 DEF Holders, IOCoherent
    <3>4. /\ info' = [info EXCEPT ![x].nickname = task[w].arg, ![x].isAuthenticated = TRUE]
          /\ m_nicknames' = m_nicknames \cup {task[w].arg} /\ m_clients' = m_clients
      BY <1>6, <2>3 DEF SetNickname
    <3>5. /\ info'[x].nickname = task[w].arg /\ info'[x].isAuthenticated
          /\ \A y \in Cells \ {x} : info'[y] = info[y]
      BY <1>0, <3>3, <3>4 DEF Infos
    <3>6. \A f \in Holders : f \in Holders' /\ info'[m_clients'[f]].nickname = info[m_clients[f]].nickname
      BY <3>3, <3>4, <3>5 DEF Holders
    <3>7. fd \in Holders' /\ info'[m_clients'[fd]].nickname = task[w].arg
      BY <2>1, <2>3, <3>4, <3>5 DEF Holders
    <3> HIDE DEF x, fd
    <3> QED BY <3>4, <3>6, <3>7, ZenonT(30) DEF NamesHeld
  <2> QED BY <2>2, <2>3
<1>7. CASE Peers \/ UNCHANGED vars
  BY <1>2, <1>7 DEF Peers, Connect, Read, Disconnect, Send, vars
<1>8. CASE IO
  BY <1>2, <1>3, <1>4, <1>8 DEF IO, EpollWait, AcceptFails, Close, Accept, AddFdFails, Receive
<1>9. ASSUME NEW w \in Workers, Work(w) \/ Dies(w) PROVE NamesHeld'
  BY <1>2, <1>5, <1>6, <1>9
  DEF Work, Dies, Handle, IsNicknameTaken, AddRoom, GetClient, CheckClient, JoinRoom,
      GetRoom, CopyFds, SendNext, LeaveRoom, Reply, BrokenPipe, DanglingUse
<1> QED BY <1>7, <1>8, <1>9, OutsideWorkers

LEMMA InitNames == Init => NewcomersFresh /\ NamesHeld
<1> SUFFICES ASSUME Init PROVE NewcomersFresh /\ NamesHeld
  OBVIOUS
<1>1. /\ \A c \in Conns : wire[c] = <<>> /\ peer[c] = "off"
      /\ queue = <<>> /\ m_nicknames = {} /\ \A w \in Workers : task[w] = NoTask
  BY DEF Init
<1> QED BY <1>1 DEF NewcomersFresh, NamesHeld, Upheld, Unnamed, Busy

(* With a single worker and clients that register once, the table holds    *)
(* exactly the names of the clients that are connected: none is taken by   *)
(* two, none is left behind (ClientManager.cpp:9-19,48-58).                *)
THEOREM SerialNicknameTable ==
  ASSUME Orderly, \A v, w \in Workers : v = w
  PROVE  Spec => []NicknamesExact
<1>1. NameInv /\ NamesHeld => NicknamesExact
  BY DEF NameInv, NamesListed, NamesHeld, NicknamesExact
<1>2. IOInv /\ OneAsk /\ OnRoute /\ NameInv /\ NewcomersFresh /\ NamesHeld /\ [Next]_vars
        => NewcomersFresh' /\ NamesHeld'
  BY NewcomersStayFresh, NamesStayHeld
<1>3. IOInv /\ OnRoute /\ [Next]_vars => OnRoute'
  BY StepRoutes DEF IOInv
<1> QED
  BY <1>1, <1>2, <1>3, IOInvariant, InitAsks, StepAsks, InitRoutes, InitNames, NamesKeptSerially, PTL DEF Spec

-----------------------------------------------------------------------------
(* The room a client is in, by its ClientInfo, and who changes it.         *)
RoomOf(fd) == IF m_clients[fd] = NoCell THEN NoCode ELSE info[m_clients[fd]].roomCode

LEMMA IOKeepsRoomOf ==
  ASSUME IOInv, IO, NEW fd \in Fds
  PROVE  RoomOf(fd)' = RoomOf(fd) \/ (HangUp(fd) /\ RoomOf(fd)' = NoCode)
<1>0. /\ TypeOK /\ IOCoherent
      /\ m_clients \in [Fds -> Cells \cup {NoCell}] /\ info \in [Cells -> Infos]
  BY DEF IOInv, TypeOK, ClientTypeOK
<1>1. CASE UNCHANGED <<m_clients, info>>
  BY <1>1 DEF RoomOf
<1>2. ASSUME NEW x \in Cells, AddClient(x) PROVE RoomOf(fd)' = RoomOf(fd)
  <2>1. /\ adding \in Fds /\ m_clients[adding] = NoCell /\ x \notin Live
        /\ \A g \in Fds : m_clients'[g] = IF g = adding THEN x ELSE m_clients[g]
        /\ \A y \in Cells : info'[y] = IF y = x THEN Blank ELSE info[y]
    BY <1>0, <1>2 DEF AddClient, IOCoherent, TypeOK, IOTypeOK
  <2>2. fd # adding /\ m_clients[fd] # NoCell => m_clients[fd] \in Cells \ {x}
    BY <1>0, <2>1 DEF Live
  <2>3. Blank.roomCode = NoCode
    BY DEF Blank
  <2> QED BY <2>1, <2>2, <2>3 DEF RoomOf
<1>3. ASSUME NEW g \in Fds, HangUp(g) PROVE RoomOf(fd)' = RoomOf(fd) \/ (g = fd /\ RoomOf(fd)' = NoCode)
  <2>1. info' = info /\ \A f \in Fds : m_clients'[f] = IF f = g THEN NoCell ELSE m_clients[f]
    BY <1>0, <1>3 DEF HangUp, RemoveClient
  <2> QED BY <2>1 DEF RoomOf
<1> QED
  BY <1>1, <1>2, <1>3 DEF IO, EpollWait, AcceptFails, Close, Accept, AddFdFails, Receive, clientVars

(* What OneAsk says of a worker with a request to answer.                  *)
LEMMA Asker ==
  ASSUME IOInv, OneAsk, NEW w \in Workers, Engaged(w)
  PROVE  /\ task[w] \in Packets /\ task[w].fd \in Fds /\ task[w].conn \in Conns
         /\ socket[task[w].fd] = task[w].conn /\ peer[task[w].conn] = "waiting"
         /\ \A fd \in Fds : socket[fd] = task[w].conn => fd = task[w].fd
         /\ \A v \in Workers : Engaged(v) /\ v # w => task[v].conn # task[w].conn /\ task[v].fd # task[w].fd
<1>1. \A v \in Workers : Engaged(v) => task[v] \in Packets /\ Held(task[v])
  BY DEF OneAsk, TasksHeld, Engaged, IOInv, TypeOK, WorkTypeOK
<1>2. task[w] \in Packets /\ task[w].fd \in Fds /\ task[w].conn \in Conns /\ task[w].conn # NoConn
  BY <1>1, PacketFields, ServerAssumption
<1>3. \A fd \in Fds : socket[fd] = task[w].conn => fd = task[w].fd
  BY <1>1, <1>2 DEF Held, IOInv, IOCoherent, Open
<1>4. \A v \in Workers : Engaged(v) /\ v # w => task[v].conn # task[w].conn
  BY DEF OneAsk, TasksApart
<1> QED BY <1>1, <1>2, <1>3, <1>4 DEF Held

LEMMA WorkersAndRoomOf ==
  ASSUME IOInv, OneAsk, PtrsCurrent, NEW w \in Workers, Work(w) \/ Dies(w), NEW fd \in Fds
  PROVE  /\ RoomOf(fd)' = RoomOf(fd) \/ ((SetRoomCode(w) \/ ClearRoomCode(w)) /\ Engaged(w) /\ fd = task[w].fd)
         /\ SetRoomCode(w) /\ fd = task[w].fd => RoomOf(fd)' = code[w]
         /\ ClearRoomCode(w) /\ fd = task[w].fd => RoomOf(fd)' = NoCode
<1>0. /\ TypeOK /\ m_clients' = m_clients
      /\ m_clients \in [Fds -> Cells \cup {NoCell}] /\ info \in [Cells -> Infos]
  BY WorkersKeepIO DEF IOInv, TypeOK, ClientTypeOK
<1>1. CASE info' = info /\ ~SetRoomCode(w) /\ ~ClearRoomCode(w)
  BY <1>0, <1>1 DEF RoomOf
<1>2. CASE SetNickname(w)
  <2>1. ~SetRoomCode(w) /\ ~ClearRoomCode(w)
    BY <1>2 DEF SetNickname, SetRoomCode, ClearRoomCode
  <2>2. CASE m_clients[task[w].fd] = NoCell
    BY <1>1, <1>2, <2>1, <2>2 DEF SetNickname
  <2>3. CASE m_clients[task[w].fd] # NoCell
    <3>1. PICK x \in Cells : info' = [info EXCEPT ![x].nickname = task[w].arg, ![x].isAuthenticated = TRUE]
      BY <1>0, <1>2, <2>3, PacketFields DEF SetNickname, TypeOK, WorkTypeOK, LocalsOK
    <3>2. \A y \in Cells : info'[y].roomCode = info[y].roomCode
      <4>1. \A y \in Cells \ {x} : info'[y] = info[y]
        BY <1>0, <3>1
      <4>2. info'[x] = [[info[x] EXCEPT !.nickname = task[w].arg] EXCEPT !.isAuthenticated = TRUE]
        BY <1>0, <3>1
      <4>3. info'[x].roomCode = info[x].roomCode
        BY <1>0, <4>2 DEF Infos
      <4> QED BY <4>1, <4>3
    <3> QED BY <1>0, <2>1, <3>2 DEF RoomOf
  <2> QED BY <2>2, <2>3
<1>3. CASE SetRoomCode(w) \/ ClearRoomCode(w)
  <2> DEFINE x == ptr[w]
             r == IF pc[w] = "setRoomCode" THEN code[w] ELSE NoCode
  <2>1. Engaged(w) /\ x \in Cells /\ x = m_clients[task[w].fd] /\ task[w].fd \in Fds /\ x # NoCell
    <3>1. Engaged(w) /\ ptr[w] \in Cells /\ ptr[w] # NoCell
      BY <1>0, <1>3, ServerAssumption
      DEF OneAsk, AskAnswered, AskSteps, SetRoomCode, ClearRoomCode, TypeOK, WorkTypeOK, LocalsOK
    <3> QED BY <3>1, Asker DEF PtrsCurrent
  <2>2. info' = [info EXCEPT ![x].roomCode = r]
    BY <1>3 DEF SetRoomCode, ClearRoomCode
  <2>3. \A y \in Cells : info'[y].roomCode = IF y = x THEN r ELSE info[y].roomCode
    BY <1>0, <2>1, <2>2 DEF Infos
  <2>4. m_clients[fd] = x => fd = task[w].fd
    BY <2>1 DEF IOInv, IOCoherent
  <2>5. RoomOf(fd)' = IF fd = task[w].fd THEN r ELSE RoomOf(fd)
    BY <1>0, <2>1, <2>3, <2>4 DEF RoomOf
  <2>6. (SetRoomCode(w) => r = code[w]) /\ (ClearRoomCode(w) => r = NoCode)
    BY DEF SetRoomCode, ClearRoomCode
  <2> QED BY <1>3, <2>1, <2>5, <2>6
<1> QED BY <1>1, <1>2, <1>3, WorkersKeepIO DEF SetNickname, SetRoomCode, ClearRoomCode

(* A peer that registers, creates or joins is in no room until             *)
(* setRoomCode, and one that was let out is in none.                       *)
Outside == {c \in Conns : \A fd \in Fds : socket[fd] = c => RoomOf(fd) = NoCode}

Unroomed(w) ==
  /\ Busy(w)
  /\ \/ task[w].type = "REGISTER"
     \/ /\ task[w].type \in {"CREATE", "JOIN"}
        /\ \/ pc[w] \in {"addRoom", "getClient", "checkClient", "joinRoom", "setRoomCode"}
           \/ pc[w] = "reply" /\ response[w] # "OK"
     \/ task[w].type = "EXIT" /\ pc[w] = "reply"

NewcomersOutside ==
  /\ Upheld({"anon", "lobby"}, {"REGISTER", "CREATE", "JOIN"}, Outside)
  /\ \A w \in Workers : Unroomed(w) => task[w].conn \in Outside

LEMMA IOKeepsOutside == ASSUME IOInv, IO PROVE Outside \subseteq Outside'
<1>0. /\ TypeOK /\ IOCoherent /\ \A fd \in Fds : RoomOf(fd)' = RoomOf(fd) \/ RoomOf(fd)' = NoCode
      /\ socket \in [Fds -> Conns \cup {NoConn}] /\ NoConn \notin Conns
  BY IOKeepsRoomOf, ServerAssumption DEF IOInv, TypeOK, IOTypeOK
<1>1. CASE UNCHANGED socket
  BY <1>0, <1>1 DEF Outside
<1>2. ASSUME NEW c \in Conns, NEW fd \in Fds, Accept(c, fd) PROVE Outside \subseteq Outside'
  <2>1. /\ m_clients' = m_clients /\ m_clients[fd] = NoCell
        /\ \A g \in Fds \ {fd} : socket'[g] = socket[g]
    BY <1>0, <1>2 DEF Accept, clientVars, IOCoherent
  <2>2. RoomOf(fd)' = NoCode
    BY <2>1 DEF RoomOf
  <2> QED BY <1>0, <2>1, <2>2 DEF Outside
<1>3. CASE Close
  <2>1. \A g \in Fds : socket'[g] = socket[g] \/ socket'[g] = NoConn
    BY <1>0, <1>3 DEF Close
  <2> QED BY <1>0, <2>1 DEF Outside
<1> QED BY <1>1, <1>2, <1>3 DEF IO, EpollWait, AcceptFails, AddClient, HangUp, AddFdFails, Receive

LEMMA WorkersKeepOutside ==
  ASSUME IOInv, OneAsk, PtrsCurrent, NEW w \in Workers, Work(w) \/ Dies(w)
  PROVE  /\ \A c \in Outside \ Outside' : Engaged(w) /\ c = task[w].conn
         /\ ~SetRoomCode(w) => Outside \subseteq Outside'
<1>0. UNCHANGED socket
  BY WorkersKeepIO DEF ioVars
<1>1. ASSUME NEW c \in Outside \ Outside' PROVE Engaged(w) /\ c = task[w].conn /\ SetRoomCode(w)
  <2>1. PICK fd \in Fds : socket[fd] = c /\ RoomOf(fd)' # NoCode /\ RoomOf(fd) = NoCode
    BY <1>0, <1>1 DEF Outside
  <2>2. Engaged(w) /\ fd = task[w].fd /\ SetRoomCode(w)
    BY <2>1, WorkersAndRoomOf
  <2> QED BY <2>1, <2>2, Asker
<1> QED BY <1>1

(* A worker's own step leads to an answer that is true.                    *)
LEMMA AnswerOutside ==
  ASSUME IOInv, OneAsk, PtrsCurrent, OnRoute, NewcomersOutside, NEW w \in Workers, Work(w) \/ Dies(w),
         Unroomed(w)'
  PROVE  task'[w].conn \in Outside'
<1>0. /\ TypeOK
      /\ pc \in [Workers -> PcLabels] /\ task \in [Workers -> Packets \cup {NoTask}]
      /\ response \in [Workers -> {"none", "OK", "FAIL"}]
      /\ (pc[w] = "idle" <=> task[w] = NoTask) /\ (Busy(w) => pc[w] \in Steps(task[w].type))
  BY DEF IOInv, TypeOK, WorkTypeOK, LocalsOK, OnRoute
<1>1. ~Idle(w)
  BY <1>0 DEF Idle, Unroomed, Busy
<1>2. ~SetRoomCode(w)
  BY <1>0 DEF SetRoomCode, Unroomed, Answer, Goto, Busy, Steps
<1>3. Outside \subseteq Outside'
  BY <1>2, WorkersKeepOutside
<1>4. ASSUME Unroomed(w), task' = task PROVE task'[w].conn \in Outside'
  BY <1>3, <1>4 DEF NewcomersOutside
<1>5. ASSUME task' = task, Engaged(w), RoomOf(task[w].fd)' = NoCode
      PROVE  task'[w].conn \in Outside'
  <2>1. UNCHANGED socket
    BY WorkersKeepIO DEF ioVars
  <2> QED BY <1>5, <2>1, Asker DEF Outside
<1>6. task[w].type = "EXIT" /\ Busy(w) => Engaged(w) /\ task[w].fd \in Fds
  BY <1>0, PacketFields DEF Engaged, IsAsk, Busy
<1>7. UNCHANGED <<m_clients, info>> => \A fd \in Fds : RoomOf(fd)' = RoomOf(fd)
  BY DEF RoomOf
<1>8. CASE Handle(w)
  <2>1. task'[w] = Head(queue) /\ queue # <<>> /\ Head(queue).type \in {"REGISTER", "CREATE", "JOIN"}
    BY <1>0, <1>8 DEF Handle, Unroomed, Unparsable, Answer, Goto, Busy, Entry, workVars
  <2>2. Head(queue) = queue[1] /\ 1 \in 1 .. Len(queue)
    BY <1>0, <2>1 DEF TypeOK
  <2> QED BY <1>3, <2>1, <2>2 DEF Upheld, NewcomersOutside
<1>9. CASE Dies(w)
  BY <1>4, <1>9 DEF Dies, BrokenPipe, DanglingUse, workVars, Unroomed, Busy
<1>10. CASE IsNicknameTaken(w) \/ SetNickname(w) \/ AddRoom(w) \/ JoinRoom(w)
  BY <1>0, <1>4, <1>10
  DEF IsNicknameTaken, SetNickname, AddRoom, JoinRoom, Answer, Goto, Unroomed, Busy, Steps
<1>11. CASE GetClient(w)
  <2>1. task' = task /\ pc[w] = "getClient" /\ UNCHANGED <<m_clients, info>>
    BY <1>1, <1>11 DEF GetClient, clientVars
  <2>2. Unroomed(w) \/ (task[w].type = "EXIT" /\ Busy(w) /\ m_clients[task[w].fd] = NoCell)
    BY <1>0, <1>11, <2>1 DEF GetClient, Unroomed, Busy, Steps, Answer, Goto
  <2> QED BY <1>4, <1>5, <1>6, <1>7, <2>1, <2>2 DEF RoomOf
<1>12. CASE CheckClient(w)
  <2>1. task' = task /\ pc[w] = "checkClient" /\ UNCHANGED <<m_clients, info>>
    BY <1>1, <1>12 DEF CheckClient, clientVars
  <2>2. Unroomed(w) \/ (task[w].type = "EXIT" /\ Busy(w) /\ info[ptr[w]].roomCode = NoCode)
    BY <1>0, <1>12, <2>1 DEF CheckClient, Unroomed, Busy, Steps, Answer, Goto
  <2>3. Engaged(w) => ptr[w] = m_clients[task[w].fd]
    BY <1>0, <2>1 DEF PtrsCurrent, TypeOK, WorkTypeOK, LocalsOK
  <2> QED BY <1>4, <1>5, <1>6, <1>7, <2>1, <2>2, <2>3 DEF RoomOf
<1>13. CASE GetRoom(w) \/ CopyFds(w) \/ SendNext(w)
  BY <1>0, <1>1, <1>13
  DEF GetRoom, CopyFds, SendNext, AfterBroadcast, Unroomed, Busy, Steps, Answer, Goto
<1>14. CASE LeaveRoom(w)
  BY <1>0, <1>14 DEF LeaveRoom, Unroomed, Busy, Steps, Goto
<1>15. CASE ClearRoomCode(w)
  <2>1. Busy(w) /\ task' = task /\ task[w].type = "EXIT"
    BY <1>0, <1>15 DEF ClearRoomCode, Unroomed, Busy, Steps
  <2> QED BY <1>5, <1>6, <1>15, <2>1, WorkersAndRoomOf
<1> QED
  BY <1>1, <1>2, <1>8, <1>9, <1>10, <1>11, <1>12, <1>13, <1>14, <1>15 DEF Work, Reply

LEMMA NewcomersStayOutside ==
  ASSUME Orderly, IOInv, OneAsk, PtrsCurrent, OnRoute, NewcomersOutside, [Next]_vars
  PROVE  NewcomersOutside'
<1> DEFINE P == {"anon", "lobby"}
           T == {"REGISTER", "CREATE", "JOIN"}
<1>0. TypeOK
  BY DEF IOInv
<1>1. PICK U : U = Outside
  OBVIOUS
<1>2. PICK V : V = Outside'
  OBVIOUS
<1>3. Upheld(P, T, U)
  BY <1>1 DEF NewcomersOutside
<1>4. SUFFICES /\ Upheld(P, T, V)'
               /\ \A w \in Workers : Unroomed(w)' => task'[w].conn \in V
  BY <1>2 DEF NewcomersOutside, Upheld
<1>5. ASSUME U \subseteq V, UNCHANGED workVars
      PROVE  \A w \in Workers : Unroomed(w)' => task'[w].conn \in V
  BY <1>1, <1>5 DEF NewcomersOutside, Unroomed, Busy, workVars
<1>6. CASE UNCHANGED vars
  <2>1. V = U
    BY <1>1, <1>2, <1>6 DEF Outside, RoomOf, vars, ioVars, clientVars
  <2>2. Upheld(P, T, V)'
    BY <1>3, <1>6, <2>1 DEF Upheld, vars, peerVars
  <2> QED BY <1>5, <1>6, <2>1, <2>2 DEF vars
<1>7. CASE IO
  <2>1. U \subseteq V
    BY <1>1, <1>2, <1>7, IOKeepsOutside
  <2>2. Upheld(P, T, V)'
    BY <1>3, <1>7, <2>1, IOUpholds
  <2> QED BY <1>5, <1>7, <2>1, <2>2, StillWorkers
<1>8. ASSUME NEW c \in Conns, Connect(c) \/ Read(c) \/ Disconnect(c) \/ \E q \in Requests : Send(c, q)
      PROVE  /\ Upheld(P, T, V)'
             /\ \A w \in Workers : Unroomed(w)' => task'[w].conn \in V
  <2>1. UNCHANGED <<ioVars, clientVars, workVars>>
    BY <1>8 DEF Connect, Read, Disconnect, Send
  <2>2. V = U
    BY <1>1, <1>2, <2>1 DEF Outside, RoomOf, ioVars, clientVars
  <2>3. Connect(c) => c \in V
    BY <1>1, <2>2 DEF Connect, Outside, IOInv, Acquainted
  <2>4. \A type \in T : Asks(c, type) => peer[c] \in P
    BY DEF Asks
  <2>5. Upheld(P, T, V)'
    BY <1>0, <1>3, <1>8, <2>2, <2>3, <2>4, PeersUphold
  <2> QED BY <1>5, <2>1, <2>2, <2>5
<1>9. ASSUME NEW w \in Workers, Work(w) \/ Dies(w)
      PROVE  /\ Upheld(P, T, V)'
             /\ \A v \in Workers : Unroomed(v)' => task'[v].conn \in V
  <2>1. /\ \A c \in U \ V : Engaged(w) /\ c = task[w].conn
        /\ ~SetRoomCode(w) => U \subseteq V
    BY <1>1, <1>2, <1>9, WorkersKeepOutside
  <2>2. Reply(w) => U \subseteq V /\ (Believes(task[w], response[w]) \in P => task[w].conn \in V)
    <3> SUFFICES ASSUME Reply(w)
                 PROVE  U \subseteq V /\ (Believes(task[w], response[w]) \in P => task[w].conn \in V)
      OBVIOUS
    <3>1. U \subseteq V /\ pc[w] = "reply"
      BY <2>1 DEF Reply, SetRoomCode
    <3>2. Busy(w) /\ pc[w] \in Steps(task[w].type)
      BY <1>0, <3>1 DEF OnRoute, Busy, TypeOK, WorkTypeOK, LocalsOK
    <3>3. Believes(task[w], response[w]) \in P => Unroomed(w)
      BY <3>1, <3>2 DEF Believes, Unroomed, Steps
    <3> QED BY <1>1, <3>1, <3>3 DEF NewcomersOutside
  <2>3. Upheld(P, T, V)'
    BY <1>0, <1>3, <1>9, <2>1, <2>2, WorkersUphold
  <2>4. ASSUME NEW v \in Workers, v # w, Unroomed(v)' PROVE task'[v].conn \in V
    <3>1. Unroomed(v) /\ task'[v] = task[v]
      BY <1>0, <1>9, <2>4, OtherWorkers DEF Unroomed, Busy
    <3>2. task[v].conn \in U /\ Engaged(v)
      BY <1>1, <3>1 DEF NewcomersOutside, Unroomed, Busy, Engaged, IsAsk
    <3> QED BY <2>1, <2>4, <3>1, <3>2 DEF OneAsk, TasksApart
  <2>5. Unroomed(w)' => task'[w].conn \in V
    BY <1>2, <1>9, AnswerOutside
  <2> QED BY <2>3, <2>4, <2>5
<1> QED BY <1>6, <1>7, <1>8, <1>9, OutsideWorkers DEF Peers

LEMMA OutsideKept == ASSUME Orderly PROVE Spec => []NewcomersOutside
<1>1. Init => NewcomersOutside
  <2> SUFFICES ASSUME Init PROVE NewcomersOutside
    OBVIOUS
  <2>1. /\ \A c \in Conns : wire[c] = <<>> /\ peer[c] = "off"
        /\ queue = <<>> /\ \A w \in Workers : task[w] = NoTask
    BY DEF Init
  <2> QED BY <2>1 DEF NewcomersOutside, Upheld, Unroomed, Busy
<1>2. IOInv /\ OneAsk /\ MemberInv /\ OnRoute /\ NewcomersOutside /\ [Next]_vars => NewcomersOutside'
  BY NewcomersStayOutside DEF MemberInv
<1>3. IOInv /\ OnRoute /\ [Next]_vars => OnRoute'
  BY StepRoutes DEF IOInv
<1> QED
  BY <1>1, <1>2, <1>3, IOInvariant, InitAsks, StepAsks, InitRoutes, MembersKept, PTL DEF Spec

(* A request that waits for its answer finds its client in the directory.  *)
HaveClients ==
  /\ \A i \in 1 .. Len(queue) : IsAsk(queue[i]) => m_clients[queue[i].fd] # NoCell
  /\ \A w \in Workers : Engaged(w) => m_clients[task[w].fd] # NoCell

LEMMA StepClients ==
  ASSUME IOInv, OneAsk, HaveClients, [Next]_vars
  PROVE  HaveClients'
<1>0. /\ TypeOK /\ m_clients \in [Fds -> Cells \cup {NoCell}] /\ queue \in Seq(Packets)
      /\ task \in [Workers -> Packets \cup {NoTask}]
  BY DEF IOInv, TypeOK, ClientTypeOK, WorkTypeOK
<1>1. ASSUME UNCHANGED <<queue, task>>,
             \A fd \in Fds : m_clients[fd] # NoCell => m_clients'[fd] # NoCell \/ peer[socket[fd]] = "gone"
      PROVE  HaveClients'
  <2>1. \A i \in 1 .. Len(queue) : IsAsk(queue[i]) =>
          queue[i].fd \in Fds /\ peer[socket[queue[i].fd]] = "waiting"
    BY <1>0, InQueue, PacketFields DEF OneAsk, QueueHeld, Held
  <2>2. \A w \in Workers : Engaged(w) => task[w].fd \in Fds /\ peer[socket[task[w].fd]] = "waiting"
    BY <1>0, PacketFields DEF OneAsk, TasksHeld, Held, Engaged
  <2> QED BY <1>1, <2>1, <2>2 DEF HaveClients, Engaged
<1>2. CASE Peers \/ UNCHANGED vars
  BY <1>1, <1>2 DEF Peers, Connect, Read, Disconnect, Send, vars, clientVars, workVars
<1>3. ASSUME NEW fd \in Fds, NEW n \in 1 .. MaxSends, Receive(fd, n) PROVE HaveClients'
  <2> DEFINE c == socket[fd]
             read == [i \in 1 .. n |-> Packet(fd, c, wire[c][i])]
  <2>0. /\ c \in Conns /\ wire[c] \in Seq(Requests) /\ m_clients[fd] # NoCell
        /\ n \in 1 .. Len(wire[c]) /\ queue' = queue \o read /\ UNCHANGED <<m_clients, task>>
    BY <1>0, <1>3, EventFacts DEF Receive, TypeOK, PeerTypeOK, clientVars, workVars
  <2>1. read \in Seq(Packets) /\ Len(read) = n /\ \A i \in 1 .. n : read[i].fd = fd
    <3>1. \A i \in 1 .. n : wire[c][i] \in Requests
      BY <2>0
    <3>2. \A i \in 1 .. n : read[i].fd = fd
      BY DEF Packet
    <3> QED BY <2>0, <3>1, <3>2, PacketType
  <2> HIDE DEF read
  <2>2. \A i \in 1 .. Len(queue') : \/ i \in 1 .. Len(queue) /\ queue'[i] = queue[i]
                                    \/ queue'[i].fd = fd
    BY <1>0, <2>0, <2>1
  <2> QED BY <2>0, <2>2 DEF HaveClients, Engaged
<1>4. CASE IO
  <2>1. ASSUME NEW x \in Cells, AddClient(x) PROVE HaveClients'
    <3>1. UNCHANGED <<queue, task>> /\ x # NoCell /\ m_clients' = [m_clients EXCEPT ![adding] = x]
      BY <2>1, ServerAssumption DEF AddClient, workVars
    <3> QED BY <1>0, <1>1, <3>1
  <2>2. ASSUME NEW fd \in Fds, HangUp(fd) PROVE HaveClients'
    <3>1. UNCHANGED <<queue, task>> /\ m_clients' = [m_clients EXCEPT ![fd] = NoCell]
      BY <2>2 DEF HangUp, RemoveClient, workVars
    <3>2. peer[socket[fd]] = "gone"
      BY <2>2, EventFacts DEF HangUp, Readable
    <3> QED BY <1>0, <1>1, <3>1, <3>2
  <2> QED
    BY <1>1, <1>3, <1>4, <2>1, <2>2
    DEF IO, EpollWait, AcceptFails, Close, Accept, AddFdFails, clientVars, workVars
<1>5. ASSUME NEW w \in Workers, Work(w) \/ Dies(w) PROVE HaveClients'
  <2>0. m_clients' = m_clients
    BY <1>5, WorkersKeepIO
  <2>1. CASE queue' = queue /\ ~Handle(w)
    <3>1. \A v \in Workers : task'[v] \in {task[v], NoTask}
      <4>1. task' = task \/ task' = [task EXCEPT ![w] = NoTask]
        BY <1>5, <2>1
        DEF Work, Dies, IsNicknameTaken, SetNickname, AddRoom, GetClient, CheckClient, JoinRoom, SetRoomCode,
            GetRoom, CopyFds, SendNext, LeaveRoom, ClearRoomCode, Reply, BrokenPipe, DanglingUse,
            AfterBroadcast, Idle, workVars
      <4> QED BY <1>0, <4>1
    <3> QED BY <2>0, <2>1, <3>1 DEF HaveClients, Engaged
  <2>2. CASE Handle(w)
    <3>1. /\ queue # <<>> /\ queue' = Tail(queue)
          /\ task' = task \/ task' = [task EXCEPT ![w] = Head(queue)]
      BY <2>2 DEF Handle, workVars
    <3>2. /\ Head(queue) = queue[1] /\ 1 \in 1 .. Len(queue)
          /\ \A i \in 1 .. Len(queue') : i + 1 \in 1 .. Len(queue) /\ queue'[i] = queue[i + 1]
      BY <1>0, <3>1, HeadTailProperties
    <3>3. \A v \in Workers : task'[v] = task[v] \/ task'[v] = queue[1]
      BY <1>0, <3>1, <3>2
    <3> QED BY <2>0, <3>2, <3>3 DEF HaveClients, Engaged
  <2> QED BY <1>5, <2>1, <2>2, WorkersKeepIO
<1> QED BY <1>2, <1>4, <1>5, OutsideWorkers

LEMMA ClientsThere == ASSUME Orderly PROVE Spec => []HaveClients
<1>1. Init => HaveClients
  BY DEF Init, HaveClients, Engaged
<1>2. IOInv /\ OneAsk /\ HaveClients /\ [Next]_vars => HaveClients'
  BY StepClients
<1> QED BY <1>1, <1>2, IOInvariant, InitAsks, StepAsks, PTL DEF Spec

-----------------------------------------------------------------------------
(* Rooms while nobody leaves.  No connection is closed, so no descriptor   *)
(* changes hands.                                                          *)
NobodyGone == \A c \in Conns : peer[c] # "gone"

LEMMA NobodyGoes == ASSUME Leavers = {} PROVE Spec => []NobodyGone
<1>1. Init => NobodyGone
  BY DEF Init, NobodyGone
<1>2. TypeOK /\ NobodyGone /\ [Next]_vars => NobodyGone'
  <2> SUFFICES ASSUME TypeOK, NobodyGone, [Next]_vars PROVE NobodyGone'
    OBVIOUS
  <2>0. peer \in [Conns -> {"off", "anon", "lobby", "chat", "waiting", "gone", "dropped"}]
    BY DEF TypeOK, PeerTypeOK
  <2>1. CASE \A c \in Conns : peer'[c] = peer[c] \/ peer'[c] # "gone"
    BY <2>1 DEF NobodyGone
  <2>2. CASE peer' = peer
    BY <2>1, <2>2
  <2>3. ASSUME NEW w \in Workers, Reply(w) PROVE NobodyGone'
    <3>1. Believes(task[w], response[w]) # "gone"
      BY DEF Believes
    <3> QED BY <2>0, <2>1, <2>3, <3>1 DEF Reply
  <2>4. CASE IO
    BY <2>0, <2>1, <2>2, <2>4
    DEF IO, EpollWait, AcceptFails, Close, Accept, AddFdFails, AddClient, HangUp, Receive, peerVars
  <2>5. CASE Peers
    BY <2>0, <2>1, <2>2, <2>5 DEF Peers, Connect, Read, Disconnect, Send
  <2>6. CASE UNCHANGED vars
    BY <2>2, <2>6 DEF vars, peerVars
  <2> QED BY <2>2, <2>3, <2>4, <2>5, <2>6, OutsideWorkers, WorkersKeepIO
<1> QED BY <1>1, <1>2, TypeCorrect, PTL DEF Spec

LEMMA NobodyHangsUp ==
  ASSUME IOInv, NobodyGone
  PROVE  closing = NoFd /\ \A fd \in Fds : ~HangUp(fd)
<1>1. socket \in [Fds -> Conns \cup {NoConn}] /\ (closing # NoFd => closing \in Open)
  BY DEF IOInv, TypeOK, IOTypeOK, IOCoherent
<1>2. closing = NoFd
  BY <1>1 DEF IOInv, ClosingDeparted, NobodyGone, Open
<1>3. ASSUME NEW fd \in Fds PROVE ~HangUp(fd)
  BY EventFacts DEF HangUp, Readable, NobodyGone
<1> QED BY <1>2, <1>3

LEMMA SocketsStay ==
  ASSUME IOInv, NobodyGone, [Next]_vars, NEW fd \in Fds, socket[fd] # NoConn
  PROVE  socket'[fd] = socket[fd]
<1>0. socket \in [Fds -> Conns \cup {NoConn}] /\ ~Close
  BY NobodyHangsUp DEF IOInv, TypeOK, IOTypeOK, Close
<1>1. CASE IO
  <2>1. ASSUME NEW c \in Conns, NEW f \in Fds, Accept(c, f) PROVE socket'[fd] = socket[fd]
    BY <1>0, <2>1 DEF Accept, Open
  <2> QED
    BY <1>0, <1>1, <2>1 DEF IO, EpollWait, AcceptFails, AddFdFails, AddClient, HangUp, Receive
<1>2. CASE Peers \/ UNCHANGED vars
  BY <1>2 DEF Peers, Connect, Read, Disconnect, Send, vars, ioVars
<1> QED BY <1>1, <1>2, OutsideWorkers, WorkersKeepIO DEF ioVars

(* Who joins and who leaves.                                               *)
LEMMA WithoutDrops ==
  ASSUME NEW S, NEW s \in Seq(S), NEW e
  PROVE  /\ Range(Without(s, e)) \subseteq Range(s)
         /\ IsInjective(s) => e \notin Range(Without(s, e))
<1>1. CASE e \notin Range(s)
  BY <1>1 DEF Without
<1>2. CASE e \in Range(s)
  <2> DEFINE i == CHOOSE j \in DOMAIN s : s[j] = e
  <2>1. i \in DOMAIN s /\ s[i] = e
    BY <1>2 DEF Range
  <2> DEFINE left == SubSeq(s, 1, i - 1)
             right == SubSeq(s, i + 1, Len(s))
  <2>2. Without(s, e) = left \o right
    BY <1>2 DEF Without
  <2> HIDE DEF i
  <2>3. i \in 1 .. Len(s) /\ Len(s) \in Nat
    BY <2>1
  <2>4. /\ left \in Seq(S) /\ Len(left) = i - 1
        /\ \A k \in 1 .. i - 1 : left[k] = s[k]
    BY <2>3
  <2>5. /\ right \in Seq(S) /\ Len(right) = Len(s) - i
        /\ \A k \in 1 .. Len(s) - i : right[k] = s[i + k]
    BY <2>3
  <2> HIDE DEF left, right
  <2>6. \A k \in DOMAIN (left \o right) : \E m \in 1 .. Len(s) : m # i /\ (left \o right)[k] = s[m]
    <3> SUFFICES ASSUME NEW k \in DOMAIN (left \o right)
                 PROVE  \E m \in 1 .. Len(s) : m # i /\ (left \o right)[k] = s[m]
      OBVIOUS
    <3>1. k \in 1 .. Len(s) - 1
      BY <2>3, <2>4, <2>5
    <3>2. CASE k < i
      <4>1. (left \o right)[k] = s[k] /\ k \in 1 .. Len(s) /\ k # i
        BY <2>3, <2>4, <2>5, <3>1, <3>2
      <4> QED BY <4>1
    <3>3. CASE k >= i
      <4>1. (left \o right)[k] = right[k - (i - 1)] /\ k - (i - 1) \in 1 .. Len(s) - i
        BY <2>3, <2>4, <2>5, <3>1, <3>3
      <4>2. right[k - (i - 1)] = s[k + 1] /\ k + 1 \in 1 .. Len(s) /\ k + 1 # i
        BY <2>3, <2>5, <3>1, <3>3, <4>1, SMTT(30)
      <4> QED BY <4>1, <4>2
    <3> QED BY <2>3, <3>1, <3>2, <3>3
  <2> HIDE DEF left, right
  <2>7. \A k \in 1 .. Len(s) : s[k] \in Range(s)
    BY DEF Range
  <2>8. IsInjective(s) => \A m \in 1 .. Len(s) : m # i => s[m] # e
    BY <2>1, <2>3 DEF IsInjective
  <2> QED BY <2>2, <2>6, <2>7, <2>8 DEF Range
<1> QED BY <1>1, <1>2

LEMMA WhoIsIn ==
  ASSUME TypeOK, RoomsSound, NEW w \in Workers, Work(w) \/ Dies(w), NEW fd, NEW r, InRoom(fd, r)'
  PROVE  \/ InRoom(fd, r) /\ ~(LeaveRoom(w) /\ fd = task[w].fd /\ r = code[w])
         \/ JoinRoom(w) /\ Admits(r, fd) /\ fd = task[w].fd /\ r = code[w] /\ pc'[w] = "setRoomCode"
<1>0. /\ rooms \in [Codes -> Rooms \cup {NoRoom}] /\ pc \in [Workers -> PcLabels]
      /\ r \in Codes /\ rooms'[r] # NoRoom /\ fd \in Range(rooms'[r].clients)
  BY DEF TypeOK, RoomTypeOK, WorkTypeOK, InRoom, Used
<1>1. CASE rooms' = rooms /\ ~LeaveRoom(w)
  BY <1>1 DEF InRoom, Used
<1>2. CASE AddRoom(w)
  <2>1. rooms'[r] = rooms[r] \/ Range(rooms'[r].clients) = {}
    BY <1>0, <1>2 DEF AddRoom, Range
  <2> QED BY <1>0, <1>2, <2>1 DEF InRoom, Used, AddRoom, LeaveRoom
<1>3. CASE JoinRoom(w)
  <2>1. CASE rooms'[r] = rooms[r]
    BY <1>0, <1>3, <2>1 DEF InRoom, Used, JoinRoom, LeaveRoom
  <2>2. CASE rooms'[r] # rooms[r]
    <3>1. /\ r = code[w] /\ Admits(r, task[w].fd) /\ pc' = [pc EXCEPT ![w] = "setRoomCode"]
          /\ rooms'[r] = [rooms[r] EXCEPT !.clients = Append(@, task[w].fd)]
      BY <1>0, <1>3, <2>2 DEF JoinRoom, roomVars, Goto
    <3>2. rooms[r] \in Rooms /\ rooms[r].clients \in Seq(Fds)
      BY <1>0, <3>1 DEF Admits, Rooms
    <3> DEFINE s == rooms[r].clients
    <3>3. rooms'[r].clients = Append(s, task[w].fd)
      BY <3>1, <3>2 DEF Rooms
    <3>4. fd = task[w].fd \/ fd \in Range(s)
      <4>1. s \in Seq(Fds)
        BY <3>2
      <4>2. /\ Len(Append(s, task[w].fd)) = Len(s) + 1 /\ Len(s) \in Nat
            /\ \A i \in 1 .. Len(s) + 1 :
                 Append(s, task[w].fd)[i] = IF i = Len(s) + 1 THEN task[w].fd ELSE s[i]
            /\ DOMAIN Append(s, task[w].fd) = 1 .. Len(s) + 1 /\ DOMAIN s = 1 .. Len(s)
        BY <4>1
      <4> HIDE DEF s
      <4>3. PICK i \in 1 .. Len(s) + 1 : fd = Append(s, task[w].fd)[i]
        BY <1>0, <3>3, <4>2 DEF Range
      <4> QED BY <4>2, <4>3 DEF Range
    <3> QED BY <1>0, <1>3, <3>1, <3>4 DEF InRoom, Used, Admits, JoinRoom, LeaveRoom
  <2> QED BY <2>1, <2>2
<1>4. CASE LeaveRoom(w)
  <2>1. CASE r # code[w] \/ r \notin Used
    BY <1>0, <1>4, <2>1 DEF LeaveRoom, InRoom, Used
  <2>2. CASE r = code[w] /\ r \in Used
    <3> DEFINE s == Without(rooms[r].clients, task[w].fd)
    <3>1. rooms'[r] = Remains(r, s) /\ rooms[r] \in Rooms /\ rooms[r].clients \in Seq(Fds)
      BY <1>0, <1>4, <2>2 DEF LeaveRoom, Used, Rooms
    <3>2. Range(s) \subseteq Range(rooms[r].clients) /\ task[w].fd \notin Range(s)
      BY <2>2, <3>1, WithoutDrops DEF RoomsSound
    <3>3. rooms'[r].clients = s
      <4> HIDE DEF s
      <4> QED BY <1>0, <3>1 DEF Remains, Rooms
    <3> QED BY <1>0, <2>2, <3>2, <3>3 DEF InRoom
  <2> QED BY <2>1, <2>2
<1>5. rooms' = rooms \/ AddRoom(w) \/ JoinRoom(w) \/ LeaveRoom(w)
  BY WorkersKeepIO
<1> QED BY <1>1, <1>2, <1>3, <1>4, <1>5

(* A client that leaves, leaves the room it is in; afterwards it is in     *)
(* none.  A client listed in a room has it as its room, or is about to.    *)
Leaving(w) == Busy(w) /\ task[w].type = "EXIT" /\ pc[w] \in {"getRoom", "copyFds", "send", "leaveRoom"}

LeavesOwnRoom == \A w \in Workers : Leaving(w) => code[w] = RoomOf(task[w].fd)

HasLeft == \A w \in Workers, r \in Codes : pc[w] = "clearRoomCode" => ~InRoom(task[w].fd, r)

Entering(fd, r) == \E w \in Workers : pc[w] = "setRoomCode" /\ task[w].fd = fd /\ code[w] = r

UsersKnow == \A fd \in Fds, r \in Codes : InRoom(fd, r) => RoomOf(fd) = r \/ Entering(fd, r)

LEMMA StillLeaving ==
  ASSUME IOInv, OneAsk, PtrsCurrent, OnRoute, LeavesOwnRoom, [Next]_vars
  PROVE  LeavesOwnRoom'
<1>0. /\ TypeOK
      /\ pc \in [Workers -> PcLabels] /\ task \in [Workers -> Packets \cup {NoTask}]
      /\ code \in [Workers -> Codes \cup {NoCode}]
  BY DEF IOInv, TypeOK, WorkTypeOK
<1>1. \A v \in Workers : Leaving(v) => Engaged(v)
  BY DEF Leaving, Busy, Engaged, IsAsk
<1>2. CASE UNCHANGED vars
  BY <1>2 DEF LeavesOwnRoom, Leaving, Busy, RoomOf, vars, workVars, clientVars
<1>3. CASE Peers
  <2>1. UNCHANGED <<workVars, clientVars>>
    BY <1>3 DEF Peers, Connect, Read, Disconnect, Send
  <2> QED BY <2>1 DEF LeavesOwnRoom, Leaving, Busy, RoomOf, workVars, clientVars
<1>4. CASE IO
  <2>1. UNCHANGED workVars
    BY <1>4, StillWorkers
  <2>2. \A v \in Workers : Engaged(v) => RoomOf(task[v].fd)' = RoomOf(task[v].fd)
    <3> SUFFICES ASSUME NEW v \in Workers, Engaged(v) PROVE RoomOf(task[v].fd)' = RoomOf(task[v].fd)
      OBVIOUS
    <3>1. PICK fd \in Fds : fd = task[v].fd
      BY Asker
    <3>2. ~HangUp(fd)
      BY <3>1, EventFacts, Asker DEF HangUp, Readable
    <3>3. RoomOf(fd)' = RoomOf(fd)
      BY <1>4, <3>2, IOKeepsRoomOf
    <3> QED BY <2>1, <3>1, <3>3 DEF RoomOf, workVars
  <2> QED BY <1>1, <2>1, <2>2 DEF LeavesOwnRoom, Leaving, Busy, RoomOf, workVars
<1>5. ASSUME NEW w \in Workers, Work(w) \/ Dies(w), NEW v \in Workers, Leaving(v)'
      PROVE  code'[v] = RoomOf(task[v].fd)'
  <2>1. CASE v # w
    <3>1. Leaving(v) /\ Engaged(v) /\ code'[v] = code[v] /\ task'[v] = task[v]
      BY <1>0, <1>1, <1>5, <2>1, OtherWorkers DEF Leaving, Busy
    <3>2. PICK fd \in Fds : fd = task[v].fd
      BY <3>1, Asker
    <3>3. RoomOf(fd)' = RoomOf(fd)
      BY <1>5, <2>1, <3>1, <3>2, WorkersAndRoomOf, Asker
    <3> QED BY <3>1, <3>2, <3>3 DEF LeavesOwnRoom, RoomOf
  <2>2. CASE v = w
    <3>0. (pc[w] = "idle" <=> task[w] = NoTask) /\ (Busy(w) => pc[w] \in Steps(task[w].type))
      BY <1>0 DEF TypeOK, WorkTypeOK, LocalsOK, OnRoute
    <3>1. task' = task /\ Busy(w) /\ task[w].type = "EXIT" /\ ~Idle(w)
      <4>1. CASE Handle(w)
        BY <1>0, <1>5, <2>2, <3>0, <4>1 DEF Handle, Leaving, Busy, Entry, Unparsable, Answer, Goto, workVars
      <4>2. ~Idle(w)
        BY <1>0, <1>5, <2>2 DEF Idle, Leaving, Busy
      <4>3. ~Handle(w) => task' = task
        BY <1>5, <4>2
        DEF Work, Dies, IsNicknameTaken, SetNickname, AddRoom, GetClient, CheckClient, JoinRoom, SetRoomCode,
            GetRoom, CopyFds, SendNext, LeaveRoom, ClearRoomCode, Reply, BrokenPipe, DanglingUse,
            AfterBroadcast, workVars
      <4> QED BY <1>5, <2>2, <4>1, <4>2, <4>3 DEF Leaving, Busy
    <3>2. Engaged(w)
      BY <3>1 DEF Engaged, Busy, IsAsk
    <3>3. PICK fd \in Fds : fd = task[w].fd
      BY <3>2, Asker
    <3>4. ~SetRoomCode(w) /\ ~ClearRoomCode(w)
      BY <1>0, <1>5, <2>2, <3>0, <3>1 DEF SetRoomCode, ClearRoomCode, Steps, Leaving, Answer, Goto
    <3>5. RoomOf(fd)' = RoomOf(fd)
      BY <1>5, <3>4, WorkersAndRoomOf
    <3>6. SUFFICES code'[w] = RoomOf(fd)
      BY <2>2, <3>1, <3>3, <3>5 DEF RoomOf
    <3>7. ASSUME Leaving(w), code' = code PROVE code'[w] = RoomOf(fd)
      BY <3>3, <3>7 DEF LeavesOwnRoom
    <3>8. CASE CheckClient(w)
      <4>1. code'[w] = info[ptr[w]].roomCode /\ ptr[w] = m_clients[task[w].fd] /\ ptr[w] # NoCell
        BY <1>0, <1>5, <2>2, <3>1, <3>2, <3>8
        DEF CheckClient, Leaving, Answer, Goto, PtrsCurrent, TypeOK, WorkTypeOK, LocalsOK
      <4> QED BY <3>3, <4>1 DEF RoomOf
    <3>9. CASE Dies(w)
      BY <1>5, <2>2, <3>7, <3>9 DEF Dies, BrokenPipe, DanglingUse, workVars, Leaving, Busy
    <3>10. CASE GetRoom(w) \/ CopyFds(w) \/ SendNext(w)
      <4>1. Leaving(w)
        BY <3>1, <3>10 DEF Leaving, GetRoom, CopyFds, SendNext
      <4>2. code' = code
        BY <1>0, <3>1, <3>10 DEF GetRoom, CopyFds, SendNext, AfterBroadcast, Target
      <4> QED BY <3>7, <4>1, <4>2
    <3>11. CASE GetClient(w)
      BY <1>0, <1>5, <2>2, <3>1, <3>11 DEF GetClient, Leaving, Answer, Goto
    <3>12. CASE LeaveRoom(w)
      BY <1>0, <1>5, <2>2, <3>12 DEF LeaveRoom, Leaving, Goto
    <3>13. ~(Handle(w) \/ IsNicknameTaken(w) \/ SetNickname(w) \/ AddRoom(w) \/ JoinRoom(w) \/ Reply(w))
      BY <3>0, <3>1 DEF Handle, IsNicknameTaken, SetNickname, AddRoom, JoinRoom, Reply, Steps, Busy
    <3> QED BY <1>5, <3>4, <3>8, <3>9, <3>10, <3>11, <3>12, <3>13 DEF Work
  <2> QED BY <2>1, <2>2
<1>6. ASSUME NEW w \in Workers, Work(w) \/ Dies(w) PROVE LeavesOwnRoom'
  BY <1>5, <1>6 DEF LeavesOwnRoom
<1> QED BY <1>2, <1>3, <1>4, <1>6, OutsideWorkers

LEMMA StillKnown ==
  ASSUME IOInv, RoomsSound, OneAsk, PtrsCurrent, OnRoute, NewcomersOutside, NobodyGone,
         LeavesOwnRoom, HasLeft, UsersKnow, [Next]_vars
  PROVE  HasLeft' /\ UsersKnow'
<1>0. /\ TypeOK
      /\ pc \in [Workers -> PcLabels] /\ task \in [Workers -> Packets \cup {NoTask}]
      /\ code \in [Workers -> Codes \cup {NoCode}]
  BY DEF IOInv, TypeOK, WorkTypeOK
<1>1. ASSUME UNCHANGED <<workVars, roomVars>>, \A fd \in Fds : RoomOf(fd)' = RoomOf(fd)
      PROVE  HasLeft' /\ UsersKnow'
  BY <1>1 DEF HasLeft, UsersKnow, InRoom, Used, Entering, workVars, roomVars
<1>2. CASE Peers \/ UNCHANGED vars
  <2>1. UNCHANGED <<workVars, roomVars, clientVars>>
    BY <1>2 DEF Peers, Connect, Read, Disconnect, Send, vars
  <2> QED BY <1>1, <2>1 DEF RoomOf, clientVars
<1>3. CASE IO
  BY <1>1, <1>3, StillWorkers, IOKeepsRoomOf, NobodyHangsUp
<1>4. ASSUME NEW w \in Workers, Work(w) \/ Dies(w) PROVE HasLeft' /\ UsersKnow'
  <2>1. \A fd \in Fds, r \in Codes : InRoom(fd, r)' =>
          \/ InRoom(fd, r) /\ ~(LeaveRoom(w) /\ fd = task[w].fd /\ r = code[w])
          \/ JoinRoom(w) /\ fd = task[w].fd /\ r = code[w] /\ pc'[w] = "setRoomCode"
    BY <1>0, <1>4, WhoIsIn
  <2>2. \A v \in Workers : pc[v] \in AskSteps => Engaged(v) /\ task[v].fd \in Fds
    BY Asker DEF OneAsk, AskAnswered
  <2>3. JoinRoom(w) \/ LeaveRoom(w) \/ SetRoomCode(w) \/ ClearRoomCode(w) => Engaged(w) /\ task' = task /\ code' = code
    BY <2>2 DEF JoinRoom, LeaveRoom, SetRoomCode, ClearRoomCode, AskSteps
  <2>4. HasLeft'
    <3> SUFFICES ASSUME NEW v \in Workers, NEW r \in Codes, pc'[v] = "clearRoomCode", InRoom(task[v].fd, r)'
                 PROVE  FALSE
      BY DEF HasLeft
    <3>1. CASE pc[v] = "clearRoomCode" /\ task'[v] = task[v]
      <4>1. Engaged(v) /\ task[v].fd \in Fds /\ ~InRoom(task[v].fd, r)
        BY <2>2, <3>1 DEF HasLeft, AskSteps
      <4>2. PICK fd \in Fds : fd = task[v].fd
        BY <4>1
      <4>3. InRoom(fd, r)'
        BY <3>1, <4>2 DEF InRoom
      <4>4. JoinRoom(w) /\ fd = task[w].fd
        BY <2>1, <4>1, <4>2, <4>3
      <4>5. v # w
        BY <3>1, <4>4 DEF JoinRoom
      <4> QED BY <2>3, <4>1, <4>2, <4>4, <4>5, Asker, ZenonT(30)
    <3>2. CASE v = w /\ LeaveRoom(w)
      <4>1. Engaged(w) /\ task' = task /\ Leaving(w)
        BY <1>0, <2>3, <3>2 DEF LeaveRoom, Leaving, Busy, OnRoute, Engaged, Steps
      <4>2. PICK fd \in Fds : fd = task[w].fd
        BY <4>1, Asker
      <4>3. InRoom(fd, r)'
        BY <3>2, <4>1, <4>2 DEF InRoom
      <4>4. InRoom(fd, r) /\ r # code[w]
        BY <2>1, <3>2, <4>2, <4>3 DEF LeaveRoom, JoinRoom
      <4>5. ~Entering(fd, r)
        <5> SUFFICES ASSUME NEW u \in Workers, pc[u] = "setRoomCode", task[u].fd = fd PROVE FALSE
          BY DEF Entering
        <5>1. u # w /\ Engaged(u)
          BY <2>2, <3>2 DEF LeaveRoom, AskSteps
        <5> QED BY <4>1, <4>2, <5>1, Asker
      <4>6. RoomOf(fd) = r
        BY <4>4, <4>5 DEF UsersKnow
      <4> QED BY <4>1, <4>2, <4>4, <4>6 DEF LeavesOwnRoom
    <3>3. v # w => pc[v] = "clearRoomCode" /\ task'[v] = task[v]
      BY <1>0, <1>4, OtherWorkers
    <3>4. v = w => LeaveRoom(w) \/ (pc[v] = "clearRoomCode" /\ task'[v] = task[v])
      <4>1. CASE Handle(w)
        BY <1>0, <4>1 DEF Handle, Entry, Answer, Goto, workVars
      <4>2. CASE Dies(w)
        BY <4>2 DEF Dies, BrokenPipe, DanglingUse, workVars
      <4>3. CASE GetRoom(w) \/ CopyFds(w) \/ SendNext(w)
        BY <1>0, <4>3 DEF GetRoom, CopyFds, SendNext, AfterBroadcast, Idle, Answer, Goto
      <4>4. CASE IsNicknameTaken(w) \/ SetNickname(w) \/ AddRoom(w) \/ GetClient(w) \/ CheckClient(w)
        BY <1>0, <4>4 DEF IsNicknameTaken, SetNickname, AddRoom, GetClient, CheckClient, Idle, Answer, Goto
      <4>5. CASE JoinRoom(w) \/ SetRoomCode(w) \/ ClearRoomCode(w) \/ Reply(w)
        BY <1>0, <4>5 DEF JoinRoom, SetRoomCode, ClearRoomCode, Reply, Idle, Answer, Goto
      <4> QED BY <1>4, <4>1, <4>2, <4>3, <4>4, <4>5 DEF Work
    <3> QED BY <3>1, <3>2, <3>3, <3>4
  <2>5. UsersKnow'
    <3> SUFFICES ASSUME NEW fd \in Fds, NEW r \in Codes, InRoom(fd, r)'
                 PROVE  RoomOf(fd)' = r \/ Entering(fd, r)'
      BY DEF UsersKnow
    <3>1. CASE JoinRoom(w) /\ fd = task[w].fd /\ r = code[w] /\ pc'[w] = "setRoomCode"
      BY <2>3, <3>1 DEF Entering
    <3>2. CASE InRoom(fd, r) /\ RoomOf(fd) = r
      <4>1. CASE RoomOf(fd)' = RoomOf(fd)
        BY <3>2, <4>1
      <4>2. CASE RoomOf(fd)' # RoomOf(fd)
        <5>1. (SetRoomCode(w) \/ ClearRoomCode(w)) /\ Engaged(w) /\ fd = task[w].fd
          BY <1>4, <4>2, WorkersAndRoomOf
        <5>2. CASE ClearRoomCode(w)
          BY <3>2, <5>1, <5>2 DEF HasLeft, ClearRoomCode
        <5>3. CASE SetRoomCode(w)
          <6>1. Unroomed(w)
            BY <5>1, <5>3 DEF Unroomed, Busy, OnRoute, SetRoomCode, Engaged, Steps
          <6>2. RoomOf(fd) = NoCode
            BY <5>1, <6>1, Asker DEF NewcomersOutside, Outside
          <6> QED BY <3>2, <6>2, ServerAssumption
        <5> QED BY <5>1, <5>2, <5>3
      <4> QED BY <4>1, <4>2
    <3>3. CASE InRoom(fd, r) /\ Entering(fd, r)
      <4>1. PICK v \in Workers : pc[v] = "setRoomCode" /\ task[v].fd = fd /\ code[v] = r
        BY <3>3 DEF Entering
      <4>2. CASE pc'[v] = pc[v] /\ task'[v] = task[v] /\ code'[v] = code[v]
        BY <4>1, <4>2 DEF Entering
      <4>3. CASE v = w
        <5>1. SetRoomCode(w) \/ Dies(w)
          BY <1>4, <4>1, <4>3
          DEF Work, Handle, IsNicknameTaken, SetNickname, AddRoom, GetClient, CheckClient, JoinRoom,
              GetRoom, CopyFds, SendNext, LeaveRoom, ClearRoomCode, Reply
        <5> QED
          BY <1>4, <4>1, <4>2, <4>3, <5>1, WorkersAndRoomOf DEF Dies, BrokenPipe, DanglingUse, workVars
      <4> QED BY <1>0, <1>4, <4>2, <4>3, OtherWorkers
    <3> QED BY <2>1, <3>1, <3>2, <3>3 DEF UsersKnow
  <2> QED BY <2>4, <2>5
<1> QED BY <1>2, <1>3, <1>4, OutsideWorkers

LEMMA UsersKept ==
  ASSUME Orderly, Leavers = {}
  PROVE  Spec => [](LeavesOwnRoom /\ HasLeft /\ UsersKnow)
<1>1. Init => LeavesOwnRoom /\ HasLeft /\ UsersKnow
  <2> SUFFICES ASSUME Init PROVE LeavesOwnRoom /\ HasLeft /\ UsersKnow
    OBVIOUS
  <2>1. /\ \A w \in Workers : pc[w] = "idle" /\ task[w] = NoTask
        /\ \A r \in Codes : rooms[r] = NoRoom
    BY DEF Init
  <2> QED BY <2>1 DEF LeavesOwnRoom, Leaving, Busy, HasLeft, UsersKnow, InRoom, Used
<1>2. IOInv /\ RoomsSound /\ OneAsk /\ MemberInv /\ OnRoute /\ NewcomersOutside /\ NobodyGone
      /\ LeavesOwnRoom /\ HasLeft /\ UsersKnow /\ [Next]_vars
        => LeavesOwnRoom' /\ HasLeft' /\ UsersKnow'
  <2> SUFFICES ASSUME IOInv, RoomsSound, OneAsk, MemberInv, OnRoute, NewcomersOutside, NobodyGone,
                      LeavesOwnRoom, HasLeft, UsersKnow, [Next]_vars
               PROVE  LeavesOwnRoom' /\ HasLeft' /\ UsersKnow'
    OBVIOUS
  <2>1. PtrsCurrent
    BY DEF MemberInv
  <2>2. LeavesOwnRoom'
    BY <2>1, StillLeaving
  <2>3. HasLeft' /\ UsersKnow'
    BY <2>1, StillKnown
  <2> QED BY <2>2, <2>3
<1>3. IOInv /\ OnRoute /\ [Next]_vars => OnRoute'
  BY StepRoutes DEF IOInv
<1> QED
  BY <1>1, <1>2, <1>3, IOInvariant, RoomsKeepLimits, InitAsks, StepAsks, InitRoutes, MembersKept,
     OutsideKept, NobodyGoes, PTL DEF Spec

(* While nobody leaves, a client is in one room at a time, however many    *)
(* workers serve it (RoomHandler.cpp:144-148): a CREATE or JOIN is handled *)
(* for a client in no room, and an EXIT takes it out of the room it is in. *)
THEOREM OneRoomPerClient ==
  ASSUME Orderly, Leavers = {}
  PROVE  Spec => []OneRoomAtATime
<1>1. ASSUME IOInv, OneAsk, OnRoute, NewcomersOutside, UsersKnow PROVE OneRoomAtATime
  <2> SUFFICES ASSUME NEW fd \in Fds, NEW r \in Codes, NEW s \in Codes, InRoom(fd, r), InRoom(fd, s)
               PROVE  r = s
    BY DEF OneRoomAtATime, Open, Used, InRoom
  <2>1. ASSUME NEW w \in Workers, pc[w] = "setRoomCode", task[w].fd = fd
        PROVE  Engaged(w) /\ RoomOf(fd) = NoCode
    <3>1. Engaged(w)
      BY <1>1, <2>1 DEF OneAsk, AskAnswered, AskSteps
    <3>2. Unroomed(w)
      BY <1>1, <2>1, <3>1 DEF Unroomed, Busy, OnRoute, Engaged, Steps
    <3> QED BY <1>1, <2>1, <3>1, <3>2, Asker DEF NewcomersOutside, Outside
  <2>2. CASE RoomOf(fd) # NoCode
    BY <1>1, <2>1, <2>2 DEF UsersKnow, Entering
  <2>3. CASE RoomOf(fd) = NoCode
    <3>1. PICK v \in Workers : pc[v] = "setRoomCode" /\ task[v].fd = fd /\ code[v] = r
      BY <1>1, <2>3, ServerAssumption DEF UsersKnow, Entering
    <3>2. PICK w \in Workers : pc[w] = "setRoomCode" /\ task[w].fd = fd /\ code[w] = s
      BY <1>1, <2>3, ServerAssumption DEF UsersKnow, Entering
    <3> QED BY <1>1, <2>1, <3>1, <3>2, Asker
  <2> QED BY <2>2, <2>3
<1>2. IOInv /\ OneAsk /\ OnRoute /\ NewcomersOutside /\ UsersKnow => OneRoomAtATime
  BY <1>1
<1>3. IOInv /\ OnRoute /\ [Next]_vars => OnRoute'
  BY StepRoutes DEF IOInv
<1> QED
  BY <1>2, <1>3, IOInvariant, InitAsks, StepAsks, InitRoutes, OutsideKept, UsersKept, PTL DEF Spec

(* A room with nobody in it is one whose creator is about to enter it.     *)
(* The rooms asked for have a limit a user can meet: handleCreateRoom      *)
(* takes any int, and one that is 0 as a size_t admits nobody, ever.       *)
PositiveLimits == \A q \in Requests : q.type = "CREATE" /\ q.arg \in Int => Capacity(q.arg) > 0

Founding(w) == Busy(w) /\ task[w].type = "CREATE" /\ pc[w] \in {"getClient", "joinRoom"}

Empty(r) == r \in Used /\ rooms[r].clients = <<>>

Founded ==
  \A r \in Codes : /\ r \in Used => Capacity(rooms[r].maxUserCnt) > 0
                   /\ Empty(r) => \E w \in Workers : Founding(w) /\ code[w] = r

LEMMA StillFounded ==
  ASSUME PositiveLimits, TypeOK, HaveClients, Founded, NEW w \in Workers, Work(w) \/ Dies(w)
  PROVE  Founded'
<1>0. /\ rooms \in [Codes -> Rooms \cup {NoRoom}]
      /\ pc \in [Workers -> PcLabels] /\ task \in [Workers -> Packets \cup {NoTask}]
      /\ code \in [Workers -> Codes \cup {NoCode}]
  BY DEF TypeOK, RoomTypeOK, WorkTypeOK
<1>1. ASSUME NEW v \in Workers, Founding(v), v # w PROVE Founding(v)' /\ code'[v] = code[v]
  BY <1>0, <1>1, OtherWorkers DEF Founding, Busy
<1>7. JoinRoom(w) => task[w].fd \in Fds
  <2>1. JoinRoom(w) => task[w] \in Packets
    BY <1>0 DEF JoinRoom, TypeOK, WorkTypeOK, LocalsOK
  <2> QED BY <2>1 DEF Packets, Packet
<1>2. Founding(w) => GetClient(w) \/ JoinRoom(w) \/ Dies(w)
  BY DEF Founding, Work, Handle, IsNicknameTaken, SetNickname, AddRoom, CheckClient, SetRoomCode,
         GetRoom, CopyFds, SendNext, LeaveRoom, ClearRoomCode, Reply
<1>3. ASSUME Founding(w), GetClient(w) \/ Dies(w) PROVE Founding(w)' /\ code'[w] = code[w]
  <2>1. m_clients[task[w].fd] # NoCell
    BY <1>3 DEF HaveClients, Founding, Busy, Engaged, IsAsk
  <2>2. CASE GetClient(w)
    BY <1>0, <1>3, <2>1, <2>2 DEF GetClient, Founding, Busy, Goto
  <2>3. CASE Dies(w)
    BY <1>3, <2>3 DEF Dies, BrokenPipe, DanglingUse, Founding, Busy, workVars
  <2> QED BY <1>3, <2>2, <2>3
<1>4. ASSUME NEW r \in Codes, r \in Used', rooms'[r] # rooms[r]
      PROVE  /\ Capacity(rooms'[r].maxUserCnt) > 0
             /\ rooms'[r].clients # <<>> \/ (Founding(w)' /\ code'[w] = r)
  <2>1. CASE AddRoom(w)
    <3>1. /\ rooms'[r] = [maxUserCnt |-> task[w].arg, clients |-> <<>>]
          /\ code' = [code EXCEPT ![w] = r] /\ Goto(w, "getClient") /\ UNCHANGED task
      BY <1>0, <1>4, <2>1 DEF AddRoom
    <3>2. task[w].type = "CREATE" /\ task[w].arg \in Int /\ Busy(w)
      BY <2>1 DEF TypeOK, WorkTypeOK, LocalsOK, AddRoom, Busy
    <3>3. Capacity(task[w].arg) > 0
      <4>1. PICK q \in Requests : task[w].type = q.type /\ task[w].arg = q.arg
        BY <1>0, <3>2 DEF Packets, Packet, Busy
      <4> QED BY <3>2, <4>1 DEF PositiveLimits
    <3> QED BY <1>0, <3>1, <3>2, <3>3 DEF Founding, Busy, Goto
  <2>2. CASE JoinRoom(w)
    <3>1. /\ r = code[w] /\ r \in Used
          /\ rooms'[r] = [rooms[r] EXCEPT !.clients = Append(@, task[w].fd)]
      BY <1>0, <1>4, <2>2 DEF JoinRoom, Admits, roomVars, Used
    <3>2. rooms[r] \in Rooms
      BY <1>0, <3>1 DEF Used
    <3>3. rooms[r].clients \in Seq(Fds)
      BY <3>2 DEF Rooms
    <3>4. /\ rooms'[r].maxUserCnt = rooms[r].maxUserCnt
          /\ rooms'[r].clients = Append(rooms[r].clients, task[w].fd)
      BY <3>1, <3>2 DEF Rooms
    <3>5. Append(rooms[r].clients, task[w].fd) # <<>>
      BY <1>7, <2>2, <3>3
    <3> QED BY <3>1, <3>4, <3>5 DEF Founded
  <2>3. CASE LeaveRoom(w)
    <3>1. r \in Used /\ rooms'[r] = Remains(r, Without(rooms[r].clients, task[w].fd))
      BY <1>0, <1>4, <2>3 DEF LeaveRoom
    <3>2. rooms[r] \in Rooms
      BY <1>0, <3>1 DEF Used
    <3>3. /\ rooms'[r].maxUserCnt = rooms[r].maxUserCnt
          /\ rooms'[r].clients # <<>>
      BY <1>4, <3>1, <3>2 DEF Remains, Rooms, Used
    <3> QED BY <3>1, <3>3 DEF Founded
  <2> QED BY <1>4, <2>1, <2>2, <2>3, WorkersKeepIO
<1>5. ASSUME NEW r \in Codes, r \in Used', rooms'[r] = rooms[r], rooms[r].clients = <<>>
      PROVE  \E v \in Workers : Founding(v)' /\ code'[v] = r
  <2>1. PICK v \in Workers : Founding(v) /\ code[v] = r
    BY <1>5 DEF Founded, Empty, Used
  <2>2. CASE v # w
    BY <1>1, <2>1, <2>2
  <2>3. CASE v = w /\ ~JoinRoom(w)
    BY <1>2, <1>3, <2>1, <2>3
  <2>4. CASE v = w /\ JoinRoom(w)
    <3>1. Admits(r, task[w].fd)
      <4>1. r \in Used /\ Len(rooms[r].clients) < Capacity(rooms[r].maxUserCnt)
        BY <1>5 DEF Founded, Used
      <4>2. task[w].fd \notin Range(rooms[r].clients)
        BY <1>5 DEF Range
      <4> QED BY <4>1, <4>2 DEF Admits, Used
    <3>2. rooms'[r] = [rooms[r] EXCEPT !.clients = Append(@, task[w].fd)]
      BY <1>0, <2>1, <2>4, <3>1 DEF JoinRoom
    <3>3. rooms[r] \in Rooms
      BY <1>0, <1>5 DEF Used
    <3>4. rooms'[r].clients = Append(rooms[r].clients, task[w].fd) /\ rooms[r].clients \in Seq(Fds)
      BY <3>2, <3>3 DEF Rooms
    <3>5. rooms'[r].clients # rooms[r].clients
      BY <1>7, <2>4, <3>4
    <3> QED BY <1>5, <3>5
  <2> QED BY <2>2, <2>3, <2>4
<1> QED
  <2> SUFFICES ASSUME NEW r \in Codes, r \in Used'
               PROVE  /\ Capacity(rooms'[r].maxUserCnt) > 0
                      /\ rooms'[r].clients = <<>> => \E v \in Workers : Founding(v)' /\ code'[v] = r
    BY DEF Founded, Empty, Capacity
  <2>1. CASE rooms'[r] # rooms[r]
    BY <1>4, <2>1
  <2>2. CASE rooms'[r] = rooms[r]
    BY <1>5, <2>2 DEF Founded, Used
  <2> QED BY <2>1, <2>2

LEMMA FoundersEnter ==
  ASSUME Orderly, PositiveLimits
  PROVE  Spec => []Founded
<1>1. Init => Founded
  BY DEF Init, Founded, Used, Empty
<1>2. IOInv /\ HaveClients /\ Founded /\ [Next]_vars => Founded'
  <2> SUFFICES ASSUME IOInv, HaveClients, Founded, [Next]_vars PROVE Founded'
    OBVIOUS
  <2>1. TypeOK
    BY DEF IOInv
  <2>2. CASE Peers \/ IO \/ UNCHANGED vars
    <3>1. UNCHANGED <<workVars, roomVars>>
      BY <2>2, StillWorkers
    <3> QED BY <3>1 DEF Founded, Empty, Used, Founding, Busy, workVars, roomVars
  <2>3. ASSUME NEW w \in Workers, Work(w) \/ Dies(w) PROVE Founded'
    BY <2>1, <2>3, StillFounded
  <2> QED BY <2>2, <2>3, OutsideWorkers
<1> QED BY <1>1, <1>2, IOInvariant, ClientsThere, PTL DEF Spec

(* When everything sent was handled, a room that still exists has someone  *)
(* in it (RoomManager.cpp:88), as long as nobody hangs up: with any number *)
(* of workers, when each room was asked for with a limit of one or more.   *)
THEOREM NoRoomStaysEmpty ==
  ASSUME Orderly, Leavers = {}, PositiveLimits
  PROVE  Spec => []EmptyRoomsDeleted
<1>1. ASSUME IOInv, Founded, UsersKnow, Quiet, NEW r \in Used
      PROVE  \E fd \in Fds : m_clients[fd] # NoCell /\ info[m_clients[fd]].roomCode = r
  <2>1. \A w \in Workers : pc[w] = "idle" /\ task[w] = NoTask
    BY <1>1 DEF Quiet, IOInv, TypeOK, WorkTypeOK, LocalsOK
  <2>2. r \in Codes /\ rooms[r].clients # <<>> /\ rooms[r] \in Rooms
    BY <1>1, <2>1 DEF Founded, Empty, Founding, Busy, Used, IOInv, TypeOK, RoomTypeOK
  <2>3. rooms[r].clients \in Seq(Fds)
    BY <2>2 DEF Rooms
  <2>4. 1 \in DOMAIN rooms[r].clients /\ rooms[r].clients[1] \in Fds
    BY <2>2, <2>3
  <2>5. PICK fd \in Fds : fd = rooms[r].clients[1]
    BY <2>4
  <2>6. InRoom(fd, r)
    BY <1>1, <2>4, <2>5 DEF InRoom, Range
  <2>7. RoomOf(fd) = r
    BY <1>1, <2>1, <2>2, <2>6 DEF UsersKnow, Entering
  <2> QED BY <2>2, <2>7, ServerAssumption DEF RoomOf
<1>2. IOInv /\ Founded /\ UsersKnow => EmptyRoomsDeleted
  BY <1>1 DEF EmptyRoomsDeleted
<1> QED BY <1>2, IOInvariant, FoundersEnter, UsersKept, PTL

(* One worker alone enters the room it made before anyone else can.        *)
NewRoom == \A w \in Workers : Founding(w) => Empty(code[w])

LEMMA RoomsStayNew ==
  ASSUME TypeOK, NewRoom, \A v, w \in Workers : v = w, [Next]_vars
  PROVE  NewRoom'
<1>0. /\ rooms \in [Codes -> Rooms \cup {NoRoom}]
      /\ pc \in [Workers -> PcLabels] /\ task \in [Workers -> Packets \cup {NoTask}]
      /\ code \in [Workers -> Codes \cup {NoCode}]
      /\ \A w \in Workers : LocalsOK(w)
  BY DEF TypeOK, RoomTypeOK, WorkTypeOK
<1>1. CASE Peers \/ IO \/ UNCHANGED vars
  <2>1. UNCHANGED <<workVars, roomVars>>
    BY <1>1, StillWorkers
  <2> QED BY <2>1 DEF NewRoom, Empty, Used, Founding, Busy, workVars, roomVars
<1>2. ASSUME NEW w \in Workers, Work(w) \/ Dies(w) PROVE NewRoom'
  <2>1. SUFFICES ASSUME Founding(w)' PROVE code'[w] \in Codes /\ rooms'[code'[w]] # NoRoom /\ rooms'[code'[w]].clients = <<>>
    BY DEF NewRoom, Empty, Used
  <2>2. CASE AddRoom(w)
    <3>1. PICK r \in Codes : /\ rooms' = [rooms EXCEPT ![r] = [maxUserCnt |-> task[w].arg, clients |-> <<>>]]
                             /\ code' = [code EXCEPT ![w] = r]
      BY <1>0, <2>1, <2>2 DEF AddRoom, Founding, Answer, Goto
    <3>2. [maxUserCnt |-> task[w].arg, clients |-> <<>>] \in Rooms
      BY <1>0, <2>2 DEF Rooms, AddRoom, LocalsOK
    <3>3. rooms'[r] = [maxUserCnt |-> task[w].arg, clients |-> <<>>] /\ code'[w] = r
      BY <1>0, <3>1
    <3>4. rooms'[r] # NoRoom
      BY <3>2, <3>3, RoomAssumption
    <3> QED BY <3>3, <3>4
  <2>3. CASE ~AddRoom(w)
    <3>1. Founding(w) /\ code' = code /\ rooms' = rooms
      <4>1. CASE GetClient(w)
        BY <1>0, <2>1, <4>1
        DEF GetClient, Founding, Busy, Answer, Goto, Idle, roomVars
      <4>2. CASE Dies(w)
        BY <2>1, <4>2 DEF Dies, BrokenPipe, DanglingUse, Founding, Busy, workVars, roomVars
      <4>3. CASE Handle(w)
        BY <1>0, <2>1, <4>3 DEF Handle, Founding, Busy, Entry, Unparsable, Answer, Goto, workVars, LocalsOK
      <4>4. CASE CheckClient(w)
        BY <1>0, <2>1, <4>4 DEF CheckClient, Founding, Busy, Answer, Goto, Idle
      <4>5. ~(IsNicknameTaken(w) \/ SetNickname(w) \/ JoinRoom(w) \/ SetRoomCode(w)
              \/ GetRoom(w) \/ CopyFds(w) \/ SendNext(w) \/ LeaveRoom(w) \/ ClearRoomCode(w) \/ Reply(w))
        BY <1>0, <2>1
        DEF IsNicknameTaken, SetNickname, JoinRoom, SetRoomCode, GetRoom, CopyFds, SendNext, LeaveRoom,
            ClearRoomCode, Reply, Founding, Busy, Answer, Goto, Idle, AfterBroadcast
      <4> QED BY <1>2, <2>3, <4>1, <4>2, <4>3, <4>4, <4>5 DEF Work
    <3> QED BY <3>1 DEF NewRoom, Empty, Used
  <2> QED BY <2>2, <2>3
<1> QED BY <1>1, <1>2, OutsideWorkers

(* A peer told that it is in a room has the code of one.                   *)
Inside == {c \in Conns \ pending : \A fd \in Fds : socket[fd] = c => RoomOf(fd) # NoCode}

Roomed(w) ==
  /\ Busy(w)
  /\ \/ task[w].type = "JOIN" /\ pc[w] \in {"getRoom", "copyFds", "send"}
     \/ task[w].type \in {"CREATE", "JOIN"} /\ pc[w] = "reply" /\ response[w] = "OK"

ChattersInside ==
  /\ \A c \in Conns : peer[c] = "chat" => c \in Inside
  /\ \A w \in Workers : Roomed(w) => task[w].conn \in Inside

LEMMA IOKeepsInside ==
  ASSUME IOInv, IO, NEW c \in Inside, peer[c] # "gone"
  PROVE  c \in Inside'
<1>0. /\ TypeOK /\ IOCoherent /\ c \in Conns /\ c \notin pending
      /\ socket \in [Fds -> Conns \cup {NoConn}] /\ NoConn \notin Conns
  BY ServerAssumption DEF IOInv, TypeOK, IOTypeOK, Inside
<1>1. \A fd \in Fds : socket[fd] = c => RoomOf(fd)' = RoomOf(fd)
  <2> SUFFICES ASSUME NEW fd \in Fds, socket[fd] = c, HangUp(fd) PROVE FALSE
    BY IOKeepsRoomOf
  <2> QED BY EventFacts DEF HangUp, Readable
<1>2. pending' \subseteq pending
  BY DEF IO, EpollWait, AcceptFails, Close, Accept, AddFdFails, AddClient, HangUp, Receive, peerVars
<1>3. \A fd \in Fds : socket'[fd] = c => socket[fd] = c
  BY <1>0 DEF IO, EpollWait, AcceptFails, Close, Accept, AddFdFails, AddClient, HangUp, Receive
<1> QED BY <1>0, <1>1, <1>2, <1>3 DEF Inside

LEMMA WorkersKeepInside ==
  ASSUME IOInv, OneAsk, PtrsCurrent, JustListed, NEW w \in Workers, Work(w) \/ Dies(w), NEW c \in Inside,
         ~ClearRoomCode(w) \/ ~(Engaged(w) /\ c = task[w].conn)
  PROVE  c \in Inside'
<1>0. UNCHANGED <<socket, pending>>
  BY WorkersKeepIO DEF ioVars
<1>1. ASSUME NEW fd \in Fds, socket[fd] = c PROVE RoomOf(fd)' # NoCode
  <2>1. RoomOf(fd) # NoCode
    BY <1>1 DEF Inside
  <2>2. SetRoomCode(w) => code[w] # NoCode
    <3>1. SetRoomCode(w) => InRoom(task[w].fd, code[w])
      BY DEF SetRoomCode, JustListed
    <3> QED BY <3>1, ServerAssumption DEF InRoom, Used
  <2>3. ~(ClearRoomCode(w) /\ Engaged(w) /\ fd = task[w].fd)
    BY <1>1, Asker
  <2> QED BY <2>1, <2>2, <2>3, WorkersAndRoomOf
<1> QED BY <1>0, <1>1 DEF Inside

(* A worker's own step leads to OK only when the asker got a room: alone,  *)
(* the one that made a room is not refused by it.                          *)
LEMMA AnswerInside ==
  ASSUME IOInv, OneAsk, MemberInv, OnRoute, HaveClients, Founded, NewRoom, ChattersInside,
         NEW w \in Workers, Work(w) \/ Dies(w), Roomed(w)'
  PROVE  task'[w].conn \in Inside'
<1>0. /\ TypeOK /\ PtrsCurrent /\ JustListed
      /\ pc \in [Workers -> PcLabels] /\ task \in [Workers -> Packets \cup {NoTask}]
      /\ response \in [Workers -> {"none", "OK", "FAIL"}]
      /\ (pc[w] = "idle" <=> task[w] = NoTask) /\ (Busy(w) => pc[w] \in Steps(task[w].type))
  BY DEF IOInv, TypeOK, WorkTypeOK, LocalsOK, OnRoute, MemberInv
<1>1. ~Idle(w)
  BY <1>0 DEF Idle, Roomed, Busy
<1>2. ~ClearRoomCode(w)
  BY <1>0 DEF ClearRoomCode, Roomed, Answer, Goto, Busy, Steps
<1>3. ASSUME Roomed(w), task' = task PROVE task'[w].conn \in Inside'
  BY <1>0, <1>2, <1>3, WorkersKeepInside DEF ChattersInside
<1>4. CASE SetRoomCode(w)
  <2>1. Busy(w) /\ task' = task /\ task[w].type \in {"CREATE", "JOIN"}
    BY <1>0, <1>4 DEF SetRoomCode, Roomed, Busy, Steps
  <2>2. Engaged(w) /\ InRoom(task[w].fd, code[w])
    BY <1>0, <1>4, <2>1 DEF Engaged, IsAsk, Busy, SetRoomCode, JustListed
  <2>3. code[w] # NoCode
    BY <2>2, ServerAssumption DEF InRoom, Used
  <2>4. PICK fd \in Fds : fd = task[w].fd
    BY <2>2, Asker
  <2>5. RoomOf(fd)' # NoCode
    BY <1>0, <1>4, <2>3, <2>4, WorkersAndRoomOf
  <2>6. UNCHANGED <<socket, pending>>
    BY WorkersKeepIO DEF ioVars
  <2>7. task[w].conn \in Conns /\ task[w].conn \notin pending
    <3>1. fd \in Open /\ task[w].conn \in Conns /\ socket[fd] = task[w].conn
      BY <2>2, <2>4, Asker, ServerAssumption DEF Open
    <3> QED BY <3>1 DEF IOInv, IOCoherent
  <2>8. \A g \in Fds : socket[g] = task[w].conn => g = fd
    BY <2>2, <2>4, Asker
  <2> QED BY <2>1, <2>5, <2>6, <2>7, <2>8 DEF Inside
<1>5. ~(JoinRoom(w) \/ GetClient(w))
  <2>1. CASE JoinRoom(w)
    <3>1. task' = task /\ Busy(w) /\ Founding(w) /\ ~Admits(code[w], task[w].fd)
      BY <1>0, <2>1 DEF JoinRoom, Roomed, Founding, Busy, Refusal, Answer, Goto
    <3>2. code[w] \in Used /\ rooms[code[w]].clients = <<>>
      BY <3>1 DEF NewRoom, Empty
    <3>3. Len(rooms[code[w]].clients) < Capacity(rooms[code[w]].maxUserCnt)
      BY <3>2 DEF Founded, Used
    <3>4. task[w].fd \notin Range(rooms[code[w]].clients)
      BY <3>2 DEF Range
    <3> QED BY <3>1, <3>2, <3>3, <3>4 DEF Admits, Used
  <2>2. CASE GetClient(w)
    <3>1. task' = task /\ Busy(w) /\ task[w].type \in {"CREATE", "JOIN"}
      BY <1>0, <1>1, <2>2 DEF GetClient, Roomed, Busy
    <3>2. m_clients[task[w].fd] # NoCell
      BY <3>1 DEF HaveClients, Engaged, IsAsk, Busy
    <3> QED BY <1>0, <2>2, <3>1, <3>2 DEF GetClient, Roomed, Goto
  <2> QED BY <2>1, <2>2
<1>6. CASE Handle(w)
  BY <1>0, <1>6 DEF Handle, Roomed, Unparsable, Answer, Goto, Busy, Entry, workVars
<1>7. CASE Dies(w)
  BY <1>3, <1>7 DEF Dies, BrokenPipe, DanglingUse, workVars, Roomed, Busy
<1>8. CASE IsNicknameTaken(w) \/ SetNickname(w) \/ AddRoom(w)
  BY <1>0, <1>8 DEF IsNicknameTaken, SetNickname, AddRoom, Answer, Goto, Roomed, Busy, Steps
<1>9. CASE CheckClient(w)
  BY <1>0, <1>1, <1>9 DEF CheckClient, Roomed, Busy, Steps, Answer, Goto
<1>10. CASE GetRoom(w) \/ CopyFds(w) \/ SendNext(w)
  <2>1. task' = task /\ Busy(w)
    BY <1>0, <1>1, <1>10 DEF GetRoom, CopyFds, SendNext, AfterBroadcast, Busy
  <2>2. Roomed(w)
    BY <1>0, <1>10, <2>1
    DEF GetRoom, CopyFds, SendNext, Roomed, Busy, Steps
  <2> QED BY <1>3, <2>1, <2>2
<1>11. CASE LeaveRoom(w)
  BY <1>0, <1>11 DEF LeaveRoom, Roomed, Goto
<1> QED
  BY <1>1, <1>2, <1>4, <1>5, <1>6, <1>7, <1>8, <1>9, <1>10, <1>11 DEF Work, Reply

LEMMA ChattersStayInside ==
  ASSUME IOInv, OneAsk, MemberInv, OnRoute, HaveClients, Founded, NewRoom, ChattersInside, [Next]_vars
  PROVE  ChattersInside'
<1>0. /\ TypeOK /\ PtrsCurrent /\ JustListed
      /\ pc \in [Workers -> PcLabels] /\ task \in [Workers -> Packets \cup {NoTask}]
      /\ peer \in [Conns -> {"off", "anon", "lobby", "chat", "waiting", "gone", "dropped"}]
  BY DEF IOInv, TypeOK, WorkTypeOK, PeerTypeOK, MemberInv
<1>1. \A w \in Workers : Roomed(w) => Engaged(w) /\ task[w].conn \in Inside /\ peer[task[w].conn] = "waiting"
  <2>1. \A w \in Workers : Roomed(w) => Engaged(w) /\ task[w].conn \in Inside
    BY DEF Roomed, Busy, Engaged, IsAsk, ChattersInside
  <2> QED BY <2>1, Asker
<1>2. ASSUME UNCHANGED workVars, \A c \in Inside : peer[c] \in {"chat", "waiting"} => c \in Inside',
             \A c \in Conns : peer'[c] = "chat" => peer[c] = "chat"
      PROVE  ChattersInside'
  BY <1>1, <1>2 DEF ChattersInside, Roomed, Busy, workVars
<1>3. CASE UNCHANGED vars
  BY <1>3 DEF ChattersInside, Roomed, Busy, Inside, RoomOf, vars, workVars, peerVars, ioVars, clientVars
<1>4. CASE IO
  <2>1. \A c \in Conns : peer'[c] = "chat" => peer[c] = "chat"
    BY <1>0, <1>4 DEF IO, EpollWait, AcceptFails, Close, Accept, AddFdFails, AddClient, HangUp, Receive, peerVars
  <2> QED BY <1>2, <1>4, <2>1, IOKeepsInside, StillWorkers
<1>5. ASSUME NEW c \in Conns, Connect(c) \/ Read(c) \/ Disconnect(c) \/ \E q \in Requests : Send(c, q)
      PROVE  ChattersInside'
  <2>1. /\ UNCHANGED <<ioVars, clientVars, workVars>>
        /\ pending' \subseteq pending \cup {c} /\ (peer[c] # "off" => pending' = pending)
    BY <1>5 DEF Connect, Read, Disconnect, Send
  <2>2. \A d \in Inside : peer[d] \in {"chat", "waiting"} => d \in Inside'
    BY <2>1 DEF Inside, RoomOf, ioVars, clientVars
  <2>3. \A d \in Conns : peer'[d] = "chat" => peer[d] = "chat"
    BY <1>0, <1>5 DEF Connect, Read, Disconnect, Send
  <2> QED BY <1>2, <2>1, <2>2, <2>3
<1>6. ASSUME NEW w \in Workers, Work(w) \/ Dies(w) PROVE ChattersInside'
  <2>1. ASSUME NEW c \in Conns, peer'[c] = "chat" PROVE c \in Inside'
    <3>1. CASE peer[c] = "chat"
      <4>1. Engaged(w) => c # task[w].conn
        BY <3>1, Asker
      <4> QED BY <1>0, <1>6, <3>1, <4>1, WorkersKeepInside DEF ChattersInside
    <3>2. CASE peer[c] # "chat"
      <4>1. Reply(w)
        BY <1>6, <2>1, <3>2, WorkersKeepIO
      <4>2. c = task[w].conn /\ Believes(task[w], response[w]) = "chat"
        BY <1>0, <2>1, <3>2, <4>1 DEF Reply
      <4>3. Busy(w) /\ pc[w] = "reply"
        BY <1>0, <4>1 DEF Reply, Busy, TypeOK, WorkTypeOK, LocalsOK
      <4>4. Roomed(w)
        BY <4>2, <4>3 DEF Roomed, Believes
      <4>5. ~ClearRoomCode(w)
        BY <4>3 DEF ClearRoomCode
      <4> QED BY <1>0, <1>1, <1>6, <4>2, <4>4, <4>5, WorkersKeepInside
    <3> QED BY <3>1, <3>2
  <2>2. ASSUME NEW v \in Workers, Roomed(v)', v # w PROVE task'[v].conn \in Inside'
    <3>1. Roomed(v) /\ task'[v] = task[v]
      BY <1>0, <1>6, <2>2, OtherWorkers DEF Roomed, Busy
    <3>2. Engaged(w) => task[v].conn # task[w].conn
      BY <1>1, <2>2, <3>1, Asker
    <3> QED BY <1>0, <1>1, <1>6, <3>1, <3>2, WorkersKeepInside
  <2>3. Roomed(w)' => task'[w].conn \in Inside'
    BY <1>6, AnswerInside
  <2> QED BY <2>1, <2>2, <2>3 DEF ChattersInside
<1> QED BY <1>3, <1>4, <1>5, <1>6, OutsideWorkers DEF Peers

(* With one worker, a peer told that it is in a room, by the answer to its *)
(* CREATE or JOIN, is listed in one (RoomHandler.cpp:75-84,156-166), even  *)
(* when others hang up: with two workers somebody else could fill the room *)
(* before its creator enters it, and handleCreateRoom would not notice.    *)
THEOREM ChattersAreListed ==
  ASSUME Orderly, \A v, w \in Workers : v = w, PositiveLimits
  PROVE  Spec => []ChattersHaveRooms
<1>1. Init => NewRoom /\ ChattersInside
  <2> SUFFICES ASSUME Init PROVE NewRoom /\ ChattersInside
    OBVIOUS
  <2>1. /\ \A w \in Workers : task[w] = NoTask
        /\ \A c \in Conns : peer[c] = "off"
    BY DEF Init
  <2> QED BY <2>1 DEF NewRoom, Founding, ChattersInside, Roomed, Busy
<1>2. IOInv /\ NewRoom /\ [Next]_vars => NewRoom'
  BY RoomsStayNew DEF IOInv
<1>3. IOInv /\ OneAsk /\ MemberInv /\ OnRoute /\ HaveClients /\ Founded /\ NewRoom /\ ChattersInside /\ [Next]_vars
        => ChattersInside'
  BY ChattersStayInside
<1>4. ASSUME IOInv, OneAsk, MemberInv, ChattersInside PROVE ChattersHaveRooms
  <2> SUFFICES ASSUME NEW fd \in Open, peer[socket[fd]] = "chat"
               PROVE  \E r \in Used : fd \in Range(rooms[r].clients)
    BY DEF ChattersHaveRooms
  <2>1. fd \in Fds /\ socket[fd] \in Conns
    BY <1>4 DEF Open, IOInv, TypeOK, IOTypeOK
  <2>2. RoomOf(fd) # NoCode
    BY <1>4, <2>1 DEF ChattersInside, Inside
  <2>3. m_clients[fd] # NoCell /\ info[m_clients[fd]].roomCode # NoCode
    BY <2>2 DEF RoomOf
  <2>4. ASSUME NEW w \in Workers, pc[w] = "clearRoomCode", ptr[w] = m_clients[fd] PROVE FALSE
    <3>1. Engaged(w)
      BY <1>4, <2>4 DEF OneAsk, AskAnswered, AskSteps
    <3>2. m_clients[task[w].fd] = m_clients[fd]
      BY <1>4, <2>3, <2>4, <3>1 DEF MemberInv, PtrsCurrent
    <3>3. task[w].fd = fd
      BY <1>4, <2>1, <2>3, <3>1, <3>2, Asker DEF IOInv, IOCoherent
    <3> QED BY <1>4, <3>1, <3>3, Asker
  <2> QED BY <1>4, <2>1, <2>3, <2>4 DEF MemberInv, MembershipAgrees
<1>5. IOInv /\ OneAsk /\ MemberInv /\ ChattersInside => ChattersHaveRooms
  BY <1>4
<1>6. IOInv /\ OnRoute /\ [Next]_vars => OnRoute'
  BY StepRoutes DEF IOInv
<1> QED
  BY <1>1, <1>2, <1>3, <1>5, <1>6, IOInvariant, InitAsks, StepAsks, InitRoutes, MembersKept, ClientsThere,
     FoundersEnter, PTL DEF Spec

(* While nobody leaves, the connection behind a descriptor stays the same: *)
(* the one a packet came from, and the one that was admitted to a room.    *)
Real ==
  /\ \A i \in 1 .. Len(queue) : socket[queue[i].fd] = queue[i].conn
  /\ \A w \in Workers : Busy(w) => socket[task[w].fd] = task[w].conn

Guest(fd, r) == socket[fd] # NoConn /\ r \in joined[socket[fd]]

Guests == \A fd \in Fds, r \in Codes : InRoom(fd, r) => Guest(fd, r)

Targets ==
  \A w \in Workers : /\ pc[w] = "copyFds" => code[w] \in Used
                     /\ pc[w] = "send" => \A fd \in Range(todo[w]) : Guest(fd, code[w])

LEMMA StillReal ==
  ASSUME IOInv, NobodyGone, Real, [Next]_vars
  PROVE  Real'
<1>0. /\ TypeOK /\ queue \in Seq(Packets)
      /\ pc \in [Workers -> PcLabels] /\ task \in [Workers -> Packets \cup {NoTask}]
  BY DEF IOInv, TypeOK, WorkTypeOK
<1>1. ASSUME NEW p \in Packets, socket[p.fd] = p.conn PROVE socket'[p.fd] = p.conn
  <2>1. p.fd \in Fds /\ p.conn # NoConn
    BY PacketFields, ServerAssumption
  <2> QED BY <1>1, <2>1, SocketsStay
<1>2. (\A w \in Workers : task'[w] = task[w]) => \A w \in Workers : Busy(w)' => socket'[task'[w].fd] = task'[w].conn
  BY <1>0, <1>1 DEF Real, Busy
<1>3. queue' = queue => \A i \in 1 .. Len(queue') : socket'[queue'[i].fd] = queue'[i].conn
  BY <1>0, <1>1 DEF Real
<1>4. CASE Peers \/ UNCHANGED vars
  <2>1. UNCHANGED <<queue, task>>
    BY <1>4 DEF Peers, Connect, Read, Disconnect, Send, vars, workVars
  <2> QED BY <1>2, <1>3, <2>1 DEF Real, Busy
<1>5. CASE IO
  <2>1. task' = task
    BY <1>5, StillWorkers DEF workVars
  <2>2. ASSUME NEW fd \in Fds, NEW n \in 1 .. MaxSends, Receive(fd, n)
        PROVE  \A i \in 1 .. Len(queue') : socket'[queue'[i].fd] = queue'[i].conn
    <3>1. /\ socket[fd] \in Conns /\ wire[socket[fd]] \in Seq(Requests) /\ n \in 1 .. Len(wire[socket[fd]])
      BY <1>0, <2>2, EventFacts DEF Receive, TypeOK, PeerTypeOK
    <3>2. PICK s \in Seq(Packets) : /\ queue' = queue \o s
                                    /\ \A j \in 1 .. Len(s) : s[j].fd = fd /\ s[j].conn = socket[fd]
      <4> DEFINE s == [i \in 1 .. n |-> Packet(fd, socket[fd], wire[socket[fd]][i])]
      <4>1. \A i \in 1 .. n : s[i] \in Packets /\ s[i].fd = fd /\ s[i].conn = socket[fd]
        BY <3>1 DEF Packets, Packet
      <4>2. s \in Seq(Packets) /\ Len(s) = n
        BY <3>1, <4>1
      <4>3. queue' = queue \o s
        BY <2>2 DEF Receive
      <4> QED BY <4>1, <4>2, <4>3
    <3>3. UNCHANGED socket
      BY <2>2 DEF Receive
    <3> TAKE i \in 1 .. Len(queue')
    <3>4. CASE i \in 1 .. Len(queue)
      <4>1. queue'[i] = queue[i]
        BY <1>0, <3>2, <3>4
      <4> QED BY <3>3, <3>4, <4>1 DEF Real
    <3>5. CASE i \notin 1 .. Len(queue)
      <4>1. queue'[i] = s[i - Len(queue)] /\ i - Len(queue) \in 1 .. Len(s)
        BY <1>0, <3>2, <3>5
      <4> QED BY <3>2, <3>3, <4>1
    <3> QED BY <3>4, <3>5
  <2>3. CASE queue' = queue
    BY <1>2, <1>3, <2>1, <2>3 DEF Real, Busy
  <2> QED
    BY <1>2, <1>5, <2>1, <2>2, <2>3
    DEF IO, EpollWait, AcceptFails, Close, Accept, AddFdFails, AddClient, HangUp, Real, Busy
<1>6. ASSUME NEW w \in Workers, Work(w) \/ Dies(w) PROVE Real'
  <2>1. UNCHANGED socket
    BY <1>6, WorkersKeepIO DEF ioVars
  <2>2. task'[w] = NoTask \/ task'[w] = task[w] \/ (Handle(w) /\ task'[w] = Head(queue))
    BY <1>0, <1>6
    DEF Work, Dies, Handle, IsNicknameTaken, SetNickname, AddRoom, GetClient, CheckClient, JoinRoom,
        SetRoomCode, GetRoom, CopyFds, SendNext, LeaveRoom, ClearRoomCode, Reply, BrokenPipe, DanglingUse,
        AfterBroadcast, Idle, workVars
  <2>3. Handle(w) => queue # <<>> /\ queue' = Tail(queue)
    BY DEF Handle
  <2>4. Handle(w) => Head(queue) = queue[1] /\ 1 \in 1 .. Len(queue)
    BY <1>0, <2>3
  <2>5. Handle(w) => \A i \in 1 .. Len(queue') : i + 1 \in 1 .. Len(queue) /\ queue'[i] = queue[i + 1]
    BY <1>0, <2>3
  <2>6. \A i \in 1 .. Len(queue') : socket'[queue'[i].fd] = queue'[i].conn
    BY <1>3, <1>6, <2>1, <2>5, WorkersKeepIO DEF Real
  <2>7. \A v \in Workers : v # w => task'[v] = task[v]
    BY <1>0, <1>6, OtherWorkers
  <2>8. \A v \in Workers : Busy(v)' => socket'[task'[v].fd] = task'[v].conn
    BY <2>1, <2>2, <2>4, <2>7 DEF Real, Busy
  <2> QED BY <2>6, <2>8 DEF Real, Busy
<1> QED BY <1>4, <1>5, <1>6, OutsideWorkers

LEMMA OnceGuest ==
  ASSUME IOInv, NobodyGone, [Next]_vars, NEW fd \in Fds, NEW r, Guest(fd, r)
  PROVE  Guest(fd, r)'
<1>1. socket'[fd] = socket[fd] /\ socket[fd] \in Conns
  BY SocketsStay DEF Guest, IOInv, TypeOK, IOTypeOK
<1>2. joined[socket[fd]] \subseteq joined'[socket[fd]]
  <2>1. joined \in [Conns -> SUBSET Codes]
    BY DEF IOInv, TypeOK, RoomTypeOK
  <2>2. CASE Peers \/ IO \/ UNCHANGED vars
    BY <2>2, StillWorkers DEF roomVars
  <2>3. ASSUME NEW w \in Workers, Work(w) \/ Dies(w) PROVE joined[socket[fd]] \subseteq joined'[socket[fd]]
    BY <1>1, <2>1, <2>3
    DEF Work, Dies, Handle, IsNicknameTaken, SetNickname, AddRoom, GetClient, CheckClient, JoinRoom,
        SetRoomCode, GetRoom, CopyFds, SendNext, LeaveRoom, ClearRoomCode, Reply, BrokenPipe, DanglingUse, roomVars
  <2> QED BY <2>2, <2>3, OutsideWorkers
<1> QED BY <1>1, <1>2 DEF Guest

LEMMA StillGuests ==
  ASSUME IOInv, RoomsSound, NobodyGone, Real, Guests, [Next]_vars
  PROVE  Guests'
<1>0. /\ TypeOK /\ pc \in [Workers -> PcLabels] /\ task \in [Workers -> Packets \cup {NoTask}]
      /\ joined \in [Conns -> SUBSET Codes]
      /\ \A w \in Workers : LocalsOK(w)
  BY DEF IOInv, TypeOK, WorkTypeOK, RoomTypeOK
<1>1. SUFFICES ASSUME NEW fd \in Fds, NEW r \in Codes, InRoom(fd, r)' PROVE Guest(fd, r)'
  BY DEF Guests
<1>2. CASE InRoom(fd, r)
  BY <1>2, OnceGuest DEF Guests
<1>3. CASE Peers \/ IO \/ UNCHANGED vars
  BY <1>1, <1>2, <1>3, StillWorkers DEF InRoom, Used, roomVars
<1>4. ASSUME NEW w \in Workers, Work(w) \/ Dies(w) PROVE Guest(fd, r)'
  <2>1. CASE JoinRoom(w) /\ Admits(r, fd) /\ fd = task[w].fd /\ r = code[w]
    <3>1. task[w] \in Packets
      BY <1>0, <2>1 DEF JoinRoom, LocalsOK
    <3>2. socket'[fd] = task[w].conn /\ task[w].conn \in Conns /\ task[w].conn # NoConn
      BY <1>4, <2>1, <3>1, WorkersKeepIO, PacketFields, ServerAssumption DEF Real, Busy, ioVars
    <3>3. r \in joined'[task[w].conn]
      BY <1>0, <2>1, <3>2 DEF JoinRoom
    <3> QED BY <3>2, <3>3 DEF Guest
  <2> QED BY <1>0, <1>1, <1>2, <1>4, <2>1, WhoIsIn
<1> QED BY <1>3, <1>4, OutsideWorkers

LEMMA StillTargets ==
  ASSUME IOInv, NobodyGone, Guests, Targets, \A v, w \in Workers : v = w, [Next]_vars
  PROVE  Targets'
<1>0. /\ TypeOK /\ pc \in [Workers -> PcLabels] /\ code \in [Workers -> Codes \cup {NoCode}]
      /\ todo \in [Workers -> Seq(Fds)] /\ rooms \in [Codes -> Rooms \cup {NoRoom}]
      /\ \A w \in Workers : LocalsOK(w)
  BY DEF IOInv, TypeOK, WorkTypeOK, RoomTypeOK
<1>1. \A w \in Workers : Range(todo[w]) \subseteq Fds
  BY <1>0 DEF Range
<1>2. ASSUME NEW w \in Workers, pc[w] = "send", pc'[w] = "send", code'[w] = code[w],
             Range(todo'[w]) \subseteq Range(todo[w])
      PROVE  \A fd \in Range(todo'[w]) : Guest(fd, code[w])'
  BY <1>1, <1>2, OnceGuest DEF Targets
<1>3. CASE Peers \/ IO \/ UNCHANGED vars
  <2>1. UNCHANGED <<workVars, roomVars>>
    BY <1>3, StillWorkers
  <2>2. SUFFICES ASSUME NEW w \in Workers, pc[w] = "send", NEW fd \in Range(todo[w]) PROVE Guest(fd, code[w])'
    BY <2>1 DEF Targets, Used, workVars, roomVars, Guest
  <2> QED BY <1>1, <2>1, <2>2, OnceGuest DEF Targets, Guest, workVars
<1>4. ASSUME NEW w \in Workers, Work(w) \/ Dies(w) PROVE Targets'
  <2>1. pc'[w] = "copyFds" => code'[w] \in Used'
    <3> SUFFICES ASSUME pc'[w] = "copyFds" PROVE code'[w] \in Used'
      OBVIOUS
    <3>1. CASE GetRoom(w)
      BY <1>0, <3>1 DEF GetRoom, AfterBroadcast, Idle, Answer, Goto, Used, roomVars
    <3>2. CASE Dies(w)
      BY <3>2 DEF Dies, BrokenPipe, DanglingUse, Targets, Used, workVars, roomVars
    <3>3. CASE Handle(w)
      BY <1>0, <3>3 DEF Handle, Unparsable, Answer, Goto, Entry, workVars
    <3> QED
      BY <1>0, <1>4, <3>1, <3>2, <3>3
      DEF Work, IsNicknameTaken, SetNickname, AddRoom, GetClient, CheckClient, JoinRoom, SetRoomCode, CopyFds,
          SendNext, LeaveRoom, ClearRoomCode, Reply, AfterBroadcast, Idle, Answer, Goto
  <2>2. ASSUME pc'[w] = "send" PROVE \A fd \in Range(todo'[w]) : Guest(fd, code[w])'
    <3>1. CASE CopyFds(w)
      <4>1. code[w] \in Used /\ ~Racing(w)
        BY <3>1 DEF CopyFds, Targets, Racing
      <4>2. todo'[w] = rooms[code[w]].clients /\ code' = code
        BY <1>0, <2>2, <3>1, <4>1 DEF CopyFds, Copies, AfterBroadcast, Idle, Answer, Goto
      <4>3. \A fd \in Range(rooms[code[w]].clients) : fd \in Fds /\ InRoom(fd, code[w])
        <5>1. rooms[code[w]] \in Rooms
          BY <1>0, <4>1 DEF Used
        <5>2. rooms[code[w]].clients \in Seq(Fds)
          BY <5>1 DEF Rooms
        <5> QED BY <4>1, <5>2 DEF InRoom, Range
      <4>4. PICK r \in Codes : r = code[w]
        BY <4>1 DEF Used
      <4>5. \A fd \in Range(rooms[r].clients) : Guest(fd, r)'
        BY <4>3, <4>4, OnceGuest DEF Guests
      <4> QED BY <4>2, <4>4, <4>5 DEF Guest
    <3>2. CASE SendNext(w)
      <4>1. pc[w] = "send" /\ todo'[w] = Tail(todo[w]) /\ code' = code /\ todo[w] \in Seq(Fds) /\ Len(todo[w]) > 1
        BY <1>0, <2>2, <3>2 DEF SendNext, AfterBroadcast, Idle, Answer, Goto
      <4>2. Range(Tail(todo[w])) \subseteq Range(todo[w])
        BY <4>1 DEF Range
      <4> QED BY <1>2, <2>2, <4>1, <4>2
    <3>3. CASE Dies(w)
      <4>1. UNCHANGED workVars
        BY <3>3 DEF Dies, BrokenPipe, DanglingUse
      <4> QED BY <1>2, <2>2, <4>1 DEF workVars
    <3>4. CASE Handle(w)
      BY <1>0, <2>2, <3>4 DEF Handle, Unparsable, Answer, Goto, Entry, workVars
    <3> QED
      BY <1>0, <1>4, <2>2, <3>1, <3>2, <3>3, <3>4
      DEF Work, IsNicknameTaken, SetNickname, AddRoom, GetClient, CheckClient, JoinRoom, SetRoomCode, GetRoom,
          LeaveRoom, ClearRoomCode, Reply, AfterBroadcast, Idle, Answer, Goto
  <2> QED BY <2>1, <2>2 DEF Targets
<1> QED BY <1>3, <1>4, OutsideWorkers

(* With one worker, and while nobody leaves, a room's broadcast reaches    *)
(* only connections that were admitted to the room (Server.cpp:105-116):   *)
(* whatever the peers send, in whatever order.                             *)
THEOREM BroadcastsStayInside ==
  ASSUME Leavers = {}, \A v, w \in Workers : v = w
  PROVE  Spec => []BroadcastsReachMembers
<1>1. Init => Real /\ Guests /\ Targets
  <2> SUFFICES ASSUME Init PROVE Real /\ Guests /\ Targets
    OBVIOUS
  <2>1. /\ queue = <<>> /\ \A r \in Codes : rooms[r] = NoRoom
        /\ \A w \in Workers : pc[w] = "idle" /\ task[w] = NoTask
    BY DEF Init
  <2> QED BY <2>1 DEF Real, Busy, Guests, InRoom, Used, Targets
<1>2. IOInv /\ NobodyGone /\ Real /\ [Next]_vars => Real'
  BY StillReal
<1>3. IOInv /\ RoomsSound /\ NobodyGone /\ Real /\ Guests /\ [Next]_vars => Guests'
  BY StillGuests
<1>4. IOInv /\ NobodyGone /\ Guests /\ Targets /\ [Next]_vars => Targets'
  BY StillTargets
<1>5. IOInv /\ Targets => BroadcastsReachMembers
  <2> SUFFICES ASSUME IOInv, Targets, NEW w \in Workers, pc[w] = "send"
               PROVE  code[w] \in joined[socket[Head(todo[w])]]
    BY DEF BroadcastsReachMembers
  <2>1. todo[w] \in Seq(Fds) /\ todo[w] # <<>>
    BY DEF IOInv, TypeOK, WorkTypeOK, LocalsOK
  <2>2. Head(todo[w]) \in Range(todo[w])
    BY <2>1 DEF Range
  <2> QED BY <2>2 DEF Targets, Guest
<1> QED
  BY <1>1, <1>2, <1>3, <1>4, <1>5, IOInvariant, RoomsKeepLimits, NobodyGoes, PTL DEF Spec
=============================================================================
