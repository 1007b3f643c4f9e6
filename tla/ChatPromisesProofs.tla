------------------------- MODULE ChatPromisesProofs -------------------------
(***************************************************************************)
(* Theorems about what the server promises its clients: nicknames under a  *)
(* single worker, and, for orderly peers and any number of workers, that   *)
(* an answer reaches the peer that asked and that a client is listed in    *)
(* the room its ClientInfo names.                                          *)
(***************************************************************************)
EXTENDS ChatServerProofs

-----------------------------------------------------------------------------
(* Nicknames.  With one worker nothing comes between the test of a name    *)
(* and its entry in the table: the name about to be set is not taken.      *)
NamesListed == \A f \in Holders : info[m_clients[f]].nickname \in m_nicknames

NewNames == \A w \in Workers : pc[w] = "setNickname" => task[w].arg \notin m_nicknames

NameInv == NamesListed /\ NicknamesUnique /\ NewNames

LEMMA NamesKept ==
  ASSUME TypeOK, NameInv, NewNames', UNCHANGED <<m_clients, m_nicknames>>,
         \A x \in Cells : /\ info'[x].nickname = info[x].nickname
                          /\ info'[x].isAuthenticated = info[x].isAuthenticated
  PROVE  NameInv'
<1>1. \A f \in Fds : m_clients[f] # NoCell => m_clients[f] \in Cells
  BY DEF TypeOK, ClientTypeOK
<1>2. Holders' = Holders
  BY <1>1 DEF Holders
<1> QED BY <1>1, <1>2 DEF NameInv, NamesListed, NicknamesUnique, Holders

LEMMA RoomCodeOnly ==
  ASSUME TypeOK, NEW x \in Cells, NEW r \in Codes \cup {NoCode},
         info' = [info EXCEPT ![x].roomCode = r]
  PROVE  \A y \in Cells : /\ info'[y].nickname = info[y].nickname
                          /\ info'[y].isAuthenticated = info[y].isAuthenticated
BY DEF TypeOK, ClientTypeOK, Infos

LEMMA SetNicknameKeepsNames ==
  ASSUME IOInv, NameInv, NEW w \in Workers, SetNickname(w), NewNames'
  PROVE  NameInv'
<1> DEFINE x == m_clients[task[w].fd]
<1>0. TypeOK /\ IOCoherent
  BY DEF IOInv
<1>1. CASE x = NoCell
  BY <1>0, <1>1, NamesKept DEF SetNickname
<1>2. CASE x # NoCell
  <2>1. pc[w] = "setNickname" /\ task[w] \in Packets /\ task[w].fd \in Fds /\ x \in Cells
    BY <1>0, <1>2, PacketFields DEF SetNickname, TypeOK, WorkTypeOK, LocalsOK, ClientTypeOK
  <2>2. /\ info' = [info EXCEPT ![x].nickname = task[w].arg, ![x].isAuthenticated = TRUE]
        /\ m_nicknames' = m_nicknames \cup {task[w].arg} /\ m_clients' = m_clients
        /\ task[w].arg \notin m_nicknames
    BY <1>2, <2>1 DEF SetNickname, NameInv, NewNames
  <2>3. /\ info'[x].nickname = task[w].arg
        /\ \A y \in Cells \ {x} : info'[y] = info[y]
    BY <1>0, <2>1, <2>2 DEF TypeOK, ClientTypeOK, Infos
  <2>4. \A f \in Fds : f # task[w].fd /\ m_clients[f] # NoCell => m_clients[f] \in Cells \ {x}
    BY <1>0, <2>1 DEF IOCoherent, TypeOK, ClientTypeOK
  <2>5. \A f \in Holders' : f # task[w].fd => f \in Holders /\ info'[m_clients[f]] = info[m_clients[f]]
    BY <2>2, <2>3, <2>4 DEF Holders
  <2>6. \A f \in Holders' : f # task[w].fd => info'[m_clients[f]].nickname # task[w].arg
    BY <2>2, <2>5 DEF NameInv, NamesListed
  <2>9. m_clients' = m_clients /\ m_nicknames' = m_nicknames \cup {task[w].arg}
    BY <2>2
  <2>7. NamesListed'
    <3>1. ASSUME NEW f \in Holders' PROVE info'[m_clients'[f]].nickname \in m_nicknames'
      <4>1. CASE f = task[w].fd
        BY <2>9, <2>3, <4>1
      <4>2. CASE f # task[w].fd
        BY <2>9, <2>5, <4>2 DEF NameInv, NamesListed
      <4> QED BY <4>1, <4>2
    <3> QED BY <3>1 DEF NamesListed
  <2>8. NicknamesUnique'
    <3>1. ASSUME NEW f \in Holders', NEW g \in Holders',
                 info'[m_clients'[f]].nickname = info'[m_clients'[g]].nickname
          PROVE  f = g
      <4>1. CASE f # task[w].fd /\ g # task[w].fd
        BY <2>9, <2>5, <3>1, <4>1 DEF NameInv, NicknamesUnique
      <4>2. CASE f = task[w].fd \/ g = task[w].fd
        BY <2>9, <2>3, <2>6, <3>1, <4>2
      <4> QED BY <4>1, <4>2
    <3> QED BY <3>1 DEF NicknamesUnique
  <2> QED BY <2>7, <2>8 DEF NameInv
<1> QED BY <1>1, <1>2

LEMMA AddClientKeepsNames ==
  ASSUME IOInv, NameInv, NEW x \in Cells, AddClient(x)
  PROVE  NameInv'
<1>1. /\ adding \in Fds /\ m_clients[adding] = NoCell /\ x \notin Live
      /\ UNCHANGED <<m_nicknames, pc, task>>
  BY DEF AddClient, IOInv, IOCoherent, TypeOK, IOTypeOK, workVars
<1>2. /\ \A g \in Fds : m_clients'[g] = IF g = adding THEN x ELSE m_clients[g]
      /\ \A y \in Cells : info'[y] = IF y = x THEN Blank ELSE info[y]
  BY DEF AddClient, IOInv, TypeOK, ClientTypeOK
<1>3. ~Blank.isAuthenticated
  BY DEF Blank
<1>4. \A g \in Fds \ {adding} : m_clients[g] # NoCell => m_clients[g] \in Cells \ {x}
  BY <1>1 DEF Live, IOInv, TypeOK, ClientTypeOK
<1>5. \A f \in Holders' : f \in Holders /\ m_clients'[f] = m_clients[f] /\ info'[m_clients[f]] = info[m_clients[f]]
  BY <1>1, <1>2, <1>3, <1>4 DEF Holders
<1> QED BY <1>1, <1>5 DEF NameInv, NamesListed, NicknamesUnique, NewNames

LEMMA HangUpKeepsNames ==
  ASSUME IOInv, NameInv, NEW fd \in Fds, HangUp(fd)
  PROVE  NameInv'
<1>1. /\ m_clients[fd] # NoCell /\ UNCHANGED <<info, pc, task>>
      /\ m_nicknames' = IF info[m_clients[fd]].isAuthenticated
                          THEN m_nicknames \ {info[m_clients[fd]].nickname} ELSE m_nicknames
  BY EventFacts DEF HangUp, RemoveClient, workVars
<1>2. \A g \in Fds : m_clients'[g] = IF g = fd THEN NoCell ELSE m_clients[g]
  BY DEF HangUp, RemoveClient, IOInv, TypeOK, ClientTypeOK
<1>3. Holders' = Holders \ {fd} /\ \A f \in Holders' : m_clients'[f] = m_clients[f]
  BY <1>1, <1>2 DEF Holders
<1>4. info[m_clients[fd]].isAuthenticated => fd \in Holders
  BY <1>1 DEF Holders
<1>5. NamesListed'
  BY <1>1, <1>3, <1>4 DEF NameInv, NamesListed, NicknamesUnique
<1> QED BY <1>1, <1>3, <1>5 DEF NameInv, NicknamesUnique, NewNames

LEMMA NamesKeptSerially ==
  ASSUME \A v, w \in Workers : v = w
  PROVE  Spec => []NameInv
<1>1. Init => NameInv
  BY DEF Init, NameInv, NamesListed, NicknamesUnique, NewNames, Holders
<1>2. IOInv /\ NameInv /\ [Next]_vars => NameInv'
  <2> SUFFICES ASSUME IOInv, NameInv, [Next]_vars PROVE NameInv'
    OBVIOUS
  <2>0. TypeOK
    BY DEF IOInv
  <2>1. CASE UNCHANGED <<clientVars, pc, task>>
    <3>1. NewNames'
      BY <2>1 DEF NameInv, NewNames, clientVars
    <3> QED BY <2>0, <2>1, <3>1, NamesKept DEF clientVars
  <2>2. CASE IO
    BY <2>1, <2>2, AddClientKeepsNames, HangUpKeepsNames
    DEF IO, EpollWait, AcceptFails, AddFdFails, Accept, Receive, Close, workVars
  <2>3. CASE Peers \/ Rest \/ UNCHANGED vars
    BY <2>1, <2>3 DEF Peers, Rest, Connect, Read, Disconnect, Send, workVars, vars
  <2>4. ASSUME NEW w \in Workers, Work(w) \/ Dies(w) PROVE NameInv'
    <3>1. NewNames'
      <4> SUFFICES ASSUME NEW v \in Workers, pc'[v] = "setNickname"
                   PROVE  task'[v].arg \notin m_nicknames'
        BY DEF NewNames
      <4>1. v = w
        OBVIOUS
      <4>2. pc \in [Workers -> PcLabels] /\ task \in [Workers -> Packets \cup {NoTask}]
        BY <2>0 DEF TypeOK, WorkTypeOK
      <4>3. CASE IsNicknameTaken(w)
        BY <4>1, <4>2, <4>3 DEF IsNicknameTaken, Answer, Goto, clientVars
      <4>4. CASE Dies(w)
        BY <4>4 DEF Dies, BrokenPipe, DanglingUse, workVars, clientVars, NameInv, NewNames
      <4>5. CASE Handle(w)
        BY <4>1, <4>2, <4>5 DEF Handle, Answer, Goto, Entry, workVars, clientVars, NameInv, NewNames
      <4> QED
        BY <2>4, <4>1, <4>2, <4>3, <4>4, <4>5
        DEF Work, SetNickname, AddRoom, GetClient, CheckClient, JoinRoom, SetRoomCode, GetRoom, CopyFds,
            SendNext, LeaveRoom, ClearRoomCode, Reply, AfterBroadcast, Idle, Answer, Goto,
            NameInv, NewNames, clientVars
    <3>2. CASE SetNickname(w)
      BY <3>1, <3>2, SetNicknameKeepsNames
    <3>3. CASE UNCHANGED clientVars
      BY <2>0, <3>1, <3>3, NamesKept DEF clientVars
    <3>4. CASE SetRoomCode(w) \/ ClearRoomCode(w)
      <4>1. ptr[w] \in Cells /\ code[w] \in Codes \cup {NoCode}
        BY <2>0, <3>4 DEF TypeOK, WorkTypeOK, LocalsOK, SetRoomCode, ClearRoomCode
      <4>2. /\ UNCHANGED <<m_clients, m_nicknames>>
            /\ \E r \in Codes \cup {NoCode} : info' = [info EXCEPT ![ptr[w]].roomCode = r]
        BY <3>4, <4>1 DEF SetRoomCode, ClearRoomCode
      <4> QED BY <2>0, <3>1, <4>1, <4>2, RoomCodeOnly, NamesKept
    <3> QED
      BY <2>4, <3>2, <3>3, <3>4
      DEF Work, Dies, Handle, IsNicknameTaken, AddRoom, GetClient, CheckClient, JoinRoom,
          GetRoom, CopyFds, SendNext, LeaveRoom, Reply, BrokenPipe, DanglingUse
  <2> QED BY <2>2, <2>3, <2>4 DEF Next
<1> QED BY <1>1, <1>2, IOInvariant, PTL DEF Spec

(* With a single worker two clients never hold the same nickname: what     *)
(* NicknameHandler.cpp:31-38 lets two workers do takes two workers.        *)
THEOREM SerialNicknames ==
  ASSUME \A v, w \in Workers : v = w
  PROVE  Spec => []NicknamesUnique
<1>1. NameInv => NicknamesUnique
  BY DEF NameInv
<1> QED BY <1>1, NamesKeptSerially, PTL

-----------------------------------------------------------------------------
(* Answers.  An orderly peer has at most one request other than a chat     *)
(* message on its way, and waits for the answer while it has one.  As long *)
(* as it waits it does not leave, so the server does not hang up on it and *)
(* its descriptor is not given to anybody else.                            *)
IsAsk(q) == q.type # "MESSAGE"

Engaged(w) == task[w] # NoTask /\ IsAsk(task[w])

AskIsLast ==
  \A c \in Conns : \A i \in 1 .. Len(wire[c]) :
    IsAsk(wire[c][i]) => i = Len(wire[c]) /\ peer[c] \in {"waiting", "dropped"}

Cut == \A c \in Conns :
  /\ peer[c] = "off" => wire[c] = <<>>
  /\ peer[c] = "dropped" => c \notin pending /\ \A fd \in Fds : socket[fd] # c

Held(q) == peer[q.conn] = "waiting" /\ wire[q.conn] = <<>> /\ socket[q.fd] = q.conn

QueueHeld == \A i \in 1 .. Len(queue) : IsAsk(queue[i]) => Held(queue[i])

TasksHeld == \A w \in Workers : Engaged(w) => Held(task[w])

QueueApart ==
  \A i, j \in 1 .. Len(queue) :
    IsAsk(queue[i]) /\ IsAsk(queue[j]) /\ queue[i].conn = queue[j].conn => i = j

TasksApart ==
  \A v, w \in Workers : Engaged(v) /\ Engaged(w) /\ task[v].conn = task[w].conn => v = w

BothApart ==
  \A i \in 1 .. Len(queue), w \in Workers :
    IsAsk(queue[i]) /\ Engaged(w) => queue[i].conn # task[w].conn

AskSteps == {"isNicknameTaken", "setNickname", "addRoom", "joinRoom", "setRoomCode", "leaveRoom",
             "clearRoomCode", "reply"}

AskAnswered == \A w \in Workers : pc[w] \in AskSteps => Engaged(w)

OneAsk == /\ AskIsLast /\ Cut /\ QueueHeld /\ TasksHeld
          /\ QueueApart /\ TasksApart /\ BothApart /\ AskAnswered

LEMMA InQueue == ASSUME TypeOK, NEW i \in 1 .. Len(queue) PROVE queue[i] \in Packets
BY ElementOfSeq DEF TypeOK

(* A step that moves no packet and leaves peers and descriptors alone.     *)
LEMMA StillKeepsAsks ==
  ASSUME TypeOK, OneAsk, UNCHANGED <<peer, wire, pending, socket, queue>>,
         \A v \in Workers : task'[v] \in {task[v], NoTask},
         AskAnswered'
  PROVE  OneAsk'
<1>1. \A q \in Packets : Held(q)' <=> Held(q)
  BY DEF Held
<1>2. \A v \in Workers : Engaged(v)' => Engaged(v) /\ task'[v] = task[v]
  BY DEF Engaged
<1>3. \A v \in Workers : Engaged(v) => task[v] \in Packets
  BY DEF Engaged, TypeOK, WorkTypeOK
<1>4. AskIsLast' /\ Cut' /\ QueueApart'
  BY DEF OneAsk, AskIsLast, Cut, QueueApart
<1>5. QueueHeld'
  BY <1>1, InQueue DEF OneAsk, QueueHeld
<1>6. TasksHeld' /\ TasksApart' /\ BothApart'
  BY <1>1, <1>2, <1>3 DEF OneAsk, TasksHeld, TasksApart, BothApart
<1> QED BY <1>4, <1>5, <1>6 DEF OneAsk

(* Only requests that are answered reach the steps of an answer.           *)
LEMMA WorkersAnswerAsks ==
  ASSUME TypeOK, OneAsk, NEW w \in Workers, Work(w) \/ Dies(w)
  PROVE  AskAnswered'
<1>0. pc \in [Workers -> PcLabels] /\ task \in [Workers -> Packets \cup {NoTask}]
  BY DEF TypeOK, WorkTypeOK
<1>1. SUFFICES ASSUME pc'[w] \in AskSteps PROVE Engaged(w)'
  <2>1. \A v \in Workers \ {w} : pc'[v] = pc[v] /\ task'[v] = task[v]
    BY <1>0
    DEF Work, Dies, Handle, IsNicknameTaken, SetNickname, AddRoom, GetClient, CheckClient, JoinRoom,
        SetRoomCode, GetRoom, CopyFds, SendNext, LeaveRoom, ClearRoomCode, Reply, BrokenPipe,
        DanglingUse, AfterBroadcast, Idle, Answer, Goto, workVars
  <2>2. \A v \in Workers \ {w} : pc'[v] \in AskSteps => Engaged(v)'
    BY <2>1 DEF OneAsk, AskAnswered, Engaged
  <2> QED BY <1>1, <2>2 DEF AskAnswered
<1>2. CASE Handle(w)
  <2>1. queue # <<>> /\ Head(queue) \in Packets
    BY <1>2, HeadTailProperties DEF Handle, TypeOK
  <2>2. pc[w] = "idle"
    BY <1>2 DEF Handle
  <2>3. task' = [task EXCEPT ![w] = Head(queue)] /\ Head(queue).type # "MESSAGE"
    BY <1>0, <1>1, <1>2, <2>2 DEF Handle, Entry, Unparsable, Answer, Goto, AskSteps, workVars
  <2> QED BY <1>0, <2>1, <2>3, PacketFields DEF Engaged, IsAsk
<1>3. ASSUME pc[w] \in AskSteps, task' = task PROVE Engaged(w)'
  BY <1>3 DEF OneAsk, AskAnswered, Engaged
<1>4. ASSUME task[w].type # "MESSAGE", pc[w] # "idle", task' = task PROVE Engaged(w)'
  BY <1>4 DEF Engaged, IsAsk, TypeOK, WorkTypeOK, LocalsOK
<1>5. CASE GetClient(w)
  BY <1>0, <1>1, <1>4, <1>5 DEF GetClient, Idle, Goto, AskSteps
<1>6. CASE CheckClient(w)
  BY <1>0, <1>1, <1>4, <1>6 DEF CheckClient, Idle, Goto, AskSteps
<1>7. CASE GetRoom(w) \/ CopyFds(w) \/ SendNext(w)
  BY <1>0, <1>1, <1>4, <1>7 DEF GetRoom, CopyFds, SendNext, AfterBroadcast, Idle, Goto, AskSteps
<1>8. CASE Reply(w)
  BY <1>0, <1>1, <1>8 DEF Reply, Idle, Goto, AskSteps
<1>9. CASE Dies(w)
  BY <1>1, <1>9 DEF Dies, BrokenPipe, DanglingUse, workVars, OneAsk, AskAnswered, Engaged
<1> QED
  BY <1>1, <1>2, <1>3, <1>5, <1>6, <1>7, <1>8, <1>9
  DEF Work, IsNicknameTaken, SetNickname, AddRoom, JoinRoom, SetRoomCode, LeaveRoom, ClearRoomCode, AskSteps

LEMMA HandleKeepsAsks ==
  ASSUME TypeOK, OneAsk, NEW w \in Workers, Handle(w)
  PROVE  OneAsk'
<1> DEFINE q == Head(queue)
<1>0. /\ queue # <<>> /\ queue' = Tail(queue) /\ UNCHANGED <<peer, wire, pending, socket>>
      /\ pc[w] = "idle" /\ (task' = task \/ task' = [task EXCEPT ![w] = q])
  BY DEF Handle, peerVars, ioVars, workVars
<1>1. task \in [Workers -> Packets \cup {NoTask}] /\ task[w] = NoTask
  BY <1>0 DEF TypeOK, WorkTypeOK, LocalsOK
<1>2. /\ q = queue[1] /\ Len(queue) \in Nat \ {0} /\ Len(queue') = Len(queue) - 1
      /\ \A i \in 1 .. Len(queue') : i + 1 \in 1 .. Len(queue) /\ queue'[i] = queue[i + 1]
  BY <1>0, HeadTailProperties DEF TypeOK
<1>3. \A v \in Workers : Engaged(v)' => (v = w /\ task'[v] = q) \/ (v # w /\ Engaged(v) /\ task'[v] = task[v])
  BY <1>0, <1>1 DEF Engaged
<1>4. 1 \in 1 .. Len(queue) /\ \A i \in 1 .. Len(queue') : i + 1 # 1
  BY <1>2
<1>5. \A p : Held(p)' <=> Held(p)
  BY <1>0 DEF Held
<1>6. AskIsLast' /\ Cut'
  BY <1>0 DEF OneAsk, AskIsLast, Cut
<1>7. QueueHeld'
  BY <1>2, <1>5 DEF OneAsk, QueueHeld
<1>8. TasksHeld'
  BY <1>2, <1>3, <1>4, <1>5 DEF OneAsk, QueueHeld, TasksHeld, Engaged
<1>9. QueueApart'
  <2> SUFFICES ASSUME NEW i \in 1 .. Len(queue'), NEW j \in 1 .. Len(queue'), IsAsk(queue'[i]),
                      IsAsk(queue'[j]), queue'[i].conn = queue'[j].conn
               PROVE  i = j
    BY DEF QueueApart
  <2>1. i + 1 = j + 1
    BY <1>2 DEF OneAsk, QueueApart
  <2> QED BY <1>2, <2>1
<1>10. TasksApart'
  BY <1>2, <1>3, <1>4 DEF OneAsk, TasksApart, BothApart, Engaged
<1>11. BothApart'
  BY <1>2, <1>3, <1>4 DEF OneAsk, QueueApart, BothApart, Engaged
<1>12. AskAnswered'
  BY WorkersAnswerAsks DEF Work
<1> QED BY <1>6, <1>7, <1>8, <1>9, <1>10, <1>11, <1>12 DEF OneAsk

LEMMA ReplyKeepsAsks ==
  ASSUME TypeOK, OneAsk, NEW w \in Workers, Reply(w)
  PROVE  OneAsk'
<1> DEFINE c == task[w].conn
<1>1. Engaged(w) /\ Held(task[w]) /\ task[w] \in Packets /\ c \in Conns
  BY PacketFields DEF Reply, OneAsk, AskAnswered, AskSteps, TasksHeld, Engaged, TypeOK, WorkTypeOK
<1>2. UNCHANGED <<wire, pending, socket, queue>>
  BY DEF Reply, ioVars
<1>3. \A v \in Workers : task'[v] = IF v = w THEN NoTask ELSE task[v]
  BY DEF Reply, Idle, TypeOK, WorkTypeOK
<1>4. Believes(task[w], response[w]) \in {"lobby", "anon", "chat"}
  BY DEF Believes
<1>5. \A d \in Conns : /\ d # c => peer'[d] = peer[d]
                       /\ d = c => peer'[d] \in {"lobby", "anon", "chat"}
  <2>1. peer' = [peer EXCEPT ![c] = Believes(task[w], response[w])]
    BY <1>1, ServerAssumption DEF Reply, Held
  <2> QED BY <1>1, <1>4, <2>1 DEF TypeOK, PeerTypeOK
<1>6. \A p \in Packets : p.conn # c /\ Held(p) => Held(p)'
  BY <1>2, <1>5, PacketFields DEF Held
<1>7. \A v \in Workers : Engaged(v)' => v # w /\ Engaged(v) /\ task'[v] = task[v] /\ task[v] \in Packets
  BY <1>3 DEF Engaged, TypeOK, WorkTypeOK
<1>8. AskIsLast'
  <2>1. wire[c] = <<>>
    BY <1>1 DEF Held
  <2> QED BY <1>2, <1>5, <2>1 DEF OneAsk, AskIsLast
<1>9. Cut'
  BY <1>2, <1>5 DEF OneAsk, Cut
<1>10. QueueHeld'
  BY <1>1, <1>2, <1>6, InQueue DEF OneAsk, QueueHeld, BothApart
<1>11. TasksHeld' /\ TasksApart'
  BY <1>1, <1>6, <1>7 DEF OneAsk, TasksHeld, TasksApart
<1>12. QueueApart' /\ BothApart'
  BY <1>2, <1>7 DEF OneAsk, QueueApart, BothApart
<1>13. AskAnswered'
  BY WorkersAnswerAsks DEF Work
<1> QED BY <1>8, <1>9, <1>10, <1>11, <1>12, <1>13 DEF OneAsk

LEMMA PeersKeepAsks ==
  ASSUME Orderly, IOInv, OneAsk, NEW c \in Conns,
         Connect(c) \/ Read(c) \/ Disconnect(c) \/ \E q \in Requests : Send(c, q)
  PROVE  OneAsk'
<1>0. /\ peer \in [Conns -> {"off", "anon", "lobby", "chat", "waiting", "gone", "dropped"}]
      /\ wire \in [Conns -> Seq(Requests)] /\ TypeOK
  BY DEF IOInv, TypeOK, PeerTypeOK
<1>1. /\ UNCHANGED <<socket, queue, task, pc>>
      /\ \A d \in Conns \ {c} : peer'[d] = peer[d] /\ wire'[d] = wire[d] /\ (d \in pending' <=> d \in pending)
  BY <1>0 DEF Connect, Read, Disconnect, Send, ioVars, workVars
<1>2. AskAnswered'
  BY <1>1 DEF OneAsk, AskAnswered, Engaged
<1>3. CASE Read(c)
  BY <1>0, <1>1, <1>2, <1>3, StillKeepsAsks DEF Read
<1>4. ASSUME peer[c] # "waiting", AskIsLast', Cut' PROVE OneAsk'
  <2>1. \A p \in Packets : Held(p) => Held(p)'
    BY <1>1, <1>4, PacketFields DEF Held
  <2>2. \A v \in Workers : Engaged(v) => task[v] \in Packets
    BY <1>0 DEF Engaged, TypeOK, WorkTypeOK
  <2>3. QueueHeld' /\ QueueApart'
    BY <1>0, <1>1, <2>1, InQueue DEF OneAsk, QueueHeld, QueueApart
  <2>4. TasksHeld' /\ TasksApart' /\ BothApart'
    BY <1>1, <2>1, <2>2 DEF OneAsk, TasksHeld, TasksApart, BothApart, Engaged
  <2> QED BY <1>2, <1>4, <2>3, <2>4 DEF OneAsk
<1>5. CASE Connect(c)
  <2>1. peer[c] = "off" /\ peer'[c] = "anon" /\ wire' = wire
    BY <1>0, <1>5 DEF Connect
  <2>2. AskIsLast' /\ Cut'
    BY <1>1, <2>1 DEF OneAsk, AskIsLast, Cut
  <2> QED BY <1>4, <2>1, <2>2
<1>6. CASE Disconnect(c)
  <2>1. peer[c] \in {"anon", "lobby", "chat"} /\ peer'[c] = "gone" /\ UNCHANGED <<wire, pending>>
    BY <1>0, <1>6 DEF Disconnect, Connected
  <2>2. AskIsLast' /\ Cut'
    BY <1>1, <2>1 DEF OneAsk, AskIsLast, Cut
  <2> QED BY <1>4, <2>1, <2>2
<1>7. ASSUME NEW q \in Requests, Send(c, q) PROVE OneAsk'
  <2>1. /\ peer[c] \in {"anon", "lobby", "chat"} /\ q.type # "UNKNOWN" /\ pending' = pending
        /\ peer' = [peer EXCEPT ![c] = IF q.type \in {"MESSAGE", "UNKNOWN"} THEN @ ELSE "waiting"]
        /\ wire' = [wire EXCEPT ![c] = Append(@, q)]
    BY <1>0, <1>7, ServerAssumption DEF Send, Asks, RequestTypes
  <2>2. /\ peer'[c] = IF IsAsk(q) THEN "waiting" ELSE peer[c]
        /\ wire'[c] = Append(wire[c], q) /\ wire[c] \in Seq(Requests)
    BY <1>0, <2>1 DEF IsAsk
  <2>3. /\ Len(wire'[c]) = Len(wire[c]) + 1 /\ Len(wire[c]) \in Nat
        /\ \A i \in 1 .. Len(wire'[c]) :
             wire'[c][i] = IF i = Len(wire'[c]) THEN q ELSE wire[c][i]
    BY <2>2, AppendProperties
  <2>4. \A i \in 1 .. Len(wire[c]) : ~IsAsk(wire[c][i])
    BY <2>1 DEF OneAsk, AskIsLast
  <2>5. \A i \in 1 .. Len(wire'[c]) :
          IsAsk(wire'[c][i]) => i = Len(wire'[c]) /\ peer'[c] \in {"waiting", "dropped"}
    BY <2>2, <2>3, <2>4
  <2>6. AskIsLast'
    BY <1>1, <2>5 DEF OneAsk, AskIsLast
  <2>7. Cut'
    BY <1>1, <2>1, <2>2 DEF OneAsk, Cut
  <2> QED BY <1>4, <2>1, <2>6, <2>7
<1> QED BY <1>3, <1>5, <1>6, <1>7

LEMMA ReceiveKeepsAsks ==
  ASSUME IOInv, OneAsk, NEW fd \in Fds, NEW n \in 1 .. MaxSends, Receive(fd, n)
  PROVE  OneAsk'
<1> DEFINE c == socket[fd]
           read == [i \in 1 .. n |-> Packet(fd, c, wire[c][i])]
           Still(p) == peer[p.conn] = "waiting" /\ wire'[p.conn] = <<>> /\ socket[p.fd] = p.conn
<1>0. /\ c \in Conns /\ TypeOK /\ wire[c] \in Seq(Requests) /\ queue \in Seq(Packets)
  BY EventFacts DEF Receive, IOInv, TypeOK, PeerTypeOK
<1>1. /\ n \in 1 .. Len(wire[c]) /\ queue' = queue \o read
      /\ wire' = [wire EXCEPT ![c] = SubSeq(@, n + 1, Len(@))]
      /\ UNCHANGED <<peer, pending, socket, task, pc>>
  BY DEF Receive, workVars
<1>2. /\ wire'[c] = SubSeq(wire[c], n + 1, Len(wire[c]))
      /\ \A d \in Conns \ {c} : wire'[d] = wire[d]
  BY <1>0, <1>1 DEF IOInv, TypeOK, PeerTypeOK
<1>3. /\ Len(wire[c]) \in Nat /\ n \in Nat /\ Len(wire'[c]) = Len(wire[c]) - n
      /\ \A i \in 1 .. Len(wire'[c]) : n + i \in 1 .. Len(wire[c]) /\ wire'[c][i] = wire[c][n + i]
  BY <1>0, <1>1, <1>2
<1>4. read \in Seq(Packets) /\ Len(read) = n
  <2>1. \A i \in 1 .. n : wire[c][i] \in Requests
    BY <1>0, <1>1
  <2> QED BY <1>0, <1>3, <2>1, PacketType
<1>5. /\ Len(queue) \in Nat /\ Len(queue') = Len(queue) + n
      /\ \A i \in 1 .. Len(queue) : queue'[i] = queue[i]
      /\ \A i \in 1 .. Len(queue') : i > Len(queue) =>
           /\ i - Len(queue) \in 1 .. n
           /\ queue'[i] = Packet(fd, c, wire[c][i - Len(queue)])
  BY <1>0, <1>1, <1>3, <1>4
<1>6. peer[c] # "dropped"
  BY <1>0 DEF OneAsk, Cut
<1>7. \A i \in 1 .. Len(queue') : i > Len(queue) /\ IsAsk(queue'[i]) =>
        i = Len(queue') /\ n = Len(wire[c]) /\ peer[c] = "waiting" /\ queue'[i].fd = fd /\ queue'[i].conn = c
  <2> SUFFICES ASSUME NEW i \in 1 .. Len(queue'), i > Len(queue), IsAsk(queue'[i])
               PROVE  i = Len(queue') /\ n = Len(wire[c]) /\ peer[c] = "waiting"
                        /\ queue'[i].fd = fd /\ queue'[i].conn = c
    OBVIOUS
  <2> DEFINE k == i - Len(queue)
  <2>1. k \in 1 .. n /\ queue'[i] = Packet(fd, c, wire[c][k])
    BY <1>5
  <2>2. IsAsk(wire[c][k]) /\ queue'[i].fd = fd /\ queue'[i].conn = c
    BY <2>1 DEF Packet, IsAsk
  <2>3. k \in 1 .. Len(wire[c])
    BY <1>1, <1>3, <2>1
  <2>4. k = Len(wire[c]) /\ peer[c] = "waiting"
    BY <1>0, <1>6, <2>2, <2>3 DEF OneAsk, AskIsLast
  <2>5. n = Len(wire[c]) /\ k = n
    <3>1. k \in 1 .. n /\ n \in 1 .. Len(wire[c]) /\ Len(wire[c]) \in Nat
      BY <1>1, <1>3, <2>1
    <3>2. k = Len(wire[c])
      BY <2>4
    <3> HIDE DEF k, c
    <3> QED BY <3>1, <3>2
  <2>6. i = Len(queue')
    <3>1. Len(queue) \in Nat /\ Len(queue') = Len(queue) + n /\ n \in Nat
      BY <1>3, <1>5
    <3> QED BY <2>5, <3>1
  <2> QED BY <2>2, <2>4, <2>5, <2>6
<1>8. wire[c] # <<>>
  BY <1>0, <1>1
<1>9. \A p \in Packets : Held(p) => Still(p) /\ p.conn # c
  BY <1>1, <1>2, <1>8, PacketFields DEF Held
<1>10. AskIsLast'
  <2>1. \A i \in 1 .. Len(wire'[c]) :
          IsAsk(wire'[c][i]) => i = Len(wire'[c]) /\ peer[c] \in {"waiting", "dropped"}
    BY SMTT(30), <1>0, <1>3 DEF OneAsk, AskIsLast
  <2> QED BY <1>1, <1>2, <2>1 DEF OneAsk, AskIsLast
<1>11. Cut'
  <2>1. peer[c] # "off"
    BY <1>0, <1>8 DEF OneAsk, Cut
  <2> QED BY <1>1, <1>2, <2>1 DEF OneAsk, Cut
<1>12. \A i \in 1 .. Len(queue) : IsAsk(queue[i]) => Still(queue[i]) /\ queue[i].conn # c
  <2> HIDE DEF Still
  <2> QED BY <1>0, <1>9, InQueue DEF OneAsk, QueueHeld
<1>13. \A v \in Workers : Engaged(v) => Still(task[v]) /\ task[v].conn # c
  <2> HIDE DEF Still
  <2>1. \A v \in Workers : Engaged(v) => task[v] \in Packets
    BY <1>0 DEF Engaged, TypeOK, WorkTypeOK
  <2> QED BY <1>9, <2>1 DEF OneAsk, TasksHeld
<1>14. QueueHeld'
  <2>1. ASSUME NEW i \in 1 .. Len(queue'), IsAsk(queue'[i]) PROVE Still(queue'[i])
    <3>1. CASE i <= Len(queue)
      <4>1. i \in 1 .. Len(queue) /\ queue'[i] = queue[i]
        BY <1>5, <3>1
      <4> HIDE DEF Still
      <4> QED BY <1>12, <2>1, <4>1
    <3>2. CASE i > Len(queue)
      <4>1. n = Len(wire[c]) /\ peer[c] = "waiting" /\ queue'[i].fd = fd /\ queue'[i].conn = c
        BY <1>7, <2>1, <3>2
      <4>2. wire'[c] = <<>>
        BY <1>0, <1>3, <1>2, <4>1
      <4> QED BY <4>1, <4>2
    <3> QED BY <1>5, <3>1, <3>2
  <2> QED BY <1>1, <2>1 DEF QueueHeld, Held
<1>15. QueueApart'
  <2> SUFFICES ASSUME NEW i \in 1 .. Len(queue'), NEW j \in 1 .. Len(queue'), IsAsk(queue'[i]),
                      IsAsk(queue'[j]), queue'[i].conn = queue'[j].conn
               PROVE  i = j
    BY DEF QueueApart
  <2>1. CASE i > Len(queue) \/ j > Len(queue)
    <3>1. \A k \in 1 .. Len(queue') : k <= Len(queue) /\ IsAsk(queue'[k]) => queue'[k].conn # c
      BY <1>5, <1>12
    <3>2. i > Len(queue) /\ j > Len(queue)
      BY <1>5, <1>7, <2>1, <3>1
    <3> QED BY <1>7, <3>2
  <2>2. CASE i <= Len(queue) /\ j <= Len(queue)
    BY <1>5, <2>2 DEF OneAsk, QueueApart
  <2> QED BY <1>5, <2>1, <2>2
<1>16. TasksHeld' /\ TasksApart' /\ BothApart' /\ AskAnswered'
  <2>1. TasksHeld' /\ TasksApart' /\ AskAnswered'
    BY <1>1, <1>13 DEF OneAsk, TasksHeld, TasksApart, AskAnswered, Engaged, Held
  <2>2. BothApart'
    <3> SUFFICES ASSUME NEW i \in 1 .. Len(queue'), NEW v \in Workers, IsAsk(queue'[i]), Engaged(v)
                 PROVE  queue'[i].conn # task[v].conn
      BY <1>1 DEF BothApart, Engaged
    <3>1. CASE i <= Len(queue)
      <4>1. i \in 1 .. Len(queue) /\ queue'[i] = queue[i]
        BY <1>5, <3>1
      <4> QED BY <4>1 DEF OneAsk, BothApart
    <3>2. CASE i > Len(queue)
      BY <1>7, <1>13, <3>2
    <3> QED BY <1>5, <3>1, <3>2
  <2> QED BY <2>1, <2>2
<1> QED BY <1>10, <1>11, <1>14, <1>15, <1>16 DEF OneAsk

(* A step of the I/O thread that gives a descriptor to a waiting           *)
(* connection, or takes one from a connection nobody waits on.             *)
LEMMA SocketsKeepAsks ==
  ASSUME TypeOK, OneAsk, UNCHANGED <<wire, queue, task, pc>>, AskIsLast', Cut',
         \A p \in Packets : Held(p) => Held(p)'
  PROVE  OneAsk'
<1>1. QueueHeld' /\ QueueApart'
  BY InQueue DEF OneAsk, QueueHeld, QueueApart
<1>2. TasksHeld' /\ TasksApart' /\ BothApart' /\ AskAnswered'
  BY DEF OneAsk, TasksHeld, TasksApart, BothApart, AskAnswered, Engaged, TypeOK, WorkTypeOK
<1> QED BY <1>1, <1>2 DEF OneAsk

LEMMA IOKeepsAsks ==
  ASSUME IOInv, OneAsk, IO
  PROVE  OneAsk'
<1>0. /\ TypeOK /\ socket \in [Fds -> Conns \cup {NoConn}] /\ NoConn \notin Conns
      /\ peer \in [Conns -> {"off", "anon", "lobby", "chat", "waiting", "gone", "dropped"}]
  BY ServerAssumption DEF IOInv, TypeOK, IOTypeOK, PeerTypeOK
<1>1. CASE UNCHANGED <<peer, wire, pending, socket, queue, task, pc>>
  BY <1>0, <1>1, StillKeepsAsks DEF OneAsk, AskAnswered, Engaged
<1>2. ASSUME NEW c \in Conns, NEW fd \in Fds, Accept(c, fd) PROVE OneAsk'
  <2>1. /\ UNCHANGED <<peer, wire, queue, task, pc>> /\ c \in pending /\ pending' = pending \ {c}
        /\ socket[fd] = NoConn /\ \A g \in Fds : socket'[g] = IF g = fd THEN c ELSE socket[g]
    BY <1>0, <1>2 DEF Accept, Open, workVars
  <2>2. \A p \in Packets : Held(p) => Held(p)'
    BY <1>0, <2>1, PacketFields DEF Held
  <2>3. AskIsLast' /\ Cut'
    BY <2>1 DEF OneAsk, AskIsLast, Cut
  <2> QED BY <1>0, <2>1, <2>2, <2>3, SocketsKeepAsks
<1>3. ASSUME NEW c \in Conns, AddFdFails(c) PROVE OneAsk'
  <2>1. /\ UNCHANGED <<wire, socket, queue, task, pc>> /\ c \in pending /\ pending' = pending \ {c}
        /\ \A d \in Conns : peer'[d] = IF d = c THEN "dropped" ELSE peer[d]
    BY <1>0, <1>3 DEF AddFdFails, workVars
  <2>2. \A g \in Fds : socket[g] # c
    BY <1>0, <2>1 DEF IOInv, IOCoherent, Open
  <2>3. \A p \in Packets : Held(p) => Held(p)'
    BY <2>1, <2>2, PacketFields DEF Held
  <2>4. AskIsLast' /\ Cut'
    BY <2>1, <2>2 DEF OneAsk, AskIsLast, Cut
  <2> QED BY <1>0, <2>1, <2>3, <2>4, SocketsKeepAsks
<1>4. CASE Close
  <2>1. /\ closing \in Fds /\ peer[socket[closing]] = "gone"
    BY <1>4 DEF Close, IOInv, IOCoherent, ClosingDeparted, TypeOK, IOTypeOK
  <2>2. /\ UNCHANGED <<peer, wire, pending, queue, task, pc>>
        /\ \A g \in Fds : socket'[g] = IF g = closing THEN NoConn ELSE socket[g]
    BY <1>0, <1>4, <2>1 DEF Close, Connected, workVars
  <2>3. \A p \in Packets : Held(p) => Held(p)'
    BY <2>1, <2>2, PacketFields DEF Held
  <2>4. AskIsLast' /\ Cut'
    BY <1>0, <2>2 DEF OneAsk, AskIsLast, Cut
  <2> QED BY <1>0, <2>2, <2>3, <2>4, SocketsKeepAsks
<1> QED
  BY <1>1, <1>2, <1>3, <1>4, ReceiveKeepsAsks
  DEF IO, EpollWait, AcceptFails, AddClient, HangUp, peerVars, workVars

LEMMA InitAsks == Init => OneAsk
<1> SUFFICES ASSUME Init PROVE OneAsk
  OBVIOUS
<1>1. /\ \A c \in Conns : wire[c] = <<>> /\ peer[c] = "off"
      /\ queue = <<>> /\ \A w \in Workers : task[w] = NoTask /\ pc[w] = "idle"
  BY DEF Init
<1> QED
  BY <1>1 DEF OneAsk, AskIsLast, Cut, QueueHeld, TasksHeld, QueueApart, TasksApart, BothApart,
              AskAnswered, AskSteps, Engaged

LEMMA StepAsks == ASSUME Orderly PROVE IOInv /\ OneAsk /\ [Next]_vars => OneAsk'
<1> SUFFICES ASSUME IOInv, OneAsk, [Next]_vars PROVE OneAsk'
  OBVIOUS
<1>0. TypeOK
  BY DEF IOInv
<1>1. CASE Peers
  BY <1>1, PeersKeepAsks DEF Peers
<1>2. ASSUME NEW w \in Workers, Work(w) \/ Dies(w) PROVE OneAsk'
  <2>1. AskAnswered'
    BY <1>0, <1>2, WorkersAnswerAsks
  <2>2. CASE Handle(w) \/ Reply(w)
    BY <1>0, <2>2, HandleKeepsAsks, ReplyKeepsAsks
  <2>3. CASE /\ UNCHANGED <<peer, wire, pending, socket, queue>>
             /\ task' = task \/ task' = [task EXCEPT ![w] = NoTask]
    <3>1. \A v \in Workers : task'[v] \in {task[v], NoTask}
      BY <1>0, <2>3 DEF TypeOK, WorkTypeOK
    <3> QED BY <1>0, <2>1, <2>3, <3>1, StillKeepsAsks
  <2> QED
    BY <1>2, <2>2, <2>3
    DEF Work, Dies, IsNicknameTaken, SetNickname, AddRoom, GetClient, CheckClient, JoinRoom, SetRoomCode,
        GetRoom, CopyFds, SendNext, LeaveRoom, ClearRoomCode, BrokenPipe, DanglingUse, AfterBroadcast,
        Idle, peerVars, ioVars, workVars
<1>3. CASE UNCHANGED vars
  BY <1>0, <1>3, StillKeepsAsks DEF vars, peerVars, ioVars, workVars, OneAsk, AskAnswered, Engaged
<1> QED BY <1>1, <1>2, <1>3, IOKeepsAsks DEF Next, Rest

(* Whatever workers and peers interleave, the answer to an orderly peer's  *)
(* request goes to the peer that asked: the descriptor handed to the pool  *)
(* (Server.cpp:83-88) is not closed, so not reused, under a waiting peer.  *)
THEOREM AnswersFindTheAsker ==
  ASSUME Orderly
  PROVE  Spec => []AnswersReachAsker
<1>1. ASSUME TypeOK, OneAsk PROVE AnswersReachAsker
  <2>1. \A q \in Range(queue) : \E i \in 1 .. Len(queue) : q = queue[i]
    BY <1>1 DEF Range, TypeOK
  <2> QED
    BY <1>1, <2>1 DEF AnswersReachAsker, OneAsk, QueueHeld, TasksHeld, Engaged, IsAsk, Held
<1>2. TypeOK /\ OneAsk => AnswersReachAsker
  BY <1>1
<1> QED BY <1>2, InitAsks, StepAsks, IOInvariant, TypeCorrect, PTL DEF Spec

-----------------------------------------------------------------------------
(* Membership.  Besides OneAsk: the ClientInfo an engaged worker points to *)
(* is the current one of the descriptor it serves, and a client about to   *)
(* be told its room is still listed there.                                 *)
PtrsCurrent ==
  \A w \in Workers : /\ Engaged(w) /\ ptr[w] # NoCell => ptr[w] = m_clients[task[w].fd]
                     /\ task[w] = NoTask => ptr[w] = NoCell

InRoom(fd, r) == r \in Used /\ fd \in Range(rooms[r].clients)

JustListed == \A w \in Workers : pc[w] = "setRoomCode" => InRoom(task[w].fd, code[w])

MemberInv == PtrsCurrent /\ JustListed /\ MembershipAgrees

(* What is left after a user is taken out of the list is everybody else.   *)
LEMMA WithoutKeeps ==
  ASSUME NEW S, NEW s \in Seq(S), NEW e, NEW f \in Range(s), f # e
  PROVE  f \in Range(Without(s, e))
<1>1. CASE e \notin Range(s)
  BY <1>1 DEF Without
<1>2. CASE e \in Range(s)
  <2> DEFINE i == CHOOSE j \in DOMAIN s : s[j] = e
  <2>1. i \in DOMAIN s /\ s[i] = e
    BY <1>2 DEF Range
  <2> DEFINE left == SubSeq(s, 1, i - 1)
             right == SubSeq(s, i + 1, Len(s))
  <2>2. Without(s, e) = left \o right
    BY <1>2 DEF Without
  <2> HIDE DEF i
  <2>3. i \in 1 .. Len(s) /\ Len(s) \in Nat
    BY <2>1
  <2>4. /\ left \in Seq(S) /\ Len(left) = i - 1
        /\ \A k \in 1 .. i - 1 : left[k] = s[k]
    BY <2>3
  <2>5. /\ right \in Seq(S) /\ Len(right) = Len(s) - i
        /\ \A k \in 1 .. Len(s) - i : right[k] = s[i + k]
    BY <2>3
  <2> HIDE DEF left, right
  <2>6. PICK k \in 1 .. Len(s) : s[k] = f
    BY DEF Range
  <2>7. k # i
    BY <2>1, <2>6
  <2>8. DOMAIN (left \o right) = 1 .. Len(s) - 1
    BY <2>3, <2>4, <2>5
  <2>9. CASE k < i
    <3>1. k \in DOMAIN (left \o right) /\ (left \o right)[k] = f
      BY <2>3, <2>4, <2>5, <2>6, <2>8, <2>9
    <3> QED BY <2>2, <3>1 DEF Range
  <2>10. CASE k > i
    <3>1. k - 1 \in DOMAIN (left \o right) /\ (left \o right)[k - 1] = right[k - i]
      BY SMTT(30), <2>3, <2>4, <2>5, <2>8, <2>10
    <3>2. right[k - i] = f
      BY <2>3, <2>5, <2>6, <2>10
    <3> QED BY <2>2, <3>1, <3>2 DEF Range
  <2> QED BY <2>3, <2>7, <2>9, <2>10
<1> QED BY <1>1, <1>2

(* The list of a room only loses the user a worker takes out of it.        *)
LEMMA RoomsOnlyLose ==
  ASSUME TypeOK, NEW w \in Workers, AddRoom(w) \/ JoinRoom(w) \/ LeaveRoom(w),
         NEW fd \in Fds, NEW r \in Codes, InRoom(fd, r),
         LeaveRoom(w) => fd # task[w].fd
  PROVE  InRoom(fd, r)'
<1>0. /\ rooms \in [Codes -> Rooms \cup {NoRoom}] /\ code[w] \in Codes \cup {NoCode}
      /\ \A s \in Codes : rooms'[s] = rooms[s] /\ s = r => InRoom(fd, s)'
  BY DEF TypeOK, RoomTypeOK, WorkTypeOK, InRoom, Used
<1>1. rooms[r] \in Rooms /\ rooms[r].clients \in Seq(Fds) /\ rooms[r].maxUserCnt \in Int
  BY <1>0 DEF InRoom, Used, Rooms
<1>2. CASE AddRoom(w)
  BY <1>0, <1>2 DEF AddRoom, InRoom, Used
<1>3. CASE JoinRoom(w)
  <2> DEFINE s == Append(rooms[r].clients, task[w].fd)
  <2>1. CASE rooms'[r] = rooms[r]
    BY <1>0, <2>1
  <2>2. CASE rooms'[r] # rooms[r]
    <3>1. pc[w] = "joinRoom" /\ task[w].fd \in Fds
      BY <1>3, PacketFields DEF JoinRoom, TypeOK, WorkTypeOK, LocalsOK
    <3>2. rooms'[r] = [rooms[r] EXCEPT !.clients = s]
      BY <1>0, <1>3, <2>2 DEF JoinRoom, roomVars
    <3>3. rooms'[r] \in Rooms /\ rooms'[r].clients = s /\ fd \in Range(s)
      <4>1. s \in Seq(Fds) /\ Range(rooms[r].clients) \subseteq Range(s)
        BY <1>1, <3>1, AppendProperties DEF Range
      <4> QED BY <1>1, <3>2, <4>1 DEF Rooms, InRoom
    <3> QED BY <3>3, RoomAssumption DEF InRoom, Used
  <2> QED BY <2>1, <2>2
<1>4. CASE LeaveRoom(w)
  <2> DEFINE s == Without(rooms[r].clients, task[w].fd)
  <2>1. CASE rooms'[r] = rooms[r]
    BY <1>0, <2>1
  <2>2. CASE rooms'[r] # rooms[r]
    <3>1. rooms'[r] = Remains(r, s)
      BY <1>0, <1>4, <2>2 DEF LeaveRoom
    <3>2. fd \in Range(s) /\ s \in Seq(Fds)
      BY <1>1, <1>4, WithoutKeeps, WithoutType DEF InRoom
    <3> HIDE DEF s
    <3>3. s # <<>>
      BY <3>2 DEF Range
    <3>4. rooms'[r] \in Rooms /\ rooms'[r].clients = s
      BY <1>1, <3>1, <3>2, <3>3 DEF Remains, Rooms
    <3> QED BY <3>2, <3>4, RoomAssumption DEF InRoom, Used
  <2> QED BY <2>1, <2>2
<1> QED BY <1>2, <1>3, <1>4

(* A step that leaves directories and rooms alone; a worker may only move  *)
(* on to a step that is not setRoomCode.                                   *)
LEMMA QuietKeepsMembers ==
  ASSUME TypeOK, MemberInv, UNCHANGED <<m_clients, rooms>>, PtrsCurrent',
         \A x \in Cells : info'[x].roomCode = info[x].roomCode,
         \A v \in Workers : /\ pc'[v] = "setRoomCode" =>
                                 pc[v] = "setRoomCode" /\ task'[v] = task[v] /\ code'[v] = code[v]
                            /\ pc[v] = "clearRoomCode" => pc'[v] = "clearRoomCode" /\ ptr'[v] = ptr[v]
  PROVE  MemberInv'
<1>1. \A fd \in Fds : m_clients[fd] # NoCell => m_clients[fd] \in Cells
  BY DEF TypeOK, ClientTypeOK
<1>2. \A fd, r : InRoom(fd, r)' <=> InRoom(fd, r)
  BY DEF InRoom, Used
<1>3. JustListed'
  BY DEF MemberInv, JustListed, InRoom, Used
<1>4. MembershipAgrees'
  <2> SUFFICES ASSUME NEW fd \in Fds, m_clients[fd] # NoCell, info[m_clients[fd]].roomCode # NoCode
               PROVE  \/ InRoom(fd, info[m_clients[fd]].roomCode)'
                      \/ \E w \in Workers : pc'[w] = "clearRoomCode" /\ ptr'[w] = m_clients[fd]
    BY <1>1 DEF MembershipAgrees, InRoom
  <2> QED BY <1>1 DEF MemberInv, MembershipAgrees, InRoom, Used
<1> QED BY <1>3, <1>4 DEF MemberInv

LEMMA IOKeepsPtrs ==
  ASSUME IOInv, OneAsk, PtrsCurrent, IO
  PROVE  PtrsCurrent'
<1>0. /\ TypeOK /\ UNCHANGED <<task, ptr>>
      /\ \A w \in Workers : Engaged(w) => task[w] \in Packets
  BY DEF IOInv, TypeOK, WorkTypeOK, Engaged, IO, EpollWait, AcceptFails, Close, Accept, AddFdFails,
         AddClient, HangUp, Receive, workVars
<1>1. CASE UNCHANGED m_clients
  BY <1>0, <1>1 DEF PtrsCurrent, Engaged
<1>2. ASSUME NEW x \in Cells, AddClient(x) PROVE PtrsCurrent'
  <2>1. /\ m_clients[adding] = NoCell
        /\ \A g \in Fds : m_clients'[g] = IF g = adding THEN x ELSE m_clients[g]
    BY <1>2 DEF AddClient, IOInv, IOCoherent, TypeOK, ClientTypeOK, IOTypeOK
  <2> QED BY <1>0, <2>1, PacketFields DEF PtrsCurrent, Engaged
<1>3. ASSUME NEW fd \in Fds, HangUp(fd) PROVE PtrsCurrent'
  <2>1. peer[socket[fd]] = "gone"
    BY <1>3, EventFacts DEF HangUp, Readable
  <2>2. \A w \in Workers : Engaged(w) => task[w].fd # fd
    BY <2>1 DEF OneAsk, TasksHeld, Held
  <2>3. \A g \in Fds : m_clients'[g] = IF g = fd THEN NoCell ELSE m_clients[g]
    BY <1>3 DEF HangUp, RemoveClient, IOInv, TypeOK, ClientTypeOK
  <2> QED BY <1>0, <2>2, <2>3, PacketFields DEF PtrsCurrent, Engaged
<1> QED
  BY <1>1, <1>2, <1>3 DEF IO, EpollWait, AcceptFails, Close, Accept, AddFdFails, Receive, clientVars

LEMMA WorkersKeepPtrs ==
  ASSUME TypeOK, PtrsCurrent, NEW w \in Workers, Work(w) \/ Dies(w)
  PROVE  PtrsCurrent'
<1>0. /\ task \in [Workers -> Packets \cup {NoTask}] /\ ptr \in [Workers -> Cells \cup {NoCell}]
      /\ pc \in [Workers -> PcLabels] /\ (pc[w] = "idle" <=> task[w] = NoTask)
  BY DEF TypeOK, WorkTypeOK, LocalsOK
<1>1. m_clients' = m_clients
  BY DEF Work, Dies, Handle, IsNicknameTaken, SetNickname, AddRoom, GetClient, CheckClient, JoinRoom,
         SetRoomCode, GetRoom, CopyFds, SendNext, LeaveRoom, ClearRoomCode, Reply, BrokenPipe,
         DanglingUse, clientVars
<1>2. CASE UNCHANGED <<task, ptr>>
  BY <1>1, <1>2 DEF PtrsCurrent, Engaged
<1>3. CASE Idle(w)
  <2>1. \A v \in Workers : /\ task'[v] = IF v = w THEN NoTask ELSE task[v]
                           /\ ptr'[v] = IF v = w THEN NoCell ELSE ptr[v]
    BY <1>0, <1>3 DEF Idle
  <2> QED BY <1>1, <2>1 DEF PtrsCurrent, Engaged
<1>4. CASE Handle(w)
  <2>0. Head(queue) \in Packets
    BY <1>4, HeadTailProperties DEF Handle, TypeOK
  <2>1. ptr[w] = NoCell /\ ptr' = ptr
    <3>1. task[w] = NoTask
      BY <1>0, <1>4 DEF Handle
    <3>2. ptr' = ptr
      BY <1>4 DEF Handle, workVars
    <3> QED BY <3>1, <3>2 DEF PtrsCurrent
  <2>2. task' = task \/ task' = [task EXCEPT ![w] = Head(queue)]
    BY <1>4 DEF Handle, workVars
  <2>3. \A v \in Workers : task'[v] = task[v] \/ (v = w /\ task'[v] \in Packets)
    BY <1>0, <2>0, <2>2
  <2> QED BY <1>1, <2>1, <2>3, PacketFields DEF PtrsCurrent, Engaged
<1>5. CASE GetClient(w) /\ ~Idle(w)
  <2>1. /\ task' = task
        /\ ptr' = ptr \/ ptr' = [ptr EXCEPT ![w] = m_clients[task[w].fd]]
        /\ task[w] # NoTask
    BY <1>0, <1>5 DEF GetClient
  <2>2. \A v \in Workers : ptr'[v] = ptr[v] \/ (v = w /\ ptr'[v] = m_clients[task[w].fd])
    BY <1>0, <2>1
  <2> QED BY <1>1, <2>1, <2>2 DEF PtrsCurrent, Engaged
<1> QED
  BY <1>2, <1>3, <1>4, <1>5
  DEF Work, Dies, IsNicknameTaken, SetNickname, AddRoom, GetClient, CheckClient, JoinRoom, SetRoomCode,
      GetRoom, CopyFds, SendNext, LeaveRoom, ClearRoomCode, Reply, BrokenPipe, DanglingUse,
      AfterBroadcast, workVars

LEMMA IOKeepsMembers ==
  ASSUME IOInv, OneAsk, MemberInv, IO
  PROVE  MemberInv'
<1>0. /\ TypeOK /\ IOCoherent /\ UNCHANGED <<roomVars, workVars>>
  BY DEF IOInv, IO, EpollWait, AcceptFails, Close, Accept, AddFdFails, AddClient, HangUp, Receive
<1>1. PtrsCurrent' /\ JustListed'
  BY <1>0, IOKeepsPtrs DEF MemberInv, JustListed, InRoom, Used, roomVars, workVars
<1>2. ASSUME NEW fd \in Fds, m_clients'[fd] = m_clients[fd],
             m_clients[fd] # NoCell => info'[m_clients[fd]] = info[m_clients[fd]]
      PROVE  m_clients'[fd] # NoCell =>
               LET r == info'[m_clients'[fd]].roomCode IN
               r # NoCode => \/ r \in Used' /\ fd \in Range(rooms'[r].clients)
                             \/ \E w \in Workers : pc'[w] = "clearRoomCode" /\ ptr'[w] = m_clients'[fd]
  BY <1>0, <1>2 DEF MemberInv, MembershipAgrees, Used, roomVars, workVars
<1>3. CASE UNCHANGED <<m_clients, info>>
  BY <1>1, <1>2, <1>3 DEF MemberInv, MembershipAgrees
<1>4. ASSUME NEW x \in Cells, AddClient(x) PROVE MemberInv'
  <2>1. /\ adding \in Fds /\ m_clients[adding] = NoCell /\ x \notin Live
        /\ \A g \in Fds : m_clients'[g] = IF g = adding THEN x ELSE m_clients[g]
        /\ \A y \in Cells : info'[y] = IF y = x THEN Blank ELSE info[y]
    BY <1>0, <1>4 DEF AddClient, IOCoherent, TypeOK, ClientTypeOK, IOTypeOK
  <2>2. info'[m_clients'[adding]].roomCode = NoCode
    BY <2>1 DEF Blank
  <2>3. \A g \in Fds \ {adding} : m_clients[g] # NoCell => info'[m_clients[g]] = info[m_clients[g]]
    BY <1>0, <2>1 DEF Live, TypeOK, ClientTypeOK
  <2> QED BY <1>1, <1>2, <2>1, <2>2, <2>3 DEF MemberInv, MembershipAgrees
<1>5. ASSUME NEW fd \in Fds, HangUp(fd) PROVE MemberInv'
  <2>1. /\ info' = info
        /\ \A g \in Fds : m_clients'[g] = IF g = fd THEN NoCell ELSE m_clients[g]
    BY <1>0, <1>5 DEF HangUp, RemoveClient, TypeOK, ClientTypeOK
  <2> QED BY <1>1, <1>2, <2>1 DEF MemberInv, MembershipAgrees
<1> QED
  BY <1>3, <1>4, <1>5
  DEF IO, EpollWait, AcceptFails, Close, Accept, AddFdFails, Receive, clientVars

(* addRoom, joinRoom and leaveRoom change the rooms and no client.         *)
LEMMA RoomStepsKeepMembers ==
  ASSUME TypeOK, OneAsk, MemberInv, NEW w \in Workers, AddRoom(w) \/ JoinRoom(w) \/ LeaveRoom(w)
  PROVE  MemberInv'
<1>0. /\ UNCHANGED <<m_clients, info, task, ptr>>
      /\ pc \in [Workers -> PcLabels] /\ code \in [Workers -> Codes \cup {NoCode}]
  BY DEF AddRoom, JoinRoom, LeaveRoom, clientVars, TypeOK, WorkTypeOK
<1>1. /\ \A v \in Workers \ {w} : pc'[v] = pc[v] /\ code'[v] = code[v]
      /\ pc[w] # "setRoomCode" /\ pc[w] # "clearRoomCode"
      /\ LeaveRoom(w) => pc'[w] = "clearRoomCode"
  BY <1>0 DEF AddRoom, JoinRoom, LeaveRoom, Answer, Goto
<1>2. Engaged(w) /\ task[w] \in Packets /\ task[w].fd \in Fds
  BY PacketFields DEF OneAsk, AskAnswered, AskSteps, Engaged, AddRoom, JoinRoom, LeaveRoom, TypeOK, WorkTypeOK
<1>3. LeaveRoom(w) => ptr[w] = m_clients[task[w].fd]
  BY <1>2 DEF LeaveRoom, MemberInv, PtrsCurrent, TypeOK, WorkTypeOK, LocalsOK
<1>4. PtrsCurrent'
  BY <1>0 DEF MemberInv, PtrsCurrent, Engaged
<1>5. JustListed'
  <2> SUFFICES ASSUME NEW v \in Workers, pc'[v] = "setRoomCode"
               PROVE  task[v].fd \in Range(rooms'[code'[v]].clients) /\ code'[v] \in Used'
    BY <1>0 DEF JustListed, InRoom
  <2>1. CASE v # w
    <3>1. pc[v] = "setRoomCode" /\ InRoom(task[v].fd, code[v])
      BY <1>1, <2>1 DEF MemberInv, JustListed
    <3>2. Engaged(v) /\ task[v] \in Packets /\ task[v].fd \in Fds /\ code[v] \in Codes
      BY <3>1, PacketFields DEF OneAsk, AskAnswered, AskSteps, Engaged, TypeOK, WorkTypeOK, InRoom, Used
    <3>3. task[v].fd # task[w].fd
      BY <1>2, <2>1, <3>2 DEF OneAsk, TasksApart, TasksHeld, Held
    <3>4. PICK f \in Fds, r \in Codes : f = task[v].fd /\ r = code[v]
      BY <3>2
    <3>5. InRoom(f, r)'
      BY <3>1, <3>3, <3>4, RoomsOnlyLose
    <3> QED BY <1>1, <2>1, <3>4, <3>5 DEF InRoom
  <2>2. CASE v = w
    <3>1. JoinRoom(w) /\ Admits(code[w], task[w].fd) /\ code' = code
      BY <1>0, <2>2 DEF AddRoom, JoinRoom, LeaveRoom, Answer, Goto
    <3>2. rooms' = [rooms EXCEPT ![code[w]].clients = Append(@, task[w].fd)] /\ code[w] \in Codes
      BY <3>1 DEF JoinRoom, Admits
    <3>3. rooms[code[w]] \in Rooms
      BY <3>1 DEF Admits, TypeOK, RoomTypeOK
    <3> DEFINE s == Append(rooms[code[w]].clients, task[w].fd)
    <3>4. rooms'[code[w]] = [rooms[code[w]] EXCEPT !.clients = s]
      BY <3>2 DEF TypeOK, RoomTypeOK
    <3>5. rooms[code[w]].clients \in Seq(Fds) /\ rooms[code[w]].maxUserCnt \in Int
      BY <3>3 DEF Rooms
    <3>6. s \in Seq(Fds) /\ task[w].fd \in Range(s)
      <4>1. s \in Seq(Fds) /\ Len(s) \in DOMAIN s /\ s[Len(s)] = task[w].fd
        BY <1>2, <3>5
      <4> HIDE DEF s
      <4> QED BY <4>1 DEF Range
    <3>7. rooms'[code[w]] \in Rooms /\ rooms'[code[w]].clients = s
      BY <3>3, <3>4, <3>6 DEF Rooms
    <3> QED BY <2>2, <3>1, <3>2, <3>6, <3>7, RoomAssumption DEF Used
  <2> QED BY <2>1, <2>2
<1>6. MembershipAgrees'
  <2> SUFFICES ASSUME NEW fd \in Fds, m_clients[fd] # NoCell, info[m_clients[fd]].roomCode # NoCode
               PROVE  \/ InRoom(fd, info[m_clients[fd]].roomCode)'
                      \/ \E v \in Workers : pc'[v] = "clearRoomCode" /\ ptr'[v] = m_clients[fd]
    BY <1>0 DEF MembershipAgrees, InRoom
  <2> DEFINE r == info[m_clients[fd]].roomCode
  <2>1. CASE \E v \in Workers : pc[v] = "clearRoomCode" /\ ptr[v] = m_clients[fd]
    BY <1>0, <1>1, <2>1
  <2>2. CASE LeaveRoom(w) /\ fd = task[w].fd
    BY <1>0, <1>1, <1>3, <2>2
  <2>3. CASE InRoom(fd, r) /\ (LeaveRoom(w) => fd # task[w].fd)
    <3>1. r \in Codes
      BY <2>3 DEF InRoom, Used
    <3> HIDE DEF r
    <3>2. rooms'[r] # NoRoom /\ fd \in Range(rooms'[r].clients)
      BY <2>3, <3>1, RoomsOnlyLose DEF InRoom, Used
    <3> USE DEF r
    <3> QED BY <1>0, <3>1, <3>2 DEF InRoom, Used
  <2> QED BY <2>1, <2>2, <2>3 DEF MemberInv, MembershipAgrees, InRoom
<1> QED BY <1>4, <1>5, <1>6 DEF MemberInv

(* setRoomCode and clearRoomCode write the roomCode of one ClientInfo.     *)
LEMMA CodeStepsKeepMembers ==
  ASSUME IOInv, OneAsk, MemberInv, NEW w \in Workers, SetRoomCode(w) \/ ClearRoomCode(w)
  PROVE  MemberInv'
<1> DEFINE x == ptr[w]
           fd == task[w].fd
           r  == IF pc[w] = "setRoomCode" THEN code[w] ELSE NoCode
<1>0. /\ TypeOK /\ UNCHANGED <<m_clients, task, ptr, code, rooms>>
      /\ \A v \in Workers : /\ v # w => pc'[v] = pc[v]
                            /\ v = w => pc'[v] \in {"reply", "getRoom"}
  BY DEF SetRoomCode, ClearRoomCode, Answer, Goto, roomVars, IOInv, TypeOK, WorkTypeOK
<1>1. Engaged(w) /\ task[w] \in Packets /\ fd \in Fds /\ x \in Cells /\ x = m_clients[fd]
  <2>1. Engaged(w) /\ task[w] \in Packets /\ ptr[w] \in Cells
    BY <1>0 DEF OneAsk, AskAnswered, AskSteps, Engaged, SetRoomCode, ClearRoomCode, TypeOK, WorkTypeOK,
                LocalsOK
  <2> QED BY <2>1, PacketFields, ServerAssumption DEF MemberInv, PtrsCurrent
<1>2. \A y \in Cells : info'[y].roomCode = IF y = x THEN r ELSE info[y].roomCode
  <2>1. info' = [info EXCEPT ![x].roomCode = r]
    BY DEF SetRoomCode, ClearRoomCode
  <2> QED BY <1>0, <1>1, <2>1 DEF TypeOK, ClientTypeOK, Infos
<1>3. r # NoCode => InRoom(fd, r)
  BY DEF MemberInv, JustListed
<1>4. \A g \in Fds : m_clients[g] = x => g = fd
  BY <1>1, ServerAssumption DEF IOInv, IOCoherent
<1>5. PtrsCurrent'
  BY <1>0 DEF MemberInv, PtrsCurrent, Engaged
<1>6. JustListed'
  BY <1>0 DEF MemberInv, JustListed, InRoom, Used
<1>7. MembershipAgrees'
  <2> SUFFICES ASSUME NEW g \in Fds, m_clients[g] # NoCell, info'[m_clients[g]].roomCode # NoCode
               PROVE  \/ InRoom(g, info'[m_clients[g]].roomCode)
                      \/ \E v \in Workers : pc'[v] = "clearRoomCode" /\ ptr[v] = m_clients[g]
    BY <1>0 DEF MembershipAgrees, InRoom, Used
  <2>1. CASE m_clients[g] = x
    BY <1>1, <1>2, <1>3, <1>4, <2>1
  <2>2. CASE m_clients[g] # x
    <3>1. info'[m_clients[g]].roomCode = info[m_clients[g]].roomCode
      BY <1>0, <1>2, <2>2 DEF TypeOK, ClientTypeOK
    <3>2. CASE InRoom(g, info[m_clients[g]].roomCode)
      BY <3>1, <3>2
    <3>3. CASE \E v \in Workers : pc[v] = "clearRoomCode" /\ ptr[v] = m_clients[g]
      BY <1>0, <2>2, <3>3
    <3> QED BY <3>1, <3>2, <3>3 DEF MemberInv, MembershipAgrees, InRoom
  <2> QED BY <2>1, <2>2
<1> QED BY <1>5, <1>6, <1>7 DEF MemberInv

LEMMA WorkersKeepMembers ==
  ASSUME IOInv, OneAsk, MemberInv, NEW w \in Workers, Work(w) \/ Dies(w)
  PROVE  MemberInv'
<1>0. /\ TypeOK /\ PtrsCurrent'
      /\ pc \in [Workers -> PcLabels] /\ task \in [Workers -> Packets \cup {NoTask}]
      /\ code \in [Workers -> Codes \cup {NoCode}] /\ ptr \in [Workers -> Cells \cup {NoCell}]
  BY WorkersKeepPtrs DEF IOInv, MemberInv, TypeOK, WorkTypeOK
<1>1. CASE AddRoom(w) \/ JoinRoom(w) \/ LeaveRoom(w)
  BY <1>0, <1>1, RoomStepsKeepMembers
<1>2. CASE SetRoomCode(w) \/ ClearRoomCode(w)
  BY <1>2, CodeStepsKeepMembers
<1>3. CASE ~(AddRoom(w) \/ JoinRoom(w) \/ LeaveRoom(w) \/ SetRoomCode(w) \/ ClearRoomCode(w))
  <2>1. UNCHANGED <<m_clients, rooms>> /\ \A y \in Cells : info'[y].roomCode = info[y].roomCode
    <3>1. CASE SetNickname(w)
      <4>1. info' = info \/ (\E y \in Cells : info' =
              [info EXCEPT ![y].nickname = task[w].arg, ![y].isAuthenticated = TRUE])
        BY <1>0, <3>1, PacketFields DEF SetNickname, TypeOK, ClientTypeOK, LocalsOK, WorkTypeOK
      <4>2. ASSUME NEW z \in Cells,
                   info' = [info EXCEPT ![z].nickname = task[w].arg, ![z].isAuthenticated = TRUE]
            PROVE  \A y \in Cells : info'[y].roomCode = info[y].roomCode
        <5>1. info \in [Cells -> Infos]
          BY <1>0 DEF TypeOK, ClientTypeOK
        <5>2. \A y \in Cells \ {z} : info'[y] = info[y]
          BY <4>2, <5>1
        <5>3. info'[z] = [[info[z] EXCEPT !.nickname = task[w].arg] EXCEPT !.isAuthenticated = TRUE]
          BY <4>2, <5>1
        <5>4. info'[z].roomCode = info[z].roomCode
          BY <5>1, <5>3 DEF Infos
        <5> QED BY <5>2, <5>4
      <4> QED BY <3>1, <4>1, <4>2 DEF SetNickname, roomVars
    <3> QED
      BY <1>3, <3>1
      DEF Work, Dies, Handle, IsNicknameTaken, GetClient, CheckClient, GetRoom, CopyFds, SendNext, Reply,
          BrokenPipe, DanglingUse, clientVars, roomVars
  <2>2. \A v \in Workers \ {w} : pc'[v] = pc[v] /\ task'[v] = task[v] /\ code'[v] = code[v] /\ ptr'[v] = ptr[v]
    BY <1>0, <1>3
    DEF Work, Dies, Handle, IsNicknameTaken, SetNickname, GetClient, CheckClient, GetRoom, CopyFds,
        SendNext, Reply, BrokenPipe, DanglingUse, AfterBroadcast, Idle, Answer, Goto, workVars
  <2>3. pc[w] # "clearRoomCode" \/ Dies(w)
    BY <1>3 DEF Work, Handle, IsNicknameTaken, SetNickname, GetClient, CheckClient, GetRoom, CopyFds,
        SendNext, Reply
  <2>4. pc'[w] # "setRoomCode" \/ Dies(w)
    <3>1. CASE Handle(w)
      BY <1>0, <3>1 DEF Handle, Entry, Answer, Goto, workVars
    <3> QED
      BY <1>0, <1>3, <3>1
      DEF Work, IsNicknameTaken, SetNickname, GetClient, CheckClient, GetRoom, CopyFds,
        SendNext, Reply, AfterBroadcast, Idle, Answer, Goto
  <2>5. \A v \in Workers : /\ pc'[v] = "setRoomCode" =>
                                 pc[v] = "setRoomCode" /\ task'[v] = task[v] /\ code'[v] = code[v]
                           /\ pc[v] = "clearRoomCode" => pc'[v] = "clearRoomCode" /\ ptr'[v] = ptr[v]
    <3>1. CASE Dies(w)
      BY <3>1 DEF Dies, BrokenPipe, DanglingUse, workVars
    <3> QED BY <2>2, <2>3, <2>4, <3>1
  <2> QED BY <1>0, <2>1, <2>5, QuietKeepsMembers
<1> QED BY <1>1, <1>2, <1>3

LEMMA MembersKept == ASSUME Orderly PROVE Spec => []MemberInv
<1>1. Init => MemberInv
  BY DEF Init, MemberInv, PtrsCurrent, JustListed, MembershipAgrees, Engaged
<1>2. IOInv /\ OneAsk /\ MemberInv /\ [Next]_vars => MemberInv'
  <2> SUFFICES ASSUME IOInv, OneAsk, MemberInv, [Next]_vars PROVE MemberInv'
    OBVIOUS
  <2>1. CASE Peers \/ Rest \/ UNCHANGED vars
    <3>1. UNCHANGED <<clientVars, roomVars, workVars>>
      BY <2>1 DEF Peers, Rest, Connect, Read, Disconnect, Send, vars
    <3>2. PtrsCurrent'
      BY <3>1 DEF MemberInv, PtrsCurrent, Engaged, clientVars, workVars
    <3> QED BY <3>1, <3>2, QuietKeepsMembers DEF IOInv, clientVars, roomVars, workVars
  <2> QED BY <2>1, IOKeepsMembers, WorkersKeepMembers DEF Next
<1> QED BY <1>1, <1>2, InitAsks, StepAsks, IOInvariant, PTL DEF Spec

(* A client that asks one thing at a time is listed in the room its        *)
(* ClientInfo names, whatever the workers interleave                       *)
(* (RoomHandler.cpp:79-81,156-168,262-265).                                *)
THEOREM ClientsAreListed ==
  ASSUME Orderly
  PROVE  Spec => []MembershipAgrees
BY MembersKept, PTL DEF MemberInv
=============================================================================
