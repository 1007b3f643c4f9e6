-------------------------- MODULE ChatServerProofs --------------------------
(***************************************************************************)
(* Theorems about ChatServer for every set of connections, descriptors,    *)
(* workers, codes and requests that satisfies ServerAssumption.            *)
(***************************************************************************)
EXTENDS ChatServer, FiniteSetTheorems, SequenceTheorems, TLAPS

USE DEF StaysUp

(* A packet has a descriptor, a connection, a type and an argument that    *)
(* fits the type or does not parse.                                        *)
LEMMA PacketFields ==
  ASSUME NEW p \in Packets
  PROVE  /\ p.fd \in Fds /\ p.conn \in Conns /\ p.type \in RequestTypes
         /\ p.arg = Malformed \/ p.arg \in Arguments(p.type)
         /\ p # NoTask
BY ServerAssumption DEF Packets, Packet

LEMMA PacketType ==
  ASSUME NEW fd \in Fds, NEW c \in Conns, NEW q \in Requests
  PROVE  Packet(fd, c, q) \in Packets
BY DEF Packets

(* A worker's step changes its own entries only.                           *)
LEMMA WorkerStep ==
  ASSUME WorkTypeOK, NEW w \in Workers,
         pc' = [pc EXCEPT ![w] = pc'[w]],
         task' = [task EXCEPT ![w] = task'[w]],
         ptr' = [ptr EXCEPT ![w] = ptr'[w]],
         code' = [code EXCEPT ![w] = code'[w]],
         todo' = [todo EXCEPT ![w] = todo'[w]],
         response' = [response EXCEPT ![w] = response'[w]],
         pc'[w] \in PcLabels,
         task'[w] \in Packets \cup {NoTask},
         ptr'[w] \in Cells \cup {NoCell},
         code'[w] \in Codes \cup {NoCode},
         todo'[w] \in Seq(Fds),
         response'[w] \in {"none", "OK", "FAIL"},
         LocalsOK(w)'
  PROVE  WorkTypeOK'
<1>1. /\ pc' \in [Workers -> PcLabels]
      /\ task' \in [Workers -> Packets \cup {NoTask}]
      /\ ptr' \in [Workers -> Cells \cup {NoCell}]
      /\ code' \in [Workers -> Codes \cup {NoCode}]
      /\ todo' \in [Workers -> Seq(Fds)]
      /\ response' \in [Workers -> {"none", "OK", "FAIL"}]
  BY DEF WorkTypeOK
<1>2. ASSUME NEW v \in Workers PROVE LocalsOK(v)'
  <2>1. CASE v = w
    BY <2>1
  <2>2. CASE v # w
    <3>1. /\ pc'[v] = pc[v] /\ task'[v] = task[v] /\ ptr'[v] = ptr[v] /\ todo'[v] = todo[v]
      BY <2>2 DEF WorkTypeOK
    <3>2. LocalsOK(v)
      BY DEF WorkTypeOK
    <3> QED BY <3>1, <3>2 DEF LocalsOK
  <2> QED BY <2>1, <2>2
<1> QED BY <1>1, <1>2 DEF WorkTypeOK

LEMMA IdleType ==
  ASSUME WorkTypeOK, NEW w \in Workers, Idle(w)
  PROVE  WorkTypeOK'
<1>1. /\ pc'[w] = "idle" /\ task'[w] = NoTask /\ ptr'[w] = NoCell
      /\ code'[w] = NoCode /\ todo'[w] = <<>> /\ response'[w] = "none"
  BY DEF WorkTypeOK, Idle, Goto
<1>2. <<>> \in Seq(Fds)
  BY EmptySeq
<1>3. LocalsOK(w)'
  BY <1>1 DEF LocalsOK
<1> QED BY <1>1, <1>2, <1>3, WorkerStep DEF Idle, Goto, PcLabels

LEMMA AnswerType ==
  ASSUME WorkTypeOK, NEW w \in Workers, NEW b \in {"OK", "FAIL"}, Answer(w, b),
         pc[w] # "idle", UNCHANGED <<task, ptr, code>>,
         todo' = todo \/ todo' = [todo EXCEPT ![w] = <<>>]
  PROVE  WorkTypeOK'
<1>1. /\ pc'[w] = "reply" /\ task'[w] = task[w] /\ ptr'[w] = ptr[w]
      /\ code'[w] = code[w] /\ response'[w] = b
  BY DEF WorkTypeOK, Answer, Goto
<1>2. todo'[w] \in Seq(Fds) /\ todo' = [todo EXCEPT ![w] = todo'[w]]
  BY EmptySeq DEF WorkTypeOK
<1>3. LocalsOK(w)'
  BY <1>1 DEF LocalsOK, WorkTypeOK
<1>4. /\ task' = [task EXCEPT ![w] = task'[w]] /\ ptr' = [ptr EXCEPT ![w] = ptr'[w]]
      /\ code' = [code EXCEPT ![w] = code'[w]] /\ pc' = [pc EXCEPT ![w] = pc'[w]]
      /\ response' = [response EXCEPT ![w] = response'[w]]
  BY <1>1 DEF WorkTypeOK, Answer, Goto
<1>5. /\ task'[w] \in Packets \cup {NoTask} /\ ptr'[w] \in Cells \cup {NoCell}
      /\ code'[w] \in Codes \cup {NoCode} /\ response'[w] \in {"none", "OK", "FAIL"}
      /\ pc'[w] \in PcLabels
  BY <1>1 DEF WorkTypeOK, PcLabels
<1> QED BY <1>2, <1>3, <1>4, <1>5, WorkerStep

-----------------------------------------------------------------------------
(* Each part of the state keeps its types when it does not change.         *)
LEMMA Others ==
  ASSUME TypeOK
  PROVE  /\ UNCHANGED peerVars => PeerTypeOK'
         /\ UNCHANGED ioVars => IOTypeOK'
         /\ UNCHANGED clientVars => ClientTypeOK'
         /\ UNCHANGED roomVars => RoomTypeOK'
         /\ UNCHANGED workVars => WorkTypeOK'
         /\ UNCHANGED queue => queue' \in Seq(Packets)
         /\ UNCHANGED status => status' \in {"up", "killed", "corrupt"}
<1>1. ASSUME UNCHANGED workVars, NEW w \in Workers PROVE LocalsOK(w)'
  BY <1>1 DEF TypeOK, WorkTypeOK, LocalsOK, workVars
<1> QED
  BY <1>1 DEF TypeOK, peerVars, PeerTypeOK, ioVars, IOTypeOK, clientVars, ClientTypeOK,
              roomVars, RoomTypeOK, workVars, WorkTypeOK

(* The peers and the I/O thread keep the types.                            *)
LEMMA PeersType ==
  ASSUME TypeOK, NEW c \in Conns,
         Connect(c) \/ Read(c) \/ Disconnect(c) \/ \E q \in Requests : Send(c, q)
  PROVE  TypeOK'
<1>0. UNCHANGED <<ioVars, clientVars, roomVars, workVars, queue, status>>
  BY DEF Connect, Read, Disconnect, Send, peerVars
<1>1. PeerTypeOK'
  <2> USE DEF TypeOK, PeerTypeOK
  <2>1. CASE Connect(c)
    BY <2>1 DEF Connect
  <2>2. CASE Read(c)
    BY <2>2, ServerAssumption DEF Read
  <2>3. CASE Disconnect(c)
    <3>1. unread' \in [Conns -> 0 .. SendCap]
      BY <2>3, ServerAssumption DEF Disconnect
    <3> QED BY <2>3, <3>1 DEF Disconnect
  <2>4. ASSUME NEW q \in Requests, Send(c, q) PROVE PeerTypeOK'
    <3>1. sends' \in 0 .. MaxSends
      BY <2>4, ServerAssumption DEF Send
    <3>2. wire' \in [Conns -> Seq(Requests)]
      BY <2>4 DEF Send
    <3> QED BY <2>4, <3>1, <3>2 DEF Send
  <2> QED BY <2>1, <2>2, <2>3, <2>4
<1> QED BY <1>0, <1>1, Others DEF TypeOK

LEMMA ReceiveType ==
  ASSUME TypeOK, NEW fd \in Fds, NEW n \in 1 .. MaxSends, socket[fd] \in Conns, Receive(fd, n)
  PROVE  TypeOK'
<1> DEFINE c == socket[fd]
<1> DEFINE new == [i \in 1 .. n |-> Packet(fd, c, wire[c][i])]
<1>1. wire[c] \in Seq(Requests) /\ n \in Nat /\ n <= Len(wire[c])
  BY DEF TypeOK, PeerTypeOK, Receive
<1>2. \A i \in 1 .. n : wire[c][i] \in Requests
  BY <1>1
<1>3. \A i \in 1 .. n : Packet(fd, c, wire[c][i]) \in Packets
  BY <1>2, PacketType
<1>4. new \in Seq(Packets)
  <2> HIDE DEF c
  <2> QED BY <1>1, <1>3
<1>5. queue' \in Seq(Packets)
  <2>1. queue' = queue \o new
    BY DEF Receive
  <2> HIDE DEF new
  <2> QED BY <1>4, <2>1 DEF TypeOK
<1>6. SubSeq(wire[c], n + 1, Len(wire[c])) \in Seq(Requests)
  BY <1>1
<1>7. wire' \in [Conns -> Seq(Requests)]
  BY <1>6 DEF TypeOK, PeerTypeOK, Receive
<1>8. PeerTypeOK'
  BY <1>7 DEF TypeOK, PeerTypeOK, Receive
<1>9. IOTypeOK'
  BY DEF TypeOK, IOTypeOK, Receive
<1> QED BY <1>5, <1>8, <1>9, Others DEF TypeOK, Receive

LEMMA IOType ==
  ASSUME TypeOK, IOCoherent, IO
  PROVE  TypeOK'
<1>1. CASE EpollWait
  BY <1>1, Others DEF EpollWait, TypeOK, IOTypeOK
<1>2. CASE AcceptFails
  BY <1>2, Others DEF AcceptFails, TypeOK, IOTypeOK
<1>3. CASE Close
  <2>1. PeerTypeOK'
    BY <1>3 DEF Close, TypeOK, PeerTypeOK
  <2>2. IOTypeOK'
    BY <1>3 DEF Close, TypeOK, IOTypeOK
  <2> QED BY <1>3, <2>1, <2>2, Others DEF Close, TypeOK
<1>4. ASSUME NEW c \in Conns, NEW fd \in Fds, Accept(c, fd) PROVE TypeOK'
  <2>1. PeerTypeOK' /\ IOTypeOK'
    BY <1>4 DEF Accept, TypeOK, PeerTypeOK, IOTypeOK
  <2> QED BY <1>4, <2>1, Others DEF Accept, TypeOK
<1>5. ASSUME NEW c \in Conns, AddFdFails(c) PROVE TypeOK'
  <2>1. PeerTypeOK' /\ IOTypeOK'
    BY <1>5 DEF AddFdFails, TypeOK, PeerTypeOK, IOTypeOK
  <2> QED BY <1>5, <2>1, Others DEF AddFdFails, TypeOK
<1>6. ASSUME NEW x \in Cells, AddClient(x) PROVE TypeOK'
  <2>1. Blank \in Infos
    BY Zenon DEF Blank, Infos
  <2>2. IOTypeOK' /\ ClientTypeOK'
    BY <1>6, <2>1 DEF AddClient, TypeOK, IOTypeOK, ClientTypeOK
  <2> QED BY <1>6, <2>2, Others DEF AddClient, TypeOK
<1>7. ASSUME NEW fd \in Fds, HangUp(fd) PROVE TypeOK'
  <2>1. IOTypeOK' /\ ClientTypeOK'
    BY <1>7 DEF HangUp, RemoveClient, TypeOK, IOTypeOK, ClientTypeOK
  <2> QED BY <1>7, <2>1, Others DEF HangUp, TypeOK
<1>8. ASSUME NEW fd \in Fds, NEW n \in 1 .. MaxSends, Receive(fd, n) PROVE TypeOK'
  <2>1. socket[fd] \in Conns
    BY <1>8 DEF Receive, IOCoherent, Open, TypeOK, IOTypeOK
  <2> QED BY <1>8, <2>1, ReceiveType
<1> QED BY <1>1, <1>2, <1>3, <1>4, <1>5, <1>6, <1>7, <1>8 DEF IO

(* A send changes one buffer at most, and never beyond its limit.          *)
LEMMA TransmitType ==
  ASSUME PeerTypeOK, NEW fd \in Fds, Transmit(fd)
  PROVE  unread' \in [Conns -> 0 .. SendCap]
<1>1. CASE UNCHANGED unread
  BY <1>1 DEF PeerTypeOK
<1>2. CASE /\ unread[socket[fd]] < SendCap
           /\ unread' = [unread EXCEPT ![socket[fd]] = @ + 1]
  <2>1. \A d \in Conns : /\ unread[d] \in Int /\ 0 <= unread[d] /\ unread[d] <= SendCap
                        /\ unread'[d] = IF d = socket[fd] THEN unread[d] + 1 ELSE unread[d]
    BY <1>2, ServerAssumption DEF PeerTypeOK
  <2>2. \A d \in Conns : unread'[d] \in 0 .. SendCap
    BY <1>2, <2>1, ServerAssumption
  <2> QED BY <1>2, <2>2 DEF PeerTypeOK
<1> QED BY <1>1, <1>2 DEF Transmit

LEMMA BroadcastEnds ==
  ASSUME WorkTypeOK, NEW w \in Workers, AfterBroadcast(w),
         pc[w] \in {"getRoom", "copyFds", "send"}
  PROVE  WorkTypeOK'
<1>1. CASE task[w].type = "MESSAGE"
  BY <1>1, IdleType DEF AfterBroadcast
<1>2. CASE task[w].type = "JOIN"
  BY <1>2, AnswerType DEF AfterBroadcast
<1>3. CASE task[w].type \notin {"MESSAGE", "JOIN"}
  <2>1. /\ pc' = [pc EXCEPT ![w] = "leaveRoom"] /\ UNCHANGED <<task, ptr, code, response>>
        /\ todo' = [todo EXCEPT ![w] = <<>>]
    BY <1>3 DEF AfterBroadcast, Goto
  <2>2. /\ pc'[w] = "leaveRoom" /\ task'[w] = task[w] /\ ptr'[w] = ptr[w]
        /\ code'[w] = code[w] /\ response'[w] = response[w] /\ todo'[w] = <<>>
    BY <2>1 DEF WorkTypeOK
  <2>3. LocalsOK(w)'
    BY <2>2 DEF LocalsOK, WorkTypeOK
  <2>4. /\ pc' = [pc EXCEPT ![w] = pc'[w]] /\ task' = [task EXCEPT ![w] = task'[w]]
        /\ ptr' = [ptr EXCEPT ![w] = ptr'[w]] /\ code' = [code EXCEPT ![w] = code'[w]]
        /\ todo' = [todo EXCEPT ![w] = todo'[w]]
        /\ response' = [response EXCEPT ![w] = response'[w]]
    BY <2>1, <2>2 DEF WorkTypeOK
  <2>5. /\ pc'[w] \in PcLabels /\ task'[w] \in Packets \cup {NoTask}
        /\ ptr'[w] \in Cells \cup {NoCell} /\ code'[w] \in Codes \cup {NoCode}
        /\ response'[w] \in {"none", "OK", "FAIL"}
    BY <2>2 DEF WorkTypeOK, PcLabels
  <2>6. todo'[w] \in Seq(Fds)
    BY <2>2, EmptySeq
  <2> QED BY <2>3, <2>4, <2>5, <2>6, WorkerStep
<1> QED BY <1>1, <1>2, <1>3

(* Moving on to another label, with the locals as they are.                *)
LEMMA GotoType ==
  ASSUME WorkTypeOK, NEW w \in Workers, NEW l \in PcLabels, Goto(w, l),
         UNCHANGED <<task, response>>,
         ptr' = [ptr EXCEPT ![w] = ptr'[w]], ptr'[w] \in Cells \cup {NoCell},
         code' = [code EXCEPT ![w] = code'[w]], code'[w] \in Codes \cup {NoCode},
         todo' = [todo EXCEPT ![w] = todo'[w]], todo'[w] \in Seq(Fds),
         LocalsOK(w)'
  PROVE  WorkTypeOK'
<1>1. /\ pc'[w] = l /\ task'[w] = task[w] /\ response'[w] = response[w]
      /\ pc' = [pc EXCEPT ![w] = pc'[w]] /\ task' = [task EXCEPT ![w] = task'[w]]
      /\ response' = [response EXCEPT ![w] = response'[w]]
  BY DEF Goto, WorkTypeOK
<1> QED BY <1>1, WorkerStep DEF WorkTypeOK

(* Locals that stay the same are the same function.                        *)
LEMMA SameLocals ==
  ASSUME WorkTypeOK, NEW w \in Workers
  PROVE  /\ UNCHANGED ptr => ptr' = [ptr EXCEPT ![w] = ptr'[w]] /\ ptr'[w] \in Cells \cup {NoCell}
         /\ UNCHANGED code => code' = [code EXCEPT ![w] = code'[w]] /\ code'[w] \in Codes \cup {NoCode}
         /\ UNCHANGED todo => todo' = [todo EXCEPT ![w] = todo'[w]] /\ todo'[w] \in Seq(Fds)
BY DEF WorkTypeOK

LEMMA HandleType ==
  ASSUME TypeOK, NEW w \in Workers, Handle(w)
  PROVE  TypeOK'
<1> DEFINE q == Head(queue)
<1>1. q \in Packets /\ queue' \in Seq(Packets)
  BY DEF Handle, TypeOK
<1>2. WorkTypeOK
  BY DEF TypeOK
<1>3. CASE q.type \notin DOMAIN Entry
  BY <1>1, <1>3, Others DEF Handle, TypeOK
<1>4. CASE q.type \in DOMAIN Entry
  <2>1. /\ task' = [task EXCEPT ![w] = q] /\ UNCHANGED <<ptr, code, todo>>
        /\ IF Unparsable(q) THEN Answer(w, "FAIL") ELSE Goto(w, Entry[q.type]) /\ UNCHANGED response
    BY <1>4 DEF Handle
  <2>2. q.type \in {"REGISTER", "CREATE", "JOIN", "EXIT", "MESSAGE"}
    BY <1>4 DEF Entry
  <2> HIDE DEF q
  <2>3. task'[w] = q /\ q # NoTask
    BY <1>1, <1>2, <2>1, PacketFields DEF WorkTypeOK
  <2>4. CASE Unparsable(q)
    <3>1. pc' = [pc EXCEPT ![w] = "reply"] /\ response' = [response EXCEPT ![w] = "FAIL"]
      BY <2>1, <2>4 DEF Answer, Goto
    <3>2. pc'[w] = "reply" /\ response'[w] = "FAIL"
      BY <1>2, <3>1 DEF WorkTypeOK
    <3>3. LocalsOK(w)'
      BY <2>3, <3>2 DEF LocalsOK
    <3>4. WorkTypeOK'
      BY <1>1, <1>2, <2>1, <2>3, <3>1, <3>2, <3>3, WorkerStep, SameLocals DEF PcLabels
    <3> QED BY <1>1, <3>4, Others DEF Handle, TypeOK
  <2>5. CASE ~Unparsable(q)
    <3>1. pc' = [pc EXCEPT ![w] = Entry[q.type]] /\ UNCHANGED response
      BY <2>1, <2>5 DEF Goto
    <3>2. /\ pc'[w] = Entry[q.type] /\ response'[w] = response[w]
          /\ response' = [response EXCEPT ![w] = response'[w]]
          /\ response'[w] \in {"none", "OK", "FAIL"}
      BY <1>2, <3>1 DEF WorkTypeOK
    <3>3. \/ q.type = "REGISTER" /\ pc'[w] = "isNicknameTaken" /\ q.arg \in Nicks
          \/ q.type = "CREATE" /\ pc'[w] = "addRoom" /\ q.arg \in Int
          \/ q.type = "JOIN" /\ pc'[w] = "getClient" /\ q.arg \in Codes
          \/ q.type \in {"EXIT", "MESSAGE"} /\ pc'[w] = "getClient"
      BY <1>1, <2>2, <2>5, <3>2, PacketFields DEF Unparsable, Arguments, Entry
    <3>4. LocalsOK(w)'
      BY <2>3, <3>3 DEF LocalsOK
    <3>5. pc'[w] \in PcLabels
      BY <3>3 DEF PcLabels
    <3>6. WorkTypeOK'
      BY <1>1, <1>2, <2>1, <2>3, <3>1, <3>2, <3>4, <3>5, WorkerStep, SameLocals
    <3> QED BY <1>1, <3>6, Others DEF Handle, TypeOK
  <2> QED BY <2>4, <2>5
<1> QED BY <1>3, <1>4

-----------------------------------------------------------------------------
(* Room::leaveUser takes the descriptor out and keeps the others.          *)
LEMMA WithoutType ==
  ASSUME NEW S, NEW s \in Seq(S), NEW e
  PROVE  /\ Without(s, e) \in Seq(S)
         /\ Len(Without(s, e)) <= Len(s)
         /\ IsInjective(s) => IsInjective(Without(s, e))
<1>1. CASE e \notin Range(s)
  BY <1>1 DEF Without
<1>2. CASE e \in Range(s)
  <2> DEFINE i == CHOOSE j \in DOMAIN s : s[j] = e
  <2>1. i \in DOMAIN s
    BY <1>2 DEF Range
  <2> DEFINE left == SubSeq(s, 1, i - 1)
             right == SubSeq(s, i + 1, Len(s))
  <2>2. Without(s, e) = left \o right
    BY <1>2 DEF Without
  <2> HIDE DEF i
  <2>3. i \in 1 .. Len(s) /\ Len(s) \in Nat
    BY <2>1
  <2>4. /\ left \in Seq(S) /\ Len(left) = i - 1
        /\ \A k \in 1 .. i - 1 : left[k] = s[k]
    BY <2>3
  <2>5. /\ right \in Seq(S) /\ Len(right) = Len(s) - i
        /\ \A k \in 1 .. Len(s) - i : right[k] = s[i + k]
    BY <2>3
  <2> HIDE DEF left, right
  <2>6. /\ left \o right \in Seq(S)
        /\ Len(left \o right) = Len(s) - 1
    <3>1. left \o right \in Seq(S) /\ Len(left \o right) = Len(left) + Len(right)
      BY <2>4, <2>5
    <3> QED BY <2>3, <2>4, <2>5, <3>1
  <2>7. \A k \in 1 .. Len(s) - 1 :
          (left \o right)[k] = IF k < i THEN s[k] ELSE s[k + 1]
    BY <2>3, <2>4, <2>5
  <2>8. ASSUME IsInjective(s) PROVE IsInjective(left \o right)
    <3>1. DOMAIN (left \o right) = 1 .. Len(s) - 1
      BY <2>6, <2>3
    <3>2. SUFFICES ASSUME NEW k \in 1 .. Len(s) - 1, NEW m \in 1 .. Len(s) - 1,
                          (left \o right)[k] = (left \o right)[m]
                   PROVE  k = m
      BY <3>1 DEF IsInjective
    <3>3. \A a, b \in 1 .. Len(s) : s[a] = s[b] => a = b
      BY <2>8 DEF IsInjective
    <3> DEFINE from(j) == IF j < i THEN j ELSE j + 1
    <3>4. /\ from(k) \in 1 .. Len(s) /\ from(m) \in 1 .. Len(s)
          /\ from(k) = from(m) => k = m
      BY <2>3, <3>2
    <3>5. s[from(k)] = s[from(m)]
      BY <2>7, <3>2
    <3> HIDE DEF from
    <3> QED BY <3>3, <3>4, <3>5
  <2> QED BY <2>2, <2>3, <2>6, <2>8
<1> QED BY <1>1, <1>2

(* What getClientFds may return is a sequence of descriptors.              *)
LEMMA CopiesType ==
  ASSUME RoomTypeOK, NEW w \in Workers, NEW copy \in Copies(w)
  PROVE  copy \in Seq(Fds)
<1>1. \A r \in Used : rooms[r].clients \in Seq(Fds) /\ r \in Codes
  BY DEF Used, RoomTypeOK, Rooms
<1>2. ASSUME NEW s \in Seq(Fds), NEW t \in Torn(s) PROVE t \in Seq(Fds)
  <2>1. CASE t = s
    BY <2>1
  <2>2. CASE \E n \in {Len(s), Len(s) - 1} \cap Nat : t \in [1 .. n -> Range(s)]
    <3>1. Range(s) \subseteq Fds
      BY DEF Range
    <3> QED BY <2>2, <3>1
  <2> QED BY <2>1, <2>2 DEF Torn
<1> QED BY <1>1, <1>2, EmptySeq DEF Copies

(* The steps that touch no shared state but the directories.               *)
LEMMA DirectoryStepsType ==
  ASSUME TypeOK, NEW w \in Workers,
         \/ IsNicknameTaken(w) \/ SetNickname(w) \/ AddRoom(w) \/ GetClient(w) \/ CheckClient(w)
  PROVE  TypeOK'
<1>0. WorkTypeOK
  BY DEF TypeOK
<1>1. task[w] # NoTask => task[w] \in Packets /\ task[w].fd \in Fds
  BY <1>0, PacketFields DEF WorkTypeOK
<1>2. pc[w] # "idle" => task[w] # NoTask
  BY <1>0 DEF WorkTypeOK, LocalsOK
<1>3. CASE IsNicknameTaken(w)
  <2>1. pc[w] = "isNicknameTaken" /\ UNCHANGED <<task, ptr, code, todo>>
    BY <1>3 DEF IsNicknameTaken
  <2>2. CASE Answer(w, "FAIL")
    BY <1>0, <1>3, <2>1, <2>2, AnswerType, Others DEF IsNicknameTaken, TypeOK
  <2>3. CASE Goto(w, "setNickname") /\ UNCHANGED response
    <3>1. pc'[w] = "setNickname"
      BY <1>0, <2>3 DEF Goto, WorkTypeOK
    <3>2. LocalsOK(w)'
      BY <1>0, <1>2, <2>1, <3>1 DEF LocalsOK, WorkTypeOK
    <3>3. WorkTypeOK'
      BY <1>0, <2>1, <2>3, <3>2, GotoType, SameLocals DEF PcLabels
    <3> QED BY <1>3, <3>3, Others DEF IsNicknameTaken, TypeOK
  <2> QED BY <1>3, <2>2, <2>3 DEF IsNicknameTaken
<1>4. CASE SetNickname(w)
  <2>1. pc[w] = "setNickname" /\ UNCHANGED <<task, ptr, code, todo>> /\ Answer(w, "OK")
    BY <1>4 DEF SetNickname
  <2>2. WorkTypeOK'
    BY <1>0, <2>1, AnswerType
  <2>3. task[w].arg \in Nicks /\ task[w].fd \in Fds
    BY <1>0, <1>1, <1>2, <2>1 DEF LocalsOK, WorkTypeOK
  <2>4. ClientTypeOK'
    <3> DEFINE x == m_clients[task[w].fd]
    <3>1. CASE x = NoCell
      BY <1>4, <3>1 DEF SetNickname, TypeOK, ClientTypeOK
    <3>2. CASE x # NoCell
      <4>1. /\ info' = [info EXCEPT ![x].nickname = task[w].arg, ![x].isAuthenticated = TRUE]
            /\ m_nicknames' = m_nicknames \cup {task[w].arg} /\ m_clients' = m_clients
        BY <1>4, <3>2 DEF SetNickname
      <4>2. x \in Cells
        BY <2>3, <3>2 DEF TypeOK, ClientTypeOK
      <4> HIDE DEF x
      <4>3. [info[x] EXCEPT !.nickname = task[w].arg, !.isAuthenticated = TRUE] \in Infos
        <5>1. info[x] \in Infos
          BY <4>2 DEF TypeOK, ClientTypeOK
        <5> QED BY <2>3, <5>1 DEF Infos
      <4>4. info' = [info EXCEPT ![x] = [info[x] EXCEPT !.nickname = task[w].arg, !.isAuthenticated = TRUE]]
        BY <4>1, <4>2 DEF TypeOK, ClientTypeOK, Infos
      <4>5. info' \in [Cells -> Infos]
        BY <4>3, <4>4 DEF TypeOK, ClientTypeOK
      <4> QED BY <2>3, <4>1, <4>5 DEF TypeOK, ClientTypeOK
    <3> QED BY <3>1, <3>2
  <2> QED BY <1>4, <2>2, <2>4, Others DEF SetNickname, TypeOK
<1>5. CASE AddRoom(w)
  <2>1. CASE ~CanAddRoom /\ Answer(w, "FAIL") /\ UNCHANGED <<rooms, code>>
    <3>1. WorkTypeOK'
      BY <1>0, <1>5, <2>1, AnswerType DEF AddRoom
    <3> QED BY <1>5, <2>1, <3>1, Others DEF AddRoom, TypeOK, roomVars
  <2>2. ASSUME NEW r \in Codes \ Used,
               rooms' = [rooms EXCEPT ![r] = [maxUserCnt |-> task[w].arg, clients |-> <<>>]],
               code' = [code EXCEPT ![w] = r], Goto(w, "getClient"), UNCHANGED response
        PROVE  TypeOK'
    <3>1. pc[w] = "addRoom" /\ UNCHANGED <<joined, task, ptr, todo>>
      BY <1>5 DEF AddRoom
    <3>2. task[w].type = "CREATE" /\ task[w].arg \in Int
      BY <1>0, <3>1 DEF LocalsOK, WorkTypeOK
    <3>3. RoomTypeOK'
      <4>1. [maxUserCnt |-> task[w].arg, clients |-> <<>>] \in Rooms
        BY <3>2, EmptySeq DEF Rooms
      <4> QED BY <2>2, <3>1, <4>1 DEF TypeOK, RoomTypeOK
    <3>4. pc'[w] = "getClient" /\ code'[w] = r /\ task'[w] = task[w]
      BY <1>0, <2>2, <3>1 DEF Goto, WorkTypeOK
    <3>5. LocalsOK(w)'
      BY <1>2, <3>1, <3>2, <3>4 DEF LocalsOK
    <3>6. WorkTypeOK'
      BY <1>0, <2>2, <3>1, <3>4, <3>5, GotoType, SameLocals DEF PcLabels
    <3> QED BY <1>5, <3>3, <3>6, Others DEF AddRoom, TypeOK
  <2> QED BY <1>5, <2>1, <2>2 DEF AddRoom
<1>6. CASE GetClient(w)
  <2> DEFINE x == m_clients[task[w].fd]
  <2>0. pc[w] = "getClient" /\ UNCHANGED <<peerVars, ioVars, clientVars, roomVars, queue, status>>
    BY <1>6 DEF GetClient
  <2>1. CASE Idle(w)
    BY <1>0, <2>0, <2>1, IdleType, Others DEF TypeOK
  <2>2. ASSUME NEW b \in {"OK", "FAIL"}, Answer(w, b), UNCHANGED <<task, ptr, code, todo>> PROVE TypeOK'
    BY <1>0, <2>0, <2>2, AnswerType, Others DEF TypeOK
  <2>3. CASE /\ x # NoCell
             /\ ptr' = [ptr EXCEPT ![w] = x]
             /\ Goto(w, IF task[w].type = "CREATE" THEN "joinRoom" ELSE "checkClient")
             /\ UNCHANGED <<task, code, todo, response>>
    <3>1. x \in Cells
      BY <1>1, <1>2, <2>0, <2>3 DEF TypeOK, ClientTypeOK
    <3> HIDE DEF x
    <3>2. /\ ptr'[w] = x /\ task'[w] = task[w]
          /\ pc'[w] = IF task[w].type = "CREATE" THEN "joinRoom" ELSE "checkClient"
      BY <1>0, <2>3 DEF Goto, WorkTypeOK
    <3>3. LocalsOK(w)'
      BY <1>0, <1>2, <2>0, <2>3, <3>2 DEF LocalsOK, WorkTypeOK
    <3>4. WorkTypeOK'
      BY <1>0, <2>3, <3>1, <3>2, <3>3, GotoType, SameLocals DEF PcLabels
    <3> QED BY <2>0, <3>4, Others DEF TypeOK
  <2>4. CASE x = NoCell
    BY <1>6, <2>1, <2>2, <2>4 DEF GetClient
  <2> QED BY <1>6, <2>3, <2>4 DEF GetClient
<1>7. CASE CheckClient(w)
  <2>0. /\ pc[w] = "checkClient" /\ UNCHANGED <<peerVars, ioVars, clientVars, roomVars, queue, status>>
        /\ ptr[w] \in Cells /\ info[ptr[w]].roomCode \in Codes \cup {NoCode}
    BY <1>0, <1>7 DEF CheckClient, TypeOK, WorkTypeOK, LocalsOK, ClientTypeOK, Infos
  <2>1. CASE Idle(w)
    BY <1>0, <2>0, <2>1, IdleType, Others DEF TypeOK
  <2>2. CASE Answer(w, "FAIL") /\ UNCHANGED <<task, ptr, code, todo>>
    BY <1>0, <2>0, <2>2, AnswerType, Others DEF TypeOK
  <2>3. ASSUME NEW l \in {"joinRoom", "getRoom"}, Goto(w, l), UNCHANGED <<task, ptr, todo, response>>,
               code' = [code EXCEPT ![w] = code'[w]], code'[w] \in Codes \cup {NoCode}
        PROVE  TypeOK'
    <3>1. pc'[w] = l /\ task'[w] = task[w] /\ ptr'[w] = ptr[w]
      BY <1>0, <2>3 DEF Goto, WorkTypeOK
    <3>2. LocalsOK(w)'
      BY <1>0, <1>2, <2>0, <2>3, <3>1 DEF LocalsOK, WorkTypeOK
    <3>3. WorkTypeOK'
      BY <1>0, <2>3, <3>2, GotoType, SameLocals DEF PcLabels
    <3> QED BY <2>0, <3>3, Others DEF TypeOK
  <2>4. ASSUME NEW l \in {"joinRoom", "getRoom"}, Goto(w, l), UNCHANGED <<task, ptr, todo, response>>,
               NEW r \in Codes \cup {NoCode}, code' = [code EXCEPT ![w] = r]
        PROVE  TypeOK'
    <3>1. code' = [code EXCEPT ![w] = code'[w]] /\ code'[w] \in Codes \cup {NoCode}
      BY <1>0, <2>4 DEF WorkTypeOK
    <3> QED BY <2>3, <2>4, <3>1
  <2>5. CASE task[w].type = "JOIN"
    <3>1. task[w].arg \in Codes
      BY <1>0, <2>0, <2>5 DEF WorkTypeOK, LocalsOK
    <3> QED BY <1>7, <2>2, <2>4, <2>5, <3>1 DEF CheckClient
  <2>6. CASE task[w].type = "EXIT"
    BY <1>7, <2>0, <2>2, <2>4, <2>6 DEF CheckClient
  <2>7. CASE task[w].type \notin {"JOIN", "EXIT"}
    <3>1. \/ Idle(w)
          \/ Goto(w, "getRoom") /\ UNCHANGED <<task, ptr, code, todo, response>>
      BY <1>7, <2>7, Zenon DEF CheckClient
    <3> QED BY <1>0, <2>1, <2>3, <3>1, SameLocals
  <2> QED BY <2>5, <2>6, <2>7
<1> QED BY <1>3, <1>4, <1>5, <1>6, <1>7

(* The steps on rooms and on the roomCode of the client.                   *)
LEMMA RoomStepsType ==
  ASSUME TypeOK, NEW w \in Workers,
         JoinRoom(w) \/ SetRoomCode(w) \/ LeaveRoom(w) \/ ClearRoomCode(w)
  PROVE  TypeOK'
<1>0. WorkTypeOK
  BY DEF TypeOK
<1>1. pc[w] # "idle" => task[w] \in Packets /\ task[w].fd \in Fds /\ task[w].conn \in Conns /\ task[w] # NoTask
  BY <1>0, PacketFields DEF WorkTypeOK, LocalsOK
<1>2. ASSUME NEW l \in {"setRoomCode", "getRoom", "clearRoomCode"}, Goto(w, l),
             UNCHANGED <<task, ptr, code, todo, response>>,
             pc[w] \in {"joinRoom", "setRoomCode", "leaveRoom"}
      PROVE  WorkTypeOK'
  <2>1. pc'[w] = l /\ task'[w] = task[w] /\ ptr'[w] = ptr[w]
    BY <1>0, <1>2 DEF Goto, WorkTypeOK
  <2>2. LocalsOK(w)'
    BY <1>0, <1>1, <1>2, <2>1 DEF LocalsOK, WorkTypeOK
  <2> QED BY <1>0, <1>2, <2>2, GotoType, SameLocals DEF PcLabels
<1>3. CASE JoinRoom(w)
  <2>0. /\ pc[w] = "joinRoom"
        /\ UNCHANGED <<task, ptr, code, todo, peerVars, ioVars, clientVars, queue, status>>
    BY <1>3 DEF JoinRoom
  <2>1. CASE Answer(w, Refusal(w)) /\ UNCHANGED roomVars
    <3>1. Refusal(w) \in {"OK", "FAIL"}
      BY DEF Refusal
    <3>2. WorkTypeOK'
      BY <1>0, <2>0, <2>1, <3>1, AnswerType
    <3> QED BY <2>0, <2>1, <3>2, Others DEF TypeOK
  <2>2. CASE /\ Admits(code[w], task[w].fd)
             /\ rooms' = [rooms EXCEPT ![code[w]].clients = Append(@, task[w].fd)]
             /\ joined' = [joined EXCEPT ![task[w].conn] = @ \cup {code[w]}]
             /\ Goto(w, "setRoomCode") /\ UNCHANGED response
    <3>1. code[w] \in Codes /\ rooms[code[w]] \in Rooms
      BY <2>2 DEF Admits, TypeOK, RoomTypeOK
    <3>2. [rooms[code[w]] EXCEPT !.clients = Append(@, task[w].fd)] \in Rooms
      <4>1. \A room \in Rooms, fd \in Fds : Append(room.clients, fd) \in Seq(Fds)
        BY DEF Rooms
      <4>2. \A room \in Rooms, s \in Seq(Fds) : [room EXCEPT !.clients = s] \in Rooms
        BY DEF Rooms
      <4> QED BY <1>1, <2>0, <3>1, <4>1, <4>2
    <3>3. rooms' \in [Codes -> Rooms \cup {NoRoom}]
      BY <2>2, <3>2 DEF TypeOK, RoomTypeOK
    <3>4. joined' \in [Conns -> SUBSET Codes]
      BY <2>2, <3>1 DEF TypeOK, RoomTypeOK
    <3> QED BY <1>2, <2>0, <2>2, <3>3, <3>4, Others DEF TypeOK, RoomTypeOK
  <2> QED BY <1>3, <2>1, <2>2 DEF JoinRoom
<1>4. ASSUME NEW r \in Codes \cup {NoCode}, info' = [info EXCEPT ![ptr[w]].roomCode = r],
             UNCHANGED <<m_clients, m_nicknames>>
      PROVE  ClientTypeOK'
  <2>1. ASSUME NEW x \in Cells PROVE [info[x] EXCEPT !.roomCode = r] \in Infos
    BY DEF TypeOK, ClientTypeOK, Infos
  <2>2. info' = [info EXCEPT ![ptr[w]] = [info[ptr[w]] EXCEPT !.roomCode = r]]
    BY <1>4
  <2>3. \A x \in Cells : info'[x] = IF x = ptr[w] THEN [info[x] EXCEPT !.roomCode = r] ELSE info[x]
    BY <2>2 DEF TypeOK, ClientTypeOK
  <2>4. info' \in [Cells -> Infos]
    BY <2>1, <2>2, <2>3 DEF TypeOK, ClientTypeOK
  <2> QED BY <1>4, <2>4 DEF TypeOK, ClientTypeOK
<1>5. CASE SetRoomCode(w)
  <2>0. /\ pc[w] = "setRoomCode"
        /\ UNCHANGED <<m_clients, m_nicknames, task, ptr, code, todo, peerVars, ioVars, roomVars, queue, status>>
    BY <1>5 DEF SetRoomCode
  <2>1. ClientTypeOK'
    BY <1>0, <1>4, <1>5 DEF SetRoomCode, WorkTypeOK
  <2>2. WorkTypeOK'
    <3>1. \/ Answer(w, "OK")
          \/ Goto(w, "getRoom") /\ UNCHANGED response
      BY <1>5, Zenon DEF SetRoomCode
    <3> QED BY <1>0, <1>2, <2>0, <3>1, AnswerType
  <2> QED BY <2>0, <2>1, <2>2, Others DEF TypeOK
<1>6. CASE LeaveRoom(w)
  <2>0. /\ pc[w] = "leaveRoom" /\ Goto(w, "clearRoomCode")
        /\ UNCHANGED <<joined, task, ptr, code, todo, response, peerVars, ioVars, clientVars, queue, status>>
    BY <1>6 DEF LeaveRoom
  <2>1. RoomTypeOK'
    <3>1. CASE code[w] \in Used
      <4> DEFINE left == Without(rooms[code[w]].clients, task[w].fd)
      <4>1. code[w] \in Codes /\ rooms[code[w]] \in Rooms /\ rooms[code[w]].clients \in Seq(Fds)
        BY <3>1 DEF Used, TypeOK, RoomTypeOK, Rooms
      <4>2. left \in Seq(Fds)
        BY <4>1, WithoutType
      <4> HIDE DEF left
      <4>3. Remains(code[w], left) \in Rooms \cup {NoRoom}
        BY <4>1, <4>2 DEF Remains, Rooms
      <4>4. rooms' = [rooms EXCEPT ![code[w]] = Remains(code[w], left)]
        BY <1>6, <3>1 DEF LeaveRoom, left
      <4> QED BY <2>0, <4>1, <4>3, <4>4 DEF TypeOK, RoomTypeOK
    <3>2. CASE code[w] \notin Used
      BY <1>6, <2>0, <3>2 DEF LeaveRoom, TypeOK, RoomTypeOK
    <3> QED BY <3>1, <3>2
  <2> QED BY <1>2, <2>0, <2>1, Others DEF TypeOK
<1>7. CASE ClearRoomCode(w)
  <2>0. /\ pc[w] = "clearRoomCode" /\ Answer(w, "OK")
        /\ UNCHANGED <<m_clients, m_nicknames, task, ptr, code, todo, peerVars, ioVars, roomVars, queue, status>>
    BY <1>7 DEF ClearRoomCode
  <2>1. ClientTypeOK'
    BY <1>4, <1>7 DEF ClearRoomCode
  <2>2. WorkTypeOK'
    BY <1>0, <2>0, AnswerType
  <2> QED BY <2>0, <2>1, <2>2, Others DEF TypeOK
<1> QED BY <1>3, <1>5, <1>6, <1>7

(* The broadcast loop and the response.                                    *)
LEMMA SendStepsType ==
  ASSUME TypeOK, NEW w \in Workers,
         GetRoom(w) \/ CopyFds(w) \/ SendNext(w) \/ Reply(w)
  PROVE  TypeOK'
<1>0. WorkTypeOK /\ PeerTypeOK
  BY DEF TypeOK
<1>1. pc[w] # "idle" => task[w] \in Packets /\ task[w].fd \in Fds /\ task[w] # NoTask
  BY <1>0, PacketFields DEF WorkTypeOK, LocalsOK
<1>2. CASE GetRoom(w)
  <2>0. pc[w] = "getRoom" /\ UNCHANGED <<peerVars, ioVars, clientVars, roomVars, queue, status>>
    BY <1>2 DEF GetRoom
  <2>1. CASE AfterBroadcast(w)
    BY <1>0, <2>0, <2>1, BroadcastEnds, Others DEF TypeOK
  <2>2. CASE /\ Target(w) \in Used
             /\ code' = [code EXCEPT ![w] = Target(w)]
             /\ Goto(w, "copyFds") /\ UNCHANGED <<task, ptr, todo, response>>
    <3>1. pc'[w] = "copyFds" /\ task'[w] = task[w] /\ ptr'[w] = ptr[w]
          /\ code'[w] = Target(w) /\ code'[w] \in Codes
      BY <1>0, <2>2 DEF Goto, WorkTypeOK, Used
    <3>2. LocalsOK(w)'
      BY <1>0, <1>1, <2>0, <3>1 DEF LocalsOK, WorkTypeOK
    <3>3. WorkTypeOK'
      BY <1>0, <2>2, <3>1, <3>2, GotoType, SameLocals DEF PcLabels
    <3> QED BY <2>0, <3>3, Others DEF TypeOK
  <2> QED BY <1>2, <2>1, <2>2 DEF GetRoom
<1>3. CASE CopyFds(w)
  <2>0. pc[w] = "copyFds" /\ UNCHANGED <<peerVars, ioVars, clientVars, roomVars, queue, status>>
    BY <1>3 DEF CopyFds
  <2>1. CASE AfterBroadcast(w)
    BY <1>0, <2>0, <2>1, BroadcastEnds, Others DEF TypeOK
  <2>2. ASSUME NEW copy \in Copies(w), copy # <<>>, todo' = [todo EXCEPT ![w] = copy],
               Goto(w, "send"), UNCHANGED <<task, ptr, code, response>>
        PROVE  TypeOK'
    <3>1. copy \in Seq(Fds)
      BY CopiesType DEF TypeOK
    <3>2. pc'[w] = "send" /\ task'[w] = task[w] /\ ptr'[w] = ptr[w] /\ todo'[w] = copy
      BY <1>0, <2>2 DEF Goto, WorkTypeOK
    <3>3. LocalsOK(w)'
      BY <1>0, <1>1, <2>0, <2>2, <3>2 DEF LocalsOK, WorkTypeOK
    <3>4. WorkTypeOK'
      BY <1>0, <2>2, <3>1, <3>2, <3>3, GotoType, SameLocals DEF PcLabels
    <3> QED BY <2>0, <3>4, Others DEF TypeOK
  <2> QED BY <1>3, <2>1, <2>2 DEF CopyFds
<1>4. CASE SendNext(w)
  <2>0. pc[w] = "send" /\ UNCHANGED <<peer, pending, wire, sends, ioVars, clientVars, roomVars, queue, status>>
    BY <1>4 DEF SendNext
  <2>1. todo[w] \in Seq(Fds) /\ todo[w] # <<>>
    BY <1>0, <2>0 DEF WorkTypeOK, LocalsOK
  <2>2. Head(todo[w]) \in Fds /\ Tail(todo[w]) \in Seq(Fds) /\ (Len(todo[w]) > 1 => Tail(todo[w]) # <<>>)
    <3>1. /\ Head(todo[w]) \in Fds /\ Tail(todo[w]) \in Seq(Fds)
          /\ Len(Tail(todo[w])) = Len(todo[w]) - 1
      BY <2>1, HeadTailProperties
    <3>2. Len(Tail(todo[w])) = 0 <=> Tail(todo[w]) = <<>>
      BY <3>1, EmptySeq
    <3>3. Len(todo[w]) \in Nat
      BY <2>1
    <3> DEFINE n == Len(todo[w])
               m == Len(Tail(todo[w]))
    <3>4. n > 1 => m # 0
      <4>1. n \in Nat /\ m = n - 1
        BY <3>1, <3>3
      <4> HIDE DEF n, m
      <4> QED BY <4>1
    <3> QED BY <3>1, <3>2, <3>4
  <2>3. unread' \in [Conns -> 0 .. SendCap]
    BY <1>0, <1>4, <2>2, TransmitType DEF SendNext, PeerTypeOK
  <2>4. PeerTypeOK'
    BY <2>0, <2>3 DEF TypeOK, PeerTypeOK
  <2>5. CASE AfterBroadcast(w)
    BY <1>0, <2>0, <2>4, <2>5, BroadcastEnds, Others DEF TypeOK
  <2>6. CASE /\ Len(todo[w]) > 1 /\ todo' = [todo EXCEPT ![w] = Tail(@)]
             /\ UNCHANGED <<pc, task, ptr, code, response>>
    <3>1. todo' = [todo EXCEPT ![w] = todo'[w]] /\ todo'[w] = Tail(todo[w])
      BY <1>0, <2>6 DEF WorkTypeOK
    <3>2. LocalsOK(w)'
      BY <1>0, <2>0, <2>2, <2>6, <3>1 DEF LocalsOK, WorkTypeOK
    <3>3. pc' = [pc EXCEPT ![w] = "send"]
      BY <1>0, <2>0, <2>6 DEF WorkTypeOK
    <3>4. WorkTypeOK'
      BY <1>0, <2>2, <2>6, <3>1, <3>2, <3>3, GotoType, SameLocals DEF PcLabels, Goto
    <3> QED BY <2>0, <2>4, <3>4, Others DEF TypeOK
  <2> QED BY <1>4, <2>5, <2>6 DEF SendNext
<1>5. CASE Reply(w)
  <2>0. /\ pc[w] = "reply" /\ Idle(w) /\ Transmit(task[w].fd)
        /\ UNCHANGED <<pending, wire, sends, ioVars, clientVars, roomVars, queue, status>>
    BY <1>5 DEF Reply
  <2>1. unread' \in [Conns -> 0 .. SendCap]
    BY <1>0, <1>1, <2>0, TransmitType
  <2>2. peer' \in [Conns -> {"off", "anon", "lobby", "chat", "waiting", "gone", "dropped"}]
    <3>1. Believes(task[w], response[w]) \in {"lobby", "anon", "chat"}
      BY DEF Believes
    <3>2. PICK p \in {"lobby", "anon", "chat"} : peer' = peer \/ peer' = [peer EXCEPT ![socket[task[w].fd]] = p]
      BY <1>5, <3>1 DEF Reply
    <3> QED BY <1>0, <3>2 DEF PeerTypeOK
  <2>3. PeerTypeOK'
    BY <2>0, <2>1, <2>2 DEF TypeOK, PeerTypeOK
  <2> QED BY <1>0, <2>0, <2>3, IdleType, Others DEF TypeOK
<1> QED BY <1>2, <1>3, <1>4, <1>5

-----------------------------------------------------------------------------
(* The inductive invariant of the I/O thread.  Beyond types and coherence, *)
(* a connection the server knows of was opened by its peer, so no peer     *)
(* opens a connection that is already behind a descriptor, and the         *)
(* connection being closed is one whose peer left with nothing unread.     *)
Acquainted ==
  \A c \in Conns : peer[c] = "off" => c \notin pending /\ \A fd \in Fds : socket[fd] # c

ClosingDeparted ==
  closing # NoFd => peer[socket[closing]] = "gone" /\ wire[socket[closing]] = <<>>

IOInv == TypeOK /\ IOCoherent /\ Acquainted /\ ClosingDeparted

(* What peers and workers may do to connections: they end no hang-up and   *)
(* take back no packet, and touch neither descriptors nor clients.         *)
Calm ==
  /\ UNCHANGED <<ioVars, m_clients, pending>>
  /\ \A c \in Conns :
       /\ peer[c] = "gone" => peer'[c] = "gone" /\ wire'[c] = wire[c]
       /\ peer[c] # "off" => peer'[c] # "off"
       /\ wire[c] # <<>> => wire'[c] # <<>>

LEMMA CalmKeepsIO ==
  ASSUME IOInv, Calm
  PROVE  IOCoherent' /\ Acquainted' /\ ClosingDeparted'
<1>1. /\ socket' = socket /\ batch' = batch /\ adding' = adding /\ closing' = closing
      /\ m_clients' = m_clients /\ pending' = pending /\ Open' = Open
  BY DEF Calm, ioVars, Open
<1>0. \A c \in Conns :
        /\ peer[c] = "gone" => peer'[c] = "gone" /\ wire'[c] = wire[c]
        /\ peer[c] # "off" => peer'[c] # "off"
        /\ wire[c] # <<>> => wire'[c] # <<>>
  BY DEF Calm
<1>2. \A fd \in Fds : socket[fd] # NoConn => socket[fd] \in Conns
  BY DEF IOInv, TypeOK, IOTypeOK
<1>3. \A fd \in Fds : Readable(fd) => Readable(fd)'
  BY <1>0, <1>1, <1>2 DEF Readable
<1>4. batch \subseteq Fds \cup {Listener}
  BY DEF IOInv, TypeOK, IOTypeOK
<1>5. IOCoherent'
  BY <1>1, <1>3, <1>4 DEF IOInv, IOCoherent
<1>6. Acquainted'
  BY <1>0, <1>1 DEF IOInv, Acquainted
<1>7. ClosingDeparted'
  <2>1. closing # NoFd => closing \in Fds /\ socket[closing] \in Conns
    BY <1>2 DEF IOInv, TypeOK, IOTypeOK, IOCoherent, Open
  <2> QED BY <1>0, <1>1, <2>1 DEF IOInv, ClosingDeparted
<1> QED BY <1>5, <1>6, <1>7

LEMMA WorkersAreCalm ==
  ASSUME TypeOK, NEW w \in Workers, Work(w) \/ Dies(w)
  PROVE  Calm
<1>1. CASE UNCHANGED <<peer, wire, pending, ioVars, m_clients>>
  BY <1>1 DEF Calm
<1>2. CASE Reply(w)
  <2>1. UNCHANGED <<wire, pending, ioVars, m_clients>>
    BY <1>2 DEF Reply, clientVars
  <2>2. Believes(task[w], response[w]) \in {"lobby", "anon", "chat"}
    BY DEF Believes
  <2> DEFINE d == socket[task[w].fd]
  <2>3. PICK p \in {"lobby", "anon", "chat"} :
          peer' = peer \/ (peer[d] = "waiting" /\ peer' = [peer EXCEPT ![d] = p])
    BY <1>2, <2>2 DEF Reply
  <2>4. \A c \in Conns : peer'[c] = peer[c] \/ (peer[c] = "waiting" /\ peer'[c] \in {"lobby", "anon", "chat"})
    BY <2>3 DEF TypeOK, PeerTypeOK
  <2> QED BY <2>1, <2>4 DEF Calm
<1> QED
  BY <1>1, <1>2
  DEF Work, Dies, Handle, IsNicknameTaken, SetNickname, AddRoom, GetClient, CheckClient, JoinRoom,
      SetRoomCode, GetRoom, CopyFds, SendNext, LeaveRoom, ClearRoomCode, BrokenPipe, DanglingUse,
      peerVars, clientVars

LEMMA PeersKeepIO ==
  ASSUME IOInv, NEW c \in Conns,
         Connect(c) \/ Read(c) \/ Disconnect(c) \/ \E q \in Requests : Send(c, q)
  PROVE  IOCoherent' /\ Acquainted' /\ ClosingDeparted'
<1>0. /\ peer \in [Conns -> {"off", "anon", "lobby", "chat", "waiting", "gone", "dropped"}]
      /\ wire \in [Conns -> Seq(Requests)]
  BY DEF IOInv, TypeOK, PeerTypeOK
<1>1. CASE Read(c)
  <2>1. Calm
    BY <1>1 DEF Read, Calm, clientVars
  <2> QED BY <2>1, CalmKeepsIO
<1>2. CASE Disconnect(c)
  <2>1. Calm
    BY <1>0, <1>2 DEF Disconnect, Calm, clientVars, Connected
  <2> QED BY <2>1, CalmKeepsIO
<1>3. ASSUME NEW q \in Requests, Send(c, q) PROVE Calm
  <2>1. /\ UNCHANGED <<ioVars, m_clients, pending>> /\ wire' = [wire EXCEPT ![c] = Append(@, q)]
        /\ peer' = [peer EXCEPT ![c] = IF q.type \in {"MESSAGE", "UNKNOWN"} THEN @ ELSE "waiting"]
    BY <1>3 DEF Send, clientVars
  <2>2. peer[c] \notin {"gone", "off"}
    BY <1>3 DEF Send, Asks, Connected
  <2>3. Append(wire[c], q) # <<>>
    BY <1>0
  <2>4. \A d \in Conns : d # c => peer'[d] = peer[d] /\ wire'[d] = wire[d]
    BY <1>0, <2>1
  <2>5. peer'[c] \in {peer[c], "waiting"} /\ wire'[c] = Append(wire[c], q)
    BY <1>0, <2>1
  <2> QED BY <2>1, <2>2, <2>3, <2>4, <2>5 DEF Calm
<1>4. CASE Connect(c)
  <2>1. /\ peer[c] = "off" /\ peer' = [peer EXCEPT ![c] = "anon"] /\ pending' = pending \cup {c}
        /\ UNCHANGED <<wire, ioVars, m_clients>> /\ Open' = Open
    BY <1>4 DEF Connect, clientVars, ioVars, Open
  <2>2. \A fd \in Fds : socket[fd] # c /\ c \notin pending
    BY <2>1 DEF IOInv, Acquainted
  <2>3. \A d \in Conns : peer'[d] = IF d = c THEN "anon" ELSE peer[d]
    BY <1>0, <2>1
  <2>4. \A fd \in Fds : socket[fd] # NoConn => socket[fd] \in Conns
    BY DEF IOInv, TypeOK, IOTypeOK
  <2>5. \A fd \in Fds : Readable(fd) => Readable(fd)'
    BY <2>1, <2>2, <2>3, <2>4 DEF Readable, ioVars
  <2>6. batch \subseteq Fds \cup {Listener}
    BY DEF IOInv, TypeOK, IOTypeOK
  <2>7. IOCoherent'
    BY <2>1, <2>2, <2>5, <2>6 DEF IOInv, IOCoherent, ioVars, Open
  <2>8. Acquainted'
    BY <2>1, <2>3 DEF IOInv, Acquainted, ioVars
  <2>9. ClosingDeparted'
    <3>1. closing # NoFd => closing \in Fds /\ socket[closing] \in Conns
      BY <2>4 DEF IOInv, TypeOK, IOTypeOK, IOCoherent, Open
    <3> QED BY <2>1, <2>2, <2>3, <3>1 DEF IOInv, ClosingDeparted, ioVars
  <2> QED BY <2>7, <2>8, <2>9
<1> QED BY <1>1, <1>2, <1>3, <1>4, CalmKeepsIO

(* What the invariant says of an event that is about to be handled.        *)
LEMMA EventFacts ==
  ASSUME IOInv, NEW fd \in Fds, Handling(fd)
  PROVE  /\ adding = NoFd /\ closing = NoFd /\ fd # NoFd
         /\ fd \in Open /\ m_clients[fd] # NoCell /\ Readable(fd)
         /\ socket[fd] \in Conns
BY ServerAssumption DEF IOInv, IOCoherent, TypeOK, IOTypeOK, Handling, Readable, Open

LEMMA BatchKeepsIO ==
  ASSUME IOInv, EpollWait \/ AcceptFails
  PROVE  IOCoherent' /\ Acquainted' /\ ClosingDeparted'
<1>1. /\ UNCHANGED <<peer, pending, wire, socket, adding, closing, m_clients>>
      /\ Open' = Open /\ \A fd \in Fds : Readable(fd)' <=> Readable(fd)
  BY DEF EpollWait, AcceptFails, peerVars, clientVars, Open, Readable
<1>2. Acquainted' /\ ClosingDeparted'
  BY <1>1 DEF IOInv, Acquainted, ClosingDeparted
<1>3. /\ adding = NoFd /\ closing = NoFd
      /\ \A fd \in batch' \ {Listener} : Readable(fd)
      /\ Listener \in batch' => pending # {}
      /\ NoFd \notin batch'
  <2>1. CASE EpollWait
    BY <2>1, ServerAssumption DEF EpollWait
  <2>2. CASE AcceptFails
    BY <2>2, ServerAssumption DEF AcceptFails, Handling, IOInv, IOCoherent, TypeOK, IOTypeOK
  <2> QED BY <2>1, <2>2
<1>4. batch' \subseteq Fds \cup {Listener}
  BY DEF EpollWait, AcceptFails, IOInv, TypeOK, IOTypeOK
<1>5. \A fd \in batch' \ {Listener} : Readable(fd)'
  BY <1>1, <1>3, <1>4
<1>6. {adding, closing} \cap batch' = {}
  BY <1>3
<1>7. IOCoherent'
  BY <1>1, <1>3, <1>5, <1>6 DEF IOInv, IOCoherent
<1> QED BY <1>2, <1>7

LEMMA AcceptKeepsIO ==
  ASSUME IOInv, NEW c \in Conns, NEW fd \in Fds, Accept(c, fd)
  PROVE  IOCoherent' /\ Acquainted' /\ ClosingDeparted'
<1>0. /\ adding = NoFd /\ closing = NoFd /\ c \in pending /\ fd \notin Open
      /\ pending' = pending \ {c} /\ socket' = [socket EXCEPT ![fd] = c]
      /\ adding' = fd /\ closing' = closing /\ batch' = batch \ {Listener}
      /\ UNCHANGED <<peer, wire, m_clients>>
  BY DEF Accept, Handling, clientVars
<1>1. socket \in [Fds -> Conns \cup {NoConn}] /\ batch \subseteq Fds \cup {Listener}
  BY DEF IOInv, TypeOK, IOTypeOK
<1>2. c # NoConn /\ fd # NoFd
  BY ServerAssumption
<1>3. \A g \in Fds : socket'[g] = IF g = fd THEN c ELSE socket[g]
  BY <1>0, <1>1
<1>4. Open' = Open \cup {fd}
  BY <1>2, <1>3 DEF Open
<1>5. \A g \in Fds : g # fd => (Readable(g)' <=> Readable(g))
  BY <1>0, <1>3 DEF Readable
<1>6. fd \notin batch \ {Listener} /\ \A g \in batch \ {Listener} : g \in Fds /\ Readable(g)
  BY <1>0, <1>1 DEF IOInv, IOCoherent, Readable, Open
<1>7. \A g \in Open : socket[g] # c
  BY <1>0 DEF IOInv, IOCoherent
<1>8. m_clients[fd] = NoCell
  BY <1>0 DEF IOInv, IOCoherent
<1>9. IOCoherent'
  <2>1. \A g \in Fds : m_clients'[g] # NoCell <=> g \in Open' /\ g \notin {adding', closing'}
    BY <1>0, <1>2, <1>4, <1>8 DEF IOInv, IOCoherent
  <2>2. {adding', closing'} \ {NoFd} \subseteq Open' /\ {adding', closing'} \cap batch' = {}
    <3>1. NoFd \notin batch
      BY <1>0 DEF IOInv, IOCoherent
    <3> QED BY <1>0, <1>4, <1>6, <3>1
  <2>3. \A g \in batch' \ {Listener} : Readable(g)'
    BY <1>0, <1>5, <1>6
  <2>4. \A f, g \in Open' : socket'[f] = socket'[g] => f = g
    BY <1>3, <1>4, <1>7 DEF IOInv, IOCoherent, Open
  <2>5. \A f \in Open' : socket'[f] \notin pending'
    BY <1>0, <1>3, <1>4 DEF IOInv, IOCoherent, Open
  <2> QED BY <1>0, <2>1, <2>2, <2>3, <2>4, <2>5 DEF IOInv, IOCoherent
<1>10. Acquainted'
  BY <1>0, <1>3 DEF IOInv, Acquainted
<1>11. ClosingDeparted'
  BY <1>0 DEF ClosingDeparted
<1> QED BY <1>9, <1>10, <1>11

LEMMA AddFdFailsKeepsIO ==
  ASSUME IOInv, NEW c \in Conns, AddFdFails(c)
  PROVE  IOCoherent' /\ Acquainted' /\ ClosingDeparted'
<1>0. /\ adding = NoFd /\ closing = NoFd /\ c \in pending
      /\ pending' = pending \ {c} /\ peer' = [peer EXCEPT ![c] = "dropped"]
      /\ batch' = batch \ {Listener} /\ UNCHANGED <<wire, socket, adding, closing, m_clients>>
      /\ Open' = Open
  BY DEF AddFdFails, Handling, clientVars, Open
<1>1. /\ socket \in [Fds -> Conns \cup {NoConn}] /\ batch \subseteq Fds \cup {Listener}
      /\ \A d \in Conns : peer'[d] = IF d = c THEN "dropped" ELSE peer[d]
  BY <1>0 DEF IOInv, TypeOK, IOTypeOK, PeerTypeOK
<1>2. \A g \in Open : socket[g] # c /\ socket[g] \in Conns
  BY <1>0, <1>1 DEF IOInv, IOCoherent, Open
<1>3. \A g \in Fds : Readable(g) => Readable(g)'
  BY <1>0, <1>1, <1>2 DEF Readable, Open
<1>4. IOCoherent'
  BY <1>0, <1>1, <1>3 DEF IOInv, IOCoherent
<1>5. Acquainted'
  BY <1>0, <1>1 DEF IOInv, Acquainted
<1> QED BY <1>0, <1>4, <1>5 DEF ClosingDeparted

LEMMA AddClientKeepsIO ==
  ASSUME IOInv, NEW x \in Cells, AddClient(x)
  PROVE  IOCoherent' /\ Acquainted' /\ ClosingDeparted'
<1>0. /\ adding # NoFd /\ m_clients' = [m_clients EXCEPT ![adding] = x] /\ adding' = NoFd
      /\ UNCHANGED <<peer, pending, wire, socket, batch, closing>> /\ Open' = Open
      /\ \A g \in Fds : Readable(g)' <=> Readable(g)
  BY DEF AddClient, peerVars, Open, Readable
<1>1. /\ adding \in Fds /\ adding \in Open /\ closing = NoFd /\ m_clients[adding] = NoCell
      /\ adding \notin batch /\ NoFd \notin batch
  BY <1>0 DEF IOInv, IOCoherent, TypeOK, IOTypeOK
<1>2. x \notin Live /\ x # NoCell
  BY <1>1, ServerAssumption DEF AddClient
<1>3. \A g \in Fds : m_clients'[g] = IF g = adding THEN x ELSE m_clients[g]
  BY <1>0 DEF IOInv, TypeOK, ClientTypeOK
<1>4. IOCoherent'
  <2>1. \A g \in Fds : m_clients'[g] # NoCell <=> g \in Open' /\ g \notin {adding', closing'}
    BY <1>0, <1>1, <1>2, <1>3, ServerAssumption DEF IOInv, IOCoherent
  <2>2. \A f, g \in Fds : m_clients'[f] = m_clients'[g] /\ m_clients'[f] # NoCell => f = g
    BY <1>2, <1>3 DEF IOInv, IOCoherent, Live
  <2>3. batch \subseteq Fds \cup {Listener}
    BY DEF IOInv, TypeOK, IOTypeOK
  <2>4. \A g \in batch' \ {Listener} : Readable(g)'
    BY <1>0, <2>3 DEF IOInv, IOCoherent
  <2>5. {adding', closing'} = {NoFd}
    BY <1>0, <1>1
  <2>6. adding' = NoFd \/ closing' = NoFd
    BY <1>0
  <2>7. {adding', closing'} \ {NoFd} \subseteq Open' /\ {adding', closing'} \cap batch' = {}
    BY <1>0, <1>1, <2>5
  <2>8. /\ Listener \in batch' => pending' # {}
        /\ \A f, g \in Open' : socket'[f] = socket'[g] => f = g
        /\ \A f \in Open' : socket'[f] \notin pending'
    BY <1>0 DEF IOInv, IOCoherent
  <2> QED BY <2>1, <2>2, <2>4, <2>6, <2>7, <2>8 DEF IOCoherent
<1> QED BY <1>0, <1>4 DEF IOInv, Acquainted, ClosingDeparted

LEMMA ReceiveKeepsIO ==
  ASSUME IOInv, NEW fd \in Fds, NEW n \in 1 .. MaxSends, Receive(fd, n)
  PROVE  IOCoherent' /\ Acquainted' /\ ClosingDeparted'
<1>0. /\ Handling(fd) /\ UNCHANGED <<peer, pending, socket, adding, closing, m_clients>>
      /\ Open' = Open /\ batch' = batch \ {fd}
      /\ wire' = [wire EXCEPT ![socket[fd]] = SubSeq(@, n + 1, Len(@))]
  BY DEF Receive, clientVars, Open
<1>1. /\ adding = NoFd /\ closing = NoFd /\ fd \in Open
  BY <1>0, EventFacts
<1>2. /\ batch \subseteq Fds \cup {Listener} /\ fd # Listener
      /\ \A g \in Fds : g \in Open /\ g # fd => socket[g] # socket[fd] /\ socket[g] \in Conns
  BY <1>1, ServerAssumption DEF IOInv, IOCoherent, TypeOK, IOTypeOK, Open
<1>3. \A c \in Conns : c # socket[fd] => wire'[c] = wire[c]
  BY <1>0 DEF IOInv, TypeOK, PeerTypeOK
<1>4. \A g \in Fds : g # fd => (Readable(g)' <=> Readable(g))
  BY <1>0, <1>2, <1>3 DEF Readable, Open
<1>5. \A g \in batch' \ {Listener} : Readable(g)'
  BY <1>0, <1>2, <1>4 DEF IOInv, IOCoherent
<1>6. IOCoherent'
  BY <1>0, <1>2, <1>5 DEF IOInv, IOCoherent
<1> QED BY <1>0, <1>1, <1>6 DEF IOInv, Acquainted, ClosingDeparted

LEMMA HangUpKeepsIO ==
  ASSUME IOInv, NEW fd \in Fds, HangUp(fd)
  PROVE  IOCoherent' /\ Acquainted' /\ ClosingDeparted'
<1>0. /\ Handling(fd) /\ UNCHANGED <<peer, pending, wire, socket, adding>> /\ Open' = Open
      /\ batch' = batch \ {fd} /\ closing' = fd
      /\ m_clients' = [m_clients EXCEPT ![fd] = NoCell]
      /\ \A g \in Fds : Readable(g)' <=> Readable(g)
  BY DEF HangUp, RemoveClient, peerVars, Open, Readable
<1>1. /\ adding = NoFd /\ closing = NoFd /\ fd # NoFd /\ fd \in Open /\ m_clients[fd] # NoCell
      /\ Readable(fd)
  BY <1>0, EventFacts
<1>2. wire[socket[fd]] = <<>> /\ peer[socket[fd]] = "gone"
  BY <1>1 DEF HangUp, Readable
<1>3. /\ batch \subseteq Fds \cup {Listener} /\ fd # Listener /\ NoFd \notin batch
      /\ \A g \in Fds : m_clients'[g] = IF g = fd THEN NoCell ELSE m_clients[g]
  BY <1>0, <1>1, ServerAssumption DEF IOInv, IOCoherent, TypeOK, IOTypeOK, ClientTypeOK
<1>4. IOCoherent'
  <2>1. \A g \in Fds : m_clients'[g] # NoCell <=> g \in Open' /\ g \notin {adding', closing'}
    BY <1>0, <1>1, <1>3, ServerAssumption DEF IOInv, IOCoherent
  <2>2. {adding', closing'} \ {NoFd} \subseteq Open' /\ {adding', closing'} \cap batch' = {}
    BY <1>0, <1>1, <1>3
  <2>3. \A g \in batch' \ {Listener} : Readable(g)'
    BY <1>0, <1>3 DEF IOInv, IOCoherent
  <2>4. \A f, g \in Fds : m_clients'[f] = m_clients'[g] /\ m_clients'[f] # NoCell => f = g
    BY <1>3 DEF IOInv, IOCoherent
  <2>5. /\ Listener \in batch' => pending' # {}
        /\ \A f, g \in Open' : socket'[f] = socket'[g] => f = g
        /\ \A f \in Open' : socket'[f] \notin pending'
        /\ adding' = NoFd
    BY <1>0, <1>1 DEF IOInv, IOCoherent
  <2> QED BY <2>1, <2>2, <2>3, <2>4, <2>5 DEF IOCoherent
<1> QED BY <1>0, <1>2, <1>4 DEF IOInv, Acquainted, ClosingDeparted

LEMMA CloseKeepsIO ==
  ASSUME IOInv, Close
  PROVE  IOCoherent' /\ Acquainted' /\ ClosingDeparted'
<1>0. /\ closing # NoFd /\ socket' = [socket EXCEPT ![closing] = NoConn] /\ closing' = NoFd
      /\ UNCHANGED <<pending, wire, batch, adding, m_clients>>
      /\ peer' = IF Connected(socket[closing])
                    THEN [peer EXCEPT ![socket[closing]] = "dropped"] ELSE peer
  BY DEF Close, clientVars
<1>1. /\ adding = NoFd /\ closing \in Fds /\ closing \in Open /\ closing \notin batch
      /\ m_clients[closing] = NoCell /\ peer[socket[closing]] = "gone"
      /\ batch \subseteq Fds \cup {Listener}
  BY <1>0 DEF IOInv, IOCoherent, ClosingDeparted, TypeOK, IOTypeOK
<1>2. peer' = peer
  BY <1>0, <1>1 DEF Connected
<1>3. \A g \in Fds : socket'[g] = IF g = closing THEN NoConn ELSE socket[g]
  BY <1>0 DEF IOInv, TypeOK, IOTypeOK
<1>4. Open' = Open \ {closing} /\ \A g \in Fds : g # closing => (Readable(g)' <=> Readable(g))
  BY <1>0, <1>2, <1>3 DEF Open, Readable
<1>5. NoFd \notin batch
  BY <1>1, ServerAssumption DEF IOInv, IOCoherent
<1>6. IOCoherent'
  <2>1. \A g \in Fds : m_clients'[g] # NoCell <=> g \in Open' /\ g \notin {adding', closing'}
    BY <1>0, <1>1, <1>4, ServerAssumption DEF IOInv, IOCoherent
  <2>2. {adding', closing'} \ {NoFd} \subseteq Open' /\ {adding', closing'} \cap batch' = {}
    BY <1>0, <1>1, <1>5
  <2>3. \A g \in batch' \ {Listener} : Readable(g)'
    BY <1>0, <1>1, <1>4 DEF IOInv, IOCoherent
  <2>4. /\ \A f, g \in Open' : socket'[f] = socket'[g] => f = g
        /\ \A f \in Open' : socket'[f] \notin pending'
    BY <1>0, <1>3, <1>4 DEF IOInv, IOCoherent, Open
  <2>5. /\ Listener \in batch' => pending' # {}
        /\ \A f, g \in Fds : m_clients'[f] = m_clients'[g] /\ m_clients'[f] # NoCell => f = g
        /\ adding' = NoFd
    BY <1>0, <1>1 DEF IOInv, IOCoherent
  <2> QED BY <2>1, <2>2, <2>3, <2>4, <2>5 DEF IOCoherent
<1>7. Acquainted'
  BY <1>0, <1>2, <1>3, ServerAssumption DEF IOInv, Acquainted
<1> QED BY <1>0, <1>6, <1>7 DEF ClosingDeparted

(* The I/O thread, the workers and the peers keep the invariant.           *)
LEMMA InitIO == Init => IOInv
<1> SUFFICES ASSUME Init PROVE IOInv
  OBVIOUS
<1>1. PeerTypeOK
  <2>1. <<>> \in Seq(Requests)
    BY EmptySeq
  <2> QED BY <2>1, ServerAssumption DEF Init, PeerTypeOK
<1>2. IOTypeOK
  BY DEF Init, IOTypeOK
<1>3. ClientTypeOK
  <2>1. Blank \in Infos
    BY Zenon DEF Blank, Infos
  <2> QED BY <2>1 DEF Init, ClientTypeOK
<1>4. RoomTypeOK
  BY DEF Init, RoomTypeOK
<1>5. WorkTypeOK
  <2>1. <<>> \in Seq(Fds)
    BY EmptySeq
  <2>2. \A w \in Workers : pc[w] = "idle" /\ task[w] = NoTask
    BY DEF Init
  <2>3. \A w \in Workers : LocalsOK(w)
    BY <2>2 DEF LocalsOK
  <2> QED BY <2>1, <2>3 DEF Init, WorkTypeOK, PcLabels
<1>6. queue \in Seq(Packets) /\ status \in {"up", "killed", "corrupt"}
  BY EmptySeq DEF Init
<1>7. /\ Open = {} /\ \A fd \in Fds : m_clients[fd] = NoCell /\ socket[fd] = NoConn
      /\ adding = NoFd /\ closing = NoFd /\ batch = {} /\ pending = {}
  BY DEF Init, Open
<1>8. IOCoherent
  BY <1>7 DEF IOCoherent
<1>9. Acquainted /\ ClosingDeparted
  BY <1>7, ServerAssumption DEF Acquainted, ClosingDeparted
<1> QED BY <1>1, <1>2, <1>3, <1>4, <1>5, <1>6, <1>8, <1>9 DEF IOInv, TypeOK

LEMMA StepIO == IOInv /\ [Next]_vars => IOInv'
<1> SUFFICES ASSUME IOInv, [Next]_vars PROVE IOInv'
  OBVIOUS
<1>0. TypeOK /\ IOCoherent
  BY DEF IOInv
<1>1. CASE Peers
  BY <1>0, <1>1, PeersType, PeersKeepIO DEF Peers, IOInv
<1>2. CASE IO
  <2>1. TypeOK'
    BY <1>0, <1>2, IOType
  <2>2. IOCoherent' /\ Acquainted' /\ ClosingDeparted'
    BY <1>2, BatchKeepsIO, AcceptKeepsIO, AddFdFailsKeepsIO, AddClientKeepsIO, ReceiveKeepsIO,
       HangUpKeepsIO, CloseKeepsIO DEF IO
  <2> QED BY <2>1, <2>2 DEF IOInv
<1>3. ASSUME NEW w \in Workers, Work(w) PROVE IOInv'
  <2>1. TypeOK'
    BY <1>0, <1>3, HandleType, DirectoryStepsType, RoomStepsType, SendStepsType DEF Work
  <2>2. Calm
    BY <1>0, <1>3, WorkersAreCalm
  <2> QED BY <2>1, <2>2, CalmKeepsIO DEF IOInv
<1>4. ASSUME NEW w \in Workers, Dies(w) PROVE IOInv'
  <2>1. TypeOK'
    BY <1>0, <1>4, Others DEF Dies, BrokenPipe, DanglingUse, TypeOK
  <2>2. Calm
    BY <1>0, <1>4, WorkersAreCalm
  <2> QED BY <2>1, <2>2, CalmKeepsIO DEF IOInv
<1>5. CASE UNCHANGED vars
  <2>1. TypeOK'
    BY <1>0, <1>5, Others DEF vars, TypeOK
  <2>2. Calm
    BY <1>5 DEF vars, Calm, peerVars, clientVars
  <2> QED BY <2>1, <2>2, CalmKeepsIO DEF IOInv
<1> QED BY <1>1, <1>2, <1>3, <1>4, <1>5 DEF Next, Rest

LEMMA IOInvariant == Spec => []IOInv
BY InitIO, StepIO, PTL DEF Spec

(* Everything the server and its peers keep has its type, and every        *)
(* handler finds the locals it needs: a client pointer that is not null, a *)
(* name, a limit, a code, a descriptor to send to (RoomHandler.cpp,        *)
(* MessageHandler.cpp, NicknameHandler.cpp).                               *)
THEOREM TypeCorrect == Spec => []TypeOK
BY IOInvariant, PTL DEF IOInv

(* Descriptors, epoll events and the client directory agree                *)
(* (ConnectionManager.cpp:11-45, EpollManager.cpp:51-67).                  *)
THEOREM DescriptorsCoherent == Spec => []IOCoherent
BY IOInvariant, PTL DEF IOInv

(* The server closes only what the peer gave up, after reading all of it   *)
(* (PacketReceiver.cpp:9-27, ConnectionManager.cpp:34-45).                 *)
THEOREM NoSpuriousClose == Spec => HangUpOnlyOnDeparted
<1>1. IOInv /\ [Next]_vars =>
        [\A fd \in Fds : socket[fd] # NoConn /\ socket'[fd] = NoConn =>
           peer[socket[fd]] = "gone" /\ wire[socket[fd]] = <<>>]_vars
  <2> SUFFICES ASSUME IOInv, Next, NEW fd \in Fds, socket[fd] # NoConn, socket'[fd] = NoConn
               PROVE  peer[socket[fd]] = "gone" /\ wire[socket[fd]] = <<>>
    OBVIOUS
  <2>0. socket \in [Fds -> Conns \cup {NoConn}]
    BY DEF IOInv, TypeOK, IOTypeOK
  <2>1. CASE Close
    BY <2>0, <2>1 DEF Close, IOInv, ClosingDeparted
  <2>2. ASSUME NEW c \in Conns, NEW g \in Fds, Accept(c, g) PROVE FALSE
    BY <2>0, <2>2, ServerAssumption DEF Accept
  <2>3. ASSUME NEW w \in Workers, Work(w) \/ Dies(w) PROVE FALSE
    BY <2>3, WorkersAreCalm DEF IOInv, Calm, ioVars
  <2>4. CASE UNCHANGED socket
    BY <2>4
  <2> QED
    BY <2>1, <2>2, <2>3, <2>4
    DEF Next, Peers, IO, Rest, Connect, Read, Disconnect, Send, EpollWait, AcceptFails, AddFdFails,
        AddClient, HangUp, Receive, ioVars, vars
<1> QED BY <1>1, IOInvariant, PTL DEF Spec, HangUpOnlyOnDeparted

-----------------------------------------------------------------------------
(* One room keeps its promise: nobody twice, no more than it has room for. *)
RoomSound(room) == /\ IsInjective(room.clients)
                   /\ Len(room.clients) <= Capacity(room.maxUserCnt)

LEMMA CapacityType == ASSUME NEW max \in Int PROVE Capacity(max) \in Nat
BY ServerAssumption DEF Capacity

LEMMA InjectiveAppend ==
  ASSUME NEW S, NEW s \in Seq(S), NEW e \in S, IsInjective(s), e \notin Range(s)
  PROVE  IsInjective(Append(s, e))
<1>1. DOMAIN Append(s, e) = DOMAIN s \cup {Len(s) + 1}
  OBVIOUS
<1>2. /\ \A i \in DOMAIN s : Append(s, e)[i] = s[i]
      /\ Append(s, e)[Len(s) + 1] = e
  OBVIOUS
<1> QED BY <1>1, <1>2, Zenon DEF Range, IsInjective

LEMMA FewerRooms ==
  ASSUME RoomsSound, Used' \subseteq Used
  PROVE  Cardinality(Used') <= maxRoomCnt
<1>1. IsFiniteSet(Used)
  BY ServerAssumption, FS_Subset DEF Used
<1>2. Cardinality(Used') <= Cardinality(Used) /\ IsFiniteSet(Used')
  BY <1>1, FS_Subset
<1>3. Cardinality(Used) \in Nat /\ Cardinality(Used') \in Nat
  BY <1>1, <1>2, FS_CardinalityType
<1> QED BY <1>2, <1>3, ServerAssumption DEF RoomsSound

LEMMA AddRoomKeepsRooms ==
  ASSUME TypeOK, RoomsSound, NEW w \in Workers, AddRoom(w)
  PROVE  RoomsSound'
<1>1. CASE UNCHANGED rooms
  BY <1>1 DEF RoomsSound, Used
<1>2. ASSUME NEW r \in Codes \ Used, CanAddRoom,
             rooms' = [rooms EXCEPT ![r] = [maxUserCnt |-> task[w].arg, clients |-> <<>>]]
      PROVE  RoomsSound'
  <2>1. task[w].arg \in Int
    <3>1. pc[w] = "addRoom" /\ LocalsOK(w)
      BY DEF AddRoom, TypeOK, WorkTypeOK
    <3> QED BY <3>1 DEF LocalsOK
  <2>2. Used' \subseteq Used \cup {r} /\ Used \subseteq Codes
    BY <1>2 DEF Used, TypeOK, RoomTypeOK
  <2>3. IsFiniteSet(Used) /\ IsFiniteSet(Used \cup {r}) /\ IsFiniteSet(Used')
    BY <2>2, ServerAssumption, FS_Subset, FS_AddElement
  <2>4. Cardinality(Used') <= maxRoomCnt
    <3>1. Cardinality(Used \cup {r}) = Cardinality(Used) + 1
      BY <1>2, <2>3, FS_AddElement
    <3>2. Cardinality(Used') <= Cardinality(Used \cup {r})
      BY <2>2, <2>3, FS_Subset
    <3>3. /\ Cardinality(Used) \in Nat /\ Cardinality(Used') \in Nat /\ maxRoomCnt \in Nat
          /\ Cardinality(Used) < maxRoomCnt
      BY <1>2, <2>3, FS_CardinalityType, ServerAssumption DEF CanAddRoom
    <3> QED BY <3>1, <3>2, <3>3
  <2>5. RoomSound(rooms'[r])
    <3>1. rooms'[r].clients = <<>> /\ rooms'[r].maxUserCnt = task[w].arg
      BY <1>2 DEF TypeOK, RoomTypeOK
    <3>2. IsInjective(<<>>) /\ Len(<<>>) = 0
      BY DEF IsInjective
    <3>3. Capacity(task[w].arg) \in Nat
      BY <2>1, CapacityType
    <3> QED BY <3>1, <3>2, <3>3 DEF RoomSound
  <2>6. \A s \in Used : s # r => rooms'[s] = rooms[s]
    BY <1>2 DEF Used, TypeOK, RoomTypeOK
  <2> QED BY <2>2, <2>4, <2>5, <2>6 DEF RoomsSound, RoomSound
<1> QED BY <1>1, <1>2 DEF AddRoom

LEMMA JoinRoomKeepsRooms ==
  ASSUME TypeOK, RoomsSound, NEW w \in Workers, JoinRoom(w)
  PROVE  RoomsSound'
<1>1. CASE UNCHANGED rooms
  BY <1>1 DEF RoomsSound, Used
<1>2. CASE /\ Admits(code[w], task[w].fd)
           /\ rooms' = [rooms EXCEPT ![code[w]].clients = Append(@, task[w].fd)]
  <2> DEFINE r == code[w]
             fd == task[w].fd
  <2>1. /\ r \in Codes /\ r \in Used /\ rooms[r] \in Rooms /\ fd \notin Range(rooms[r].clients)
        /\ Len(rooms[r].clients) < Capacity(rooms[r].maxUserCnt)
    BY <1>2 DEF Admits, Used, TypeOK, RoomTypeOK
  <2>2. fd \in Fds
    BY PacketFields DEF JoinRoom, TypeOK, WorkTypeOK, LocalsOK
  <2>3. rooms' = [rooms EXCEPT ![r] = [rooms[r] EXCEPT !.clients = Append(rooms[r].clients, fd)]]
    BY <1>2
  <2> HIDE DEF r, fd
  <2>4. /\ rooms[r].clients \in Seq(Fds) /\ rooms[r].maxUserCnt \in Int
        /\ rooms'[r].clients = Append(rooms[r].clients, fd)
        /\ rooms'[r].maxUserCnt = rooms[r].maxUserCnt
    BY <2>1, <2>3 DEF Rooms, TypeOK, RoomTypeOK
  <2>5. Used' \subseteq Used /\ \A s \in Used : s # r => rooms'[s] = rooms[s]
    BY <2>1, <2>3 DEF Used, TypeOK, RoomTypeOK
  <2>6. RoomSound(rooms'[r])
    <3>1. IsInjective(rooms[r].clients)
      BY <2>1 DEF RoomsSound
    <3>2. IsInjective(Append(rooms[r].clients, fd))
      BY <2>1, <2>2, <2>4, <3>1, InjectiveAppend
    <3>3. Len(Append(rooms[r].clients, fd)) = Len(rooms[r].clients) + 1 /\ Len(rooms[r].clients) \in Nat
      BY <2>2, <2>4
    <3>4. Capacity(rooms[r].maxUserCnt) \in Nat
      BY <2>4, CapacityType
    <3>5. Len(Append(rooms[r].clients, fd)) <= Capacity(rooms[r].maxUserCnt)
      BY <2>1, <3>3, <3>4
    <3> QED BY <2>4, <3>2, <3>5 DEF RoomSound
  <2>7. Cardinality(Used') <= maxRoomCnt
    BY <2>5, FewerRooms
  <2> QED BY <2>5, <2>6, <2>7 DEF RoomsSound, RoomSound
<1> QED BY <1>1, <1>2 DEF JoinRoom, roomVars

LEMMA LeaveRoomKeepsRooms ==
  ASSUME TypeOK, RoomsSound, NEW w \in Workers, LeaveRoom(w)
  PROVE  RoomsSound'
<1>1. CASE UNCHANGED rooms
  BY <1>1 DEF RoomsSound, Used
<1>2. CASE code[w] \in Used
  <2> DEFINE r == code[w]
             left == Without(rooms[r].clients, task[w].fd)
  <2>1. r \in Codes /\ rooms[r] \in Rooms /\ rooms[r].clients \in Seq(Fds) /\ rooms[r].maxUserCnt \in Int
    BY <1>2 DEF Used, TypeOK, RoomTypeOK, Rooms
  <2>2. rooms' = [rooms EXCEPT ![r] = Remains(r, left)]
    BY <1>2 DEF LeaveRoom
  <2>3. IsInjective(rooms[r].clients) /\ Len(rooms[r].clients) <= Capacity(rooms[r].maxUserCnt)
    BY <1>2 DEF RoomsSound
  <2>4. left \in Seq(Fds) /\ IsInjective(left) /\ Len(left) <= Len(rooms[r].clients)
    BY <2>1, <2>3, WithoutType
  <2>5. r \in Used
    BY <1>2
  <2> HIDE DEF r, left
  <2>6. /\ rooms'[r] = Remains(r, left)
        /\ rooms'[r] # NoRoom => rooms'[r].clients = left /\ rooms'[r].maxUserCnt = rooms[r].maxUserCnt
    BY <2>1, <2>2 DEF Remains, TypeOK, RoomTypeOK, Rooms
  <2>7. Used' \subseteq Used /\ \A s \in Used : s # r => rooms'[s] = rooms[s]
    BY <2>1, <2>2, <2>5 DEF Used, TypeOK, RoomTypeOK
  <2>8. r \in Used' => RoomSound(rooms'[r])
    <3>1. r \in Used' => rooms'[r] # NoRoom
      BY DEF Used
    <3>2. /\ Len(left) \in Nat /\ Len(rooms[r].clients) \in Nat
          /\ Capacity(rooms[r].maxUserCnt) \in Nat
      <4>1. Capacity(rooms[r].maxUserCnt) \in Nat
        BY <2>1, CapacityType
      <4> QED BY <2>1, <2>4, <4>1
    <3>3. Len(left) <= Capacity(rooms[r].maxUserCnt)
      BY <2>3, <2>4, <3>2
    <3> QED BY <2>4, <2>6, <3>1, <3>3 DEF RoomSound
  <2>9. Cardinality(Used') <= maxRoomCnt
    BY <2>7, FewerRooms
  <2> QED BY <2>7, <2>8, <2>9 DEF RoomsSound, RoomSound
<1> QED BY <1>1, <1>2 DEF LeaveRoom

(* The rooms respect their limits and list nobody twice, whatever the      *)
(* workers interleave (Room.cpp:10-31, RoomManager.cpp:27-94).             *)
THEOREM RoomsKeepLimits == Spec => []RoomsSound
<1>1. Init => RoomsSound
  <2>1. ASSUME Init PROVE Used = {}
    BY <2>1 DEF Init, Used
  <2> QED BY <2>1, FS_EmptySet, ServerAssumption DEF RoomsSound
<1>2. TypeOK /\ RoomsSound /\ [Next]_vars => RoomsSound'
  <2> SUFFICES ASSUME TypeOK, RoomsSound, [Next]_vars PROVE RoomsSound'
    OBVIOUS
  <2>1. CASE UNCHANGED rooms
    BY <2>1 DEF RoomsSound, Used
  <2>2. ASSUME NEW w \in Workers, AddRoom(w) \/ JoinRoom(w) \/ LeaveRoom(w) PROVE RoomsSound'
    BY <2>2, AddRoomKeepsRooms, JoinRoomKeepsRooms, LeaveRoomKeepsRooms
  <2>3. ASSUME NEW w \in Workers, Work(w) \/ Dies(w) PROVE RoomsSound'
    BY <2>1, <2>2, <2>3
    DEF Work, Dies, Handle, IsNicknameTaken, SetNickname, GetClient, CheckClient, SetRoomCode,
        GetRoom, CopyFds, SendNext, ClearRoomCode, Reply, BrokenPipe, DanglingUse, roomVars
  <2>4. CASE Peers \/ IO \/ Rest \/ UNCHANGED vars
    BY <2>1, <2>4
    DEF Peers, IO, Rest, Connect, Read, Disconnect, Send, EpollWait, AcceptFails, AddFdFails, Accept,
        AddClient, HangUp, Receive, Close, roomVars, vars
  <2> QED BY <2>3, <2>4 DEF Next
<1> QED BY <1>1, <1>2, TypeCorrect, PTL DEF Spec
=============================================================================
