-------------------------- MODULE ChatClientProofs --------------------------
(***************************************************************************)
(* Proofs about the client: types, the single reader outside the chat, and *)
(* why the client gives up a connection.                                   *)
(***************************************************************************)
EXTENDS ChatClient, SequenceTheorems, TLAPS

-----------------------------------------------------------------------------
(* The inductive invariant: types, one reader outside the chat, and a      *)
(* header whose payload is still to come is in the hands of a thread, as   *)
(* long as the connection is open.                                         *)
HeaderInHand ==
  /\ cut = "header" /\ m_connected => \E t \in Threads : pc[t] \in {"payload", "inPayload"}
  /\ pc["Input"] = "start" => cut = "none"

Inv == TypeOK /\ LobbyReadsAlone /\ HeaderInHand

LEMMA PacketsAre ==
  ASSUME NEW type \in Answers \cup Displayed, NEW code \in Codes \cup {NoCode}, NEW n \in Nat
  PROVE  /\ Packet(type, code, n) \in Packets
         /\ Packet(type, code, n) # NoPacket
         /\ Packet(type, code, n).n = n
  BY ClientAssumption DEF Packet, Packets, ClientAssumption

LEMMA InitInv == Init => Inv
<1> SUFFICES ASSUME Init PROVE Inv
  OBVIOUS
<1>1. ThreadType /\ ClientType /\ LobbyReadsAlone /\ HeaderInHand
  BY DEF Init, ThreadType, ClientType, LobbyReadsAlone, HeaderInHand, Threads, InputStates,
         ReceiverStates, ReadingStates, RequestTypes
<1>2. <<>> \in Seq(Packets) /\ <<>> \in Seq(Nat) /\ Len(<<>>) = 0
  OBVIOUS
<1>3. WireType
  <2>1. stream \in Seq(Packets) /\ readTo \in 0 .. Len(stream)
    BY <1>2 DEF Init
  <2>2. cut \in {"none", "header", "more"} /\ cut = "none" /\ hangup \in BOOLEAN
    BY DEF Init
  <2> QED
    BY <2>1, <2>2 DEF WireType
<1>4. ServerType /\ HistoryType
  BY <1>2 DEF Init, ServerType, HistoryType
<1> QED
  BY <1>1, <1>3, <1>4 DEF Inv, TypeOK

-----------------------------------------------------------------------------
(* Reading the socket.                                                     *)
LEMMA NextPacket ==
  ASSUME WireType, readTo < Len(stream)
  PROVE  Upcoming \in Packets /\ Upcoming # NoPacket /\ readTo + 1 \in 0 .. Len(stream)
  BY ClientAssumption DEF WireType, Upcoming, ClientAssumption

LEMMA TakesType ==
  ASSUME Inv, NEW t \in Threads, NEW p \in Packets, Takes(t, p), asked' = asked,
         pc[t] \in {"inHeader", "inPayload"}
  PROVE  /\ ThreadType' /\ wrong' \subseteq Nat
         /\ pc'["Input"] \in ReadingStates \cup {"answer"} <=> pc["Input"] \in ReadingStates \cup {"answer"}
         /\ pc'["Receiver"] # "none" <=> pc["Receiver"] # "none"
         /\ pc'["Input"] = pc["Input"] \/ pc'["Input"] = "answer"
  BY ClientAssumption
  DEF Inv, TypeOK, ThreadType, HistoryType, Takes, Go, Threads, Packets, InputStates, ReceiverStates,
      ReadingStates, ClientAssumption

LEMMA FailsType ==
  ASSUME Inv, NEW t \in Threads, Fails(t), asked' = asked, pc[t] \in ReadingStates
  PROVE  /\ ThreadType' /\ LobbyReadsAlone'
         /\ pc'["Input"] # "start"
  BY ClientAssumption
  DEF Inv, TypeOK, ThreadType, Fails, Go, AfterFailure, Threads, InputStates, ReceiverStates,
      ReadingStates, RequestTypes, LobbyReadsAlone, InChat

LEMMA ReceiveInv == ASSUME Inv, NEW t \in Threads, Receive(t) PROVE Inv'
<1> USE DEF Inv, TypeOK, ClientType, ServerType, HeaderInHand
<1>1. CASE CallRecv(t)
  <2>1. CASE m_connected
    BY <1>1, <2>1 DEF CallRecv, ThreadType, WireType, HistoryType, LobbyReadsAlone, InChat, Go, Threads,
       InputStates, ReceiverStates, ReadingStates, clientVars, wireVars, serverVars, history
  <2>2. CASE ~m_connected
    BY <1>1, <2>2, FailsType DEF CallRecv, WireType, HistoryType, clientVars, wireVars, serverVars, history,
       ReadingStates
  <2> QED
    BY <2>1, <2>2 DEF ClientType
<1>2. CASE RecvHeader(t)
  <2>1. CASE HasPayload(Upcoming)
    <3>1. ThreadType'
      BY <1>2, <2>1, NextPacket DEF RecvHeader, ThreadType, Go, Threads, InputStates, ReceiverStates, ReadingStates
    <3>2. LobbyReadsAlone' /\ HeaderInHand'
      BY <1>2, <2>1 DEF RecvHeader, ThreadType, LobbyReadsAlone, InChat, Go, Threads, ReadingStates, clientVars
    <3>3. WireType' /\ HistoryType'
      BY <1>2, <2>1 DEF RecvHeader, WireType, HistoryType
    <3> QED
      BY <1>2, <3>1, <3>2, <3>3 DEF RecvHeader, clientVars, serverVars
  <2>2. CASE ~HasPayload(Upcoming)
    <3>1. Takes(t, Upcoming) /\ cut' = "none" /\ readTo' = readTo + 1
      BY <1>2, <2>2 DEF RecvHeader, Takes
    <3> QED
      BY <1>2, <3>1, NextPacket, TakesType DEF RecvHeader, WireType, HistoryType, LobbyReadsAlone, InChat,
         clientVars, serverVars, ReadingStates
  <2> QED
    BY <2>1, <2>2
<1>3. CASE RecvText(t)
  BY <1>3, FailsType DEF RecvText, Close, WireType, HistoryType, serverVars, history, ReadingStates
<1>4. CASE RecvPayload(t)
  BY ZenonT(60), <1>4, TakesType, NextPacket DEF RecvPayload, Takes, WireType, ThreadType, HistoryType, LobbyReadsAlone, InChat,
     clientVars, serverVars, ReadingStates
<1>5. CASE RecvRest(t)
  <2> DEFINE p == Packet(got[t].type, NoCode, 0)
  <2>1. p \in Packets
    <3>1. got[t] \in Packets
      BY <1>5 DEF RecvRest, ThreadType
    <3>2. got[t].type \in Answers \cup Displayed
      BY <3>1 DEF Packets
    <3> QED
      BY <3>2, PacketsAre
  <2>2. Takes(t, p) /\ asked' = asked
    BY <1>5 DEF RecvRest
  <2> HIDE DEF p
  <2>3. ThreadType' /\ wrong' \subseteq Nat /\ LobbyReadsAlone'
    BY <1>5, <2>1, <2>2, TakesType DEF RecvRest, LobbyReadsAlone, InChat, ReadingStates
  <2>4. HeaderInHand'
    BY <1>5, <2>1, <2>2, TakesType DEF RecvRest
  <2>5. WireType' /\ HistoryType'
    BY <1>5, <2>2, <2>3 DEF RecvRest, Takes, WireType, HistoryType
  <2> QED
    BY <1>5, <2>3, <2>4, <2>5 DEF RecvRest, clientVars, serverVars
<1>6. CASE EndOfStream(t)
  BY <1>6, FailsType DEF EndOfStream, Close, WireType, HistoryType, serverVars, wireVars, history, ReadingStates
<1> QED
  BY <1>1, <1>2, <1>3, <1>4, <1>5, <1>6 DEF Receive

-----------------------------------------------------------------------------
(* The input thread.                                                       *)
LEMMA AskInv ==
  ASSUME Inv, NEW type \in RequestTypes, NEW code \in Codes \cup {NoCode},
         type = "JOIN" <=> code # NoCode, Ask(type, code), UNCHANGED history,
         type = "EXIT" <=> pc["Input"] = "prompt", pc["Input"] \in {"nickname", "menu", "prompt"}
  PROVE  Inv'
<1> USE DEF Inv, TypeOK, ClientType, HistoryType, Ask
<1>1. [type |-> type, code |-> code, n |-> sent] \in Requests
  BY DEF ServerType, Requests
<1>2. ServerType'
  BY <1>1 DEF ServerType
<1>3. ThreadType' /\ LobbyReadsAlone'
  BY DEF ThreadType, Go, Threads, InputStates, ReceiverStates, ReadingStates, LobbyReadsAlone, InChat, clientVars
<1>4. HeaderInHand' /\ WireType'
  BY DEF HeaderInHand, Go, Threads, ThreadType, clientVars, wireVars, WireType
<1> QED
  BY <1>2, <1>3, <1>4 DEF clientVars, history

LEMMA UserInv == ASSUME Inv, User PROVE Inv'
<1> USE DEF Prompted
<1>1. CASE RegisterNickname
  BY <1>1, AskInv DEF RegisterNickname, RequestTypes
<1>2. CASE CreateRoom
  BY <1>2, AskInv DEF CreateRoom, RequestTypes
<1>3. ASSUME NEW code \in Codes, JoinRoom(code) PROVE Inv'
  BY <1>3, AskInv, ClientAssumption DEF JoinRoom, RequestTypes, ClientAssumption
<1>4. ASSUME Stops, UNCHANGED history, Prompted("prompt") PROVE Inv'
  BY <1>4 DEF Stops, Inv, TypeOK, ThreadType, ClientType, WireType, ServerType, HistoryType, LobbyReadsAlone,
     HeaderInHand, InChat, Go, Threads, InputStates, ReceiverStates, ReadingStates, clientVars, wireVars,
     serverVars, history
<1>5. CASE ExitRoom
  BY <1>4, <1>5, AskInv DEF ExitRoom, RequestTypes
<1>6. CASE Enter
  BY <1>4, <1>6 DEF Enter
<1>7. CASE Leave
  BY <1>7 DEF Leave, Close, Inv, TypeOK, ThreadType, ClientType, WireType, ServerType, HistoryType, LobbyReadsAlone,
     HeaderInHand, InChat, Go, Threads, InputStates, ReceiverStates, ReadingStates, wireVars, serverVars, history
<1> QED
  BY <1>1, <1>2, <1>3, <1>5, <1>6, <1>7 DEF User

LEMMA AnswerInv ==
  ASSUME Inv, OnNicknameAnswer \/ OnRoomAnswer \/ OnExitAnswer
  PROVE  Inv'
<1> USE DEF Inv, TypeOK, ThreadType, ClientType, WireType, ServerType, HistoryType, LobbyReadsAlone,
     HeaderInHand, InChat, Go, Threads, InputStates, ReceiverStates, ReadingStates,
     Answered, Discards, clientVars, wireVars, serverVars, history
<1>1. CASE OnNicknameAnswer
  BY <1>1 DEF OnNicknameAnswer
<1>2. CASE OnRoomAnswer
  <2>1. CASE Accepted(got["Input"])
    <3>1. got["Input"].code \in Codes \cup {NoCode}
      BY <1>2 DEF OnRoomAnswer, Packets
    <3>2. pc["Receiver"] = "none"
      BY <1>2 DEF OnRoomAnswer
    <3> QED
      BY <1>2, <2>1, <3>1, <3>2 DEF OnRoomAnswer, StartChatSession, RoomOf
  <2> QED
    BY <1>2, <2>1 DEF OnRoomAnswer
<1>3. CASE OnExitAnswer
  BY <1>3 DEF OnExitAnswer
<1> QED
  BY <1>1, <1>2, <1>3

LEMMA InputInv ==
  ASSUME Inv, ConnectToServer \/ EndChat \/ StopReceiving \/ JoinReceiver \/ EndInput \/ StrayChoice \/ BrokenPipe
  PROVE  Inv'
<1> USE DEF Inv, TypeOK, ThreadType, ClientType, WireType, ServerType, HistoryType, LobbyReadsAlone,
     HeaderInHand, InChat, Go, Threads, InputStates, ReceiverStates, ReadingStates,
     clientVars, wireVars, serverVars, history, threadVars
<1>1. CASE ConnectToServer
  BY <1>1 DEF ConnectToServer
<1>2. CASE EndChat
  BY <1>2 DEF EndChat, Stops
<1>3. CASE StopReceiving
  BY ZenonT(60), <1>3 DEF StopReceiving
<1>4. CASE JoinReceiver
  BY <1>4 DEF JoinReceiver
<1>5. CASE EndInput
  BY <1>5 DEF EndInput
<1>6. CASE StrayChoice
  BY <1>6 DEF StrayChoice, Close
<1>7. CASE BrokenPipe
  BY <1>7 DEF BrokenPipe, Close, Prompted
<1> QED
  BY <1>1, <1>2, <1>3, <1>4, <1>5, <1>6, <1>7

-----------------------------------------------------------------------------
(* The receiver thread and the server.                                     *)
LEMMA ReceiverInv == ASSUME Inv, ReceiverRuns PROVE Inv'
<1> USE DEF Inv, TypeOK, ThreadType, ClientType, WireType, ServerType, HistoryType, LobbyReadsAlone,
     HeaderInHand, InChat, Go, Threads, InputStates, ReceiverStates, ReadingStates,
     clientVars, wireVars, serverVars, history
<1>1. CASE StartReceiving
  BY <1>1 DEF StartReceiving
<1>2. CASE ReceiveLoop
  BY <1>2 DEF ReceiveLoop
<1>3. CASE OnMessage
  <2>1. got["Receiver"].n \in Nat
    BY <1>3 DEF OnMessage, Packets
  <2>2. shown' \in Seq(Nat)
    BY <1>3, <2>1 DEF OnMessage
  <2> QED
    BY <1>3, <2>2 DEF OnMessage, Discards
<1>4. CASE EndLoop
  BY ZenonT(60), <1>4 DEF EndLoop
<1> QED
  BY <1>1, <1>2, <1>3, <1>4 DEF ReceiverRuns

LEMMA MakesType ==
  ASSUME ServerType, NEW type \in Answers \cup Displayed, NEW code \in Codes \cup {NoCode}, Makes(type, code)
  PROVE  served' \in Nat /\ outgoing' \subseteq Packets
<1>1. served + 1 \in Nat
  BY DEF ServerType
<1> QED
  BY <1>1, PacketsAre DEF ServerType, Makes

LEMMA HandleInv == ASSUME Inv, NEW q \in asks, Handle(q) PROVE Inv'
<1>1. ServerType /\ q \in Requests
  BY DEF Inv, TypeOK, ServerType
<1> USE <1>1
<1>2. ASSUME NEW type \in Answers, Refuses(type), asks' \subseteq asks, sent' = sent PROVE ServerType'
  BY <1>2, MakesType DEF Refuses, ServerType
<1>3. ASSUME NEW type \in Answers, NEW code \in Codes, Admits(type, code), asks' \subseteq asks, sent' = sent
      PROVE  ServerType'
  BY <1>3, MakesType DEF Admits, ServerType
<1>10. ASSUME NEW code \in Codes, LeavesOut(code), asks' \subseteq asks, sent' = sent PROVE ServerType'
  BY <1>10, MakesType DEF LeavesOut, ServerType, Answers
<1>4. asks' \subseteq asks /\ sent' = sent
  BY DEF Handle
<1>5. ASSUME q.type = "REGISTER" PROVE ServerType'
  BY <1>2, <1>4, <1>5 DEF Handle, Answers
<1>6. ASSUME q.type = "CREATE" PROVE ServerType'
  BY <1>2, <1>3, <1>4, <1>6, <1>10 DEF Handle, Answers
<1>7. ASSUME q.type = "JOIN" PROVE ServerType'
  BY <1>2, <1>3, <1>4, <1>7 DEF Handle, Answers, Requests, RequestTypes
<1>8. ASSUME q.type = "EXIT" PROVE ServerType'
  BY <1>2, <1>4, <1>8, MakesType DEF Handle, Answers, ServerType
<1>9. ServerType'
  BY <1>5, <1>6, <1>7, <1>8 DEF Handle
<1> QED
  BY <1>9 DEF Handle, Inv, TypeOK, ThreadType, ClientType, WireType, ServerType, HistoryType, LobbyReadsAlone,
     HeaderInHand, InChat, Go, Threads, InputStates, ReceiverStates, ReadingStates,
     threadVars, clientVars, wireVars, history

LEMMA ServerInv ==
  ASSUME Inv, Server \/ HangUp \/ \E type \in Chatter : Talk(type)
  PROVE  Inv'
<1>1. ASSUME NEW p \in outgoing, Deliver(p) PROVE Inv'
  <2>1. p \in Packets /\ stream \in Seq(Packets)
    BY DEF Inv, TypeOK, ServerType, WireType
  <2>2. stream' \in Seq(Packets) /\ Len(stream') = Len(stream) + 1
    BY <1>1, <2>1 DEF Deliver
  <2>3. WireType'
    BY <1>1, <2>1, <2>2 DEF Deliver, Inv, TypeOK, WireType
  <2> QED
    BY <1>1, <2>3 DEF Deliver, Inv, TypeOK, ThreadType, ClientType, WireType, ServerType, HistoryType, LobbyReadsAlone,
     HeaderInHand, InChat, Go, Threads, InputStates, ReceiverStates, ReadingStates,
       threadVars, clientVars, history
<1>2. CASE HangUp
  BY <1>2 DEF HangUp, Inv, TypeOK, ThreadType, ClientType, WireType, ServerType, HistoryType, LobbyReadsAlone,
     HeaderInHand, InChat, Go, Threads, InputStates, ReceiverStates, ReadingStates,
     threadVars, clientVars, serverVars, history
<1>3. ASSUME NEW type \in Chatter, Talk(type) PROVE Inv'
  <2>1. ServerType'
    BY <1>3, MakesType, ClientAssumption DEF Talk, Inv, TypeOK, ServerType, ClientAssumption
  <2> QED
    BY <1>3, <2>1 DEF Talk, Inv, TypeOK, ThreadType, ClientType, WireType, ServerType, HistoryType, LobbyReadsAlone,
     HeaderInHand, InChat, Go, Threads, InputStates, ReceiverStates, ReadingStates,
       threadVars, clientVars, wireVars, history
<1> QED
  BY <1>1, <1>2, <1>3, HandleInv DEF Server

-----------------------------------------------------------------------------
LEMMA StepInv == Inv /\ [Next]_vars => Inv'
<1>1. ASSUME Inv, UNCHANGED vars PROVE Inv'
  BY <1>1 DEF vars, threadVars, clientVars, wireVars, serverVars, history, Inv, TypeOK, ThreadType, ClientType, WireType, ServerType, HistoryType, LobbyReadsAlone,
     HeaderInHand, InChat, Go, Threads, InputStates, ReceiverStates, ReadingStates
<1> QED
  BY <1>1, ReceiveInv, UserInv, AnswerInv, InputInv, ReceiverInv, ServerInv DEF Next, InputRuns, Rest

LEMMA Invariant == Spec => []Inv
  BY InitInv, StepInv, PTL DEF Spec

(* The variables of the client, the wire and the server keep their types,  *)
(* and a thread holds a packet exactly while it deals with it.             *)
THEOREM TypeCorrect == Spec => []TypeOK
  BY Invariant, PTL DEF Inv

(* Outside a chat only the input thread lives (Lobby.cpp:172-192,236-247). *)
THEOREM OneReader == Spec => []LobbyReadsAlone
  BY Invariant, PTL DEF Inv

(* The client gives up a connection the server keeps only when its user    *)
(* leaves, or waits for the answer to /exit (NetworkClient.cpp:43-84): a   *)
(* header taken apart needs two readers, and two there are only then.      *)
THEOREM ClosesForCause == Spec => ClosedForCause
<1> DEFINE Cause == pc'["Input"] \in {"done", "killed"} \/ (Waiting /\ asked = "EXIT")
<1>1. Inv /\ [Next]_vars => (m_connected /\ ~m_connected' /\ ~hangup => Cause)
  <2> SUFFICES ASSUME Inv, Next, m_connected, ~m_connected', ~hangup PROVE Cause
    BY DEF vars, clientVars
  <2>1. ASSUME NEW t \in Threads, RecvText(t) PROVE Cause
    <3>1. PICK u \in Threads : pc[u] \in {"payload", "inPayload"}
      BY <2>1 DEF RecvText, Inv, HeaderInHand
    <3>2. pc[t] = "inHeader" /\ u # t
      BY <2>1, <3>1 DEF RecvText
    <3> QED
      BY <3>1, <3>2 DEF Inv, LobbyReadsAlone, InChat, Threads, Waiting, ReadingStates
  <2>2. ASSUME NEW t \in Threads, Receive(t) PROVE Cause
    BY <2>1, <2>2 DEF Receive, CallRecv, RecvHeader, RecvPayload, RecvRest, EndOfStream, clientVars
  <2>3. CASE User \/ EndInput \/ StrayChoice \/ BrokenPipe
    BY <2>3 DEF User, RegisterNickname, CreateRoom, JoinRoom, Ask, ExitRoom, Enter, Stops, Leave, EndInput,
       StrayChoice, BrokenPipe, Go, Inv, TypeOK, ThreadType, Threads, clientVars
  <2>4. CASE InputRuns \/ ReceiverRuns
    BY <2>4 DEF InputRuns, ConnectToServer, EndChat, Stops, OnNicknameAnswer, OnRoomAnswer, OnExitAnswer,
       StopReceiving, JoinReceiver, ReceiverRuns, StartReceiving, ReceiveLoop, OnMessage, EndLoop, clientVars,
       Go, Inv, TypeOK, ThreadType, Threads
  <2>5. CASE Server \/ HangUp \/ \E type \in Chatter : Talk(type)
    BY <2>5 DEF Server, Handle, Deliver, HangUp, Talk, clientVars
  <2> QED
    BY <2>2, <2>3, <2>4, <2>5 DEF Next, Rest, vars, clientVars
<1> QED
  BY <1>1, Invariant, PTL DEF Spec, ClosedForCause
=============================================================================
