------------------------ MODULE ClientPromisesProofs ------------------------
(***************************************************************************)
(* The client is the orderly peer the server's theorems assume: as long as *)
(* no thread has read what was meant for the other, each answer is the one *)
(* to the request the input thread waits for, and client and server agree  *)
(* on the room.  What the receiver thread read is what it displayed.       *)
(***************************************************************************)
EXTENDS ChatClientProofs

-----------------------------------------------------------------------------
(* Nothing was mixed up and the connection is open, or not yet opened.     *)
Clean == wrong = {} /\ (m_connected \/ pc["Input"] = "start")

(* At most one thread is between its two calls; it has the next header.    *)
Between(t) == pc[t] \in {"payload", "inPayload"}

InStep ==
  /\ cut # "more"
  /\ \A t \in Threads : Between(t) => cut = "header" /\ got[t] = Upcoming
  /\ \A s, t \in Threads : Between(s) /\ Between(t) => s = t

(* Where in the dialogue the client has a room.                            *)
Placed ==
  /\ pc["Input"] \in {"start", "nickname"} => m_current_room_code = NoCode
  /\ pc["Input"] = "start" => ~hangup /\ ~m_connected /\ stdin = "open"
  /\ pc["Input"] = "prompt" => /\ m_current_room_code # NoCode
                              /\ pc["Receiver"] # "none" /\ asked # "EXIT"
  /\ Waiting /\ asked = "REGISTER" => m_current_room_code = NoCode
  /\ pc["Input"] \in {"stop", "join"} /\ stdin = "open" /\ ~hangup => asked = "EXIT"

(* Where in the dialogue the server has it in no room, and that it has a   *)
(* room it entered or one it never did, not both.                          *)
Outside ==
  /\ pc["Input"] \in {"menu", "stop", "join"} /\ stdin = "open" /\ ~hangup => roomCode = NoCode
  /\ Waiting /\ asked # "EXIT" /\ ~hangup /\ asks # {} => roomCode = NoCode
  /\ roomCode = NoCode \/ unentered = NoCode

Settled == Placed /\ Outside

(* The answers on their way, and what an answer to the request in hand may *)
(* say.                                                                    *)
OnTheWay == {p \in outgoing : p.type \in Answers}
InStream == {i \in readTo + 1 .. Len(stream) : stream[i].type \in Answers}

Agree == m_current_room_code = Known

Fits(p) ==
  \/ asked = "REGISTER" /\ p.type \in {"NICKNAME_OK", "NICKNAME_FAIL"} /\ Agree /\ roomCode = NoCode
  \/ asked = "CREATE" /\ p.type = "CREATE_FAIL" /\ Agree /\ roomCode = NoCode
  \/ asked = "JOIN" /\ p.type = "JOIN_FAIL" /\ Agree /\ roomCode = NoCode
  \/ asked = "CREATE" /\ p.type = "CREATE_OK" /\ p.code = Known /\ Known # NoCode
  \/ asked = "JOIN" /\ p.type = "JOIN_OK" /\ p.code = Known /\ Known # NoCode
  \/ asked = "EXIT" /\ p.type = "EXIT_FAIL" /\ Agree /\ roomCode = NoCode
  \/ asked = "EXIT" /\ p.type = "EXIT_OK" /\ Known = NoCode

(* The one answer: asked for, made, delivered, in hand.                    *)
Pending == \E q \in asks : asks = {q} /\ q.type = asked /\ OnTheWay = {} /\ InStream = {} /\ Agree
Made == asks = {} /\ InStream = {} /\ \E p \in outgoing : OnTheWay = {p} /\ Fits(p)
Delivered == asks = {} /\ OnTheWay = {} /\ \E i \in InStream : InStream = {i} /\ Fits(stream[i])

OneAnswer ==
  /\ pc["Input"] \in ReadingStates => Pending \/ Made \/ Delivered
  /\ pc["Input"] \notin ReadingStates => asks = {} /\ OnTheWay = {} /\ InStream = {}
  /\ pc["Input"] = "answer" => Fits(got["Input"])
  /\ ~Waiting => Agree

DialogueInv == Clean => InStep /\ Settled /\ OneAnswer

-----------------------------------------------------------------------------
(* Steps that leave the dialogue where it is.                              *)
LEMMA AnswerKeeps ==
  ASSUME OneAnswer,
         UNCHANGED <<asks, outgoing, stream, readTo, asked, m_current_room_code, roomCode, unentered>>,
         pc'["Input"] \in ReadingStates <=> pc["Input"] \in ReadingStates,
         pc'["Input"] = "answer" <=> pc["Input"] = "answer",
         pc["Input"] = "answer" => got'["Input"] = got["Input"]
  PROVE  OneAnswer'
<1>1. OnTheWay' = OnTheWay /\ InStream' = InStream /\ (Agree' <=> Agree)
  BY DEF OnTheWay, InStream, Agree, Known
<1>2. \A p : Fits(p) => (Fits(p))'
  BY <1>1 DEF Fits, Known
<1>3. pc'["Input"] \in ReadingStates => (Pending \/ Made \/ Delivered)'
  BY <1>1, <1>2 DEF OneAnswer, Pending, Made, Delivered
<1>4. pc'["Input"] = "answer" => Fits(got["Input"])'
  BY DEF OneAnswer, Fits, Agree, Known
<1> QED BY <1>1, <1>3, <1>4 DEF OneAnswer, Waiting

(* Neither thread passes the boundary of a packet.                         *)
LEMMA InStepKeeps ==
  ASSUME Inv, InStep, cut' = cut, readTo' = readTo, UNCHANGED stream,
         \A t \in Threads : /\ Between(t)' => Between(t)
                            /\ Between(t)' => got'[t] = got[t]
  PROVE  InStep'
BY DEF InStep, Upcoming

-----------------------------------------------------------------------------
(* Reading the socket.                                                     *)
LEMMA TakesKeeps ==
  ASSUME Inv, DialogueInv, NEW t \in Threads, pc[t] \in {"inHeader", "inPayload"},
         Takes(t, Upcoming), readTo < Len(stream), cut' = "none",
         pc[t] = "inHeader" => cut = "none", pc[t] = "inPayload" => cut = "header",
         UNCHANGED <<asked, clientVars, stream, hangup, serverVars>>
  PROVE  DialogueInv'
<1> SUFFICES ASSUME Clean' PROVE InStep' /\ Settled' /\ OneAnswer'
  BY DEF DialogueInv
<1>1. /\ pc' = [pc EXCEPT ![t] = "answer"] /\ got' = [got EXCEPT ![t] = Upcoming]
      /\ readTo' = readTo + 1 /\ wrong = {} /\ MeantFor(Upcoming) = t
  BY DEF Takes, Go, Clean
<1>2. /\ pc \in [Threads -> InputStates \cup ReceiverStates]
      /\ got \in [Threads -> Packets \cup {NoPacket}]
      /\ stream \in Seq(Packets) /\ readTo \in Nat
  BY DEF Inv, TypeOK, ThreadType, WireType
<1>3. Clean
  <2>1. m_connected \/ pc'["Input"] = "start"
    BY DEF Clean, clientVars
  <2>2. pc'["Input"] = "start" => pc["Input"] = "start"
    BY <1>1, <1>2 DEF Threads
  <2> QED BY <1>1, <2>1, <2>2 DEF Clean
<1>4. InStep /\ Settled /\ OneAnswer
  BY <1>3 DEF DialogueInv
<1>5. InStep'
  <2>1. \A u \in Threads : ~Between(u)'
    BY <1>1, <1>2, <1>4 DEF InStep, Between
  <2> QED BY <2>1 DEF InStep
<1>6. Waiting' <=> Waiting
  BY <1>1, <1>2 DEF Waiting, Threads, ReadingStates
<1>7. Settled'
  <2>1. pc'["Input"] = pc["Input"] \/ pc'["Input"] = "answer"
    BY <1>1, <1>2 DEF Threads
  <2>2. pc["Receiver"] # "none" => pc'["Receiver"] # "none"
    BY <1>1, <1>2 DEF Threads
  <2> QED BY <1>4, <1>6, <2>1, <2>2 DEF Settled, Placed, Outside, clientVars, serverVars
<1>8. /\ OnTheWay' = OnTheWay /\ asks' = asks /\ (Agree' <=> Agree)
      /\ InStream' = InStream \ {readTo + 1}
      /\ readTo + 1 \in InStream <=> Upcoming.type \in Answers
  BY <1>1, <1>2 DEF OnTheWay, InStream, Agree, Known, clientVars, serverVars, Upcoming
<1>9. \A p : Fits(p) => (Fits(p))'
  BY <1>8 DEF Fits, Known, clientVars, serverVars
<1>10. CASE t = "Input"
  <2>1. Upcoming.type \in Answers
    BY <1>1, <1>10 DEF MeantFor
  <2>2. Delivered
    <3>1. pc["Input"] \in ReadingStates
      BY <1>10 DEF ReadingStates
    <3>2. InStream # {}
      BY <1>8, <2>1
    <3> QED BY <1>4, <3>1, <3>2 DEF OneAnswer, Pending, Made
  <2>3. asks = {} /\ OnTheWay = {} /\ InStream = {readTo + 1} /\ Fits(Upcoming)
    BY <1>8, <2>1, <2>2 DEF Delivered, Upcoming
  <2>4. asks' = {} /\ OnTheWay' = {} /\ InStream' = {}
    BY <1>8, <2>3
  <2>5. pc'["Input"] = "answer" /\ got'["Input"] = Upcoming
    BY <1>1, <1>2, <1>10
  <2>6. Fits(got["Input"])'
    BY <2>3, <2>5 DEF Fits, Agree, Known, clientVars, serverVars
  <2>7. "answer" \notin ReadingStates /\ Waiting'
    BY <2>5 DEF Waiting, ReadingStates
  <2>8. pc'["Input"] \notin ReadingStates
    BY <2>5, <2>7
  <2> QED BY <1>5, <1>7, <2>4, <2>5, <2>6, <2>7, <2>8 DEF OneAnswer
<1>11. CASE t = "Receiver"
  <2>1. Upcoming.type \notin Answers
    BY <1>1, <1>11 DEF MeantFor
  <2>2. InStream' = InStream
    BY <1>8, <2>1
  <2>3. pc'["Input"] = pc["Input"] /\ got'["Input"] = got["Input"]
    BY <1>1, <1>2, <1>11 DEF Threads
  <2>4. pc["Input"] \in ReadingStates => (Pending \/ Made \/ Delivered)'
    BY <1>4, <1>8, <1>9, <2>2 DEF OneAnswer, Pending, Made, Delivered, clientVars, serverVars
  <2>5. pc["Input"] = "answer" => Fits(got["Input"])'
    BY <1>4, <1>8, <2>3 DEF OneAnswer, Fits, Known, clientVars, serverVars
  <2>6. pc["Input"] \notin ReadingStates => asks' = {} /\ OnTheWay' = {} /\ InStream' = {}
    BY <1>4, <1>8, <2>2 DEF OneAnswer
  <2>7. ~Waiting' => Agree'
    BY <1>4, <1>6, <1>8 DEF OneAnswer
  <2> QED BY <1>5, <1>7, <2>3, <2>4, <2>5, <2>6, <2>7 DEF OneAnswer
<1> QED BY <1>10, <1>11 DEF Threads

LEMMA SameDialogue ==
  ASSUME Inv, DialogueInv, Clean' => Clean, Clean /\ Settled => Settled',
         UNCHANGED <<asks, outgoing, stream, readTo, cut, asked, m_current_room_code, roomCode, unentered>>,
         pc'["Input"] \in ReadingStates <=> pc["Input"] \in ReadingStates,
         pc'["Input"] = "answer" <=> pc["Input"] = "answer",
         pc["Input"] = "answer" => got'["Input"] = got["Input"],
         \A t \in Threads : Between(t)' => Between(t) /\ got'[t] = got[t]
  PROVE  DialogueInv'
BY AnswerKeeps, InStepKeeps DEF DialogueInv

LEMMA ReceiveKeeps ==
  ASSUME Inv, Inv', DialogueInv, NEW t \in Threads, Receive(t)
  PROVE  DialogueInv'
<1>1. /\ pc \in [Threads -> InputStates \cup ReceiverStates]
      /\ got \in [Threads -> Packets \cup {NoPacket}]
      /\ pc["Input"] = "start" => pc["Receiver"] = "none"
  BY DEF Inv, TypeOK, ThreadType, LobbyReadsAlone, InChat, ReadingStates
<1>2. pc[t] \in ReadingStates /\ pc["Input"] # "start"
  BY <1>1 DEF Receive, CallRecv, RecvHeader, RecvText, RecvPayload, RecvRest, EndOfStream, ReadingStates, Threads
<1>3. ASSUME Fails(t), asked' = asked, ~m_connected' PROVE DialogueInv'
  BY <1>2, <1>3, FailsType DEF DialogueInv, Clean
<1>4. CASE CallRecv(t)
  <2>1. CASE ~m_connected
    BY <1>3, <1>4, <2>1 DEF CallRecv, clientVars
  <2>2. CASE m_connected
    <3>1. pc' = [pc EXCEPT ![t] = IF pc[t] = "header" THEN "inHeader" ELSE "inPayload"] /\ got' = got
          /\ pc[t] \in {"header", "payload"}
      BY <1>4, <2>2 DEF CallRecv, Go
    <3>2. \A u \in Threads : Between(u)' => Between(u) /\ got'[u] = got[u]
      BY <1>1, <3>1 DEF Between
    <3>3. /\ pc'["Input"] \in ReadingStates <=> pc["Input"] \in ReadingStates
          /\ pc'["Input"] # pc["Input"] => pc'["Input"] \in {"inHeader", "inPayload"} /\ pc["Input"] \in ReadingStates
          /\ pc["Receiver"] # "none" => pc'["Receiver"] # "none"
      BY <1>1, <3>1 DEF Threads, ReadingStates
    <3>4. Settled => Settled'
      BY <1>4, <3>3 DEF CallRecv, Settled, Placed, Outside, Waiting, ReadingStates, clientVars, wireVars, serverVars
    <3>5. Clean' => Clean
      BY <1>4, <2>2 DEF CallRecv, Clean, clientVars, history
    <3>6. /\ pc'["Input"] = "answer" <=> pc["Input"] = "answer"
          /\ UNCHANGED <<asks, outgoing, stream, readTo, cut, asked, m_current_room_code, roomCode, unentered>>
      BY <1>4, <3>1, <3>3 DEF CallRecv, clientVars, wireVars, serverVars, ReadingStates
    <3> QED BY <3>1, <3>2, <3>3, <3>4, <3>5, <3>6, SameDialogue
  <2> QED BY <2>1, <2>2
<1>5. CASE RecvHeader(t)
  <2>1. readTo < Len(stream) /\ cut = "none" /\ pc[t] = "inHeader"
        /\ UNCHANGED <<asked, clientVars, stream, hangup, serverVars, shown>>
    BY <1>5 DEF RecvHeader
  <2>2. CASE ~HasPayload(Upcoming)
    BY <1>5, <2>1, <2>2, TakesKeeps DEF RecvHeader
  <2>3. CASE HasPayload(Upcoming)
    <3>1. /\ pc' = [pc EXCEPT ![t] = "payload"] /\ got' = [got EXCEPT ![t] = Upcoming] /\ cut' = "header"
          /\ UNCHANGED <<readTo, wrong>>
      BY <1>5, <2>3 DEF RecvHeader, Go
    <3> SUFFICES ASSUME Clean' PROVE InStep' /\ Settled' /\ OneAnswer'
      BY DEF DialogueInv
    <3>2. /\ pc'["Input"] \in ReadingStates <=> pc["Input"] \in ReadingStates
          /\ pc'["Input"] # pc["Input"] => pc'["Input"] = "payload" /\ pc["Input"] \in ReadingStates
          /\ pc["Receiver"] # "none" => pc'["Receiver"] # "none"
      BY <1>1, <2>1, <3>1 DEF Threads, ReadingStates
    <3>3. Clean
      BY <2>1, <3>1, <3>2 DEF Clean, clientVars, ReadingStates
    <3>4. InStep'
      <4>1. \A u \in Threads : ~Between(u)
        BY <2>1, <3>3 DEF DialogueInv, InStep
      <4>2. \A u \in Threads : Between(u)' => u = t
        BY <1>1, <3>1, <4>1 DEF Between
      <4>3. got'[t] = Upcoming /\ Upcoming' = Upcoming
        BY <1>1, <2>1, <3>1 DEF Upcoming
      <4> QED BY <3>1, <4>2, <4>3 DEF InStep
    <3>5. Settled'
      BY <2>1, <3>2, <3>3 DEF DialogueInv, Settled, Placed, Outside, Waiting, ReadingStates, clientVars, serverVars
    <3>6. OneAnswer'
      <4>1. /\ pc'["Input"] = "answer" <=> pc["Input"] = "answer"
            /\ pc["Input"] = "answer" => got'["Input"] = got["Input"]
            /\ UNCHANGED <<asks, outgoing, stream, readTo, asked, m_current_room_code, roomCode, unentered>>
        BY <1>1, <2>1, <3>1, <3>2 DEF clientVars, serverVars, ReadingStates, Threads
      <4> QED BY <3>2, <3>3, <4>1, AnswerKeeps DEF DialogueInv
    <3> QED BY <3>4, <3>5, <3>6
  <2> QED BY <2>2, <2>3
<1>6. CASE RecvText(t)
  BY <1>3, <1>6 DEF RecvText, Close
<1>7. CASE RecvPayload(t)
  <2> SUFFICES ASSUME Clean' PROVE DialogueInv'
    BY DEF DialogueInv
  <2>1. pc[t] = "inPayload" /\ cut = "header" /\ cut' = "none" /\ Takes(t, got[t])
        /\ UNCHANGED <<asked, clientVars, stream, hangup, serverVars, shown>>
    BY <1>7 DEF RecvPayload
  <2>2. Clean
    <3>1. wrong = {}
      BY <2>1 DEF Takes, Clean
    <3>2. pc'["Input"] # "start"
      BY <1>1, <1>2, <2>1 DEF Takes, Go, Threads
    <3> QED BY <2>1, <3>1, <3>2 DEF Clean, clientVars
  <2>3. got[t] = Upcoming
    BY <2>1, <2>2 DEF DialogueInv, InStep, Between
  <2>4. readTo < Len(stream)
    BY <2>1 DEF Inv, TypeOK, WireType
  <2> QED BY <2>1, <2>3, <2>4, TakesKeeps
<1>8. CASE RecvRest(t)
  <2>1. ~Clean
    BY <1>8 DEF RecvRest, DialogueInv, InStep
  <2>2. wrong = {} => ~m_connected
    BY <2>1 DEF Clean
  <2>3. wrong \subseteq wrong' /\ m_connected' = m_connected /\ pc'["Input"] # "start"
    BY <1>1, <1>2, <1>8 DEF RecvRest, Takes, Go, Threads, clientVars
  <2>4. ~Clean'
    BY <2>2, <2>3 DEF Clean
  <2> QED BY <2>4 DEF DialogueInv
<1>9. CASE EndOfStream(t)
  BY <1>3, <1>9 DEF EndOfStream, Close
<1> QED BY <1>4, <1>5, <1>6, <1>7, <1>8, <1>9 DEF Receive

-----------------------------------------------------------------------------
(* The input thread.                                                       *)
LEMMA AskKeeps ==
  ASSUME Inv, DialogueInv, NEW type \in RequestTypes, NEW code \in Codes \cup {NoCode},
         Ask(type, code), UNCHANGED history, stdin = "open",
         pc["Input"] = CASE type = "REGISTER" -> "nickname"
                         [] type \in {"CREATE", "JOIN"} -> "menu"
                         [] type = "EXIT" -> "prompt"
  PROVE  DialogueInv'
<1> SUFFICES ASSUME Clean' PROVE InStep' /\ Settled' /\ OneAnswer'
  BY DEF DialogueInv
<1> DEFINE q == [type |-> type, code |-> code, n |-> sent]
<1>1. /\ m_connected /\ asks' = asks \cup {q} /\ asked' = type /\ pc' = [pc EXCEPT !["Input"] = "header"]
      /\ UNCHANGED <<got, clientVars, wireVars, outgoing, listed, roomCode, unentered, served>>
  BY DEF Ask, Go
<1>2. pc \in [Threads -> InputStates \cup ReceiverStates] /\ "Input" \in Threads
  BY DEF Inv, TypeOK, ThreadType, Threads
<1>3. Clean /\ InStep /\ Settled /\ OneAnswer
  BY <1>1 DEF Clean, DialogueInv, history
<1>4. pc["Input"] \in {"nickname", "menu", "prompt"} /\ (type = "EXIT" <=> pc["Input"] = "prompt")
      /\ (type = "REGISTER" <=> pc["Input"] = "nickname")
  BY DEF RequestTypes
<1>5. InStep'
  <2>1. \A t \in Threads : Between(t)' => Between(t) /\ got'[t] = got[t]
    BY <1>1, <1>2 DEF Between
  <2> QED BY <1>1, <1>3, <2>1, InStepKeeps DEF wireVars
<1>6. pc'["Input"] = "header" /\ Waiting'
  BY <1>1, <1>2 DEF Waiting, ReadingStates
<1>7. asks = {} /\ OnTheWay = {} /\ InStream = {} /\ Agree
  BY <1>3, <1>4 DEF OneAnswer, Waiting, ReadingStates
<1>8. Settled'
  <2>1. type # "EXIT" /\ ~hangup => roomCode = NoCode
    BY <1>3, <1>4, <1>7 DEF Settled, Placed, Outside, Agree, Known
  <2>2. Placed'
    BY <1>1, <1>3, <1>4, <1>6 DEF Settled, Placed, clientVars, wireVars
  <2>3. Outside'
    BY <1>1, <1>3, <1>6, <2>1 DEF Settled, Outside, wireVars
  <2> QED BY <2>2, <2>3 DEF Settled
<1>9. Pending'
  <2>1. asks' = {q} /\ q.type = asked'
    BY <1>1, <1>7
  <2>2. OnTheWay' = {} /\ InStream' = {} /\ Agree'
    BY <1>1, <1>7 DEF OnTheWay, InStream, Agree, Known, clientVars, wireVars
  <2> HIDE DEF q
  <2> QED BY <2>1, <2>2 DEF Pending
<1> QED BY <1>5, <1>6, <1>8, <1>9 DEF OneAnswer, ReadingStates

(* The chat is left without a request.                                     *)
LEMMA StopsKeep ==
  ASSUME Inv, DialogueInv, Stops, pc["Input"] = "prompt", UNCHANGED history,
         hangup \/ ~m_connected \/ stdin = "closed" \/ m_current_room_code = NoCode
  PROVE  DialogueInv'
<1>1. /\ pc' = [pc EXCEPT !["Input"] = "stop"] /\ UNCHANGED <<got, asked, clientVars, wireVars, serverVars>>
      /\ pc \in [Threads -> InputStates \cup ReceiverStates]
  BY DEF Stops, Go, Inv, TypeOK, ThreadType
<1>2. pc'["Input"] = "stop" /\ \A t \in Threads : Between(t)' => Between(t)
  BY <1>1 DEF Threads, Between
<1>3. Clean' => Clean
  BY <1>1, <1>2 DEF Clean, clientVars, history
<1>4. Clean /\ Settled => Settled'
  BY <1>1, <1>2 DEF Clean, Settled, Placed, Outside, Waiting, ReadingStates, clientVars, wireVars, serverVars
<1> QED BY <1>1, <1>2, <1>3, <1>4, SameDialogue DEF clientVars, wireVars, serverVars, ReadingStates

(* The connection is given up.                                             *)
LEMMA ClosedIsUnclean ==
  ASSUME ~m_connected', pc'["Input"] # "start"
  PROVE  DialogueInv'
BY DEF DialogueInv, Clean

LEMMA UserKeeps == ASSUME Inv, Inv', DialogueInv, User PROVE DialogueInv'
<1> USE DEF Prompted
<1>1. CASE RegisterNickname
  BY <1>1, AskKeeps DEF RegisterNickname, RequestTypes
<1>2. CASE CreateRoom
  BY <1>2, AskKeeps DEF CreateRoom, RequestTypes
<1>3. ASSUME NEW code \in Codes, JoinRoom(code) PROVE DialogueInv'
  BY <1>3, AskKeeps DEF JoinRoom, RequestTypes
<1>4. CASE ExitRoom
  <2>1. CASE Ask("EXIT", NoCode)
    BY <1>4, <2>1, AskKeeps DEF ExitRoom, RequestTypes
  <2>2. CASE ~Ask("EXIT", NoCode)
    BY <1>4, <2>2, StopsKeep DEF ExitRoom
  <2> QED BY <2>1, <2>2
<1>5. CASE Enter
  BY <1>5, StopsKeep DEF Enter
<1>6. CASE Leave
  BY <1>6, ClosedIsUnclean DEF Leave, Close, Go, Inv, TypeOK, ThreadType, Threads
<1> QED BY <1>1, <1>2, <1>3, <1>4, <1>5, <1>6 DEF User

(* What the input thread makes of the answer: now both know the room.      *)
LEMMA AnswersKeep ==
  ASSUME Inv, Inv', DialogueInv, OnNicknameAnswer \/ OnRoomAnswer \/ OnExitAnswer
  PROVE  DialogueInv'
<1> SUFFICES ASSUME Clean' PROVE InStep' /\ Settled' /\ OneAnswer'
  BY DEF DialogueInv
<1>1. /\ pc["Input"] = "answer" /\ got' = [got EXCEPT !["Input"] = NoPacket]
      /\ UNCHANGED <<asked, m_connected, stdin, wireVars, serverVars, history>>
  BY DEF OnNicknameAnswer, OnRoomAnswer, OnExitAnswer, Answered, Discards, clientVars
<1>2. /\ pc \in [Threads -> InputStates \cup ReceiverStates] /\ pc'["Input"] \in InputStates
      /\ pc'["Input"] \in {"nickname", "menu", "prompt", "stop"}
  BY DEF Inv, TypeOK, ThreadType, Threads, InputStates, ReadingStates,
     OnNicknameAnswer, OnRoomAnswer, OnExitAnswer, StartChatSession, Go
<1>3. Clean /\ InStep /\ Settled /\ OneAnswer
  BY <1>1, <1>2 DEF Clean, DialogueInv, history
<1>4. Fits(got["Input"]) /\ asks = {} /\ OnTheWay = {} /\ InStream = {} /\ Waiting
  BY <1>1, <1>3 DEF OneAnswer, ReadingStates, Waiting
<1>5. asks' = {} /\ OnTheWay' = {} /\ InStream' = {} /\ ~Waiting' /\ pc'["Input"] \notin ReadingStates
  BY <1>1, <1>2, <1>4 DEF OnTheWay, InStream, wireVars, serverVars, Waiting, ReadingStates
<1>6. InStep'
  <2>1. \A t \in Threads : Between(t)' => Between(t) /\ got'[t] = got[t]
    BY <1>1, <1>2 DEF Between, Threads, OnNicknameAnswer, OnRoomAnswer, OnExitAnswer, StartChatSession, Go,
       Inv, TypeOK, ThreadType
  <2> QED BY <1>1, <1>3, <2>1, InStepKeeps DEF wireVars
<1>7. Agree' /\ Settled'
  <2>1. CASE OnNicknameAnswer
    <3>1. asked = "REGISTER" /\ Agree /\ m_current_room_code' = m_current_room_code
      BY <1>4, <2>1 DEF OnNicknameAnswer, Answered, Fits, clientVars
    <3>2. pc'["Input"] = IF got["Input"].type = "NICKNAME_OK" THEN "menu" ELSE "nickname"
      BY <1>2, <2>1 DEF OnNicknameAnswer, Go, Threads
    <3>3. m_current_room_code = NoCode /\ roomCode = NoCode
      BY <1>3, <1>4, <3>1 DEF Settled, Placed, Fits
    <3> QED BY <1>1, <1>3, <1>5, <3>1, <3>2, <3>3 DEF Agree, Known, Settled, Placed, Outside, wireVars, serverVars
  <2>2. CASE OnRoomAnswer
    <3>1. asked \in {"CREATE", "JOIN"}
      BY <2>2 DEF OnRoomAnswer, Answered
    <3>2. CASE Accepted(got["Input"])
      <4>1. m_current_room_code' = got["Input"].code /\ got["Input"].code # NoCode /\ StartChatSession
        BY <2>2, <3>2 DEF OnRoomAnswer, Accepted, RoomOf
      <4>2. got["Input"].code = Known
        BY <1>4, <3>1, <3>2 DEF Accepted, Fits
      <4>3. pc'["Input"] = "prompt" /\ pc'["Receiver"] # "none"
        BY <1>2, <4>1 DEF StartChatSession, Threads
      <4> QED BY <1>1, <1>3, <1>5, <3>1, <4>1, <4>2, <4>3 DEF Agree, Known, Settled, Placed, Outside, serverVars
    <3>3. CASE ~Accepted(got["Input"])
      <4>1. m_current_room_code' = m_current_room_code /\ pc'["Input"] = "menu"
        BY <1>2, <2>2, <3>3 DEF OnRoomAnswer, Go, Threads
      <4>2. Agree /\ roomCode = NoCode
        BY <1>4, <3>1, <3>3 DEF Accepted, RoomOf, Fits
      <4> QED BY <1>1, <1>3, <1>5, <4>1, <4>2 DEF Agree, Known, Settled, Placed, Outside, wireVars, serverVars
    <3> QED BY <3>2, <3>3
  <2>3. CASE OnExitAnswer
    <3>1. asked = "EXIT" /\ m_current_room_code' = Known /\ roomCode = NoCode
      BY <1>3, <1>4, <2>3 DEF OnExitAnswer, Answered, Fits, Agree, Known, Settled, Outside
    <3>2. pc'["Input"] = "stop"
      BY <1>2, <2>3 DEF OnExitAnswer, Go, Threads
    <3> QED BY <1>1, <1>3, <1>5, <3>1, <3>2 DEF Agree, Known, Settled, Placed, Outside, wireVars, serverVars
  <2> QED BY <2>1, <2>2, <2>3
<1> QED BY <1>2, <1>5, <1>6, <1>7 DEF OneAnswer

LEMMA InputKeeps ==
  ASSUME Inv, Inv', DialogueInv,
         ConnectToServer \/ EndChat \/ StopReceiving \/ JoinReceiver \/ EndInput \/ StrayChoice \/ BrokenPipe
  PROVE  DialogueInv'
<1>1. pc \in [Threads -> InputStates \cup ReceiverStates] /\ "Input" \in Threads
  BY DEF Inv, TypeOK, ThreadType, Threads
<1>2. CASE ConnectToServer
  <2>1. pc["Input"] = "start" /\ pc'["Input"] \in {"nickname", "done"} /\ pc'["Receiver"] = pc["Receiver"]
        /\ UNCHANGED <<got, asked, m_is_receiving, m_current_room_code, stdin, wireVars, serverVars, history>>
    BY <1>1, <1>2 DEF ConnectToServer, Go, Threads
  <2>2. \A t \in Threads : Between(t)' => Between(t) /\ got'[t] = got[t]
    BY <2>1 DEF Between, Threads
  <2>3. Clean /\ Settled => Settled'
    BY <2>1 DEF Settled, Placed, Outside, Waiting, ReadingStates, serverVars
  <2>4. Clean' => Clean
    BY <2>1 DEF Clean, history
  <2> QED BY <2>1, <2>2, <2>3, <2>4, SameDialogue DEF wireVars, serverVars, ReadingStates
<1>3. CASE EndChat
  BY <1>3, StopsKeep DEF EndChat
<1>4. CASE StopReceiving
  <2>1. pc["Input"] = "stop" /\ pc' = [pc EXCEPT !["Input"] = "join"]
        /\ UNCHANGED <<got, asked, m_connected, m_current_room_code, stdin, wireVars, serverVars, history>>
    BY <1>4 DEF StopReceiving, Go
  <2>2. pc'["Input"] = "join" /\ \A t \in Threads : Between(t)' => Between(t)
    BY <1>1, <2>1 DEF Between
  <2>3. Clean /\ Settled => Settled'
    BY <2>1, <2>2 DEF Settled, Placed, Outside, Waiting, ReadingStates, wireVars, serverVars
  <2>4. Clean' => Clean
    BY <2>1, <2>2 DEF Clean, history
  <2> QED BY <2>1, <2>2, <2>3, <2>4, SameDialogue DEF wireVars, serverVars, ReadingStates
<1>5. CASE JoinReceiver
  <2>1. pc["Input"] = "join" /\ pc' = [pc EXCEPT !["Input"] = "menu", !["Receiver"] = "none"]
        /\ UNCHANGED <<got, asked, clientVars, wireVars, serverVars, history>>
    BY <1>5 DEF JoinReceiver
  <2>2. pc'["Input"] = "menu" /\ \A t \in Threads : Between(t)' => Between(t)
    BY <1>1, <2>1 DEF Between, Threads
  <2>3. Clean /\ Settled => Settled'
    BY <2>1, <2>2 DEF Settled, Placed, Outside, Waiting, ReadingStates, wireVars, clientVars, serverVars
  <2>4. Clean' => Clean
    BY <2>1, <2>2 DEF Clean, history, clientVars
  <2> QED BY <2>1, <2>2, <2>3, <2>4, SameDialogue DEF wireVars, serverVars, clientVars, ReadingStates
<1>6. CASE EndInput
  <2>1. stdin' = "closed" /\ pc["Input"] # "start"
        /\ UNCHANGED <<threadVars, m_connected, m_is_receiving, m_current_room_code, wireVars, serverVars, history>>
    BY <1>6 DEF EndInput
  <2>2. \A t \in Threads : Between(t)' => Between(t) /\ got'[t] = got[t]
    BY <2>1 DEF Between, threadVars
  <2>3. Clean /\ Settled => Settled'
    BY <2>1 DEF Settled, Placed, Outside, Waiting, wireVars, threadVars, serverVars
  <2>4. Clean' => Clean
    BY <2>1 DEF Clean, history, threadVars
  <2> QED BY <2>1, <2>2, <2>3, <2>4, SameDialogue DEF wireVars, serverVars, threadVars
<1>7. CASE StrayChoice
  BY <1>1, <1>7, ClosedIsUnclean DEF StrayChoice, Close, Go
<1>8. CASE BrokenPipe
  BY <1>1, <1>8, ClosedIsUnclean DEF BrokenPipe, Close
<1> QED BY <1>2, <1>3, <1>4, <1>5, <1>6, <1>7, <1>8

-----------------------------------------------------------------------------
(* The receiver thread between two packets.                                *)
LEMMA ReceiverKeeps ==
  ASSUME Inv, Inv', DialogueInv, ReceiverRuns
  PROVE  DialogueInv'
<1>1. /\ pc \in [Threads -> InputStates \cup ReceiverStates] /\ got \in [Threads -> Packets \cup {NoPacket}]
      /\ "Receiver" \in Threads
  BY DEF Inv, TypeOK, ThreadType, Threads
<1>2. PICK s : pc' = [pc EXCEPT !["Receiver"] = s] /\ s \in {"loop", "header", "end", "finished"}
  BY DEF ReceiverRuns, StartReceiving, ReceiveLoop, OnMessage, EndLoop, Go
<1>3. UNCHANGED <<asked, m_connected, m_current_room_code, stdin, wireVars, serverVars, wrong>>
  BY DEF ReceiverRuns, StartReceiving, ReceiveLoop, OnMessage, EndLoop, clientVars, history
<1>4. got' = got \/ got' = [got EXCEPT !["Receiver"] = NoPacket]
  BY DEF ReceiverRuns, StartReceiving, ReceiveLoop, OnMessage, EndLoop, Discards
<1>5. pc'["Input"] = pc["Input"] /\ got'["Input"] = got["Input"] /\ pc'["Receiver"] = s
  BY <1>1, <1>2, <1>4 DEF Threads
<1>6. \A t \in Threads : Between(t)' => Between(t) /\ got'[t] = got[t]
  BY <1>2, <1>5 DEF Between, Threads
<1>7. (Clean' => Clean) /\ (Clean /\ Settled => Settled')
  BY <1>2, <1>3, <1>5 DEF Clean, Settled, Placed, Outside, Waiting, wireVars, serverVars
<1> QED BY <1>3, <1>5, <1>6, <1>7, SameDialogue DEF wireVars, serverVars

-----------------------------------------------------------------------------
(* The server.                                                             *)
LEMMA NewsAreNoAnswers == Displayed \cap Answers = {}
BY DEF Displayed, Answers

LEMMA MakesOne ==
  ASSUME NEW type, NEW code, Makes(type, code)
  PROVE  \E p : p.type = type /\ p.code = code /\ outgoing' = outgoing \cup {p}
BY DEF Makes, Packet

LEMMA HandleKeeps ==
  ASSUME Inv, Inv', DialogueInv, NEW q \in asks, Handle(q)
  PROVE  DialogueInv'
<1> SUFFICES ASSUME Clean' PROVE InStep' /\ Settled' /\ OneAnswer'
  BY DEF DialogueInv
<1>1. /\ ~hangup /\ asks' = asks \ {q}
      /\ UNCHANGED <<threadVars, clientVars, wireVars, sent, history>>
  BY DEF Handle
<1>2. Clean /\ InStep /\ Settled /\ OneAnswer
  BY <1>1 DEF Clean, DialogueInv, threadVars, clientVars, history
<1>3. InStep' /\ Placed'
  BY <1>1, <1>2 DEF InStep, Settled, Placed, Between, Upcoming, Waiting, threadVars, clientVars, wireVars
<1>4. pc["Input"] \in ReadingStates /\ Pending
  BY <1>2 DEF OneAnswer, Made, Delivered
<1>5. asks = {q} /\ q.type = asked /\ OnTheWay = {} /\ InStream = {} /\ Agree /\ Waiting
  BY <1>4 DEF Pending, Waiting
<1>6. asks' = {} /\ InStream' = {} /\ pc' = pc /\ asked' = asked /\ m_current_room_code' = m_current_room_code
  BY <1>1, <1>5 DEF InStream, threadVars, clientVars, wireVars
<1>7. asked # "EXIT" => roomCode = NoCode
  BY <1>1, <1>2, <1>5 DEF Settled, Outside
<1>8. roomCode = NoCode \/ unentered = NoCode
  BY <1>2 DEF Settled, Outside
<1> DEFINE Answering == \E p : outgoing' = outgoing \cup {p} /\ p.type \in Answers /\ (Fits(p))'
           OneRoom == roomCode' = NoCode \/ unentered' = NoCode
<1>9. ASSUME NEW type, Refuses(type),
             \/ asked = "REGISTER" /\ type \in {"NICKNAME_OK", "NICKNAME_FAIL"}
             \/ asked = "CREATE" /\ type = "CREATE_FAIL"
             \/ asked = "JOIN" /\ type = "JOIN_FAIL"
             \/ asked = "EXIT" /\ type = "EXIT_FAIL" /\ roomCode = NoCode
      PROVE  Answering /\ OneRoom
  <2>1. PICK p : p.type = type /\ outgoing' = outgoing \cup {p}
    BY <1>9, MakesOne DEF Refuses
  <2>2. roomCode' = roomCode /\ unentered' = unentered /\ roomCode = NoCode
    BY <1>7, <1>9 DEF Refuses
  <2>3. Agree'
    BY <1>5, <1>6, <2>2 DEF Agree, Known
  <2>4. p.type \in Answers
    BY <1>9, <2>1 DEF Answers
  <2>5. (Fits(p))'
    BY <1>6, <1>9, <2>1, <2>2, <2>3 DEF Fits
  <2> QED BY <2>1, <2>2, <2>4, <2>5
<1>10. ASSUME NEW type, NEW c \in Codes, Makes(type, c), Known' = c, OneRoom,
              \/ asked = "CREATE" /\ type = "CREATE_OK"
              \/ asked = "JOIN" /\ type = "JOIN_OK"
       PROVE  Answering
  <2>1. PICK p : p.type = type /\ p.code = c /\ outgoing' = outgoing \cup {p}
    BY <1>10, MakesOne
  <2>2. Known' # NoCode
    BY <1>10, ClientAssumption
  <2> QED BY <1>6, <1>10, <2>1, <2>2 DEF Fits, Answers
<1>11. ASSUME NEW type, NEW c \in Codes, Admits(type, c) PROVE Makes(type, c) /\ Known' = c /\ OneRoom
  BY <1>11, ClientAssumption DEF Admits, Known
<1>12. Answering /\ OneRoom
  <2>1. CASE q.type = "REGISTER"
    BY <1>5, <1>9, <2>1 DEF Handle
  <2>2. CASE q.type = "CREATE"
    <3>1. CASE Refuses("CREATE_FAIL")
      BY <1>5, <1>9, <2>2, <3>1
    <3>2. ASSUME NEW c \in Codes, Admits("CREATE_OK", c) PROVE Answering /\ OneRoom
      BY <1>5, <1>10, <1>11, <2>2, <3>2
    <3>3. ASSUME NEW c \in Codes, LeavesOut(c) PROVE Answering /\ OneRoom
      <4>1. roomCode' = NoCode /\ unentered' = c /\ Makes("CREATE_OK", c)
        BY <1>5, <1>7, <2>2, <3>3 DEF LeavesOut
      <4>2. Known' = c
        BY <4>1 DEF Known
      <4>3. OneRoom
        BY <4>1
      <4> QED BY <1>5, <1>10, <2>2, <4>1, <4>2, <4>3
    <3> QED BY <2>2, <3>1, <3>2, <3>3 DEF Handle
  <2>3. CASE q.type = "JOIN"
    <3>1. CASE Refuses("JOIN_FAIL")
      BY <1>5, <1>9, <2>3, <3>1
    <3>2. CASE Admits("JOIN_OK", q.code)
      <4>1. q.code \in Codes
        BY <2>3 DEF Inv, TypeOK, ServerType, Requests
      <4> QED BY <1>5, <1>10, <1>11, <2>3, <3>2, <4>1
    <3> QED BY <2>3, <3>1, <3>2 DEF Handle
  <2>4. CASE q.type = "EXIT"
    <3>1. CASE roomCode = NoCode
      BY <1>5, <1>9, <2>4, <3>1 DEF Handle
    <3>2. CASE roomCode # NoCode
      <4>1. Makes("EXIT_OK", NoCode) /\ roomCode' = NoCode /\ unentered' = NoCode
        BY <1>8, <2>4, <3>2 DEF Handle
      <4>2. PICK p : p.type = "EXIT_OK" /\ outgoing' = outgoing \cup {p}
        BY <4>1, MakesOne
      <4>3. Known' = NoCode
        BY <4>1 DEF Known
      <4> QED BY <1>5, <1>6, <2>4, <4>1, <4>2, <4>3 DEF Fits, Answers
    <3> QED BY <3>1, <3>2
  <2> QED BY <2>1, <2>2, <2>3, <2>4 DEF Inv, TypeOK, ServerType, Requests, RequestTypes
<1>13. Made'
  <2>1. PICK p : outgoing' = outgoing \cup {p} /\ p.type \in Answers /\ (Fits(p))'
    BY <1>12
  <2>2. OnTheWay' = {p} /\ p \in outgoing'
    BY <1>5, <2>1 DEF OnTheWay
  <2> QED BY <1>6, <2>1, <2>2 DEF Made
<1>14. pc["Input"] \in ReadingStates /\ Waiting'
  BY <1>4, <1>5, <1>6 DEF Waiting
<1>15. pc["Input"] \notin {"answer", "menu", "stop", "join"}
  BY <1>14 DEF ReadingStates
<1>16. Settled'
  BY <1>3, <1>6, <1>12, <1>15 DEF Settled, Outside
<1> QED BY <1>3, <1>6, <1>13, <1>14, <1>15, <1>16 DEF OneAnswer

LEMMA DeliverKeeps ==
  ASSUME Inv, Inv', DialogueInv, NEW p \in outgoing, Deliver(p)
  PROVE  DialogueInv'
<1> SUFFICES ASSUME Clean' PROVE InStep' /\ Settled' /\ OneAnswer'
  BY DEF DialogueInv
<1>1. /\ outgoing' = outgoing \ {p} /\ stream' = Append(stream, p)
      /\ UNCHANGED <<threadVars, clientVars, readTo, cut, hangup, asks, listed, roomCode, unentered, served, sent, history>>
  BY DEF Deliver
<1>2. Clean /\ InStep /\ Settled /\ OneAnswer
  BY <1>1 DEF Clean, DialogueInv, threadVars, clientVars, history
<1>3. p \in Packets /\ stream \in Seq(Packets) /\ readTo \in 0 .. Len(stream) /\ (cut # "none" => readTo < Len(stream))
  BY DEF Inv, TypeOK, ServerType, WireType
<1>4. /\ Len(stream') = Len(stream) + 1 /\ Len(stream) \in Nat /\ stream'[Len(stream) + 1] = p
      /\ \A i \in 1 .. Len(stream) : stream'[i] = stream[i]
  BY <1>1, <1>3, AppendProperties
<1>5. InStep'
  <2>1. cut = "header" => Upcoming' = Upcoming
    BY <1>1, <1>3, <1>4 DEF Upcoming
  <2> QED BY <1>1, <1>2, <2>1 DEF InStep, Between, threadVars
<1>6. Settled'
  BY <1>1, <1>2 DEF Settled, Placed, Outside, Waiting, threadVars, clientVars, serverVars
<1>7. /\ UNCHANGED <<pc, got, asked, asks, m_current_room_code, roomCode, unentered>>
      /\ \A x : Fits(x) => (Fits(x))'
      /\ Agree' <=> Agree
  BY <1>1 DEF Fits, Agree, Known, threadVars, clientVars
<1>8. /\ OnTheWay' = OnTheWay \ {p}
      /\ InStream' = IF p.type \in Answers THEN InStream \cup {Len(stream) + 1} ELSE InStream
  BY <1>1, <1>3, <1>4 DEF OnTheWay, InStream
<1>9. CASE p.type \in Answers
  <2>1. p \in OnTheWay
    BY <1>9 DEF OnTheWay
  <2>2. pc["Input"] \in ReadingStates /\ Made
    BY <1>2, <2>1 DEF OneAnswer, Pending, Delivered
  <2>3. asks = {} /\ OnTheWay = {p} /\ InStream = {} /\ Fits(p)
    BY <2>1, <2>2 DEF Made
  <2>4. OnTheWay' = {} /\ InStream' = {Len(stream) + 1}
    BY <1>8, <1>9, <2>3
  <2>5. Delivered'
    <3>1. asks' = {} /\ stream'[Len(stream) + 1] = p /\ (Fits(p))'
      BY <1>4, <1>7, <2>3
    <3> QED BY <2>4, <3>1 DEF Delivered, Fits, Agree, Known
  <2> QED BY <1>5, <1>6, <1>7, <2>2, <2>5 DEF OneAnswer, Waiting, ReadingStates
<1>10. CASE p.type \notin Answers
  <2>1. OnTheWay' = OnTheWay /\ InStream' = InStream
    BY <1>8, <1>10 DEF OnTheWay
  <2>2. Pending => Pending'
    BY <1>7, <2>1 DEF Pending
  <2>3. Made => Made'
    <3> SUFFICES ASSUME Made PROVE Made'
      OBVIOUS
    <3>1. PICK x \in outgoing : OnTheWay = {x} /\ Fits(x)
      BY DEF Made
    <3>2. x \in outgoing' /\ (Fits(x))'
      BY <1>7, <1>8, <1>10, <2>1, <3>1 DEF OnTheWay
    <3> QED BY <1>7, <2>1, <3>1, <3>2 DEF Made
  <2>4. Delivered => Delivered'
    <3> SUFFICES ASSUME Delivered PROVE Delivered'
      OBVIOUS
    <3>1. PICK i \in InStream : InStream = {i} /\ Fits(stream[i])
      BY DEF Delivered
    <3>2. stream'[i] = stream[i]
      BY <1>3, <1>4 DEF InStream
    <3> QED BY <1>7, <2>1, <3>1, <3>2 DEF Delivered, Fits, Agree, Known
  <2>5. pc["Input"] = "answer" => Fits(got["Input"])'
    BY <1>2, <1>7 DEF OneAnswer, Fits, Agree, Known
  <2>6. pc["Input"] \in ReadingStates => (Pending \/ Made \/ Delivered)'
    BY <1>2, <2>2, <2>3, <2>4 DEF OneAnswer
  <2> QED BY <1>2, <1>5, <1>6, <1>7, <2>1, <2>5, <2>6 DEF OneAnswer, Waiting
<1> QED BY <1>9, <1>10

LEMMA TalkKeeps ==
  ASSUME Inv, Inv', DialogueInv, NEW type \in Chatter, Talk(type)
  PROVE  DialogueInv'
<1> SUFFICES ASSUME Clean' PROVE InStep' /\ Settled' /\ OneAnswer'
  BY DEF DialogueInv
<1>1. UNCHANGED <<threadVars, clientVars, wireVars, asks, sent, listed, roomCode, unentered, history>>
  BY DEF Talk
<1>2. PICK p : p.type = type /\ outgoing' = outgoing \cup {p}
  BY MakesOne DEF Talk
<1>3. p.type \notin Answers
  BY <1>2, ClientAssumption, NewsAreNoAnswers
<1>4. Clean /\ InStep /\ Settled /\ OneAnswer
  BY <1>1 DEF Clean, DialogueInv, threadVars, clientVars, history
<1>5. InStep' /\ Settled'
  BY <1>1, <1>4 DEF InStep, Settled, Placed, Outside, Between, Upcoming, Waiting, threadVars, clientVars, wireVars, serverVars
<1>6. /\ OnTheWay' = OnTheWay /\ InStream' = InStream /\ (Agree' <=> Agree)
      /\ UNCHANGED <<pc, got, asks, asked, stream>>
  BY <1>1, <1>2, <1>3 DEF OnTheWay, InStream, Agree, Known, threadVars, clientVars, wireVars
<1>7. \A x : Fits(x) => (Fits(x))'
  BY <1>1, <1>6 DEF Fits, Known
<1>8. pc["Input"] \in ReadingStates => (Pending \/ Made \/ Delivered)'
  BY <1>2, <1>4, <1>6, <1>7 DEF OneAnswer, Pending, Made, Delivered
<1>9. pc["Input"] = "answer" => Fits(got["Input"])'
  BY <1>1, <1>4, <1>6 DEF OneAnswer, Fits, Known
<1> QED BY <1>4, <1>5, <1>6, <1>8, <1>9 DEF OneAnswer, Waiting

LEMMA HangUpKeeps ==
  ASSUME Inv, Inv', DialogueInv, HangUp
  PROVE  DialogueInv'
<1>1. /\ hangup' = TRUE /\ pc["Input"] # "start"
      /\ UNCHANGED <<threadVars, clientVars, stream, readTo, cut, serverVars, history>>
  BY DEF HangUp
<1>2. \A t \in Threads : Between(t)' => Between(t) /\ got'[t] = got[t]
  BY <1>1 DEF Between, threadVars
<1>3. (Clean' => Clean) /\ (Clean /\ Settled => Settled')
  BY <1>1 DEF Clean, Settled, Placed, Outside, Waiting, threadVars, clientVars, history, serverVars
<1> QED BY <1>1, <1>2, <1>3, SameDialogue DEF threadVars, clientVars, serverVars

-----------------------------------------------------------------------------
LEMMA InitDialogue == Init => DialogueInv
<1> SUFFICES ASSUME Init PROVE InStep /\ Settled /\ OneAnswer
  BY DEF DialogueInv
<1>1. pc["Input"] = "start" /\ pc["Receiver"] = "none"
  BY DEF Init, Threads
<1>2. InStep /\ Settled
  BY <1>1 DEF Init, InStep, Settled, Placed, Outside, Between, Waiting, ReadingStates, Threads, serverVars
<1>3. asks = {} /\ OnTheWay = {} /\ InStream = {} /\ Agree
  BY DEF Init, OnTheWay, InStream, Agree, Known
<1> QED BY <1>1, <1>2, <1>3 DEF OneAnswer, ReadingStates

LEMMA StepDialogue == Inv /\ DialogueInv /\ [Next]_vars => DialogueInv'
<1> SUFFICES ASSUME Inv, DialogueInv, [Next]_vars PROVE DialogueInv'
  OBVIOUS
<1>1. Inv'
  BY StepInv
<1>2. CASE UNCHANGED vars
  <2>1. UNCHANGED <<pc, got, asked, m_connected, m_current_room_code, stdin, stream, readTo, cut, hangup,
                    asks, outgoing, roomCode, unentered, wrong>>
    BY <1>2 DEF vars, threadVars, clientVars, wireVars, serverVars, history
  <2>2. \A t \in Threads : Between(t)' => Between(t) /\ got'[t] = got[t]
    BY <2>1 DEF Between
  <2>3. (Clean' => Clean) /\ (Clean /\ Settled => Settled')
    BY <2>1 DEF Clean, Settled, Placed, Outside, Waiting, serverVars
  <2> QED BY <2>1, <2>2, <2>3, SameDialogue
<1> QED BY <1>1, <1>2, ReceiveKeeps, UserKeeps, AnswersKeep, InputKeeps, ReceiverKeeps, HandleKeeps,
        DeliverKeeps, TalkKeeps, HangUpKeeps DEF Next, InputRuns, Server, Rest

LEMMA Dialogue == Spec => [](Inv /\ DialogueInv)
<1>1. Init => Inv /\ DialogueInv
  BY InitInv, InitDialogue
<1>2. Inv /\ DialogueInv /\ [Next]_vars => (Inv /\ DialogueInv)'
  BY StepInv, StepDialogue
<1> QED BY <1>1, <1>2, PTL DEF Spec

(* As long as nothing was mixed up, the client keeps the room it is in at  *)
(* the server, or the one it was told it has and never entered, whenever   *)
(* it waits for no answer (RoomService.cpp:32-59, 85-112, 145-162;         *)
(* RoomHandler.cpp:75-88).                                                 *)
THEOREM RoomsAgree == Spec => []RoomAgrees
<1>1. Inv /\ DialogueInv => RoomAgrees
  <2> SUFFICES ASSUME DialogueInv, wrong = {}, m_connected, pc["Input"] \in {"menu", "prompt"}
               PROVE  m_current_room_code = Known
    BY DEF RoomAgrees
  <2>1. OneAnswer /\ ~Waiting
    BY DEF DialogueInv, Clean, Waiting, ReadingStates
  <2> QED BY <2>1 DEF OneAnswer, Agree
<1> QED BY <1>1, Dialogue, PTL

-----------------------------------------------------------------------------
(* Every step of the client is one of the orderly peer's, or none.         *)
Astray == wrong # {} \/ cut = "more"

LEMMA AstrayStays ==
  ASSUME Inv, Next, Astray
  PROVE  Astray'
<1>1. ASSUME NEW t \in Threads, Receive(t) PROVE Astray'
  BY <1>1 DEF Astray, Receive, CallRecv, RecvHeader, RecvText, RecvPayload, RecvRest, EndOfStream, Takes,
     wireVars, history
<1>2. CASE User \/ EndInput \/ StrayChoice \/ BrokenPipe
  BY <1>2 DEF Astray, User, RegisterNickname, CreateRoom, JoinRoom, Ask, ExitRoom, Enter, Stops, Leave, EndInput,
     StrayChoice, BrokenPipe, wireVars, history
<1>3. CASE InputRuns \/ ReceiverRuns
  BY <1>3 DEF Astray, InputRuns, ConnectToServer, EndChat, Stops, OnNicknameAnswer, OnRoomAnswer, OnExitAnswer,
     StopReceiving, JoinReceiver, ReceiverRuns, StartReceiving, ReceiveLoop, OnMessage, EndLoop, wireVars, history
<1>4. CASE Server \/ HangUp \/ \E type \in Chatter : Talk(type)
  BY <1>4 DEF Astray, Server, Handle, Deliver, HangUp, Talk, wireVars, history
<1> QED BY <1>1, <1>2, <1>3, <1>4 DEF Astray, Next, Rest, vars, wireVars, history

(* Where the peer is depends on nothing else.                              *)
LEMMA PeerStays ==
  ASSUME UNCHANGED <<asked, m_connected, stdin, hangup>>, ~Astray, ~Astray', ~hangup,
         pc["Input"] # "start", pc'["Input"] # "start", Waiting' <=> Waiting,
         pc'["Input"] = "nickname" <=> pc["Input"] = "nickname",
         m_connected /\ stdin # "closed" /\ asked # "EXIT" => (pc'["Receiver"] = "none" <=> pc["Receiver"] = "none")
  PROVE  PeerState' = PeerState
BY DEF PeerState, Astray

Stutters == UNCHANGED <<PeerState, asked>>

LEMMA ReceiveIsOrderly ==
  ASSUME Inv, DialogueInv, NEW t \in Threads, Receive(t), ~Astray, ~Astray', ~hangup
  PROVE  Stutters
<1>1. pc \in [Threads -> InputStates \cup ReceiverStates] /\ (pc["Input"] = "start" => pc["Receiver"] = "none")
  BY DEF Inv, TypeOK, ThreadType, LobbyReadsAlone, InChat, ReadingStates
<1>2. pc[t] \in ReadingStates /\ pc["Input"] # "start" /\ UNCHANGED <<asked, stdin, hangup>>
  BY <1>1 DEF Receive, CallRecv, RecvHeader, RecvText, RecvPayload, RecvRest, EndOfStream, ReadingStates,
     Threads, clientVars, wireVars
<1>3. CASE ~m_connected
  <2>1. ~m_connected'
    BY <1>3 DEF Receive, CallRecv, RecvHeader, RecvText, RecvPayload, RecvRest, EndOfStream, Close, clientVars
  <2>2. pc'["Input"] # "start"
    BY <1>1, <1>2 DEF Receive, CallRecv, RecvHeader, RecvText, RecvPayload, RecvRest, EndOfStream,
       Takes, Fails, AfterFailure, Go, Threads
  <2> QED BY <1>2, <1>3, <2>1, <2>2 DEF Stutters, PeerState, Astray
<1>4. CASE m_connected
  <2>1. \E s \in ReadingStates \cup {"answer"} : pc' = [pc EXCEPT ![t] = s] /\ m_connected' = m_connected
    BY <1>4 DEF Receive, CallRecv, RecvHeader, RecvText, RecvPayload, RecvRest, EndOfStream, Takes, Go,
       Astray, clientVars, ReadingStates
  <2>2. /\ Waiting' <=> Waiting
        /\ pc'["Input"] # "start" /\ m_connected' = m_connected
        /\ pc'["Input"] = "nickname" <=> pc["Input"] = "nickname"
        /\ pc'["Receiver"] = "none" <=> pc["Receiver"] = "none"
    BY <1>1, <1>2, <2>1 DEF Waiting, Threads, ReadingStates
  <2> QED BY <1>2, <2>2, PeerStays DEF Stutters
<1> QED BY <1>3, <1>4

PeerStep == Peer!Next \/ Peer!InVain \/ Stutters

LEMMA UserIsOrderly ==
  ASSUME Inv, DialogueInv, User \/ StrayChoice, ~Astray, ~Astray', ~hangup
  PROVE  PeerStep
<1> USE DEF Prompted, PeerStep
<1>1. pc \in [Threads -> InputStates \cup ReceiverStates] /\ "Input" \in Threads /\ hangup' = hangup
  BY DEF Inv, TypeOK, ThreadType, Threads, User, StrayChoice, RegisterNickname, CreateRoom, JoinRoom, Ask,
     ExitRoom, Enter, Stops, Leave, wireVars
<1>2. /\ m_connected => Placed
      /\ pc["Input"] \in {"nickname", "menu"} => pc["Receiver"] = "none"
  BY DEF DialogueInv, Clean, Astray, Settled, Inv, LobbyReadsAlone, InChat, ReadingStates
<1>3. ASSUME NEW type \in RequestTypes, NEW code, Ask(type, code), PeerState =
               CASE type = "REGISTER" -> "anon"
                 [] type \in {"CREATE", "JOIN"} -> "lobby"
                 [] type = "EXIT" -> "chat"
      PROVE  Peer!Ask(type)
  <2>1. pc'["Input"] = "header" /\ m_connected' /\ asked' = type
    BY <1>1, <1>3 DEF Ask, Go, clientVars
  <2>2. PeerState' = "waiting"
    BY <1>1, <2>1 DEF PeerState, Astray, Waiting, ReadingStates
  <2> QED BY <1>3, <2>1, <2>2 DEF Peer!Ask, Peer!Asks
<1>4. CASE RegisterNickname
  <2>1. PeerState = "anon"
    BY <1>4 DEF RegisterNickname, Ask, PeerState, Astray, Waiting, ReadingStates
  <2> QED BY <1>3, <1>4, <2>1 DEF RegisterNickname, RequestTypes, Peer!Next, Peer!RequestTypes
<1>5. CASE CreateRoom \/ \E code \in Codes : JoinRoom(code)
  <2>1. PeerState = "lobby"
    BY <1>2, <1>5 DEF CreateRoom, JoinRoom, Ask, PeerState, Astray, Waiting, ReadingStates
  <2> QED BY <1>3, <1>5, <2>1 DEF CreateRoom, JoinRoom, RequestTypes, Peer!Next, Peer!RequestTypes
<1>6. CASE ExitRoom
  <2>1. m_current_room_code # NoCode /\ Ask("EXIT", NoCode)
    BY <1>2, <1>6 DEF ExitRoom, Placed
  <2>2. PeerState = "chat"
    BY <1>2, <1>6, <2>1 DEF ExitRoom, Placed, PeerState, Astray, Waiting, ReadingStates
  <2> QED BY <1>3, <2>1, <2>2 DEF RequestTypes, Peer!Next, Peer!RequestTypes
<1>7. CASE Enter
  BY <1>1, <1>7 DEF Enter, Stops, Go, Stutters, PeerState, Astray, clientVars
<1>8. CASE Leave \/ StrayChoice
  <2>1. pc'["Input"] = "done" /\ ~m_connected' /\ asked' = asked /\ pc["Input"] \in {"nickname", "menu"}
        /\ (m_connected => pc["Input"] = "menu")
    BY <1>1, <1>8 DEF Leave, StrayChoice, Go, Close
  <2>2. PeerState' = "gone"
    BY <1>1, <2>1 DEF PeerState, Astray
  <2>3. PeerState \in {"gone", "lobby", "silent"}
    BY <1>2, <2>1 DEF PeerState, Astray, Waiting, ReadingStates
  <2> QED BY <2>1, <2>2, <2>3 DEF Stutters, Peer!Next, Peer!Leave, Peer!Between
<1> QED BY <1>4, <1>5, <1>6, <1>7, <1>8 DEF User

LEMMA AnswersAreOrderly ==
  ASSUME Inv, Inv', DialogueInv, OnNicknameAnswer \/ OnRoomAnswer \/ OnExitAnswer, ~Astray, ~Astray', ~hangup
  PROVE  PeerStep
<1>1. /\ pc["Input"] = "answer" /\ UNCHANGED <<asked, m_connected, stdin, wireVars>>
      /\ pc'["Input"] \in {"nickname", "menu", "prompt", "stop"}
      /\ pc'["Input"] = "nickname" => asked = "REGISTER"
  BY DEF Inv, TypeOK, ThreadType, Threads, InputStates, ReadingStates, clientVars, Answered,
     OnNicknameAnswer, OnRoomAnswer, OnExitAnswer, StartChatSession, Go
<1>2. CASE ~m_connected
  BY <1>1, <1>2 DEF PeerStep, Stutters, PeerState, Astray, wireVars
<1>3. CASE m_connected
  <2>1. PeerState = "waiting"
    BY <1>1, <1>3 DEF PeerState, Astray, Waiting
  <2>2. PeerState' = IF stdin = "closed" THEN "silent"
                     ELSE IF pc'["Input"] = "nickname" THEN "anon"
                     ELSE IF pc'["Receiver"] = "none" \/ asked = "EXIT" THEN "lobby" ELSE "chat"
    BY <1>1, <1>3 DEF PeerState, Astray, Waiting, ReadingStates, wireVars
  <2>3. pc'["Input"] = "menu" => pc'["Receiver"] = "none"
    BY DEF Inv, LobbyReadsAlone, InChat, ReadingStates
  <2>4. PeerState' \in Peer!Believes \cup {"silent"}
    <3>1. CASE OnNicknameAnswer
      <4>1. asked = "REGISTER" /\ pc'["Input"] \in {"nickname", "menu"}
        BY <3>1 DEF OnNicknameAnswer, Answered, Go, Inv, TypeOK, ThreadType, Threads
      <4> QED BY <2>2, <2>3, <4>1 DEF Peer!Believes
    <3>2. CASE OnRoomAnswer
      <4>1. asked \in {"CREATE", "JOIN"}
        BY <3>2 DEF OnRoomAnswer, Answered
      <4> QED BY <1>1, <2>2, <4>1 DEF Peer!Believes
    <3>3. CASE OnExitAnswer
      <4>1. asked = "EXIT" /\ pc'["Input"] = "stop"
        BY <3>3 DEF OnExitAnswer, Answered, Go, Inv, TypeOK, ThreadType, Threads
      <4> QED BY <2>2, <4>1 DEF Peer!Believes
    <3> QED BY <3>1, <3>2, <3>3
  <2> QED BY <1>1, <2>1, <2>4 DEF PeerStep, Peer!Next, Peer!Answered
<1> QED BY <1>2, <1>3

LEMMA OthersAreOrderly ==
  ASSUME Inv, DialogueInv, ~Astray, ~Astray', ~hangup, ~hangup',
         \/ ConnectToServer \/ EndChat \/ StopReceiving \/ JoinReceiver \/ EndInput \/ BrokenPipe
         \/ ReceiverRuns \/ Server \/ HangUp \/ \E type \in Chatter : Talk(type)
  PROVE  PeerStep
<1> USE DEF PeerStep
<1>1. pc \in [Threads -> InputStates \cup ReceiverStates] /\ "Input" \in Threads
  BY DEF Inv, TypeOK, ThreadType, Threads
<1>2. CASE ConnectToServer
  <2>1. /\ pc["Input"] = "start" /\ asked' = asked
        /\ \/ pc'["Input"] = "nickname" /\ m_connected'
           \/ pc'["Input"] = "done" /\ m_connected' = m_connected
    BY <1>1, <1>2 DEF ConnectToServer, Go
  <2>2. ~m_connected /\ stdin = "open"
    BY <2>1 DEF DialogueInv, Clean, Astray, Settled, Placed
  <2>3. PeerState = "off" /\ PeerState' \in {"anon", "gone"}
    BY <1>2, <2>1, <2>2 DEF ConnectToServer, PeerState, Astray, Waiting, ReadingStates
  <2> QED BY <2>1, <2>3 DEF Peer!Next, Peer!Connect
<1>3. CASE EndChat \/ StopReceiving \/ JoinReceiver
  <2>1. /\ pc["Input"] \in {"prompt", "stop", "join"} /\ pc'["Input"] \in {"stop", "join", "menu"}
        /\ UNCHANGED <<asked, m_connected, stdin, hangup>>
        /\ EndChat => stdin = "closed"
        /\ JoinReceiver => pc["Input"] = "join"
        /\ JoinReceiver \/ pc'["Receiver"] = pc["Receiver"] \/ EndChat
    BY <1>1, <1>3 DEF EndChat, Stops, StopReceiving, JoinReceiver, Go, clientVars, wireVars, Threads
  <2>2. JoinReceiver /\ m_connected /\ stdin # "closed" => asked = "EXIT"
    BY <2>1 DEF DialogueInv, Clean, Astray, Settled, Placed, Inv, TypeOK, ClientType
  <2> QED BY <2>1, <2>2, PeerStays DEF Stutters, Waiting, ReadingStates
<1>4. CASE EndInput
  <2>1. /\ UNCHANGED <<pc, asked, m_connected, hangup>> /\ stdin = "open" /\ stdin' = "closed"
        /\ pc["Input"] # "start"
    BY <1>4 DEF EndInput, threadVars, wireVars
  <2>2. CASE ~m_connected \/ Waiting
    BY <2>1, <2>2 DEF Stutters, PeerState, Astray, Waiting
  <2>3. CASE m_connected /\ ~Waiting
    <3>1. PeerState' = "silent" /\ PeerState \in Peer!Between
      BY <2>1, <2>3 DEF PeerState, Astray, Waiting, Peer!Between
    <3> QED BY <2>1, <3>1 DEF Peer!Next, Peer!FallsSilent
  <2> QED BY <2>2, <2>3
<1>5. CASE Server \/ \E type \in Chatter : Talk(type)
  <2>1. UNCHANGED <<pc, asked, m_connected, stdin, hangup>>
    BY <1>5 DEF Server, Handle, Deliver, Talk, threadVars, clientVars, wireVars
  <2> QED BY <2>1 DEF Stutters, PeerState, Astray, Waiting
<1>6. CASE ReceiverRuns
  <2>1. pc'["Input"] = pc["Input"] /\ UNCHANGED <<asked, m_connected, stdin, hangup>>
        /\ pc["Receiver"] # "none" /\ pc'["Receiver"] # "none"
    BY <1>1, <1>6 DEF ReceiverRuns, StartReceiving, ReceiveLoop, OnMessage, EndLoop, Go, clientVars, wireVars, Threads
  <2> QED BY <2>1 DEF Stutters, PeerState, Astray, Waiting
<1> QED BY <1>2, <1>3, <1>4, <1>5, <1>6 DEF BrokenPipe, HangUp

LEMMA OnlyHangUp ==
  ASSUME Next
  PROVE  HangUp \/ hangup' = hangup
<1>1. ASSUME NEW t \in Threads, Receive(t) PROVE hangup' = hangup
  BY <1>1 DEF Receive, CallRecv, RecvHeader, RecvText, RecvPayload, RecvRest, EndOfStream, wireVars
<1>2. CASE User \/ EndInput \/ StrayChoice \/ BrokenPipe
  BY <1>2 DEF User, RegisterNickname, CreateRoom, JoinRoom, Ask, ExitRoom, Enter, Stops, Leave, EndInput,
     StrayChoice, BrokenPipe, wireVars
<1>3. CASE InputRuns \/ ReceiverRuns
  BY <1>3 DEF InputRuns, ConnectToServer, EndChat, Stops, OnNicknameAnswer, OnRoomAnswer, OnExitAnswer,
     StopReceiving, JoinReceiver, ReceiverRuns, StartReceiving, ReceiveLoop, OnMessage, EndLoop, wireVars
<1>4. CASE Server \/ \E type \in Chatter : Talk(type)
  BY <1>4 DEF Server, Handle, Deliver, Talk, wireVars
<1> QED BY <1>1, <1>2, <1>3, <1>4 DEF Next, Rest, vars, wireVars

(* Once the server has dropped it, the client may ask in vain.             *)
LEMMA DroppedIsOrderly ==
  ASSUME Inv, Inv', DialogueInv, DialogueInv', Next, ~Astray, ~Astray', hangup'
  PROVE  PeerStep
<1>1. pc'["Input"] # "start" /\ (hangup => pc["Input"] # "start")
  BY DEF DialogueInv, Clean, Astray, Settled, Placed
<1>2. PeerState' = "dropped" /\ asked' \in RequestTypes
  BY <1>1 DEF PeerState, Astray, Inv, TypeOK, ThreadType
<1>3. CASE HangUp
  <2>1. pc["Input"] # "start" /\ asked' = asked
    BY <1>3 DEF HangUp, threadVars
  <2>2. PeerState # "off"
    BY <2>1 DEF PeerState
  <2> QED BY <1>2, <2>1, <2>2 DEF PeerStep, Peer!Next, Peer!Dropped
<1>4. CASE hangup
  <2>1. PeerState = "dropped"
    BY <1>1, <1>4 DEF PeerState, Astray
  <2> QED BY <1>2, <2>1 DEF PeerStep, Peer!InVain, Peer!RequestTypes, RequestTypes
<1> QED BY <1>3, <1>4, OnlyHangUp

(* The client is the orderly peer of ChatServer, for any number of         *)
(* requests, rooms and messages of others, until one of its two threads    *)
(* reads what was meant for the other (Lobby.cpp:31-248).                  *)
THEOREM ClientImplementsOrderlyPeer == Spec => ClientIsOrderly
<1>1. Init => Peer!Init
  BY DEF Init, Peer!Init, PeerState, Peer!RequestTypes, Threads
<1>2. (Inv /\ DialogueInv) /\ (Inv /\ DialogueInv)' /\ [Next]_vars => [Peer!Next \/ Peer!InVain]_(Peer!vars)
  <2> SUFFICES ASSUME Inv, DialogueInv, Inv', DialogueInv', [Next]_vars PROVE PeerStep
    BY DEF PeerStep, Stutters, Peer!vars
  <2>1. CASE UNCHANGED vars
    BY <2>1 DEF vars, threadVars, clientVars, wireVars, history, PeerStep, Stutters, PeerState, Waiting
  <2>2. CASE Next /\ Astray'
    <3>1. PeerState' = "astray" /\ asked' \in RequestTypes
      BY <2>2 DEF Astray, PeerState, Inv, TypeOK, ThreadType
    <3> QED BY <3>1 DEF PeerStep, Peer!Next, Peer!Strays, Peer!RequestTypes, RequestTypes
  <2>3. CASE Next /\ ~Astray' /\ hangup'
    BY <2>3, AstrayStays, DroppedIsOrderly
  <2>4. CASE Next /\ ~Astray' /\ ~hangup'
    <3>1. ~Astray /\ ~hangup
      <4>1. hangup \in BOOLEAN /\ (HangUp => ~hangup)
        BY DEF Inv, TypeOK, WireType, HangUp
      <4>2. HangUp => hangup'
        BY DEF HangUp
      <4> QED BY <2>4, <4>1, <4>2, AstrayStays, OnlyHangUp
    <3>2. ASSUME Rest PROVE PeerStep
      BY <2>1, <3>2 DEF Rest
    <3> QED
      BY <2>4, <3>1, <3>2, ReceiveIsOrderly, UserIsOrderly, AnswersAreOrderly, OthersAreOrderly
      DEF Next, InputRuns, PeerStep
  <2> QED BY <2>1, <2>2, <2>3, <2>4
<1> QED BY <1>1, <1>2, Dialogue, PTL DEF Spec, ClientIsOrderly, Peer!Spec

-----------------------------------------------------------------------------
(* What was displayed.  News is a recursive function: what it says of the  *)
(* packets read so far is carried along by the steps that read them.       *)
Follows(f, s, n, lost) ==
  f = [i \in 0 .. n |-> IF i = 0 THEN <<>>
                        ELSE IF IsNews(s[i], lost) THEN Append(f[i - 1], s[i].n) ELSE f[i - 1]]

TellsAt(f, s, i, lost) ==
  f[i] = IF i = 0 THEN <<>> ELSE IF IsNews(s[i], lost) THEN Append(f[i - 1], s[i].n) ELSE f[i - 1]

Tells(s, n, lost, e) ==
  /\ \E f : Follows(f, s, n, lost)
  /\ \A f : Follows(f, s, n, lost) => f[n] = e

LEMMA FollowsAt ==
  ASSUME NEW f, NEW s, NEW n \in Nat, NEW lost, Follows(f, s, n, lost), NEW i \in 0 .. n
  PROVE  TellsAt(f, s, i, lost)
<1> DEFINE g == [j \in 0 .. n |-> IF j = 0 THEN <<>>
                        ELSE IF IsNews(s[j], lost) THEN Append(f[j - 1], s[j].n) ELSE f[j - 1]]
<1>1. f = g
  BY DEF Follows
<1>2. g[i] = IF i = 0 THEN <<>>
             ELSE IF IsNews(s[i], lost) THEN Append(f[i - 1], s[i].n) ELSE f[i - 1]
  OBVIOUS
<1> HIDE DEF g
<1> QED BY <1>1, <1>2 DEF TellsAt

LEMMA FollowsWhen ==
  ASSUME NEW f, NEW s, NEW n \in Nat, NEW lost, f = [i \in 0 .. n |-> f[i]],
         \A i \in 0 .. n : TellsAt(f, s, i, lost)
  PROVE  Follows(f, s, n, lost)
BY DEF Follows, TellsAt

LEMMA TellsNews ==
  ASSUME NEW s, NEW n, NEW lost, NEW e, Tells(s, n, lost, e)
  PROVE  News(s, n, lost) = e
<1> DEFINE h == CHOOSE f : f = [i \in 0 .. n |->
                                  IF i = 0 THEN <<>>
                                  ELSE IF IsNews(s[i], lost) THEN Append(f[i - 1], s[i].n) ELSE f[i - 1]]
<1>1. Follows(h, s, n, lost)
  BY DEF Tells, Follows
<1>2. News(s, n, lost) = h[n]
  BY DEF News
<1> HIDE DEF h
<1> QED BY <1>1, <1>2 DEF Tells

LEMMA TellsNothing ==
  ASSUME NEW s, NEW lost
  PROVE  Tells(s, 0, lost, <<>>)
<1>1. Follows([i \in 0 .. 0 |-> <<>>], s, 0, lost)
  BY DEF Follows
<1>2. ASSUME NEW f, Follows(f, s, 0, lost) PROVE f[0] = <<>>
  <2>1. 0 \in Nat /\ 0 \in 0 .. 0
    OBVIOUS
  <2>2. TellsAt(f, s, 0, lost)
    BY <1>2, <2>1, FollowsAt
  <2> QED BY <2>2 DEF TellsAt
<1> QED BY <1>1, <1>2 DEF Tells

LEMMA TellsSame ==
  ASSUME NEW s, NEW t, NEW n \in Nat, NEW lost, NEW gone, NEW e, Tells(s, n, lost, e),
         \A i \in 1 .. n : t[i] = s[i] /\ (IsNews(s[i], gone) <=> IsNews(s[i], lost))
  PROVE  Tells(t, n, gone, e)
<1>1. \A f : Follows(f, s, n, lost) <=> Follows(f, t, n, gone)
  <2> TAKE f
  <2>1. ASSUME NEW i \in 0 .. n
        PROVE  (IF i = 0 THEN <<>> ELSE IF IsNews(s[i], lost) THEN Append(f[i - 1], s[i].n) ELSE f[i - 1])
                 = (IF i = 0 THEN <<>> ELSE IF IsNews(t[i], gone) THEN Append(f[i - 1], t[i].n) ELSE f[i - 1])
    <3>1. i = 0 \/ i \in 1 .. n
      OBVIOUS
    <3> QED BY <3>1
  <2> QED BY <2>1 DEF Follows
<1> QED BY <1>1 DEF Tells

LEMMA TellsMore ==
  ASSUME NEW s, NEW n \in Nat, NEW lost, NEW e, Tells(s, n, lost, e)
  PROVE  Tells(s, n + 1, lost, IF IsNews(s[n + 1], lost) THEN Append(e, s[n + 1].n) ELSE e)
<1> DEFINE d == IF IsNews(s[n + 1], lost) THEN Append(e, s[n + 1].n) ELSE e
<1>1. \E g : Follows(g, s, n + 1, lost)
  <2>1. PICK f : Follows(f, s, n, lost)
    BY DEF Tells
  <2>2. f[n] = e
    BY <2>1 DEF Tells
  <2> DEFINE g == [i \in 0 .. n + 1 |-> IF i = n + 1 THEN d ELSE f[i]]
  <2> HIDE DEF d
  <2>3. g = [i \in 0 .. n + 1 |-> g[i]]
    OBVIOUS
  <2>4. ASSUME NEW i \in 0 .. n + 1
        PROVE  TellsAt(g, s, i, lost)
    <3>1. CASE i = n + 1
      <4>1. g[i] = d /\ i # 0 /\ g[i - 1] = e
        BY <2>2, <3>1
      <4> QED BY <3>1, <4>1 DEF d, TellsAt
    <3>2. CASE i # n + 1
      <4>1. i \in 0 .. n /\ g[i] = f[i] /\ (i # 0 => g[i - 1] = f[i - 1])
        BY <3>2
      <4> HIDE DEF g
      <4>2. TellsAt(f, s, i, lost)
        BY <2>1, <4>1, FollowsAt
      <4> QED BY <4>1, <4>2 DEF TellsAt
    <3> QED BY <3>1, <3>2
  <2> HIDE DEF g
  <2> QED BY <2>3, <2>4, FollowsWhen
<1>2. ASSUME NEW g, Follows(g, s, n + 1, lost) PROVE g[n + 1] = d
  <2> DEFINE f == [i \in 0 .. n |-> g[i]]
  <2>1. n + 1 \in Nat /\ n \in 0 .. n + 1 /\ n + 1 \in 0 .. n + 1 /\ n + 1 # 0 /\ (n + 1) - 1 = n
    OBVIOUS
  <2>2. g[n + 1] = IF IsNews(s[n + 1], lost) THEN Append(g[n], s[n + 1].n) ELSE g[n]
    <3>1. PICK m \in Nat : m = n + 1
      BY <2>1
    <3>2. TellsAt(g, s, m, lost)
      BY <1>2, <2>1, <3>1, FollowsAt
    <3> QED BY <2>1, <3>1, <3>2 DEF TellsAt
  <2>3. f = [i \in 0 .. n |-> f[i]]
    OBVIOUS
  <2>4. ASSUME NEW i \in 0 .. n
        PROVE  TellsAt(f, s, i, lost)
    <3>1. f[i] = g[i] /\ (i # 0 => f[i - 1] = g[i - 1]) /\ i \in 0 .. n + 1 /\ n + 1 \in Nat
      OBVIOUS
    <3> HIDE DEF f
    <3>2. TellsAt(g, s, i, lost)
      <4>1. PICK m \in Nat : m = n + 1
        BY <3>1
      <4>2. Follows(g, s, m, lost) /\ i \in 0 .. m
        BY <1>2, <3>1, <4>1
      <4> QED BY <4>1, <4>2, FollowsAt
    <3> QED BY <3>1, <3>2 DEF TellsAt
  <2>5. f[n] = g[n]
    OBVIOUS
  <2> HIDE DEF f
  <2>6. Follows(f, s, n, lost)
    BY <2>3, <2>4, FollowsWhen
  <2>7. g[n] = e
    BY <2>5, <2>6 DEF Tells
  <2> QED BY <2>2, <2>7 DEF d
<1> HIDE DEF d
<1>3. Tells(s, n + 1, lost, d)
  BY <1>1, <1>2 DEF Tells
<1> QED BY <1>3 DEF d

(* The server numbers its packets.                                         *)
Numbered ==
  /\ \A i \in 1 .. Len(stream) : stream[i].n \in 1 .. served
  /\ \A p \in outgoing : p.n \in 1 .. served
  /\ \A i, j \in 1 .. Len(stream) : stream[i].n = stream[j].n => i = j
  /\ \A p, q \in outgoing : p.n = q.n => p = q
  /\ \A p \in outgoing, i \in 1 .. Len(stream) : p.n # stream[i].n

LEMMA StaysNumbered == Inv /\ Numbered /\ [Next]_vars => Numbered'
<1> SUFFICES ASSUME Inv, Numbered, [Next]_vars PROVE Numbered'
  OBVIOUS
<1>0. stream \in Seq(Packets) /\ outgoing \subseteq Packets /\ served \in Nat
  BY DEF Inv, TypeOK, WireType, ServerType
<1>1. CASE UNCHANGED <<stream, outgoing, served>>
  BY <1>1 DEF Numbered
<1>2. ASSUME NEW type, NEW code, Makes(type, code), stream' = stream PROVE Numbered'
  <2>1. PICK p : p.n = served + 1 /\ outgoing' = outgoing \cup {p}
    BY <1>2 DEF Makes, Packet
  <2>2. served' = served + 1 /\ \A k \in 1 .. served : k \in 1 .. served' /\ k # p.n
    BY <1>0, <1>2, <2>1 DEF Makes
  <2>3. p.n \in 1 .. served'
    BY <1>0, <2>1, <2>2
  <2> QED BY <1>2, <2>1, <2>2, <2>3 DEF Numbered
<1>3. ASSUME NEW p \in outgoing, Deliver(p) PROVE Numbered'
  <2>1. outgoing' = outgoing \ {p} /\ stream' = Append(stream, p) /\ served' = served /\ p \in Packets
    BY <1>0, <1>3 DEF Deliver
  <2>2. /\ Len(stream') = Len(stream) + 1 /\ Len(stream) \in Nat /\ stream'[Len(stream) + 1] = p
        /\ \A i \in 1 .. Len(stream) : stream'[i] = stream[i]
    BY <1>0, <2>1, AppendProperties
  <2>3. \A i \in 1 .. Len(stream') : i \in 1 .. Len(stream) \/ i = Len(stream) + 1
    BY <2>2
  <2> QED BY <2>1, <2>2, <2>3 DEF Numbered
<1>4. ASSUME NEW q \in asks, Handle(q) PROVE Numbered'
  BY <1>2, <1>4 DEF Handle, Refuses, Admits, LeavesOut, wireVars
<1>5. ASSUME NEW type \in Chatter, Talk(type) PROVE Numbered'
  BY <1>2, <1>5 DEF Talk, wireVars
<1>6. CASE HangUp
  BY <1>1, <1>6 DEF HangUp, serverVars
<1>7. ASSUME NEW t \in Threads, Receive(t) PROVE Numbered'
  BY <1>1, <1>7
  DEF Receive, CallRecv, RecvHeader, RecvText, RecvPayload, RecvRest, EndOfStream, wireVars, serverVars
<1>8. CASE User \/ EndInput \/ StrayChoice \/ BrokenPipe
  <2>1. UNCHANGED <<stream, outgoing, served>>
    BY <1>8
    DEF User, EndInput, StrayChoice, BrokenPipe, RegisterNickname, CreateRoom, JoinRoom, ExitRoom, Enter, Leave,
        Ask, Stops, wireVars, serverVars
  <2> QED BY <1>1, <2>1
<1>9. CASE InputRuns \/ ReceiverRuns
  <2>1. UNCHANGED <<stream, outgoing, served>>
    BY <1>9
    DEF InputRuns, ReceiverRuns, ConnectToServer, EndChat, Stops, OnNicknameAnswer, OnRoomAnswer, OnExitAnswer,
        StopReceiving, JoinReceiver, StartReceiving, ReceiveLoop, OnMessage, EndLoop, wireVars, serverVars
  <2> QED BY <1>1, <2>1
<1>10. CASE UNCHANGED vars
  BY <1>1, <1>10 DEF vars, wireVars, serverVars
<1> QED BY <1>3, <1>4, <1>5, <1>6, <1>7, <1>8, <1>9, <1>10 DEF Next, Server, Rest

(* As long as no header was mixed up: what was taken by the wrong thread   *)
(* has been read, and what the receiver has read of the rest is displayed. *)
Mistaken == wrong \subseteq {stream[i].n : i \in 1 .. readTo}

Told == pc["Receiver"] # "killed" => Tells(stream, readTo, wrong, OnDisplay)

DisplayInv == cut # "more" => InStep /\ Mistaken /\ Told

LEMMA DisplaySame ==
  ASSUME Inv, DisplayInv, UNCHANGED <<readTo, wrong, shown>>,
         cut' # "more" => cut # "more" /\ InStep',
         \A i \in 1 .. readTo : stream'[i] = stream[i],
         pc'["Receiver"] # "killed" => pc["Receiver"] # "killed",
         pc'["Receiver"] = "answer" <=> pc["Receiver"] = "answer",
         pc["Receiver"] = "answer" => got'["Receiver"] = got["Receiver"]
  PROVE  DisplayInv'
<1> SUFFICES ASSUME cut' # "more" PROVE InStep' /\ Mistaken' /\ Told'
  BY DEF DisplayInv
<1>1. InStep' /\ Mistaken /\ Told
  BY DEF DisplayInv
<1>2. Mistaken'
  BY <1>1 DEF Mistaken
<1>3. OnDisplay' = OnDisplay
  BY DEF OnDisplay, Shows
<1>4. Told'
  <2> SUFFICES ASSUME pc'["Receiver"] # "killed" PROVE Tells(stream', readTo', wrong', OnDisplay')
    BY DEF Told
  <2>1. Tells(stream, readTo, wrong, OnDisplay) /\ readTo \in Nat
    BY <1>1 DEF Told, Inv, TypeOK, WireType
  <2>2. \A i \in 1 .. readTo : stream'[i] = stream[i] /\ (IsNews(stream[i], wrong) <=> IsNews(stream[i], wrong))
    OBVIOUS
  <2>3. Tells(stream', readTo, wrong, OnDisplay)
    BY <2>1, <2>2, TellsSame
  <2> QED BY <1>3, <2>3
<1> QED BY <1>1, <1>2, <1>4

LEMMA TakesInOrder ==
  ASSUME Inv, Numbered, DisplayInv, NEW t \in Threads, pc[t] \in {"inHeader", "inPayload"},
         Takes(t, Upcoming), readTo < Len(stream), cut # "more", cut' = "none",
         pc[t] = "inHeader" => cut = "none", UNCHANGED <<stream, shown>>
  PROVE  DisplayInv'
<1> DEFINE p == Upcoming
           k == readTo + 1
<1>1. /\ pc' = [pc EXCEPT ![t] = "answer"] /\ got' = [got EXCEPT ![t] = p] /\ readTo' = k
      /\ wrong' = IF MeantFor(p) = t THEN wrong ELSE wrong \cup {p.n}
  BY DEF Takes, Go
<1>2. /\ pc \in [Threads -> InputStates \cup ReceiverStates]
      /\ got \in [Threads -> Packets \cup {NoPacket}]
      /\ stream \in Seq(Packets) /\ readTo \in Nat /\ k \in 1 .. Len(stream) /\ p = stream[k]
  BY DEF Inv, TypeOK, ThreadType, WireType, Upcoming
<1>3. InStep /\ Mistaken /\ Told
  BY DEF DisplayInv
<1> HIDE DEF p
<1>4. InStep'
  <2>1. \A u \in Threads : ~Between(u)'
    BY <1>1, <1>2, <1>3 DEF InStep, Between
  <2> QED BY <2>1 DEF InStep
<1>5. Mistaken'
  <2>1. \A i \in 1 .. readTo : i \in 1 .. k
    BY <1>2
  <2> QED BY <1>1, <1>2, <1>3, <2>1 DEF Mistaken
<1>6. /\ p.n \notin wrong /\ p.n # 0
      /\ \A i \in 1 .. readTo : stream[i].n # p.n
  <2>1. \A i \in 1 .. readTo : i \in 1 .. Len(stream) /\ i # k
    BY <1>2
  <2>2. \A i \in 1 .. readTo : stream[i].n # p.n
    BY <1>2, <2>1 DEF Numbered
  <2>3. p.n \in 1 .. served
    BY <1>2 DEF Numbered
  <2> QED BY <1>3, <2>2, <2>3 DEF Mistaken
<1>7. pc["Receiver"] # "killed" =>
        Tells(stream, k, wrong', IF IsNews(p, wrong') THEN Append(OnDisplay, p.n) ELSE OnDisplay)
  <2> SUFFICES ASSUME pc["Receiver"] # "killed"
               PROVE  Tells(stream, k, wrong', IF IsNews(p, wrong') THEN Append(OnDisplay, p.n) ELSE OnDisplay)
    OBVIOUS
  <2>1. Tells(stream, readTo, wrong, OnDisplay)
    BY <1>3 DEF Told
  <2>2. \A i \in 1 .. readTo : stream[i] = stream[i] /\ (IsNews(stream[i], wrong') <=> IsNews(stream[i], wrong))
    BY <1>1, <1>6 DEF IsNews
  <2>3. Tells(stream, readTo, wrong', OnDisplay)
    BY <1>2, <2>1, <2>2, TellsSame
  <2>4. Tells(stream, readTo + 1, wrong',
              IF IsNews(stream[readTo + 1], wrong') THEN Append(OnDisplay, stream[readTo + 1].n) ELSE OnDisplay)
    BY <1>2, <2>3, TellsMore
  <2> QED BY <1>2, <2>4
<1>8. p.type \in Displayed => MeantFor(p) = "Receiver"
  BY NewsAreNoAnswers DEF MeantFor
<1>9. CASE t = "Receiver"
  <2>1. pc["Receiver"] # "killed" /\ OnDisplay = shown
    BY <1>9 DEF OnDisplay
  <2>2. pc'["Receiver"] = "answer" /\ got'["Receiver"] = p
    BY <1>1, <1>2, <1>9
  <2>3. OnDisplay' = IF Shows(p) THEN Append(shown, p.n) ELSE shown
    BY <2>2 DEF OnDisplay, Shows
  <2>4. Shows(p) <=> IsNews(p, wrong')
    BY <1>1, <1>6, <1>8, <1>9 DEF Shows, IsNews
  <2> QED BY <1>1, <1>4, <1>5, <1>7, <2>1, <2>3, <2>4 DEF DisplayInv, Told
<1>10. CASE t = "Input"
  <2>1. pc'["Receiver"] = pc["Receiver"] /\ got'["Receiver"] = got["Receiver"]
    BY <1>1, <1>2, <1>10 DEF Threads
  <2>2. OnDisplay' = OnDisplay
    BY <2>1 DEF OnDisplay, Shows
  <2>3. ~IsNews(p, wrong')
    BY <1>1, <1>8, <1>10 DEF IsNews
  <2> QED BY <1>1, <1>4, <1>5, <1>7, <2>1, <2>2, <2>3 DEF DisplayInv, Told
<1> QED BY <1>9, <1>10 DEF Threads

LEMMA ReceiveInOrder ==
  ASSUME Inv, Numbered, DisplayInv, NEW t \in Threads, Receive(t)
  PROVE  DisplayInv'
<1>1. /\ pc \in [Threads -> InputStates \cup ReceiverStates]
      /\ got \in [Threads -> Packets \cup {NoPacket}]
  BY DEF Inv, TypeOK, ThreadType
<1>2. ASSUME NEW s, pc' = [pc EXCEPT ![t] = s], s \notin {"answer", "killed"}, pc[t] \in ReadingStates,
             UNCHANGED <<stream, readTo, wrong, shown>>, cut' # "more" => cut # "more" /\ InStep'
      PROVE  DisplayInv'
  <2>1. /\ pc[t] \notin {"answer", "killed"} /\ pc'[t] = s
        /\ \A u \in Threads : u # t => pc'[u] = pc[u]
    BY <1>1, <1>2 DEF ReadingStates
  <2>2. ASSUME pc["Receiver"] = "answer" PROVE got'["Receiver"] = got["Receiver"]
    <3>1. t = "Input"
      BY <2>1, <2>2 DEF Threads
    <3> QED BY <1>1, <3>1 
    DEF Receive, CallRecv, RecvHeader, RecvText, RecvPayload, RecvRest, EndOfStream, Fails, Takes, Threads
  <2> QED BY <1>2, <2>1, <2>2, DisplaySame DEF Threads
<1>3. ASSUME Fails(t), pc[t] \in ReadingStates, UNCHANGED <<stream, readTo, wrong, shown>>,
             cut' = "more" \/ cut' = cut
      PROVE  DisplayInv'
  <2>1. AfterFailure(t) \notin {"answer", "killed", "payload", "inPayload"}
    BY DEF AfterFailure
  <2>2. pc' = [pc EXCEPT ![t] = AfterFailure(t)] /\ got' = [got EXCEPT ![t] = NoPacket]
    BY <1>3 DEF Fails, Go
  <2>3. \A u \in Threads : Between(u)' => Between(u) /\ got'[u] = got[u]
    BY <1>1, <2>1, <2>2 DEF Between
  <2>4. cut' # "more" => cut # "more" /\ InStep'
    BY <1>3, <2>3, InStepKeeps DEF DisplayInv
  <2> QED BY <1>2, <1>3, <2>1, <2>2, <2>4
<1>4. CASE CallRecv(t)
  <2>1. pc[t] \in ReadingStates /\ UNCHANGED <<stream, readTo, cut, wrong, shown>>
    BY <1>4 DEF CallRecv, ReadingStates, wireVars, history
  <2>2. CASE ~m_connected
    BY <1>3, <1>4, <2>1, <2>2 DEF CallRecv
  <2>3. CASE m_connected
    <3> DEFINE s == IF pc[t] = "header" THEN "inHeader" ELSE "inPayload"
    <3>1. pc' = [pc EXCEPT ![t] = s] /\ got' = got /\ pc[t] \in {"header", "payload"}
      BY <1>4, <2>3 DEF CallRecv, Go
    <3>2. s \notin {"answer", "killed"}
      OBVIOUS
    <3>3. \A u \in Threads : Between(u)' => Between(u) /\ got'[u] = got[u]
      BY <1>1, <3>1 DEF Between
    <3>4. cut' # "more" => cut # "more" /\ InStep'
      BY <2>1, <3>3, InStepKeeps DEF DisplayInv
    <3> HIDE DEF s
    <3> QED BY <1>2, <2>1, <3>1, <3>2, <3>4
  <2> QED BY <2>2, <2>3
<1>5. CASE RecvHeader(t)
  <2>1. pc[t] = "inHeader" /\ readTo < Len(stream) /\ cut = "none" /\ UNCHANGED <<stream, shown>>
    BY <1>5 DEF RecvHeader
  <2>2. CASE ~HasPayload(Upcoming)
    BY <1>5, <2>1, <2>2, TakesInOrder DEF RecvHeader
  <2>3. CASE HasPayload(Upcoming)
    <3>1. /\ pc' = [pc EXCEPT ![t] = "payload"] /\ got' = [got EXCEPT ![t] = Upcoming] /\ cut' = "header"
          /\ UNCHANGED <<readTo, wrong>>
      BY <1>5, <2>3 DEF RecvHeader, Go
    <3>2. \A u \in Threads : ~Between(u)
      BY <2>1 DEF DisplayInv, InStep
    <3>3. InStep'
      <4>1. \A u \in Threads : Between(u)' => u = t
        BY <1>1, <3>1, <3>2 DEF Between
      <4>2. got'[t] = Upcoming' 
        BY <1>1, <2>1, <3>1 DEF Upcoming
      <4> QED BY <3>1, <4>1, <4>2 DEF InStep
    <3>4. pc[t] \in ReadingStates /\ "payload" \notin {"answer", "killed"}
      BY <2>1 DEF ReadingStates
    <3>5. cut' # "more" => cut # "more" /\ InStep'
      BY <2>1, <3>3
    <3>6. pc' = [pc EXCEPT ![t] = "payload"] /\ UNCHANGED <<stream, readTo, wrong, shown>>
      BY <2>1, <3>1
    <3> QED BY <1>2, <3>4, <3>5, <3>6
  <2> QED BY <2>2, <2>3
<1>6. CASE RecvText(t)
  BY <1>3, <1>6 DEF RecvText, ReadingStates, history
<1>7. CASE RecvPayload(t)
  <2>1. pc[t] = "inPayload" /\ cut = "header" /\ cut' = "none" /\ Takes(t, got[t]) /\ UNCHANGED <<stream, shown>>
    BY <1>7 DEF RecvPayload
  <2>2. got[t] = Upcoming /\ readTo < Len(stream)
    BY <2>1 DEF DisplayInv, InStep, Between, Inv, TypeOK, WireType
  <2> QED BY <2>1, <2>2, TakesInOrder
<1>8. CASE RecvRest(t)
  BY <1>8 DEF RecvRest, DisplayInv
<1>9. CASE EndOfStream(t)
  BY <1>3, <1>9 DEF EndOfStream, ReadingStates, wireVars, history
<1> QED BY <1>4, <1>5, <1>6, <1>7, <1>8, <1>9 DEF Receive

LEMMA StaysDisplayed == Inv /\ Numbered /\ DisplayInv /\ [Next]_vars => DisplayInv'
<1> SUFFICES ASSUME Inv, Numbered, DisplayInv, [Next]_vars PROVE DisplayInv'
  OBVIOUS
<1>1. /\ pc \in [Threads -> InputStates \cup ReceiverStates]
      /\ got \in [Threads -> Packets \cup {NoPacket}]
      /\ stream \in Seq(Packets) /\ readTo \in 0 .. Len(stream) /\ (cut # "none" => readTo < Len(stream))
  BY DEF Inv, TypeOK, ThreadType, WireType
<1>2. ASSUME UNCHANGED <<stream, readTo, cut, wrong, shown>>,
             \A u \in Threads : Between(u)' => Between(u) /\ got'[u] = got[u],
             pc'["Receiver"] # "killed" => pc["Receiver"] # "killed",
             pc'["Receiver"] = "answer" <=> pc["Receiver"] = "answer",
             pc["Receiver"] = "answer" => got'["Receiver"] = got["Receiver"]
      PROVE  DisplayInv'
  <2>1. cut' # "more" => cut # "more" /\ InStep'
    BY <1>2, InStepKeeps DEF DisplayInv
  <2> QED BY <1>2, <2>1, DisplaySame
<1>3. CASE User \/ EndInput \/ StrayChoice \/ ConnectToServer \/ EndChat \/ StopReceiving
  <2>1. /\ UNCHANGED <<got, stream, readTo, cut, wrong, shown>>
        /\ pc' = pc \/ \E s \in {"header", "stop", "done", "nickname", "join"} : pc' = [pc EXCEPT !["Input"] = s]
    BY <1>3
    DEF User, EndInput, StrayChoice, RegisterNickname, CreateRoom, JoinRoom, ExitRoom, Enter, Leave, EndChat,
        ConnectToServer, StopReceiving, Ask, Stops, Go, threadVars, wireVars, history
  <2>2. \A u \in Threads : Between(u)' => Between(u)
    BY <1>1, <2>1 DEF Between
  <2> QED BY <1>1, <1>2, <2>1, <2>2 DEF Threads
<1>4. CASE OnNicknameAnswer \/ OnExitAnswer \/ OnRoomAnswer
  <2>1. /\ got' = [got EXCEPT !["Input"] = NoPacket] /\ pc["Input"] = "answer"
        /\ UNCHANGED <<stream, readTo, cut, wrong, shown>>
    BY <1>4 DEF OnNicknameAnswer, OnExitAnswer, OnRoomAnswer, Discards, Answered, wireVars, history
  <2>2. CASE \E s \in {"menu", "nickname", "stop"} : pc' = [pc EXCEPT !["Input"] = s]
    BY <1>1, <1>2, <2>1, <2>2 DEF Between, Threads
  <2>3. CASE OnRoomAnswer /\ StartChatSession
    <3>1. asked \in {"CREATE", "JOIN"}
      BY <2>3 DEF OnRoomAnswer, Answered
    <3>2. pc["Receiver"] = "none"
      BY <2>1, <3>1 DEF Inv, LobbyReadsAlone, InChat, ReadingStates
    <3>3. pc' = [pc EXCEPT !["Input"] = "prompt", !["Receiver"] = "start"]
      BY <2>3, <3>2 DEF StartChatSession
    <3>4. pc'["Receiver"] = "start" /\ \A u \in Threads : ~Between(u)'
      BY <1>1, <3>3 DEF Between, Threads
    <3> QED BY <1>2, <2>1, <3>2, <3>4
  <2> QED BY <1>4, <2>2, <2>3 DEF OnNicknameAnswer, OnExitAnswer, OnRoomAnswer, Go
<1>5. CASE JoinReceiver \/ StartReceiving \/ ReceiveLoop \/ EndLoop
  <2>1. /\ UNCHANGED <<got, stream, readTo, cut, wrong, shown>>
        /\ pc["Receiver"] \in {"finished", "start", "loop", "end"}
        /\ \/ pc' = [pc EXCEPT !["Input"] = "menu", !["Receiver"] = "none"]
           \/ \E s \in {"loop", "header", "end", "finished"} : pc' = [pc EXCEPT !["Receiver"] = s]
    BY <1>5 DEF JoinReceiver, StartReceiving, ReceiveLoop, EndLoop, Go, wireVars, history
  <2>2. \A u \in Threads : Between(u)' => Between(u)
    BY <1>1, <2>1 DEF Between, Threads
  <2>3. pc'["Receiver"] \notin {"answer", "killed"}
    BY <1>1, <2>1 DEF Threads
  <2> QED BY <1>2, <2>1, <2>2, <2>3
<1>6. CASE OnMessage
  <2>1. /\ pc["Receiver"] = "answer" /\ pc' = [pc EXCEPT !["Receiver"] = "loop"]
        /\ got' = [got EXCEPT !["Receiver"] = NoPacket] /\ UNCHANGED <<stream, readTo, cut, wrong>>
        /\ shown' = OnDisplay
    BY <1>6 DEF OnMessage, Go, Discards, wireVars, OnDisplay
  <2>2. pc'["Receiver"] = "loop"
    BY <1>1, <2>1 DEF Threads
  <2>3. OnDisplay' = OnDisplay
    BY <2>1, <2>2 DEF OnDisplay
  <2>4. \A u \in Threads : Between(u)' => Between(u) /\ got'[u] = got[u]
    BY <1>1, <2>1 DEF Between
  <2>5. cut # "more" => InStep'
    BY <2>1, <2>4, InStepKeeps DEF DisplayInv
  <2> QED BY <2>1, <2>3, <2>5 DEF DisplayInv, Mistaken, Told
<1>7. CASE BrokenPipe
  <2>1. /\ pc' = [u \in Threads |-> "killed"] /\ UNCHANGED <<stream, readTo, cut, wrong, shown>>
    BY <1>7 DEF BrokenPipe, wireVars, history
  <2>2. pc'["Receiver"] = "killed" /\ \A u \in Threads : ~Between(u)'
    BY <2>1 DEF Between, Threads
  <2>3. cut # "more" => InStep'
    BY <2>1, <2>2 DEF DisplayInv, InStep
  <2> QED BY <2>1, <2>2, <2>3 DEF DisplayInv, Mistaken, Told
<1>8. ASSUME NEW p \in outgoing, Deliver(p) PROVE DisplayInv'
  <2>1. stream' = Append(stream, p) /\ p \in Packets /\ UNCHANGED <<pc, got, readTo, cut, wrong, shown>>
    BY <1>8 DEF Deliver, threadVars, history, Inv, TypeOK, ServerType
  <2>2. /\ Len(stream) \in Nat /\ \A i \in 1 .. Len(stream) : stream'[i] = stream[i]
    BY <1>1, <2>1, AppendProperties
  <2>3. \A i \in 1 .. readTo : stream'[i] = stream[i]
    BY <1>1, <2>2
  <2>4. cut' # "more" => cut # "more" /\ InStep'
    <3>1. cut = "header" => Upcoming' = Upcoming
      BY <1>1, <2>1, <2>2 DEF Upcoming
    <3> QED BY <2>1, <3>1 DEF InStep, Between, DisplayInv
  <2> QED BY <2>1, <2>3, <2>4, DisplaySame
<1>9. CASE (\E q \in asks : Handle(q)) \/ HangUp \/ (\E type \in Chatter : Talk(type)) \/ UNCHANGED vars
  <2>1. UNCHANGED <<pc, got, stream, readTo, cut, wrong, shown>>
    BY <1>9 DEF Handle, HangUp, Talk, threadVars, wireVars, history, vars
  <2>2. \A u \in Threads : Between(u)' => Between(u) /\ got'[u] = got[u]
    BY <2>1 DEF Between
  <2> QED BY <1>2, <2>1, <2>2
<1> QED
  BY <1>3, <1>4, <1>5, <1>6, <1>7, <1>8, <1>9, ReceiveInOrder
  DEF Next, InputRuns, ReceiverRuns, Server, Rest

(* Every broadcast read entirely was displayed, once and in the order of   *)
(* arrival, unless the input thread took it for an answer or it was cut up *)
(* (ChatService.cpp:28-49).                                                *)
THEOREM NewsInOrder == Spec => []DisplayedInOrder
<1>1. Init => Numbered /\ DisplayInv
  <2> SUFFICES ASSUME Init PROVE Numbered /\ DisplayInv
    OBVIOUS
  <2>1. stream = <<>> /\ Len(stream) = 0 /\ outgoing = {}
    BY DEF Init
  <2>2. pc["Input"] = "start" /\ pc["Receiver"] = "none" /\ \A t \in Threads : ~Between(t)
    BY DEF Init, Threads, Between
  <2>3. InStep /\ Mistaken
    BY <2>2 DEF Init, InStep, Mistaken
  <2>4. readTo = 0 /\ OnDisplay = <<>>
    BY <2>2 DEF Init, OnDisplay
  <2>5. Tells(stream, readTo, wrong, OnDisplay)
    BY <2>4, TellsNothing
  <2> QED BY <2>1, <2>3, <2>5 DEF Numbered, DisplayInv, Told
<1>2. Numbered /\ DisplayInv => DisplayedInOrder
  BY TellsNews DEF DisplayInv, Told, DisplayedInOrder
<1> QED BY <1>1, <1>2, StaysNumbered, StaysDisplayed, Dialogue, PTL DEF Spec
==============================================================================
