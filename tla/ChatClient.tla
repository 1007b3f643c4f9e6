----------------------------- MODULE ChatClient -----------------------------
(***************************************************************************)
(* The chat client: Lobby's input thread, which asks and waits for the     *)
(* answer, and its receiver thread, which displays what others say, over   *)
(* one socket that both read.  NetworkClient::Receive reads a packet in    *)
(* two calls, header then payload, and nothing keeps one thread from       *)
(* reading between the two calls of the other.                             *)
(*                                                                         *)
(* The server appears as what the client can see of it: it handles the     *)
(* requests it was sent, in any order its workers choose, and sends the    *)
(* answers and the room's broadcasts, each when some worker gets to it.    *)
(*                                                                         *)
(* m_is_running is left out: it is TRUE from the first menu until the user *)
(* leaves, and all it does is to unwind the nested menus.  The plain bool  *)
(* flags of the services are read and written as if they were atomic.      *)
(***************************************************************************)
EXTENDS Integers, Sequences

CONSTANTS
  Codes,     \* room codes
  Chatter,   \* the kinds of broadcasts the other members cause
  MaxAsks,   \* bound: requests sent to a server that is there
  MaxTalk,   \* bound: the others fall silent once the server made so many packets
  NoCode, NoPacket

Answers == {"NICKNAME_OK", "NICKNAME_FAIL", "CREATE_OK", "CREATE_FAIL",
            "JOIN_OK", "JOIN_FAIL", "EXIT_OK", "EXIT_FAIL"}
Displayed == {"CHAT", "USER_JOIN", "USER_EXIT", "SYSTEM"}

RequestTypes == {"REGISTER", "CREATE", "JOIN", "EXIT"}
Requests == [type : RequestTypes \ {"JOIN"}, code : {NoCode}, n : Nat]
              \cup [type : {"JOIN"}, code : Codes, n : Nat]

(* A packet from the server; n tells two packets apart, 0 is for one whose *)
(* payload was cut up.                                                     *)
Packets == [type : Answers \cup Displayed, code : Codes \cup {NoCode}, n : Nat]
Packet(type, code, n) == [type |-> type, code |-> code, n |-> n]

ASSUME ClientAssumption ==
  /\ NoCode \notin Codes /\ NoPacket \notin Packets
  /\ Chatter \subseteq Displayed
  /\ MaxAsks \in Nat /\ MaxTalk \in Nat

VARIABLES
  pc,        \* pc[t]: where thread t is
  got,       \* got[t]: the packet (or header) it has read
  asked,     \* what the input thread asked for last
  m_connected, m_is_receiving, m_current_room_code,
  stdin,     \* "open", or "closed": at its end, or failed for good
  stream,    \* every packet delivered to the socket
  readTo,    \* how many of them have been read entirely
  cut,       \* what has been read of the next one: "none", "header", "more"
  hangup,    \* the server has closed its end
  asks,      \* requests the server has not handled
  outgoing,  \* packets its workers are about to send
  listed,    \* the rooms that list this client
  roomCode,  \* ClientInfo::roomCode at the server
  unentered, \* history: the room it was last told it has, if it never entered it
  served,    \* packets the server has made so far
  sent,      \* requests this client has sent so far
  wrong,     \* history: packets read by the thread they were not meant for
  shown      \* history: packets displayed

threadVars == <<pc, got, asked>>
clientVars == <<m_connected, m_is_receiving, m_current_room_code, stdin>>
wireVars   == <<stream, readTo, cut, hangup>>
serverVars == <<asks, outgoing, listed, roomCode, unentered, served, sent>>
history    == <<wrong, shown>>
vars == <<threadVars, clientVars, wireVars, serverVars, history>>

Threads == {"Input", "Receiver"}

-----------------------------------------------------------------------------
Init ==
  /\ pc = [t \in Threads |-> IF t = "Input" THEN "start" ELSE "none"]
  /\ got = [t \in Threads |-> NoPacket]
  /\ asked = "REGISTER"
  /\ m_connected = FALSE /\ m_is_receiving = FALSE
  /\ m_current_room_code = NoCode
  /\ stdin = "open"
  /\ stream = <<>> /\ readTo = 0 /\ cut = "none" /\ hangup = FALSE
  /\ asks = {} /\ outgoing = {} /\ listed = {} /\ roomCode = NoCode /\ unentered = NoCode
  /\ served = 0 /\ sent = 0
  /\ wrong = {} /\ shown = <<>>

Go(t, s) == pc' = [pc EXCEPT ![t] = s]

-----------------------------------------------------------------------------
(* NetworkClient::Receive, as either thread runs it.  A recv on a socket   *)
(* that was closed before fails; one that was waiting already goes on.     *)
ReadingStates == {"header", "inHeader", "payload", "inPayload"}

\* Faulty: reads on after a failure.
ReadsOn(t) == "header"

AfterFailure(t) == IF t = "Receiver" THEN "end"
                   ELSE IF asked = "REGISTER" THEN "nickname"
                   ELSE IF asked = "EXIT" THEN "stop" ELSE "menu"

Fails(t) == /\ Go(t, AfterFailure(t))
            /\ got' = [got EXCEPT ![t] = NoPacket]

Close == m_connected' = FALSE

CallRecv(t) ==
  /\ pc[t] \in {"header", "payload"}
  /\ IF m_connected
     THEN Go(t, IF pc[t] = "header" THEN "inHeader" ELSE "inPayload") /\ UNCHANGED got
     ELSE Fails(t)
  /\ UNCHANGED <<asked, clientVars, wireVars, serverVars, history>>

HasPayload(p) == p.type \notin {"NICKNAME_OK", "EXIT_OK"}

Upcoming == stream[readTo + 1]

(* A packet is in the hands of the thread that has read all of it: answers *)
(* are meant for the input thread, all others for the receiver.            *)
MeantFor(p) == IF p.type \in Answers THEN "Input" ELSE "Receiver"

Takes(t, p) == /\ readTo' = readTo + 1
               /\ Go(t, "answer")
               /\ got' = [got EXCEPT ![t] = p]
               /\ wrong' = IF MeantFor(p) = t THEN wrong ELSE wrong \cup {p.n}

RecvHeader(t) ==
  /\ pc[t] = "inHeader" /\ readTo < Len(stream) /\ cut = "none"
  /\ IF HasPayload(Upcoming)
     THEN /\ Go(t, "payload") /\ got' = [got EXCEPT ![t] = Upcoming] /\ cut' = "header"
          /\ UNCHANGED <<readTo, wrong>>
     ELSE Takes(t, Upcoming) /\ UNCHANGED cut
  /\ UNCHANGED <<asked, clientVars, stream, hangup, serverVars, shown>>

(* The other thread is between its two calls, so this one takes four bytes *)
(* of text for a header.  Their size field is beyond MAX_PAYLOAD_SIZE, two *)
(* printable characters being at least 0x2020: it closes the socket.       *)
RecvText(t) ==
  /\ pc[t] = "inHeader" /\ readTo < Len(stream) /\ cut = "header"
  /\ cut' = "more"
  /\ Close /\ Fails(t)
  /\ UNCHANGED <<asked, m_is_receiving, m_current_room_code, stdin, stream, readTo, hangup, serverVars, history>>

RecvPayload(t) ==
  /\ pc[t] = "inPayload" /\ cut = "header"
  /\ cut' = "none"
  /\ Takes(t, got[t])
  /\ UNCHANGED <<asked, clientVars, stream, hangup, serverVars, shown>>

(* Four bytes of its payload are gone; MSG_WAITALL makes up for them with  *)
(* the next packet's header.  Nobody reads this socket again.              *)
RecvRest(t) ==
  /\ pc[t] = "inPayload" /\ cut = "more" /\ readTo + 1 < Len(stream)
  /\ Takes(t, Packet(got[t].type, NoCode, 0))
  /\ UNCHANGED <<asked, clientVars, stream, cut, hangup, serverVars, shown>>

EndOfStream(t) ==
  /\ pc[t] \in {"inHeader", "inPayload"} /\ hangup
  /\ Close /\ Fails(t)
  /\ UNCHANGED <<asked, m_is_receiving, m_current_room_code, stdin, wireVars, serverVars, history>>

-----------------------------------------------------------------------------
(* Lobby, the input thread.                                                *)
Prompted(s) == pc["Input"] = s /\ stdin = "open"

ConnectToServer ==
  /\ pc["Input"] = "start"
  /\ \/ Go("Input", "nickname") /\ m_connected' = TRUE
     \/ Go("Input", "done") /\ UNCHANGED m_connected
  /\ UNCHANGED <<got, asked, m_is_receiving, m_current_room_code, stdin, wireVars, serverVars, history>>

(* Send puts one request on its way, then Receive waits for the answer.    *)
Ask(type, code) ==
  /\ m_connected
  /\ sent < MaxAsks \/ hangup
  /\ sent' = sent + 1
  /\ asks' = asks \cup {[type |-> type, code |-> code, n |-> sent]}
  /\ asked' = type
  /\ Go("Input", "header")
  /\ UNCHANGED <<got, clientVars, wireVars, outgoing, listed, roomCode, unentered, served>>

RegisterNickname == Prompted("nickname") /\ Ask("REGISTER", NoCode) /\ UNCHANGED history
CreateRoom       == Prompted("menu") /\ Ask("CREATE", NoCode) /\ UNCHANGED history
JoinRoom(code)   == Prompted("menu") /\ Ask("JOIN", code) /\ UNCHANGED history

(* "/exit"; a Send to a server that is gone may fail, which ends the chat  *)
(* without an answer.                                                      *)
Stops == /\ Go("Input", "stop")
         /\ UNCHANGED <<got, asked, clientVars, wireVars, serverVars>>

\* Faulty: back to the menu without asking the server.
LeaveQuietly == Prompted("prompt") /\ m_connected /\ Stops /\ UNCHANGED history

ExitRoom ==
  /\ Prompted("prompt") /\ m_connected
  /\ IF m_current_room_code = NoCode THEN Stops
     ELSE Ask("EXIT", NoCode) \/ (hangup /\ Stops)
  /\ UNCHANGED history

(* Enter, or a message that is sent in vain: the connection is gone.       *)
Enter == Prompted("prompt") /\ ~m_connected /\ Stops /\ UNCHANGED history

(* No more input, or none that std::cin would still take: at the menu it   *)
(* fails for good when something other than a number is typed.             *)
EndInput ==
  /\ stdin = "open" /\ pc["Input"] \notin {"start", "done", "killed"}
  /\ stdin' = "closed"
  /\ UNCHANGED <<threadVars, m_connected, m_is_receiving, m_current_room_code, wireVars, serverVars, history>>

(* The chat is then left without a request.  The nickname and menu prompts *)
(* repeat themselves for ever, but for what the uninitialized choice makes *)
(* of the menu: 1 and 2 find an empty line, 3 leaves.                      *)
EndChat == pc["Input"] = "prompt" /\ stdin = "closed" /\ Stops /\ UNCHANGED history

StrayChoice ==
  /\ pc["Input"] = "menu" /\ stdin = "closed"
  /\ Go("Input", "done") /\ Close
  /\ UNCHANGED <<got, asked, m_is_receiving, m_current_room_code, stdin, wireVars, serverVars, history>>

(* The user leaves the lobby, or a loop finds the connection closed: the   *)
(* destructor disconnects.                                                 *)
Leave ==
  /\ \/ Prompted("menu")
     \/ pc["Input"] \in {"nickname", "menu"} /\ ~m_connected
  /\ Go("Input", "done") /\ Close
  /\ UNCHANGED <<got, asked, m_is_receiving, m_current_room_code, stdin, wireVars, serverVars, history>>

(* A send after the server's reset raises SIGPIPE.                         *)
BrokenPipe ==
  /\ hangup /\ m_connected
  /\ Prompted("nickname") \/ Prompted("menu") \/ Prompted("prompt")
  /\ pc' = [t \in Threads |-> "killed"] /\ Close
  /\ got' = [t \in Threads |-> NoPacket]
  /\ UNCHANGED <<asked, m_is_receiving, m_current_room_code, stdin, wireVars, serverVars, history>>

(* What the input thread makes of the answer.                              *)
Answered(types) == pc["Input"] = "answer" /\ asked \in types

(* got' is shared by what follows.                                         *)
\* Faulty: the packet stays in the reader's hands.
Keeps(t) == UNCHANGED got

Discards(t) == got' = [got EXCEPT ![t] = NoPacket]

OnNicknameAnswer ==
  /\ Answered({"REGISTER"})
  /\ Go("Input", IF got["Input"].type = "NICKNAME_OK" THEN "menu" ELSE "nickname")
  /\ Discards("Input")
  /\ UNCHANGED <<asked, clientVars, wireVars, serverVars, history>>

RoomOf(p) == p.code

(* Assigning to a std::thread that is still joinable ends the program.     *)
StartChatSession ==
  pc' = IF pc["Receiver"] = "none"
        THEN [pc EXCEPT !["Input"] = "prompt", !["Receiver"] = "start"]
        ELSE [t \in Threads |-> "terminated"]

Accepted(p) == /\ p.type = IF asked = "CREATE" THEN "CREATE_OK" ELSE "JOIN_OK"
               /\ RoomOf(p) # NoCode

OnRoomAnswer ==
  /\ Answered({"CREATE", "JOIN"})
  /\ IF Accepted(got["Input"])
     THEN m_current_room_code' = RoomOf(got["Input"]) /\ StartChatSession
     ELSE Go("Input", "menu") /\ UNCHANGED m_current_room_code
  /\ Discards("Input")
  /\ UNCHANGED <<asked, m_connected, m_is_receiving, stdin, wireVars, serverVars, history>>

\* Faulty: the room code is not reset.
KeepsRoomCode ==
  /\ Answered({"EXIT"})
  /\ Go("Input", "stop")
  /\ Discards("Input")
  /\ UNCHANGED <<asked, clientVars, wireVars, serverVars, history>>

OnExitAnswer ==
  /\ Answered({"EXIT"})
  /\ m_current_room_code' = IF got["Input"].type = "EXIT_OK" THEN NoCode ELSE m_current_room_code
  /\ Go("Input", "stop")
  /\ Discards("Input")
  /\ UNCHANGED <<asked, m_connected, m_is_receiving, stdin, wireVars, serverVars, history>>

StopReceiving ==
  /\ pc["Input"] = "stop"
  /\ m_is_receiving' = FALSE
  /\ Go("Input", "join")
  /\ UNCHANGED <<got, asked, m_connected, m_current_room_code, stdin, wireVars, serverVars, history>>

\* Faulty: the thread is detached instead.
DetachReceiver ==
  /\ pc["Input"] = "join"
  /\ Go("Input", "menu")
  /\ UNCHANGED <<got, asked, clientVars, wireVars, serverVars, history>>

JoinReceiver ==
  /\ pc["Input"] = "join" /\ pc["Receiver"] = "finished"
  /\ pc' = [pc EXCEPT !["Input"] = "menu", !["Receiver"] = "none"]
  /\ UNCHANGED <<got, asked, clientVars, wireVars, serverVars, history>>

-----------------------------------------------------------------------------
(* ChatService, the receiver thread.                                       *)
StartReceiving ==
  /\ pc["Receiver"] = "start"
  /\ m_is_receiving' = TRUE
  /\ Go("Receiver", "loop")
  /\ UNCHANGED <<got, asked, m_connected, m_current_room_code, stdin, wireVars, serverVars, history>>

ReceiveLoop ==
  /\ pc["Receiver"] = "loop"
  /\ Go("Receiver", IF m_is_receiving /\ m_connected THEN "header" ELSE "end")
  /\ UNCHANGED <<got, asked, clientVars, wireVars, serverVars, history>>

(* Answers are dropped.  A payload that was cut up does not parse, and is  *)
(* displayed all the same, as an empty message: number 0.                  *)
\* Faulty: whatever arrives is displayed.
ShowsAnything(p) == TRUE

Shows(p) == p.type \in Displayed

OnMessage ==
  /\ pc["Receiver"] = "answer"
  /\ shown' = IF Shows(got["Receiver"]) THEN Append(shown, got["Receiver"].n) ELSE shown
  /\ Go("Receiver", "loop")
  /\ Discards("Receiver")
  /\ UNCHANGED <<asked, clientVars, wireVars, serverVars, wrong>>

\* Faulty: the connection is closed when the loop ends.
ClosesToo ==
  /\ pc["Receiver"] = "end"
  /\ m_is_receiving' = FALSE /\ Close
  /\ Go("Receiver", "finished")
  /\ UNCHANGED <<got, asked, m_current_room_code, stdin, wireVars, serverVars, history>>

EndLoop ==
  /\ pc["Receiver"] = "end"
  /\ m_is_receiving' = FALSE
  /\ Go("Receiver", "finished")
  /\ UNCHANGED <<got, asked, m_connected, m_current_room_code, stdin, wireVars, serverVars, history>>

-----------------------------------------------------------------------------
(* The server.  A handler lists the client before it answers, and copies   *)
(* a room's list before it sends, so that broadcasts may overtake the      *)
(* answer to a JOIN and follow the answer to an EXIT.                      *)
Makes(type, code) ==
  /\ served' = served + 1
  /\ outgoing' = outgoing \cup {Packet(type, code, served + 1)}

Refuses(type) == Makes(type, NoCode) /\ UNCHANGED <<listed, roomCode, unentered>>

Admits(type, code) ==
  /\ Makes(type, code)
  /\ listed' = listed \cup {code} /\ roomCode' = code /\ unentered' = NoCode

(* handleCreateRoom answers OK even if its own joinRoom was refused: since *)
(* addRoom others entered the room and filled it, or left and erased it.   *)
LeavesOut(code) ==
  /\ Makes("CREATE_OK", code)
  /\ unentered' = code /\ UNCHANGED <<listed, roomCode>>

Handle(q) ==
  /\ ~hangup /\ q \in asks
  /\ asks' = asks \ {q}
  /\ \/ /\ q.type = "REGISTER"
        /\ \E type \in {"NICKNAME_OK", "NICKNAME_FAIL"} : Refuses(type)
     \/ /\ q.type = "CREATE"
        /\ \/ Refuses("CREATE_FAIL")
           \/ \E code \in Codes \ listed : Admits("CREATE_OK", code) \/ LeavesOut(code)
     \/ /\ q.type = "JOIN"
        /\ \/ Refuses("JOIN_FAIL")
           \/ roomCode = NoCode /\ Admits("JOIN_OK", q.code)
     \/ /\ q.type = "EXIT"
        /\ IF roomCode = NoCode THEN Refuses("EXIT_FAIL")
           ELSE /\ Makes("EXIT_OK", NoCode)
                /\ listed' = listed \ {roomCode} /\ roomCode' = NoCode /\ UNCHANGED unentered
  /\ UNCHANGED <<threadVars, clientVars, wireVars, sent, history>>

(* A member of a room speaks, enters or leaves.  It need not be this       *)
(* client's room: a connection whose descriptor a departed member left on  *)
(* a list gets that room's broadcasts from the first moment on.            *)
Talk(type) ==
  /\ ~hangup /\ pc["Input"] # "start" /\ served < MaxTalk
  /\ Makes(type, NoCode)
  /\ UNCHANGED <<threadVars, clientVars, wireVars, asks, sent, listed, roomCode, unentered, history>>

Deliver(p) ==
  /\ ~hangup /\ p \in outgoing
  /\ outgoing' = outgoing \ {p}
  /\ stream' = Append(stream, p)
  /\ UNCHANGED <<threadVars, clientVars, readTo, cut, hangup, asks, listed, roomCode, unentered, served, sent, history>>

HangUp ==
  /\ ~hangup /\ pc["Input"] # "start"
  /\ hangup' = TRUE
  /\ UNCHANGED <<threadVars, clientVars, stream, readTo, cut, serverVars, history>>

-----------------------------------------------------------------------------
Receive(t) == \/ CallRecv(t) \/ RecvHeader(t) \/ RecvText(t)
              \/ RecvPayload(t) \/ RecvRest(t) \/ EndOfStream(t)

User == \/ RegisterNickname \/ CreateRoom \/ ExitRoom \/ Enter \/ Leave
        \/ \E code \in Codes : JoinRoom(code)

InputRuns == \/ ConnectToServer \/ EndChat \/ OnNicknameAnswer \/ OnRoomAnswer \/ OnExitAnswer
             \/ StopReceiving \/ JoinReceiver

ReceiverRuns == StartReceiving \/ ReceiveLoop \/ OnMessage \/ EndLoop

Server == \/ \E q \in asks : Handle(q)
          \/ \E p \in outgoing : Deliver(p)

(* The client has ended, or its prompt repeats itself for ever.            *)
Rest == /\ \/ pc["Input"] \in {"done", "killed"}
           \/ stdin = "closed" /\ pc["Input"] \in {"nickname", "menu"}
        /\ UNCHANGED vars

Next == \/ \E t \in Threads : Receive(t)
        \/ User \/ EndInput \/ StrayChoice \/ BrokenPipe
        \/ InputRuns \/ ReceiverRuns
        \/ Server \/ HangUp
        \/ \E type \in Chatter : Talk(type)
        \/ Rest

Spec == Init /\ [][Next]_vars

(* The kernel runs both threads, the server handles and delivers what it   *)
(* was asked, the user answers a prompt sooner or later.                   *)
Fairness == /\ \A t \in Threads : WF_vars(Receive(t))
            /\ WF_vars(InputRuns) /\ WF_vars(ReceiverRuns)
            /\ WF_vars(Server) /\ WF_vars(User)

FairSpec == Spec /\ Fairness

-----------------------------------------------------------------------------
InputStates == {"start", "nickname", "menu", "prompt", "answer", "stop", "join", "done", "killed"}
                 \cup ReadingStates
ReceiverStates == {"none", "start", "loop", "answer", "end", "finished", "killed"} \cup ReadingStates

ThreadType ==
  /\ pc \in [Threads -> InputStates \cup ReceiverStates]
  /\ pc["Input"] \in InputStates /\ pc["Receiver"] \in ReceiverStates
  /\ got \in [Threads -> Packets \cup {NoPacket}]
  /\ \A t \in Threads : got[t] # NoPacket <=> pc[t] \in {"payload", "inPayload", "answer"}
  /\ asked \in RequestTypes

ClientType ==
  /\ m_connected \in BOOLEAN /\ m_is_receiving \in BOOLEAN
  /\ m_current_room_code \in Codes \cup {NoCode}
  /\ stdin \in {"open", "closed"}

WireType ==
  /\ stream \in Seq(Packets) /\ readTo \in 0 .. Len(stream) /\ hangup \in BOOLEAN
  /\ cut \in {"none", "header", "more"} /\ (cut # "none" => readTo < Len(stream))

ServerType ==
  /\ asks \subseteq Requests /\ outgoing \subseteq Packets
  /\ listed \subseteq Codes /\ {roomCode, unentered} \subseteq Codes \cup {NoCode}
  /\ served \in Nat /\ sent \in Nat

HistoryType == wrong \subseteq Nat /\ shown \in Seq(Nat)

(* Types; a thread holds a packet exactly between reading its header and   *)
(* dealing with it, and one that was cut has lost its header.              *)
TypeOK == ThreadType /\ ClientType /\ WireType /\ ServerType /\ HistoryType

(* Outside a chat only the input thread lives: no two receiver threads,    *)
(* and nobody but it reads the answers to what it asks from the lobby      *)
(* (Lobby.cpp:172-192, 236-247).                                           *)
InChat == \/ pc["Input"] \in {"prompt", "stop", "join", "killed"}
          \/ pc["Input"] \in ReadingStates \cup {"answer"} /\ asked = "EXIT"

LobbyReadsAlone == pc["Receiver"] # "none" => InChat

(* The client gives up a connection the server keeps only when its user    *)
(* leaves, or while it waits for the answer to /exit, the one time both    *)
(* threads read (NetworkClient.cpp:43-84, Lobby.cpp:210).                  *)
Waiting == pc["Input"] \in ReadingStates \cup {"answer"}

ClosedForCause ==
  [][m_connected /\ ~m_connected' /\ ~hangup =>
       pc'["Input"] \in {"done", "killed"} \/ (Waiting /\ asked = "EXIT")]_vars

(* Client and server agree on the room, whenever the client is not waiting *)
(* for an answer and both threads have only read what was meant for them.  *)
(* The one exception is the server's doing: a room the client created and  *)
(* was told it has, but never entered (RoomService.cpp:32-59, 85-112,      *)
(* 145-162; RoomHandler.cpp:75-88).                                        *)
Known == IF roomCode = NoCode THEN unentered ELSE roomCode

RoomAgrees ==
  wrong = {} /\ m_connected /\ pc["Input"] \in {"menu", "prompt"} =>
    m_current_room_code = Known

(* The news among the first n packets of s, but for what was lost: their   *)
(* numbers, in the order of arrival.                                       *)
IsNews(p, lost) == p.type \in Displayed /\ p.n \notin lost

News(s, n, lost) ==
  LET upTo[i \in 0 .. n] == IF i = 0 THEN <<>>
                            ELSE IF IsNews(s[i], lost) THEN Append(upTo[i - 1], s[i].n) ELSE upTo[i - 1]
  IN upTo[n]

(* What is displayed once the receiver is done with the packet it has.     *)
OnDisplay == IF pc["Receiver"] = "answer" /\ Shows(got["Receiver"])
             THEN Append(shown, got["Receiver"].n) ELSE shown

(* Every broadcast read entirely was displayed, once and in the order of   *)
(* arrival, unless the input thread took it for an answer or it was cut up *)
(* (ChatService.cpp:28-49).                                                *)
DisplayedInOrder ==
  cut # "more" /\ pc["Receiver"] # "killed" => News(stream, readTo, wrong) = OnDisplay

(* What ChatServer assumes of a peer: one request at a time, only what its *)
(* place allows, until an answer is mixed up (Lobby.cpp:31-248).  Its      *)
(* place is where the program is, not the room code it keeps: an /exit     *)
(* that was refused leads back to the lobby with the code kept.            *)
PeerState ==
  IF wrong # {} \/ cut = "more" THEN "astray"
  ELSE IF pc["Input"] = "start" THEN "off"
  ELSE IF hangup THEN "dropped"
  ELSE IF ~m_connected THEN "gone"
  ELSE IF Waiting THEN "waiting"
  ELSE IF stdin = "closed" THEN "silent"
  ELSE IF pc["Input"] = "nickname" THEN "anon"
  ELSE IF pc["Receiver"] = "none" \/ asked = "EXIT" THEN "lobby" ELSE "chat"

Peer == INSTANCE OrderlyPeer WITH peer <- PeerState
ClientIsOrderly == Peer!Spec

(* What is asked from the lobby comes back, whatever the answer            *)
(* (RoomService.cpp:8-112, ConnectionService.cpp:27-67).                   *)
LobbyRequestsReturn == Waiting /\ asked # "EXIT" ~> ~Waiting

(* When the server hangs up, both threads come to an end and so does the   *)
(* program, unless its input has ended (Lobby.cpp:19-29, 236-247).         *)
HangUpEndsClient == hangup ~> pc["Input"] \in {"done", "killed"} \/ stdin = "closed"

(* After /exit the user is back in the lobby (Lobby.cpp:242: the client    *)
(* returns to the lobby by itself when the chat ends).                     *)
ExitReturns == Waiting /\ asked = "EXIT" ~> pc["Input"] \in {"menu", "done", "killed"}
=============================================================================
