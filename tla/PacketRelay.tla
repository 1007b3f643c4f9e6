---------------------------- MODULE PacketRelay ----------------------------
(***************************************************************************)
(* The way of a packet from one client through the server to another, cell *)
(* by cell: NetworkClient::Send, PacketReceiver with its buffer of partial *)
(* packets, the pool's workers in PacketSender::send, and the other        *)
(* client's NetworkClient::Receive.  The sockets take and deliver as much  *)
(* as they like of what they are offered.                                  *)
(*                                                                         *)
(* A cell is one of the two fields of a header, or a run of payload text;  *)
(* read as a size, text is beyond MAX_PAYLOAD_SIZE (two characters make at *)
(* least 0x2020).  Whatever a handler makes of a packet has its payload.   *)
(*                                                                         *)
(* The sender is the shipped client, whose packets are within              *)
(* MAX_PAYLOAD_SIZE (NetworkClient.cpp:91).  The server would copy a       *)
(* larger one beyond the end of its Packet (PacketReceiver.cpp:53).        *)
(***************************************************************************)
EXTENDS Integers, SequencesExt

CONSTANTS
  Workers,
  PacketTypes,       \* the values of a type field
  Texts,             \* the values of a cell of payload
  MAX_PAYLOAD_SIZE, RECV_BUFFER_SIZE,
  SocketRoom,        \* cells a socket's buffer takes
  MaxPackets         \* bound: packets sent

HeaderSize == 2

Packets == [type : PacketTypes,
            payload : UNION {[1 .. n -> Texts] : n \in 0 .. MAX_PAYLOAD_SIZE}]

Encode(p) == <<p.type, Len(p.payload)>> \o p.payload

ASSUME RelayAssumption ==
  /\ MAX_PAYLOAD_SIZE \in Nat /\ PacketTypes \subseteq Nat
  /\ \A x \in Texts : x \in Nat /\ x > MAX_PAYLOAD_SIZE
  /\ RECV_BUFFER_SIZE \in Nat \ {0} /\ SocketRoom \in Nat \ {0}
  /\ MaxPackets \in Nat /\ IsFiniteSet(Workers)

VARIABLES
  sent,        \* the packets the first client has sent or begun to
  toSend,      \* what Send has left of the last one
  uplink,      \* cells on their way to the server
  recvBuffer,  \* ClientInfo::recvBuffer
  io,          \* the I/O thread: "epoll", "parse"
  parsed,      \* the packets handed to the callback
  tasks,       \* the pool's queue: places in parsed
  task, rest,  \* a worker's task, 0 if it has none, and what send has left of it
  downlink,    \* cells on their way to the other client
  begun,       \* history: the tasks whose packets have begun to be sent, in that order
  overlapped,  \* history: a worker sent while another was in mid-packet
  reader,      \* the other client: "header", "payload", "closed"
  header,      \* the header it has read
  received     \* the packets it has read

upVars   == <<sent, toSend, uplink>>
ioVars   == <<recvBuffer, io, parsed>>
poolVars == <<task, rest, begun, overlapped>>
downVars == <<reader, header, received>>
vars == <<upVars, ioVars, tasks, poolVars, downlink, downVars>>

Init ==
  /\ sent = <<>> /\ toSend = <<>> /\ uplink = <<>>
  /\ recvBuffer = <<>> /\ io = "epoll" /\ parsed = <<>> /\ tasks = <<>>
  /\ task = [w \in Workers |-> 0] /\ rest = [w \in Workers |-> <<>>]
  /\ downlink = <<>> /\ begun = <<>> /\ overlapped = FALSE
  /\ reader = "header" /\ header = <<>> /\ received = <<>>

From(s, n) == SubSeq(s, n + 1, Len(s))
First(s, n) == SubSeq(s, 1, n)
AtMost(s, n) == 1 .. IF Len(s) < n THEN Len(s) ELSE n

-----------------------------------------------------------------------------
(* NetworkClient::Send; the socket is blocking.                            *)
BeginSend(p) ==
  /\ toSend = <<>> /\ Len(sent) < MaxPackets
  /\ sent' = Append(sent, p) /\ toSend' = Encode(p)
  /\ UNCHANGED <<uplink, ioVars, tasks, poolVars, downlink, downVars>>

SendSome ==
  \E n \in AtMost(toSend, SocketRoom - Len(uplink)) :
    /\ uplink' = uplink \o First(toSend, n) /\ toSend' = From(toSend, n)
    /\ UNCHANGED <<sent, ioVars, tasks, poolVars, downlink, downVars>>

-----------------------------------------------------------------------------
(* PacketReceiver::receive, then parsePackets until no packet is whole.    *)
Receive ==
  /\ io = "epoll"
  /\ \E n \in AtMost(uplink, RECV_BUFFER_SIZE) :
       recvBuffer' = recvBuffer \o First(uplink, n) /\ uplink' = From(uplink, n)
  /\ io' = "parse"
  /\ UNCHANGED <<sent, toSend, parsed, tasks, poolVars, downlink, downVars>>

\* Faulty: a size that does not count the header.
PayloadOnly(s) == s[2]

PacketSize(s) == HeaderSize + s[2]

WholePacket(s) == Len(s) >= HeaderSize /\ Len(s) >= PacketSize(s)

\* Faulty: copies one field too many.
DecodeMore(s) == [type |-> s[1], payload |-> SubSeq(s, HeaderSize, PacketSize(s))]

Decode(s) == [type |-> s[1], payload |-> SubSeq(s, HeaderSize + 1, PacketSize(s))]

\* Faulty: the newest task first.
PushFront(i) == <<i>> \o tasks

Pushed(i) == Append(tasks, i)

(* The first packet of the buffer goes to the callback, which enqueues it. *)
TakePacket ==
  /\ parsed' = Append(parsed, Decode(recvBuffer))
  /\ tasks' = Pushed(Len(parsed) + 1)
  /\ recvBuffer' = From(recvBuffer, PacketSize(recvBuffer))

\* Faulty: one packet for each time the socket was readable.
ParseOne ==
  /\ io = "parse" /\ io' = "epoll"
  /\ IF WholePacket(recvBuffer)
     THEN TakePacket
     ELSE UNCHANGED <<recvBuffer, parsed, tasks>>
  /\ UNCHANGED <<upVars, poolVars, downlink, downVars>>

Parse ==
  /\ io = "parse"
  /\ IF WholePacket(recvBuffer)
     THEN TakePacket /\ UNCHANGED io
     ELSE io' = "epoll" /\ UNCHANGED <<recvBuffer, parsed, tasks>>
  /\ UNCHANGED <<upVars, poolVars, downlink, downVars>>

-----------------------------------------------------------------------------
(* A worker takes a packet and sends what its handler makes of it.         *)
Handle(w) ==
  /\ task[w] = 0 /\ tasks # <<>>
  /\ task' = [task EXCEPT ![w] = Head(tasks)]
  /\ rest' = [rest EXCEPT ![w] = Encode(parsed[Head(tasks)])]
  /\ tasks' = Tail(tasks)
  /\ UNCHANGED <<upVars, ioVars, begun, overlapped, downlink, downVars>>

Untouched(w) == task[w] # 0 /\ rest[w] = Encode(parsed[task[w]])
MidPacket(w) == task[w] # 0 /\ ~Untouched(w)

\* Faulty: what a partial send left over is sent from the beginning.
NextCells(w, n) == IF n = Len(rest[w]) THEN <<>> ELSE Encode(parsed[task[w]])

Unsent(w, n) == From(rest[w], n)

(* One ::send.  EAGAIN, when the socket is full, is tried again: no step.  *)
Transmit(w) ==
  /\ task[w] # 0
  /\ \E n \in AtMost(rest[w], SocketRoom - Len(downlink)) :
       /\ downlink' = downlink \o First(rest[w], n)
       /\ rest' = [rest EXCEPT ![w] = Unsent(w, n)]
  /\ task' = IF rest'[w] = <<>> THEN [task EXCEPT ![w] = 0] ELSE task
  /\ begun' = IF Untouched(w) THEN Append(begun, task[w]) ELSE begun
  /\ overlapped' = (overlapped \/ \E v \in Workers \ {w} : MidPacket(v))
  /\ UNCHANGED <<upVars, ioVars, tasks, downVars>>

-----------------------------------------------------------------------------
(* NetworkClient::Receive: two calls of recv with MSG_WAITALL.  The socket *)
(* buffer gives what it has to a call that waits for more.                 *)
Gather(n) ==
  \E k \in AtMost(downlink, n - Len(header)) :
    /\ header' = header \o First(downlink, k) /\ downlink' = From(downlink, k)

ReadHeader ==
  /\ reader = "header"
  /\ Gather(HeaderSize)
  /\ reader' = IF Len(header') < HeaderSize THEN "header"
               ELSE IF header'[2] > MAX_PAYLOAD_SIZE THEN "closed" ELSE "payload"
  /\ UNCHANGED <<received, upVars, ioVars, tasks, poolVars>>

Wanted == PacketSize(header)

ReadPayload ==
  /\ reader = "payload" /\ Len(header) < Wanted
  /\ Gather(Wanted)
  /\ UNCHANGED <<reader, received, upVars, ioVars, tasks, poolVars>>

Deliver ==
  /\ reader = "payload" /\ Len(header) = Wanted
  /\ received' = Append(received, Decode(header))
  /\ header' = <<>> /\ reader' = "header"
  /\ UNCHANGED <<upVars, ioVars, tasks, poolVars, downlink>>

Work(w) == Handle(w) \/ Transmit(w)
Read == ReadHeader \/ ReadPayload \/ Deliver

(* Nothing more to send, or nobody who reads.                              *)
Quiet == /\ toSend = <<>> /\ Len(sent) = MaxPackets /\ UNCHANGED vars

Next == \/ \E p \in Packets : BeginSend(p)
        \/ SendSome \/ Receive \/ Parse
        \/ \E w \in Workers : Work(w)
        \/ Read \/ Quiet

Spec == Init /\ [][Next]_vars

(* Every thread runs; a worker whose socket has no room retries.           *)
Fairness == /\ WF_vars(SendSome) /\ WF_vars(Receive) /\ WF_vars(Parse)
            /\ \A w \in Workers : WF_vars(Work(w))
            /\ WF_vars(Read)

FairSpec == Spec /\ Fairness

-----------------------------------------------------------------------------
Cells == Nat

TypeOK ==
  /\ sent \in Seq(Packets) /\ parsed \in Seq(Packets) /\ received \in Seq([type : Nat, payload : Seq(Nat)])
  /\ toSend \in Seq(Cells) /\ uplink \in Seq(Cells) /\ recvBuffer \in Seq(Cells)
  /\ downlink \in Seq(Cells) /\ header \in Seq(Cells)
  /\ Len(uplink) <= SocketRoom /\ Len(downlink) <= SocketRoom
  /\ io \in {"epoll", "parse"} /\ reader \in {"header", "payload", "closed"}
  /\ tasks \in Seq(DOMAIN parsed) /\ begun \in Seq(DOMAIN parsed)
  /\ task \in [Workers -> {0} \cup DOMAIN parsed] /\ rest \in [Workers -> Seq(Cells)]
  /\ overlapped \in BOOLEAN

(* However the cells arrive, the server takes apart what the client put    *)
(* together: the same packets in the same order, and no cell is lost,      *)
(* repeated or left over (PacketReceiver.cpp:24-62).                       *)
Wire(packets) == FlattenSeq([i \in DOMAIN packets |-> Encode(packets[i])])

Framed == Wire(sent) = Wire(parsed) \o recvBuffer \o uplink \o toSend
            /\ IsPrefix(parsed, sent)

(* The I/O thread does not go back to epoll, which reports only what the   *)
(* socket holds, with a whole packet in the buffer; so the buffer never    *)
(* holds more than one packet and one recv (PacketReceiver.cpp:37-47).     *)
NothingHeldBack ==
  /\ io = "epoll" => ~WholePacket(recvBuffer)
  /\ Len(recvBuffer) < HeaderSize + MAX_PAYLOAD_SIZE + RECV_BUFFER_SIZE

(* As long as no two workers have been at one socket at a time, the other  *)
(* client reads the packets as they were sent, in the order the sends      *)
(* began, however partial the sends were (PacketSender.cpp:22-36).         *)
ReadAsSent ==
  ~overlapped =>
    /\ reader # "closed" /\ Len(received) <= Len(begun)
    /\ \A i \in DOMAIN received : received[i] = parsed[begun[i]]

(* A packet is sent at most once, and overtakes at most those the other    *)
(* workers hold (Server.cpp:85-87, ThreadPool.cpp:26-36).                  *)
BegunBefore(i) == {begun[k] : k \in 1 .. i - 1}

FewOvertaken ==
  \A i \in DOMAIN begun :
    /\ begun[i] \notin BegunBefore(i)
    /\ Cardinality(1 .. begun[i] - 1 \ BegunBefore(i)) < Cardinality(Workers)

(* What was sent arrives, unless sends overlapped: the retry after EAGAIN  *)
(* and the loops over partial sends and packets come to an end while the   *)
(* reader reads (PacketSender.cpp:22-36, PacketReceiver.cpp:37-62).        *)
EverythingArrives ==
  \A k \in 1 .. MaxPackets : Len(sent) >= k ~> Len(received) >= k \/ overlapped
=============================================================================
