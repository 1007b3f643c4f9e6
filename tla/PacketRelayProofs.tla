-------------------------- MODULE PacketRelayProofs --------------------------
(***************************************************************************)
(* How far packets overtake each other between the server's queue and a    *)
(* socket, for every number of workers and packets.                        *)
(***************************************************************************)
EXTENDS PacketRelay, FiniteSetTheorems, SequenceTheorems, TLAPS

-----------------------------------------------------------------------------
(* Types, as far as the argument needs them.                               *)
Parts == [type : Nat, payload : Seq(Nat)]

WireTypes ==
  /\ toSend \in Seq(Nat) /\ uplink \in Seq(Nat) /\ recvBuffer \in Seq(Nat)
  /\ downlink \in Seq(Nat) /\ header \in Seq(Nat)
  /\ reader = "payload" => Len(header) >= HeaderSize

PoolTypes ==
  /\ parsed \in Seq(Parts) /\ tasks \in Seq(Nat) /\ begun \in Seq(Nat)
  /\ task \in [Workers -> Nat] /\ rest \in [Workers -> Seq(Nat)]

(* The queue holds the packets popped + 1 .. Len(parsed), in this order.   *)
popped == Len(parsed) - Len(tasks)

InOrder == /\ popped \in Nat
           /\ \A i \in 1 .. Len(tasks) : tasks[i] = popped + i

(* Each packet before them is in the hands of the one worker that has it   *)
(* untouched, or was begun, once.  A worker in mid-packet has sent some.   *)
Begun == {begun[i] : i \in 1 .. Len(begun)}

Served ==
  /\ \A w \in Workers : task[w] \in 0 .. popped
  /\ \A w \in Workers : task[w] # 0 => Len(rest[w]) <= Len(Encode(parsed[task[w]]))
  /\ \A v, w \in Workers : task[v] # 0 /\ task[v] = task[w] => v = w
  /\ Begun \subseteq 1 .. popped
  /\ \A w \in Workers : Untouched(w) => task[w] \notin Begun
  /\ \A k \in 1 .. popped : k \in Begun \/ \E w \in Workers : Untouched(w) /\ task[w] = k

RelayInv == WireTypes /\ PoolTypes /\ InOrder /\ Served /\ FewOvertaken

LEMMA EncodeType ==
  ASSUME NEW p \in Parts
  PROVE  /\ Encode(p) \in Seq(Nat) /\ Len(Encode(p)) = Len(p.payload) + 2
         /\ Len(p.payload) \in Nat
<1>1. p.type \in Nat /\ p.payload \in Seq(Nat)
  BY DEF Parts
<1>2. <<p.type, Len(p.payload)>> \in Seq(Nat) /\ Len(<<p.type, Len(p.payload)>>) = 2
  BY <1>1
<1> QED BY <1>1, <1>2, ConcatProperties DEF Encode

LEMMA PacketsAreParts == Packets \subseteq Parts
<1> SUFFICES ASSUME NEW p \in Packets PROVE p \in Parts
  OBVIOUS
<1>1. PICK n \in 0 .. MAX_PAYLOAD_SIZE : p.payload \in [1 .. n -> Texts]
  BY DEF Packets
<1>2. Texts \subseteq Nat /\ PacketTypes \subseteq Nat /\ n \in Nat
  BY RelayAssumption
<1>3. p.payload \in Seq(Nat)
  BY <1>1, <1>2
<1>4. p = [type |-> p.type, payload |-> p.payload] /\ p.type \in Nat
  BY <1>2 DEF Packets
<1> QED BY <1>3, <1>4 DEF Parts

(* What From and First cut off a sequence.                                 *)
LEMMA CutType ==
  ASSUME NEW s \in Seq(Nat), NEW n \in 1 .. Len(s)
  PROVE  /\ First(s, n) \in Seq(Nat) /\ From(s, n) \in Seq(Nat)
         /\ Len(From(s, n)) = Len(s) - n
BY DEF First, From

LEMMA AtMostType ==
  ASSUME NEW s \in Seq(Nat), NEW m \in Int, NEW n \in AtMost(s, m)
  PROVE  n \in 1 .. Len(s)
BY DEF AtMost

LEMMA DecodeType ==
  ASSUME NEW s \in Seq(Nat), WholePacket(s)
  PROVE  /\ Decode(s) \in Parts
         /\ PacketSize(s) \in 1 .. Len(s)
<1>1. Len(s) \in Nat /\ Len(s) >= 2 /\ s[1] \in Nat /\ s[2] \in Nat
  BY DEF WholePacket, HeaderSize
<1>2. SubSeq(s, HeaderSize + 1, PacketSize(s)) \in Seq(Nat)
  BY <1>1 DEF WholePacket, HeaderSize, PacketSize
<1> QED BY <1>1, <1>2 DEF Decode, Parts, WholePacket, HeaderSize, PacketSize

LEMMA InitRelay == Init => RelayInv
BY DEF Init, RelayInv, WireTypes, PoolTypes, HeaderSize, InOrder, popped, Begun, Served, FewOvertaken, Untouched

(* A step of the clients or the sockets.                                   *)
LEMMA OthersKeep ==
  ASSUME RelayInv, WireTypes', UNCHANGED <<parsed, tasks, task, rest, begun>>
  PROVE  RelayInv'
<1>1. PoolTypes' /\ InOrder'
  BY DEF RelayInv, PoolTypes, InOrder, popped
<1>2. \A w \in Workers : Untouched(w)' <=> Untouched(w)
  BY DEF Untouched
<1>3. Begun' = Begun /\ popped' = popped
  BY DEF Begun, popped
<1>4. Served'
  BY <1>2, <1>3 DEF RelayInv, Served
<1>5. FewOvertaken'
  BY DEF RelayInv, FewOvertaken, BegunBefore
<1> QED BY <1>1, <1>4, <1>5 DEF RelayInv

LEMMA ClientsKeep ==
  ASSUME RelayInv, (\E p \in Packets : BeginSend(p)) \/ SendSome \/ Receive \/ Read
  PROVE  RelayInv'
<1> USE DEF WireTypes, HeaderSize
<1>0. WireTypes /\ SocketRoom \in Nat
  BY RelayAssumption DEF RelayInv
<1>1. ASSUME NEW p \in Packets, BeginSend(p) PROVE RelayInv'
  BY <1>0, <1>1, PacketsAreParts, EncodeType, OthersKeep DEF BeginSend, ioVars, poolVars, downVars
<1>2. CASE SendSome
  <2>1. PICK n \in AtMost(toSend, SocketRoom - Len(uplink)) :
          /\ uplink' = uplink \o First(toSend, n) /\ toSend' = From(toSend, n)
          /\ UNCHANGED <<sent, ioVars, tasks, poolVars, downlink, downVars>>
    BY <1>2 DEF SendSome
  <2>2. SocketRoom - Len(uplink) \in Int
    BY <1>0
  <2>3. First(toSend, n) \in Seq(Nat) /\ From(toSend, n) \in Seq(Nat)
    BY <1>0, <2>2, AtMostType, CutType
  <2> QED BY <1>0, <2>1, <2>3, OthersKeep DEF ioVars, poolVars, downVars
<1>3. CASE Receive
  <2>1. PICK n \in AtMost(uplink, RECV_BUFFER_SIZE) :
          recvBuffer' = recvBuffer \o First(uplink, n) /\ uplink' = From(uplink, n)
    BY <1>3 DEF Receive
  <2>2. First(uplink, n) \in Seq(Nat) /\ From(uplink, n) \in Seq(Nat)
    BY <1>0, RelayAssumption, AtMostType, CutType
  <2> QED BY <1>0, <1>3, <2>1, <2>2, OthersKeep DEF Receive, poolVars, downVars
<1>4. ASSUME NEW n \in Int, Gather(n), UNCHANGED <<upVars, ioVars, tasks, poolVars>>,
             reader' = "payload" => Len(header') >= HeaderSize
      PROVE  RelayInv'
  <2>1. PICK k \in AtMost(downlink, n - Len(header)) :
          header' = header \o First(downlink, k) /\ downlink' = From(downlink, k)
    BY <1>4 DEF Gather
  <2>2. n - Len(header) \in Int
    BY <1>0
  <2>3. First(downlink, k) \in Seq(Nat) /\ From(downlink, k) \in Seq(Nat)
    BY <1>0, <2>2, AtMostType, CutType
  <2> QED BY <1>0, <1>4, <2>1, <2>3, OthersKeep DEF upVars, ioVars, poolVars
<1>5. CASE ReadHeader
  BY <1>4, <1>5 DEF ReadHeader
<1>6. CASE ReadPayload
  <2>1. Len(header) >= 2 /\ Wanted \in Int
    BY <1>0, <1>6 DEF ReadPayload, Wanted, PacketSize
  <2>2. Len(header') >= 2
    <3>1. PICK k \in AtMost(downlink, Wanted - Len(header)) : header' = header \o First(downlink, k)
      BY <1>6 DEF ReadPayload, Gather
    <3>2. Wanted - Len(header) \in Int
      BY <1>0, <2>1
    <3>3. First(downlink, k) \in Seq(Nat)
      BY <1>0, <3>2, AtMostType, CutType
    <3> QED BY <1>0, <2>1, <3>1, <3>3
  <2> QED BY <1>4, <1>6, <2>1, <2>2 DEF ReadPayload
<1>7. CASE Deliver
  BY <1>0, <1>7, OthersKeep DEF Deliver, upVars, ioVars, poolVars
<1> QED BY <1>1, <1>2, <1>3, <1>5, <1>6, <1>7 DEF Read

(* The I/O thread appends to the queue what it appends to parsed.          *)
LEMMA ParseKeeps ==
  ASSUME RelayInv, Parse
  PROVE  RelayInv'
<1>1. CASE ~WholePacket(recvBuffer)
  BY <1>1, OthersKeep DEF Parse, RelayInv, WireTypes, upVars, poolVars, downVars
<1>2. CASE WholePacket(recvBuffer)
  <2> DEFINE p == Decode(recvBuffer)
  <2>1. /\ parsed' = Append(parsed, p) /\ tasks' = Append(tasks, Len(parsed) + 1)
        /\ recvBuffer' = From(recvBuffer, PacketSize(recvBuffer))
        /\ UNCHANGED <<upVars, poolVars, downlink, downVars>>
    BY <1>2 DEF Parse, TakePacket, Pushed
  <2>2. p \in Parts /\ PacketSize(recvBuffer) \in 1 .. Len(recvBuffer)
    BY <1>2, DecodeType DEF RelayInv, WireTypes
  <2> HIDE DEF p
  <2>3. WireTypes'
    BY <2>1, <2>2, CutType DEF RelayInv, WireTypes, upVars, downVars
  <2>4. parsed \in Seq(Parts) /\ tasks \in Seq(Nat) /\ Len(parsed) \in Nat /\ Len(tasks) \in Nat
    BY DEF RelayInv, PoolTypes
  <2>5. /\ parsed' \in Seq(Parts) /\ Len(parsed') = Len(parsed) + 1
        /\ \A k \in 1 .. Len(parsed) : parsed'[k] = parsed[k]
    BY <2>1, <2>2, <2>4, AppendProperties
  <2>6. /\ tasks' \in Seq(Nat) /\ Len(tasks') = Len(tasks) + 1
        /\ \A k \in 1 .. Len(tasks) : tasks'[k] = tasks[k]
        /\ tasks'[Len(tasks) + 1] = Len(parsed) + 1
    BY <2>1, <2>4, AppendProperties
  <2>7. popped' = popped /\ popped \in Nat /\ popped <= Len(parsed)
    BY <2>4, <2>5, <2>6 DEF popped, RelayInv, InOrder
  <2>8. PoolTypes'
    BY <2>1, <2>5, <2>6 DEF RelayInv, PoolTypes, poolVars
  <2>9. InOrder'
    <3> SUFFICES ASSUME NEW i \in 1 .. Len(tasks') PROVE tasks'[i] = popped + i
      BY <2>7 DEF InOrder
    <3>1. CASE i \in 1 .. Len(tasks)
      BY <2>6, <3>1 DEF RelayInv, InOrder
    <3>2. CASE i = Len(tasks) + 1
      BY <2>4, <2>6, <3>2 DEF popped
    <3> QED BY <2>4, <2>6, <3>1, <3>2
  <2>10. /\ \A w \in Workers : task[w] # 0 => parsed'[task[w]] = parsed[task[w]]
         /\ UNCHANGED <<task, rest, begun>>
    BY <2>1, <2>4, <2>5, <2>7 DEF RelayInv, Served, poolVars
  <2>11. \A w \in Workers : Untouched(w)' <=> Untouched(w)
    BY <2>10 DEF Untouched
  <2>12. Served'
    BY <2>7, <2>10, <2>11 DEF RelayInv, Served, Begun
  <2>13. FewOvertaken'
    BY <2>10 DEF RelayInv, FewOvertaken, BegunBefore
  <2> QED BY <2>3, <2>8, <2>9, <2>12, <2>13 DEF RelayInv
<1> QED BY <1>1, <1>2

(* A worker takes the packet next in order.                                *)
LEMMA HandleKeeps ==
  ASSUME RelayInv, NEW w \in Workers, Handle(w)
  PROVE  RelayInv'
<1> DEFINE k == popped + 1
<1>1. /\ task[w] = 0 /\ tasks # <<>> /\ tasks' = Tail(tasks) /\ tasks \in Seq(Nat) /\ parsed \in Seq(Parts)
      /\ UNCHANGED <<upVars, ioVars, begun, overlapped, downlink, downVars>>
      /\ task' = [task EXCEPT ![w] = Head(tasks)] /\ rest' = [rest EXCEPT ![w] = Encode(parsed[Head(tasks)])]
  BY DEF Handle, RelayInv, PoolTypes
<1>2. /\ Len(tasks) \in Nat \ {0} /\ Len(tasks') = Len(tasks) - 1 /\ tasks' \in Seq(Nat)
      /\ Head(tasks) = tasks[1] /\ \A i \in 1 .. Len(tasks') : tasks'[i] = tasks[i + 1]
  BY <1>1, HeadTailProperties
<1>3. popped \in Nat /\ popped' = popped + 1 /\ k \in 1 .. Len(parsed) /\ Head(tasks) = k
  BY <1>1, <1>2 DEF popped, RelayInv, InOrder, ioVars
<1> HIDE DEF k
<1>4. parsed[k] \in Parts /\ Encode(parsed[k]) \in Seq(Nat) /\ k \in Nat
  BY <1>1, <1>3, EncodeType
<1>5. \A v \in Workers : /\ task'[v] = IF v = w THEN k ELSE task[v]
                         /\ rest'[v] = IF v = w THEN Encode(parsed[k]) ELSE rest[v]
  BY <1>1, <1>3 DEF RelayInv, PoolTypes
<1>6. UNCHANGED <<parsed, begun, recvBuffer, toSend, uplink, downlink, header, reader>>
  BY <1>1 DEF upVars, ioVars, downVars
<1>7. WireTypes' /\ PoolTypes'
  BY <1>1, <1>2, <1>3, <1>4, <1>6 DEF RelayInv, WireTypes, PoolTypes
<1>8. InOrder'
  BY <1>2, <1>3 DEF RelayInv, InOrder
<1>9. k # 0 /\ k \notin Begun /\ k = popped + 1 /\ \A v \in Workers : task[v] # k
  BY <1>3, <1>4 DEF RelayInv, Served, k
<1>10. \A v \in Workers : Untouched(v)' <=> v = w \/ Untouched(v)
  BY <1>1, <1>5, <1>6, <1>9 DEF Untouched
<1>11. Served'
  <2>1. Begun' = Begun
    BY <1>6 DEF Begun
  <2>2. \A v \in Workers : task'[v] # 0 => Len(rest'[v]) <= Len(Encode(parsed[task'[v]]))
    <3> SUFFICES ASSUME NEW v \in Workers, task'[v] # 0
                 PROVE  Len(rest'[v]) <= Len(Encode(parsed[task'[v]]))
      OBVIOUS
    <3>1. CASE v = w
      BY <1>4, <1>5, <3>1
    <3>2. CASE v # w
      BY <1>5, <3>2 DEF RelayInv, Served
    <3> QED BY <3>1, <3>2
  <2>3. \A v \in Workers : task'[v] \in 0 .. popped'
    BY <1>3, <1>5, <1>9 DEF RelayInv, Served
  <2>4. \A u, v \in Workers : task'[u] # 0 /\ task'[u] = task'[v] => u = v
    BY <1>5, <1>9 DEF RelayInv, Served
  <2>5. Begun \subseteq 1 .. popped'
    BY <1>3 DEF RelayInv, Served
  <2>6. \A v \in Workers : Untouched(v)' => task'[v] \notin Begun
    BY <1>5, <1>9, <1>10 DEF RelayInv, Served
  <2>7. \A j \in 1 .. popped' : j \in Begun \/ \E v \in Workers : Untouched(v)' /\ task'[v] = j
    <3> SUFFICES ASSUME NEW j \in 1 .. popped', j \notin Begun
                 PROVE  \E v \in Workers : Untouched(v)' /\ task'[v] = j
      OBVIOUS
    <3>1. CASE j = k
      BY <1>5, <1>10, <3>1
    <3>2. CASE j \in 1 .. popped
      <4>1. PICK v \in Workers : Untouched(v) /\ task[v] = j
        BY <3>2 DEF RelayInv, Served
      <4>2. v # w
        BY <1>1, <3>2, <4>1
      <4> QED BY <1>5, <1>10, <4>1, <4>2
    <3> QED BY <1>3, <1>9, <3>1, <3>2
  <2> QED BY <1>6, <2>1, <2>2, <2>3, <2>4, <2>5, <2>6, <2>7 DEF Served
<1>12. FewOvertaken'
  BY <1>6 DEF RelayInv, FewOvertaken, BegunBefore
<1> QED BY <1>7, <1>8, <1>11, <1>12 DEF RelayInv

(* Whatever was begun after a packet left the queue is in other hands.     *)
LEMMA OvertakenAreHeld ==
  ASSUME RelayInv, NEW w \in Workers, Untouched(w)
  PROVE  Cardinality((1 .. task[w] - 1) \ Begun) < Cardinality(Workers)
<1> DEFINE S == (1 .. task[w] - 1) \ Begun
           T == Workers \ {w}
<1>1. task[w] \in 1 .. popped /\ popped \in Nat
  BY DEF RelayInv, InOrder, Served, Untouched
<1>2. \A j \in S : \E v \in T : task[v] = j
  <2> SUFFICES ASSUME NEW j \in S PROVE \E v \in T : task[v] = j
    OBVIOUS
  <2>1. j \in 1 .. popped /\ j \notin Begun /\ j # task[w]
    BY <1>1
  <2> QED BY <2>1 DEF RelayInv, Served
<1> DEFINE holder == [j \in S |-> CHOOSE v \in T : task[v] = j]
<1>3. \A j \in S : holder[j] \in T /\ task[holder[j]] = j
  BY <1>2
<1>4. holder \in Injection(S, T)
  <2>1. holder \in [S -> T]
    BY <1>3
  <2>2. \A i, j \in S : holder[i] = holder[j] => i = j
    BY <1>3
  <2> HIDE DEF holder, S, T
  <2> QED BY <2>1, <2>2 DEF Injection, IsInjective
<1>5. IsFiniteSet(T) /\ Cardinality(T) = Cardinality(Workers) - 1 /\ Cardinality(Workers) \in Nat
  BY RelayAssumption, FS_RemoveElement, FS_CardinalityType
<1>6. IsFiniteSet(S) /\ Cardinality(S) <= Cardinality(T)
  <2> HIDE DEF holder, S, T
  <2> QED BY <1>4, <1>5, FS_Injection
<1>7. Cardinality(S) \in Nat
  BY <1>6, FS_CardinalityType
<1> HIDE DEF S, T
<1>8. Cardinality(S) < Cardinality(Workers)
  BY <1>5, <1>6, <1>7
<1> QED BY <1>8 DEF S

(* A worker sends some of its packet: the first time, the packet is begun. *)
LEMMA TransmitKeeps ==
  ASSUME RelayInv, NEW w \in Workers, Transmit(w)
  PROVE  RelayInv'
<1> DEFINE k == task[w]
<1>1. /\ UNCHANGED <<upVars, ioVars, tasks, downVars>> /\ task[w] # 0
      /\ task' = IF rest'[w] = <<>> THEN [task EXCEPT ![w] = 0] ELSE task
      /\ begun' = IF Untouched(w) THEN Append(begun, k) ELSE begun
  BY DEF Transmit
<1>2. /\ rest[w] \in Seq(Nat) /\ downlink \in Seq(Nat) /\ begun \in Seq(Nat)
      /\ task \in [Workers -> Nat] /\ rest \in [Workers -> Seq(Nat)]
  BY DEF RelayInv, PoolTypes, WireTypes
<1>3. PICK n \in AtMost(rest[w], SocketRoom - Len(downlink)) :
        downlink' = downlink \o First(rest[w], n) /\ rest' = [rest EXCEPT ![w] = From(rest[w], n)]
  BY DEF Transmit, Unsent
<1>4. /\ First(rest[w], n) \in Seq(Nat) /\ From(rest[w], n) \in Seq(Nat)
      /\ Len(From(rest[w], n)) = Len(rest[w]) - n /\ n \in 1 .. Len(rest[w]) /\ Len(rest[w]) \in Nat
  <2>1. SocketRoom - Len(downlink) \in Int
    BY <1>2, RelayAssumption
  <2> QED BY <1>2, <2>1, AtMostType, CutType
<1>5. /\ \A v \in Workers : v # w => rest'[v] = rest[v] /\ task'[v] = task[v]
      /\ task'[w] \in {0, k} /\ rest'[w] \in Seq(Nat) /\ Len(rest'[w]) < Len(rest[w])
      /\ rest' \in [Workers -> Seq(Nat)]
  <2>1. rest' = [rest EXCEPT ![w] = rest'[w]] /\ rest'[w] = From(rest[w], n)
    BY <1>2, <1>3
  <2>2. \A v \in Workers : v # w => rest'[v] = rest[v] /\ task'[v] = task[v]
    BY <1>1, <1>2, <2>1
  <2>3. task'[w] \in {0, k}
    BY <1>1, <1>2
  <2>4. rest'[w] \in Seq(Nat) /\ Len(rest'[w]) < Len(rest[w])
    BY <1>4, <2>1
  <2>5. rest' \in [Workers -> Seq(Nat)]
    BY <1>2, <2>1, <2>4
  <2> QED BY <2>2, <2>3, <2>4, <2>5
<1>6. UNCHANGED <<parsed, tasks, popped, recvBuffer, toSend, uplink, header, reader>>
  BY <1>1 DEF upVars, ioVars, downVars, popped
<1>7. k \in 1 .. popped /\ popped \in Nat /\ Len(rest[w]) <= Len(Encode(parsed[k]))
      /\ popped <= Len(parsed) /\ parsed[k] \in Parts
  <2>1. /\ k \in 1 .. popped /\ popped \in Nat /\ Len(rest[w]) <= Len(Encode(parsed[k]))
        /\ parsed \in Seq(Parts) /\ Len(tasks) \in Nat
    BY <1>1 DEF RelayInv, InOrder, Served, PoolTypes
  <2>2. popped <= Len(parsed) /\ Len(parsed) \in Nat
    BY <2>1 DEF popped
  <2> QED BY <2>1, <2>2
<1> HIDE DEF k
<1>8. ~Untouched(w)'
  <2>1. Len(rest'[w]) \in Nat /\ Len(Encode(parsed[k])) \in Nat
    BY <1>5, <1>7, EncodeType
  <2>2. Len(rest'[w]) < Len(Encode(parsed[k]))
    <3>1. Len(rest'[w]) < Len(rest[w]) /\ Len(rest[w]) <= Len(Encode(parsed[k])) /\ Len(rest[w]) \in Nat
      BY <1>4, <1>5, <1>7
    <3> QED BY <2>1, <3>1
  <2>3. rest'[w] # Encode(parsed[k])
    BY <2>1, <2>2
  <2> QED BY <1>5, <1>6, <2>3 DEF Untouched
<1>9. \A v \in Workers : Untouched(v)' <=> v # w /\ Untouched(v)
  BY <1>5, <1>6, <1>8 DEF Untouched
<1>10. begun' \in Seq(Nat) /\ Begun' = Begun \cup (IF Untouched(w) THEN {k} ELSE {})
  <2>1. CASE Untouched(w)
    <3>1. begun' = Append(begun, k) /\ k \in Nat
      BY <1>1, <1>7, <2>1
    <3>2. /\ begun' \in Seq(Nat) /\ Len(begun') = Len(begun) + 1 /\ Len(begun) \in Nat
          /\ \A i \in 1 .. Len(begun) : begun'[i] = begun[i] /\ begun'[Len(begun) + 1] = k
      BY <1>2, <3>1, AppendProperties
    <3>3. begun'[Len(begun) + 1] = k
      BY <1>2, <3>1, AppendProperties
    <3> QED BY <2>1, <3>2, <3>3 DEF Begun
  <2>2. CASE ~Untouched(w)
    BY <1>1, <1>2, <2>2 DEF Begun
  <2> QED BY <2>1, <2>2
<1>11. task' \in [Workers -> Nat]
  BY <1>1, <1>2
<1>12. WireTypes' /\ PoolTypes' /\ InOrder'
  <2>1. downlink' \in Seq(Nat)
    BY <1>2, <1>3, <1>4, ConcatProperties
  <2>2. WireTypes'
    BY <1>6, <2>1 DEF RelayInv, WireTypes
  <2>3. PoolTypes'
    BY <1>5, <1>6, <1>10, <1>11 DEF RelayInv, PoolTypes
  <2>4. InOrder'
    BY <1>6 DEF RelayInv, InOrder
  <2> QED BY <2>2, <2>3, <2>4
<1>13. Served'
  <2>1. \A v \in Workers : task'[v] # 0 => Len(rest'[v]) <= Len(Encode(parsed[task'[v]]))
    <3> SUFFICES ASSUME NEW v \in Workers, task'[v] # 0
                 PROVE  Len(rest'[v]) <= Len(Encode(parsed[task'[v]]))
      OBVIOUS
    <3>1. CASE v = w
      <4>1. task'[v] = k
        BY <1>5, <3>1
      <4>2. Len(Encode(parsed[k])) \in Nat /\ Len(rest'[w]) \in Nat
        BY <1>5, <1>7, EncodeType
      <4>3. Len(rest'[w]) < Len(rest[w]) /\ Len(rest[w]) <= Len(Encode(parsed[k])) /\ Len(rest[w]) \in Nat
        BY <1>4, <1>5, <1>7
      <4> QED BY <3>1, <4>1, <4>2, <4>3
    <3>2. CASE v # w
      BY <1>5, <3>2 DEF RelayInv, Served
    <3> QED BY <3>1, <3>2
  <2>2. \A v \in Workers : task'[v] \in 0 .. popped
    <3> SUFFICES ASSUME NEW v \in Workers PROVE task'[v] \in 0 .. popped
      OBVIOUS
    <3>1. CASE v = w
      BY <1>5, <1>7, <3>1
    <3>2. CASE v # w
      BY <1>5, <3>2 DEF RelayInv, Served
    <3> QED BY <3>1, <3>2
  <2>3. \A u, v \in Workers : task'[u] # 0 /\ task'[u] = task'[v] => u = v
    <3>1. \A v \in Workers : task'[v] # 0 => task'[v] = task[v]
      BY <1>5 DEF k
    <3> QED BY <3>1 DEF RelayInv, Served
  <2>4. Begun' \subseteq 1 .. popped
    BY <1>7, <1>10 DEF RelayInv, Served
  <2>5. \A v \in Workers : Untouched(v)' => task'[v] \notin Begun'
    <3> SUFFICES ASSUME NEW v \in Workers, v # w, Untouched(v) PROVE task[v] \notin Begun'
      BY <1>5, <1>9
    <3>1. task[v] \notin Begun /\ task[v] # k
      BY DEF RelayInv, Served, k, Untouched
    <3> QED BY <1>10, <3>1
  <2>6. \A j \in 1 .. popped : j \in Begun' \/ \E v \in Workers : Untouched(v)' /\ task'[v] = j
    <3> SUFFICES ASSUME NEW j \in 1 .. popped, j \notin Begun'
                 PROVE  \E v \in Workers : Untouched(v)' /\ task'[v] = j
      OBVIOUS
    <3>1. PICK v \in Workers : Untouched(v) /\ task[v] = j
      BY <1>10 DEF RelayInv, Served
    <3>2. v # w
      BY <1>10, <3>1 DEF k
    <3> QED BY <1>5, <1>9, <3>1, <3>2
  <2> QED BY <1>6, <2>1, <2>2, <2>3, <2>4, <2>5, <2>6 DEF Served
<1>14. FewOvertaken'
  <2>1. CASE ~Untouched(w)
    <3>1. begun' = begun
      BY <1>1, <2>1
    <3> QED BY <3>1 DEF RelayInv, FewOvertaken, BegunBefore
  <2>2. CASE Untouched(w)
    <3>1. /\ Len(begun) \in Nat /\ Len(begun') = Len(begun) + 1 /\ begun'[Len(begun) + 1] = k
          /\ \A i \in 1 .. Len(begun) : begun'[i] = begun[i]
          /\ DOMAIN begun = 1 .. Len(begun) /\ DOMAIN begun' = 1 .. Len(begun')
      <4>1. begun \in Seq(Nat) /\ k \in Nat /\ begun' = Append(begun, k)
        BY <1>1, <1>2, <1>7, <2>2 DEF RelayInv, PoolTypes
      <4>2. begun' \in Seq(Nat) /\ Len(begun) \in Nat
        BY <4>1, AppendProperties
      <4>3. Len(begun') = Len(begun) + 1 /\ begun'[Len(begun) + 1] = k
            /\ \A i \in 1 .. Len(begun) : begun'[i] = begun[i]
        BY <4>1, AppendProperties
      <4>4. DOMAIN begun = 1 .. Len(begun) /\ DOMAIN begun' = 1 .. Len(begun')
        BY <4>1, <4>2
      <4> QED BY <4>2, <4>3, <4>4
    <3>2. k \notin Begun /\ Cardinality((1 .. k - 1) \ Begun) < Cardinality(Workers)
      BY <2>2, OvertakenAreHeld DEF k, RelayInv, Served
    <3> SUFFICES ASSUME NEW i \in 1 .. Len(begun) + 1
                 PROVE  LET before == {begun'[j] : j \in 1 .. i - 1}
                        IN  /\ begun'[i] \notin before
                            /\ Cardinality((1 .. begun'[i] - 1) \ before) < Cardinality(Workers)
      BY <3>1 DEF FewOvertaken, BegunBefore
    <3>3. {begun'[j] : j \in 1 .. i - 1} = {begun[j] : j \in 1 .. i - 1}
      <4>1. \A j \in 1 .. i - 1 : begun'[j] = begun[j]
        BY <3>1
      <4> QED BY <4>1
    <3>4. CASE i \in 1 .. Len(begun)
      <4>1. /\ begun[i] \notin BegunBefore(i) /\ begun'[i] = begun[i]
            /\ Cardinality((1 .. begun[i] - 1) \ BegunBefore(i)) < Cardinality(Workers)
        BY <3>1, <3>4 DEF RelayInv, FewOvertaken
      <4> QED BY <3>3, <4>1 DEF BegunBefore
    <3>5. CASE i = Len(begun) + 1
      <4>1. {begun[j] : j \in 1 .. i - 1} = Begun /\ begun'[i] = k
        BY <3>1, <3>5 DEF Begun
      <4> QED BY <3>2, <3>3, <4>1
    <3> QED BY <3>1, <3>4, <3>5
  <2> QED BY <2>1, <2>2
<1> QED BY <1>12, <1>13, <1>14 DEF RelayInv

LEMMA StepRelay == RelayInv /\ [Next]_vars => RelayInv'
<1> SUFFICES ASSUME RelayInv, [Next]_vars PROVE RelayInv'
  OBVIOUS
<1>1. CASE UNCHANGED vars
  BY <1>1, OthersKeep DEF vars, RelayInv, WireTypes, upVars, ioVars, poolVars, downVars
<1> QED BY <1>1, ClientsKeep, ParseKeeps, HandleKeeps, TransmitKeeps DEF Next, Work, Quiet

(* However many workers send, a packet is sent at most once and overtakes  *)
(* at most those the other workers hold (Server.cpp:85-87,                 *)
(* ThreadPool.cpp:26-36).                                                  *)
THEOREM OvertakingIsBounded == Spec => []FewOvertaken
BY InitRelay, StepRelay, PTL DEF Spec, RelayInv
==============================================================================
