------------------------- MODULE RelayFramingProofs -------------------------
(***************************************************************************)
(* The packets taken off the wire are the packets put on it: framing in    *)
(* the server's receive buffer, and the other client's stream as long as   *)
(* sends do not overlap.  Wire is a fold over a sequence; its equations    *)
(* are proved first, by induction on the length.                           *)
(***************************************************************************)
EXTENDS PacketRelayProofs

-----------------------------------------------------------------------------
(* Induction, with a set of numbers in place of a predicate: the strict    *)
(* order of finite sets is well-founded, and n is taken as 1 .. n.         *)
LEMMA Least ==
  ASSUME NEW S \in SUBSET Nat, S # {}
  PROVE  \E m \in S : \A n \in S : m <= n
<1> DEFINE R == StrictSubsetOrdering(Nat)
           T == {1 .. n : n \in S}
<1>1. \E x \in T : \A y \in T : <<y, x>> \notin R
  <2>1. IsWellFoundedOn(R, FiniteSubsetsOf(Nat))
    BY FS_StrictSubsetOrderingWellFounded
  <2>2. T \subseteq FiniteSubsetsOf(Nat)
    BY FS_Interval DEF FiniteSubsetsOf
  <2>3. T # {}
    OBVIOUS
  <2> HIDE DEF R, T
  <2> QED BY <2>1, <2>2, <2>3, WFMin
<1>2. PICK m \in S : \A n \in S : <<1 .. n, 1 .. m>> \notin R
  BY <1>1
<1>3. ASSUME NEW n \in S, n < m
      PROVE  FALSE
  <2>1. /\ 1 .. n \in SUBSET Nat /\ 1 .. m \in SUBSET Nat
        /\ 1 .. n \subseteq 1 .. m /\ m \in 1 .. m /\ m \notin 1 .. n
    BY <1>3
  <2> QED BY <2>1, <1>2 DEF StrictSubsetOrdering
<1> QED BY <1>3

LEMMA Induction ==
  ASSUME NEW S, 0 \in S, \A n \in Nat : n \in S => n + 1 \in S
  PROVE  Nat \subseteq S
<1>1. SUFFICES ASSUME Nat \ S # {} PROVE FALSE
  OBVIOUS
<1>2. PICK m \in Nat \ S : \A n \in Nat \ S : m <= n
  BY <1>1, Least
<1>3. m - 1 \in Nat /\ m - 1 \in S
  BY <1>2
<1> QED BY <1>2, <1>3

-----------------------------------------------------------------------------
(* The recursive function behind FlattenSeq exists and is determined.      *)
IsFlat(f, s, n) == f = [i \in 1 .. n |-> IF i = 1 THEN s[i] ELSE f[i-1] \o s[i]]

LEMMA FlatAt ==
  ASSUME NEW f, NEW s, NEW n \in Nat, IsFlat(f, s, n), NEW i \in 1 .. n
  PROVE  /\ i = 1 => f[i] = s[i]
         /\ i # 1 => f[i] = f[i - 1] \o s[i]
<1> DEFINE g == [j \in 1 .. n |-> IF j = 1 THEN s[j] ELSE f[j-1] \o s[j]]
<1>1. f = g
  BY DEF IsFlat
<1>2. g[i] = IF i = 1 THEN s[i] ELSE f[i-1] \o s[i]
  OBVIOUS
<1> HIDE DEF g
<1> QED BY <1>1, <1>2

LEMMA FlatExists ==
  ASSUME NEW s, NEW m \in Nat
  PROVE  \E f : IsFlat(f, s, m)
<1> DEFINE I == {n \in Nat : \E f : IsFlat(f, s, n)}
<1>1. 0 \in I
  <2>1. IsFlat([i \in 1 .. 0 |-> s[i]], s, 0)
    BY DEF IsFlat
  <2> QED BY <2>1
<1>2. ASSUME NEW n \in Nat, n \in I PROVE n + 1 \in I
  <2>1. PICK f : IsFlat(f, s, n)
    BY <1>2
  <2> DEFINE g == [i \in 1 .. n + 1 |->
                     IF i = n + 1 THEN IF i = 1 THEN s[i] ELSE f[n] \o s[i] ELSE f[i]]
  <2>2. ASSUME NEW i \in 1 .. n + 1 PROVE g[i] = IF i = 1 THEN s[i] ELSE g[i-1] \o s[i]
    <3>1. CASE i = n + 1
      BY <3>1
    <3>2. CASE i # n + 1
      <4>1. i \in 1 .. n /\ (i # 1 => i - 1 \in 1 .. n)
        BY <3>2
      <4>2. g[i] = f[i] /\ (i # 1 => g[i - 1] = f[i - 1])
        BY <4>1
      <4>3. f[i] = IF i = 1 THEN s[i] ELSE f[i-1] \o s[i]
        BY <4>1, <2>1 DEF IsFlat
      <4> QED BY <4>2, <4>3
    <3> QED BY <3>1, <3>2
  <2>3. IsFlat(g, s, n + 1)
    <3>1. g = [i \in 1 .. n + 1 |-> g[i]]
      OBVIOUS
    <3> HIDE DEF g
    <3> QED BY <2>2, <3>1 DEF IsFlat
  <2> QED BY <2>3
<1> HIDE DEF I
<1>3. m \in I
  BY <1>1, <1>2, Induction
<1> QED BY <1>3 DEF I

LEMMA FlattenFcn ==
  ASSUME NEW s, Len(s) \in Nat \ {0}
  PROVE  \E f : FlattenSeq(s) = f[Len(s)] /\ IsFlat(f, s, Len(s))
<1> DEFINE h == CHOOSE f : f = [i \in 1 .. Len(s) |-> IF i = 1 THEN s[i] ELSE f[i-1] \o s[i]]
<1>1. IsFlat(h, s, Len(s))
  BY FlatExists DEF IsFlat
<1>2. FlattenSeq(s) = h[Len(s)]
  BY DEF FlattenSeq
<1> QED BY <1>1, <1>2

LEMMA FlatUnique ==
  ASSUME NEW s, NEW t, NEW f, NEW g, NEW m \in Nat, NEW n \in Nat, m <= n,
         IsFlat(f, s, m), IsFlat(g, t, n), \A i \in 1 .. m : s[i] = t[i]
  PROVE  \A i \in 1 .. m : f[i] = g[i]
<1> DEFINE I == {i \in Nat : i \in 1 .. m => f[i] = g[i]}
<1>1. 0 \in I
  OBVIOUS
<1>2. ASSUME NEW i \in Nat, i \in I PROVE i + 1 \in I
  <2>1. SUFFICES ASSUME i + 1 \in 1 .. m PROVE f[i + 1] = g[i + 1]
    OBVIOUS
  <2> DEFINE j == i + 1
  <2>2. j \in 1 .. m /\ j \in 1 .. n /\ (j = 1 <=> i = 0)
    BY <2>1
  <2>3. j - 1 = i /\ (i # 0 => f[i] = g[i])
    BY <1>2, <2>1
  <2> HIDE DEF j
  <2>4. (j = 1 => f[j] = s[j]) /\ (j # 1 => f[j] = f[j - 1] \o s[j])
    BY <2>2, FlatAt, ZenonT(30)
  <2>5. (j = 1 => g[j] = t[j]) /\ (j # 1 => g[j] = g[j - 1] \o t[j])
    BY <2>2, FlatAt, ZenonT(30)
  <2>6. s[j] = t[j] /\ (j # 1 => f[j - 1] = g[j - 1])
    BY <2>2, <2>3
  <2>7. f[j] = g[j]
    BY <2>4, <2>5, <2>6
  <2> QED BY <2>7 DEF j
<1> HIDE DEF I
<1>3. Nat \subseteq I
  BY <1>1, <1>2, Induction
<1> QED BY <1>3 DEF I

-----------------------------------------------------------------------------
LEMMA CellsAssociative ==
  ASSUME NEW s \in Seq(Nat), NEW t \in Seq(Nat), NEW u \in Seq(Nat)
  PROVE  (s \o t) \o u = s \o (t \o u)
BY ConcatAssociative, SMTT(30)

(* Concatenation under a name of its own, for the algebra.                 *)
Cat(s, t) == s \o t

LEMMA CatType ==
  ASSUME NEW s \in Seq(Nat), NEW t \in Seq(Nat)
  PROVE  Cat(s, t) \in Seq(Nat)
BY ConcatProperties DEF Cat

LEMMA CatAssociative ==
  ASSUME NEW s \in Seq(Nat), NEW t \in Seq(Nat), NEW u \in Seq(Nat)
  PROVE  Cat(Cat(s, t), u) = Cat(s, Cat(t, u))
BY CellsAssociative DEF Cat

(* The equations of Wire.                                                  *)
LEMMA WireEmpty == Wire(<<>>) = <<>>
BY DEF Wire, FlattenSeq

LEMMA WireAppend ==
  ASSUME NEW ps \in Seq(Parts), NEW p \in Parts
  PROVE  Wire(Append(ps, p)) = Wire(ps) \o Encode(p)
<1> DEFINE n == Len(ps)
           s == [i \in DOMAIN ps |-> Encode(ps[i])]
           t == [i \in DOMAIN Append(ps, p) |-> Encode(Append(ps, p)[i])]
<1>1. /\ n \in Nat /\ Len(s) = n /\ Len(t) = n + 1 /\ t[n + 1] = Encode(p)
      /\ \A i \in 1 .. n : s[i] = t[i]
  OBVIOUS
<1>2. Encode(p) \in Seq(Nat)
  BY EncodeType
<1>3. PICK g : FlattenSeq(t) = g[n + 1] /\ IsFlat(g, t, n + 1)
  <2>1. Len(t) \in Nat \ {0} /\ Len(t) = n + 1
    BY <1>1
  <2> HIDE DEF t, n
  <2> QED BY <2>1, FlattenFcn
<1>4. /\ n = 0 => g[n + 1] = t[n + 1]
      /\ n # 0 => g[n + 1] = g[n] \o t[n + 1]
  <2>1. n + 1 \in Nat /\ n + 1 \in 1 .. n + 1 /\ n + 1 - 1 = n /\ (n + 1 = 1 <=> n = 0)
    BY <1>1
  <2> DEFINE k == n + 1
  <2> HIDE DEF t, n, k
  <2>2. (k = 1 => g[k] = t[k]) /\ (k # 1 => g[k] = g[k - 1] \o t[k])
    <3>1. k \in Nat /\ k \in 1 .. k /\ IsFlat(g, t, k)
      BY <1>3, <2>1 DEF k
    <3> QED BY <3>1, FlatAt
  <2>3. k = n + 1 /\ k - 1 = n
    BY <1>1, <2>1 DEF k
  <2> QED BY <2>1, <2>2, <2>3
<1>5. Wire(Append(ps, p)) = FlattenSeq(t) /\ Wire(ps) = FlattenSeq(s)
  BY DEF Wire
<1>6. CASE n = 0
  <2>1. ps = <<>>
    BY <1>6
  <2>2. Wire(ps) = <<>> /\ <<>> \o Encode(p) = Encode(p)
    BY <1>2, <2>1, WireEmpty, ConcatEmptySeq
  <2> HIDE DEF s, t, n
  <2> QED BY <1>1, <1>3, <1>4, <1>5, <1>6, <2>2
<1>7. CASE n # 0
  <2>1. PICK f : FlattenSeq(s) = f[n] /\ IsFlat(f, s, n)
    BY <1>1, <1>7, FlattenFcn
  <2>2. n + 1 \in Nat /\ n <= n + 1 /\ n \in 1 .. n
    BY <1>1, <1>7
  <2> HIDE DEF s, t, n
  <2>3. f[n] = g[n]
    BY <1>1, <1>3, <2>1, <2>2, FlatUnique
  <2> QED BY <1>1, <1>3, <1>4, <1>5, <1>7, <2>1, <2>3
<1> QED BY <1>6, <1>7

LEMMA FrontAndLast ==
  ASSUME NEW S, NEW s \in Seq(S), NEW n \in Nat, Len(s) = n + 1
  PROVE  /\ First(s, n) \in Seq(S) /\ Len(First(s, n)) = n /\ s[n + 1] \in S
         /\ s = Append(First(s, n), s[n + 1])
BY DEF First

LEMMA WireType == ASSUME NEW ps \in Seq(Parts) PROVE Wire(ps) \in Seq(Nat)
<1> DEFINE I == {n \in Nat : \A s \in Seq(Parts) : Len(s) = n => Wire(s) \in Seq(Nat)}
<1>1. 0 \in I
  <2>1. ASSUME NEW s \in Seq(Parts), Len(s) = 0 PROVE Wire(s) \in Seq(Nat)
    <3>1. s = <<>>
      BY <2>1
    <3>2. Wire(<<>>) \in Seq(Nat)
      BY WireEmpty, EmptySeq, Zenon
    <3> QED BY <3>1, <3>2
  <2> QED BY <2>1
<1>2. ASSUME NEW n \in Nat, n \in I PROVE n + 1 \in I
  <2>1. ASSUME NEW s \in Seq(Parts), Len(s) = n + 1 PROVE Wire(s) \in Seq(Nat)
    <3>1. /\ First(s, n) \in Seq(Parts) /\ Len(First(s, n)) = n /\ s[n + 1] \in Parts
          /\ s = Append(First(s, n), s[n + 1])
      BY <2>1, FrontAndLast
    <3>2. Wire(s) = Wire(First(s, n)) \o Encode(s[n + 1])
      BY <3>1, WireAppend
    <3>3. Wire(First(s, n)) \in Seq(Nat) /\ Encode(s[n + 1]) \in Seq(Nat)
      BY <1>2, <3>1, EncodeType
    <3> QED BY <3>2, <3>3, ConcatProperties
  <2> QED BY <2>1
<1> HIDE DEF I
<1>3. Len(ps) \in I
  BY <1>1, <1>2, Induction
<1> QED BY <1>3 DEF I

LEMMA WireConcat ==
  ASSUME NEW ps \in Seq(Parts), NEW qs \in Seq(Parts)
  PROVE  Wire(ps \o qs) = Wire(ps) \o Wire(qs)
<1> DEFINE I == {n \in Nat : \A s \in Seq(Parts) :
                    Len(s) = n => Wire(ps \o s) = Wire(ps) \o Wire(s)}
<1>1. 0 \in I
  <2>1. ASSUME NEW s \in Seq(Parts), Len(s) = 0 PROVE Wire(ps \o s) = Wire(ps) \o Wire(s)
    <3>1. s = <<>> /\ ps \o <<>> = ps
      BY <2>1, ConcatEmptySeq
    <3> QED BY <3>1, WireEmpty, WireType, ConcatEmptySeq
  <2> QED BY <2>1
<1>2. ASSUME NEW n \in Nat, n \in I PROVE n + 1 \in I
  <2>1. ASSUME NEW s \in Seq(Parts), Len(s) = n + 1
        PROVE  Wire(ps \o s) = Wire(ps) \o Wire(s)
    <3> DEFINE t == First(s, n)
               p == s[n + 1]
    <3>1. t \in Seq(Parts) /\ Len(t) = n /\ p \in Parts /\ s = Append(t, p)
      BY <2>1, FrontAndLast
    <3> HIDE DEF t, p
    <3>2. ps \o s = Append(ps \o t, p) /\ ps \o t \in Seq(Parts)
      BY <3>1
    <3>3. Wire(ps \o s) = Wire(ps \o t) \o Encode(p) /\ Wire(s) = Wire(t) \o Encode(p)
      BY <3>1, <3>2, WireAppend
    <3>4. Wire(ps \o t) = Wire(ps) \o Wire(t)
      BY <1>2, <3>1
    <3>5. Wire(ps) \in Seq(Nat) /\ Wire(t) \in Seq(Nat) /\ Encode(p) \in Seq(Nat)
      BY <3>1, WireType, EncodeType
    <3>6. (Wire(ps) \o Wire(t)) \o Encode(p) = Wire(ps) \o (Wire(t) \o Encode(p))
      BY <3>5, CellsAssociative
    <3> QED BY <3>3, <3>4, <3>6
  <2> QED BY <2>1
<1> HIDE DEF I
<1>3. Len(qs) \in I
  BY <1>1, <1>2, Induction
<1> QED BY <1>3 DEF I

-----------------------------------------------------------------------------
(* One packet off the front of a stream of cells.                          *)
LEMMA CellsCancel ==
  ASSUME NEW s \in Seq(Nat), NEW t \in Seq(Nat), NEW u \in Seq(Nat), s \o t = s \o u
  PROVE  t = u
BY ConcatSimplifications

LEMMA CutApart ==
  ASSUME NEW s \in Seq(Nat), NEW n \in 0 .. Len(s)
  PROVE  /\ First(s, n) \in Seq(Nat) /\ Len(First(s, n)) = n
         /\ From(s, n) \in Seq(Nat) /\ Len(From(s, n)) = Len(s) - n
         /\ First(s, n) \o From(s, n) = s
<1>1. /\ First(s, n) \in Seq(Nat) /\ Len(First(s, n)) = n
      /\ From(s, n) \in Seq(Nat) /\ Len(From(s, n)) = Len(s) - n
  BY DEF First, From
<1>2. 1 \in 1 .. Len(s) + 1 /\ n \in 1 - 1 .. Len(s) /\ Len(s) \in n .. Len(s)
  OBVIOUS
<1>3. SubSeq(s, 1, n) \o SubSeq(s, n + 1, Len(s)) = SubSeq(s, 1, Len(s))
  BY <1>2, ConcatAdjacentSubSeq
<1> QED BY <1>1, <1>3, SubSeqFull DEF First, From

LEMMA SplitFront ==
  ASSUME NEW a \in Seq(Nat), NEW b \in Seq(Nat), NEW c \in Seq(Nat), NEW d \in Seq(Nat),
         a \o b = c \o d, Len(a) <= Len(c)
  PROVE  First(c, Len(a)) = a
<1> DEFINE n == Len(a)
           f == First(c, n)
<1>1. n \in 0 .. Len(c) /\ Len(c) \in Nat
  OBVIOUS
<1>2. f \in Seq(Nat) /\ Len(f) = n
  BY <1>1, CutApart
<1>3. ASSUME NEW i \in 1 .. n PROVE f[i] = a[i]
  <2>1. f[i] = c[i] /\ i \in 1 .. Len(c)
    BY <1>1 DEF First
  <2>2. (a \o b)[i] = a[i] /\ (c \o d)[i] = c[i]
    BY <1>1
  <2> QED BY <2>1, <2>2
<1> HIDE DEF f
<1>4. f = a
  BY <1>2, <1>3, SeqEqual
<1> QED BY <1>4 DEF f

LEMMA WireHead ==
  ASSUME NEW ps \in Seq(Parts), ps # <<>>
  PROVE  /\ ps[1] \in Parts /\ Tail(ps) \in Seq(Parts)
         /\ Wire(ps) = Encode(ps[1]) \o Wire(Tail(ps))
<1> DEFINE p == ps[1]
<1>1. p \in Parts /\ Tail(ps) \in Seq(Parts) /\ ps = Append(<<>>, p) \o Tail(ps)
      /\ <<>> \in Seq(Parts) /\ Append(<<>>, p) \in Seq(Parts)
  OBVIOUS
<1> HIDE DEF p
<1>2. Wire(Append(<<>>, p)) = Wire(<<>>) \o Encode(p)
  BY <1>1, WireAppend
<1>3. Encode(p) \in Seq(Nat) /\ Wire(<<>>) = <<>>
  BY <1>1, EncodeType, WireEmpty
<1>4. Wire(Append(<<>>, p)) = Encode(p)
  <2>1. <<>> \o Encode(p) = Encode(p)
    BY <1>3, ConcatEmptySeq
  <2> QED BY <1>2, <1>3, <2>1
<1>5. Wire(ps) = Wire(Append(<<>>, p)) \o Wire(Tail(ps))
  BY <1>1, WireConcat
<1>6. Wire(ps) = Encode(p) \o Wire(Tail(ps))
  BY <1>4, <1>5
<1> QED BY <1>1, <1>6 DEF p

LEMMA JoinedCells ==
  ASSUME NEW s \in Seq(Nat), NEW t \in Seq(Nat)
  PROVE  /\ s \o t \in Seq(Nat) /\ Len(s \o t) = Len(s) + Len(t)
         /\ \A i \in 1 .. Len(s) : (s \o t)[i] = s[i]
         /\ \A i \in 1 .. Len(t) : (s \o t)[Len(s) + i] = t[i]
OBVIOUS

LEMMA EncodeCells ==
  ASSUME NEW p \in Parts
  PROVE  /\ Encode(p) \in Seq(Nat) /\ Len(p.payload) \in Nat
         /\ Len(Encode(p)) = 2 + Len(p.payload)
         /\ Encode(p)[1] = p.type /\ Encode(p)[2] = Len(p.payload)
         /\ \A s \in Seq(Nat) : Len(s) >= Len(Encode(p)) /\ First(s, Len(Encode(p))) = Encode(p)
                                  => Decode(s) = p /\ PacketSize(s) = Len(Encode(p))
<1> DEFINE c == p.type
           q == p.payload
           n == Len(q)
           h == <<c, n>>
           e == Encode(p)
           m == Len(e)
<1>1. c \in Nat /\ q \in Seq(Nat) /\ p = [type |-> c, payload |-> q]
  BY DEF Parts
<1>2. h \in Seq(Nat) /\ Len(h) = 2 /\ h[1] = c /\ h[2] = n /\ e = h \o q /\ n \in Nat
  BY <1>1 DEF Encode
<1>6. n = Len(q) /\ m = Len(e)
  OBVIOUS
<1> HIDE DEF c, q, h, e, n, m
<1>8. /\ h \o q \in Seq(Nat) /\ Len(h \o q) = Len(h) + Len(q)
      /\ \A i \in 1 .. Len(h) : (h \o q)[i] = h[i]
      /\ \A i \in 1 .. Len(q) : (h \o q)[Len(h) + i] = q[i]
  BY <1>1, <1>2, JoinedCells
<1>9. /\ e \in Seq(Nat) /\ Len(e) = Len(h) + n
      /\ \A i \in 1 .. Len(h) : e[i] = h[i]
      /\ \A i \in 1 .. n : e[Len(h) + i] = q[i]
  BY <1>2, <1>6, <1>8
<1>3. e \in Seq(Nat) /\ m = 2 + n /\ m \in Nat
  BY <1>2, <1>6, <1>9
<1>4. e[1] = c /\ e[2] = n
  <2>1. 1 \in 1 .. Len(h) /\ 2 \in 1 .. Len(h)
    BY <1>2
  <2> QED BY <1>2, <1>9, <2>1
<1>5. \A i \in 1 .. n : e[2 + i] = q[i]
  BY <1>2, <1>9
<1>7. ASSUME NEW s \in Seq(Nat), Len(s) >= m, First(s, m) = e
      PROVE  Decode(s) = p /\ PacketSize(s) = m
  <2>1. \A i \in 1 .. m : First(s, m)[i] = s[i]
    BY <1>3, <1>7 DEF First
  <2>2. \A i \in 1 .. m : s[i] = e[i]
    BY <1>7, <2>1
  <2>3. 1 \in 1 .. m /\ 2 \in 1 .. m
    BY <1>2, <1>3
  <2>4. s[1] = c /\ s[2] = n
    BY <1>4, <2>2, <2>3
  <2>5. ASSUME NEW i \in 1 .. n PROVE s[2 + i] = q[i]
    <3>1. 2 + i \in 1 .. m
      BY <1>2, <1>3
    <3> QED BY <1>5, <2>2, <3>1
  <2> DEFINE u == SubSeq(s, 3, m)
  <2>6. u \in Seq(Nat) /\ Len(u) = n /\ \A i \in 1 .. n : u[i] = s[2 + i]
    <3>1. n \in Nat /\ m = 2 + n /\ m <= Len(s) /\ Len(s) \in Nat
      BY <1>2, <1>3, <1>7
    <3> QED BY <3>1
  <2> HIDE DEF u
  <2>7. u = q
    BY <1>1, <1>6, <2>5, <2>6, SeqEqual
  <2>8. PacketSize(s) = m /\ HeaderSize + 1 = 3
    BY <1>3, <2>4 DEF PacketSize, HeaderSize
  <2>9. SubSeq(s, HeaderSize + 1, PacketSize(s)) = q
    BY <2>7, <2>8 DEF u
  <2>10. Decode(s) = [type |-> c, payload |-> q]
    BY <2>4, <2>9, Zenon DEF Decode
  <2> QED BY <1>1, <2>8, <2>10
<1> QED BY <1>2, <1>3, <1>4, <1>7 DEF c, q, e, n, m

(* A stream carries the packets of all: those done, then the cells of buf  *)
(* that were read and the cells of more that were not.                     *)
Underway(all, done, buf, more) ==
  /\ all \in Seq(Parts) /\ done \in Seq(Parts) /\ IsPrefix(done, all)
  /\ buf \in Seq(Nat) /\ more \in Seq(Nat)
  /\ Wire(all) = Wire(done) \o (buf \o more)

(* What is at the front of buf is the packet after those done.             *)
AtFront(all, done, buf, more) ==
  LET p == all[Len(done) + 1]
      left == From(buf, PacketSize(buf))
  IN  /\ Len(done) + 1 \in 1 .. Len(all) /\ p \in Parts
      /\ buf[1] = p.type /\ buf[2] = Len(p.payload)
      /\ WholePacket(buf) =>
           /\ Decode(buf) = p /\ PacketSize(buf) \in 1 .. Len(buf)
           /\ Underway(all, Append(done, p), left, more)

LEMMA NextPacket ==
  ASSUME NEW all, NEW done, NEW buf, NEW more, Underway(all, done, buf, more), Len(buf) >= 2
  PROVE  AtFront(all, done, buf, more)
<1>0. /\ all \in Seq(Parts) /\ done \in Seq(Parts) /\ IsPrefix(done, all)
      /\ buf \in Seq(Nat) /\ more \in Seq(Nat)
      /\ Wire(all) = Wire(done) \o (buf \o more)
  BY DEF Underway
<1> DEFINE n == Len(done)
           todo == SubSeq(all, n + 1, Len(all))
           p == all[n + 1]
           left == From(buf, PacketSize(buf))
<1>1. n \in Nat /\ Len(all) \in Nat /\ n <= Len(all) /\ SubSeq(done, 1, n) = SubSeq(all, 1, n)
  BY <1>0 DEF IsPrefix
<1>2. todo \in Seq(Parts) /\ Len(todo) = Len(all) - n
  BY <1>0, <1>1
<1>3. all = done \o todo
  <2>1. 1 \in 1 .. Len(all) + 1 /\ n \in 1 - 1 .. Len(all) /\ Len(all) \in n .. Len(all)
    BY <1>1
  <2>2. SubSeq(all, 1, n) \o SubSeq(all, n + 1, Len(all)) = SubSeq(all, 1, Len(all))
    BY <1>0, <2>1, ConcatAdjacentSubSeq
  <2> QED BY <1>0, <1>1, <2>2, SubSeqFull
<1>4. Wire(done) \in Seq(Nat) /\ Wire(todo) \in Seq(Nat) /\ buf \o more \in Seq(Nat)
  BY <1>0, <1>2, WireType, ConcatProperties
<1>5. Wire(todo) = buf \o more
  <2> HIDE DEF todo
  <2>1. Wire(all) = Wire(done) \o Wire(todo)
    BY <1>0, <1>2, <1>3, WireConcat
  <2> QED BY <1>0, <1>4, <2>1, CellsCancel
<1>6. todo # <<>>
  <2> HIDE DEF todo
  <2>1. SUFFICES ASSUME todo = <<>> PROVE FALSE
    OBVIOUS
  <2>2. Len(buf \o more) = 0
    <3>1. buf \o more = <<>>
      BY <1>5, <2>1, WireEmpty
    <3> QED BY <3>1
  <2>3. Len(buf \o more) = Len(buf) + Len(more) /\ Len(more) \in Nat
    BY <1>0, ConcatProperties
  <2> QED BY <1>0, <2>2, <2>3
<1>7. n + 1 \in 1 .. Len(all) /\ todo[1] = p /\ p \in Parts
  BY <1>0, <1>1, <1>2, <1>6
<1> HIDE DEF todo, n, p
<1>8. Tail(todo) \in Seq(Parts) /\ Encode(p) \o Wire(Tail(todo)) = buf \o more
  BY <1>2, <1>5, <1>6, <1>7, WireHead
<1> DEFINE W == Wire(Tail(todo))
<1>9. W \in Seq(Nat) /\ Encode(p) \in Seq(Nat) /\ Len(Encode(p)) = 2 + Len(p.payload) /\ Len(p.payload) \in Nat
  BY <1>7, <1>8, WireType, EncodeCells
<1> HIDE DEF W
<1>10. buf[1] = p.type /\ buf[2] = Len(p.payload)
  <2> DEFINE e == Encode(p)
  <2>1. 1 \in 1 .. Len(e) /\ 2 \in 1 .. Len(e) /\ 1 \in 1 .. Len(buf) /\ 2 \in 1 .. Len(buf)
    <3>1. Len(e) \in Nat /\ Len(e) >= 2
      BY <1>9
    <3>2. Len(buf) \in Nat /\ Len(buf) >= 2
      BY <1>0
    <3> HIDE DEF e
    <3> QED BY <3>1, <3>2
  <2>2. e \o W = buf \o more /\ e \in Seq(Nat)
    BY <1>8, <1>9 DEF W
  <2>3. e[1] = p.type /\ e[2] = Len(p.payload)
    BY <1>7, EncodeCells
  <2> HIDE DEF e
  <2>4. \A i \in 1 .. Len(e) : (e \o W)[i] = e[i]
    BY <1>9, <2>2, JoinedCells
  <2>5. \A i \in 1 .. Len(buf) : (buf \o more)[i] = buf[i]
    BY <1>0, JoinedCells
  <2>6. e[1] = buf[1] /\ e[2] = buf[2]
    BY <2>1, <2>2, <2>4, <2>5
  <2> QED BY <2>3, <2>6
<1>11. ASSUME WholePacket(buf)
       PROVE  /\ Decode(buf) = p /\ PacketSize(buf) \in 1 .. Len(buf)
              /\ Underway(all, Append(done, p), left, more)
  <2>1. PacketSize(buf) = Len(Encode(p)) /\ Len(Encode(p)) <= Len(buf) /\ PacketSize(buf) \in 1 .. Len(buf)
    BY <1>0, <1>9, <1>10, <1>11 DEF WholePacket, PacketSize, HeaderSize
  <2>2. left \in Seq(Nat)
    BY <1>0, <2>1, CutType
  <2> HIDE DEF left
  <2>3. First(buf, Len(Encode(p))) = Encode(p) /\ W = left \o more
    <3>1. Encode(p) \o W = buf \o more
      BY <1>8 DEF W
    <3> DEFINE e == Encode(p)
    <3>2. e \in Seq(Nat) /\ W \in Seq(Nat) /\ Len(e) <= Len(buf) /\ e \o W = buf \o more
      BY <1>9, <2>1, <3>1
    <3>3. PacketSize(buf) = Len(e)
      BY <2>1
    <3> HIDE DEF e
    <3>4. First(buf, Len(e)) = e
      BY <1>0, <3>2, SplitFront
    <3>5. left \o more \in Seq(Nat) /\ First(buf, Len(e)) \o left = buf
      <4>1. left \o more \in Seq(Nat)
        BY <1>0, <2>2, ConcatProperties
      <4>2. PacketSize(buf) \in 0 .. Len(buf)
        BY <2>1
      <4>3. First(buf, PacketSize(buf)) \o From(buf, PacketSize(buf)) = buf
        BY <1>0, <4>2, CutApart
      <4> QED BY <3>3, <4>1, <4>3 DEF left
    <3>6. (e \o left) \o more = e \o (left \o more)
      BY <1>0, <2>2, <3>2, CellsAssociative
    <3>7. e \o W = e \o (left \o more)
      BY <3>2, <3>4, <3>5, <3>6
    <3>8. W = left \o more
      BY <3>2, <3>5, <3>7, CellsCancel
    <3> QED BY <3>4, <3>8 DEF e
  <2>4. Decode(buf) = p
    <3>1. Len(buf) >= Len(Encode(p))
      BY <1>0, <2>1
    <3> QED BY <1>0, <1>7, <2>3, <3>1, EncodeCells
  <2>5. IsPrefix(Append(done, p), all)
    <3> DEFINE a == Append(done, p)
    <3>1. a \in Seq(Parts) /\ Len(a) = n + 1
      BY <1>0, <1>7 DEF n
    <3>2. \A i \in 1 .. n + 1 : a[i] = all[i]
      <4>1. \A i \in 1 .. n : done[i] = all[i]
        <5>1. \A i \in 1 .. n : SubSeq(done, 1, n)[i] = done[i] /\ SubSeq(all, 1, n)[i] = all[i]
          BY <1>0, <1>1 DEF n
        <5> QED BY <1>1, <5>1
      <4> QED BY <1>0, <1>1, <1>7, <4>1 DEF n, p
    <3> HIDE DEF a
    <3>3. SubSeq(a, 1, n + 1) = SubSeq(all, 1, n + 1)
      <4>1. /\ SubSeq(a, 1, n + 1) \in Seq(Parts) /\ Len(SubSeq(a, 1, n + 1)) = n + 1
            /\ SubSeq(all, 1, n + 1) \in Seq(Parts) /\ Len(SubSeq(all, 1, n + 1)) = n + 1
            /\ \A i \in 1 .. n + 1 : SubSeq(a, 1, n + 1)[i] = a[i] /\ SubSeq(all, 1, n + 1)[i] = all[i]
        BY <1>0, <1>1, <1>7, <3>1
      <4>2. \A i \in 1 .. n + 1 : SubSeq(a, 1, n + 1)[i] = SubSeq(all, 1, n + 1)[i]
        BY <3>2, <4>1
      <4> QED BY <4>1, <4>2, SeqEqual
    <3>4. IsPrefix(a, all)
      BY <1>0, <1>1, <1>7, <3>1, <3>3 DEF IsPrefix
    <3> QED BY <3>4 DEF a
  <2>6. Wire(all) = Wire(Append(done, p)) \o (left \o more)
    <3>1. Wire(Append(done, p)) = Wire(done) \o Encode(p)
      BY <1>0, <1>7, WireAppend
    <3>2. Wire(all) = Wire(done) \o (Encode(p) \o W)
      BY <1>0, <1>8 DEF W
    <3>3. Wire(done) \o (Encode(p) \o W) = (Wire(done) \o Encode(p)) \o W
      <4>1. Cat(Wire(done), Cat(Encode(p), W)) = Cat(Cat(Wire(done), Encode(p)), W)
        BY <1>4, <1>9, CatAssociative
      <4> QED BY <4>1 DEF Cat
    <3> QED BY <2>3, <3>1, <3>2, <3>3
  <2>7. Append(done, p) \in Seq(Parts)
    BY <1>0, <1>7
  <2> QED BY <1>0, <2>1, <2>2, <2>4, <2>5, <2>6, <2>7 DEF Underway
<1> HIDE DEF left
<1> QED BY <1>7, <1>10, <1>11 DEF n, p, left, AtFront

-----------------------------------------------------------------------------
(* The server's side: what was sent is what was parsed, then the buffer,   *)
(* then what is on its way.                                                *)
FramedInv ==
  /\ sent \in Seq(Packets) /\ parsed \in Seq(Packets)
  /\ Underway(sent, parsed, recvBuffer, uplink \o toSend)

LEMMA PacketsTyped ==
  /\ Seq(Packets) \subseteq Seq(Parts)
  /\ \A p \in Packets : Len(p.payload) <= MAX_PAYLOAD_SIZE
<1>1. ASSUME NEW p \in Packets PROVE Len(p.payload) <= MAX_PAYLOAD_SIZE
  <2>1. PICK n \in 0 .. MAX_PAYLOAD_SIZE : p.payload \in [1 .. n -> Texts]
    BY DEF Packets
  <2>2. n \in Nat /\ n <= MAX_PAYLOAD_SIZE
    BY RelayAssumption
  <2> QED BY <2>1, <2>2
<1> QED BY <1>1, PacketsAreParts

LEMMA PrefixAppend ==
  ASSUME NEW S, NEW s \in Seq(S), NEW t \in Seq(S), NEW x \in S, IsPrefix(s, t)
  PROVE  IsPrefix(s, Append(t, x))
BY DEF IsPrefix

LEMMA PrefixAt ==
  ASSUME NEW S, NEW s \in Seq(S), NEW t \in Seq(S), IsPrefix(s, t)
  PROVE  Len(s) <= Len(t) /\ \A i \in 1 .. Len(s) : s[i] = t[i]
<1> DEFINE n == Len(s)
<1>1. n \in Nat /\ Len(t) \in Nat /\ n <= Len(t) /\ SubSeq(s, 1, n) = SubSeq(t, 1, n)
  BY DEF IsPrefix
<1>2. \A i \in 1 .. n : SubSeq(s, 1, n)[i] = s[i] /\ SubSeq(t, 1, n)[i] = t[i]
  BY <1>1
<1> QED BY <1>1, <1>2

(* A cut moved from the front of t to the end of s.                        *)
LEMMA Moved ==
  ASSUME NEW s \in Seq(Nat), NEW t \in Seq(Nat), NEW n \in 1 .. Len(t)
  PROVE  (s \o First(t, n)) \o From(t, n) = s \o t
<1> DEFINE f == First(t, n)
           g == From(t, n)
<1>1. f \in Seq(Nat) /\ g \in Seq(Nat) /\ f \o g = t
  BY CutApart
<1> HIDE DEF f, g
<1>2. (s \o f) \o g = s \o (f \o g)
  <2>1. Cat(Cat(s, f), g) = Cat(s, Cat(f, g))
    BY <1>1, CatAssociative
  <2> QED BY <2>1 DEF Cat
<1> QED BY <1>1, <1>2 DEF f, g

(* Some cells are read; a packet is put behind all the others.             *)
LEMMA ReadSome ==
  ASSUME NEW all, NEW done, NEW buf, NEW cells \in Seq(Nat), NEW tail \in Seq(Nat),
         Underway(all, done, buf, cells \o tail), NEW n \in 1 .. Len(cells)
  PROVE  Underway(all, done, buf \o First(cells, n), From(cells, n) \o tail)
<1> DEFINE f == First(cells, n)
           g == From(cells, n)
           W == Wire(done)
<1>1. f \in Seq(Nat) /\ g \in Seq(Nat) /\ f \o g = cells
  BY CutApart
<1>2. buf \in Seq(Nat) /\ W \in Seq(Nat) /\ Wire(all) = W \o (buf \o (cells \o tail))
  BY WireType DEF Underway
<1> HIDE DEF f, g, W
<1>3. g \o tail \in Seq(Nat) /\ buf \o f \in Seq(Nat)
  BY <1>1, <1>2, ConcatProperties
<1>4. buf \o (cells \o tail) = (buf \o f) \o (g \o tail)
  <2>1. cells = Cat(f, g)
    BY <1>1 DEF Cat
  <2>2. Cat(buf, Cat(Cat(f, g), tail)) = Cat(Cat(buf, f), Cat(g, tail))
    BY <1>1, <1>2, CatType, CatAssociative
  <2> QED BY <2>1, <2>2 DEF Cat
<1> QED BY <1>2, <1>3, <1>4 DEF Underway, f, g, W

LEMMA SendMore ==
  ASSUME NEW all, NEW done, NEW buf, NEW more, Underway(all, done, buf, more), NEW p \in Parts
  PROVE  Underway(Append(all, p), done, buf, more \o Encode(p))
<1> DEFINE e == Encode(p)
           W == Wire(done)
<1>1. /\ all \in Seq(Parts) /\ done \in Seq(Parts) /\ IsPrefix(done, all)
      /\ buf \in Seq(Nat) /\ more \in Seq(Nat) /\ Wire(all) = W \o (buf \o more)
      /\ W \in Seq(Nat) /\ e \in Seq(Nat)
  BY WireType, EncodeType DEF Underway
<1>2. Append(all, p) \in Seq(Parts) /\ IsPrefix(done, Append(all, p))
  BY <1>1, PrefixAppend
<1>6. Wire(Append(all, p)) = Wire(all) \o e
  BY <1>1, WireAppend
<1> HIDE DEF e, W
<1>3. more \o e \in Seq(Nat)
  BY <1>1, ConcatProperties
<1>4. (W \o (buf \o more)) \o e = W \o (buf \o (more \o e))
  <2>1. Cat(Cat(W, Cat(buf, more)), e) = Cat(W, Cat(buf, Cat(more, e)))
    BY <1>1, CatType, CatAssociative
  <2> QED BY <2>1 DEF Cat
<1>5. Wire(Append(all, p)) = W \o (buf \o (more \o e))
  BY <1>1, <1>4, <1>6
<1> QED BY <1>1, <1>2, <1>3, <1>5 DEF Underway, e, W

LEMMA NothingUnderway == Underway(<<>>, <<>>, <<>>, <<>>)
<1>1. /\ <<>> \in Seq(Parts) /\ <<>> \in Seq(Nat) /\ IsPrefix(<<>>, <<>>)
      /\ <<>> \o (<<>> \o <<>>) = <<>>
  BY DEF IsPrefix
<1> QED BY <1>1, WireEmpty DEF Underway

LEMMA InitFramed == Init => FramedInv
<1> SUFFICES ASSUME Init PROVE FramedInv
  OBVIOUS
<1>1. sent = <<>> /\ parsed = <<>> /\ recvBuffer = <<>> /\ uplink = <<>> /\ toSend = <<>>
  BY DEF Init
<1>2. <<>> \in Seq(Packets) /\ uplink \o toSend = <<>>
  BY <1>1
<1> QED BY <1>1, <1>2, NothingUnderway DEF FramedInv

LEMMA BeginSendFramed ==
  ASSUME RelayInv, FramedInv, NEW p \in Packets, BeginSend(p)
  PROVE  FramedInv'
<1>1. /\ toSend = <<>> /\ sent' = Append(sent, p) /\ toSend' = Encode(p)
      /\ UNCHANGED <<uplink, recvBuffer, parsed>>
  BY DEF BeginSend, ioVars
<1>2. p \in Parts /\ uplink \in Seq(Nat)
  BY PacketsAreParts DEF RelayInv, WireTypes
<1>3. uplink \o toSend = uplink
  BY <1>1, <1>2, ConcatEmptySeq
<1>4. Underway(sent, parsed, recvBuffer, uplink)
  BY <1>3 DEF FramedInv
<1>5. Underway(Append(sent, p), parsed, recvBuffer, uplink \o Encode(p))
  BY <1>2, <1>4, SendMore
<1>6. sent' \in Seq(Packets) /\ parsed' \in Seq(Packets)
  BY <1>1 DEF FramedInv
<1> QED BY <1>1, <1>5, <1>6 DEF FramedInv

LEMMA ParseFramed ==
  ASSUME RelayInv, FramedInv, Parse
  PROVE  FramedInv'
<1>1. CASE ~WholePacket(recvBuffer)
  <2>1. UNCHANGED <<sent, toSend, uplink, recvBuffer, parsed>>
    BY <1>1 DEF Parse, upVars
  <2> QED BY <2>1 DEF FramedInv
<1>2. CASE WholePacket(recvBuffer)
  <2> DEFINE more == uplink \o toSend
             p == sent[Len(parsed) + 1]
             left == From(recvBuffer, PacketSize(recvBuffer))
  <2>1. /\ parsed' = Append(parsed, Decode(recvBuffer)) /\ recvBuffer' = left
        /\ UNCHANGED <<sent, toSend, uplink>>
    BY <1>2 DEF Parse, TakePacket, upVars
  <2>2. /\ sent \in Seq(Packets) /\ parsed \in Seq(Packets)
        /\ Underway(sent, parsed, recvBuffer, more)
    BY DEF FramedInv
  <2>3. Len(recvBuffer) >= 2
    BY <1>2 DEF WholePacket, HeaderSize
  <2>4. more' = more
    BY <2>1
  <2> HIDE DEF more
  <2>5. AtFront(sent, parsed, recvBuffer, more)
    BY <2>2, <2>3, NextPacket
  <2>6. /\ Len(parsed) + 1 \in 1 .. Len(sent) /\ Decode(recvBuffer) = p
        /\ Underway(sent, Append(parsed, p), left, more)
    BY <1>2, <2>5 DEF AtFront
  <2>7. p \in Packets
    BY <2>2, <2>6
  <2> HIDE DEF p, left
  <2>8. parsed' \in Seq(Packets) /\ Underway(sent', parsed', recvBuffer', more')
    BY <2>1, <2>2, <2>4, <2>6, <2>7
  <2> QED BY <2>1, <2>2, <2>8 DEF FramedInv, more
<1> QED BY <1>1, <1>2

LEMMA StepFramed == RelayInv /\ FramedInv /\ [Next]_vars => FramedInv'
<1> SUFFICES ASSUME RelayInv, FramedInv, [Next]_vars PROVE FramedInv'
  OBVIOUS
<1>0. /\ toSend \in Seq(Nat) /\ uplink \in Seq(Nat) /\ recvBuffer \in Seq(Nat)
      /\ SocketRoom \in Nat /\ RECV_BUFFER_SIZE \in Nat
  BY RelayAssumption DEF RelayInv, WireTypes
<1>1. CASE SendSome
  <2>1. PICK n \in AtMost(toSend, SocketRoom - Len(uplink)) :
          /\ uplink' = uplink \o First(toSend, n) /\ toSend' = From(toSend, n)
          /\ UNCHANGED <<sent, ioVars, tasks, poolVars, downlink, downVars>>
    BY <1>1 DEF SendSome
  <2>2. SocketRoom - Len(uplink) \in Int
    BY <1>0
  <2>3. n \in 1 .. Len(toSend)
    BY <1>0, <2>2, AtMostType
  <2>4. uplink' \o toSend' = uplink \o toSend
    BY <1>0, <2>1, <2>3, Moved
  <2> QED BY <2>1, <2>4 DEF FramedInv, ioVars
<1>2. CASE Receive
  <2>1. PICK n \in AtMost(uplink, RECV_BUFFER_SIZE) :
          recvBuffer' = recvBuffer \o First(uplink, n) /\ uplink' = From(uplink, n)
    BY <1>2 DEF Receive
  <2>2. n \in 1 .. Len(uplink)
    BY <1>0, AtMostType
  <2>3. Underway(sent, parsed, recvBuffer, uplink \o toSend)
    BY DEF FramedInv
  <2>4. Underway(sent, parsed, recvBuffer \o First(uplink, n), From(uplink, n) \o toSend)
    BY <1>0, <2>2, <2>3, ReadSome
  <2> QED BY <1>2, <2>1, <2>4 DEF FramedInv, Receive
<1>3. CASE (\E w \in Workers : Work(w)) \/ Read \/ Quiet \/ UNCHANGED vars
  <2>1. UNCHANGED <<sent, toSend, uplink, recvBuffer, parsed>>
    BY <1>3 DEF Work, Handle, Transmit, Read, ReadHeader, ReadPayload, Deliver, Quiet, vars, upVars, ioVars
  <2> QED BY <2>1 DEF FramedInv
<1> QED BY <1>1, <1>2, <1>3, BeginSendFramed, ParseFramed DEF Next

(* However the cells arrive, the server takes apart what the client put    *)
(* together, and loses or repeats no cell (PacketReceiver.cpp:24-62).      *)
THEOREM ServerFraming == Spec => []Framed
<1>1. RelayInv /\ FramedInv => Framed
  <2> SUFFICES ASSUME RelayInv, FramedInv PROVE Framed
    OBVIOUS
  <2> DEFINE W == Wire(parsed)
  <2>1. /\ W \in Seq(Nat) /\ recvBuffer \in Seq(Nat) /\ uplink \in Seq(Nat) /\ toSend \in Seq(Nat)
        /\ Wire(sent) = W \o (recvBuffer \o (uplink \o toSend)) /\ IsPrefix(parsed, sent)
    BY WireType DEF RelayInv, WireTypes, FramedInv, Underway
  <2> HIDE DEF W
  <2>2. ((W \o recvBuffer) \o uplink) \o toSend = W \o (recvBuffer \o (uplink \o toSend))
    <3>1. Cat(Cat(Cat(W, recvBuffer), uplink), toSend) = Cat(W, Cat(recvBuffer, Cat(uplink, toSend)))
      BY <2>1, CatType, CatAssociative
    <3> QED BY <3>1 DEF Cat
  <2>3. Wire(sent) = ((W \o recvBuffer) \o uplink) \o toSend
    BY <2>1, <2>2
  <2> QED BY <2>1, <2>3 DEF Framed, W
<1> QED BY <1>1, InitRelay, StepRelay, InitFramed, StepFramed, PTL DEF Spec

-----------------------------------------------------------------------------
(* A size field the server reads is that of a packet sent.                 *)
LEMMA SizesFit ==
  ASSUME RelayInv, FramedInv, Len(recvBuffer) >= 2
  PROVE  recvBuffer[2] <= MAX_PAYLOAD_SIZE
<1> DEFINE more == uplink \o toSend
           p == sent[Len(parsed) + 1]
<1>1. sent \in Seq(Packets) /\ Underway(sent, parsed, recvBuffer, more)
  BY DEF FramedInv
<1> HIDE DEF more
<1>2. AtFront(sent, parsed, recvBuffer, more)
  BY <1>1, NextPacket
<1>3. Len(parsed) + 1 \in 1 .. Len(sent) /\ recvBuffer[2] = Len(p.payload)
  BY <1>2 DEF AtFront
<1>4. p \in Packets
  BY <1>1, <1>3
<1> QED BY <1>3, <1>4, PacketsTyped

HeldInv == io \in {"epoll", "parse"} /\ NothingHeldBack

LEMMA StepHeld == RelayInv /\ FramedInv /\ HeldInv /\ [Next]_vars => HeldInv'
<1> SUFFICES ASSUME RelayInv, FramedInv, HeldInv, [Next]_vars PROVE HeldInv'
  OBVIOUS
<1> USE DEF HeldInv, NothingHeldBack
<1>0. /\ recvBuffer \in Seq(Nat) /\ uplink \in Seq(Nat) /\ RECV_BUFFER_SIZE \in Nat \ {0}
      /\ MAX_PAYLOAD_SIZE \in Nat /\ HeaderSize = 2
  BY RelayAssumption DEF RelayInv, WireTypes, HeaderSize
<1>1. CASE Receive
  <2>1. PICK n \in AtMost(uplink, RECV_BUFFER_SIZE) :
          recvBuffer' = recvBuffer \o First(uplink, n) /\ uplink' = From(uplink, n)
    BY <1>1 DEF Receive
  <2>2. n \in 1 .. Len(uplink) /\ n <= RECV_BUFFER_SIZE
    BY <1>0 DEF AtMost
  <2>3. First(uplink, n) \in Seq(Nat) /\ Len(First(uplink, n)) = n
    BY <1>0, <2>2, CutApart
  <2>4. Len(recvBuffer') = Len(recvBuffer) + n
    BY <1>0, <2>1, <2>3, ConcatProperties
  <2>5. Len(recvBuffer) < 2 + MAX_PAYLOAD_SIZE
    <3>1. CASE Len(recvBuffer) >= 2
      <4>1. recvBuffer[2] <= MAX_PAYLOAD_SIZE /\ recvBuffer[2] \in Nat
        BY <1>0, <3>1, SizesFit
      <4>2. Len(recvBuffer) < 2 + recvBuffer[2]
        BY <1>0, <1>1, <3>1, <4>1 DEF Receive, WholePacket, PacketSize
      <4> QED BY <1>0, <4>1, <4>2
    <3> QED BY <1>0, <3>1
  <2> QED BY <1>0, <1>1, <2>2, <2>4, <2>5 DEF Receive
<1>2. CASE Parse
  <2>1. CASE ~WholePacket(recvBuffer)
    BY <1>2, <2>1 DEF Parse
  <2>2. CASE WholePacket(recvBuffer)
    <3>1. recvBuffer' = From(recvBuffer, PacketSize(recvBuffer)) /\ UNCHANGED io
      BY <1>2, <2>2 DEF Parse, TakePacket
    <3>2. PacketSize(recvBuffer) \in 1 .. Len(recvBuffer)
      BY <1>0, <2>2, DecodeType
    <3>3. recvBuffer' \in Seq(Nat) /\ Len(recvBuffer') = Len(recvBuffer) - PacketSize(recvBuffer)
      BY <1>0, <3>1, <3>2, CutType
    <3> QED BY <1>0, <1>2, <3>1, <3>2, <3>3 DEF Parse
  <2> QED BY <2>1, <2>2
<1>3. CASE (\E p \in Packets : BeginSend(p)) \/ SendSome \/ (\E w \in Workers : Work(w)) \/ Read \/ Quiet \/ UNCHANGED vars
  <2>1. UNCHANGED <<io, recvBuffer>>
    BY <1>3 DEF BeginSend, SendSome, Work, Handle, Transmit, Read, ReadHeader, ReadPayload, Deliver, Quiet, vars, ioVars
  <2> QED BY <2>1 DEF WholePacket, PacketSize
<1> QED BY <1>1, <1>2, <1>3 DEF Next

(* No whole packet waits in the buffer for more cells to come, and the     *)
(* buffer stays below one packet and one recv (PacketReceiver.cpp:37-47).  *)
THEOREM ParsedAtOnce == Spec => []NothingHeldBack
<1>1. Init => HeldInv
  BY RelayAssumption DEF Init, HeldInv, NothingHeldBack, WholePacket, HeaderSize
<1>2. HeldInv => NothingHeldBack
  BY DEF HeldInv
<1> QED BY <1>1, <1>2, InitRelay, StepRelay, InitFramed, StepFramed, StepHeld, PTL DEF Spec

-----------------------------------------------------------------------------
(* The other client's side.  The packets put on the wire, in that order;   *)
(* what the socket still has to get is the rest of the worker in mid-      *)
(* packet, of which there is one at most, or nothing.                      *)
Out == [i \in 1 .. Len(begun) |-> parsed[begun[i]]]

Remains(t) == /\ t \in Seq(Nat)
              /\ \A w \in Workers : MidPacket(w) => t = rest[w]
              /\ (\A w \in Workers : ~MidPacket(w)) => t = <<>>

Faithful ==
  /\ reader \in {"header", "payload"}
  /\ reader = "header" => Len(header) < 2
  /\ reader = "payload" => Len(header) >= 2 /\ Len(header) <= Wanted
  /\ \E t : Remains(t) /\ Underway(Out, received, header, downlink \o t)

ReadInv ==
  /\ received \in Seq(Parts) /\ reader \in {"header", "payload", "closed"}
  /\ overlapped \in BOOLEAN
  /\ Len(uplink) <= SocketRoom /\ Len(downlink) <= SocketRoom
  /\ ~overlapped => Faithful

RelayTypes ==
  /\ toSend \in Seq(Nat) /\ uplink \in Seq(Nat) /\ recvBuffer \in Seq(Nat)
  /\ downlink \in Seq(Nat) /\ header \in Seq(Nat)
  /\ parsed \in Seq(Packets) /\ parsed \in Seq(Parts) /\ begun \in Seq(Nat)
  /\ task \in [Workers -> Nat] /\ rest \in [Workers -> Seq(Nat)]
  /\ SocketRoom \in Nat \ {0} /\ MAX_PAYLOAD_SIZE \in Nat
  /\ popped \in 0 .. Len(parsed) /\ Begun \subseteq 1 .. popped

LEMMA RelayTyped == RelayInv /\ FramedInv => RelayTypes
<1> SUFFICES ASSUME RelayInv, FramedInv PROVE RelayTypes
  OBVIOUS
<1>1. parsed \in Seq(Packets) /\ parsed \in Seq(Parts) /\ tasks \in Seq(Nat)
  BY PacketsTyped DEF FramedInv, RelayInv, PoolTypes
<1>2. popped \in 0 .. Len(parsed)
  BY <1>1 DEF RelayInv, InOrder, popped
<1> QED BY <1>1, <1>2, RelayAssumption DEF RelayTypes, RelayInv, WireTypes, PoolTypes, Served

LEMMA OutType ==
  ASSUME RelayTypes
  PROVE  /\ Out \in Seq(Parts) /\ Len(Out) = Len(begun)
         /\ \A i \in 1 .. Len(begun) : begun[i] \in 1 .. Len(parsed) /\ Out[i] = parsed[begun[i]]
                                       /\ Out[i] \in Packets
<1>1. Len(begun) \in Nat /\ begun \in Seq(Nat) /\ parsed \in Seq(Packets) /\ parsed \in Seq(Parts)
  BY DEF RelayTypes
<1>2. ASSUME NEW i \in 1 .. Len(begun) PROVE begun[i] \in 1 .. Len(parsed)
  <2>1. begun[i] \in Begun
    BY DEF Begun
  <2>2. begun[i] \in 1 .. popped /\ popped \in 0 .. Len(parsed)
    BY <2>1 DEF RelayTypes
  <2> QED BY <1>1, <2>2
<1>3. \A i \in 1 .. Len(begun) : parsed[begun[i]] \in Parts /\ parsed[begun[i]] \in Packets
  BY <1>1, <1>2
<1> QED BY <1>1, <1>2, <1>3 DEF Out

(* Sizes the other client reads are those of packets sent.                 *)
LEMMA ReadSizesFit ==
  ASSUME RelayTypes, NEW buf, NEW more, Underway(Out, received, buf, more), Len(buf) >= 2
  PROVE  buf[2] <= MAX_PAYLOAD_SIZE /\ buf[2] \in Nat
<1> DEFINE k == Len(received) + 1
<1>1. AtFront(Out, received, buf, more)
  BY NextPacket
<1>2. k \in 1 .. Len(Out) /\ buf[2] = Len(Out[k].payload)
  BY <1>1 DEF AtFront
<1> HIDE DEF k
<1>3. Out[k] \in Packets
  BY <1>2, OutType
<1>4. buf \in Seq(Nat)
  BY DEF Underway
<1> QED BY <1>2, <1>3, <1>4, PacketsTyped

(* A step that leaves what the other client reads alone.                   *)
LEMMA ReadSideSame ==
  ASSUME ReadInv, Len(uplink') <= SocketRoom, Out' = Out,
         \A w \in Workers : /\ MidPacket(w)' <=> MidPacket(w)
                            /\ MidPacket(w) => rest'[w] = rest[w],
         UNCHANGED <<overlapped, downlink, reader, header, received>>
  PROVE  ReadInv'
<1>1. \A t : Remains(t) => Remains(t)'
  BY DEF Remains
<1>2. \A t : Underway(Out, received, header, downlink \o t) => Underway(Out, received, header, downlink \o t)'
  BY DEF Underway
<1>3. Faithful => Faithful'
  BY <1>1, <1>2 DEF Faithful, Wanted, PacketSize
<1> QED BY <1>3 DEF ReadInv

LEMMA UpstreamReads ==
  ASSUME RelayTypes, ReadInv, (\E p \in Packets : BeginSend(p)) \/ SendSome \/ Receive
  PROVE  ReadInv'
<1>1. UNCHANGED <<parsed, begun, task, rest, overlapped, downlink, reader, header, received>>
  BY DEF BeginSend, SendSome, Receive, ioVars, poolVars, downVars
<1>2. Len(uplink') <= SocketRoom
  <2>1. CASE \E p \in Packets : BeginSend(p)
    BY <2>1 DEF BeginSend, ReadInv
  <2>2. CASE SendSome
    <3>1. PICK n \in AtMost(toSend, SocketRoom - Len(uplink)) : uplink' = uplink \o First(toSend, n)
      BY <2>2 DEF SendSome
    <3>2. n \in 1 .. Len(toSend) /\ n <= SocketRoom - Len(uplink)
      BY DEF RelayTypes, AtMost
    <3>3. First(toSend, n) \in Seq(Nat) /\ Len(First(toSend, n)) = n
      BY <3>2, CutApart DEF RelayTypes
    <3> QED BY <3>1, <3>2, <3>3 DEF RelayTypes
  <2>3. CASE Receive
    <3>1. PICK n \in AtMost(uplink, RECV_BUFFER_SIZE) : uplink' = From(uplink, n)
      BY <2>3 DEF Receive
    <3>3. uplink \in Seq(Nat) /\ RECV_BUFFER_SIZE \in Int
      BY RelayAssumption DEF RelayTypes
    <3>4. n \in 1 .. Len(uplink)
      BY <3>3, AtMostType
    <3>2. n \in 1 .. Len(uplink) /\ Len(uplink') = Len(uplink) - n
      BY <3>1, <3>3, <3>4, CutType
    <3> QED BY <3>2 DEF RelayTypes, ReadInv
  <2> QED BY <2>1, <2>2, <2>3
<1>3. Out' = Out /\ \A w \in Workers : MidPacket(w)' <=> MidPacket(w)
  BY <1>1 DEF Out, MidPacket, Untouched
<1> QED BY <1>1, <1>2, <1>3, ReadSideSame

LEMMA ParseReads ==
  ASSUME RelayInv, RelayTypes, ReadInv, Parse
  PROVE  ReadInv'
<1>1. UNCHANGED <<uplink, task, rest, begun, overlapped, downlink, reader, header, received>>
  BY DEF Parse, upVars, poolVars, downVars
<1>2. \A k \in 1 .. Len(parsed) : parsed'[k] = parsed[k]
  <2>1. CASE WholePacket(recvBuffer)
    <3>1. parsed' = Append(parsed, Decode(recvBuffer)) /\ Decode(recvBuffer) \in Parts
      BY <2>1, DecodeType DEF Parse, TakePacket, RelayTypes
    <3> QED BY <3>1 DEF RelayTypes
  <2>2. CASE ~WholePacket(recvBuffer)
    BY <2>2 DEF Parse
  <2> QED BY <2>1, <2>2
<1>3. Out' = Out
  <2>1. \A i \in 1 .. Len(begun) : parsed'[begun[i]] = parsed[begun[i]]
    BY <1>2, OutType
  <2> QED BY <1>1, <2>1 DEF Out
<1>4. \A w \in Workers : task[w] # 0 => parsed'[task[w]] = parsed[task[w]]
  <2> SUFFICES ASSUME NEW w \in Workers, task[w] # 0 PROVE task[w] \in 1 .. Len(parsed)
    BY <1>2
  <2>1. task[w] \in 0 .. popped /\ popped \in 0 .. Len(parsed) /\ Len(parsed) \in Nat
    BY DEF RelayInv, Served, RelayTypes
  <2> QED BY <2>1
<1>5. \A w \in Workers : MidPacket(w)' <=> MidPacket(w)
  BY <1>1, <1>4 DEF MidPacket, Untouched
<1> QED BY <1>1, <1>3, <1>5, ReadSideSame DEF ReadInv

LEMMA HandleReads ==
  ASSUME RelayTypes, ReadInv, NEW w \in Workers, Handle(w)
  PROVE  ReadInv'
<1>1. /\ UNCHANGED <<uplink, parsed, begun, overlapped, downlink, reader, header, received>>
      /\ task[w] = 0 /\ task' = [task EXCEPT ![w] = Head(tasks)]
      /\ rest' = [rest EXCEPT ![w] = Encode(parsed[Head(tasks)])]
  BY DEF Handle, upVars, ioVars, downVars
<1>2. Out' = Out
  BY <1>1 DEF Out
<1>3. task \in [Workers -> Nat] /\ rest \in [Workers -> Seq(Nat)]
  BY DEF RelayTypes
<1>4. ~MidPacket(w) /\ ~MidPacket(w)'
  BY <1>1, <1>3 DEF MidPacket, Untouched
<1>5. \A v \in Workers : v # w => (MidPacket(v)' <=> MidPacket(v)) /\ rest'[v] = rest[v]
  BY <1>1, <1>3 DEF MidPacket, Untouched
<1> QED BY <1>1, <1>2, <1>4, <1>5, ReadSideSame DEF ReadInv

(* A worker's send goes on with its packet, or puts it behind the others.  *)
LEMMA TransmitReads ==
  ASSUME RelayInv, RelayTypes, ReadInv, NEW w \in Workers, Transmit(w)
  PROVE  ReadInv'
<1> DEFINE k == task[w]
<1>1. /\ UNCHANGED <<uplink, parsed, reader, header, received>> /\ k # 0
      /\ task' = IF rest'[w] = <<>> THEN [task EXCEPT ![w] = 0] ELSE task
      /\ begun' = IF Untouched(w) THEN Append(begun, k) ELSE begun
      /\ overlapped' = (overlapped \/ \E v \in Workers \ {w} : MidPacket(v))
  BY DEF Transmit, upVars, ioVars, downVars
<1>2. /\ rest[w] \in Seq(Nat) /\ downlink \in Seq(Nat) /\ begun \in Seq(Nat)
      /\ task \in [Workers -> Nat] /\ rest \in [Workers -> Seq(Nat)] /\ SocketRoom \in Nat
  BY DEF RelayTypes
<1>3. PICK n \in AtMost(rest[w], SocketRoom - Len(downlink)) :
        downlink' = downlink \o First(rest[w], n) /\ rest' = [rest EXCEPT ![w] = From(rest[w], n)]
  BY DEF Transmit, Unsent
<1>u. PICK u : u = From(rest[w], n)
  OBVIOUS
<1>4. n \in 1 .. Len(rest[w]) /\ n <= SocketRoom - Len(downlink)
  BY <1>2 DEF AtMost
<1>5. /\ First(rest[w], n) \in Seq(Nat) /\ Len(First(rest[w], n)) = n
      /\ u \in Seq(Nat) /\ Len(u) = Len(rest[w]) - n
  <2>1. rest[w] \in Seq(Nat) /\ n \in 0 .. Len(rest[w])
    BY <1>2, <1>4
  <2>2. First(rest[w], n) \in Seq(Nat) /\ Len(First(rest[w], n)) = n
    BY <2>1, CutApart
  <2>3. From(rest[w], n) \in Seq(Nat) /\ Len(From(rest[w], n)) = Len(rest[w]) - n
    BY <2>1, CutApart
  <2> QED BY <1>u, <2>2, <2>3
<1>6. rest'[w] = u /\ \A v \in Workers : v # w => rest'[v] = rest[v] /\ task'[v] = task[v]
  BY <1>1, <1>2, <1>3, <1>u
<1>7. Len(downlink') <= SocketRoom
  BY <1>2, <1>3, <1>4, <1>5
<1>8. downlink' \o u = downlink \o rest[w]
  <2>1. (downlink \o First(rest[w], n)) \o From(rest[w], n) = downlink \o rest[w]
    <3>1. rest[w] \in Seq(Nat) /\ downlink \in Seq(Nat)
      BY <1>2
    <3> QED BY <1>4, <3>1, Moved
  <2> QED BY <1>3, <1>u, <2>1
<1>9. k \in 1 .. Len(parsed) /\ Len(rest[w]) <= Len(Encode(parsed[k])) /\ parsed[k] \in Parts
  <2>1. k \in 0 .. popped /\ Len(rest[w]) <= Len(Encode(parsed[k]))
    BY <1>1 DEF RelayInv, Served
  <2>2. popped \in 0 .. Len(parsed) /\ parsed \in Seq(Parts)
    BY DEF RelayTypes
  <2>3. k \in 1 .. Len(parsed)
    BY <1>1, <2>1, <2>2
  <2> QED BY <2>1, <2>2, <2>3
<1> HIDE DEF k
<1>10. \A v \in Workers : v # w => (MidPacket(v)' <=> MidPacket(v))
  BY <1>1, <1>6 DEF MidPacket, Untouched
<1>11. MidPacket(w)' <=> u # <<>>
  <2>1. CASE u = <<>>
    BY <1>1, <1>2, <1>6, <2>1 DEF MidPacket, Untouched
  <2>2. CASE u # <<>>
    <3>1. task' = task
      BY <1>1, <1>6, <2>2
    <3>2. Len(rest'[w]) < Len(Encode(parsed[k]))
      BY <1>2, <1>4, <1>5, <1>6, <1>9, EncodeType
    <3>3. rest'[w] # Encode(parsed[k])
      BY <1>9, <3>2, EncodeType
    <3> QED BY <1>1, <2>2, <3>1, <3>3 DEF MidPacket, Untouched, k
  <2> QED BY <2>1, <2>2
<1>12. ASSUME ~overlapped' PROVE Faithful'
  <2>1. ~overlapped /\ \A v \in Workers : v # w => ~MidPacket(v)
    BY <1>1, <1>12
  <2>2. PICK t : Remains(t) /\ Underway(Out, received, header, downlink \o t)
    BY <2>1 DEF ReadInv, Faithful
  <2>3. Remains(u)'
    BY <1>5, <1>6, <1>10, <1>11, <2>1 DEF Remains
  <2>4. Underway(Out', received, header, downlink \o rest[w])
    <3>1. CASE Untouched(w)
      <4>1. t = <<>>
        BY <2>1, <2>2, <3>1 DEF Remains, MidPacket
      <4>2. downlink \o t = downlink
        BY <1>2, <4>1, ConcatEmptySeq
      <4>3. Underway(Out, received, header, downlink)
        BY <2>2, <4>2
      <4>4. Underway(Append(Out, parsed[k]), received, header, downlink \o Encode(parsed[k]))
        BY <1>9, <4>3, SendMore
      <4>5. Out' = Append(Out, parsed[k])
        <5>1. begun' = Append(begun, k) /\ parsed' = parsed /\ Len(begun) \in Nat
          BY <1>1, <1>2, <3>1
        <5>2. Len(begun') = Len(begun) + 1 /\ begun'[Len(begun) + 1] = k
              /\ \A i \in 1 .. Len(begun) : begun'[i] = begun[i]
          BY <1>2, <1>9, <5>1
        <5>3. Out \in Seq(Parts) /\ Len(Out) = Len(begun)
          BY OutType
        <5> DEFINE a == Append(Out, parsed[k])
        <5>4. /\ a = [i \in 1 .. Len(begun) + 1 |-> a[i]]
              /\ \A i \in 1 .. Len(begun) : a[i] = Out[i]
              /\ a[Len(begun) + 1] = parsed[k]
          BY <1>9, <5>3
        <5> HIDE DEF a
        <5>5. ASSUME NEW i \in 1 .. Len(begun) + 1 PROVE parsed[begun'[i]] = a[i]
          <6>1. CASE i \in 1 .. Len(begun)
            BY <5>2, <5>4, <6>1 DEF Out
          <6>2. CASE i = Len(begun) + 1
            BY <5>2, <5>4, <6>2
          <6> QED BY <5>1, <6>1, <6>2
        <5>6. Out' = [i \in 1 .. Len(begun) + 1 |-> parsed[begun'[i]]]
          BY <5>1, <5>2 DEF Out
        <5>7. Out' = a
          BY <5>4, <5>5, <5>6
        <5> QED BY <5>7 DEF a
      <4>6. rest[w] = Encode(parsed[k])
        BY <3>1 DEF Untouched, k
      <4> QED BY <4>4, <4>5, <4>6
    <3>2. CASE ~Untouched(w)
      <4>1. MidPacket(w)
        BY <1>1, <3>2 DEF MidPacket, k
      <4>2. t = rest[w]
        BY <2>2, <4>1 DEF Remains
      <4>3. Out' = Out
        BY <1>1, <3>2 DEF Out
      <4> QED BY <2>2, <4>2, <4>3
    <3> QED BY <3>1, <3>2
  <2>5. Underway(Out', received', header', downlink' \o u)
    BY <1>1, <1>8, <2>4
  <2>6. /\ reader' \in {"header", "payload"} /\ (reader' = "header" => Len(header') < 2)
        /\ (reader' = "payload" => Len(header') >= 2 /\ Len(header') <= Wanted')
    BY <1>1, <2>1 DEF ReadInv, Faithful, Wanted, PacketSize
  <2> QED BY <2>3, <2>5, <2>6 DEF Faithful, Remains
<1> QED BY <1>1, <1>7, <1>12 DEF ReadInv

(* recv gives the other client cells of what it waits for.                 *)
LEMMA GatherReads ==
  ASSUME RelayTypes, ReadInv, NEW n \in Int, Gather(n)
  PROVE  /\ header' \in Seq(Nat) /\ Len(header') <= n /\ Len(header') > Len(header)
         /\ \A i \in 1 .. Len(header) : header'[i] = header[i]
         /\ Len(downlink') <= SocketRoom
         /\ \A t \in Seq(Nat) : Underway(Out, received, header, downlink \o t)
                                  => Underway(Out, received, header', downlink' \o t)
<1>1. PICK k \in AtMost(downlink, n - Len(header)) :
        header' = header \o First(downlink, k) /\ downlink' = From(downlink, k)
  BY DEF Gather
<1>2. downlink \in Seq(Nat) /\ header \in Seq(Nat) /\ Len(header) \in Nat /\ Len(downlink) \in Nat
  BY DEF RelayTypes
<1>3. k \in 1 .. Len(downlink) /\ k <= n - Len(header)
  BY <1>2 DEF AtMost
<1>4. First(downlink, k) \in Seq(Nat) /\ Len(First(downlink, k)) = k
  BY <1>2, <1>3, CutApart
<1>5. /\ header' \in Seq(Nat) /\ Len(header') = Len(header) + k
      /\ \A i \in 1 .. Len(header) : header'[i] = header[i]
  BY <1>1, <1>2, <1>4, JoinedCells
<1>6. Len(downlink') <= SocketRoom
  <2>1. Len(downlink') = Len(downlink) - k
    BY <1>1, <1>2, <1>3, CutType
  <2> QED BY <1>2, <1>3, <2>1 DEF ReadInv, RelayTypes
<1>7. ASSUME NEW t \in Seq(Nat), Underway(Out, received, header, downlink \o t)
      PROVE  Underway(Out, received, header', downlink' \o t)
  <2>1. Underway(Out, received, header \o First(downlink, k), From(downlink, k) \o t)
    BY <1>2, <1>3, <1>7, ReadSome
  <2> QED BY <1>1, <2>1
<1> QED BY <1>2, <1>3, <1>5, <1>6, <1>7

LEMMA ReadHeaderReads ==
  ASSUME RelayTypes, ReadInv, ReadHeader
  PROVE  ReadInv'
<1>1. /\ reader = "header" /\ Gather(2)
      /\ reader' = IF Len(header') < 2 THEN "header"
                   ELSE IF header'[2] > MAX_PAYLOAD_SIZE THEN "closed" ELSE "payload"
      /\ UNCHANGED <<received, uplink, parsed, begun, task, rest, overlapped>>
  BY DEF ReadHeader, HeaderSize, upVars, ioVars, poolVars
<1>2. /\ header' \in Seq(Nat) /\ Len(header') <= 2 /\ Len(downlink') <= SocketRoom
      /\ \A t \in Seq(Nat) : Underway(Out, received, header, downlink \o t)
                               => Underway(Out, received, header', downlink' \o t)
  BY <1>1, GatherReads
<1>3. ASSUME ~overlapped PROVE Faithful'
  <2>1. PICK t : Remains(t) /\ Underway(Out, received, header, downlink \o t)
    BY <1>3 DEF ReadInv, Faithful
  <2>2. Underway(Out, received, header', downlink' \o t)
    BY <1>2, <2>1 DEF Remains
  <2>3. Remains(t)' /\ Out' = Out
    BY <1>1, <2>1 DEF Remains, MidPacket, Untouched, Out
  <2>4. Underway(Out, received, header, downlink \o t)'
    BY <1>1, <2>2, <2>3
  <2>5. /\ reader' \in {"header", "payload"} /\ (reader' = "header" => Len(header') < 2)
        /\ (reader' = "payload" => Len(header') >= 2 /\ Len(header') <= Wanted')
    <3>1. CASE Len(header') < 2
      BY <1>1, <3>1
    <3>2. CASE Len(header') >= 2
      <4>1. header'[2] <= MAX_PAYLOAD_SIZE /\ header'[2] \in Nat
        BY <2>2, <3>2, ReadSizesFit
      <4>6. Len(header') \in Nat
        BY <1>2
      <4>7. Len(header') <= 2
        BY <1>2
      <4>2. Len(header') = 2
        BY <3>2, <4>6, <4>7
      <4>4. ~(header'[2] > MAX_PAYLOAD_SIZE)
        BY <4>1 DEF RelayTypes
      <4>5. reader' = "payload"
        <5>1. ~(Len(header') < 2)
          BY <4>2
        <5> QED BY <1>1, <4>4, <5>1
      <4>3. Wanted' = 2 + header'[2]
        BY DEF Wanted, PacketSize, HeaderSize
      <4> QED BY <4>1, <4>2, <4>3, <4>5
    <3> QED BY <1>2, <3>1, <3>2
  <2> QED BY <2>3, <2>4, <2>5 DEF Faithful
<1> QED BY <1>1, <1>2, <1>3 DEF ReadInv

LEMMA ReadPayloadReads ==
  ASSUME RelayTypes, WireTypes, ReadInv, ReadPayload
  PROVE  ReadInv'
<1>1. /\ reader = "payload" /\ Gather(Wanted) /\ Len(header) >= 2 /\ Wanted = 2 + header[2]
      /\ UNCHANGED <<reader, received, uplink, parsed, begun, task, rest, overlapped>>
  BY DEF ReadPayload, WireTypes, Wanted, PacketSize, HeaderSize, upVars, ioVars, poolVars
<1>2. header \in Seq(Nat) /\ Wanted \in Int
  BY <1>1 DEF RelayTypes
<1>3. /\ header' \in Seq(Nat) /\ Len(header') <= Wanted /\ Len(downlink') <= SocketRoom
      /\ Len(header') > Len(header) /\ \A i \in 1 .. Len(header) : header'[i] = header[i]
      /\ \A t \in Seq(Nat) : Underway(Out, received, header, downlink \o t)
                               => Underway(Out, received, header', downlink' \o t)
  BY <1>1, <1>2, GatherReads
<1>4. Wanted' = Wanted
  <2>1. header'[2] = header[2]
    BY <1>1, <1>2, <1>3
  <2> QED BY <2>1 DEF Wanted, PacketSize
<1>5. ASSUME ~overlapped PROVE Faithful'
  <2>1. PICK t : Remains(t) /\ Underway(Out, received, header, downlink \o t)
    BY <1>5 DEF ReadInv, Faithful
  <2>2. Underway(Out, received, header', downlink' \o t)
    BY <1>3, <2>1 DEF Remains
  <2>3. Remains(t)' /\ Out' = Out
    BY <1>1, <2>1 DEF Remains, MidPacket, Untouched, Out
  <2>4. Underway(Out, received, header, downlink \o t)'
    BY <1>1, <2>2, <2>3
  <2>5. Len(header') >= 2
    BY <1>1, <1>2, <1>3
  <2> QED BY <1>1, <1>3, <1>4, <2>3, <2>4, <2>5 DEF Faithful
<1> QED BY <1>1, <1>3, <1>5 DEF ReadInv

LEMMA DeliverReads ==
  ASSUME RelayTypes, WireTypes, ReadInv, Deliver
  PROVE  ReadInv'
<1>1. /\ reader = "payload" /\ Len(header) = Wanted /\ Len(header) >= 2 /\ Wanted = PacketSize(header)
      /\ received' = Append(received, Decode(header)) /\ header' = <<>> /\ reader' = "header"
      /\ UNCHANGED <<uplink, downlink, parsed, begun, task, rest, overlapped>>
  BY DEF Deliver, WireTypes, Wanted, HeaderSize, upVars, ioVars, poolVars
<1>2. header \in Seq(Nat) /\ WholePacket(header)
  BY <1>1 DEF RelayTypes, WholePacket, HeaderSize
<1>3. received' \in Seq(Parts)
  BY <1>1, <1>2, DecodeType DEF ReadInv
<1>4. ASSUME ~overlapped PROVE Faithful'
  <2>1. PICK t : Remains(t) /\ Underway(Out, received, header, downlink \o t)
    BY <1>4 DEF ReadInv, Faithful
  <2> DEFINE more == downlink \o t
             left == From(header, PacketSize(header))
  <2>2. AtFront(Out, received, header, more)
    <3> HIDE DEF more
    <3>1. Underway(Out, received, header, more)
      BY <2>1 DEF more
    <3> QED BY <1>1, <3>1, NextPacket
  <2>3. Underway(Out, Append(received, Decode(header)), left, more)
    <3> HIDE DEF more
    <3> QED BY <1>2, <2>2 DEF AtFront
  <2>4. left = <<>>
    BY <1>1, <1>2 DEF From
  <2>5. Remains(t)' /\ Out' = Out
    BY <1>1, <2>1 DEF Remains, MidPacket, Untouched, Out
  <2>6. Underway(Out, received, header, downlink \o t)'
    BY <1>1, <2>3, <2>4, <2>5
  <2>7. Len(header') < 2
    BY <1>1
  <2> QED BY <1>1, <2>5, <2>6, <2>7 DEF Faithful
<1> QED BY <1>1, <1>3, <1>4 DEF ReadInv

LEMMA StepReads == RelayInv /\ FramedInv /\ ReadInv /\ [Next]_vars => ReadInv'
<1> SUFFICES ASSUME RelayInv, FramedInv, ReadInv, [Next]_vars PROVE ReadInv'
  OBVIOUS
<1>0. RelayTypes /\ WireTypes
  BY RelayTyped DEF RelayInv
<1>1. CASE Quiet \/ UNCHANGED vars
  <2>1. UNCHANGED <<uplink, parsed, begun, task, rest, overlapped, downlink, reader, header, received>>
    BY <1>1 DEF Quiet, vars, upVars, ioVars, poolVars, downVars
  <2>2. Out' = Out /\ \A w \in Workers : MidPacket(w)' <=> MidPacket(w)
    BY <2>1 DEF Out, MidPacket, Untouched
  <2> QED BY <2>1, <2>2, ReadSideSame DEF ReadInv
<1>2. CASE (\E p \in Packets : BeginSend(p)) \/ SendSome \/ Receive
  BY <1>0, <1>2, UpstreamReads
<1>3. CASE Parse
  BY <1>0, <1>3, ParseReads
<1>4. ASSUME NEW w \in Workers, Work(w) PROVE ReadInv'
  BY <1>0, <1>4, HandleReads, TransmitReads DEF Work
<1>5. CASE Read
  BY <1>0, <1>5, ReadHeaderReads, ReadPayloadReads, DeliverReads DEF Read
<1> QED BY <1>1, <1>2, <1>3, <1>4, <1>5 DEF Next

LEMMA InitReads == Init => ReadInv
<1> SUFFICES ASSUME Init PROVE ReadInv
  OBVIOUS
<1>1. /\ begun = <<>> /\ received = <<>> /\ header = <<>> /\ downlink = <<>> /\ uplink = <<>>
      /\ reader = "header" /\ overlapped = FALSE /\ \A w \in Workers : task[w] = 0
  BY DEF Init
<1>2. Out = <<>>
  BY <1>1 DEF Out
<1>3. <<>> \in Seq(Nat) /\ downlink \o <<>> = <<>> /\ <<>> \in Seq(Parts) /\ Len(<<>>) = 0
  BY <1>1
<1>4. Remains(<<>>)
  BY <1>1, <1>3 DEF Remains, MidPacket
<1>5. Underway(Out, received, header, downlink \o <<>>)
  BY <1>1, <1>2, <1>3, NothingUnderway
<1>6. Faithful
  BY <1>1, <1>3, <1>4, <1>5 DEF Faithful
<1>7. Len(uplink) <= SocketRoom /\ Len(downlink) <= SocketRoom
  BY <1>1, <1>3, RelayAssumption
<1> QED BY <1>1, <1>3, <1>6, <1>7 DEF ReadInv

(* While no two workers have been at one socket at a time, the other       *)
(* client reads the packets whole and in the order their sends began       *)
(* (PacketSender.cpp:22-36).                                               *)
THEOREM DeliveredAsSent == Spec => []ReadAsSent
<1>1. RelayInv /\ FramedInv /\ ReadInv => ReadAsSent
  <2> SUFFICES ASSUME RelayInv, FramedInv, ReadInv, ~overlapped
               PROVE  /\ reader # "closed" /\ Len(received) <= Len(begun)
                      /\ \A i \in DOMAIN received : received[i] = parsed[begun[i]]
    BY DEF ReadAsSent
  <2>1. Faithful /\ received \in Seq(Parts) /\ RelayTypes
    BY RelayTyped DEF ReadInv
  <2>2. Out \in Seq(Parts) /\ Len(Out) = Len(begun)
        /\ \A i \in 1 .. Len(begun) : Out[i] = parsed[begun[i]]
    BY <2>1, OutType
  <2>3. IsPrefix(received, Out)
    BY <2>1 DEF Faithful, Underway
  <2>4. Len(received) <= Len(Out) /\ \A i \in 1 .. Len(received) : received[i] = Out[i]
    BY <2>1, <2>2, <2>3, PrefixAt
  <2>5. DOMAIN received = 1 .. Len(received) /\ Len(received) \in Nat /\ Len(Out) \in Nat
    BY <2>1, <2>2
  <2> QED BY <2>1, <2>2, <2>4, <2>5 DEF Faithful
<1> QED BY <1>1, InitRelay, StepRelay, InitFramed, StepFramed, InitReads, StepReads, PTL DEF Spec

(* The types, and no socket over its room.                                 *)
THEOREM RelayTypeCorrect == Spec => []TypeOK
<1>1. RelayInv /\ FramedInv /\ HeldInv /\ ReadInv => TypeOK
  <2> SUFFICES ASSUME RelayInv, FramedInv, HeldInv, ReadInv PROVE TypeOK
    OBVIOUS
  <2>1. RelayTypes
    BY RelayTyped
  <2>2. /\ sent \in Seq(Packets) /\ parsed \in Seq(Packets)
        /\ received \in Seq([type : Nat, payload : Seq(Nat)])
    BY DEF FramedInv, ReadInv, Parts
  <2>3. /\ toSend \in Seq(Cells) /\ uplink \in Seq(Cells) /\ recvBuffer \in Seq(Cells)
        /\ downlink \in Seq(Cells) /\ header \in Seq(Cells)
    BY DEF RelayInv, WireTypes, Cells
  <2>4. /\ Len(uplink) <= SocketRoom /\ Len(downlink) <= SocketRoom
        /\ io \in {"epoll", "parse"} /\ reader \in {"header", "payload", "closed"}
        /\ overlapped \in BOOLEAN
    BY DEF ReadInv, HeldInv
  <2>5. DOMAIN parsed = 1 .. Len(parsed) /\ Len(parsed) \in Nat /\ popped \in 0 .. Len(parsed)
    BY <2>1 DEF RelayTypes
  <2>6. tasks \in Seq(DOMAIN parsed)
    <3>1. tasks \in Seq(Nat) /\ Len(tasks) \in Nat
      BY DEF RelayInv, PoolTypes
    <3>2. ASSUME NEW i \in 1 .. Len(tasks) PROVE tasks[i] \in 1 .. Len(parsed)
      <4>1. tasks[i] = popped + i /\ popped = Len(parsed) - Len(tasks)
        BY DEF RelayInv, InOrder, popped
      <4> QED BY <2>5, <3>1, <4>1
    <3> QED BY <2>5, <3>1, <3>2
  <2>7. begun \in Seq(DOMAIN parsed)
    <3>1. begun \in Seq(Nat) /\ \A i \in 1 .. Len(begun) : begun[i] \in 1 .. Len(parsed)
      BY <2>1, OutType DEF RelayTypes
    <3> QED BY <2>5, <3>1
  <2>8. task \in [Workers -> {0} \cup DOMAIN parsed] /\ rest \in [Workers -> Seq(Cells)]
    <3>1. task \in [Workers -> Nat] /\ \A w \in Workers : task[w] \in 0 .. popped
      BY DEF RelayInv, PoolTypes, Served
    <3>2. \A w \in Workers : task[w] \in {0} \cup DOMAIN parsed
      BY <2>5, <3>1
    <3>3. task = [w \in Workers |-> task[w]]
      BY <3>1
    <3> QED BY <2>1, <3>2, <3>3 DEF RelayTypes, Cells
  <2> QED BY <2>2, <2>3, <2>4, <2>6, <2>7, <2>8 DEF TypeOK
<1>2. Init => HeldInv
  BY RelayAssumption DEF Init, HeldInv, NothingHeldBack, WholePacket, HeaderSize
<1> QED BY <1>1, <1>2, InitRelay, StepRelay, InitFramed, StepFramed, StepHeld, InitReads, StepReads, PTL
        DEF Spec
=============================================================================
