----------------------------- MODULE UsbProofs ------------------------------
(***************************************************************************)
(* What the run MCUsb checks of the USB port on packets of two characters  *)
(* in two banks, for every size of packets, number of banks and timeout:   *)
(* no character is lost or doubled between main, the interrupts and the    *)
(* host, no short packet is left behind, and a descriptor is whole.        *)
(***************************************************************************)
EXTENDS Usb, SequenceTheorems, WellFoundedInduction, TLAPS

(***************************************************************************)
(* Induction.  The library's theorems have the predicate as a parameter,   *)
(* which the provers cannot instantiate; this one has a set for it.        *)
(***************************************************************************)

LEMMA LeastElement ==
  ASSUME NEW T, T \subseteq Nat, T # {}
  PROVE  \E x \in T : \A y \in T : x <= y
<1> DEFINE R == OpToRel(<, Nat)
<1>1. IsWellFoundedOn(R, Nat)
  BY NatLessThanWellFounded, Zenon
<1>2. \A x, y \in Nat : x < y => <<x, y>> \in R
  BY DEF OpToRel
<1> HIDE DEF R
<1>3. PICK x \in T : \A y \in T : ~(<<y, x>> \in R)
  BY <1>1, WFMin, Zenon
<1>4. ASSUME NEW y \in T PROVE x <= y
  <2>1. ~(y < x)
    BY <1>2, <1>3
  <2> QED BY <2>1
<1> QED
  BY <1>4

LEMMA Induction ==
  ASSUME NEW S, 0 \in S, \A n \in Nat : n \in S => n + 1 \in S
  PROVE  Nat \subseteq S
<1> SUFFICES ASSUME Nat \ S # {} PROVE FALSE
  OBVIOUS
<1>1. PICK x \in Nat \ S : \A y \in Nat \ S : x <= y
  BY LeastElement
<1>2. x - 1 \in Nat /\ x - 1 \in S
  BY <1>1
<1> QED
  BY <1>2
-----------------------------------------------------------------------------
(***************************************************************************)
(* The characters of a sequence of packets.                                *)
(***************************************************************************)

Packets == Seq(Seq(Int))

Joins(f, p) ==
  /\ f[0] = <<>>
  /\ \A n \in 1 .. Len(p) : f[n] = f[n - 1] \o p[n]

(* The recursion of Flat is well founded. *)
LEMMA JoinExists ==
  ASSUME NEW p, NEW m \in Nat
  PROVE  \E f : f = [n \in 0 .. m |-> IF n = 0 THEN <<>> ELSE f[n - 1] \o p[n]]
<1> DEFINE Both(s, t) == s \o t
           Step(f, n) == IF n = 0 THEN <<>> ELSE Both(f[n - 1], p[n])
           Prefix(k) == \E f : f = [n \in 0 .. k |-> Step(f, n)]
           S == {k \in Nat : Prefix(k)}
<1> HIDE DEF Both
<1>1. 0 \in S
  <2> DEFINE g == [n \in 0 .. 0 |-> <<>>]
  <2>1. g = [n \in 0 .. 0 |-> Step(g, n)]
    OBVIOUS
  <2> QED BY <2>1
<1>2. ASSUME NEW k \in Nat, k \in S PROVE k + 1 \in S
  <2>1. PICK f : f = [n \in 0 .. k |-> Step(f, n)]
    BY <1>2
  <2> DEFINE g == [n \in 0 .. k + 1 |-> IF n = k + 1 THEN Both(f[k], p[k + 1]) ELSE f[n]]
  <2>2. \A n \in 0 .. k + 1 : g[n] = Step(g, n)
    <3> TAKE n \in 0 .. k + 1
    <3>1. CASE n = k + 1
      <4>1. n # 0 /\ n - 1 = k /\ g[n] = Both(f[k], p[k + 1]) /\ g[k] = f[k]
        BY <3>1
      <4> QED BY <4>1, <3>1
    <3>2. CASE n \in 0 .. k
      <4>1. g[n] = f[n] /\ (n # 0 => g[n - 1] = f[n - 1])
        BY <3>2
      <4>2. f[n] = Step(f, n)
        BY <3>2, <2>1
      <4> QED BY <4>1, <4>2
    <3> QED BY <3>1, <3>2
  <2>3. g = [n \in 0 .. k + 1 |-> g[n]]
    OBVIOUS
  <2> HIDE DEF g
  <2>4. g = [n \in 0 .. k + 1 |-> Step(g, n)]
    <3> HIDE DEF Step
    <3> QED BY <2>2, <2>3
  <2>5. Prefix(k + 1)
    BY <2>4
  <2> HIDE DEF Prefix
  <2> QED BY <2>5
<1>3. Nat \subseteq S
  <2> HIDE DEF S
  <2> QED BY <1>1, <1>2, Induction
<1>4. Prefix(m)
  BY <1>3
<1> QED
  BY <1>4, Zenon DEF Both

LEMMA FlatJoins ==
  ASSUME NEW p \in Packets
  PROVE  \E f : Joins(f, p) /\ Flat(p) = f[Len(p)]
<1> DEFINE F == CHOOSE f : f = [n \in 0 .. Len(p) |-> IF n = 0 THEN <<>> ELSE f[n - 1] \o p[n]]
<1>1. Len(p) \in Nat
  BY DEF Packets
<1>2. F = [n \in 0 .. Len(p) |-> IF n = 0 THEN <<>> ELSE F[n - 1] \o p[n]]
  BY <1>1, JoinExists
<1>3. Flat(p) = F[Len(p)]
  BY DEF Flat
<1> HIDE DEF F
<1>4. Joins(F, p)
  BY <1>1, <1>2 DEF Joins
<1> QED BY <1>3, <1>4

(* Every join of the packets yields the same characters. *)
LEMMA JoinIsFlat ==
  ASSUME NEW p \in Packets, NEW f, Joins(f, p)
  PROVE  Flat(p) = f[Len(p)]
<1>1. PICK g : Joins(g, p) /\ Flat(p) = g[Len(p)]
  BY FlatJoins
<1> DEFINE S == {n \in Nat : n <= Len(p) => f[n] = g[n]}
<1>2. Len(p) \in Nat
  BY DEF Packets
<1>3. 0 \in S
  BY <1>1 DEF Joins
<1>4. ASSUME NEW n \in Nat, n \in S PROVE n + 1 \in S
  <2>1. CASE n + 1 <= Len(p)
    <3>1. n + 1 \in 1 .. Len(p) /\ (n + 1) - 1 = n /\ f[n] = g[n] /\ n + 1 \in Nat
      BY <2>1, <1>2, <1>4
    <3>2. f[n + 1] = f[(n + 1) - 1] \o p[n + 1] /\ g[n + 1] = g[(n + 1) - 1] \o p[n + 1]
      BY <3>1, <1>1, Zenon DEF Joins
    <3>3. f[n + 1] = g[n + 1]
      BY <3>1, <3>2, Zenon
    <3> QED BY <3>1, <3>3, Zenon
  <2>2. CASE ~(n + 1 <= Len(p))
    BY <2>2
  <2> QED BY <2>1, <2>2
<1>5. Nat \subseteq S
  <2> HIDE DEF S
  <2> QED BY <1>3, <1>4, Induction
<1> QED
  BY <1>1, <1>2, <1>5

LEMMA JoinType ==
  ASSUME NEW p \in Packets, NEW f, Joins(f, p)
  PROVE  \A n \in 0 .. Len(p) : f[n] \in Seq(Int)
<1> DEFINE S == {n \in Nat : n <= Len(p) => f[n] \in Seq(Int)}
<1>1. Len(p) \in Nat
  BY DEF Packets
<1>2. 0 \in S
  <2>1. f[0] = <<>>
    BY Zenon DEF Joins
  <2>2. f[0] \in Seq(Int)
    BY <2>1
  <2> QED BY <2>2
<1>3. ASSUME NEW n \in Nat, n \in S PROVE n + 1 \in S
  <2>1. CASE n + 1 <= Len(p)
    <3>1. n + 1 \in 1 .. Len(p) /\ (n + 1) - 1 = n /\ f[n] \in Seq(Int) /\ n + 1 \in Nat
      BY <2>1, <1>1, <1>3
    <3>2. f[n + 1] = f[(n + 1) - 1] \o p[n + 1]
      BY <3>1, Zenon DEF Joins
    <3>3. p[n + 1] \in Seq(Int)
      BY <3>1 DEF Packets
    <3>4. f[n] \o p[n + 1] \in Seq(Int)
      BY <3>1, <3>3, ConcatProperties
    <3>5. f[n + 1] \in Seq(Int)
      BY <3>1, <3>2, <3>4, Zenon
    <3> QED BY <3>1, <3>5, Zenon
  <2>2. CASE ~(n + 1 <= Len(p))
    BY <2>2
  <2> QED BY <2>1, <2>2
<1>4. Nat \subseteq S
  <2> HIDE DEF S
  <2> QED BY <1>2, <1>3, Induction
<1> QED
  BY <1>1, <1>4

LEMMA FlatType == ASSUME NEW p \in Packets PROVE Flat(p) \in Seq(Int)
<1>1. PICK f : Joins(f, p) /\ Flat(p) = f[Len(p)]
  BY FlatJoins
<1>2. Len(p) \in 0 .. Len(p)
  BY DEF Packets
<1> QED BY <1>1, <1>2, JoinType

LEMMA FlatNone == Flat(<<>>) = <<>> /\ <<>> \in Packets
<1>1. <<>> \in Packets /\ Len(<<>>) = 0
  BY DEF Packets
<1>2. PICK f : Joins(f, <<>>) /\ Flat(<<>>) = f[Len(<<>>)]
  BY <1>1, FlatJoins
<1> QED BY <1>1, <1>2 DEF Joins

LEMMA FlatAppend ==
  ASSUME NEW p \in Packets, NEW x \in Seq(Int)
  PROVE  Append(p, x) \in Packets /\ Flat(Append(p, x)) = Flat(p) \o x
<1>1. PICK f : Joins(f, p) /\ Flat(p) = f[Len(p)]
  BY FlatJoins
<1> DEFINE q == Append(p, x)
           g == [n \in 0 .. Len(p) + 1 |-> IF n = Len(p) + 1 THEN f[Len(p)] \o x ELSE f[n]]
<1>2. /\ Len(p) \in Nat
      /\ q \in Packets /\ Len(q) = Len(p) + 1
      /\ \A i \in 1 .. Len(p) : q[i] = p[i]
      /\ q[Len(p) + 1] = x
  BY AppendProperties DEF Packets
<1> HIDE DEF q
<1>3. Joins(g, q)
  <2>1. g[0] = <<>>
    BY <1>1, <1>2 DEF Joins
  <2>2. ASSUME NEW n \in 1 .. Len(q) PROVE g[n] = g[n - 1] \o q[n]
    <3>1. CASE n = Len(p) + 1
      <4>1. g[n] = f[Len(p)] \o x /\ n - 1 = Len(p) /\ g[n - 1] = f[n - 1]
        BY <3>1, <1>2
      <4> QED BY <4>1, <3>1, <1>2
    <3>2. CASE n \in 1 .. Len(p)
      <4>1. g[n] = f[n] /\ g[n - 1] = f[n - 1] /\ q[n] = p[n]
        BY <3>2, <1>2
      <4>2. f[n] = f[n - 1] \o p[n]
        BY <3>2, <1>1, Zenon DEF Joins
      <4> QED BY <4>1, <4>2, Zenon
    <3>3. n = Len(p) + 1 \/ n \in 1 .. Len(p)
      BY <1>2
    <3> QED BY <3>1, <3>2, <3>3, Zenon
  <2> HIDE DEF g
  <2> QED BY <2>1, <2>2 DEF Joins
<1>4. Flat(q) = g[Len(q)]
  <2> HIDE DEF g
  <2> QED BY <1>2, <1>3, JoinIsFlat
<1>5. g[Len(q)] = Flat(p) \o x
  BY <1>1, <1>2
<1> QED BY <1>2, <1>4, <1>5 DEF q

LEMMA Associative ==
  ASSUME NEW s \in Seq(Int), NEW t \in Seq(Int), NEW u \in Seq(Int)
  PROVE  s \o (t \o u) = (s \o t) \o u
<1> DEFINE a == s \o (t \o u)
           b == (s \o t) \o u
<1>1. /\ s \o t \in Seq(Int) /\ Len(s \o t) = Len(s) + Len(t)
      /\ t \o u \in Seq(Int) /\ Len(t \o u) = Len(t) + Len(u)
      /\ Len(s) \in Nat /\ Len(t) \in Nat /\ Len(u) \in Nat
  OBVIOUS
<1>2. a \in Seq(Int) /\ b \in Seq(Int) /\ Len(a) = Len(s) + Len(t) + Len(u) /\ Len(b) = Len(a)
  BY <1>1
<1>3. ASSUME NEW i \in 1 .. Len(a) PROVE a[i] = b[i]
  BY <1>1, <1>2, <1>3
<1> HIDE DEF a, b
<1>4. a = b
  BY <1>2, <1>3, SeqEqual
<1> QED BY <1>4 DEF a, b

LEMMA FlatTail ==
  ASSUME NEW p \in Packets, p # <<>>
  PROVE  /\ Head(p) \in Seq(Int) /\ Tail(p) \in Packets
         /\ Flat(p) = Head(p) \o Flat(Tail(p))
<1>1. /\ Head(p) \in Seq(Int) /\ Tail(p) \in Packets
      /\ Len(p) \in Nat \ {0} /\ Len(Tail(p)) = Len(p) - 1
      /\ \A i \in 1 .. Len(p) - 1 : Tail(p)[i] = p[i + 1]
      /\ p[1] = Head(p)
  BY HeadTailProperties DEF Packets
<1>2. PICK f : Joins(f, Tail(p)) /\ Flat(Tail(p)) = f[Len(Tail(p))]
  BY <1>1, FlatJoins
<1>3. \A n \in 0 .. Len(p) - 1 : f[n] \in Seq(Int)
  BY <1>1, <1>2, JoinType
<1> DEFINE g == [n \in 0 .. Len(p) |-> IF n = 0 THEN <<>> ELSE Head(p) \o f[n - 1]]
<1>4. Joins(g, p)
  <2>1. g[0] = <<>>
    BY <1>1
  <2>2. ASSUME NEW n \in 1 .. Len(p) PROVE g[n] = g[n - 1] \o p[n]
    <3>1. CASE n = 1
      <4>1. g[1] = Head(p) \o f[0] /\ g[0] = <<>> /\ f[0] = <<>>
        BY <3>1, <1>1, <1>2 DEF Joins
      <4>2. Head(p) \o <<>> = Head(p) /\ <<>> \o Head(p) = Head(p)
        BY <1>1, ConcatEmptySeq
      <4> QED BY <4>1, <4>2, <3>1, <1>1
    <3>2. CASE n # 1
      <4>1. n - 1 \in 1 .. Len(p) - 1 /\ (n - 1) + 1 = n /\ n - 2 \in 0 .. Len(p) - 1 /\ (n - 1) - 1 = n - 2
        BY <3>2, <1>1
      <4>2. g[n] = Head(p) \o f[n - 1] /\ g[n - 1] = Head(p) \o f[n - 2]
        BY <4>1, <1>1
      <4>3. f[n - 1] = f[n - 2] \o p[n]
        BY <4>1, <1>1, <1>2 DEF Joins
      <4>4. f[n - 2] \in Seq(Int) /\ p[n] \in Seq(Int)
        BY <4>1, <1>1, <1>3 DEF Packets
      <4>5. Head(p) \o (f[n - 2] \o p[n]) = (Head(p) \o f[n - 2]) \o p[n]
        BY <4>4, <1>1, Associative, Zenon
      <4> QED BY <4>2, <4>3, <4>5, Zenon
    <3> QED BY <3>1, <3>2
  <2> HIDE DEF g
  <2> QED BY <2>1, <2>2 DEF Joins
<1>5. Flat(p) = g[Len(p)]
  <2> HIDE DEF g
  <2> QED BY <1>4, JoinIsFlat
<1>6. g[Len(p)] = Head(p) \o f[Len(p) - 1]
  <2>1. Len(p) \in 0 .. Len(p) /\ Len(p) # 0
    BY <1>1
  <2> QED BY <2>1, Zenon
<1> QED BY <1>1, <1>2, <1>5, <1>6

LEMMA EmptyFirst ==
  ASSUME NEW p \in Packets, p # <<>>, Head(p) = <<>>
  PROVE  Flat(Tail(p)) = Flat(p)
<1>1. Flat(p) = <<>> \o Flat(Tail(p)) /\ Flat(Tail(p)) \in Seq(Int)
  BY FlatTail, FlatType
<1>2. \A s \in Seq(Int) : <<>> \o s = s
  BY ConcatEmptySeq
<1> QED BY <1>1, <1>2, Zenon

LEMMA FlatDropped ==
  ASSUME NEW p \in Packets
  PROVE  Dropped(p) \in Packets /\ Flat(Dropped(p)) = Flat(p)
<1>1. CASE Drained(p)
  <2>1. p # <<>> /\ Head(p) = <<>>
    BY <1>1 DEF Drained
  <2> QED BY <1>1, <2>1, EmptyFirst, FlatTail DEF Dropped
<1>2. CASE ~Drained(p)
  BY <1>2 DEF Dropped
<1> QED BY <1>1, <1>2

(* Empty packets in front hold no characters. *)
LEMMA EmptyPrefix ==
  ASSUME NEW p \in Packets, NEW k \in 1 .. Len(p) + 1, \A i \in 1 .. k - 1 : p[i] = <<>>
  PROVE  SubSeq(p, k, Len(p)) \in Packets /\ Flat(SubSeq(p, k, Len(p))) = Flat(p)
<1> DEFINE Rest(j) == SubSeq(p, j, Len(p))
           S == {j \in Nat : j < k => Rest(j + 1) \in Packets /\ Flat(Rest(j + 1)) = Flat(p)}
<1>1. Len(p) \in Nat
  BY DEF Packets
<1>2. 0 \in S
  <2>1. Rest(1) = p
    BY SubSeqFull DEF Packets
  <2> HIDE DEF Rest
  <2>2. 0 + 1 = 1
    OBVIOUS
  <2>3. 0 < k => Rest(0 + 1) \in Packets /\ Flat(Rest(0 + 1)) = Flat(p)
    BY <2>1, <2>2, Zenon
  <2> QED BY <2>3
<1>3. ASSUME NEW j \in Nat, j \in S PROVE j + 1 \in S
  <2>1. CASE j + 1 < k
    <3>1. j + 1 \in 1 .. Len(p) /\ Len(p) \in j + 1 .. Len(p) /\ j + 1 \in 1 .. k - 1 /\ j < k
      BY <2>1, <1>1
    <3>2. Rest(j + 1) \in Packets /\ Flat(Rest(j + 1)) = Flat(p)
      BY <1>3, <3>1
    <3>3. Head(Rest(j + 1)) = p[j + 1] /\ Tail(Rest(j + 1)) = Rest((j + 1) + 1)
      BY <3>1, HeadTailOfSubSeq DEF Packets
    <3>4. Rest(j + 1) # <<>>
      <4>1. Len(Rest(j + 1)) = Len(p) - (j + 1) + 1
        BY <3>1, <1>1
      <4>2. Len(Rest(j + 1)) # 0
        BY <4>1, <3>1, <1>1
      <4> HIDE DEF Rest
      <4> QED BY <4>2
    <3>5. Head(Rest(j + 1)) = <<>>
      BY <3>1, <3>3
    <3> HIDE DEF Rest
    <3>6. Rest((j + 1) + 1) \in Packets /\ Flat(Rest((j + 1) + 1)) = Flat(p)
      BY <3>2, <3>3, <3>4, <3>5, EmptyFirst, FlatTail
    <3>7. j + 1 \in Nat
      OBVIOUS
    <3> QED BY <3>6, <3>7, Zenon
  <2>2. CASE ~(j + 1 < k)
    BY <2>2
  <2>3. j + 1 < k \/ ~(j + 1 < k)
    OBVIOUS
  <2> QED BY <2>1, <2>2
<1>4. Nat \subseteq S
  <2> HIDE DEF S
  <2> QED BY <1>2, <1>3, Induction
<1>5. k - 1 \in Nat /\ k - 1 < k /\ (k - 1) + 1 = k
  BY <1>1
<1> HIDE DEF Rest
<1>6. Rest(k) \in Packets /\ Flat(Rest(k)) = Flat(p)
  BY <1>4, <1>5
<1> QED BY <1>6 DEF Rest

LEMMA FlatSkip ==
  ASSUME NEW p \in Packets
  PROVE  /\ Skip(p) \in Packets /\ Flat(Skip(p)) = Flat(p)
         /\ Skip(p) # <<>> => Head(Skip(p)) # <<>>
<1> DEFINE full == {i \in 1 .. Len(p) : p[i] # <<>>}
           k == CHOOSE i \in full : \A j \in full : i <= j
<1>1. Len(p) \in Nat
  BY DEF Packets
<1>2. CASE full = {}
  <2>1. Skip(p) = <<>>
    BY <1>2 DEF Skip
  <2>2. \A i \in 1 .. (Len(p) + 1) - 1 : p[i] = <<>>
    BY <1>2, <1>1
  <2>3. Flat(SubSeq(p, Len(p) + 1, Len(p))) = Flat(p)
    BY <2>2, <1>1, EmptyPrefix
  <2>4. SubSeq(p, Len(p) + 1, Len(p)) = <<>>
    BY <1>1, SubSeqEmpty
  <2> QED BY <2>1, <2>3, <2>4, FlatNone
<1>3. CASE full # {}
  <2>1. Skip(p) = SubSeq(p, k, Len(p))
    BY <1>3 DEF Skip
  <2>2. \E i \in full : \A j \in full : i <= j
    <3>1. full \subseteq Nat
      OBVIOUS
    <3> HIDE DEF full
    <3> QED BY <3>1, <1>3, LeastElement
  <2>3. k \in full /\ \A j \in full : k <= j
    <3> HIDE DEF full
    <3> QED BY <2>2
  <2> HIDE DEF k
  <2>4. k \in 1 .. Len(p) /\ p[k] # <<>>
    BY <2>3
  <2>5. \A i \in 1 .. k - 1 : p[i] = <<>>
    BY <2>3, <2>4, <1>1
  <2>6. SubSeq(p, k, Len(p)) \in Packets /\ Flat(SubSeq(p, k, Len(p))) = Flat(p)
    BY <2>4, <2>5, <1>1, EmptyPrefix
  <2>7. Head(SubSeq(p, k, Len(p))) = p[k]
    BY <2>4, <1>1, HeadTailOfSubSeq DEF Packets
  <2> QED BY <2>1, <2>4, <2>6, <2>7
<1> QED BY <1>2, <1>3

LEMMA ConsProperties ==
  ASSUME NEW x \in Seq(Int), NEW t \in Packets
  PROVE  /\ <<x>> \o t \in Packets /\ <<x>> \o t # <<>>
         /\ Head(<<x>> \o t) = x /\ Tail(<<x>> \o t) = t
<1> DEFINE P == Seq(Int)
           q == <<x>> \o t
<1>1. <<x>> \in Seq(P) /\ t \in Seq(P) /\ Len(<<x>>) = 1 /\ <<x>>[1] = x /\ Len(t) \in Nat
  BY DEF Packets
<1> HIDE DEF P
<1>2. q \in Seq(P) /\ Len(q) = 1 + Len(t)
  BY <1>1
<1>3. q[1] = x /\ \A i \in 1 .. Len(t) : q[i + 1] = t[i]
  BY <1>1
<1> HIDE DEF q
<1>4. q # <<>> /\ Head(q) = x
  BY <1>1, <1>2, <1>3
<1>5. Tail(q) \in Seq(P) /\ Len(Tail(q)) = Len(t) /\ \A i \in 1 .. Len(t) : Tail(q)[i] = q[i + 1]
  BY <1>1, <1>2, <1>4
<1>6. Tail(q) = t
  BY <1>1, <1>3, <1>5, SeqEqual
<1> QED BY <1>2, <1>4, <1>6 DEF q, P, Packets

(* The first character of the first packet, which is not empty. *)
LEMMA FlatTaken ==
  ASSUME NEW p \in Packets, p # <<>>, Head(p) # <<>>
  PROVE  /\ Head(Head(p)) \in Int
         /\ Taken(p) \in Packets
         /\ Flat(p) = <<Head(Head(p))>> \o Flat(Taken(p))
<1>1. /\ Head(p) \in Seq(Int) /\ Tail(p) \in Packets
      /\ Flat(p) = Head(p) \o Flat(Tail(p)) /\ Flat(Tail(p)) \in Seq(Int)
  BY FlatTail, FlatType
<1> DEFINE h == Head(p)
<1>2. /\ Head(h) \in Int /\ Tail(h) \in Seq(Int) /\ Len(h) \in Nat \ {0}
      /\ h = <<Head(h)>> \o Tail(h)
  <2>1. h \in Seq(Int) /\ h # <<>>
    BY <1>1
  <2> HIDE DEF h
  <2>2. Head(h) \in Int /\ Tail(h) \in Seq(Int) /\ Len(h) \in Nat \ {0}
    BY <2>1
  <2>3. h = <<Head(h)>> \o Tail(h)
    BY <2>1
  <2> QED BY <2>2, <2>3
<1>3. CASE Len(h) = 1
  <2>1. h = <<Head(h)>>
    BY <1>3, <1>1, <1>2
  <2> QED BY <1>1, <1>2, <1>3, <2>1 DEF Taken
<1>4. CASE Len(h) # 1
  <2> DEFINE q == <<Tail(h)>> \o Tail(p)
  <2>1. q \in Packets /\ q # <<>> /\ Head(q) = Tail(h) /\ Tail(q) = Tail(p)
    BY <1>1, <1>2, ConsProperties, Zenon
  <2>2. Taken(p) = q
    BY <1>4, Zenon DEF Taken
  <2> HIDE DEF q
  <2>3. Flat(q) = Tail(h) \o Flat(Tail(p))
    BY <2>1, FlatTail
  <2>4. <<Head(h)>> \o (Tail(h) \o Flat(Tail(p))) = (<<Head(h)>> \o Tail(h)) \o Flat(Tail(p))
    <3>1. <<Head(h)>> \in Seq(Int)
      BY <1>2
    <3> QED BY <3>1, <1>1, <1>2, Associative, Zenon
  <2>5. Flat(p) = <<Head(h)>> \o Flat(Taken(p))
    BY <1>1, <1>2, <2>2, <2>3, <2>4, Zenon
  <2> QED BY <1>2, <2>1, <2>2, <2>5, Zenon
<1> QED BY <1>3, <1>4
-----------------------------------------------------------------------------
(***************************************************************************)
(* The invariant.                                                          *)
(***************************************************************************)

Asking == [request : Reads \cup Writes \cup Others, value : Nat, length : Nat] \cup {NoRequest}
OutPort == [on : BOOLEAN, busy : Packets, bank : Seq(Int)]
InPort == [on : BOOLEAN, packets : Packets]
Seen == [accepted : Nat, got : Nat, open : BOOLEAN, skipped : BOOLEAN, sent : Nat, read : Nat]

Run(a, n) == [i \in 1 .. n |-> a + i]
Content(t) == Flat(t.busy) \o t.bank

(* A packet is open only where there is room for it, and the timer runs.   *)
OpenPacket(t, timer) ==
  /\ Len(t.bank) < CDC_TX_SIZE
  /\ t.bank # <<>> => Room(t) /\ timer > 0

(* Without a timer the last packet on its way is a short one. *)
LastIsShort(t, s, timer) ==
  t.on /\ timer = 0 /\ ~s.skipped =>
    IF t.busy = <<>> THEN ~s.open ELSE Len(t.busy[Len(t.busy)]) < CDC_TX_SIZE

OutInv(t, s, timer) ==
  /\ t \in OutPort /\ s \in Seen /\ timer \in Nat
  /\ s.got <= s.accepted /\ Content(t) = Run(s.got, s.accepted - s.got)
  /\ OpenPacket(t, timer) /\ LastIsShort(t, s, timer)

InInv(r, s) ==
  /\ r \in InPort /\ s \in Seen
  /\ s.read <= s.sent /\ Flat(r.packets) = Run(s.read, s.sent - s.read)

DataInv == OutInv(tx, seen, transmit_flush_timer) /\ InInv(rx, seen)

Stages == {"none", "data", "data_out", "status_in", "status_out"}
Endpoint0 == [setup : Asking, in : Int, out : BOOLEAN, stall : BOOLEAN]
Handlers == [pc : {"none", "packets", "answer", "address", "line"}, len : Nat, value : Nat]
Hosts == [job : Jobs, listening : BOOLEAN, resets : Nat, requests : Nat, stage : Stages,
          request : Asking, got : Nat, address : Nat]

Getting(h) == h.request.request = "GET_DESCRIPTOR"
Whole(r) == Least(r.length, Lengths[r.value])

StageOf(r) ==
  IF r.request \in Reads THEN "data" ELSE IF r.request \in Writes THEN "data_out" ELSE "status_in"

(* A request that the handler has not seen yet. *)
Pending(e, h) ==
  e.setup # NoRequest =>
    /\ e.setup = h.request /\ h.stage = StageOf(h.request)
    /\ h.got = 0 /\ e.in = -1 /\ ~e.stall

(* Where the handler waits, the host is not done yet; a handler that still *)
(* sends the packets of an earlier request is told to stop.                *)
Waits(e, c, h) ==
  /\ c.pc = "packets" => e.out \/ (/\ Getting(h) /\ e.setup = NoRequest /\ ~e.stall
                                   /\ h.stage \in {"data", "status_out"})
  /\ c.pc = "answer" => /\ e.setup = NoRequest /\ ~Getting(h) /\ e.in = -1 /\ ~e.stall
                        /\ h.stage \in {"data", "status_in"}
  /\ c.pc = "line" => /\ e.setup = NoRequest /\ ~Getting(h) /\ e.in = -1 /\ ~e.stall
                      /\ h.stage \in {"data_out", "status_in"}
  /\ h.stage = "none" => h.request = NoRequest

(* What the host has, what waits for it and what is to be sent make up the *)
(* descriptor, and a packet that is not full is the last.                  *)
Progress(e, c, h) ==
  /\ Getting(h) /\ e.setup = NoRequest /\ ~e.stall /\ h.stage = "data" =>
       /\ h.request.value \in DOMAIN Lengths /\ ~e.out
       /\ \/ c.pc = "packets" /\ e.in = -1 /\ h.got + c.len = Whole(h.request)
          \/ /\ c.pc = "packets" /\ e.in = ENDPOINT0_SIZE
             /\ h.got + ENDPOINT0_SIZE + c.len = Whole(h.request)
          \/ /\ c.pc # "packets" /\ e.in \in 0 .. ENDPOINT0_SIZE - 1
             /\ h.got + e.in = Whole(h.request)
  /\ Getting(h) /\ h.stage = "status_out" /\ ~e.stall =>
       e.setup = NoRequest /\ h.got = Whole(h.request)

Fits(e, c, h) == Pending(e, h) /\ Waits(e, c, h) /\ Progress(e, c, h)
ControlInv == ep0 \in Endpoint0 /\ com \in Handlers /\ host \in Hosts /\ Fits(ep0, com, host)
-----------------------------------------------------------------------------
(***************************************************************************)
(* Runs of numbered characters.                                            *)
(***************************************************************************)

LEMMA RunType ==
  ASSUME NEW a \in Int, NEW n \in Nat
  PROVE  /\ Run(a, n) \in Seq(Int) /\ Len(Run(a, n)) = n
         /\ \A i \in 1 .. n : Run(a, n)[i] = a + i
<1>1. Run(a, n) \in [1 .. n -> Int]
  BY DEF Run
<1> QED BY <1>1 DEF Run

LEMMA Joined ==
  ASSUME NEW s \in Seq(Int), NEW t \in Seq(Int)
  PROVE  /\ s \o t \in Seq(Int) /\ Len(s \o t) = Len(s) + Len(t)
         /\ \A i \in 1 .. Len(s) + Len(t) :
              (s \o t)[i] = IF i <= Len(s) THEN s[i] ELSE t[i - Len(s)]
BY ConcatProperties

LEMMA RunJoin ==
  ASSUME NEW a \in Int, NEW n \in Nat, NEW m \in Nat
  PROVE  Run(a, n) \o Run(a + n, m) = Run(a, n + m)
<1> DEFINE s == Run(a, n) t == Run(a + n, m) u == Run(a, n + m)
<1>1. /\ s \in Seq(Int) /\ Len(s) = n /\ \A i \in 1 .. n : s[i] = a + i
      /\ t \in Seq(Int) /\ Len(t) = m /\ \A i \in 1 .. m : t[i] = a + n + i
      /\ u \in Seq(Int) /\ Len(u) = n + m /\ \A i \in 1 .. n + m : u[i] = a + i
  BY RunType
<1> HIDE DEF s, t, u
<1>2. /\ s \o t \in Seq(Int) /\ Len(s \o t) = n + m
      /\ \A i \in 1 .. n + m : (s \o t)[i] = IF i <= n THEN s[i] ELSE t[i - n]
  <2>1. s \in Seq(Int) /\ t \in Seq(Int) /\ Len(s) = n /\ Len(t) = m
    BY <1>1
  <2>2. /\ s \o t \in Seq(Int) /\ Len(s \o t) = Len(s) + Len(t)
        /\ \A i \in 1 .. Len(s) + Len(t) : (s \o t)[i] = IF i <= Len(s) THEN s[i] ELSE t[i - Len(s)]
    BY <2>1, Joined, Zenon
  <2> QED BY <2>1, <2>2, Zenon
<1>3. ASSUME NEW i \in 1 .. n + m PROVE (s \o t)[i] = u[i]
  <2>1. CASE i <= n
    <3>1. i \in 1 .. n
      BY <2>1
    <3>2. s[i] = a + i /\ u[i] = a + i
      BY <3>1, <1>1, Zenon
    <3>3. (s \o t)[i] = s[i]
      BY <2>1, <1>2, Zenon
    <3> QED BY <3>2, <3>3, Zenon
  <2>2. CASE ~(i <= n)
    <3>1. i - n \in 1 .. m
      BY <2>2
    <3>2. t[i - n] = a + n + (i - n) /\ u[i] = a + i
      BY <3>1, <1>1, Zenon
    <3>3. (s \o t)[i] = t[i - n]
      BY <2>2, <1>2, Zenon
    <3>4. a + n + (i - n) = a + i
      OBVIOUS
    <3> QED BY <3>2, <3>3, <3>4, Zenon
  <2> QED BY <2>1, <2>2
<1>4. s \o t = u
  BY <1>1, <1>2, <1>3, SeqEqual
<1> QED BY <1>4 DEF s, t, u

LEMMA RunRest ==
  ASSUME NEW s \in Seq(Int), NEW t \in Seq(Int), NEW a \in Int, NEW n \in Nat,
         s \o t = Run(a, n)
  PROVE  /\ Len(s) \in 0 .. n /\ t = Run(a + Len(s), n - Len(s))
         /\ \A i \in 1 .. Len(s) : s[i] = a + i
<1> DEFINE u == Run(a, n) v == Run(a + Len(s), n - Len(s)) w == s \o t
<1>1. u \in Seq(Int) /\ Len(u) = n /\ \A i \in 1 .. n : u[i] = a + i
  BY RunType
<1>2. /\ Len(s) \in Nat /\ Len(t) \in Nat /\ Len(w) = Len(s) + Len(t)
      /\ \A i \in 1 .. Len(s) : w[i] = s[i]
      /\ \A i \in 1 .. Len(t) : w[Len(s) + i] = t[i]
  OBVIOUS
<1>3. w = u
  OBVIOUS
<1> HIDE DEF w, u
<1>4. Len(s) \in 0 .. n /\ Len(t) = n - Len(s) /\ n - Len(s) \in Nat /\ a + Len(s) \in Int
  <2>1. Len(s) + Len(t) = n
    BY <1>1, <1>2, <1>3, Zenon
  <2> QED BY <2>1, <1>2
<1>5. v \in Seq(Int) /\ Len(v) = n - Len(s) /\ \A i \in 1 .. n - Len(s) : v[i] = a + Len(s) + i
  BY <1>4, RunType
<1> HIDE DEF v
<1>6. ASSUME NEW i \in 1 .. Len(t) PROVE t[i] = v[i]
  <2>1. Len(s) + i \in 1 .. n /\ i \in 1 .. n - Len(s)
    BY <1>4
  <2>2. u[Len(s) + i] = a + (Len(s) + i) /\ v[i] = a + Len(s) + i /\ w[Len(s) + i] = t[i]
    BY <2>1, <1>1, <1>2, <1>5
  <2> QED BY <2>1, <2>2, <1>3
<1>7. t = v
  BY <1>4, <1>5, <1>6, SeqEqual
<1>8. \A i \in 1 .. Len(s) : s[i] = a + i
  BY <1>1, <1>2, <1>3, <1>4
<1> QED BY <1>4, <1>7, <1>8 DEF v

LEMMA RunNone == ASSUME NEW a \in Int PROVE Run(a, 0) = <<>>
BY RunType
-----------------------------------------------------------------------------
(***************************************************************************)
(* What is done to the port that sends.                                    *)
(***************************************************************************)

LEMMA PortFields ==
  ASSUME NEW t \in OutPort
  PROVE  /\ t = [on |-> t.on, busy |-> t.busy, bank |-> t.bank]
         /\ t.on \in BOOLEAN /\ t.busy \in Packets /\ t.bank \in Seq(Int)
         /\ Len(t.busy) \in Nat /\ Len(t.bank) \in Nat
         /\ Content(t) \in Seq(Int)
<1>1. t.busy \in Packets /\ t.bank \in Seq(Int)
  BY DEF OutPort
<1>2. Content(t) \in Seq(Int)
  BY <1>1, FlatType, ConcatProperties DEF Content
<1> QED BY <1>1, <1>2 DEF OutPort, Packets

(* Releasing a bank keeps the characters in order. *)
LEMMA Releases ==
  ASSUME NEW t \in OutPort
  PROVE  /\ Release(t) \in OutPort /\ Content(Release(t)) = Content(t)
         /\ Release(t).on = t.on
         /\ Room(t) => Release(t).bank = <<>> /\ Release(t).busy = Append(t.busy, t.bank)
         /\ ~Room(t) => Release(t) = t
<1>1. CASE Room(t)
  <2>1. Release(t) = [on |-> t.on, busy |-> Append(t.busy, t.bank), bank |-> <<>>]
    BY <1>1 DEF Release, OutPort
  <2>2. /\ Append(t.busy, t.bank) \in Packets
        /\ Flat(Append(t.busy, t.bank)) = Flat(t.busy) \o t.bank
    BY PortFields, FlatAppend
  <2>3. Content(Release(t)) = Content(t) \o <<>>
    <3>1. Release(t).busy = Append(t.busy, t.bank) /\ Release(t).bank = <<>>
      BY <2>1
    <3> QED BY <3>1, <2>2, Zenon DEF Content
  <2>4. Content(t) \o <<>> = Content(t)
    BY PortFields, ConcatEmptySeq
  <2>5. <<>> \in Seq(Int)
    OBVIOUS
  <2>6. Release(t) \in OutPort
    BY <2>1, <2>2, <2>5, PortFields DEF OutPort
  <2> QED BY <1>1, <2>1, <2>3, <2>4, <2>6
<1>2. CASE ~Room(t)
  BY <1>2 DEF Release
<1> QED BY <1>1, <1>2

LEMMA LastOfAppend ==
  ASSUME NEW p \in Packets, NEW x \in Seq(Int)
  PROVE  /\ Append(p, x) # <<>> /\ Append(p, x)[Len(Append(p, x))] = x
BY AppendProperties DEF Packets

LEMMA OutFlush ==
  ASSUME NEW t, NEW s, NEW n, OutInv(t, s, n)
  PROVE  OutInv(Release(t), [s EXCEPT !.skipped = @ \/ ~Room(t)], 0)
<1> DEFINE u == [s EXCEPT !.skipped = @ \/ ~Room(t)]
<1> SUFFICES OutInv(Release(t), u, 0)
  OBVIOUS
<1>1. t \in OutPort /\ s \in Seen /\ n \in Nat /\ OpenPacket(t, n) /\ LastIsShort(t, s, n)
  BY DEF OutInv
<1>2. /\ u \in Seen /\ u.got = s.got /\ u.accepted = s.accepted /\ u.open = s.open
      /\ u.skipped = (s.skipped \/ ~Room(t))
  BY <1>1 DEF Seen
<1> HIDE DEF u
<1>3. CDC_TX_SIZE \in Nat \ {0}
  BY UsbDataAssumption
<1>4. CASE Room(t)
  <2>1. /\ Release(t) \in OutPort /\ Content(Release(t)) = Content(t)
        /\ Release(t).bank = <<>> /\ Release(t).busy = Append(t.busy, t.bank)
    BY <1>1, <1>4, Releases
  <2>2. OpenPacket(Release(t), 0)
    BY <2>1, <1>3 DEF OpenPacket
  <2>3. Append(t.busy, t.bank) # <<>> /\ Append(t.busy, t.bank)[Len(Append(t.busy, t.bank))] = t.bank
    BY <1>1, PortFields, LastOfAppend
  <2>4. Len(t.bank) < CDC_TX_SIZE
    BY <1>1 DEF OpenPacket
  <2>5. LastIsShort(Release(t), u, 0)
    BY <2>1, <2>3, <2>4 DEF LastIsShort
  <2> QED BY <1>2, <2>1, <2>2, <2>5 DEF OutInv
<1>5. CASE ~Room(t)
  <2>1. Release(t) = t
    BY <1>1, <1>5, Releases
  <2>2. t.bank = <<>> /\ Len(t.bank) < CDC_TX_SIZE
    BY <1>1, <1>5 DEF OpenPacket
  <2>3. OpenPacket(t, 0)
    BY <2>2 DEF OpenPacket
  <2>4. LastIsShort(t, u, 0)
    BY <1>2, <1>5 DEF LastIsShort
  <2> QED BY <1>2, <2>1, <2>3, <2>4 DEF OutInv
<1> QED BY <1>4, <1>5

LEMMA FillsPort ==
  ASSUME NEW t \in OutPort, NEW c \in Int, Room(t), Len(t.bank) < CDC_TX_SIZE
  PROVE  /\ Filled(t, c) \in OutPort /\ Content(Filled(t, c)) = Append(Content(t), c)
         /\ Len(Filled(t, c).bank) < CDC_TX_SIZE
         /\ Filled(t, c).bank # <<>> => Room(Filled(t, c))
<1> DEFINE f == [t EXCEPT !.bank = Append(@, c)]
<1>1. CDC_TX_SIZE \in Nat \ {0}
  BY UsbDataAssumption
<1>2. /\ f = [on |-> t.on, busy |-> t.busy, bank |-> Append(t.bank, c)]
      /\ Append(t.bank, c) \in Seq(Int) /\ Len(Append(t.bank, c)) = Len(t.bank) + 1
  <2>1. f = [on |-> t.on, busy |-> t.busy, bank |-> Append(t.bank, c)]
    <3>1. \A b : [t EXCEPT !.bank = b] = [on |-> t.on, busy |-> t.busy, bank |-> b]
      BY DEF OutPort
    <3> QED BY <3>1
  <2>2. Append(t.bank, c) \in Seq(Int) /\ Len(Append(t.bank, c)) = Len(t.bank) + 1
    BY PortFields, AppendProperties
  <2> QED BY <2>1, <2>2
<1>3. f \in OutPort /\ f.on = t.on /\ f.busy = t.busy /\ f.bank = Append(t.bank, c)
  BY <1>2, PortFields DEF OutPort
<1>4. Filled(t, c) = IF Len(f.bank) = CDC_TX_SIZE THEN Release(f) ELSE f
  BY DEF Filled
<1> HIDE DEF f
<1>5. Content(f) = Append(Content(t), c)
  <2>1. Append(t.bank, c) = t.bank \o <<c>> /\ <<c>> \in Seq(Int)
    BY PortFields, AppendIsConcat
  <2>2. Content(f) = Flat(t.busy) \o (t.bank \o <<c>>)
    BY <1>3, <2>1 DEF Content
  <2>3. Flat(t.busy) \o (t.bank \o <<c>>) = (Flat(t.busy) \o t.bank) \o <<c>>
    BY <2>1, PortFields, FlatType, Associative, Zenon
  <2>4. Append(Content(t), c) = Content(t) \o <<c>>
    BY PortFields, AppendIsConcat
  <2> QED BY <2>2, <2>3, <2>4 DEF Content
<1>6. Room(f)
  BY <1>3 DEF Room
<1>7. CASE Len(f.bank) = CDC_TX_SIZE
  <2>1. Filled(t, c) = Release(f)
    BY <1>4, <1>7
  <2>2. Release(f) \in OutPort /\ Content(Release(f)) = Content(f) /\ Release(f).bank = <<>>
    BY <1>3, <1>6, Releases
  <2> QED BY <1>1, <1>5, <2>1, <2>2
<1>8. CASE Len(f.bank) # CDC_TX_SIZE
  <2>1. Filled(t, c) = f
    BY <1>4, <1>8
  <2>2. Len(f.bank) < CDC_TX_SIZE
    BY <1>1, <1>2, <1>3, <1>8, PortFields
  <2> QED BY <1>3, <1>5, <1>6, <2>1, <2>2
<1> QED BY <1>7, <1>8

LEMMA SeenFields ==
  ASSUME NEW s \in Seen
  PROVE  /\ s.accepted \in Nat /\ s.got \in Nat /\ s.sent \in Nat /\ s.read \in Nat
         /\ s.open \in BOOLEAN /\ s.skipped \in BOOLEAN
BY DEF Seen

LEMMA OutPut ==
  ASSUME NEW t, NEW s, NEW n, OutInv(t, s, n), Room(t), Len(t.bank) < CDC_TX_SIZE,
         NEW m \in Nat \ {0}
  PROVE  OutInv(Filled(t, s.accepted + 1), [s EXCEPT !.accepted = @ + 1, !.skipped = FALSE], m)
<1> DEFINE f == Filled(t, s.accepted + 1)
           u == [s EXCEPT !.accepted = @ + 1, !.skipped = FALSE]
<1> SUFFICES OutInv(f, u, m)
  OBVIOUS
<1>1. /\ t \in OutPort /\ s \in Seen /\ s.got <= s.accepted
      /\ Content(t) = Run(s.got, s.accepted - s.got)
  BY DEF OutInv
<1>2. s.accepted \in Nat /\ s.got \in Nat /\ s.accepted - s.got \in Nat
  BY <1>1, SeenFields
<1>3. u \in Seen /\ u.got = s.got /\ u.accepted = s.accepted + 1
  <2>1. \A a \in Nat : [s EXCEPT !.accepted = a, !.skipped = FALSE] \in Seen
    BY <1>1 DEF Seen
  <2>2. s.accepted + 1 \in Nat
    BY <1>2
  <2>3. u \in Seen
    BY <2>1, <2>2
  <2>4. u.got = s.got /\ u.accepted = s.accepted + 1
    BY <1>1 DEF Seen
  <2> QED BY <2>3, <2>4
<1> HIDE DEF u
<1>4. /\ f \in OutPort /\ Content(f) = Append(Content(t), s.accepted + 1)
      /\ Len(f.bank) < CDC_TX_SIZE /\ (f.bank # <<>> => Room(f))
  BY <1>1, <1>2, FillsPort
<1> HIDE DEF f
<1>5. Content(f) = Run(s.got, (s.accepted - s.got) + 1)
  <2> DEFINE d == s.accepted - s.got
  <2>1. Run(s.got + d, 1) = <<s.accepted + 1>>
    <3>1. /\ Run(s.accepted, 1) \in Seq(Int) /\ Len(Run(s.accepted, 1)) = 1
          /\ \A i \in 1 .. 1 : Run(s.accepted, 1)[i] = s.accepted + i
      <4>1. s.accepted \in Int /\ 1 \in Nat
        BY <1>2
      <4> QED BY <4>1, RunType, Zenon
    <3>2. Run(s.accepted, 1)[1] = s.accepted + 1
      BY <3>1
    <3>3. \A r \in Seq(Int) : Len(r) = 1 => r = <<r[1]>>
      OBVIOUS
    <3>4. Run(s.accepted, 1) = <<s.accepted + 1>>
      BY <3>1, <3>2, <3>3, Zenon
    <3>5. s.got + d = s.accepted
      BY <1>2
    <3> QED BY <3>4, <3>5
  <2>2. Run(s.got, d) \o Run(s.got + d, 1) = Run(s.got, d + 1)
    <3>1. s.got \in Int /\ d \in Nat /\ 1 \in Nat
      BY <1>2
    <3> HIDE DEF d
    <3> QED BY <3>1, RunJoin, Zenon
  <2>3. Append(Content(t), s.accepted + 1) = Content(t) \o <<s.accepted + 1>>
    <3>1. Content(t) \in Seq(Int) /\ s.accepted + 1 \in Int
      BY <1>1, <1>2, PortFields
    <3> QED BY <3>1, AppendIsConcat
  <2> QED BY <2>1, <2>2, <2>3, <1>1, <1>4, Zenon
<1>6. OpenPacket(f, m)
  BY <1>4 DEF OpenPacket
<1>7. LastIsShort(f, u, m)
  BY DEF LastIsShort
<1>8. u.accepted - u.got = (s.accepted - s.got) + 1 /\ u.got <= u.accepted
  BY <1>1, <1>2, <1>3
<1> QED BY <1>3, <1>4, <1>5, <1>6, <1>7, <1>8 DEF OutInv

LEMMA OutTimer ==
  ASSUME NEW t, NEW s, NEW n, OutInv(t, s, n), NEW m \in Nat \ {0}
  PROVE  OutInv(t, s, m)
BY DEF OutInv, OpenPacket, LastIsShort

(* What concerns the other port may change. *)
LEMMA OutSeen ==
  ASSUME NEW t, NEW s, NEW n, OutInv(t, s, n), NEW u \in Seen,
         u.got = s.got, u.accepted = s.accepted, u.open = s.open, u.skipped = s.skipped
  PROVE  OutInv(t, u, n)
BY DEF OutInv, LastIsShort

LEMMA FreshPorts ==
  /\ Empty \in OutPort /\ Empty.busy = <<>> /\ Empty.bank = <<>>
  /\ Ready \in OutPort /\ Ready.busy = <<>> /\ Ready.bank = <<>>
  /\ NoInput \in InPort /\ NoInput.packets = <<>>
  /\ ReadyForInput \in InPort /\ ReadyForInput.packets = <<>>
<1>1. <<>> \in Packets /\ <<>> \in Seq(Int)
  BY FlatNone
<1>2. Empty \in OutPort /\ Empty.busy = <<>> /\ Empty.bank = <<>>
  BY <1>1 DEF Empty, OutPort
<1>3. NoInput \in InPort /\ NoInput.packets = <<>>
  BY <1>1 DEF NoInput, InPort
<1>4. Ready \in OutPort /\ Ready.busy = <<>> /\ Ready.bank = <<>>
  BY <1>2 DEF Ready, OutPort
<1>5. ReadyForInput \in InPort /\ ReadyForInput.packets = <<>>
  BY <1>3 DEF ReadyForInput, InPort
<1> QED BY <1>2, <1>3, <1>4, <1>5

LEMMA OutNew ==
  ASSUME NEW t \in OutPort, t.busy = <<>>, t.bank = <<>>, NEW s \in Seen, NEW m \in Nat
  PROVE  OutInv(t, NewOutput(s), m)
<1> DEFINE u == NewOutput(s)
<1>1. u \in Seen /\ u.accepted = 0 /\ u.got = 0 /\ u.open = FALSE
  BY DEF NewOutput, Seen
<1> HIDE DEF u
<1>2. Content(t) = <<>>
  <2>1. <<>> \o <<>> = <<>>
    OBVIOUS
  <2> QED BY <2>1, FlatNone DEF Content
<1>3. Run(0, 0 - 0) = <<>>
  BY RunNone
<1>4. CDC_TX_SIZE \in Nat \ {0} /\ Len(<<>>) = 0
  BY UsbDataAssumption
<1>5. OpenPacket(t, m) /\ LastIsShort(t, u, m)
  BY <1>1, <1>4 DEF OpenPacket, LastIsShort
<1>6. OutInv(t, u, m)
  BY <1>1, <1>2, <1>3, <1>5 DEF OutInv
<1> QED BY <1>6 DEF u

LEMMA PacketsTail ==
  ASSUME NEW p \in Packets, p # <<>>
  PROVE  /\ Len(Tail(p)) = Len(p) - 1 /\ Len(p) \in Nat \ {0} /\ Tail(p) \in Packets
         /\ Tail(p) # <<>> => Tail(p)[Len(Tail(p))] = p[Len(p)]
         /\ Tail(p) = <<>> => Head(p) = p[Len(p)]
<1>1. /\ Tail(p) \in Packets /\ Len(p) \in Nat \ {0} /\ Len(Tail(p)) = Len(p) - 1
      /\ \A i \in 1 .. Len(Tail(p)) : Tail(p)[i] = p[i + 1]
      /\ Head(p) = p[1]
  BY HeadTailProperties DEF Packets
<1>2. Tail(p) # <<>> => Len(Tail(p)) \in 1 .. Len(Tail(p))
  BY <1>1 DEF Packets
<1>3. Tail(p) = <<>> => Len(p) = 1
  BY <1>1
<1>4. Tail(p) # <<>> => Tail(p)[Len(Tail(p))] = p[Len(p)]
  BY <1>1, <1>2
<1> QED BY <1>1, <1>3, <1>4

LEMMA OutReads ==
  ASSUME NEW t, NEW s, NEW n, OutInv(t, s, n), t.on, t.busy # <<>>
  PROVE  OutInv([t EXCEPT !.busy = Tail(@)],
                [s EXCEPT !.got = @ + Len(Head(t.busy)), !.open = Len(Head(t.busy)) = CDC_TX_SIZE], n)
<1> DEFINE v == [t EXCEPT !.busy = Tail(@)]
           h == Head(t.busy)
           u == [s EXCEPT !.got = @ + Len(h), !.open = Len(h) = CDC_TX_SIZE]
<1> SUFFICES OutInv(v, u, n)
  OBVIOUS
<1>1. /\ t \in OutPort /\ s \in Seen /\ s.got <= s.accepted /\ n \in Nat
      /\ Content(t) = Run(s.got, s.accepted - s.got)
      /\ OpenPacket(t, n) /\ LastIsShort(t, s, n)
  BY DEF OutInv
<1>2. s.accepted \in Nat /\ s.got \in Nat /\ s.accepted - s.got \in Nat
  BY <1>1, SeenFields
<1>3. /\ h \in Seq(Int) /\ Tail(t.busy) \in Packets /\ Len(h) \in Nat
      /\ Flat(t.busy) = h \o Flat(Tail(t.busy)) /\ Flat(Tail(t.busy)) \in Seq(Int)
  <2>1. t.busy \in Packets
    BY <1>1, PortFields
  <2>2. h \in Seq(Int) /\ Tail(t.busy) \in Packets /\ Flat(t.busy) = h \o Flat(Tail(t.busy))
    BY <2>1, FlatTail
  <2>3. Len(h) \in Nat
    BY <2>2
  <2> QED BY <2>2, <2>3, FlatType
<1> HIDE DEF h
<1>4. v \in OutPort /\ v.on = t.on /\ v.busy = Tail(t.busy) /\ v.bank = t.bank
  <2>1. \A b \in Packets : [t EXCEPT !.busy = b] \in OutPort
    BY <1>1 DEF OutPort
  <2>2. v \in OutPort
    BY <2>1, <1>3
  <2>3. v.on = t.on /\ v.busy = Tail(t.busy) /\ v.bank = t.bank
    BY <1>1 DEF OutPort
  <2> QED BY <2>2, <2>3
<1> HIDE DEF v
<1>5. h \o Content(v) = Content(t) /\ Content(v) \in Seq(Int)
  <2>1. t.bank \in Seq(Int)
    BY <1>1, PortFields
  <2>2. h \o (Flat(Tail(t.busy)) \o t.bank) = (h \o Flat(Tail(t.busy))) \o t.bank
    BY <2>1, <1>3, Associative, Zenon
  <2>3. Content(v) \in Seq(Int)
    BY <1>4, PortFields
  <2> QED BY <2>2, <2>3, <1>3, <1>4, Zenon DEF Content
<1>6. /\ Len(h) \in 0 .. s.accepted - s.got
      /\ Content(v) = Run(s.got + Len(h), (s.accepted - s.got) - Len(h))
  <2>1. s.got \in Int /\ h \o Content(v) = Run(s.got, s.accepted - s.got)
    BY <1>1, <1>2, <1>5
  <2>2. h \in Seq(Int) /\ Content(v) \in Seq(Int) /\ s.accepted - s.got \in Nat
    BY <1>2, <1>3, <1>5
  <2> QED BY <2>1, <2>2, RunRest
<1>7. /\ u \in Seen /\ u.got = s.got + Len(h) /\ u.accepted = s.accepted
      /\ u.open = (Len(h) = CDC_TX_SIZE) /\ u.skipped = s.skipped
  <2>1. s.got + Len(h) \in Nat
    BY <1>2, <1>3
  <2>2. /\ u.accepted = s.accepted /\ u.got = s.got + Len(h) /\ u.sent = s.sent /\ u.read = s.read
        /\ u.skipped = s.skipped /\ u.open = (Len(h) = CDC_TX_SIZE)
    BY <1>1 DEF Seen
  <2>3. u \in Seen
    BY <2>1, <1>1 DEF Seen
  <2> QED BY <2>2, <2>3
<1> HIDE DEF u
<1>8. u.got <= u.accepted /\ u.accepted - u.got = (s.accepted - s.got) - Len(h)
  BY <1>2, <1>3, <1>6, <1>7
<1>9. OpenPacket(v, n)
  <2>1. /\ Len(Tail(t.busy)) < Len(t.busy) /\ Len(Tail(t.busy)) \in Nat /\ Len(t.busy) \in Nat
    BY <1>1, <1>3, PortFields, PacketsTail
  <2>2. Room(t) => Room(v)
    BY <2>1, <1>4, UsbDataAssumption DEF Room
  <2> QED BY <2>2, <1>1, <1>4 DEF OpenPacket
<1>10. LastIsShort(v, u, n)
  <2>1. /\ Tail(t.busy) # <<>> => Tail(t.busy)[Len(Tail(t.busy))] = t.busy[Len(t.busy)]
        /\ Tail(t.busy) = <<>> => h = t.busy[Len(t.busy)]
    BY <1>1, PortFields, PacketsTail DEF h
  <2>2. CDC_TX_SIZE \in Nat
    BY UsbDataAssumption
  <2>3. n = 0 /\ ~s.skipped => Len(t.busy[Len(t.busy)]) < CDC_TX_SIZE
    BY <1>1 DEF LastIsShort
  <2>4. n = 0 /\ ~s.skipped /\ Tail(t.busy) = <<>> => ~u.open
    <3>1. n = 0 /\ ~s.skipped /\ Tail(t.busy) = <<>> => Len(h) # CDC_TX_SIZE
      BY <2>1, <2>2, <2>3, <1>3
    <3> QED BY <3>1, <1>7, Zenon
  <2> QED BY <2>1, <2>3, <2>4, <1>4, <1>7 DEF LastIsShort
<1> QED BY <1>1, <1>4, <1>6, <1>7, <1>8, <1>9, <1>10 DEF OutInv
-----------------------------------------------------------------------------
(***************************************************************************)
(* What is done to the port that receives.                                 *)
(***************************************************************************)

LEMMA InSeen ==
  ASSUME NEW r, NEW s, InInv(r, s), NEW u \in Seen, u.sent = s.sent, u.read = s.read
  PROVE  InInv(r, u)
BY DEF InInv

LEMMA InNew ==
  ASSUME NEW r \in InPort, r.packets = <<>>, NEW s \in Seen
  PROVE  InInv(r, NewInput(s))
<1> DEFINE u == NewInput(s)
<1>1. u \in Seen /\ u.sent = 0 /\ u.read = 0
  BY DEF NewInput, Seen
<1> HIDE DEF u
<1>2. Run(0, 0 - 0) = <<>>
  BY RunNone
<1>3. InInv(r, u)
  BY <1>1, <1>2, FlatNone DEF InInv
<1> QED BY <1>3 DEF u

LEMMA InPackets ==
  ASSUME NEW r \in InPort, NEW p \in Packets
  PROVE  /\ r.packets \in Packets
         /\ [r EXCEPT !.packets = p] \in InPort /\ [r EXCEPT !.packets = p].packets = p
BY DEF InPort

LEMMA InWrites ==
  ASSUME NEW r, NEW s, InInv(r, s), NEW k \in Nat
  PROVE  InInv([r EXCEPT !.packets = Append(@, [i \in 1 .. k |-> s.sent + i])],
               [s EXCEPT !.sent = @ + k])
<1> DEFINE p == Append(r.packets, Run(s.sent, k))
           v == [r EXCEPT !.packets = p]
           u == [s EXCEPT !.sent = @ + k]
<1>1. /\ r \in InPort /\ s \in Seen /\ s.read <= s.sent
      /\ Flat(r.packets) = Run(s.read, s.sent - s.read)
  BY DEF InInv
<1>2. s.sent \in Nat /\ s.read \in Nat /\ s.sent - s.read \in Nat
  BY <1>1, SeenFields
<1>3. r.packets \in Packets /\ Run(s.sent, k) \in Seq(Int)
  <2>1. r.packets \in Packets
    BY <1>1 DEF InPort
  <2>2. s.sent \in Int
    BY <1>2
  <2> QED BY <2>1, <2>2, RunType, Zenon
<1>4. p \in Packets /\ Flat(p) = Flat(r.packets) \o Run(s.sent, k)
  BY <1>3, FlatAppend
<1>5. v = [r EXCEPT !.packets = Append(@, [i \in 1 .. k |-> s.sent + i])]
  BY DEF Run
<1> HIDE DEF p
<1>6. v \in InPort /\ v.packets = p
  BY <1>1, <1>4, InPackets
<1>7. u \in Seen /\ u.sent = s.sent + k /\ u.read = s.read
  <2>1. \A a \in Nat : [s EXCEPT !.sent = a] \in Seen
    BY <1>1 DEF Seen
  <2>2. s.sent + k \in Nat
    BY <1>2
  <2>3. u \in Seen
    BY <2>1, <2>2
  <2>4. u.sent = s.sent + k /\ u.read = s.read
    BY <1>1 DEF Seen
  <2> QED BY <2>3, <2>4
<1>8. Flat(p) = Run(s.read, (s.sent - s.read) + k)
  <2> DEFINE d == s.sent - s.read
  <2>1. s.read \in Int /\ d \in Nat /\ k \in Nat /\ s.read + d = s.sent
    BY <1>2
  <2>2. Flat(r.packets) = Run(s.read, d)
    BY <1>1
  <2> HIDE DEF d
  <2>3. Run(s.read, d) \o Run(s.read + d, k) = Run(s.read, d + k)
    BY <2>1, RunJoin, Zenon
  <2>4. Flat(p) = Run(s.read, d + k)
    BY <1>4, <2>1, <2>2, <2>3, Zenon
  <2> QED BY <2>4 DEF d
<1> HIDE DEF v, u
<1>9. u.read <= u.sent /\ u.sent - u.read = (s.sent - s.read) + k
  BY <1>1, <1>2, <1>7
<1>10. InInv(v, u)
  BY <1>6, <1>7, <1>8, <1>9 DEF InInv
<1> QED BY <1>5, <1>10, Zenon DEF u

LEMMA InDropped ==
  ASSUME NEW r, NEW s, InInv(r, s)
  PROVE  InInv([r EXCEPT !.packets = Dropped(@)], s)
<1> DEFINE p == Dropped(r.packets)
<1>1. r \in InPort
  BY DEF InInv
<1>2. p \in Packets /\ Flat(p) = Flat(r.packets)
  <2>1. r.packets \in Packets
    BY <1>1 DEF InPort
  <2> QED BY <2>1, FlatDropped
<1> HIDE DEF p
<1>3. InInv([r EXCEPT !.packets = p], s)
  <2>1. [r EXCEPT !.packets = p] \in InPort /\ [r EXCEPT !.packets = p].packets = p
    BY <1>1, <1>2, InPackets
  <2> QED BY <2>1, <1>2 DEF InInv
<1> QED BY <1>3 DEF p

(* The character taken is the next one. *)
LEMMA InGet ==
  ASSUME NEW r, NEW s, InInv(r, s), NEW p, p = Skip(r.packets), p # <<>>
  PROVE  InInv([r EXCEPT !.packets = Taken(p)],
               [s EXCEPT !.read = IF Head(Head(p)) = @ + 1 THEN @ + 1 ELSE -1])
<1> DEFINE c == Head(Head(p))
           n == s.sent - s.read
           u == [s EXCEPT !.read = IF Head(Head(p)) = @ + 1 THEN @ + 1 ELSE -1]
           v == [r EXCEPT !.packets = Taken(p)]
<1> SUFFICES InInv(v, u)
  OBVIOUS
<1>1. /\ r \in InPort /\ s \in Seen /\ s.read <= s.sent
      /\ Flat(r.packets) = Run(s.read, s.sent - s.read)
  BY DEF InInv
<1>2. s.sent \in Nat /\ s.read \in Nat /\ n \in Nat
  BY <1>1, SeenFields
<1>3. p \in Packets /\ Flat(p) = Flat(r.packets) /\ Head(p) # <<>>
  <2>1. r.packets \in Packets
    BY <1>1 DEF InPort
  <2> QED BY <2>1, FlatSkip
<1>4. c \in Int /\ Taken(p) \in Packets /\ Flat(p) = <<c>> \o Flat(Taken(p))
  BY <1>3, FlatTaken
<1> HIDE DEF c, n
<1>5. Len(<<c>>) = 1 /\ <<c>>[1] = c /\ <<c>> \in Seq(Int) /\ Flat(Taken(p)) \in Seq(Int)
  BY <1>4, FlatType
<1>6. <<c>> \o Flat(Taken(p)) = Run(s.read, n)
  BY <1>1, <1>3, <1>4 DEF n
<1>7. /\ Len(<<c>>) \in 0 .. n /\ Flat(Taken(p)) = Run(s.read + Len(<<c>>), n - Len(<<c>>))
      /\ \A i \in 1 .. Len(<<c>>) : <<c>>[i] = s.read + i
  <2>1. s.read \in Int
    BY <1>2
  <2> QED BY <2>1, <1>2, <1>5, <1>6, RunRest
<1>8. n >= 1 /\ Flat(Taken(p)) = Run(s.read + 1, n - 1) /\ c = s.read + 1
  <2>1. 1 \in 1 .. 1
    OBVIOUS
  <2>2. 1 \in 0 .. n /\ Flat(Taken(p)) = Run(s.read + 1, n - 1)
    BY <1>5, <1>7, Zenon
  <2>3. <<c>>[1] = s.read + 1
    BY <2>1, <1>5, <1>7, Zenon
  <2> QED BY <2>2, <2>3, <1>2, <1>5
<1>9. u \in Seen /\ u.sent = s.sent /\ u.read = s.read + 1
  <2>1. \A a \in Nat : [s EXCEPT !.read = a] \in Seen
    BY <1>1 DEF Seen
  <2>2. s.read + 1 \in Nat
    BY <1>2
  <2>3. u = [s EXCEPT !.read = s.read + 1]
    BY <1>8 DEF c
  <2>4. u \in Seen
    BY <2>1, <2>2, <2>3
  <2>5. u.sent = s.sent /\ u.read = s.read + 1
    BY <1>1, <2>3 DEF Seen
  <2> QED BY <2>4, <2>5
<1>10. v \in InPort /\ v.packets = Taken(p)
  BY <1>1, <1>4, InPackets
<1> HIDE DEF u, v
<1>11. u.read <= u.sent /\ u.sent - u.read = n - 1
  BY <1>2, <1>8, <1>9 DEF n
<1> QED BY <1>8, <1>9, <1>10, <1>11 DEF InInv
-----------------------------------------------------------------------------
(***************************************************************************)
(* The steps, one by one.                                                  *)
(***************************************************************************)

LEMMA DataFields ==
  ASSUME DataInv
  PROVE  /\ tx \in OutPort /\ rx \in InPort /\ seen \in Seen /\ transmit_flush_timer \in Nat
         /\ Len(tx.bank) < CDC_TX_SIZE
BY DEF DataInv, OutInv, InInv, OpenPacket

LEMMA DataFrame ==
  ASSUME DataInv, UNCHANGED <<tx, rx, seen, transmit_flush_timer>>
  PROVE  DataInv'
BY DEF DataInv

LEMMA DataPut ==
  ASSUME DataInv, RWAL(CDC_TX_ENDPOINT) = {TRUE}, Put(CDC_TX_ENDPOINT), rx' = rx
  PROVE  DataInv'
<1> DEFINE u == [seen EXCEPT !.accepted = @ + 1, !.skipped = FALSE]
           m == TRANSMIT_FLUSH_TIMEOUT
<1>1. Room(tx) /\ Len(tx.bank) < CDC_TX_SIZE
  <2>1. (Room(tx) /\ Len(tx.bank) < CDC_TX_SIZE) \in {TRUE}
    BY Zenon DEF RWAL
  <2> QED BY <2>1
<1>2. seen' = u /\ tx' = Filled(tx, seen.accepted + 1) /\ transmit_flush_timer' = m
  BY DEF Put, Armed
<1>3. m \in Nat \ {0}
  BY UsbDataAssumption
<1>4. seen \in Seen /\ OutInv(tx, seen, transmit_flush_timer) /\ InInv(rx, seen)
  BY DataFields DEF DataInv
<1>5. OutInv(Filled(tx, seen.accepted + 1), u, m)
  BY <1>1, <1>3, <1>4, OutPut
<1>6. u \in Seen /\ u.sent = seen.sent /\ u.read = seen.read
  <2>1. u \in Seen
    BY <1>5 DEF OutInv
  <2>2. u.sent = seen.sent /\ u.read = seen.read
    BY <1>4 DEF Seen
  <2> QED BY <2>1, <2>2
<1> HIDE DEF u, m
<1>7. InInv(rx, u)
  BY <1>4, <1>6, InSeen
<1> QED BY <1>2, <1>5, <1>7, Zenon DEF DataInv

LEMMA DataFlush ==
  ASSUME DataInv, tx' = Release(tx), seen' = Flushed(seen), transmit_flush_timer' = 0, rx' = rx
  PROVE  DataInv'
<1>1. seen \in Seen /\ OutInv(tx, seen, transmit_flush_timer) /\ InInv(rx, seen)
  BY DataFields DEF DataInv
<1>2. OutInv(tx', seen', transmit_flush_timer')
  BY <1>1, OutFlush DEF Flushed
<1>3. seen' \in Seen /\ seen'.sent = seen.sent /\ seen'.read = seen.read
  <2>1. seen' \in Seen
    BY <1>2 DEF OutInv
  <2>2. seen'.sent = seen.sent /\ seen'.read = seen.read
    BY <1>1 DEF Flushed, Seen
  <2> QED BY <2>1, <2>2
<1>4. InInv(rx', seen')
  BY <1>1, <1>3, InSeen
<1> QED BY <1>2, <1>4 DEF DataInv

(* Both ports as they are after a reset or a new configuration. *)
LEMMA DataRenewed ==
  ASSUME DataInv, tx' \in OutPort, tx'.busy = <<>>, tx'.bank = <<>>,
         rx' \in InPort, rx'.packets = <<>>, seen' = NewInput(NewOutput(seen)),
         transmit_flush_timer' \in Nat
  PROVE  DataInv'
<1> DEFINE u == NewOutput(seen)
           t == tx'
           n == transmit_flush_timer'
<1>1. seen \in Seen
  BY DataFields
<1>2. u \in Seen /\ NewInput(u) \in Seen
  BY <1>1 DEF NewOutput, NewInput, Seen
<1>3. OutInv(t, u, n)
  BY <1>1, OutNew
<1>4. /\ NewInput(u).got = u.got /\ NewInput(u).accepted = u.accepted
      /\ NewInput(u).open = u.open /\ NewInput(u).skipped = u.skipped
  BY <1>2 DEF NewInput, Seen
<1> HIDE DEF u
<1>5. OutInv(t, NewInput(u), n)
  <2> HIDE DEF t, n
  <2> QED BY <1>2, <1>3, <1>4, OutSeen
<1>6. InInv(rx', NewInput(u))
  BY <1>2, InNew
<1> QED BY <1>5, <1>6 DEF DataInv, u

LEMMA DataInit == ASSUME Init PROVE DataInv
<1>1. /\ tx \in OutPort /\ tx.busy = <<>> /\ tx.bank = <<>>
      /\ rx \in InPort /\ rx.packets = <<>> /\ transmit_flush_timer = 0
  BY FreshPorts DEF Init
<1>2. /\ seen \in Seen /\ seen.accepted = 0 /\ seen.got = 0 /\ seen.open = FALSE
      /\ seen.skipped = FALSE /\ seen.sent = 0 /\ seen.read = 0
  BY DEF Init, Seen
<1>3. OutInv(tx, seen, 0)
  <2> DEFINE u == NewOutput(seen)
  <2>1. OutInv(tx, u, 0)
    BY <1>1, <1>2, OutNew
  <2>2. u.got = seen.got /\ u.accepted = seen.accepted /\ u.open = seen.open /\ u.skipped = seen.skipped
    BY <1>2 DEF NewOutput, Seen
  <2> HIDE DEF u
  <2> QED BY <1>2, <2>1, <2>2, OutSeen
<1>4. InInv(rx, seen)
  <2> DEFINE u == NewInput(seen)
  <2>1. InInv(rx, u)
    BY <1>1, <1>2, InNew
  <2>2. u.sent = seen.sent /\ u.read = seen.read
    BY <1>2 DEF NewInput, Seen
  <2> HIDE DEF u
  <2> QED BY <1>2, <2>1, <2>2, InSeen
<1> QED BY <1>1, <1>3, <1>4 DEF DataInv

LEMMA DataFrameStep == ASSUME DataInv, NextFrame PROVE DataInv'
BY DataFrame DEF NextFrame, Frame

LEMMA DataHost == ASSUME DataInv, HostReads \/ HostWrites PROVE DataInv'
<1>1. seen \in Seen /\ OutInv(tx, seen, transmit_flush_timer) /\ InInv(rx, seen)
  BY DataFields DEF DataInv
<1>2. CASE HostReads
  <2> DEFINE u == [seen EXCEPT !.got = @ + Len(Head(tx.busy)), !.open = Len(Head(tx.busy)) = CDC_TX_SIZE]
  <2>1. /\ tx.on /\ tx.busy # <<>> /\ tx' = [tx EXCEPT !.busy = Tail(@)] /\ seen' = u
        /\ rx' = rx /\ transmit_flush_timer' = transmit_flush_timer
    BY <1>2 DEF HostReads
  <2>2. OutInv([tx EXCEPT !.busy = Tail(@)], u, transmit_flush_timer)
    BY <1>1, <2>1, OutReads
  <2>3. u \in Seen /\ u.sent = seen.sent /\ u.read = seen.read
    <3>1. u \in Seen
      BY <2>2 DEF OutInv
    <3>2. u.sent = seen.sent /\ u.read = seen.read
      BY <1>1 DEF Seen
    <3> QED BY <3>1, <3>2
  <2> HIDE DEF u
  <2>4. InInv(rx, u)
    BY <1>1, <2>3, InSeen
  <2> QED BY <2>1, <2>2, <2>4, Zenon DEF DataInv
<1>3. CASE HostWrites
  <2>1. PICK n \in 0 .. CDC_RX_SIZE :
          /\ rx' = [rx EXCEPT !.packets = Append(@, [i \in 1 .. n |-> seen.sent + i])]
          /\ seen' = [seen EXCEPT !.sent = @ + n]
    BY <1>3 DEF HostWrites
  <2>2. n \in Nat /\ tx' = tx /\ transmit_flush_timer' = transmit_flush_timer
    BY <1>3, UsbDataAssumption DEF HostWrites
  <2>3. InInv(rx', seen')
    BY <1>1, <2>1, <2>2, InWrites
  <2>4. /\ seen'.got = seen.got /\ seen'.accepted = seen.accepted
        /\ seen'.open = seen.open /\ seen'.skipped = seen.skipped
    BY <1>1, <2>1 DEF Seen
  <2>5. seen' \in Seen
    BY <2>3 DEF InInv
  <2>6. OutInv(tx, seen', transmit_flush_timer)
    BY <1>1, <2>4, <2>5, OutSeen
  <2> QED BY <2>2, <2>3, <2>6 DEF DataInv
<1> QED BY <1>2, <1>3

LEMMA DataGen == ASSUME DataInv, Gen PROVE DataInv'
<1>1. CASE ReadFlags
  BY <1>1, DataFrame DEF ReadFlags
<1>2. CASE USB_GEN_vect
  <2>1. rx' = rx
    BY <1>2 DEF USB_GEN_vect
  <2>2. CASE "SOFI" \in gen /\ Configured /\ transmit_flush_timer > 0
    <3>1. transmit_flush_timer' = transmit_flush_timer - 1
      BY <1>2, <2>2 DEF USB_GEN_vect
    <3>2. CASE transmit_flush_timer = 1
      <4>1. tx' = Release(tx) /\ seen' = Flushed(seen)
        BY <1>2, <2>2, <3>2 DEF USB_GEN_vect, Expire
      <4> QED BY <2>1, <3>1, <3>2, <4>1, DataFlush
    <3>3. CASE transmit_flush_timer # 1
      <4>1. tx' = tx /\ seen' = seen
        BY <1>2, <2>2, <3>3 DEF USB_GEN_vect
      <4>2. transmit_flush_timer' \in Nat \ {0}
        BY <2>2, <3>1, <3>3, DataFields
      <4> QED BY <2>1, <4>1, <4>2, OutTimer DEF DataInv
    <3> QED BY <3>2, <3>3
  <2>3. CASE ~("SOFI" \in gen /\ Configured /\ transmit_flush_timer > 0)
    <3>1. UNCHANGED <<tx, rx, seen, transmit_flush_timer>>
      BY <1>2, <2>1, <2>3 DEF USB_GEN_vect
    <3> QED BY <3>1, DataFrame
  <2> QED BY <2>2, <2>3
<1> QED BY <1>1, <1>2 DEF Gen

LEMMA DataSending == ASSUME DataInv, Sending PROVE DataInv'
<1>1. CASE Call("putchar") \/ Call("nowait")
  BY <1>1, DataFrame DEF Call
<1>2. CASE PutcharNowait
  <2>1. CASE RWAL(CDC_TX_ENDPOINT) = {TRUE}
    BY <1>2, <2>1, DataPut DEF PutcharNowait, Unchanged
  <2>2. CASE RWAL(CDC_TX_ENDPOINT) # {TRUE}
    BY <1>2, <2>2, DataFrame DEF PutcharNowait, Unchanged, Fail
  <2> QED BY <2>1, <2>2
<1>3. CASE PutcharStart
  <2>1. CASE RWAL(CDC_TX_ENDPOINT) = {TRUE}
    BY <1>3, <2>1, DataPut DEF PutcharStart, Unchanged
  <2>2. CASE RWAL(CDC_TX_ENDPOINT) # {TRUE}
    BY <1>3, <2>2, DataFrame DEF PutcharStart, Unchanged, Fail
  <2> QED BY <2>1, <2>2
<1>4. CASE PutcharExpired
  BY <1>4, DataFrame DEF PutcharExpired, Unchanged
<1>5. CASE PutcharOnline
  BY <1>5, DataFrame DEF PutcharOnline, Unchanged
<1>6. CASE PutcharAgain
  <2>1. UENUM' = CDC_TX_ENDPOINT /\ rx' = rx
    BY <1>6 DEF PutcharAgain, Selected, Unchanged
  <2>2. PICK ready \in RWAL(UENUM') :
          IF ready THEN Put(UENUM')
          ELSE /\ main' = [main EXCEPT !.pc = "expired"]
               /\ UNCHANGED <<tx, transmit_flush_timer, seen>>
    BY <1>6 DEF PutcharAgain
  <2>3. ready \in RWAL(CDC_TX_ENDPOINT) /\ RWAL(CDC_TX_ENDPOINT) = {Room(tx) /\ Len(tx.bank) < CDC_TX_SIZE}
    BY <2>1, <2>2, Zenon DEF RWAL
  <2>4. CASE Room(tx) /\ Len(tx.bank) < CDC_TX_SIZE
    <3>1. ready = TRUE /\ RWAL(CDC_TX_ENDPOINT) = {TRUE}
      BY <2>3, <2>4
    <3>2. Put(CDC_TX_ENDPOINT)
      BY <2>1, <2>2, <3>1
    <3> QED BY <2>1, <3>1, <3>2, DataPut
  <2>5. CASE ~(Room(tx) /\ Len(tx.bank) < CDC_TX_SIZE)
    <3>1. ready = FALSE
      BY <2>3, <2>5
    <3> QED BY <2>1, <2>2, <3>1, DataFrame
  <2> QED BY <2>4, <2>5
<1>7. CASE usb_serial_flush_output
  BY <1>7, DataFlush DEF usb_serial_flush_output, Unchanged
<1> QED BY <1>1, <1>2, <1>3, <1>4, <1>5, <1>6, <1>7 DEF Sending, Waiting

LEMMA DataReceiving == ASSUME DataInv, Receiving PROVE DataInv'
<1>1. seen \in Seen /\ OutInv(tx, seen, transmit_flush_timer) /\ InInv(rx, seen)
  BY DataFields DEF DataInv
<1>2. CASE Poll
  BY <1>2, DataFrame DEF Poll, Unchanged
<1>3. CASE usb_serial_available
  <2>1. /\ tx' = tx /\ seen' = seen /\ transmit_flush_timer' = transmit_flush_timer
        /\ rx' = rx \/ rx' = [rx EXCEPT !.packets = Dropped(@)]
    BY <1>3 DEF usb_serial_available
  <2>2. InInv(rx', seen)
    BY <1>1, <2>1, InDropped
  <2> QED BY <1>1, <2>1, <2>2 DEF DataInv
<1>4. CASE usb_serial_getchar
  <2> DEFINE p == Skip(rx.packets)
  <2>1. tx' = tx /\ transmit_flush_timer' = transmit_flush_timer
    BY <1>4 DEF usb_serial_getchar
  <2>2. CASE usb_configuration = 0
    BY <1>4, <2>1, <2>2, DataFrame DEF usb_serial_getchar
  <2>3. CASE usb_configuration # 0 /\ p = <<>>
    <3>1. rx' = [rx EXCEPT !.packets = <<>>] /\ seen' = seen
      BY <1>4, <2>3 DEF usb_serial_getchar
    <3>2. /\ rx \in InPort /\ rx.packets \in Packets
          /\ Flat(rx.packets) = Run(seen.read, seen.sent - seen.read)
      BY <1>1 DEF InInv, InPort
    <3>3. Flat(rx.packets) = <<>>
      BY <2>3, <3>2, FlatSkip, FlatNone
    <3>4. rx' \in InPort /\ rx'.packets = <<>>
      BY <3>1, <3>2, FlatNone, InPackets
    <3>5. InInv(rx', seen)
      BY <1>1, <3>2, <3>3, <3>4, FlatNone DEF InInv
    <3> QED BY <1>1, <2>1, <3>1, <3>5 DEF DataInv
  <2>4. CASE usb_configuration # 0 /\ p # <<>>
    <3>1. /\ rx' = [rx EXCEPT !.packets = Taken(p)]
          /\ seen' = [seen EXCEPT !.read = IF Head(Head(p)) = @ + 1 THEN @ + 1 ELSE -1]
      BY <1>4, <2>4 DEF usb_serial_getchar
    <3>2. InInv(rx', seen')
      BY <1>1, <2>4, <3>1, InGet
    <3>3. seen' \in Seen
      BY <3>2 DEF InInv
    <3>4. /\ seen'.got = seen.got /\ seen'.accepted = seen.accepted
          /\ seen'.open = seen.open /\ seen'.skipped = seen.skipped
      BY <1>1, <3>1 DEF Seen
    <3>5. OutInv(tx, seen', transmit_flush_timer)
      BY <1>1, <3>3, <3>4, OutSeen
    <3> QED BY <2>1, <3>2, <3>5 DEF DataInv
  <2> QED BY <2>2, <2>3, <2>4
<1> QED BY <1>2, <1>3, <1>4 DEF Receiving

(* Endpoint 0: only a new configuration and CLEAR_FEATURE touch the ports. *)
LEMMA DataConfigured ==
  ASSUME DataInv, NEW r, SetConfiguration(r)
  PROVE  DataInv'
<1>1. /\ tx' = Ready /\ rx' = ReadyForInput
      /\ seen' = NewInput(NewOutput(seen)) /\ transmit_flush_timer' = 0
  BY DEF SetConfiguration, ResetEndpoints
<1>2. /\ tx' \in OutPort /\ tx'.busy = <<>> /\ tx'.bank = <<>>
      /\ rx' \in InPort /\ rx'.packets = <<>>
  BY <1>1, FreshPorts
<1> QED BY <1>1, <1>2, DataRenewed

LEMMA DataCleared ==
  ASSUME DataInv, NEW r, ClearFeature(r)
  PROVE  DataInv'
<1>1. /\ seen \in Seen /\ tx \in OutPort /\ rx \in InPort /\ transmit_flush_timer \in Nat
      /\ OutInv(tx, seen, transmit_flush_timer) /\ InInv(rx, seen)
  BY DataFields DEF DataInv
<1>2. transmit_flush_timer' = transmit_flush_timer
  BY DEF ClearFeature
<1>3. tx.on \in BOOLEAN /\ rx.on \in BOOLEAN
  BY <1>1 DEF OutPort, InPort
<1>4. CASE r.value = CDC_TX_ENDPOINT
  <2> DEFINE u == NewOutput(seen)
  <2>1. tx' = [Ready EXCEPT !.on = tx.on] /\ rx' = rx /\ seen' = u
    BY <1>4 DEF ClearFeature, CDC_TX_ENDPOINT, CDC_RX_ENDPOINT
  <2>2. tx' \in OutPort /\ tx'.busy = <<>> /\ tx'.bank = <<>>
    BY <1>3, <2>1, FreshPorts DEF OutPort
  <2>3. OutInv(tx', u, transmit_flush_timer)
    BY <1>1, <2>2, OutNew
  <2>4. u \in Seen /\ u.sent = seen.sent /\ u.read = seen.read
    BY <1>1 DEF NewOutput, Seen
  <2> HIDE DEF u
  <2>5. InInv(rx, u)
    BY <1>1, <2>4, InSeen
  <2> QED BY <1>2, <2>1, <2>3, <2>5 DEF DataInv
<1>5. CASE r.value = CDC_RX_ENDPOINT
  <2> DEFINE u == NewInput(seen)
  <2>1. tx' = tx /\ rx' = [ReadyForInput EXCEPT !.on = rx.on] /\ seen' = u
    BY <1>5 DEF ClearFeature, CDC_TX_ENDPOINT, CDC_RX_ENDPOINT
  <2>2. rx' \in InPort /\ rx'.packets = <<>>
    BY <1>3, <2>1, FreshPorts DEF InPort
  <2>3. InInv(rx', u)
    BY <1>1, <2>2, InNew
  <2>4. u \in Seen /\ u.got = seen.got /\ u.accepted = seen.accepted /\ u.open = seen.open /\ u.skipped = seen.skipped
    BY <1>1 DEF NewInput, Seen
  <2> HIDE DEF u
  <2>5. OutInv(tx, u, transmit_flush_timer)
    BY <1>1, <2>4, OutSeen
  <2> QED BY <1>2, <2>1, <2>3, <2>5 DEF DataInv
<1>6. CASE r.value # CDC_TX_ENDPOINT /\ r.value # CDC_RX_ENDPOINT
  BY <1>6, DataFrame DEF ClearFeature
<1> QED BY <1>4, <1>5, <1>6

LEMMA DataCom == ASSUME DataInv, Com PROVE DataInv'
<1>1. CASE USB_COM_vect
  <2> DEFINE r == ep0.setup
  <2>1. DataKept \/ SetConfiguration(r) \/ ClearFeature(r)
    BY <1>1 DEF USB_COM_vect
  <2>2. CASE DataKept
    BY <2>2, DataFrame DEF DataKept
  <2> HIDE DEF r
  <2> QED BY <2>1, <2>2, DataConfigured, DataCleared
<1>2. CASE SendPackets \/ Answer \/ TakeAddress \/ ReceiveLineCoding
  <2>1. DataKept
    BY <1>2 DEF SendPackets, Answer, TakeAddress, ReceiveLineCoding, Handling
  <2> QED BY <2>1, DataFrame DEF DataKept
<1> QED BY <1>1, <1>2 DEF Com

LEMMA DataHostControl ==
  ASSUME DataInv, HostSetup \/ HostAborts \/ HostReset \/ HostFinishes
  PROVE  DataInv'
<1>1. CASE HostReset
  <2>1. /\ tx' = Empty /\ rx' = NoInput /\ seen' = NewInput(NewOutput(seen))
        /\ transmit_flush_timer' = transmit_flush_timer
    BY <1>1 DEF HostReset
  <2> QED BY <2>1, FreshPorts, DataFields, DataRenewed
<1>2. CASE HostSetup \/ HostAborts \/ HostFinishes
  <2>1. HostOnly
    BY <1>2 DEF HostSetup, HostAborts, HostFinishes, HostTakes, HostEnds, HostSendsData,
                HostTakesStatus, HostStalled
  <2> QED BY <2>1, DataFrame DEF HostOnly
<1> QED BY <1>1, <1>2

LEMMA DataStep == ASSUME DataInv, [Next]_vars PROVE DataInv'
<1>1. CASE Main
  <2>1. Sending \/ Receiving
    BY <1>1 DEF Main
  <2> QED BY <2>1, DataSending, DataReceiving
<1>2. CASE Gen
  BY <1>2, DataGen
<1>3. CASE NextFrame
  BY <1>3, DataFrameStep
<1>4. CASE HostData
  BY <1>4, DataHost DEF HostData
<1>5. CASE Com
  BY <1>5, DataCom
<1>6. CASE HostSetup \/ HostAborts \/ HostReset \/ HostFinishes
  BY <1>6, DataHostControl
<1>7. CASE UNCHANGED vars
  BY <1>7, DataFrame DEF vars, data_vars
<1> QED BY <1>1, <1>2, <1>3, <1>4, <1>5, <1>6, <1>7 DEF Next

LEMMA DataInvariance == Spec => []DataInv
BY DataInit, DataStep, PTL DEF Spec

(* usb_serial_putchar, usb_serial_getchar, the start-of-frame interrupt,   *)
(* the control requests and the host share UENUM and the banks; whatever   *)
(* their order, the characters main has put are in the banks in order from *)
(* the one the host is to get next, and the same holds for those the host  *)
(* has sent: none is lost, doubled or left over.                           *)
THEOREM CharactersInOrder == Spec => []InOrder
<1>1. DataInv => InOrder
  BY DEF DataInv, OutInv, InInv, InOrder, Content, Run
<1> QED BY <1>1, DataInvariance, PTL

(* usb_serial.c:72-78: what is in a bank is flushed by the timer, and once *)
(* all is sent a short packet has ended the transfer, unless both banks    *)
(* were full when it was to be released.                                   *)
THEOREM FlushedInTime == Spec => []NothingLeftBehind
<1>1. DataInv => NothingLeftBehind
  BY DEF DataInv, OutInv, OpenPacket, LastIsShort, NothingLeftBehind
<1> QED BY <1>1, DataInvariance, PTL
-----------------------------------------------------------------------------
(***************************************************************************)
(* A descriptor in packets.                                                *)
(***************************************************************************)

LEMMA DescriptorLengths ==
  /\ DOMAIN Lengths = 1 .. 6
  /\ \A v \in 1 .. 6 : Lengths[v] \in 0 .. 255
BY DEF Lengths

(* The 255 of _USB_COM is more than any descriptor has. *)
LEMMA AskedIsWhole ==
  ASSUME NEW r \in Asking, r.value \in DOMAIN Lengths
  PROVE  Asked(r) = Whole(r) /\ Whole(r) \in Nat /\ Whole(r) <= r.length
<1>1. r.length \in Nat /\ Lengths[r.value] \in 0 .. 255
  BY DescriptorLengths DEF Asking, NoRequest
<1> QED BY <1>1 DEF Asked, Whole, Least

LEMMA Kinds ==
  /\ "GET_DESCRIPTOR" \in Reads /\ "GET_DESCRIPTOR" \notin Writes
  /\ NoRequest \in Asking /\ NoRequest.request = "none" /\ "none" \notin Reads \cup Writes \cup Others
BY DEF Reads, Writes, Others, NoRequest, Asking

LEMMA Fields ==
  ASSUME NEW e \in Endpoint0, NEW c \in Handlers, NEW h \in Hosts
  PROVE  /\ e.setup \in Asking /\ e.in \in Int /\ e.out \in BOOLEAN /\ e.stall \in BOOLEAN
         /\ c.pc \in {"none", "packets", "answer", "address", "line"} /\ c.len \in Nat
         /\ h.stage \in Stages /\ h.request \in Asking /\ h.got \in Nat
         /\ h.request.length \in Nat /\ h.request.value \in Nat
         /\ h.requests \in Nat /\ h.resets \in Nat /\ h.address \in Nat
<1>1. \A r \in Asking : r.length \in Nat /\ r.value \in Nat
  BY DEF Asking, NoRequest
<1>2. e.setup \in Asking /\ e.in \in Int /\ e.out \in BOOLEAN /\ e.stall \in BOOLEAN
  BY DEF Endpoint0
<1>3. c.pc \in {"none", "packets", "answer", "address", "line"} /\ c.len \in Nat
  BY DEF Handlers
<1>4. /\ h.stage \in Stages /\ h.request \in Asking /\ h.got \in Nat
      /\ h.requests \in Nat /\ h.resets \in Nat /\ h.address \in Nat
  BY DEF Hosts
<1> QED BY <1>1, <1>2, <1>3, <1>4

LEMMA ControlInit == ASSUME Init PROVE ControlInv
<1>1. /\ ep0 = QuietEp0 /\ com = Returned /\ host.stage = "none" /\ host.request = NoRequest
      /\ host.got = 0
  BY DEF Init
<1>2. ep0 \in Endpoint0 /\ com \in Handlers
  BY <1>1, Kinds DEF QuietEp0, Returned, Endpoint0, Handlers
<1>3. host \in Hosts
  BY Kinds DEF Init, Hosts, Stages
<1>4. ep0.setup = NoRequest /\ com.pc = "none" /\ ~Getting(host)
  BY <1>1, Kinds DEF QuietEp0, Returned, Getting
<1> QED BY <1>1, <1>2, <1>3, <1>4 DEF ControlInv, Fits, Pending, Waits, Progress

LEMMA ControlFrame ==
  ASSUME ControlInv, UNCHANGED <<ep0, com, host>>
  PROVE  ControlInv'
BY DEF ControlInv, Fits, Pending, Waits, Progress, Getting

(* The host sets up a request: a handler that still sends is told to stop. *)
LEMMA FitsSetup ==
  ASSUME NEW e \in Endpoint0, NEW c \in Handlers, NEW h \in Hosts, Fits(e, c, h), h.stage = "none",
         NEW r \in Asking, r # NoRequest,
         NEW f, f.setup = r, f.in = -1, f.stall = FALSE, f.out = e.out,
         NEW g, g.request = r, g.got = 0, g.stage = StageOf(r)
  PROVE  Fits(f, c, g)
<1>1. ~Getting(h) /\ g.stage # "none" /\ g.stage # "status_out"
  BY Kinds DEF Fits, Waits, Getting, StageOf
<1>2. c.pc # "answer" /\ c.pc # "line" /\ (c.pc = "packets" => e.out)
  BY <1>1 DEF Fits, Waits
<1> QED BY <1>1, <1>2 DEF Fits, Pending, Waits, Progress

(* What is left to send, in numbers: the sizes of the packets add up. *)
LEMMA PacketTaken ==
  ASSUME NEW got \in Nat, NEW in \in Nat, NEW len \in Nat, NEW whole \in Nat, NEW length \in Nat,
         NEW size \in Nat \ {0}, whole <= length
  PROVE  /\ in = size /\ got + size + len = whole /\ got + in >= length => got + in = whole
         /\ in = size /\ got + size + len = whole => ~(in < size) /\ (got + in) + len = whole
         /\ in \in 0 .. size - 1 => in < size
OBVIOUS

LEMMA PacketSent ==
  ASSUME NEW got \in Nat, NEW len \in Nat, NEW whole \in Nat, NEW size \in Nat \ {0}, got + len = whole
  PROVE  /\ len < size => len \in 0 .. size - 1
         /\ ~(len < size) => got + size + (len - size) = whole
         /\ len < size => Least(len, size) = len
         /\ ~(len < size) => Least(len, size) = size
         /\ ~(size < size) /\ -1 # len /\ 0 + len = len
BY DEF Least

(* The host takes a packet of an answer. *)
LEMMA FitsTakes ==
  ASSUME NEW e \in Endpoint0, NEW c \in Handlers, NEW h \in Hosts, Fits(e, c, h),
         h.stage = "data", e.setup = NoRequest,
         ENDPOINT0_SIZE \in Nat \ {0}, e.in \in Nat, h.got \in Nat, h.request.length \in Nat,
         NEW f, f.setup = NoRequest, f.in = -1, f.stall = e.stall, f.out = e.out,
         NEW g, g.request = h.request, g.got = h.got + e.in,
         g.stage = IF e.in < ENDPOINT0_SIZE \/ h.got + e.in >= h.request.length
                   THEN "status_out" ELSE "data"
  PROVE  Fits(f, c, g)
<1>1. /\ c.len \in Nat /\ h.request \in Asking
      /\ e.stall \in BOOLEAN /\ h.request.length \in Nat
  BY Fields
<1>2. c.pc # "answer" /\ c.pc # "line"
  <2>1. e.in # -1
    OBVIOUS
  <2> QED BY <2>1 DEF Fits, Waits
<1>3. Pending(f, g) /\ Waits(f, c, g)
  BY <1>1, <1>2 DEF Fits, Waits, Pending, Getting
<1>4. Progress(f, c, g)
  <2>1. CASE ~Getting(h) \/ e.stall
    BY <2>1 DEF Progress, Getting
  <2>2. CASE Getting(h) /\ ~e.stall
    <3>1. /\ h.request.value \in DOMAIN Lengths /\ ~e.out
          /\ \/ /\ c.pc = "packets" /\ e.in = ENDPOINT0_SIZE
                /\ h.got + ENDPOINT0_SIZE + c.len = Whole(h.request)
             \/ /\ c.pc # "packets" /\ e.in \in 0 .. ENDPOINT0_SIZE - 1
                /\ h.got + e.in = Whole(h.request)
      <4>1. e.in # -1
        OBVIOUS
      <4> QED BY <2>2, <4>1 DEF Fits, Progress
    <3>2. Whole(h.request) \in Nat /\ Whole(h.request) <= h.request.length
      BY <1>1, <3>1, AskedIsWhole
    <3>3. CASE c.pc = "packets"
      <4>1. e.in = ENDPOINT0_SIZE /\ h.got + ENDPOINT0_SIZE + c.len = Whole(h.request)
        BY <3>1, <3>3
      <4>2. CASE h.got + e.in >= h.request.length
        <5>1. g.stage = "status_out" /\ g.got = Whole(h.request)
          BY <1>1, <3>2, <4>1, <4>2, PacketTaken
        <5> QED BY <5>1 DEF Progress
      <4>3. CASE ~(h.got + e.in >= h.request.length)
        <5>1. g.stage = "data" /\ g.got + c.len = Whole(g.request)
          BY <1>1, <3>2, <4>1, <4>3, PacketTaken
        <5> QED BY <3>1, <3>3, <5>1 DEF Progress
      <4> QED BY <4>2, <4>3
    <3>4. CASE c.pc # "packets"
      <4>1. e.in < ENDPOINT0_SIZE /\ h.got + e.in = Whole(h.request)
        BY <3>1, <3>4
      <4>2. g.stage = "status_out" /\ g.got = Whole(g.request)
        BY <4>1
      <4> QED BY <4>2 DEF Progress
    <3> QED BY <3>3, <3>4
  <2> QED BY <1>1, <2>1, <2>2
<1> QED BY <1>3, <1>4 DEF Fits

(* The host goes on to another stage or is done: the rest of its steps.    *)
LEMMA FitsDone ==
  ASSUME NEW e \in Endpoint0, NEW c \in Handlers, NEW h \in Hosts, Fits(e, c, h),
         c.pc \notin {"answer", "line"},
         NEW f, f.setup = NoRequest, c.pc = "packets" => f.out,
         NEW g, g.request = NoRequest, g.stage = "none"
  PROVE  Fits(f, c, g)
<1>1. ~Getting(g)
  BY Kinds DEF Getting
<1> QED BY <1>1 DEF Fits, Pending, Waits, Progress

(* USB_COM_vect takes a request from the endpoint. *)
LEMMA FitsTaken ==
  ASSUME NEW e \in Endpoint0, NEW c \in Handlers, NEW h \in Hosts, Fits(e, c, h),
         e.setup # NoRequest, c.pc = "none",
         NEW f, f.setup = NoRequest,
         NEW d, d.pc \in {"none", "packets", "answer", "address", "line"}, d.pc # "none" => ~f.stall,
         f.in \in Int, d.pc \in {"packets", "answer", "line"} => f.in = -1,
         d.pc = "packets" => /\ Getting(h) /\ h.request.value \in DOMAIN Lengths
                             /\ d.len = Asked(h.request) /\ ~f.out,
         d.pc = "answer" => ~Getting(h) /\ h.stage \in {"data", "status_in"},
         d.pc = "line" => ~Getting(h) /\ h.stage = "data_out",
         Getting(h) => d.pc = "packets" \/ f.stall
  PROVE  Fits(f, d, h)
<1>1. /\ h.stage = StageOf(h.request) /\ h.got = 0 /\ h.request \in Asking
      /\ h.stage # "status_out" /\ h.stage # "none"
  BY Fields DEF Fits, Pending, StageOf
<1>2. Getting(h) => h.stage = "data"
  BY <1>1, Kinds DEF StageOf, Getting
<1>3. Pending(f, h) /\ Waits(f, d, h)
  BY <1>1, <1>2 DEF Pending, Waits
<1>4. Progress(f, d, h)
  <2>1. CASE Getting(h) /\ ~f.stall
    <3>1. d.len = Whole(h.request) /\ Whole(h.request) \in Nat
      BY <1>1, <2>1, AskedIsWhole
    <3>2. h.got + d.len = Whole(h.request)
      <4>1. \A n \in Nat : 0 + n = n
        OBVIOUS
      <4> QED BY <1>1, <3>1, <4>1, Zenon
    <3> QED BY <1>1, <2>1, <3>2 DEF Progress
  <2>2. CASE ~Getting(h) \/ f.stall
    BY <2>2 DEF Progress
  <2> QED BY <2>1, <2>2
<1> QED BY <1>3, <1>4 DEF Fits

(* The handler sends a packet, or the host has seen enough. *)
LEMMA FitsPacket ==
  ASSUME NEW e \in Endpoint0, NEW c \in Handlers, NEW h \in Hosts, Fits(e, c, h),
         c.pc = "packets", ~e.out, e.in = -1,
         ENDPOINT0_SIZE \in Nat \ {0}, c.len \in Nat, h.got \in Nat,
         NEW n \in Nat, n = Least(c.len, ENDPOINT0_SIZE),
         NEW f, f.setup = e.setup, f.in = n, f.stall = e.stall, f.out = e.out,
         NEW d, IF c.len = n /\ n < ENDPOINT0_SIZE THEN d.pc = "none"
                ELSE d.pc = "packets" /\ d.len = c.len - n
  PROVE  Fits(f, d, h)
<1>1. h.request \in Asking
  BY Fields
<1>2. /\ Getting(h) /\ e.setup = NoRequest /\ ~e.stall /\ h.stage \in {"data", "status_out"}
  BY DEF Fits, Waits
<1>3. Pending(f, h) /\ Waits(f, d, h)
  BY <1>2 DEF Pending, Waits
<1>4. Progress(f, d, h)
  <2>1. CASE h.stage = "status_out"
    <3>1. h.got = Whole(h.request)
      BY <1>2, <2>1 DEF Fits, Progress
    <3> QED BY <1>2, <2>1, <3>1 DEF Progress
  <2>2. CASE h.stage = "data"
    <3>1. /\ h.request.value \in DOMAIN Lengths /\ h.got + c.len = Whole(h.request)
      BY <1>2, <2>2 DEF Fits, Progress
    <3>2. Whole(h.request) \in Nat
      BY <1>1, <3>1, AskedIsWhole
    <3>3. CASE c.len < ENDPOINT0_SIZE
      <4>1. n = c.len
        BY <3>3 DEF Least
      <4>2. d.pc = "none" /\ f.in \in 0 .. ENDPOINT0_SIZE - 1 /\ h.got + f.in = Whole(h.request)
        BY <1>1, <3>1, <3>3, <4>1
      <4> QED BY <1>2, <2>2, <3>1, <4>2 DEF Progress
    <3>4. CASE ~(c.len < ENDPOINT0_SIZE)
      <4>1. n = ENDPOINT0_SIZE
        BY <3>4 DEF Least
      <4>2. d.pc = "packets" /\ d.len = c.len - ENDPOINT0_SIZE /\ f.in = ENDPOINT0_SIZE
        BY <1>1, <4>1
      <4>3. h.got + ENDPOINT0_SIZE + d.len = Whole(h.request)
        BY <1>1, <3>1, <4>2
      <4> QED BY <1>2, <2>2, <3>1, <4>2, <4>3 DEF Progress
    <3> QED BY <3>3, <3>4
  <2> QED BY <1>2, <2>1, <2>2
<1> QED BY <1>3, <1>4 DEF Fits

(* The handler is done with a request that is not for a descriptor. *)
LEMMA FitsAnswered ==
  ASSUME NEW e \in Endpoint0, NEW c \in Handlers, NEW h \in Hosts, Fits(e, c, h),
         c.pc \in {"answer", "line"},
         NEW f, f.setup = e.setup, NEW d, d.pc = "none"
  PROVE  Fits(f, d, h)
<1>1. e.setup = NoRequest /\ ~Getting(h) /\ (h.stage = "none" => h.request = NoRequest)
  BY DEF Fits, Waits
<1> QED BY <1>1 DEF Fits, Pending, Waits, Progress

(* Records with some fields set anew. *)
LEMMA Endpoint0Record ==
  ASSUME NEW e \in Endpoint0, NEW setup \in Asking, NEW in \in Int, NEW out \in BOOLEAN, NEW stall \in BOOLEAN
  PROVE  LET f == [e EXCEPT !.setup = setup, !.in = in, !.out = out, !.stall = stall]
         IN f \in Endpoint0 /\ f.setup = setup /\ f.in = in /\ f.out = out /\ f.stall = stall
BY DEF Endpoint0

LEMMA HandlerRecord ==
  ASSUME NEW pc \in {"none", "packets", "answer", "address", "line"}, NEW len \in Nat, NEW value \in Nat
  PROVE  [pc |-> pc, len |-> len, value |-> value] \in Handlers
BY DEF Handlers

LEMMA ReturnedRecord == Returned \in Handlers /\ Returned.pc = "none"
BY DEF Returned, Handlers

LEMMA RequestKinds ==
  ASSUME NEW job \in Jobs, NEW r \in Requests(job)
  PROVE  r \in Asking /\ r # NoRequest
<1>1. r \in [request : Reads \cup Writes \cup Others, value : Nat, length : Nat]
  BY RequestAssumption
<1> QED BY <1>1, Kinds DEF Asking

LEMMA DoneHost ==
  ASSUME NEW h \in Hosts
  PROVE  /\ Finished(h) \in Hosts /\ Finished(h).request = NoRequest /\ Finished(h).stage = "none"
         /\ \A a \in Nat : LET g == [Finished(h) EXCEPT !.address = a]
                            IN g \in Hosts /\ g.request = NoRequest /\ g.stage = "none"
BY Kinds DEF Finished, Hosts, Stages

LEMMA ControlSetup == ASSUME ControlInv, HostSetup PROVE ControlInv'
<1>1. ep0 \in Endpoint0 /\ com \in Handlers /\ host \in Hosts /\ Fits(ep0, com, host) /\ host.job \in Jobs
  BY DEF ControlInv, Hosts
<1>2. PICK r \in Requests(host.job) :
        /\ ep0' = [ep0 EXCEPT !.setup = r, !.in = -1, !.stall = FALSE]
        /\ host' = [host EXCEPT !.requests = @ + 1, !.request = r, !.got = 0, !.stage = StageOf(r)]
  BY DEF HostSetup, StageOf
<1>3. r \in Asking /\ r # NoRequest
  BY <1>1, RequestKinds
<1>4. ep0' \in Endpoint0 /\ ep0'.setup = r /\ ep0'.in = -1 /\ ep0'.stall = FALSE /\ ep0'.out = ep0.out
  <2>1. \A n \in Int, b \in BOOLEAN : [ep0 EXCEPT !.setup = r, !.in = n, !.stall = b] \in Endpoint0
    BY <1>1, <1>3 DEF Endpoint0
  <2>2. -1 \in Int /\ FALSE \in BOOLEAN
    OBVIOUS
  <2>3. ep0' \in Endpoint0
    BY <1>2, <2>1, <2>2, Zenon
  <2> QED BY <1>1, <1>2, <2>3 DEF Endpoint0
<1>5. host' \in Hosts /\ host'.request = r /\ host'.got = 0 /\ host'.stage = StageOf(r)
  <2>1. StageOf(r) \in Stages /\ host.requests + 1 \in Nat
    <3>1. host.requests \in Nat
      BY <1>1, Fields
    <3> QED BY <3>1 DEF StageOf, Stages
  <2>2. \A n \in Nat : [host EXCEPT !.requests = n, !.request = r, !.got = 0, !.stage = StageOf(r)] \in Hosts
    BY <1>1, <1>3, <2>1 DEF Hosts
  <2>3. host' \in Hosts
    BY <1>2, <2>1, <2>2
  <2> QED BY <1>1, <1>2, <2>3 DEF Hosts
<1>6. com' = com /\ host.stage = "none"
  BY DEF HostSetup, HostOnly
<1>7. Fits(ep0', com, host')
  BY <1>1, <1>3, <1>4, <1>5, <1>6, FitsSetup
<1> QED BY <1>1, <1>4, <1>5, <1>6, <1>7 DEF ControlInv

LEMMA ControlTakes == ASSUME ControlInv, HostTakes PROVE ControlInv'
<1>1. ep0 \in Endpoint0 /\ com \in Handlers /\ host \in Hosts /\ Fits(ep0, com, host)
  BY DEF ControlInv
<1> DEFINE stage == IF ep0.in < ENDPOINT0_SIZE \/ host.got + ep0.in >= host.request.length
                    THEN "status_out" ELSE "data"
<1>2. /\ host.stage = "data" /\ ep0.setup = NoRequest /\ ep0.in >= 0 /\ com' = com
      /\ ep0' = [ep0 EXCEPT !.in = -1]
      /\ host' = [host EXCEPT !.got = host.got + ep0.in, !.stage = stage]
  BY DEF HostTakes, HostOnly
<1>3. ep0' \in Endpoint0 /\ ep0'.setup = NoRequest /\ ep0'.in = -1 /\ ep0'.stall = ep0.stall /\ ep0'.out = ep0.out
  BY <1>1, <1>2 DEF Endpoint0
<1>4. host.got + ep0.in \in Nat
  BY <1>1, <1>2, Fields
<1>5. stage \in Stages
  BY DEF Stages
<1> DEFINE got == host.got + ep0.in
<1>6. got = host.got + ep0.in /\ got \in Nat /\ host' = [host EXCEPT !.got = got, !.stage = stage]
  BY <1>2, <1>4
<1>7. /\ host'.request = host.request
      /\ host'.stage = IF ep0.in < ENDPOINT0_SIZE \/ host.got + ep0.in >= host.request.length
                       THEN "status_out" ELSE "data"
  BY <1>1, <1>2 DEF Hosts
<1> HIDE DEF stage, got
<1>8. host' \in Hosts /\ host'.got = got
  BY <1>1, <1>5, <1>6 DEF Hosts
<1>9. host'.got = host.got + ep0.in
  BY <1>6, <1>8
<1>10. Fits(ep0', com, host')
  <2>1. ENDPOINT0_SIZE \in Nat \ {0} /\ ep0.in \in Nat /\ host.got \in Nat /\ host.request.length \in Nat
    BY <1>1, <1>2, Fields, RequestAssumption
  <2> QED BY <1>1, <1>2, <1>3, <1>7, <1>9, <2>1, FitsTakes
<1> QED BY <1>1, <1>2, <1>3, <1>8, <1>10 DEF ControlInv

(* The request is over, for the host. *)

(* The request is over, for the host. *)
LEMMA ControlDone ==
  ASSUME ControlInv, HostEnds \/ HostAborts \/ HostTakesStatus \/ HostStalled
  PROVE  ControlInv'
<1>1. ep0 \in Endpoint0 /\ com \in Handlers /\ host \in Hosts /\ Fits(ep0, com, host)
  BY DEF ControlInv
<1>2. /\ ep0.in \in Int /\ ep0.stall \in BOOLEAN /\ ep0.out \in BOOLEAN
      /\ host.request.value \in Nat /\ host.address \in Nat
  BY <1>1, Fields
<1>3. com' = com
  BY DEF HostEnds, HostAborts, HostTakesStatus, HostStalled, HostOnly
<1>4. host' \in Hosts /\ host'.request = NoRequest /\ host'.stage = "none"
  <2> DEFINE a == IF host.request.request = "SET_ADDRESS" THEN host.request.value ELSE host.address
  <2>1. a \in Nat
    BY <1>2
  <2>2. HostTakesStatus => host' = [Finished(host) EXCEPT !.address = a]
    <3>1. Finished(host).address = host.address
      BY <1>1 DEF Finished, Hosts
    <3> QED BY <3>1 DEF HostTakesStatus
  <2>3. HostEnds \/ HostAborts \/ HostStalled => host' = Finished(host)
    BY DEF HostEnds, HostAborts, HostStalled
  <2> HIDE DEF a
  <2> QED BY <1>1, <2>1, <2>2, <2>3, DoneHost
<1>5. ep0' \in Endpoint0 /\ ep0'.setup = ep0.setup /\ (ep0.out => ep0'.out)
  <2>1. CASE HostEnds \/ HostAborts
    <3>1. ep0' = [ep0 EXCEPT !.out = TRUE]
      BY <2>1 DEF HostEnds, HostAborts
    <3> QED BY <1>1, <3>1 DEF Endpoint0
  <2>2. CASE HostTakesStatus
    <3>1. ep0' = [ep0 EXCEPT !.in = -1]
      BY <2>2 DEF HostTakesStatus
    <3> QED BY <1>1, <3>1 DEF Endpoint0
  <2>3. CASE HostStalled
    BY <1>1, <2>3 DEF HostStalled
  <2> QED BY <2>1, <2>2, <2>3
<1>6. ep0.setup = NoRequest
  <2>1. CASE HostEnds
    <3>1. host.stage = "status_out"
      BY <2>1 DEF HostEnds
    <3> QED BY <1>1, <3>1 DEF Fits, Pending, StageOf
  <2>2. CASE HostAborts \/ HostTakesStatus \/ HostStalled
    BY <2>2 DEF HostAborts, HostTakesStatus, HostStalled
  <2> QED BY <2>1, <2>2
<1>7. com.pc \notin {"answer", "line"} /\ (com.pc = "packets" => ep0'.out)
  <2>1. CASE HostEnds \/ HostAborts
    <3>1. ep0'.out /\ (host.stage = "status_out" \/ (host.stage = "data" /\ Getting(host)))
      BY <1>1, <2>1 DEF HostEnds, HostAborts, Endpoint0, Getting
    <3> QED BY <1>1, <3>1 DEF Fits, Waits
  <2>2. CASE HostTakesStatus
    <3>1. ep0.in >= 0 /\ host.stage = "status_in"
      BY <2>2 DEF HostTakesStatus
    <3>2. ep0.in # -1
      BY <1>2, <3>1
    <3> QED BY <1>1, <1>5, <3>1, <3>2 DEF Fits, Waits
  <2>3. CASE HostStalled
    <3>1. ep0.stall
      BY <2>3 DEF HostStalled
    <3> QED BY <1>1, <1>5, <3>1 DEF Fits, Waits
  <2> QED BY <2>1, <2>2, <2>3
<1>8. Fits(ep0', com, host')
  BY <1>1, <1>4, <1>5, <1>6, <1>7, FitsDone
<1> QED BY <1>1, <1>3, <1>4, <1>5, <1>8 DEF ControlInv

LEMMA ControlSends == ASSUME ControlInv, HostSendsData PROVE ControlInv'
<1>1. ep0 \in Endpoint0 /\ com \in Handlers /\ host \in Hosts /\ Fits(ep0, com, host)
  BY DEF ControlInv
<1>2. com' = com /\ ep0.setup = NoRequest /\ host.stage = "data_out"
  BY DEF HostSendsData, HostOnly
<1>3. /\ ep0' \in Endpoint0 /\ ep0'.setup = ep0.setup /\ ep0'.in = ep0.in /\ ep0'.stall = ep0.stall
      /\ ep0'.out = TRUE
  BY <1>1 DEF Endpoint0, HostSendsData
<1>4. host' \in Hosts /\ host'.request = host.request /\ host'.stage = "status_in"
  BY <1>1 DEF Hosts, Stages, HostSendsData
<1>5. Getting(host') <=> Getting(host)
  BY <1>4 DEF Getting
<1>6. Fits(ep0', com, host')
  BY <1>1, <1>2, <1>3, <1>4, <1>5 DEF Fits, Pending, Waits, Progress
<1> QED BY <1>1, <1>2, <1>3, <1>4, <1>6 DEF ControlInv

LEMMA ControlReset == ASSUME ControlInv, HostReset PROVE ControlInv'
<1>1. ep0 \in Endpoint0 /\ com \in Handlers /\ host \in Hosts /\ Fits(ep0, com, host)
  BY DEF ControlInv
<1>2. com' = com /\ com.pc = "none" /\ host.stage = "none" /\ ep0' = QuietEp0
  BY DEF HostReset
<1>3. ep0' \in Endpoint0 /\ ep0'.setup = NoRequest
  BY <1>2, Kinds DEF QuietEp0, Endpoint0
<1>4. host.request = NoRequest
  BY <1>1, <1>2 DEF Fits, Waits
<1>5. host' \in Hosts /\ host'.request = NoRequest /\ host'.stage = "none"
  <2>1. host.resets + 1 \in Nat
    BY <1>1, Fields
  <2>2. \A n, a \in Nat : [host EXCEPT !.resets = n, !.address = a] \in Hosts
    BY <1>1 DEF Hosts
  <2>3. host' = [host EXCEPT !.resets = host.resets + 1, !.address = 0] /\ 0 \in Nat
    BY DEF HostReset
  <2>4. host' \in Hosts
    BY <2>1, <2>2, <2>3, Zenon
  <2> QED BY <1>1, <1>2, <1>4, <2>3, <2>4 DEF Hosts
<1>6. Fits(ep0', com, host')
  BY <1>1, <1>2, <1>3, <1>5, FitsDone
<1> QED BY <1>1, <1>2, <1>3, <1>5, <1>6 DEF ControlInv

LEMMA EndpointRecords ==
  ASSUME NEW e \in Endpoint0, e = ep0
  PROVE  /\ LET f == Acknowledged IN
            f \in Endpoint0 /\ f.setup = NoRequest /\ f.in = -1 /\ f.out = FALSE /\ f.stall = e.stall
         /\ \A n \in Int : LET f == Sent(n) IN
                f \in Endpoint0 /\ f.setup = NoRequest /\ f.in = n /\ f.stall = e.stall
         /\ LET f == Stalled IN
            f \in Endpoint0 /\ f.setup = NoRequest /\ f.in = -1 /\ f.stall = TRUE
<1> DEFINE g == [e EXCEPT !.setup = NoRequest, !.out = FALSE]
<1>1. g \in Endpoint0 /\ g.setup = NoRequest /\ g.out = FALSE /\ g.stall = e.stall
  BY Kinds DEF Endpoint0
<1>2. Acknowledged = [g EXCEPT !.in = -1]
  BY DEF Acknowledged
<1> HIDE DEF g
<1>3. /\ Acknowledged \in Endpoint0 /\ Acknowledged.setup = NoRequest /\ Acknowledged.in = -1
      /\ Acknowledged.out = FALSE /\ Acknowledged.stall = e.stall
  BY <1>1, <1>2 DEF Endpoint0
<1>4. \A n \in Int : LET f == Sent(n) IN
                f \in Endpoint0 /\ f.setup = NoRequest /\ f.in = n /\ f.stall = e.stall
  BY <1>3 DEF Sent, Endpoint0
<1>5. Stalled \in Endpoint0 /\ Stalled.setup = NoRequest /\ Stalled.in = -1 /\ Stalled.stall = TRUE
  BY <1>3 DEF Stalled, Endpoint0
<1> QED BY <1>3, <1>4, <1>5

(* Where the handler is when it has read a request, and what it has put    *)
(* into the endpoint.                                                      *)
LEMMA ControlTaken == ASSUME ControlInv, USB_COM_vect PROVE ControlInv'
<1>1. ep0 \in Endpoint0 /\ com \in Handlers /\ host \in Hosts /\ Fits(ep0, com, host)
  BY DEF ControlInv
<1>2. host' = host /\ ep0.setup # NoRequest /\ com.pc = "none"
  BY DEF USB_COM_vect, Interruptible
<1>3. ep0.setup = host.request /\ host.stage = StageOf(host.request) /\ ~ep0.stall
  BY <1>1, <1>2 DEF Fits, Pending
<1> DEFINE r == host.request
<1>4. r \in Asking /\ r.value \in Nat /\ Returned \in Handlers /\ Returned.pc = "none"
  BY <1>1, Fields, ReturnedRecord
<1>5. CASE r.request = "GET_DESCRIPTOR" /\ GetDescriptor(r)
  <2>1. CASE r.value \in DOMAIN Lengths
    <3>1. Asked(r) \in Nat
      BY <1>4, <2>1, AskedIsWhole
    <3>2. com' \in Handlers /\ com'.pc = "packets" /\ com'.len = Asked(r)
      BY <1>5, <2>1, <3>1 DEF GetDescriptor, WaitAt, Handlers
    <3>3. ep0' = Acknowledged
      BY <1>5, <2>1 DEF GetDescriptor
    <3>4. ep0' \in Endpoint0 /\ ep0'.setup = NoRequest /\ ep0'.in = -1 /\ ep0'.out = FALSE /\ ~ep0'.stall
      BY <1>1, <1>3, <3>3, EndpointRecords
    <3>5. Fits(ep0', com', host)
      BY <1>1, <1>2, <1>5, <2>1, <3>2, <3>4, FitsTaken DEF Getting
    <3> QED BY <1>1, <1>2, <3>2, <3>4, <3>5 DEF ControlInv
  <2>2. CASE r.value \notin DOMAIN Lengths
    <3>1. com' = Returned /\ ep0' = Stalled
      BY <1>5, <2>2 DEF GetDescriptor
    <3>2. ep0' \in Endpoint0 /\ ep0'.setup = NoRequest /\ ep0'.in = -1 /\ ep0'.stall = TRUE
      BY <1>1, <3>1, EndpointRecords
    <3>3. Fits(ep0', com', host)
      BY <1>1, <1>2, <1>4, <3>1, <3>2, FitsTaken
    <3> QED BY <1>1, <1>2, <1>4, <3>1, <3>2, <3>3 DEF ControlInv
  <2> QED BY <2>1, <2>2
<1>6. CASE \/ r.request = "SET_CONFIGURATION" /\ SetConfiguration(r)
           \/ r.request = "CLEAR_FEATURE" /\ ClearFeature(r)
  <2>1. com' = Returned /\ (ep0' = Sent(0) \/ ep0' = Stalled) /\ ~Getting(host)
    BY <1>6 DEF SetConfiguration, ClearFeature, Getting
  <2>2. ep0' \in Endpoint0 /\ ep0'.setup = NoRequest
    <3>1. 0 \in Int
      OBVIOUS
    <3>2. CASE ep0' = Sent(0)
      BY <1>1, <3>1, <3>2, EndpointRecords
    <3>3. CASE ep0' = Stalled
      BY <1>1, <3>3, EndpointRecords
    <3> QED BY <2>1, <3>2, <3>3
  <2>3. Fits(ep0', com', host)
    <3>1. com'.pc = "none" /\ ~Getting(host) /\ ep0'.in \in Int
      BY <1>4, <2>1, <2>2 DEF Endpoint0
    <3> QED BY <1>1, <1>2, <2>2, <3>1, FitsTaken
  <2> QED BY <1>1, <1>2, <1>4, <2>1, <2>2, <2>3 DEF ControlInv
<1>7. CASE r.request = "SET_ADDRESS" /\ SetAddress(r)
  <2>1. com' = [pc |-> "address", len |-> 0, value |-> r.value] /\ ep0' = Sent(0) /\ ~Getting(host)
    BY <1>7 DEF SetAddress, WaitAt, Getting
  <2>2. ep0' \in Endpoint0 /\ ep0'.setup = NoRequest /\ ep0'.in = 0 /\ ~ep0'.stall
    <3>1. 0 \in Int
      OBVIOUS
    <3> QED BY <1>1, <1>3, <2>1, <3>1, EndpointRecords
  <2>3. com' \in Handlers /\ com'.pc = "address"
    BY <1>4, <2>1 DEF Handlers
  <2>4. Fits(ep0', com', host)
    BY <1>1, <1>2, <2>1, <2>2, <2>3, FitsTaken
  <2> QED BY <1>1, <1>2, <2>2, <2>3, <2>4 DEF ControlInv
<1>8. CASE /\ r.request \in {"GET_CONFIGURATION", "GET_STATUS", "CDC_GET_LINE_CODING",
                             "CDC_SET_CONTROL_LINE_STATE"}
           /\ WaitAt("answer", AnswerSize(r.request), 0) /\ ep0' = Acknowledged
  <2>1. AnswerSize(r.request) \in Nat
    BY <1>8 DEF AnswerSize
  <2>2. com' \in Handlers /\ com'.pc = "answer"
    BY <1>8, <2>1 DEF WaitAt, Handlers
  <2>3. ep0' \in Endpoint0 /\ ep0'.setup = NoRequest /\ ep0'.in = -1 /\ ~ep0'.stall
    BY <1>1, <1>3, <1>8, EndpointRecords
  <2>4. ~Getting(host) /\ host.stage \in {"data", "status_in"}
    BY <1>3, <1>8 DEF Getting, StageOf, Reads, Writes
  <2>5. Fits(ep0', com', host)
    BY <1>1, <1>2, <2>2, <2>3, <2>4, FitsTaken
  <2> QED BY <1>1, <1>2, <2>2, <2>3, <2>5 DEF ControlInv
<1>9. CASE r.request = "CDC_SET_LINE_CODING" /\ WaitAt("line", 0, 0) /\ ep0' = Acknowledged
  <2>1. com' \in Handlers /\ com'.pc = "line"
    BY <1>9 DEF WaitAt, Handlers
  <2>2. ep0' \in Endpoint0 /\ ep0'.setup = NoRequest /\ ep0'.in = -1 /\ ~ep0'.stall
    BY <1>1, <1>3, <1>9, EndpointRecords
  <2>3. ~Getting(host) /\ host.stage = "data_out"
    BY <1>3, <1>9 DEF Getting, StageOf, Reads, Writes
  <2>4. Fits(ep0', com', host)
    BY <1>1, <1>2, <2>1, <2>2, <2>3, FitsTaken
  <2> QED BY <1>1, <1>2, <2>1, <2>2, <2>4 DEF ControlInv
<1>10. CASE r.request = "SET_INTERFACE" /\ com' = Returned /\ ep0' = Stalled
  <2>1. ep0' \in Endpoint0 /\ ep0'.setup = NoRequest /\ ep0'.in = -1 /\ ep0'.stall = TRUE
    BY <1>1, <1>10, EndpointRecords
  <2>2. Fits(ep0', com', host)
    BY <1>1, <1>2, <1>4, <1>10, <2>1, FitsTaken
  <2> QED BY <1>1, <1>2, <1>4, <1>10, <2>1, <2>2 DEF ControlInv
<1>11. \/ r.request = "GET_DESCRIPTOR" /\ GetDescriptor(r)
       \/ r.request = "SET_CONFIGURATION" /\ SetConfiguration(r)
       \/ r.request = "CLEAR_FEATURE" /\ ClearFeature(r)
       \/ r.request = "SET_ADDRESS" /\ SetAddress(r)
       \/ /\ r.request \in {"GET_CONFIGURATION", "GET_STATUS", "CDC_GET_LINE_CODING",
                             "CDC_SET_CONTROL_LINE_STATE"}
          /\ WaitAt("answer", AnswerSize(r.request), 0) /\ ep0' = Acknowledged
       \/ r.request = "CDC_SET_LINE_CODING" /\ WaitAt("line", 0, 0) /\ ep0' = Acknowledged
       \/ r.request = "SET_INTERFACE" /\ com' = Returned /\ ep0' = Stalled
  BY <1>3 DEF USB_COM_vect
<1> QED BY <1>5, <1>6, <1>7, <1>8, <1>9, <1>10, <1>11

LEMMA ControlSendPackets == ASSUME ControlInv, SendPackets PROVE ControlInv'
<1>1. ep0 \in Endpoint0 /\ com \in Handlers /\ host \in Hosts /\ Fits(ep0, com, host)
  BY DEF ControlInv
<1>2. host' = host /\ com.pc = "packets" /\ (ep0.out \/ ep0.in = -1)
  BY DEF SendPackets, Handling
<1>3. /\ com.len \in Nat /\ host.got \in Nat /\ ENDPOINT0_SIZE \in Nat \ {0}
      /\ ep0.out \in BOOLEAN /\ host.stage \in Stages
  BY <1>1, Fields, RequestAssumption
<1>4. CASE ep0.out
  <2>1. com' = Returned /\ ep0' = ep0
    BY <1>4 DEF SendPackets
  <2>2. Fits(ep0, Returned, host)
    <3>1. Getting(host) /\ ep0.setup = NoRequest /\ ~ep0.stall => host.stage # "data"
      BY <1>1, <1>4 DEF Fits, Progress
    <3> QED BY <1>1, <3>1, ReturnedRecord DEF Fits, Pending, Waits, Progress
  <2> QED BY <1>1, <1>2, <2>1, <2>2, ReturnedRecord DEF ControlInv
<1>5. CASE ~ep0.out
  <2> DEFINE n == Least(com.len, ENDPOINT0_SIZE)
  <2>1. n \in Nat /\ n <= com.len /\ n = Least(com.len, ENDPOINT0_SIZE)
    BY <1>3 DEF Least
  <2>2. /\ ep0' = [ep0 EXCEPT !.in = n]
        /\ com' = IF com.len = n /\ n < ENDPOINT0_SIZE THEN Returned ELSE [com EXCEPT !.len = com.len - n]
    BY <1>5 DEF SendPackets, LastPacket
  <2> HIDE DEF n
  <2>3. n \in Int /\ com.len - n \in Nat
    BY <1>3, <2>1
  <2>4. ep0' \in Endpoint0 /\ ep0'.setup = ep0.setup /\ ep0'.in = n /\ ep0'.stall = ep0.stall /\ ep0'.out = ep0.out
    BY <1>1, <2>2, <2>3 DEF Endpoint0
  <2>5. \A k \in Nat : LET c == [com EXCEPT !.len = k]
                       IN c \in Handlers /\ c.pc = com.pc /\ c.len = k
    BY <1>1 DEF Handlers
  <2>6. /\ com' \in Handlers
        /\ IF com.len = n /\ n < ENDPOINT0_SIZE THEN com'.pc = "none"
           ELSE com'.pc = "packets" /\ com'.len = com.len - n
    BY <1>2, <2>2, <2>3, <2>5, ReturnedRecord, Zenon
  <2>7. Fits(ep0', com', host)
    BY <1>1, <1>2, <1>3, <1>5, <2>1, <2>4, <2>6, FitsPacket
  <2> QED BY <1>1, <1>2, <2>4, <2>6, <2>7 DEF ControlInv
<1> QED BY <1>3, <1>4, <1>5

LEMMA ControlAnswer == ASSUME ControlInv, Answer \/ ReceiveLineCoding PROVE ControlInv'
<1>1. ep0 \in Endpoint0 /\ com \in Handlers /\ host \in Hosts /\ Fits(ep0, com, host)
  BY DEF ControlInv
<1>2. host' = host /\ com.pc \in {"answer", "line"} /\ com' = Returned
  BY DEF Answer, ReceiveLineCoding, Handling
<1>3. ep0' \in Endpoint0 /\ ep0'.setup = ep0.setup
  <2>1. \A n \in Int : /\ [ep0 EXCEPT !.in = n] \in Endpoint0
                       /\ [ep0 EXCEPT !.in = n].setup = ep0.setup
    BY <1>1 DEF Endpoint0
  <2>2. \A n \in Int, b \in BOOLEAN : /\ [ep0 EXCEPT !.out = b, !.in = n] \in Endpoint0
                                     /\ [ep0 EXCEPT !.out = b, !.in = n].setup = ep0.setup
    BY <1>1 DEF Endpoint0
  <2>3. com.len \in Int /\ 0 \in Int /\ FALSE \in BOOLEAN
    BY <1>1, Fields
  <2>4. Answer => ep0' = [ep0 EXCEPT !.in = com.len]
    BY DEF Answer
  <2>5. ReceiveLineCoding => ep0' = [ep0 EXCEPT !.out = FALSE, !.in = 0]
    BY DEF ReceiveLineCoding
  <2>6. CASE Answer
    <3>1. [ep0 EXCEPT !.in = com.len] \in Endpoint0 /\ [ep0 EXCEPT !.in = com.len].setup = ep0.setup
      BY <2>1, <2>3
    <3> QED BY <2>4, <2>6, <3>1, Zenon
  <2>7. CASE ReceiveLineCoding
    <3>1. /\ [ep0 EXCEPT !.out = FALSE, !.in = 0] \in Endpoint0
          /\ [ep0 EXCEPT !.out = FALSE, !.in = 0].setup = ep0.setup
      BY <2>2, <2>3
    <3> QED BY <2>5, <2>7, <3>1, Zenon
  <2> QED BY <2>6, <2>7
<1>4. Fits(ep0', com', host)
  BY <1>1, <1>2, <1>3, ReturnedRecord, FitsAnswered
<1> QED BY <1>1, <1>2, <1>3, <1>4, ReturnedRecord DEF ControlInv

LEMMA ControlAddress == ASSUME ControlInv, TakeAddress PROVE ControlInv'
<1>1. ep0 \in Endpoint0 /\ com \in Handlers /\ host \in Hosts /\ Fits(ep0, com, host)
  BY DEF ControlInv
<1>2. host' = host /\ ep0' = ep0 /\ com' = Returned /\ com.pc = "address"
  BY DEF TakeAddress, Handling
<1>3. Fits(ep0, Returned, host)
  BY <1>1, <1>2, ReturnedRecord DEF Fits, Pending, Waits, Progress
<1> QED BY <1>1, <1>2, <1>3, ReturnedRecord DEF ControlInv

LEMMA ControlStep == ASSUME ControlInv, [Next]_vars PROVE ControlInv'
<1>1. CASE Main \/ NextFrame \/ Gen \/ HostData \/ UNCHANGED vars
  <2>1. Main => UNCHANGED <<ep0, com, host>>
    <3>1. Sending => UNCHANGED <<com, host>>
      BY DEF Sending, Call, PutcharNowait, PutcharStart, Waiting, PutcharExpired, PutcharOnline,
             PutcharAgain, usb_serial_flush_output, Unchanged
    <3>2. Receiving => UNCHANGED <<com, host>>
      BY DEF Receiving, Poll, usb_serial_available, usb_serial_getchar, Unchanged
    <3> QED BY <3>1, <3>2 DEF Main, control_vars
  <2>2. NextFrame \/ Gen => UNCHANGED <<ep0, com, host>>
    BY DEF NextFrame, Frame, Gen, ReadFlags, USB_GEN_vect, control_vars
  <2>3. HostData => UNCHANGED <<ep0, com, host>>
    BY DEF HostData, HostReads, HostWrites, control_vars
  <2>4. UNCHANGED vars => UNCHANGED <<ep0, com, host>>
    BY DEF vars, control_vars, data_vars
  <2> QED BY <1>1, <2>1, <2>2, <2>3, <2>4, ControlFrame
<1>2. CASE Com
  BY <1>2, ControlTaken, ControlSendPackets, ControlAnswer, ControlAddress DEF Com
<1>3. CASE HostSetup \/ HostAborts \/ HostReset \/ HostFinishes
  BY <1>3, ControlSetup, ControlTakes, ControlDone, ControlSends, ControlReset DEF HostFinishes
<1> QED BY <1>1, <1>2, <1>3 DEF Next

LEMMA ControlInvariance == Spec => []ControlInv
BY ControlInit, ControlStep, PTL DEF Spec

(* usb_serial.c:832-852 sends a descriptor in packets of the endpoint's    *)
(* size and an empty one after a full last one; the host may stop it, set  *)
(* up another request before the handler has noticed or find it refused.   *)
(* A host that goes to the end has as much as there is and as it asked     *)
(* for, whatever it asks and however long its packets are.                 *)
THEOREM DescriptorsWhole == Spec => DescriptorWhole
<1>1. ControlInv /\ [Next]_vars =>
        [host.stage = "status_out" /\ host.request.request = "GET_DESCRIPTOR" /\ host'.stage = "none"
           /\ ~ep0.stall => host.got = Least(host.request.length, Lengths[host.request.value])]_vars
  BY DEF ControlInv, Fits, Progress, Getting, Whole
<1> QED BY <1>1, ControlInvariance, PTL DEF Spec, DescriptorWhole
==============================================================================
