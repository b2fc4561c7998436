--------------------------- MODULE AxiOrder_proofs ---------------------------
(***************************************************************************)
(* Proofs about AxiSystem: for any scenarios whose writes are WholeBursts, *)
(* with any number of resets, the target runs the transactions of a        *)
(* channel in the order that their IDs, pages and barriers ask for, and    *)
(* the counters of the slave count what is under way.                      *)
(*                                                                         *)
(* A transaction stays in its place of one queue from the handshake with   *)
(* its initiator until it has run: Path(l) is the list of the slave, what  *)
(* waits there for data and what the master has not yet put on AR or AW.   *)
(* OrderInv says that a path is in the order of issue, and the other parts *)
(* what may run of it: nothing overtakes what it conflicts with            *)
(* (WaitingInv), and nothing runs beside it (TogetherInv).  That what      *)
(* waits for data joins the list in order needs that master and slave      *)
(* count the same beats of each burst (WrDataInv).                         *)
(***************************************************************************)
EXTENDS AxiSystem, SequenceTheorems, FiniteSetTheorems, NaturalsInduction,
        WellFoundedInduction, TLAPS

(***************************************************************************)
(* Sequences.                                                              *)
(***************************************************************************)
IsSeq(q) == q \in Seq({q[i] : i \in DOMAIN q})

LEMMA IsSeqIs ==
    ASSUME NEW S, NEW q \in Seq(S)
    PROVE  IsSeq(q)
  BY DEF IsSeq

LEMMA SeqLen ==
    ASSUME NEW q, IsSeq(q)
    PROVE  /\ Len(q) \in Nat /\ DOMAIN q = 1..Len(q) /\ (q = <<>> <=> Len(q) = 0)
           /\ q # <<>> => Head(q) = q[1] /\ 1 \in DOMAIN q /\ Len(q) \in DOMAIN q
  BY DEF IsSeq

\* Sequences of one length with the same elements are one.
LEMMA SeqSame ==
    ASSUME NEW p, NEW q, IsSeq(p), IsSeq(q), Len(p) = Len(q), \A i \in 1..Len(p) : p[i] = q[i]
    PROVE  p = q
  <1> DEFINE S == {p[i] : i \in DOMAIN p}
             T == {q[i] : i \in DOMAIN q}
  <1>1. p \in Seq(S) /\ q \in Seq(T)
    BY DEF IsSeq
  <1>2. S \subseteq S \cup T /\ T \subseteq S \cup T
    OBVIOUS
  <1> HIDE DEF S, T
  <1>3. p \in Seq(S \cup T) /\ q \in Seq(S \cup T)
    BY <1>1, <1>2
  <1> QED BY <1>3, SeqEqual

LEMMA SeqMade ==
    ASSUME NEW n \in Nat, NEW q, DOMAIN q = 1..n, q = [i \in 1..n |-> q[i]]
    PROVE  IsSeq(q) /\ Len(q) = n
  <1> DEFINE S == {q[i] : i \in DOMAIN q}
  <1>1. q \in [1..n -> S]
    OBVIOUS
  <1>2. q \in Seq(S)
    BY <1>1
  <1> HIDE DEF S
  <1>3. Len(q) = n
    BY <1>1, <1>2
  <1> QED BY <1>2, <1>3, IsSeqIs

LEMMA SeqAppend ==
    ASSUME NEW q, IsSeq(q), NEW x
    PROVE  /\ IsSeq(Append(q, x)) /\ Len(Append(q, x)) = Len(q) + 1 /\ Append(q, x) # <<>>
           /\ DOMAIN Append(q, x) = 1..(Len(q) + 1)
           /\ Append(q, x)[Len(q) + 1] = x
           /\ \A i \in DOMAIN q : Append(q, x)[i] = q[i]
  <1> DEFINE S == {q[i] : i \in DOMAIN q} \cup {x}
  <1>1. q \in Seq(S)
    BY DEF IsSeq
  <1>2. Append(q, x) \in Seq(S)
    BY <1>1
  <1> HIDE DEF S
  <1>3. IsSeq(Append(q, x))
    BY <1>2, IsSeqIs
  <1>4. /\ Len(Append(q, x)) = Len(q) + 1 /\ Append(q, x)[Len(q) + 1] = x
        /\ \A i \in 1..Len(q) : Append(q, x)[i] = q[i]
    BY <1>1, x \in S DEF S
  <1> QED BY <1>1, <1>2, <1>3, <1>4, SeqLen

LEMMA SeqTail ==
    ASSUME NEW q, IsSeq(q), q # <<>>
    PROVE  /\ IsSeq(Tail(q)) /\ Len(Tail(q)) = Len(q) - 1
           /\ DOMAIN Tail(q) = 1..(Len(q) - 1)
           /\ \A i \in 1..(Len(q) - 1) : Tail(q)[i] = q[i + 1]
  <1> DEFINE S == {q[i] : i \in DOMAIN q}
  <1>1. q \in Seq(S)
    BY DEF IsSeq
  <1> HIDE DEF S
  <1>2. Tail(q) \in Seq(S) /\ Len(Tail(q)) = Len(q) - 1
    BY <1>1
  <1>3. \A i \in 1..(Len(q) - 1) : Tail(q)[i] = q[i + 1]
    BY <1>1
  <1> QED BY <1>1, <1>2, <1>3, IsSeqIs, SeqLen

LEMMA SeqConcat ==
    ASSUME NEW p, NEW q, IsSeq(p), IsSeq(q)
    PROVE  /\ IsSeq(p \o q) /\ Len(p \o q) = Len(p) + Len(q)
           /\ DOMAIN (p \o q) = 1..(Len(p) + Len(q))
           /\ \A i \in 1..Len(p) : (p \o q)[i] = p[i]
           /\ \A i \in 1..Len(q) : (p \o q)[Len(p) + i] = q[i]
           /\ \A i \in (Len(p) + 1)..(Len(p) + Len(q)) : (p \o q)[i] = q[i - Len(p)]
  <1> DEFINE S == {p[i] : i \in DOMAIN p} \cup {q[i] : i \in DOMAIN q}
  <1>1. p \in Seq(S) /\ q \in Seq(S)
    BY DEF IsSeq
  <1> HIDE DEF S
  <1>2. p \o q \in Seq(S) /\ Len(p \o q) = Len(p) + Len(q)
    BY <1>1
  <1>3. \A i \in 1..(Len(p) + Len(q)) : (p \o q)[i] = IF i <= Len(p) THEN p[i] ELSE q[i - Len(p)]
    BY <1>1
  <1>4. Len(p) \in Nat /\ Len(q) \in Nat
    BY <1>1
  <1>5. IsSeq(p \o q) /\ DOMAIN (p \o q) = 1..(Len(p) + Len(q))
    BY <1>2, IsSeqIs, SeqLen
  <1>6. /\ \A i \in 1..Len(p) : (p \o q)[i] = p[i]
        /\ \A i \in (Len(p) + 1)..(Len(p) + Len(q)) : (p \o q)[i] = q[i - Len(p)]
    BY <1>3, <1>4
  <1>7. ASSUME NEW i \in 1..Len(q)  PROVE (p \o q)[Len(p) + i] = q[i]
    <2>1. Len(p) + i \in (Len(p) + 1)..(Len(p) + Len(q)) /\ (Len(p) + i) - Len(p) = i
      BY <1>4
    <2> QED BY <1>6, <2>1
  <1> QED BY <1>2, <1>5, <1>6, <1>7

LEMMA SeqSub ==
    ASSUME NEW q, IsSeq(q), NEW a \in 1..(Len(q) + 1), NEW b \in 0..Len(q), a <= b + 1
    PROVE  /\ IsSeq(SubSeq(q, a, b)) /\ Len(SubSeq(q, a, b)) = b + 1 - a
           /\ \A i \in 1..(b + 1 - a) : SubSeq(q, a, b)[i] = q[a + i - 1]
  <1> DEFINE S == {q[i] : i \in DOMAIN q}
  <1>1. q \in Seq(S)
    BY DEF IsSeq
  <1> HIDE DEF S
  <1>2. Len(q) \in Nat /\ DOMAIN q = 1..Len(q)
    BY <1>1
  <1>3. SubSeq(q, a, b) \in Seq(S)
    BY <1>1, <1>2
  <1>4. /\ Len(SubSeq(q, a, b)) = b + 1 - a
        /\ \A i \in 1..(b + 1 - a) : SubSeq(q, a, b)[i] = q[a + i - 1]
    BY <1>1, <1>2
  <1> QED BY <1>3, <1>4, IsSeqIs

LEMMA SeqRemove ==
    ASSUME NEW q, IsSeq(q), NEW n \in DOMAIN q
    PROVE  /\ IsSeq(RemoveAt(q, n)) /\ Len(RemoveAt(q, n)) = Len(q) - 1
           /\ \A i \in 1..(Len(q) - 1) : RemoveAt(q, n)[i] = IF i < n THEN q[i] ELSE q[i + 1]
  <1>1. Len(q) \in Nat /\ n \in 1..Len(q)
    BY SeqLen
  <1> DEFINE a == SubSeq(q, 1, n - 1)
             b == SubSeq(q, n + 1, Len(q))
  <1>2. IsSeq(a) /\ Len(a) = n - 1 /\ \A i \in 1..(n - 1) : a[i] = q[i]
    BY <1>1, SeqSub
  <1>3. IsSeq(b) /\ Len(b) = Len(q) - n /\ \A i \in 1..(Len(q) - n) : b[i] = q[n + i]
    <2>1. n + 1 \in 1..(Len(q) + 1) /\ Len(q) \in 0..Len(q) /\ n + 1 <= Len(q) + 1
          /\ Len(q) + 1 - (n + 1) = Len(q) - n
      BY <1>1
    <2>2. /\ IsSeq(b) /\ Len(b) = Len(q) - n
          /\ \A i \in 1..(Len(q) - n) : b[i] = q[(n + 1) + i - 1]
      BY <2>1, SeqSub
    <2>3. \A i \in 1..(Len(q) - n) : (n + 1) + i - 1 = n + i
      BY <1>1
    <2> QED BY <2>2, <2>3
  <1>4. RemoveAt(q, n) = a \o b
    BY DEF RemoveAt
  <1> HIDE DEF a, b
  <1>5. /\ IsSeq(a \o b) /\ Len(a \o b) = Len(q) - 1
        /\ \A i \in 1..(n - 1) : (a \o b)[i] = a[i]
        /\ \A i \in n..(Len(q) - 1) : (a \o b)[i] = b[i - n + 1]
    BY <1>1, <1>2, <1>3, SeqConcat
  <1>6. ASSUME NEW i \in 1..(Len(q) - 1)
        PROVE  (a \o b)[i] = IF i < n THEN q[i] ELSE q[i + 1]
    <2>1. CASE i < n
      BY <1>1, <1>2, <1>5, <2>1
    <2>2. CASE ~(i < n)
      <3>1. i \in n..(Len(q) - 1) /\ i - n + 1 \in 1..(Len(q) - n) /\ n + (i - n + 1) = i + 1
        BY <1>1, <2>2
      <3> QED BY <1>3, <1>5, <2>2, <3>1
    <2> QED BY <2>1, <2>2
  <1> QED BY <1>4, <1>5, <1>6

LEMMA SeqOne ==
    ASSUME NEW x
    PROVE  IsSeq(<<x>>) /\ Len(<<x>>) = 1 /\ <<x>>[1] = x
  BY <<x>> \in Seq({x}), IsSeqIs

LEMMA SeqEmpty ==
    IsSeq(<<>>) /\ Len(<<>>) = 0
  BY <<>> \in Seq({}), IsSeqIs

LEMMA SeqExcept ==
    ASSUME NEW q, IsSeq(q), NEW n \in DOMAIN q, NEW x
    PROVE  /\ IsSeq([q EXCEPT ![n] = x]) /\ Len([q EXCEPT ![n] = x]) = Len(q)
           /\ DOMAIN [q EXCEPT ![n] = x] = DOMAIN q
           /\ \A i \in DOMAIN q : [q EXCEPT ![n] = x][i] = IF i = n THEN x ELSE q[i]
  <1>1. Len(q) \in Nat /\ DOMAIN q = 1..Len(q)
    BY SeqLen
  <1> DEFINE e == [q EXCEPT ![n] = x]
  <1>2. DOMAIN e = 1..Len(q) /\ e = [i \in 1..Len(q) |-> e[i]]
    BY <1>1
  <1>3. IsSeq(e) /\ Len(e) = Len(q)
    <2> HIDE DEF e
    <2> QED BY <1>1, <1>2, SeqMade
  <1> QED BY <1>1, <1>2, <1>3

\* A non-empty set of natural numbers has a least one.
LEMMA LeastIs ==
    ASSUME NEW S \in SUBSET Nat, S # {}
    PROVE  Least(S) \in S /\ \A i \in S : Least(S) <= i
  <1> DEFINE R == {p \in Nat \X Nat : p[1] < p[2]}
  <1>1. R = OpToRel(<, Nat)
    BY DEF OpToRel
  <1>2. IsWellFoundedOn(R, Nat)
    BY <1>1, NatLessThanWellFounded
  <1>3. PICK i \in S : \A j \in S : ~(<<j, i>> \in R)
    <2> HIDE DEF R
    <2> QED BY <1>2, WFMin
  <1>4. \A j \in S : i <= j
    <2> SUFFICES ASSUME NEW j \in S  PROVE i <= j
      OBVIOUS
    <2>1. j \in Nat /\ i \in Nat /\ ~(j < i)
      BY <1>3
    <2> QED BY <2>1
  <1>5. \E h \in S : \A j \in S : h <= j
    BY <1>4
  <1> QED BY <1>5 DEF Least, Min

(***************************************************************************)
(* The beats of a burst.                                                   *)
(***************************************************************************)
PosAt(p, b) ==
    LET w == GetBurstWidth(p) o == p.addr % w IN
    IF SetupBurstType(p) = "FIXED" THEN (b - 1) * (w - o) ELSE IF b = 1 THEN 0 ELSE (b - 1) * w - o

\* The least of a set is the one that none is below.
LEMMA LeastOf ==
    ASSUME NEW S, S \subseteq Int, NEW v \in S, \A x \in S : v <= x
    PROVE  Least(S) = v
  <1>1. \A y \in S : (\A x \in S : y <= x) => y = v
    OBVIOUS
  <1> QED BY <1>1 DEF Least, Min

Widths == {1, 2, 4, 8}

Regular(p) ==
    /\ p.addr \in Nat /\ p.len \in Nat \ {0} /\ p.sw \in Nat \ {0} /\ p.bw \in Nat
    /\ GetBurstWidth(p) \in Widths /\ Bus % GetBurstWidth(p) = 0
    /\ SetupBurstType(p) = "FIXED" => GetBurstWidth(p) <= p.sw

LEMMA DivMod ==
    ASSUME NEW a \in Nat, NEW n \in Nat \ {0}
    PROVE  /\ a \div n \in Nat /\ a % n \in 0..(n - 1)
           /\ a = n * (a \div n) + (a % n)
  OBVIOUS

LEMMA DivWidth ==
    ASSUME NEW a \in Nat, NEW w \in Widths
    PROVE  /\ (a \div w) \in Nat /\ a % w \in 0..(w - 1)
           /\ a = w * (a \div w) + (a % w)
  BY DEF Widths

LEMMA ModOf ==
    ASSUME NEW q \in Nat, NEW r \in Nat, NEW n \in Widths, r < n
    PROVE  (n * q + r) % n = r
  <1> USE DEF Widths
  <1>1. CASE n = 1
    BY <1>1
  <1>2. CASE n = 2
    BY <1>2
  <1>3. CASE n = 4
    BY <1>3
  <1>4. CASE n = 8
    BY <1>4
  <1> QED BY <1>1, <1>2, <1>3, <1>4

\* What is left of a word of the burst is left of a word of the bus.
LEMMA WordInBus ==
    ASSUME NEW a \in Nat, NEW w \in Widths, Bus % w = 0
    PROVE  /\ a % w \in 0..(w - 1) /\ a % Bus \in 0..(Bus - 1)
           /\ w - (a % w) <= Bus - (a % Bus)
  <1> USE BusAssumption
  <1>0. w \in Nat \ {0}
    BY DEF Widths
  <1> DEFINE q == a \div Bus
             r == a % Bus
             c == Bus \div w
             d == r \div w
             e == r % w
  <1>1. q \in Nat /\ r \in 0..(Bus - 1) /\ a = Bus * q + r
    BY DivMod
  <1>2. c \in Nat /\ Bus = w * c
    BY <1>0, DivWidth
  <1>3. d \in Nat /\ e \in 0..(w - 1) /\ r = w * d + e
    BY <1>0, <1>1, DivWidth
  <1> HIDE DEF q, r, c, d, e
  <1>4. a = w * (c * q + d) + e
    BY <1>0, <1>1, <1>2, <1>3
  <1>5. c * q + d \in Nat
    BY <1>0, <1>1, <1>2, <1>3
  <1>6. a % w = e
    <2>1. PICK z \in Nat : z = c * q + d
      BY <1>5
    <2>2. (w * z + e) % w = e
      BY <1>0, <1>3, ModOf
    <2>3. a = w * z + e
      BY <1>4, <2>1
    <2> QED BY <2>2, <2>3
  <1>7. w * d + e < w * c
    BY <1>0, <1>1, <1>2, <1>3
  <1>8. d < c
    BY <1>0, <1>7, <1>2, <1>3
  <1>9. w - e <= w * c - (w * d + e)
    BY <1>0, <1>8, <1>2, <1>3
  <1> QED BY <1>0, <1>1, <1>2, <1>3, <1>6, <1>9 DEF r

\* The number of words that hold n bytes.
LEMMA CeilingOf ==
    ASSUME NEW n \in Nat, NEW g \in 1..8, NEW b \in Nat, b <= (n + g - 1) \div g
    PROVE  b * g <= n + g - 1 /\ (b * g < n <=> b < (n + g - 1) \div g)
  <1>1. CASE g = 1
    BY <1>1
  <1>2. CASE g = 2
    BY <1>2
  <1>3. CASE g = 3
    BY <1>3
  <1>4. CASE g = 4
    BY <1>4
  <1>5. CASE g = 5
    BY <1>5
  <1>6. CASE g = 6
    BY <1>6
  <1>7. CASE g = 7
    BY <1>7
  <1>8. CASE g = 8
    BY <1>8
  <1> QED BY <1>1, <1>2, <1>3, <1>4, <1>5, <1>6, <1>7, <1>8

LEMMA Multiple ==
    ASSUME NEW b \in Nat \ {0}, NEW g \in 1..8
    PROVE  b * g \in Nat /\ b * g >= g /\ (b - 1) * g = b * g - g /\ (b # 1 => b * g >= 2 * g)
  OBVIOUS

\* A beat of a fixed burst.
LEMMA FixedBeat ==
    ASSUME NEW p, Regular(p), SetupBurstType(p) = "FIXED", NEW pos \in Nat, pos < p.len, NEW first \in BOOLEAN
    PROVE  LET g == GetBurstWidth(p) - (p.addr % GetBurstWidth(p)) IN
           BeatBytes(p, pos, first, TRUE) = IF p.len - pos < g THEN p.len - pos ELSE g
  <1> DEFINE w == GetBurstWidth(p)
             a == p.addr
             g == w - (a % w)
             S == {Bus - (a % Bus), p.len - pos, w, p.sw, g}
             v == IF p.len - pos < g THEN p.len - pos ELSE g
  <1>1. a % w \in 0..(w - 1) /\ a % Bus \in 0..(Bus - 1) /\ g <= Bus - (a % Bus) /\ w \in 1..8 /\ Bus \in Nat
    <2>1. a \in Nat /\ w \in Widths /\ Bus % w = 0
      BY DEF Regular
    <2> HIDE DEF w, a
    <2>2. w \in 1..8
      BY <2>1 DEF Widths
    <2> QED BY <2>1, <2>2, WordInBus, BusAssumption
  <1>2. p.len \in Nat /\ p.sw \in Nat /\ w <= p.sw
    BY DEF Regular
  <1>3. Address(p, 0) = a /\ 0 % p.sw = 0
    BY DEF Regular, Address
  <1>4. BeatBytes(p, pos, first, TRUE) = Least({Bus - (a % Bus), p.len - pos, w} \cup {p.sw - 0} \cup {g})
    BY <1>3 DEF BeatBytes
  <1>5. {Bus - (a % Bus), p.len - pos, w} \cup {p.sw - 0} \cup {g} = S
    BY <1>2
  <1> HIDE DEF w, a, g
  <1>6. S \subseteq Int /\ v \in S /\ \A x \in S : v <= x
    <2>1. g \in Int /\ w \in Int /\ g <= w /\ a % w \in Int
      BY <1>1 DEF g
    <2> QED BY <1>1, <1>2, <2>1
  <1> HIDE DEF S, v
  <1>7. Least(S) = v
    BY <1>6, LeastOf
  <1> QED BY <1>4, <1>5, <1>7 DEF v, g, w, a

\* A beat of an incrementing burst.
LEMMA IncrBeat ==
    ASSUME NEW p, Regular(p), SetupBurstType(p) # "FIXED", NEW pos \in Nat, pos < p.len, NEW first \in BOOLEAN,
           first => pos = 0, ~first => (p.addr + pos) % GetBurstWidth(p) = 0
    PROVE  LET g == GetBurstWidth(p) - ((p.addr + pos) % GetBurstWidth(p)) IN
           BeatBytes(p, pos, first, TRUE) = IF p.len - pos < g THEN p.len - pos ELSE g
  <1> DEFINE w == GetBurstWidth(p)
             a == p.addr + pos
             g == w - (a % w)
             T == IF first THEN {g} ELSE {}
             S == {Bus - (a % Bus), p.len - pos, w} \cup {p.sw - pos} \cup T
             v == IF p.len - pos < g THEN p.len - pos ELSE g
  <1>0. p.addr \in Nat /\ a \in Nat /\ w \in Widths /\ Bus % w = 0
    BY DEF Regular
  <1>1. a % w \in 0..(w - 1) /\ a % Bus \in 0..(Bus - 1) /\ g <= Bus - (a % Bus) /\ w \in 1..8 /\ Bus \in Nat
    <2> HIDE DEF w, a
    <2>1. w \in 1..8
      BY <1>0 DEF Widths
    <2> QED BY <1>0, <2>1, WordInBus, BusAssumption
  <1>2. p.len \in Nat /\ p.sw \in Nat /\ p.len <= p.sw
    BY DEF Regular, SetupBurstType
  <1>3. pos % p.sw = pos /\ Address(p, pos) = a
    <2>1. pos < p.sw
      BY <1>2
    <2> QED BY <1>2, <2>1 DEF Address
  <1>4. BeatBytes(p, pos, first, TRUE) = Least(S)
    BY <1>3 DEF BeatBytes
  <1>5. ~first => g = w
    BY <1>0 DEF Widths
  <1> HIDE DEF w, a, g
  <1>6. S \subseteq Int /\ v \in S /\ \A x \in S : v <= x
    <2>1. g \in Int /\ w \in Int /\ g <= w /\ a % w \in Int
      BY <1>1 DEF g
    <2> QED BY <1>1, <1>2, <1>5, <2>1
  <1> HIDE DEF S, v
  <1>7. Least(S) = v
    BY <1>6, LeastOf
  <1> QED BY <1>4, <1>7 DEF v, g, w, a

\* The beats of a burst: each begins where the one before it ended, and the
\* last one ends the payload.
LEMMA BeatStep ==
    ASSUME NEW p, Regular(p), NEW b \in 1..NumBeats(p)
    PROVE  LET next == PosAt(p, b) + BeatBytes(p, PosAt(p, b), b = 1, TRUE) IN
           /\ next < p.len <=> b < NumBeats(p)
           /\ next < p.len => next = PosAt(p, b + 1)
  <1> DEFINE w == GetBurstWidth(p)
             o == p.addr % w
             pos == PosAt(p, b)
             n == BeatBytes(p, pos, b = 1, TRUE)
  <1>0. SUFFICES /\ pos + n < p.len <=> b < NumBeats(p)
                 /\ pos + n < p.len => pos + n = PosAt(p, b + 1)
    OBVIOUS
  <1>1. /\ o \in 0..(w - 1) /\ w \in Widths /\ w \in 1..8 /\ p.len \in Nat /\ p.addr \in Nat
        /\ b \in Nat \ {0}
    <2>1. p.addr \in Nat /\ w \in Widths /\ Bus % w = 0 /\ p.len \in Nat
      BY DEF Regular
    <2> HIDE DEF w
    <2>2. w \in 1..8
      BY <2>1 DEF Widths
    <2>3. o \in 0..(w - 1)
      BY <2>1, WordInBus
    <2>4. b \in Nat \ {0}
      OBVIOUS
    <2> QED BY <2>1, <2>2, <2>3, <2>4
  <1>2. CASE SetupBurstType(p) = "FIXED"
    <2> DEFINE g == w - o
    <2>1. NumBeats(p) = (p.len + g - 1) \div g
      BY <1>2, <1>1 DEF NumBeats
    <2>2. pos = (b - 1) * g /\ PosAt(p, b + 1) = b * g
      BY <1>2, <1>1 DEF PosAt
    <2>3. g \in 1..8
      BY <1>1
    <2> HIDE DEF g, pos, n
    <2>4. pos \in Nat /\ pos < p.len /\ (b * g < p.len <=> b < NumBeats(p))
      <3>1. b <= (p.len + g - 1) \div g
        BY <2>1, <1>1, <2>3
      <3>2. b * g <= p.len + g - 1 /\ (b * g < p.len <=> b < (p.len + g - 1) \div g)
        BY <3>1, <1>1, <2>3, CeilingOf
      <3>3. pos = b * g - g /\ b * g >= g
        BY <1>1, <2>2, <2>3, Multiple
      <3> QED BY <2>1, <2>3, <1>1, <3>2, <3>3
    <2>5. n = IF p.len - pos < g THEN p.len - pos ELSE g
      BY <1>2, <2>4, FixedBeat DEF g, n
    <2>6. pos = b * g - g
      BY <1>1, <2>2, <2>3, Multiple
    <2> QED
      <3>1. (b - 1) * g = b * g - g /\ b * g \in Nat /\ b * g >= g
        BY <1>1, <2>3, Multiple
      <3> QED BY <1>1, <2>2, <2>3, <2>4, <2>5, <2>6, <3>1
  <1>3. CASE SetupBurstType(p) # "FIXED"
    <2>1. NumBeats(p) = (p.len + o + w - 1) \div w
      BY <1>3, <1>1 DEF NumBeats
    <2>2. pos = (IF b = 1 THEN 0 ELSE (b - 1) * w - o) /\ PosAt(p, b + 1) = b * w - o
      BY <1>3, <1>1 DEF PosAt
    <2> HIDE DEF w, o, pos, n
    <2>3. b * w <= p.len + o + w - 1 /\ (b * w < p.len + o <=> b < NumBeats(p))
      <3>1. w \in 1..8 /\ p.len + o \in Nat /\ b <= ((p.len + o) + w - 1) \div w
        BY <1>1, <2>1
      <3> QED BY <3>1, <1>1, <2>1, CeilingOf
    <2>4. b * w \in Nat /\ b * w >= w /\ (b - 1) * w = b * w - w /\ (b # 1 => b * w >= 2 * w)
      BY <1>1, Multiple
    <2>5. pos \in Nat /\ pos < p.len
      BY <1>1, <2>2, <2>3, <2>4, Regular(p) DEF Regular
    <2>6. b # 1 => (p.addr + pos) % w = 0
      <3> SUFFICES ASSUME b # 1  PROVE (p.addr + pos) % w = 0
        OBVIOUS
      <3>1. (p.addr \div w) \in Nat /\ p.addr = w * (p.addr \div w) + o
        BY <1>1, DivWidth DEF o
      <3>2. PICK z \in Nat : z = p.addr \div w
        BY <3>1
      <3>3. p.addr + pos = w * (z + b - 1) + 0
        BY <1>1, <2>2, <2>4, <3>1, <3>2
      <3>4. z + b - 1 \in Nat
        BY <1>1, <3>2
      <3> QED BY <1>1, <3>3, <3>4, ModOf
    <2>7. n = IF p.len - pos < w - ((p.addr + pos) % w) THEN p.len - pos ELSE w - ((p.addr + pos) % w)
      <3>1. b = 1 => pos = 0
        BY <2>2
      <3> QED BY <1>3, <2>5, <2>6, <3>1, IncrBeat DEF n, w
    <2>8. b = 1 => (p.addr + pos) % w = o
      BY <2>2, <1>1 DEF o
    <2>9. CASE b = 1
      BY <1>1, <2>2, <2>3, <2>4, <2>5, <2>7, <2>8, <2>9
    <2>10. CASE b # 1
      BY <1>1, <2>2, <2>3, <2>4, <2>5, <2>6, <2>7, <2>10
    <2> QED BY <2>9, <2>10
  <1> QED BY <1>2, <1>3

LEMMA DivIs ==
    ASSUME NEW n \in Nat \ {0}, NEW z \in Nat, NEW r \in 0..(n - 1)
    PROVE  (n * z + r) \div n = z
  <1> DEFINE d == (n * z + r) \div n
             e == (n * z + r) % n
  <1>1. n * z + r \in Nat
    OBVIOUS
  <1>2. PICK a \in Nat : a = n * z + r
    BY <1>1
  <1>3. d \in Nat /\ e \in 0..(n - 1) /\ n * z + r = n * d + e
    BY <1>2, DivMod
  <1> HIDE DEF d, e
  <1>4. ~(d >= z + 1)
    <2> SUFFICES ASSUME d >= z + 1  PROVE FALSE
      OBVIOUS
    <2>1. n * d >= n * (z + 1)
      BY <1>3
    <2> QED BY <1>3, <2>1
  <1>5. ~(z >= d + 1)
    <2> SUFFICES ASSUME z >= d + 1  PROVE FALSE
      OBVIOUS
    <2>1. n * z >= n * (d + 1)
      BY <1>3
    <2> QED BY <1>3, <2>1
  <1> QED BY <1>3, <1>4, <1>5 DEF d

\* A page is a number of words of the bus: aligning an address keeps its page.
LEMMA PageOfWord ==
    ASSUME NEW a \in Nat
    PROVE  Align(a, Bus) \div Page = a \div Page
  <1> DEFINE q == a \div Bus
             r == a % Bus
             c == Page \div Bus
             z == q \div c
             u == q % c
  <1> USE BusAssumption, SlaveAssumption
  <1>1. q \in Nat /\ r \in 0..(Bus - 1) /\ a = Bus * q + r
    BY DivMod
  <1>2. c \in Nat /\ Page = Bus * c
    BY DivMod
  <1>3. c \in Nat \ {0}
    BY <1>2
  <1>4. z \in Nat /\ u \in 0..(c - 1) /\ q = c * z + u
    BY <1>1, <1>3, DivMod
  <1>5. Align(a, Bus) = q * Bus
    BY DEF Align
  <1> HIDE DEF q, r, c, z, u
  <1>6. Bus * u + r \in 0..(Page - 1) /\ Bus * u \in 0..(Page - 1)
    <2>1. u + 1 <= c
      BY <1>3, <1>4
    <2>2. Bus * (u + 1) <= Bus * c
      BY <2>1, <1>3, <1>4
    <2>3. Bus * (u + 1) = Bus * u + Bus
      BY <1>4
    <2>4. Bus * u \in Nat
      BY <1>4
    <2> QED BY <1>1, <1>2, <2>2, <2>3, <2>4
  <1>7. q * Bus = Page * z + Bus * u /\ a = Page * z + (Bus * u + r)
    BY <1>1, <1>2, <1>3, <1>4
  <1>8. (Page * z + Bus * u) \div Page = z /\ (Page * z + (Bus * u + r)) \div Page = z
    BY <1>4, <1>6, DivIs
  <1> QED BY <1>5, <1>7, <1>8

(***************************************************************************)
(* The invariant.                                                          *)
(***************************************************************************)
IdOf(t) == Txn(t).id
KindOf(t) == Txn(t).kind
TxnsOf(q) == [i \in DOMAIN q |-> q[i].x.t]
IsWrite(t) == ~IsReadKind(KindOf(t))
Carries(l, t) == (l = "rd") <=> IsReadKind(KindOf(t))
Issued(t) == \E i \in DOMAIN m.issued : m.issued[i] = t

\* A list of the slave, and what is to join it.
Behind(l) == IF l = "rd" THEN m.rdTrans ELSE TxnsOf(s.wrDataList) \o m.wrTrans
Path(l) == TxnsOf(s.list[l]) \o Behind(l)
Waits(l, i) == i \in DOMAIN s.list[l] => s.list[l][i].at # "tlm"

IsEntry(e) ==
    /\ DOMAIN e = {"x", "beat", "idx", "data", "at", "abort"}
    /\ e.x.t \in Txns /\ e.x = AxChannel(e.x.t)
    /\ e.at \in {"queued", "wait", "tlm"} /\ e.abort \in BOOLEAN

MasterFields == {"rdTrans", "wrTrans", "wrData", "pos", "beat", "rdResponses", "wrResponses",
                 "r", "rpos", "rbeat", "rack", "wack", "up", "issued", "status", "data"}
SlaveFields == {"list", "wrDataList", "out", "ack", "num", "barriers", "ran", "unexpected"}
Statuses == {"idle", "pending", "OK", "EXCLUSIVE_OK", "ADDRESS_ERROR", "GENERIC_ERROR"}

Shape ==
    /\ scn \in Scenarios /\ DOMAIN m = MasterFields /\ DOMAIN s = SlaveFields
    /\ m.status \in [Txns -> Statuses]
    /\ IsSeq(m.rdTrans) /\ IsSeq(m.wrTrans) /\ IsSeq(m.wrData) /\ IsSeq(m.issued)
    /\ IsSeq(s.wrDataList) /\ IsSeq(s.ran)
    /\ DOMAIN s.list = Lists /\ DOMAIN s.out = Lists /\ DOMAIN s.ack = Lists /\ DOMAIN s.num = Lists
    /\ \A l \in Lists : IsSeq(s.list[l]) /\ IsSeq(s.out[l])

EntryInv ==
    /\ \A l \in Lists : \A i \in DOMAIN s.list[l] : IsEntry(s.list[l][i])
    /\ \A i \in DOMAIN s.wrDataList : IsEntry(s.wrDataList[i]) /\ ~s.wrDataList[i].abort
    /\ \A l \in Lists : s.ack[l] => s.out[l] # <<>>

\* In a reset there is only what the target still runs.
DownInv ==
    ~m.up => /\ m.rdTrans = <<>> /\ m.wrTrans = <<>> /\ m.wrData = <<>> /\ s.wrDataList = <<>>
             /\ \A l \in Lists : \A i \in DOMAIN s.list[l] :
                   s.list[l][i].at = "tlm" /\ s.list[l][i].abort

\* A transaction is issued once; those on a path have been, and are of its kind.
IssueInv ==
    /\ \A i, j \in DOMAIN m.issued : m.issued[i] = m.issued[j] => i = j
    /\ \A t \in Txns : m.status[t] = "idle" => ~Issued(t)
    /\ \A l \in Lists : \A i \in DOMAIN Path(l) :
          LET t == Path(l)[i] IN t \in Txns /\ Issued(t) /\ Carries(l, t) /\ Validate(t)
    /\ \A i \in DOMAIN s.ran : Issued(s.ran[i].t)

OrderInv ==
    \A l \in Lists : \A i, j \in DOMAIN Path(l) : i < j => Before(Path(l)[i], Path(l)[j])

\* Nothing that waits has been overtaken by what it conflicts with.
WaitingInv ==
    \A l \in Lists : \A i \in DOMAIN Path(l) : \A r \in DOMAIN s.ran :
        Waits(l, i) /\ Carries(l, s.ran[r].t) /\ Before(Path(l)[i], s.ran[r].t)
            => ~Conflict(Path(l)[i], s.ran[r].t)

\* An entry has a thread only if it is the first of its ID; those that the target
\* runs have no conflict.
IdsWait(l) ==
    \A j \in DOMAIN s.list[l] : \A i \in 1..(j - 1) :
        IdOf(Path(l)[i]) = IdOf(Path(l)[j]) => s.list[l][j].at = "queued"
TogetherInv ==
    \A l \in Lists :
        /\ IdsWait(l)
        /\ \A j \in DOMAIN s.list[l] :
              s.list[l][j].at = "tlm" =>
                 /\ \E r \in DOMAIN s.ran : s.ran[r].t = Path(l)[j]
                 /\ \A i \in 1..(j - 1) :
                       s.list[l][i].at = "tlm" => ~Conflict(Path(l)[i], Path(l)[j])

RanInv ==
    \A i, j \in DOMAIN s.ran :
        LET t == s.ran[i].t  u == s.ran[j].t IN
        (IsReadKind(KindOf(t)) <=> IsReadKind(KindOf(u))) /\ Before(t, u) /\ Conflict(t, u) => i < j

RunInv == IssueInv /\ OrderInv /\ WaitingInv /\ TogetherInv /\ RanInv

\* The thread of W has, apart from the transaction whose AW is not yet done, those
\* that wait for data in the slave, and both count the same beats of the first.
NextData ==
    IF m.wrTrans # <<>> /\ (s.wrDataList # <<>> \/ hasData(KindOf(Head(m.wrTrans))))
    THEN <<Head(m.wrTrans)>> ELSE <<>>
WrDataInv ==
    /\ m.wrData = TxnsOf(s.wrDataList) \o NextData
    /\ m.wrData # <<>> =>
          LET t == Head(m.wrData) IN
          hasData(KindOf(t)) /\ m.beat \in 1..NumBeats(Txn(t).p) /\ m.pos = PosAt(Txn(t).p, m.beat)
    /\ m.wrData = <<>> => m.pos = 0
    /\ s.wrDataList = <<>> => m.beat = 1
    /\ \A i \in DOMAIN s.wrDataList : s.wrDataList[i].beat = IF i = 1 THEN m.beat ELSE 1

\* How many entries of a list are not to be aborted.
Live(q) == Cardinality({i \in DOMAIN q : ~q[i].abort})
NumInv ==
    /\ \A l \in Lists :
          s.num[l] = Live(s.list[l]) + Len(s.out[l]) + (IF l = "wr" THEN Len(s.wrDataList) ELSE 0)
    /\ ~s.unexpected

AxiInv == Shape /\ EntryInv /\ DownInv /\ RunInv /\ WrDataInv /\ NumInv

(***************************************************************************)
(* Facts about the paths.                                                  *)
(***************************************************************************)
LEMMA TxnsOfIs ==
    ASSUME NEW q, IsSeq(q)
    PROVE  /\ IsSeq(TxnsOf(q)) /\ Len(TxnsOf(q)) = Len(q) /\ DOMAIN TxnsOf(q) = 1..Len(q)
           /\ \A i \in 1..Len(q) : TxnsOf(q)[i] = q[i].x.t
           /\ TxnsOf(q) = <<>> <=> q = <<>>
  <1>1. Len(q) \in Nat /\ DOMAIN q = 1..Len(q)
    BY SeqLen
  <1>2. DOMAIN TxnsOf(q) = 1..Len(q) /\ TxnsOf(q) = [i \in 1..Len(q) |-> TxnsOf(q)[i]]
        /\ \A i \in 1..Len(q) : TxnsOf(q)[i] = q[i].x.t
    BY <1>1 DEF TxnsOf
  <1>3. IsSeq(TxnsOf(q)) /\ Len(TxnsOf(q)) = Len(q)
    BY <1>1, <1>2, SeqMade
  <1> QED BY <1>2, <1>3, SeqLen

LEMMA BehindIs ==
    ASSUME Shape, NEW l \in Lists
    PROVE  IsSeq(Behind(l))
  BY TxnsOfIs, SeqConcat DEF Shape, Behind

BehindOK == \A l \in Lists : IsSeq(Behind(l))

LEMMA BehindAre == Shape => BehindOK
  BY BehindIs DEF BehindOK

LEMMA NextBehindAre == Shape' => BehindOK'
  BY BehindAre, PTL

LEMMA PathIs ==
    ASSUME Shape, NEW l \in Lists
    PROVE  /\ IsSeq(Path(l)) /\ Len(Path(l)) = Len(s.list[l]) + Len(Behind(l))
           /\ DOMAIN Path(l) = 1..(Len(s.list[l]) + Len(Behind(l)))
           /\ DOMAIN s.list[l] = 1..Len(s.list[l]) /\ DOMAIN s.list[l] \subseteq DOMAIN Path(l)
           /\ Len(s.list[l]) \in Nat /\ Len(Behind(l)) \in Nat
           /\ \A i \in DOMAIN s.list[l] : Path(l)[i] = s.list[l][i].x.t
           /\ \A i \in 1..Len(Behind(l)) : Path(l)[Len(s.list[l]) + i] = Behind(l)[i]
  <1> DEFINE q == s.list[l]
  <1>1. IsSeq(q) /\ IsSeq(Behind(l))
    BY BehindIs DEF Shape
  <1>2. IsSeq(TxnsOf(q)) /\ Len(TxnsOf(q)) = Len(q) /\ \A i \in 1..Len(q) : TxnsOf(q)[i] = q[i].x.t
    BY <1>1, TxnsOfIs
  <1>3. Len(q) \in Nat /\ DOMAIN q = 1..Len(q) /\ Len(Behind(l)) \in Nat
    BY <1>1, SeqLen
  <1> HIDE DEF q
  <1>4. Path(l) = TxnsOf(q) \o Behind(l)
    BY DEF Path, q
  <1>5. /\ IsSeq(Path(l)) /\ Len(Path(l)) = Len(q) + Len(Behind(l))
        /\ DOMAIN Path(l) = 1..(Len(q) + Len(Behind(l)))
        /\ \A i \in 1..Len(q) : Path(l)[i] = TxnsOf(q)[i]
        /\ \A i \in 1..Len(Behind(l)) : Path(l)[Len(q) + i] = Behind(l)[i]
    <2> DEFINE a == TxnsOf(q)
               b == Behind(l)
    <2>1. IsSeq(a) /\ IsSeq(b) /\ Len(a) = Len(q) /\ Path(l) = a \o b
      BY <1>1, <1>2, <1>4
    <2> HIDE DEF a, b
    <2>2. IsSeq(a \o b)
      BY <2>1, SeqConcat
    <2>3. Len(a \o b) = Len(a) + Len(b)
      BY <2>1, SeqConcat
    <2>4. DOMAIN (a \o b) = 1..(Len(a) + Len(b))
      BY <2>1, SeqConcat
    <2>5. \A i \in 1..Len(a) : (a \o b)[i] = a[i]
      BY <2>1, SeqConcat
    <2>6. \A i \in 1..Len(b) : (a \o b)[Len(a) + i] = b[i]
      BY <2>1, SeqConcat
    <2> QED BY <2>1, <2>2, <2>3, <2>4, <2>5, <2>6 DEF a, b
  <1>6. DOMAIN q \subseteq DOMAIN Path(l)
    BY <1>3, <1>5
  <1> QED BY <1>2, <1>3, <1>5, <1>6 DEF q

PathsOK ==
    \A l \in Lists :
        /\ IsSeq(Path(l)) /\ Len(Path(l)) = Len(s.list[l]) + Len(Behind(l))
        /\ DOMAIN Path(l) = 1..(Len(s.list[l]) + Len(Behind(l)))
        /\ DOMAIN s.list[l] = 1..Len(s.list[l]) /\ DOMAIN s.list[l] \subseteq DOMAIN Path(l)
        /\ Len(s.list[l]) \in Nat /\ Len(Behind(l)) \in Nat
        /\ \A i \in DOMAIN s.list[l] : Path(l)[i] = s.list[l][i].x.t
        /\ \A i \in 1..Len(Behind(l)) : Path(l)[Len(s.list[l]) + i] = Behind(l)[i]

LEMMA PathsAre == Shape => PathsOK
  BY PathIs DEF PathsOK

LEMMA NextPathsAre == Shape' => PathsOK'
  BY PathsAre, PTL

\* Transactions that come before each other are different, and not both ways.
LEMMA BeforeIsOrder ==
    ASSUME Shape, IssueInv, NEW t, NEW u, Before(t, u)
    PROVE  t # u /\ ~Before(u, t) /\ Issued(t) /\ Issued(u)
  <1>1. PICK i, j \in DOMAIN m.issued : i < j /\ m.issued[i] = t /\ m.issued[j] = u
    BY DEF Before
  <1>2. DOMAIN m.issued = 1..Len(m.issued) /\ Len(m.issued) \in Nat
    BY SeqLen DEF Shape
  <1>3. \A a, b \in DOMAIN m.issued : m.issued[a] = m.issued[b] => a = b
    BY DEF IssueInv
  <1>4. i \in Nat /\ j \in Nat /\ i # j
    BY <1>1, <1>2
  <1>5. t # u
    BY <1>1, <1>3, <1>4
  <1>6. ~Before(u, t)
    <2> SUFFICES ASSUME NEW a \in DOMAIN m.issued, NEW b \in DOMAIN m.issued, a < b,
                        m.issued[a] = u, m.issued[b] = t
                 PROVE  FALSE
      BY DEF Before
    <2>1. a = j /\ b = i
      BY <1>1, <1>3
    <2> QED BY <1>1, <1>4, <2>1
  <1> QED BY <1>1, <1>5, <1>6 DEF Issued

\* An entry that does not have to wait conflicts with none before it.
LEMMA ClearToRun ==
    ASSUME Shape, EntryInv, IssueInv, TogetherInv, NEW l \in Lists, NEW i \in DOMAIN s.list[l],
           s.list[l][i].at = "wait", ~WaitForTransactions(s.list[l], i), NEW j \in 1..(i - 1)
    PROVE  ~Conflict(Path(l)[j], Path(l)[i])
  <1> DEFINE q == s.list[l]
             t == Path(l)[j]
             u == Path(l)[i]
  <1>1. /\ j \in DOMAIN q /\ i # 1 /\ t = q[j].x.t /\ u = q[i].x.t
        /\ t \in Txns /\ u \in Txns /\ q[j].x = AxChannel(t) /\ q[i].x = AxChannel(u)
    BY PathIs DEF EntryInv, IsEntry
  <1>2. q[j].x.kind = KindOf(t) /\ q[i].x.kind = KindOf(u)
    BY <1>1 DEF AxChannel, KindOf
  <1>3. ASSUME NEW v \in Txns
        PROVE  SlavePayload(AxChannel(v)).addr \div Page = Txn(v).p.addr \div Page
    <2>1. Txn(v).p.addr \in Nat
      BY ScenarioAssumption DEF Shape, Txns, Txn
    <2>2. SlavePayload(AxChannel(v)).addr \in {Txn(v).p.addr, Align(Txn(v).p.addr, Bus)}
      BY DEF SlavePayload, AxChannel
    <2> QED BY <2>1, <2>2, PageOfWord
  <1>4. IdOf(t) # IdOf(u)
    BY DEF TogetherInv, IdsWait
  <1>5. Txn(t).p.addr \div Page # Txn(u).p.addr \div Page
    BY <1>1, <1>3 DEF WaitForTransactions, OverlappingAddress
  <1>6. ~(scn.ace /\ IsBarrier(KindOf(u)))
    BY <1>1, <1>2 DEF WaitForTransactions
  <1>7. ~(scn.ace /\ IsBarrier(KindOf(t)) /\ KindOf(u) \notin {"WriteBack", "Evict"})
    BY <1>1, <1>2, <1>6 DEF WaitForTransactions, is_after_barrier
  <1> QED BY <1>4, <1>5, <1>6, <1>7 DEF Conflict, IdOf, KindOf

(***************************************************************************)
(* Steps that issue and start nothing.                                     *)
(***************************************************************************)
\* What a step leaves of a path keeps its order; what waits goes on waiting.
Thins(l) ==
    \E f \in [DOMAIN Path(l)' -> DOMAIN Path(l)] :
        /\ \A j \in DOMAIN Path(l)' : Path(l)'[j] = Path(l)[f[j]] /\ (Waits(l, j)' <=> Waits(l, f[j]))
        /\ \A i, j \in DOMAIN Path(l)' : i < j => f[i] < f[j]

\* The scenario is fixed, and with it all that is said of its transactions.
LEMMA SameScenario ==
    ASSUME scn' = scn
    PROVE  /\ Txns' = Txns
           /\ \A t : /\ Txn(t)' = Txn(t) /\ KindOf(t)' = KindOf(t) /\ IdOf(t)' = IdOf(t)
                     /\ Validate(t)' <=> Validate(t)
                     /\ AxChannel(t)' = AxChannel(t)
           /\ \A l, t : Carries(l, t)' <=> Carries(l, t)
           /\ \A t, u : Conflict(t, u)' <=> Conflict(t, u)
  BY DEF Txns, Txn, KindOf, IdOf, Validate, AxChannel, Carries, Conflict

\* So is the order of issue, in a step that issues nothing.
LEMMA SameIssued ==
    ASSUME m'.issued = m.issued
    PROVE  /\ \A t : Issued(t)' <=> Issued(t)
           /\ \A t, u : Before(t, u)' <=> Before(t, u)
  BY DEF Issued, Before

\* A step that issues and starts nothing keeps the order if it only thins out the paths.
LEMMA RunKeeps ==
    ASSUME Shape, Shape', RunInv, scn' = scn, m'.issued = m.issued, s'.ran = s.ran,
           \A t \in Txns : m'.status[t] = "idle" => m.status[t] = "idle",
           \A l \in Lists : Thins(l) /\ IdsWait(l)'
    PROVE  RunInv'
  <1> USE DEF RunInv
  <1>1. /\ Txns' = Txns
        /\ \A t : /\ KindOf(t)' = KindOf(t) /\ IdOf(t)' = IdOf(t)
                  /\ Validate(t)' <=> Validate(t)
        /\ \A l, t : Carries(l, t)' <=> Carries(l, t)
        /\ \A t, u : Conflict(t, u)' <=> Conflict(t, u)
    BY SameScenario
  <1>2. /\ \A t : Issued(t)' <=> Issued(t)
        /\ \A t, u : Before(t, u)' <=> Before(t, u)
    BY SameIssued
  <1>3. IssueInv'
    <2>1. \A i, j \in DOMAIN m'.issued : m'.issued[i] = m'.issued[j] => i = j
      BY DEF IssueInv
    <2>2. \A t \in Txns' : m'.status[t] = "idle" => ~Issued(t)'
      BY <1>1, <1>2 DEF IssueInv
    <2>3. \A i \in DOMAIN s'.ran : Issued(s.ran[i].t)'
      BY <1>2 DEF IssueInv
    <2>4. ASSUME NEW l \in Lists, NEW i \in DOMAIN Path(l)'
          PROVE  (LET t == Path(l)[i] IN t \in Txns /\ Issued(t) /\ Carries(l, t) /\ Validate(t))'
      <3>1. PICK j \in DOMAIN Path(l) : Path(l)'[i] = Path(l)[j]
        BY DEF Thins
      <3> QED BY <3>1, <1>1, <1>2 DEF IssueInv
    <2> QED BY <2>1, <2>2, <2>3, <2>4 DEF IssueInv
  <1>4. OrderInv'
    <2> SUFFICES ASSUME NEW l \in Lists, NEW i \in DOMAIN Path(l)', NEW j \in DOMAIN Path(l)', i < j
                 PROVE  Before(Path(l)[i], Path(l)[j])'
      BY DEF OrderInv
    <2>1. PICK f \in [DOMAIN Path(l)' -> DOMAIN Path(l)] :
            /\ \A h \in DOMAIN Path(l)' : Path(l)'[h] = Path(l)[f[h]]
            /\ \A g, h \in DOMAIN Path(l)' : g < h => f[g] < f[h]
      BY DEF Thins
    <2>2. f[i] \in DOMAIN Path(l) /\ f[j] \in DOMAIN Path(l) /\ f[i] < f[j]
      BY <2>1
    <2> QED BY <2>1, <2>2, <1>2 DEF OrderInv
  <1>5. WaitingInv'
    <2> SUFFICES ASSUME NEW l \in Lists, NEW i \in DOMAIN Path(l)', NEW r \in DOMAIN s'.ran,
                        Waits(l, i)', Carries(l, s.ran[r].t)', Before(Path(l)[i], s.ran[r].t)'
                 PROVE  ~Conflict(Path(l)[i], s.ran[r].t)'
      BY DEF WaitingInv
    <2>1. PICK j \in DOMAIN Path(l) : Path(l)'[i] = Path(l)[j] /\ Waits(l, j)
      BY DEF Thins
    <2> QED BY <2>1, <1>1, <1>2 DEF WaitingInv
  <1>6. TogetherInv'
    <2> SUFFICES ASSUME NEW l \in Lists, NEW j \in DOMAIN s'.list[l], s'.list[l][j].at = "tlm"
                 PROVE  /\ \E r \in DOMAIN s'.ran : s'.ran[r].t = Path(l)'[j]
                        /\ \A i \in 1..(j - 1) :
                              s'.list[l][i].at = "tlm" => ~Conflict(Path(l)[i], Path(l)[j])'
      BY DEF TogetherInv
    <2>1. PICK f \in [DOMAIN Path(l)' -> DOMAIN Path(l)] :
            /\ \A h \in DOMAIN Path(l)' : Path(l)'[h] = Path(l)[f[h]] /\ (Waits(l, h)' <=> Waits(l, f[h]))
            /\ \A g, h \in DOMAIN Path(l)' : g < h => f[g] < f[h]
      BY DEF Thins
    <2>2. /\ DOMAIN s'.list[l] = 1..Len(s'.list[l]) /\ Len(s'.list[l]) \in Nat
          /\ DOMAIN s'.list[l] \subseteq DOMAIN Path(l)'
      BY NextPathsAre DEF PathsOK
    <2>3. /\ DOMAIN s.list[l] = 1..Len(s.list[l]) /\ Len(s.list[l]) \in Nat
          /\ DOMAIN Path(l) = 1..(Len(s.list[l]) + Len(Behind(l)))
          /\ DOMAIN s.list[l] \subseteq DOMAIN Path(l) /\ Len(Behind(l)) \in Nat
      BY PathIs
    <2>4. ASSUME NEW h \in DOMAIN s'.list[l], s'.list[l][h].at = "tlm"
          PROVE  h \in DOMAIN Path(l)' /\ f[h] \in DOMAIN s.list[l] /\ s.list[l][f[h]].at = "tlm"
      BY <2>1, <2>2, <2>4 DEF Waits
    <2>5. \E r \in DOMAIN s.ran : s.ran[r].t = Path(l)[f[j]]
      BY <2>4 DEF TogetherInv
    <2>6. ASSUME NEW i \in 1..(j - 1), s'.list[l][i].at = "tlm"
          PROVE  ~Conflict(Path(l)[i], Path(l)[j])'
      <3>1. i \in DOMAIN s'.list[l] /\ i < j
        BY <2>2
      <3>2. /\ i \in DOMAIN Path(l)' /\ f[i] \in DOMAIN s.list[l] /\ s.list[l][f[i]].at = "tlm"
            /\ j \in DOMAIN Path(l)' /\ f[j] \in DOMAIN s.list[l] /\ s.list[l][f[j]].at = "tlm"
        BY <2>4, <2>6, <3>1
      <3>3. f[i] \in 1..(f[j] - 1)
        BY <2>1, <2>3, <3>1, <3>2
      <3>4. ~Conflict(Path(l)[f[i]], Path(l)[f[j]])
        BY <3>2, <3>3 DEF TogetherInv
      <3> QED BY <2>1, <3>2, <3>4, <1>1
    <2> QED BY <2>1, <2>2, <2>5, <2>6
  <1>7. RanInv'
    BY <1>1, <1>2 DEF RanInv
  <1> QED BY <1>3, <1>4, <1>5, <1>6, <1>7

(***************************************************************************)
(* A transaction is issued; one is started.                                *)
(***************************************************************************)
\* A transaction that is issued comes after all others.
LEMMA Grows ==
    ASSUME Shape, NEW t, ~Issued(t), m'.issued = Append(m.issued, t)
    PROVE  /\ \A u : Issued(u)' <=> Issued(u) \/ u = t
           /\ \A u : Issued(u) => Before(u, t)'
           /\ \A u : ~Before(t, u)'
           /\ \A u, v : Issued(v) => (Before(u, v)' <=> Before(u, v))
  <1> DEFINE q == m.issued
             n == Len(m.issued)
  <1>1. n \in Nat /\ DOMAIN q = 1..n /\ DOMAIN m'.issued = 1..(n + 1)
        /\ m'.issued[n + 1] = t /\ \A i \in 1..n : m'.issued[i] = q[i]
    BY SeqLen, SeqAppend DEF Shape
  <1>2. \A i \in 1..n : q[i] # t
    BY <1>1 DEF Issued
  <1>3. \A u : Issued(u) <=> \E i \in 1..n : q[i] = u
    BY <1>1 DEF Issued
  <1>4. \A u : Issued(u)' <=> \E i \in 1..(n + 1) : m'.issued[i] = u
    BY <1>1 DEF Issued
  <1>5. \A u, v : Before(u, v) <=> \E i, j \in 1..n : i < j /\ q[i] = u /\ q[j] = v
    BY <1>1 DEF Before
  <1>6. \A u, v : Before(u, v)' <=> \E i, j \in 1..(n + 1) : i < j /\ m'.issued[i] = u /\ m'.issued[j] = v
    BY <1>1 DEF Before
  <1>7. 1..(n + 1) = 1..n \cup {n + 1} /\ \A i \in 1..n : i < n + 1
    BY <1>1
  <1> HIDE DEF q, n
  <1>8. \A u : Issued(u)' <=> Issued(u) \/ u = t
    BY <1>1, <1>3, <1>4, <1>7
  <1>9. \A u : Issued(u) => Before(u, t)'
    BY <1>1, <1>3, <1>6, <1>7
  <1>10. \A u : ~Before(t, u)'
    <2> SUFFICES ASSUME NEW i \in 1..(n + 1), NEW j \in 1..(n + 1), i < j, m'.issued[i] = t
                 PROVE  FALSE
      BY <1>6
    <2>1. i \in 1..n
      BY <1>1
    <2> QED BY <2>1, <1>1, <1>2
  <1>11. ASSUME NEW u, NEW v, Issued(v)
         PROVE  Before(u, v)' <=> Before(u, v)
    <2>1. v # t
      BY <1>11
    <2>2. ASSUME Before(u, v)'  PROVE Before(u, v)
      <3>1. PICK i, j \in 1..(n + 1) : i < j /\ m'.issued[i] = u /\ m'.issued[j] = v
        BY <2>2, <1>6
      <3>2. j \in 1..n
        BY <3>1, <2>1, <1>1, <1>7
      <3>3. i \in 1..n
        BY <3>1, <3>2, <1>1
      <3> QED BY <3>1, <3>2, <3>3, <1>1, <1>5
    <2>3. ASSUME Before(u, v)  PROVE Before(u, v)'
      BY <2>3, <1>1, <1>5, <1>6, <1>7
    <2> QED BY <2>2, <2>3
  <1> QED BY <1>8, <1>9, <1>10, <1>11

\* A transaction that is issued joins the end of its path.
LEMMA RunIssues ==
    ASSUME Shape, Shape', RunInv, scn' = scn, s' = s, NEW t \in Txns, m.status[t] = "idle", Validate(t),
           m'.issued = Append(m.issued, t), m'.status = [m.status EXCEPT ![t] = "pending"],
           NEW c \in Lists, Carries(c, t), Path(c)' = Append(Path(c), t),
           \A l \in Lists \ {c} : Path(l)' = Path(l)
    PROVE  RunInv'
  <1> USE DEF RunInv
  <1>1. /\ Txns' = Txns
        /\ \A u : /\ KindOf(u)' = KindOf(u) /\ IdOf(u)' = IdOf(u)
                  /\ Validate(u)' <=> Validate(u)
        /\ \A l, u : Carries(l, u)' <=> Carries(l, u)
        /\ \A u, v : Conflict(u, v)' <=> Conflict(u, v)
    BY SameScenario
  <1>2. ~Issued(t)
    BY DEF IssueInv
  <1>3. /\ \A u : Issued(u)' <=> Issued(u) \/ u = t
        /\ \A u : Issued(u) => Before(u, t)'
        /\ \A u : ~Before(t, u)'
        /\ \A u, v : Issued(v) => (Before(u, v)' <=> Before(u, v))
    BY <1>2, Grows
  <1>4. PathsOK /\ PathsOK'
    BY PathsAre, NextPathsAre
  \* The elements of a path.
  <1>5. ASSUME NEW l \in Lists, NEW i \in DOMAIN Path(l)'
        PROVE  \/ i \in DOMAIN Path(l) /\ Path(l)'[i] = Path(l)[i]
               \/ l = c /\ i = Len(Path(l)) + 1 /\ Path(l)'[i] = t
    <2>1. CASE l = c
      <3>1. /\ DOMAIN Path(c)' = 1..(Len(Path(c)) + 1) /\ DOMAIN Path(c) = 1..Len(Path(c)) /\ Len(Path(c)) \in Nat
            /\ Path(c)'[Len(Path(c)) + 1] = t /\ \A h \in DOMAIN Path(c) : Path(c)'[h] = Path(c)[h]
        BY <1>4, SeqLen, SeqAppend DEF PathsOK
      <3> QED BY <2>1, <3>1
    <2>2. CASE l # c
      BY <2>2
    <2> QED BY <2>1, <2>2
  <1>6. ASSUME NEW l \in Lists, NEW i \in DOMAIN Path(l)
        PROVE  i \in DOMAIN Path(l)' /\ Path(l)'[i] = Path(l)[i] /\ Issued(Path(l)[i]) /\ Path(l)[i] # t
    <2>1. CASE l = c
      <3>1. /\ DOMAIN Path(c)' = 1..(Len(Path(c)) + 1) /\ DOMAIN Path(c) = 1..Len(Path(c)) /\ Len(Path(c)) \in Nat
            /\ \A h \in DOMAIN Path(c) : Path(c)'[h] = Path(c)[h]
        BY <1>4, SeqLen, SeqAppend DEF PathsOK
      <3> QED BY <2>1, <3>1, <1>2 DEF IssueInv
    <2>2. CASE l # c
      BY <2>2, <1>2 DEF IssueInv
    <2> QED BY <2>1, <2>2
  <1>7. \A r \in DOMAIN s.ran : Issued(s.ran[r].t) /\ s.ran[r].t # t
    BY <1>2 DEF IssueInv
  <1>8. IssueInv'
    <2>1. ASSUME NEW i \in DOMAIN m'.issued, NEW j \in DOMAIN m'.issued, m'.issued[i] = m'.issued[j]
          PROVE  i = j
      <3>1. /\ DOMAIN m'.issued = 1..(Len(m.issued) + 1) /\ Len(m.issued) \in Nat /\ DOMAIN m.issued = 1..Len(m.issued)
            /\ m'.issued[Len(m.issued) + 1] = t /\ \A h \in DOMAIN m.issued : m'.issued[h] = m.issued[h]
        <4>1. IsSeq(m.issued)
          BY DEF Shape
        <4>2. /\ DOMAIN Append(m.issued, t) = 1..(Len(m.issued) + 1)
              /\ Append(m.issued, t)[Len(m.issued) + 1] = t
              /\ \A h \in DOMAIN m.issued : Append(m.issued, t)[h] = m.issued[h]
          BY <4>1, SeqAppend
        <4> QED BY <4>1, <4>2, SeqLen
      <3>2. \A h \in DOMAIN m.issued : m.issued[h] # t
        BY <1>2 DEF Issued
      <3>3. \A g, h \in DOMAIN m.issued : m.issued[g] = m.issued[h] => g = h
        BY DEF IssueInv
      <3>4. /\ i \in DOMAIN m.issued \/ i = Len(m.issued) + 1
            /\ j \in DOMAIN m.issued \/ j = Len(m.issued) + 1
        BY <3>1
      <3> QED BY <2>1, <3>1, <3>2, <3>3, <3>4
    <2>2. \A u \in Txns' : m'.status[u] = "idle" => ~Issued(u)'
      BY <1>1, <1>3 DEF IssueInv, Shape
    <2>3. \A i \in DOMAIN s'.ran : Issued(s.ran[i].t)'
      BY <1>3, <1>7
    <2>4. ASSUME NEW l \in Lists, NEW i \in DOMAIN Path(l)'
          PROVE  (LET u == Path(l)[i] IN u \in Txns /\ Issued(u) /\ Carries(l, u) /\ Validate(u))'
      <3>1. CASE i \in DOMAIN Path(l) /\ Path(l)'[i] = Path(l)[i]
        BY <3>1, <1>1, <1>3 DEF IssueInv
      <3>2. CASE l = c /\ Path(l)'[i] = t
        BY <3>2, <1>1, <1>3
      <3> QED BY <1>5, <3>1, <3>2
    <2> QED BY <2>1, <2>2, <2>3, <2>4 DEF IssueInv
  <1>9. OrderInv'
    <2> SUFFICES ASSUME NEW l \in Lists, NEW i \in DOMAIN Path(l)', NEW j \in DOMAIN Path(l)', i < j
                 PROVE  Before(Path(l)[i], Path(l)[j])'
      BY DEF OrderInv
    <2>1. i \in Nat /\ j \in Nat /\ DOMAIN Path(l) = 1..Len(Path(l)) /\ Len(Path(l)) \in Nat
      BY <1>4, SeqLen DEF PathsOK
    <2>2. CASE j \in DOMAIN Path(l) /\ Path(l)'[j] = Path(l)[j]
      <3>1. i \in DOMAIN Path(l)
        BY <2>1, <2>2, <1>5
      <3>2. Before(Path(l)[i], Path(l)[j]) /\ Path(l)'[i] = Path(l)[i] /\ Issued(Path(l)[j])
        BY <2>2, <3>1, <1>6 DEF OrderInv
      <3> QED BY <2>2, <3>2, <1>3
    <2>3. CASE l = c /\ j = Len(Path(l)) + 1 /\ Path(l)'[j] = t
      <3>1. i \in DOMAIN Path(l)
        BY <2>1, <2>3, <1>5
      <3>2. Issued(Path(l)[i]) /\ Path(l)'[i] = Path(l)[i]
        BY <3>1, <1>6
      <3> QED BY <2>3, <3>2, <1>3
    <2> QED BY <1>5, <2>2, <2>3
  <1>10. WaitingInv'
    <2> SUFFICES ASSUME NEW l \in Lists, NEW i \in DOMAIN Path(l)', NEW r \in DOMAIN s.ran,
                        Waits(l, i)', Carries(l, s.ran[r].t)', Before(Path(l)[i], s.ran[r].t)'
                 PROVE  ~Conflict(Path(l)[i], s.ran[r].t)'
      BY DEF WaitingInv
    <2>1. CASE i \in DOMAIN Path(l) /\ Path(l)'[i] = Path(l)[i]
      <3>1. Waits(l, i)
        BY DEF Waits
      <3>2. Before(Path(l)[i], s.ran[r].t)
        BY <2>1, <1>3, <1>7
      <3> QED BY <2>1, <3>1, <3>2, <1>1 DEF WaitingInv
    <2>2. CASE Path(l)'[i] = t
      BY <2>2, <1>3
    <2> QED BY <1>5, <2>1, <2>2
  <1>11. TogetherInv'
    <2> SUFFICES ASSUME NEW l \in Lists
                 PROVE  /\ IdsWait(l)'
                        /\ \A j \in DOMAIN s.list[l] :
                              s.list[l][j].at = "tlm" =>
                                 /\ \E r \in DOMAIN s.ran : s.ran[r].t = Path(l)'[j]
                                 /\ \A i \in 1..(j - 1) :
                                       s.list[l][i].at = "tlm" => ~Conflict(Path(l)[i], Path(l)[j])'
      BY DEF TogetherInv
    <2>1. ASSUME NEW j \in DOMAIN s.list[l]
          PROVE  /\ j \in DOMAIN Path(l) /\ Path(l)'[j] = Path(l)[j]
                 /\ \A i \in 1..(j - 1) : i \in DOMAIN Path(l) /\ Path(l)'[i] = Path(l)[i]
      <3>1. DOMAIN s.list[l] = 1..Len(s.list[l]) /\ Len(s.list[l]) \in Nat /\ DOMAIN s.list[l] \subseteq DOMAIN Path(l)
        BY <1>4 DEF PathsOK
      <3>2. \A i \in 1..(j - 1) : i \in DOMAIN s.list[l]
        BY <3>1
      <3> QED BY <3>1, <3>2, <1>6
    <2>2. IdsWait(l)'
      BY <2>1, <1>1 DEF TogetherInv, IdsWait
    <2> QED BY <2>1, <2>2, <1>1 DEF TogetherInv
  <1>12. RanInv'
    BY <1>1, <1>3, <1>7 DEF RanInv
  <1> QED BY <1>8, <1>9, <1>10, <1>11, <1>12

\* The transaction that starts conflicts with none that is before it.
LEMMA RunStarts ==
    ASSUME Shape, Shape', EntryInv, RunInv, scn' = scn, m' = m, NEW c \in Lists, NEW n \in DOMAIN s.list[c],
           s.list[c][n].at = "wait", ~WaitForTransactions(s.list[c], n),
           s'.list[c] = [s.list[c] EXCEPT ![n].at = "tlm"],
           \A l \in Lists \ {c} : s'.list[l] = s.list[l],
           NEW e, s'.ran = Append(s.ran, e), e.t = Path(c)[n],
           \A l \in Lists : Path(l)' = Path(l)
    PROVE  RunInv'
  <1> USE DEF RunInv
  <1>1. /\ Txns' = Txns
        /\ \A u : /\ KindOf(u)' = KindOf(u) /\ IdOf(u)' = IdOf(u)
                  /\ Validate(u)' <=> Validate(u)
        /\ \A l, u : Carries(l, u)' <=> Carries(l, u)
        /\ \A u, v : Conflict(u, v)' <=> Conflict(u, v)
    BY SameScenario
  <1>2. /\ \A u : Issued(u)' <=> Issued(u)
        /\ \A u, v : Before(u, v)' <=> Before(u, v)
    BY SameIssued
  <1>3. PathsOK /\ PathsOK'
    BY PathsAre, NextPathsAre
  <1> DEFINE x == Path(c)[n]
             k1 == Len(s.ran) + 1
  <1>4. /\ IsSeq(s.ran) /\ DOMAIN s.ran = 1..Len(s.ran) /\ Len(s.ran) \in Nat
        /\ DOMAIN s'.ran = 1..k1 /\ s'.ran[k1] = e /\ \A r \in DOMAIN s.ran : s'.ran[r] = s.ran[r]
    <2>1. IsSeq(s.ran)
      BY DEF Shape
    <2>2. /\ DOMAIN Append(s.ran, e) = 1..k1 /\ Append(s.ran, e)[k1] = e
          /\ \A r \in DOMAIN s.ran : Append(s.ran, e)[r] = s.ran[r]
      BY <2>1, SeqAppend
    <2> QED BY <2>1, <2>2, SeqLen
  <1>5. \A r \in DOMAIN s'.ran : \/ r \in DOMAIN s.ran /\ s'.ran[r] = s.ran[r]
                                 \/ r = k1 /\ s'.ran[r].t = x
    BY <1>4
  \* The elements of a list.
  <1>6. /\ \A l \in Lists : DOMAIN s'.list[l] = DOMAIN s.list[l]
        /\ \A l \in Lists : \A i \in DOMAIN s.list[l] : l # c \/ i # n => s'.list[l][i] = s.list[l][i]
        /\ s'.list[c][n].at = "tlm"
    BY DEF EntryInv, IsEntry
  <1>7. \A l \in Lists : \A i \in DOMAIN Path(l) : Waits(l, i)' => Waits(l, i) /\ (l # c \/ i # n)
    BY <1>6 DEF Waits
  <1>8. /\ n \in DOMAIN Path(c) /\ x \in Txns /\ Issued(x) /\ Carries(c, x)
        /\ DOMAIN Path(c) = 1..Len(Path(c)) /\ Len(Path(c)) \in Nat
        /\ DOMAIN s.list[c] = 1..Len(s.list[c]) /\ Len(s.list[c]) \in Nat
        /\ DOMAIN s.list[c] \subseteq DOMAIN Path(c)
    BY <1>3, SeqLen DEF PathsOK, IssueInv
  <1>9. \A i \in 1..(n - 1) : ~Conflict(Path(c)[i], x)
    BY ClearToRun
  <1>10. Waits(c, n)
    BY DEF Waits
  \* Of the other channel nothing is.
  <1>11. \A l \in Lists : Carries(l, x) => l = c
    BY <1>8 DEF Lists, Carries
  <1>12. ~Before(x, x)
    BY BeforeIsOrder
  <1> HIDE DEF x, k1
  <1>13. IssueInv'
    <2>1. \A i \in DOMAIN s'.ran : Issued(s'.ran[i].t)
      BY <1>5, <1>8 DEF IssueInv
    <2>2. \A i \in DOMAIN s'.ran : Issued(s.ran[i].t)'
      BY <2>1, <1>2
    <2> QED BY <2>2, <1>1, <1>2 DEF IssueInv
  <1>14. OrderInv'
    BY <1>2 DEF OrderInv
  <1>15. WaitingInv'
    <2> SUFFICES ASSUME NEW l \in Lists, NEW i \in DOMAIN Path(l), NEW r \in DOMAIN s'.ran,
                        Waits(l, i)', Carries(l, s'.ran[r].t), Before(Path(l)[i], s'.ran[r].t)
                 PROVE  ~Conflict(Path(l)[i], s'.ran[r].t)
      BY <1>1, <1>2 DEF WaitingInv
    <2>1. Waits(l, i) /\ (l # c \/ i # n)
      BY <1>7
    <2>2. CASE r \in DOMAIN s.ran /\ s'.ran[r] = s.ran[r]
      BY <2>1, <2>2 DEF WaitingInv
    <2>3. CASE s'.ran[r].t = x
      <3>1. l = c /\ i # n
        BY <2>1, <2>3, <1>11
      <3>2. CASE i < n
        <4>1. i \in 1..(n - 1)
          BY <3>1, <3>2, <1>8
        <4> QED BY <4>1, <3>1, <2>3, <1>9
      <3>3. CASE ~(i < n)
        <4>1. n < i
          BY <3>1, <3>3, <1>8
        <4>2. Before(x, Path(c)[i])
          BY <3>1, <4>1, <1>8 DEF OrderInv, x
        <4>3. ~Before(Path(c)[i], x)
          BY <4>2, BeforeIsOrder
        <4> QED BY <3>1, <4>3, <2>3
      <3> QED BY <3>2, <3>3
    <2> QED BY <1>5, <2>2, <2>3
  <1>16. TogetherInv'
    <2> SUFFICES ASSUME NEW l \in Lists
                 PROVE  /\ IdsWait(l)'
                        /\ \A j \in DOMAIN s'.list[l] :
                              s'.list[l][j].at = "tlm" =>
                                 /\ \E r \in DOMAIN s'.ran : s'.ran[r].t = Path(l)[j]
                                 /\ \A i \in 1..(j - 1) :
                                       s'.list[l][i].at = "tlm" => ~Conflict(Path(l)[i], Path(l)[j])
      BY <1>1 DEF TogetherInv
    <2>0. DOMAIN s.list[l] = 1..Len(s.list[l]) /\ Len(s.list[l]) \in Nat /\ DOMAIN s.list[l] \subseteq DOMAIN Path(l)
      BY <1>3 DEF PathsOK
    <2>1. IdsWait(l)'
      <3> SUFFICES ASSUME NEW j \in DOMAIN s.list[l], NEW i \in 1..(j - 1), IdOf(Path(l)[i]) = IdOf(Path(l)[j])
                   PROVE  s'.list[l][j].at = "queued"
        BY <1>1, <1>6 DEF IdsWait
      <3>1. s.list[l][j].at = "queued"
        BY DEF TogetherInv, IdsWait
      <3>2. l # c \/ j # n
        BY <3>1
      <3> QED BY <3>1, <3>2, <1>6
    <2>2. ASSUME NEW j \in DOMAIN s'.list[l], s'.list[l][j].at = "tlm"
          PROVE  /\ \E r \in DOMAIN s'.ran : s'.ran[r].t = Path(l)[j]
                 /\ \A i \in 1..(j - 1) :
                       s'.list[l][i].at = "tlm" => ~Conflict(Path(l)[i], Path(l)[j])
      <3>0. j \in DOMAIN s.list[l]
        BY <1>6
      <3>1. CASE l = c /\ j = n
        <4>1. s'.ran[k1].t = x /\ k1 \in DOMAIN s'.ran
          BY <1>4 DEF x, k1
        <4> QED BY <3>1, <4>1, <1>9 DEF x
      <3>2. CASE l # c \/ j # n
        <4>1. s.list[l][j].at = "tlm"
          BY <2>2, <3>0, <3>2, <1>6
        <4>2. PICK r \in DOMAIN s.ran : s.ran[r].t = Path(l)[j]
          BY <3>0, <4>1 DEF TogetherInv
        <4>3. r \in DOMAIN s'.ran /\ s'.ran[r].t = Path(l)[j]
          BY <4>2, <1>4 DEF k1
        <4>4. ASSUME NEW i \in 1..(j - 1), s'.list[l][i].at = "tlm"
              PROVE  ~Conflict(Path(l)[i], Path(l)[j])
          <5>1. i \in DOMAIN s.list[l] /\ i < j
            BY <2>0, <3>0
          <5>2. CASE l = c /\ i = n
            <6>1. Before(x, Path(c)[j])
              BY <5>1, <5>2, <2>0, <3>0 DEF OrderInv, x
            <6>2. Carries(c, Path(c)[j])
              BY <2>0, <3>0, <5>2 DEF IssueInv
            <6> QED BY <4>2, <5>2, <6>1, <6>2, <1>8, <1>10 DEF WaitingInv, x
          <5>3. CASE l # c \/ i # n
            <6>1. s.list[l][i].at = "tlm"
              BY <4>4, <5>1, <5>3, <1>6
            <6> QED BY <3>0, <4>1, <6>1 DEF TogetherInv
          <5> QED BY <5>2, <5>3
        <4> QED BY <4>3, <4>4
      <3> QED BY <3>1, <3>2
    <2> QED BY <2>1, <2>2
  <1>17. RanInv'
    <2> SUFFICES ASSUME NEW i \in DOMAIN s'.ran, NEW j \in DOMAIN s'.ran,
                        IsReadKind(KindOf(s'.ran[i].t)) <=> IsReadKind(KindOf(s'.ran[j].t)),
                        Before(s'.ran[i].t, s'.ran[j].t), Conflict(s'.ran[i].t, s'.ran[j].t)
                 PROVE  i < j
      BY <1>1, <1>2 DEF RanInv
    <2>0. i \in 1..k1 /\ j \in 1..k1 /\ k1 \in Nat
      BY <1>4 DEF k1
    <2>1. CASE i \in DOMAIN s.ran /\ s'.ran[i] = s.ran[i] /\ j \in DOMAIN s.ran /\ s'.ran[j] = s.ran[j]
      BY <2>1 DEF RanInv
    <2>2. CASE i \in DOMAIN s.ran /\ j = k1
      BY <2>2, <1>4 DEF k1
    <2>3. CASE s'.ran[i].t = x /\ j \in DOMAIN s.ran /\ s'.ran[j] = s.ran[j]
      <3>1. Carries(c, s.ran[j].t)
        BY <2>3, <1>8 DEF Carries
      <3> QED BY <2>3, <3>1, <1>8, <1>10 DEF WaitingInv, x
    <2>4. CASE s'.ran[i].t = x /\ s'.ran[j].t = x
      BY <2>4, <1>12
    <2> QED BY <1>5, <2>1, <2>2, <2>3, <2>4
  <1> QED BY <1>13, <1>14, <1>15, <1>16, <1>17

(***************************************************************************)
(* Transactions join a list.                                               *)
(***************************************************************************)
\* The thread of an entry changes its place only.
LEMMA EntryAt ==
    ASSUME NEW e, IsEntry(e), NEW v \in {"queued", "wait", "tlm"}
    PROVE  /\ IsEntry([e EXCEPT !.at = v]) /\ [e EXCEPT !.at = v].x = e.x /\ [e EXCEPT !.at = v].at = v
           /\ [e EXCEPT !.at = v].abort = e.abort /\ [e EXCEPT !.at = v].beat = e.beat
  BY DEF IsEntry

\* Whether the i-th one gets a thread.
ThreadAt(q, i) == IF InList(SubSeq(q, 1, i - 1), q[i].x.id) THEN "queued" ELSE "wait"

\* What handle_no_data_tx and the address phases make of a list: it keeps its
\* entries, those that join wait behind them.
LEMMA JoinedIs ==
    ASSUME NEW q, NEW new, IsSeq(q), IsSeq(new), \A i \in DOMAIN new : IsEntry(new[i])
    PROVE  /\ IsSeq(Joined(q, new)) /\ Len(Joined(q, new)) = Len(q) + Len(new)
           /\ \A i \in 1..Len(q) : Joined(q, new)[i] = q[i]
           /\ \A i \in 1..Len(new) :
                 /\ IsEntry(Joined(q, new)[Len(q) + i])
                 /\ Joined(q, new)[Len(q) + i].x = new[i].x
                 /\ Joined(q, new)[Len(q) + i].abort = new[i].abort
                 /\ Joined(q, new)[Len(q) + i].at \in {"queued", "wait"}
                 /\ \A h \in 1..(Len(q) + i - 1) :
                       Joined(q, new)[h].x.id = new[i].x.id => Joined(q, new)[Len(q) + i].at = "queued"
  <1> DEFINE all == q \o new
             n == Len(q)
             J == Joined(q, new)
  <1>1. n \in Nat /\ Len(new) \in Nat /\ DOMAIN q = 1..n /\ DOMAIN new = 1..Len(new)
    BY SeqLen
  <1>2. IsSeq(all) /\ Len(all) = n + Len(new)
    BY SeqConcat
  <1>3. DOMAIN all = 1..(n + Len(new))
    BY SeqConcat
  <1>4. \A i \in 1..n : all[i] = q[i]
    BY SeqConcat
  <1>5. \A i \in 1..Len(new) : all[n + i] = new[i]
    BY SeqConcat
  <1>6. J = [i \in DOMAIN all |-> IF i \in DOMAIN q THEN q[i] ELSE [all[i] EXCEPT !.at = ThreadAt(all, i)]]
    BY DEF Joined, ThreadAt
  <1> HIDE DEF all, n, J
  <1>7. DOMAIN J = 1..(n + Len(new)) /\ J = [i \in 1..(n + Len(new)) |-> J[i]]
    BY <1>3, <1>6
  <1>8. IsSeq(J) /\ Len(J) = n + Len(new)
    BY <1>1, <1>7, SeqMade
  <1>9. \A i \in 1..n : J[i] = q[i]
    BY <1>1, <1>3, <1>6
  <1>10. ASSUME NEW i \in 1..Len(new)
         PROVE  /\ n + i \in DOMAIN all /\ n + i \notin DOMAIN q
                /\ J[n + i] = [new[i] EXCEPT !.at = ThreadAt(all, n + i)]
                /\ ThreadAt(all, n + i) \in {"queued", "wait"}
    <2>1. n + i \in DOMAIN all /\ n + i \notin DOMAIN q
      BY <1>1, <1>3
    <2>2. J[n + i] = [all[n + i] EXCEPT !.at = ThreadAt(all, n + i)]
      BY <2>1, <1>6
    <2> QED BY <2>1, <2>2, <1>5 DEF ThreadAt
  <1>11. ASSUME NEW i \in 1..Len(new)
         PROVE  /\ IsEntry(J[n + i]) /\ J[n + i].x = new[i].x /\ J[n + i].abort = new[i].abort
                /\ J[n + i].at = ThreadAt(all, n + i)
    <2> DEFINE v == ThreadAt(all, n + i)
               e == new[i]
    <2>1. IsEntry(e) /\ v \in {"queued", "wait", "tlm"} /\ J[n + i] = [e EXCEPT !.at = v]
      BY <1>10, <1>1
    <2> HIDE DEF v, e
    <2>2. IsEntry(J[n + i]) /\ J[n + i].x = e.x /\ J[n + i].abort = e.abort /\ J[n + i].at = v
      <3>1. /\ IsEntry([e EXCEPT !.at = v]) /\ [e EXCEPT !.at = v].x = e.x /\ [e EXCEPT !.at = v].at = v
            /\ [e EXCEPT !.at = v].abort = e.abort
        BY <2>1, EntryAt
      <3> QED BY <2>1, <3>1
    <2> QED BY <2>2 DEF v, e
  <1>12. \A h \in DOMAIN all : J[h].x = all[h].x
    <2> SUFFICES ASSUME NEW h \in DOMAIN all  PROVE J[h].x = all[h].x
      OBVIOUS
    <2>1. CASE h <= n
      BY <2>1, <1>1, <1>3, <1>4, <1>9
    <2>2. CASE ~(h <= n)
      <3>1. h - n \in 1..Len(new) /\ n + (h - n) = h
        BY <2>2, <1>1, <1>3
      <3> QED BY <3>1, <1>5, <1>11
    <2> QED BY <2>1, <2>2
  <1>13. ASSUME NEW i \in 1..Len(new), NEW h \in 1..(n + i - 1), J[h].x.id = new[i].x.id
         PROVE  J[n + i].at = "queued"
    <2> DEFINE z == n + i
               f == SubSeq(all, 1, z - 1)
    <2>1. z \in Nat /\ 1 <= z /\ z <= Len(all) /\ z \in DOMAIN all /\ h \in 1..(z - 1)
      BY <1>1, <1>2, <1>3
    <2> HIDE DEF z
    <2>2. 1 \in 1..(Len(all) + 1) /\ z - 1 \in 0..Len(all) /\ 1 <= (z - 1) + 1 /\ (z - 1) + 1 - 1 = z - 1
      BY <1>1, <1>2, <2>1
    <2>21. IsSeq(f) /\ Len(f) = (z - 1) + 1 - 1 /\ \A g \in 1..((z - 1) + 1 - 1) : f[g] = all[1 + g - 1]
      BY <1>2, <2>2, SeqSub
    <2>3. h \in DOMAIN f /\ h \in DOMAIN all /\ f[h] = all[h]
      <3>1. DOMAIN f = 1..(z - 1)
        BY <2>2, <2>21, SeqLen
      <3>2. h \in Nat /\ 1 + h - 1 = h
        BY <1>1, <2>1
      <3> QED BY <3>1, <3>2, <2>1, <2>2, <2>21, <1>1, <1>2, <1>3
    <2>4. InList(f, all[n + i].x.id)
      BY <2>3, <1>5, <1>12, <1>13 DEF InList
    <2>5. ThreadAt(all, z) = IF InList(f, all[z].x.id) THEN "queued" ELSE "wait"
      BY DEF ThreadAt
    <2> QED BY <2>4, <2>5, <1>11 DEF z
  <1> QED BY <1>8, <1>9, <1>10, <1>11, <1>13 DEF n, J

\* Concatenation is associative.
LEMMA SeqAssoc ==
    ASSUME NEW p, NEW q, NEW r, IsSeq(p), IsSeq(q), IsSeq(r)
    PROVE  (p \o q) \o r = p \o (q \o r)
  <1> DEFINE S == {p[i] : i \in DOMAIN p} \cup {q[i] : i \in DOMAIN q} \cup {r[i] : i \in DOMAIN r}
  <1>1. p \in Seq(S) /\ q \in Seq(S) /\ r \in Seq(S)
    BY DEF IsSeq
  <1> HIDE DEF S
  <1> QED BY <1>1

\* The transactions of a concatenation.
LEMMA TxnsOfConcat ==
    ASSUME NEW p, NEW q, IsSeq(p), IsSeq(q)
    PROVE  TxnsOf(p \o q) = TxnsOf(p) \o TxnsOf(q)
  <1> DEFINE a == TxnsOf(p)
             b == TxnsOf(q)
             c == TxnsOf(p \o q)
  <1>1. Len(p) \in Nat /\ Len(q) \in Nat /\ IsSeq(p \o q) /\ Len(p \o q) = Len(p) + Len(q)
    BY SeqLen, SeqConcat
  <1>2. /\ IsSeq(a) /\ Len(a) = Len(p) /\ \A i \in 1..Len(p) : a[i] = p[i].x.t
        /\ IsSeq(b) /\ Len(b) = Len(q) /\ \A i \in 1..Len(q) : b[i] = q[i].x.t
    BY TxnsOfIs
  <1>3. IsSeq(c) /\ Len(c) = Len(p) + Len(q) /\ \A i \in 1..(Len(p) + Len(q)) : c[i] = (p \o q)[i].x.t
    BY <1>1, TxnsOfIs
  <1>4. /\ \A i \in 1..Len(p) : (p \o q)[i] = p[i]
        /\ \A i \in (Len(p) + 1)..(Len(p) + Len(q)) : (p \o q)[i] = q[i - Len(p)]
    BY SeqConcat
  <1> HIDE DEF a, b, c
  <1>5. /\ IsSeq(a \o b) /\ Len(a \o b) = Len(a) + Len(b)
        /\ \A i \in 1..Len(a) : (a \o b)[i] = a[i]
        /\ \A i \in (Len(a) + 1)..(Len(a) + Len(b)) : (a \o b)[i] = b[i - Len(a)]
    <2>1. IsSeq(a \o b)
      BY <1>2, SeqConcat
    <2>2. Len(a \o b) = Len(a) + Len(b)
      BY <1>2, SeqConcat
    <2>3. \A i \in 1..Len(a) : (a \o b)[i] = a[i]
      BY <1>2, SeqConcat
    <2>4. \A i \in (Len(a) + 1)..(Len(a) + Len(b)) : (a \o b)[i] = b[i - Len(a)]
      BY <1>2, SeqConcat
    <2> QED BY <2>1, <2>2, <2>3, <2>4
  <1>6. ASSUME NEW i \in 1..Len(c)  PROVE c[i] = (a \o b)[i]
    <2>1. CASE i <= Len(p)
      BY <2>1, <1>1, <1>2, <1>3, <1>4, <1>5
    <2>2. CASE ~(i <= Len(p))
      <3>1. i \in (Len(p) + 1)..(Len(p) + Len(q)) /\ i - Len(p) \in 1..Len(q) /\ i \in 1..(Len(p) + Len(q))
        BY <2>2, <1>1, <1>3
      <3> QED BY <3>1, <1>2, <1>3, <1>4, <1>5
    <2> QED BY <2>1, <2>2
  <1>7. c = a \o b
    <2> DEFINE g == a \o b
    <2>1. IsSeq(c) /\ IsSeq(g) /\ Len(c) = Len(g) /\ \A i \in 1..Len(c) : c[i] = g[i]
      BY <1>1, <1>2, <1>3, <1>5, <1>6
    <2> HIDE DEF g
    <2>2. c = g
      BY <2>1, SeqSame
    <2> QED BY <2>2 DEF g
  <1> QED BY <1>7 DEF a, b, c

\* Joining keeps the transactions and their order.
LEMMA TxnsOfJoined ==
    ASSUME NEW q, NEW new, IsSeq(q), IsSeq(new), \A i \in DOMAIN new : IsEntry(new[i])
    PROVE  TxnsOf(Joined(q, new)) = TxnsOf(q) \o TxnsOf(new)
  <1> DEFINE J == Joined(q, new)
             all == q \o new
  <1>1. /\ IsSeq(J) /\ Len(J) = Len(q) + Len(new) /\ \A i \in 1..Len(q) : J[i] = q[i]
        /\ \A i \in 1..Len(new) : J[Len(q) + i].x = new[i].x
    BY JoinedIs
  <1>2. /\ IsSeq(all) /\ Len(all) = Len(q) + Len(new) /\ \A i \in 1..Len(q) : all[i] = q[i]
        /\ \A i \in 1..Len(new) : all[Len(q) + i] = new[i]
    BY SeqConcat
  <1>3. Len(q) \in Nat /\ Len(new) \in Nat
    BY SeqLen
  <1>4. TxnsOf(all) = TxnsOf(q) \o TxnsOf(new)
    BY TxnsOfConcat
  <1> HIDE DEF J, all
  <1>5. /\ IsSeq(TxnsOf(J)) /\ Len(TxnsOf(J)) = Len(J) /\ \A i \in 1..Len(J) : TxnsOf(J)[i] = J[i].x.t
        /\ IsSeq(TxnsOf(all)) /\ Len(TxnsOf(all)) = Len(all) /\ \A i \in 1..Len(all) : TxnsOf(all)[i] = all[i].x.t
    BY <1>1, <1>2, TxnsOfIs
  <1>6. ASSUME NEW i \in 1..Len(TxnsOf(J))  PROVE TxnsOf(J)[i] = TxnsOf(all)[i]
    <2>1. CASE i <= Len(q)
      BY <2>1, <1>1, <1>2, <1>3, <1>5
    <2>2. CASE ~(i <= Len(q))
      <3>1. i - Len(q) \in 1..Len(new) /\ Len(q) + (i - Len(q)) = i
        BY <2>2, <1>1, <1>3, <1>5
      <3>2. J[i].x = all[i].x
        BY <3>1, <1>1, <1>2
      <3> QED BY <3>2, <1>1, <1>2, <1>5
    <2> QED BY <2>1, <2>2
  <1>7. TxnsOf(J) = TxnsOf(all)
    BY <1>1, <1>2, <1>5, <1>6, SeqSame
  <1> QED BY <1>4, <1>7 DEF J

\* The transactions that join a list come off the front of what is behind it.
LEMMA PathJoins ==
    ASSUME Shape, Shape', NEW l \in Lists, NEW new, IsSeq(new), \A i \in DOMAIN new : IsEntry(new[i]),
           s'.list[l] = Joined(s.list[l], new), Behind(l) = TxnsOf(new) \o Behind(l)'
    PROVE  Path(l)' = Path(l)
  <1> DEFINE a == TxnsOf(s.list[l])
             b == TxnsOf(new)
             d == Behind(l)'
  <1>1. IsSeq(s.list[l])
    BY DEF Shape
  <1>2. IsSeq(a) /\ IsSeq(b)
    BY <1>1, TxnsOfIs
  <1>3. Shape => IsSeq(Behind(l))
    BY BehindIs
  <1>4. IsSeq(d)
    BY NextBehindAre DEF BehindOK
  <1>5. TxnsOf(s'.list[l]) = a \o b
    BY <1>1, TxnsOfJoined
  <1>6. Path(l)' = (a \o b) \o d
    BY <1>5 DEF Path, TxnsOf
  <1>7. Path(l) = a \o (b \o d)
    BY DEF Path
  <1> HIDE DEF a, b, d
  <1> QED BY <1>2, <1>4, <1>6, <1>7, SeqAssoc

\* What an entry is does not change.
LEMMA SameEntry ==
    ASSUME scn' = scn
    PROVE  \A e : IsEntry(e)' <=> IsEntry(e)
  BY SameScenario DEF IsEntry

\* The IDs along a list.
LEMMA EntryID ==
    ASSUME Shape, EntryInv, NEW l \in Lists, NEW i \in DOMAIN s.list[l]
    PROVE  s.list[l][i].x.id = IdOf(Path(l)[i])
  <1>1. Path(l)[i] = s.list[l][i].x.t /\ s.list[l][i].x = AxChannel(s.list[l][i].x.t)
    BY PathIs DEF EntryInv, IsEntry
  <1>2. AxChannel(s.list[l][i].x.t).id = IdOf(s.list[l][i].x.t)
    BY DEF AxChannel, IdOf
  <1> QED BY <1>1, <1>2

\* A list that is left alone.
LEMMA ListStays ==
    ASSUME Shape, Shape', scn' = scn, NEW l \in Lists, IdsWait(l), s'.list[l] = s.list[l], Path(l)' = Path(l)
    PROVE  Thins(l) /\ IdsWait(l)'
  <1>1. \A i : Waits(l, i)' <=> Waits(l, i)
    BY DEF Waits
  <1>2. \A t : IdOf(t)' = IdOf(t)
    BY SameScenario
  <1>3. IdsWait(l)'
    BY <1>2 DEF IdsWait
  <1>4. Thins(l)
    <2> DEFINE f == [i \in DOMAIN Path(l)' |-> i]
    <2>1. f \in [DOMAIN Path(l)' -> DOMAIN Path(l)]
      OBVIOUS
    <2>2. \A j \in DOMAIN Path(l)' : Path(l)'[j] = Path(l)[f[j]] /\ (Waits(l, j)' <=> Waits(l, f[j]))
      BY <1>1
    <2>3. \A i, j \in DOMAIN Path(l)' : i < j => f[i] < f[j]
      OBVIOUS
    <2> HIDE DEF f
    <2> QED BY <2>1, <2>2, <2>3 DEF Thins
  <1> QED BY <1>3, <1>4

\* Transactions join a list.
LEMMA ListJoins ==
    ASSUME Shape, Shape', EntryInv, scn' = scn, NEW l \in Lists, IdsWait(l),
           NEW new, IsSeq(new), \A i \in DOMAIN new : IsEntry(new[i]),
           s'.list[l] = Joined(s.list[l], new), Behind(l) = TxnsOf(new) \o Behind(l)'
    PROVE  Thins(l) /\ IdsWait(l)' /\ \A i \in DOMAIN s'.list[l] : IsEntry(s.list[l][i])'
  <1> DEFINE q == s.list[l]
             J == Joined(q, new)
             n == Len(q)
  <1>1. Path(l)' = Path(l)
    BY PathJoins
  <1>2. IsSeq(q) /\ n \in Nat /\ DOMAIN q = 1..n /\ Len(new) \in Nat
    BY SeqLen DEF Shape
  <1>3. /\ IsSeq(J) /\ Len(J) = n + Len(new) /\ \A i \in 1..n : J[i] = q[i]
        /\ \A i \in 1..Len(new) :
              /\ IsEntry(J[n + i]) /\ J[n + i].x = new[i].x /\ J[n + i].at \in {"queued", "wait"}
              /\ \A h \in 1..(n + i - 1) : J[h].x.id = new[i].x.id => J[n + i].at = "queued"
    <2>1. IsSeq(J) /\ Len(J) = n + Len(new) /\ \A i \in 1..n : J[i] = q[i]
      BY <1>2, JoinedIs
    <2>2. ASSUME NEW i \in 1..Len(new)
          PROVE  IsEntry(J[n + i]) /\ J[n + i].x = new[i].x /\ J[n + i].at \in {"queued", "wait"}
      <3>1. IsEntry(J[n + i])
        BY <1>2, JoinedIs
      <3>2. J[n + i].x = new[i].x
        BY <1>2, JoinedIs, SMTT(60)
      <3>3. J[n + i].at \in {"queued", "wait"}
        BY <1>2, JoinedIs
      <3> QED BY <3>1, <3>2, <3>3
    <2>3. \A i \in 1..Len(new) :
              \A h \in 1..(n + i - 1) : J[h].x.id = new[i].x.id => J[n + i].at = "queued"
      BY <1>2, JoinedIs
    <2> QED BY <2>1, <2>2, <2>3
  <1>4. DOMAIN J = 1..(n + Len(new)) /\ s'.list[l] = J
    BY <1>3, SeqLen
  <1>5. \A i \in 1..n : IsEntry(q[i])
    BY <1>2 DEF EntryInv
  <1> HIDE DEF J, q, n
  <1>6. \A i \in DOMAIN J : i \in 1..n \/ \E g \in 1..Len(new) : i = n + g
    <2> SUFFICES ASSUME NEW i \in DOMAIN J, i \notin 1..n  PROVE \E g \in 1..Len(new) : i = n + g
      OBVIOUS
    <2>1. i - n \in 1..Len(new) /\ i = n + (i - n)
      BY <1>2, <1>4
    <2> QED BY <2>1
  <1>7. \A i \in DOMAIN J : IsEntry(J[i])
    BY <1>3, <1>5, <1>6
  <1>8. \A i \in DOMAIN J : J[i].x.id = IdOf(Path(l)[i])
    <2>1. \A i \in DOMAIN J : Path(l)[i] = J[i].x.t
      BY <1>1, <1>4, NextPathsAre DEF PathsOK
    <2>2. \A i \in DOMAIN J : J[i].x = AxChannel(J[i].x.t)
      BY <1>7 DEF IsEntry
    <2>3. \A t : AxChannel(t).id = IdOf(t)
      BY DEF AxChannel, IdOf
    <2> QED BY <2>1, <2>2, <2>3
  <1>9. \A t : IdOf(t)' = IdOf(t)
    BY SameScenario
  <1>10. IdsWait(l)'
    <2> SUFFICES ASSUME NEW j \in DOMAIN J, NEW i \in 1..(j - 1), IdOf(Path(l)[i]) = IdOf(Path(l)[j])
                 PROVE  J[j].at = "queued"
      BY <1>1, <1>4, <1>9 DEF IdsWait
    <2>1. i \in DOMAIN J
      BY <1>2, <1>4
    <2>2. CASE j \in 1..n
      <3>1. j \in DOMAIN q /\ J[j] = q[j]
        BY <2>2, <1>2, <1>3
      <3> QED BY <3>1 DEF IdsWait, q
    <2>3. ASSUME NEW g \in 1..Len(new), j = n + g  PROVE J[j].at = "queued"
      <3>1. J[i].x.id = J[j].x.id
        BY <1>8, <2>1
      <3>2. J[j].x = new[g].x /\ i \in 1..(n + g - 1)
        BY <1>2, <1>3, <2>3
      <3> QED BY <3>1, <3>2, <1>3, <2>3
    <2> QED BY <1>6, <2>2, <2>3
  <1>11. \A i \in DOMAIN Path(l) : Waits(l, i)' <=> Waits(l, i)
    <2> SUFFICES ASSUME NEW i \in DOMAIN Path(l)  PROVE Waits(l, i)' <=> Waits(l, i)
      OBVIOUS
    <2>1. CASE i \in DOMAIN q
      <3>1. i \in DOMAIN J /\ J[i] = q[i]
        BY <2>1, <1>2, <1>3, <1>4
      <3> QED BY <2>1, <3>1, <1>4 DEF Waits, q
    <2>2. CASE i \notin DOMAIN q
      <3>1. i \in DOMAIN J => J[i].at # "tlm"
        BY <2>2, <1>2, <1>3, <1>6
      <3> QED BY <2>2, <3>1, <1>4 DEF Waits, q
    <2> QED BY <2>1, <2>2
  <1>12. Thins(l)
    <2> DEFINE f == [i \in DOMAIN Path(l)' |-> i]
    <2>1. f \in [DOMAIN Path(l)' -> DOMAIN Path(l)]
      BY <1>1
    <2>2. \A j \in DOMAIN Path(l)' : Path(l)'[j] = Path(l)[f[j]] /\ (Waits(l, j)' <=> Waits(l, f[j]))
      BY <1>1, <1>11
    <2>3. \A i, j \in DOMAIN Path(l)' : i < j => f[i] < f[j]
      OBVIOUS
    <2> HIDE DEF f
    <2> QED BY <2>1, <2>2, <2>3 DEF Thins
  <1>13. \A i \in DOMAIN s'.list[l] : IsEntry(s.list[l][i])'
    BY <1>4, <1>7, SameEntry
  <1> QED BY <1>10, <1>12, <1>13

(***************************************************************************)
(* Transactions leave a list.                                              *)
(***************************************************************************)
\* GetFirstWithID wakes at most one entry, the first of its ID.
LEMMA NextIs ==
    ASSUME NEW q, NEW id, IsSeq(q), \A i \in DOMAIN q : IsEntry(q[i])
    PROVE  LET N == NextWithID(q, id) IN
           /\ IsSeq(N) /\ Len(N) = Len(q)
           /\ \A i \in DOMAIN q :
                 /\ IsEntry(N[i]) /\ N[i].x = q[i].x /\ N[i].abort = q[i].abort
                 /\ \/ N[i].at = q[i].at
                    \/ N[i].at = "wait" /\ q[i].x.id = id /\ \A j \in 1..(i - 1) : q[j].x.id # id
  <1> DEFINE I == {i \in 1..Len(q) : q[i].x.id = id}
             n == IF I # {} THEN Least(I) ELSE 0
             N == NextWithID(q, id)
  <1>1. Len(q) \in Nat /\ DOMAIN q = 1..Len(q)
    BY SeqLen
  <1>2. N = IF n = 0 THEN q ELSE [q EXCEPT ![n].at = "wait"]
    BY DEF NextWithID, SelectInSeq, Least
  <1>3. CASE n = 0
    BY <1>2, <1>3
  <1>4. CASE n # 0
    <2>1. I # {} /\ I \in SUBSET Nat /\ n = Least(I)
      BY <1>1, <1>4
    <2>2. n \in I /\ \A i \in I : n <= i
      <3> HIDE DEF I, n
      <3> QED BY <2>1, LeastIs
    <2> HIDE DEF n, N
    <2>3. n \in DOMAIN q /\ q[n].x.id = id
      BY <2>2, <1>1
    <2>4. \A j \in 1..(n - 1) : q[j].x.id # id
      BY <2>2, <2>3, <1>1
    <2> HIDE DEF I
    <2>5. /\ IsEntry([q[n] EXCEPT !.at = "wait"]) /\ [q[n] EXCEPT !.at = "wait"].x = q[n].x
          /\ [q[n] EXCEPT !.at = "wait"].at = "wait" /\ [q[n] EXCEPT !.at = "wait"].abort = q[n].abort
      BY <2>3, EntryAt
    <2> DEFINE e == [q[n] EXCEPT !.at = "wait"]
    <2>6. N = [q EXCEPT ![n] = e]
      BY <1>2, <1>4
    <2> HIDE DEF e
    <2>7. IsSeq(N) /\ Len(N) = Len(q) /\ \A i \in DOMAIN q : N[i] = IF i = n THEN e ELSE q[i]
      BY <2>3, <2>6, SeqExcept
    <2>8. IsEntry(e) /\ e.x = q[n].x /\ e.at = "wait" /\ e.abort = q[n].abort
      BY <2>5 DEF e
    <2> QED BY <2>3, <2>4, <2>7, <2>8 DEF N
  <1> QED BY <1>3, <1>4

\* A list of which some entries are left, in their order, with what was behind
\* it or nothing.
LEMMA ListThins ==
    ASSUME Shape, Shape', EntryInv, scn' = scn, NEW l \in Lists, IdsWait(l),
           NEW g \in [DOMAIN s'.list[l] -> DOMAIN s.list[l]],
           \A i, j \in DOMAIN s'.list[l] : i < j => g[i] < g[j],
           \A i \in DOMAIN s'.list[l] :
              /\ s'.list[l][i].x = s.list[l][g[i]].x
              /\ \/ s'.list[l][i].at = s.list[l][g[i]].at
                 \/ /\ s'.list[l][i].at = "wait" /\ s.list[l][g[i]].at # "tlm"
                    /\ \A j \in 1..(i - 1) : s'.list[l][j].x.id # s'.list[l][i].x.id,
           Behind(l)' \in {Behind(l), <<>>}
    PROVE  Thins(l) /\ IdsWait(l)'
  <1> DEFINE q == s.list[l]
             r == s'.list[l]
             n == Len(q)
             k1 == Len(r)
             b == Len(Behind(l))
             b1 == Len(Behind(l)')
  <1>1. /\ n \in Nat /\ b \in Nat /\ DOMAIN q = 1..n /\ DOMAIN Path(l) = 1..(n + b)
        /\ \A i \in 1..n : Path(l)[i] = q[i].x.t
        /\ \A i \in 1..b : Path(l)[n + i] = Behind(l)[i]
    BY PathsAre DEF PathsOK
  <1>2. /\ k1 \in Nat /\ b1 \in Nat /\ DOMAIN r = 1..k1 /\ DOMAIN Path(l)' = 1..(k1 + b1)
        /\ \A i \in 1..k1 : Path(l)'[i] = r[i].x.t
        /\ \A i \in 1..b1 : Path(l)'[k1 + i] = Behind(l)'[i]
    BY NextPathsAre DEF PathsOK
  <1>3. \A i \in 1..b1 : i \in 1..b /\ Behind(l)'[i] = Behind(l)[i]
    <2>1. CASE Behind(l)' = Behind(l)
      BY <2>1
    <2>2. CASE Behind(l)' = <<>>
      BY <2>2, SeqEmpty
    <2> QED BY <2>1, <2>2
  <1>4. \A i \in 1..n : q[i].x.id = IdOf(Path(l)[i])
    BY <1>1, EntryID
  <1>5. \A i \in 1..k1 : g[i] \in 1..n /\ r[i].x = q[g[i]].x /\ Path(l)'[i] = Path(l)[g[i]]
    <2> SUFFICES ASSUME NEW i \in 1..k1
                 PROVE  g[i] \in 1..n /\ r[i].x = q[g[i]].x /\ Path(l)'[i] = Path(l)[g[i]]
      OBVIOUS
    <2>1. g \in [1..k1 -> 1..n]
      BY <1>1, <1>2
    <2>2. g[i] \in 1..n
      BY <2>1
    <2>3. r[i].x = q[g[i]].x
      BY <1>2
    <2>4. Path(l)'[i] = r[i].x.t /\ Path(l)[g[i]] = q[g[i]].x.t
      BY <2>2, <1>1, <1>2
    <2> QED BY <2>2, <2>3, <2>4
  <1>6. \A t : IdOf(t)' = IdOf(t)
    BY SameScenario
  <1>7. \A i \in 1..k1 : IdOf(Path(l)'[i]) = r[i].x.id
    BY <1>4, <1>5
  <1>8. \A i \in 1..k1 :
           \/ r[i].at = q[g[i]].at
           \/ /\ r[i].at = "wait" /\ q[g[i]].at # "tlm"
              /\ \A j \in 1..(i - 1) : r[j].x.id # r[i].x.id
    BY <1>2
  <1>9. \A i, j \in 1..k1 : i < j => g[i] < g[j]
    BY <1>2
  <1>10. \A j \in 1..n : \A i \in 1..(j - 1) : IdOf(Path(l)[i]) = IdOf(Path(l)[j]) => q[j].at = "queued"
    BY <1>1 DEF IdsWait
  <1>11. IdsWait(l)'
    <2> SUFFICES ASSUME NEW j \in 1..k1, NEW i \in 1..(j - 1), IdOf(Path(l)'[i]) = IdOf(Path(l)'[j])
                 PROVE  r[j].at = "queued"
      BY <1>2, <1>6 DEF IdsWait
    <2>1. i \in 1..k1 /\ i < j
      BY <1>2
    <2>2. r[i].x.id = r[j].x.id
      BY <2>1, <1>7
    <2>3. r[j].at = q[g[j]].at
      BY <2>2, <1>8
    <2>4. g[i] < g[j] /\ g[j] \in 1..n /\ g[i] \in 1..n
      BY <2>1, <1>5, <1>9
    <2>5. g[i] \in 1..(g[j] - 1)
      BY <2>4
    <2>6. IdOf(Path(l)[g[i]]) = IdOf(Path(l)[g[j]])
      BY <2>1, <1>5
    <2> QED BY <2>3, <2>4, <2>5, <2>6, <1>10
  <1>12. Thins(l)
    <2> DEFINE f == [i \in DOMAIN Path(l)' |-> IF i <= k1 THEN g[i] ELSE n + (i - k1)]
    <2> HIDE DEF q, r, n, k1, b, b1
    <2>1. ASSUME NEW i \in 1..(k1 + b1), ~(i <= k1)
          PROVE  /\ i - k1 \in 1..b1 /\ i - k1 \in 1..b /\ k1 + (i - k1) = i
                 /\ n + (i - k1) \in DOMAIN Path(l) /\ n < n + (i - k1)
                 /\ Path(l)'[i] = Path(l)[n + (i - k1)]
      <3>1. i - k1 \in 1..b1 /\ k1 + (i - k1) = i
        BY <2>1, <1>2
      <3>2. i - k1 \in 1..b /\ Behind(l)'[i - k1] = Behind(l)[i - k1]
        BY <3>1, <1>3
      <3>3. Path(l)'[k1 + (i - k1)] = Behind(l)'[i - k1] /\ Path(l)[n + (i - k1)] = Behind(l)[i - k1]
        BY <3>1, <3>2, <1>1, <1>2
      <3>4. n + (i - k1) \in DOMAIN Path(l) /\ n < n + (i - k1)
        BY <3>2, <1>1
      <3> QED BY <3>1, <3>2, <3>3, <3>4
    <2>2. \A i \in DOMAIN Path(l)' :
             IF i <= k1 THEN i \in 1..k1 /\ f[i] = g[i] /\ f[i] \in 1..n ELSE f[i] = n + (i - k1)
      BY <1>1, <1>2, <1>5
    <2> HIDE DEF f
    <2>3. \A i \in DOMAIN Path(l)' : f[i] \in DOMAIN Path(l) /\ Path(l)'[i] = Path(l)[f[i]]
      <3> SUFFICES ASSUME NEW i \in DOMAIN Path(l)'
                   PROVE  f[i] \in DOMAIN Path(l) /\ Path(l)'[i] = Path(l)[f[i]]
        OBVIOUS
      <3>1. CASE i <= k1
        <4>1. i \in 1..k1 /\ f[i] = g[i] /\ f[i] \in 1..n
          BY <2>2, <3>1
        <4> QED BY <4>1, <1>1, <1>5
      <3>2. CASE ~(i <= k1)
        BY <3>2, <2>1, <2>2, <1>2
      <3> QED BY <3>1, <3>2
    <2>4. \A i \in DOMAIN Path(l)' : Waits(l, i)' <=> Waits(l, f[i])
      <3> SUFFICES ASSUME NEW i \in DOMAIN Path(l)'
                   PROVE  (i \in DOMAIN r => r[i].at # "tlm") <=> (f[i] \in DOMAIN q => q[f[i]].at # "tlm")
        BY DEF Waits, q, r
      <3>1. CASE i <= k1
        <4>1. i \in 1..k1 /\ f[i] = g[i] /\ f[i] \in 1..n
          BY <2>2, <3>1
        <4>2. r[i].at = q[g[i]].at \/ (r[i].at = "wait" /\ q[g[i]].at # "tlm")
          BY <4>1, <1>8
        <4> QED BY <4>1, <4>2, <1>1, <1>2
      <3>2. CASE ~(i <= k1)
        <4>1. i \notin DOMAIN r
          BY <3>2, <1>2
        <4>2. f[i] \notin DOMAIN q
          BY <3>2, <2>1, <2>2, <1>1, <1>2
        <4> QED BY <4>1, <4>2
      <3> QED BY <3>1, <3>2
    <2>5. \A i, j \in DOMAIN Path(l)' : i < j => f[i] < f[j]
      <3> SUFFICES ASSUME NEW i \in DOMAIN Path(l)', NEW j \in DOMAIN Path(l)', i < j  PROVE f[i] < f[j]
        OBVIOUS
      <3>1. i \in Nat /\ j \in Nat
        BY <1>2
      <3>2. CASE j <= k1
        <4>1. i <= k1
          BY <3>1, <3>2, <1>2
        <4> QED BY <4>1, <3>2, <2>2, <1>9
      <3>3. CASE i <= k1 /\ ~(j <= k1)
        <4>1. f[i] \in 1..n /\ f[j] = n + (j - k1) /\ n < n + (j - k1)
          BY <3>3, <2>1, <2>2, <1>2
        <4> QED BY <4>1, <1>1, <1>2, <3>1
      <3>4. CASE ~(i <= k1) /\ ~(j <= k1)
        <4>1. f[i] = n + (i - k1) /\ f[j] = n + (j - k1)
          BY <3>4, <2>2
        <4> QED BY <4>1, <1>1, <1>2, <3>1
      <3> QED BY <3>1, <3>2, <3>3, <3>4, <1>2
    <2>6. f \in [DOMAIN Path(l)' -> DOMAIN Path(l)]
      <3>1. f = [i \in DOMAIN Path(l)' |-> f[i]]
        BY DEF f
      <3> QED BY <3>1, <2>3
    <2> QED BY <2>3, <2>4, <2>5, <2>6 DEF Thins
  <1> QED BY <1>11, <1>12

\* Where in a list without its n-th element the i-th one was.
Back(n, i) == IF i < n THEN i ELSE i + 1

Ends(q, n, N) ==
    /\ IsSeq(N) /\ Len(N) = Len(q) - 1 /\ Len(q) \in Nat /\ DOMAIN N = 1..(Len(q) - 1) /\ DOMAIN q = 1..Len(q)
    /\ \A i \in DOMAIN N :
          /\ Back(n, i) \in DOMAIN q /\ IsEntry(N[i])
          /\ N[i].x = q[Back(n, i)].x /\ N[i].abort = q[Back(n, i)].abort
          /\ \/ N[i].at = q[Back(n, i)].at
             \/ /\ N[i].at = "wait" /\ q[Back(n, i)].x.id = q[n].x.id
                /\ \A j \in 1..(i - 1) : N[j].x.id # N[i].x.id

\* The list without the transaction that has returned.
LEMMA EndIs ==
    ASSUME NEW q, IsSeq(q), \A i \in DOMAIN q : IsEntry(q[i]), NEW n \in DOMAIN q,
           NEW N \in {RemoveAt(q, n), NextWithID(RemoveAt(q, n), q[n].x.id)}
    PROVE  Ends(q, n, N)
  <1> DEFINE r == RemoveAt(q, n)
             id == q[n].x.id
  <1>1. Len(q) \in Nat /\ DOMAIN q = 1..Len(q) /\ n \in 1..Len(q)
    BY SeqLen
  <1>2. IsSeq(r) /\ Len(r) = Len(q) - 1
    BY SeqRemove
  <1>3. \A i \in 1..(Len(q) - 1) : r[i] = IF i < n THEN q[i] ELSE q[i + 1]
    BY SeqRemove
  <1>4. DOMAIN r = 1..(Len(q) - 1)
    BY <1>2, SeqLen
  <1> HIDE DEF r
  <1>5. \A i \in 1..(Len(q) - 1) : Back(n, i) \in DOMAIN q /\ r[i] = q[Back(n, i)]
    BY <1>1, <1>3 DEF Back
  <1> HIDE DEF id
  <1>6. \A i \in DOMAIN r : IsEntry(r[i])
    BY <1>4, <1>5
  <1>7. /\ IsSeq(N) /\ Len(N) = Len(r)
        /\ \A i \in DOMAIN r :
              /\ IsEntry(N[i]) /\ N[i].x = r[i].x /\ N[i].abort = r[i].abort
              /\ \/ N[i].at = r[i].at
                 \/ N[i].at = "wait" /\ r[i].x.id = id /\ \A j \in 1..(i - 1) : r[j].x.id # id
    <2>1. CASE N = r
      BY <2>1, <1>2, <1>6
    <2>2. CASE N = NextWithID(r, id)
      BY <2>2, <1>2, <1>6, NextIs
    <2> QED BY <2>1, <2>2 DEF r, id
  <1>8. DOMAIN N = 1..(Len(q) - 1)
    BY <1>2, <1>7, SeqLen
  <1>9. ASSUME NEW i \in DOMAIN N
        PROVE  /\ Back(n, i) \in DOMAIN q /\ IsEntry(N[i]) /\ N[i].x = q[Back(n, i)].x /\ N[i].abort = q[Back(n, i)].abort
               /\ \/ N[i].at = q[Back(n, i)].at
                  \/ /\ N[i].at = "wait" /\ q[Back(n, i)].x.id = id
                     /\ \A j \in 1..(i - 1) : N[j].x.id # N[i].x.id
    <2>1. i \in DOMAIN r /\ Back(n, i) \in DOMAIN q /\ r[i] = q[Back(n, i)]
      BY <1>4, <1>5, <1>8
    <2>2. IsEntry(N[i]) /\ N[i].x = q[Back(n, i)].x /\ N[i].abort = q[Back(n, i)].abort
      BY <2>1, <1>7
    <2>3. CASE N[i].at = r[i].at
      BY <2>1, <2>2, <2>3
    <2>4. CASE N[i].at = "wait" /\ r[i].x.id = id /\ \A j \in 1..(i - 1) : r[j].x.id # id
      <3>1. \A j \in 1..(i - 1) : j \in DOMAIN r
        BY <1>1, <1>4, <1>8
      <3>2. \A j \in 1..(i - 1) : N[j].x.id # N[i].x.id
        BY <2>1, <2>2, <2>4, <3>1, <1>7
      <3> QED BY <2>1, <2>2, <2>4, <3>2
    <2> QED BY <2>1, <2>3, <2>4, <1>7
  <1> QED BY <1>1, <1>2, <1>7, <1>8, <1>9 DEF id, Ends

\* A transaction returns from the target.
LEMMA ListEnds ==
    ASSUME Shape, Shape', EntryInv, scn' = scn, NEW l \in Lists, IdsWait(l), NEW n \in DOMAIN s.list[l],
           s.list[l][n].at = "tlm",
           s'.list[l] \in {RemoveAt(s.list[l], n), NextWithID(RemoveAt(s.list[l], n), s.list[l][n].x.id)},
           Behind(l)' = Behind(l)
    PROVE  Thins(l) /\ IdsWait(l)'
  <1> DEFINE q == s.list[l]
             N == s'.list[l]
             g == [i \in DOMAIN N |-> Back(n, i)]
  <1>1. IsSeq(q) /\ \A i \in DOMAIN q : IsEntry(q[i])
    BY DEF Shape, EntryInv
  <1>2. /\ Len(q) \in Nat /\ DOMAIN N = 1..(Len(q) - 1) /\ DOMAIN q = 1..Len(q)
        /\ \A i \in DOMAIN N :
              /\ Back(n, i) \in DOMAIN q /\ N[i].x = q[Back(n, i)].x
              /\ \/ N[i].at = q[Back(n, i)].at
                 \/ /\ N[i].at = "wait" /\ q[Back(n, i)].x.id = q[n].x.id
                    /\ \A j \in 1..(i - 1) : N[j].x.id # N[i].x.id
    <2>1. n \in DOMAIN q /\ N \in {RemoveAt(q, n), NextWithID(RemoveAt(q, n), q[n].x.id)}
      OBVIOUS
    <2> HIDE DEF q, N
    <2>2. Ends(q, n, N)
      BY <1>1, <2>1, EndIs
    <2> QED BY <2>2 DEF Ends
  <1>3. \A i \in DOMAIN q : q[i].x.id = IdOf(Path(l)[i])
    BY EntryID
  <1>4. \A j \in DOMAIN q : \A i \in 1..(j - 1) : q[i].x.id = q[j].x.id => q[j].at = "queued"
    <2> SUFFICES ASSUME NEW j \in DOMAIN q, NEW i \in 1..(j - 1), q[i].x.id = q[j].x.id
                 PROVE  q[j].at = "queued"
      OBVIOUS
    <2>1. i \in DOMAIN q
      BY <1>2
    <2> QED BY <2>1, <1>3 DEF IdsWait
  <1>5. n \in 1..Len(q) /\ q[n].at = "tlm"
    BY <1>2
  <1> HIDE DEF q, N
  <1>6. ASSUME NEW i \in DOMAIN N
        PROVE  /\ g[i] \in DOMAIN q /\ N[i].x = q[g[i]].x
               /\ \/ N[i].at = q[g[i]].at
                  \/ /\ N[i].at = "wait" /\ q[g[i]].at # "tlm"
                     /\ \A j \in 1..(i - 1) : N[j].x.id # N[i].x.id
    <2>1. /\ g[i] \in DOMAIN q /\ N[i].x = q[g[i]].x
          /\ \/ N[i].at = q[g[i]].at
             \/ /\ N[i].at = "wait" /\ q[g[i]].x.id = q[n].x.id
                /\ \A j \in 1..(i - 1) : N[j].x.id # N[i].x.id
      BY <1>2
    <2>2. ASSUME q[g[i]].x.id = q[n].x.id  PROVE q[g[i]].at # "tlm"
      <3>1. g[i] \in 1..Len(q) /\ g[i] # n
        BY <1>2, <1>5, <2>1 DEF Back
      <3>2. ~(g[i] < n)
        <4> SUFFICES ASSUME g[i] < n  PROVE FALSE
          OBVIOUS
        <4>1. g[i] \in 1..(n - 1)
          BY <3>1, <1>5
        <4> QED BY <4>1, <2>2, <1>2, <1>4, <1>5
      <3>3. n \in 1..(g[i] - 1)
        BY <3>1, <3>2, <1>5
      <3>4. q[g[i]].at = "queued"
        BY <3>3, <2>1, <2>2, <1>4
      <3> QED BY <3>4
    <2> QED BY <2>1, <2>2
  <1>7. \A i, j \in DOMAIN N : i < j => g[i] < g[j]
    BY <1>2, <1>5 DEF Back
  <1>8. g \in [DOMAIN N -> DOMAIN q]
    BY <1>6
  <1> HIDE DEF g
  <1> QED BY <1>6, <1>7, <1>8, ListThins DEF q, N

(***************************************************************************)
(* What a reset leaves of a list.                                          *)
(***************************************************************************)
\* A reset keeps what the target runs, in its order.
LEMMA OngoingIs ==
    ASSUME NEW q, IsSeq(q), \A i \in DOMAIN q : IsEntry(q[i])
    PROVE  /\ IsSeq(Ongoing(q))
           /\ \E g \in [DOMAIN Ongoing(q) -> DOMAIN q] :
                 /\ \A i, j \in DOMAIN Ongoing(q) : i < j => g[i] < g[j]
                 /\ \A i \in DOMAIN Ongoing(q) :
                       q[g[i]].at = "tlm" /\ Ongoing(q)[i] = [q[g[i]] EXCEPT !.abort = TRUE]
  <1> DEFINE T == {i \in DOMAIN q : q[i].at = "tlm"}
             low(i) == {j \in T : j <= i}
             C == Cardinality(T)
             rank == [i \in T |-> Cardinality(low(i))]
             nth(n) == CHOOSE i \in T : Cardinality(low(i)) = n
             N == Ongoing(q)
  <1>1. Len(q) \in Nat /\ DOMAIN q = 1..Len(q) /\ T \subseteq 1..Len(q)
    BY SeqLen
  <1>2. IsFiniteSet(T) /\ C \in Nat
    <2> HIDE DEF T
    <2>1. IsFiniteSet(1..Len(q))
      BY <1>1, FS_Interval
    <2>2. IsFiniteSet(T)
      BY <2>1, <1>1, FS_Subset
    <2> QED BY <2>2, FS_CardinalityType
  <1>3. N = [n \in 1..C |-> [q[nth(n)] EXCEPT !.abort = TRUE]]
    BY DEF Ongoing
  <1>31. T \subseteq DOMAIN q /\ \A i \in T : q[i].at = "tlm" /\ i \in Nat
    BY <1>1
  <1> HIDE DEF T, N
  <1>4. \A i \in T : IsFiniteSet(low(i)) /\ Cardinality(low(i)) \in 1..C
    <2> SUFFICES ASSUME NEW i \in T  PROVE IsFiniteSet(low(i)) /\ Cardinality(low(i)) \in 1..C
      OBVIOUS
    <2>1. low(i) \in SUBSET T /\ i \in low(i)
      BY <1>1
    <2> HIDE DEF low
    <2>2. IsFiniteSet(low(i)) /\ Cardinality(low(i)) <= C
      BY <2>1, <1>2, FS_Subset
    <2>3. Cardinality(low(i)) \in Nat
      BY <2>2, FS_CardinalityType
    <2>4. Cardinality(low(i)) # 0
      BY <2>1, <2>2, FS_EmptySet
    <2> QED BY <2>2, <2>3, <2>4, <1>2
  <1>5. \A i, j \in T : i < j => Cardinality(low(i)) < Cardinality(low(j))
    <2> SUFFICES ASSUME NEW i \in T, NEW j \in T, i < j
                 PROVE  Cardinality(low(i)) < Cardinality(low(j))
      OBVIOUS
    <2>1. low(i) \in SUBSET low(j)
      <3> SUFFICES ASSUME NEW x \in low(i)  PROVE x \in low(j)
        OBVIOUS
      <3>1. x \in T /\ x <= i
        OBVIOUS
      <3>2. x \in Nat /\ i \in Nat /\ j \in Nat
        BY <3>1, <1>1
      <3>3. x <= j
        BY <3>1, <3>2
      <3> QED BY <3>1, <3>3
    <2>2. j \in low(j) /\ j \notin low(i)
      BY <1>1
    <2> HIDE DEF low
    <2>3. Cardinality(low(i)) <= Cardinality(low(j)) /\ Cardinality(low(j)) # Cardinality(low(i))
      BY <2>1, <2>2, <1>4, FS_Subset
    <2> QED BY <2>3, <1>4, <1>2
  <1> HIDE DEF low
  <1>6. rank \in Injection(T, 1..C)
    <2>1. rank \in [T -> 1..C]
      BY <1>4
    <2>2. \A a, b \in T : rank[a] = rank[b] => a = b
      <3> SUFFICES ASSUME NEW a \in T, NEW b \in T, rank[a] = rank[b]  PROVE a = b
        OBVIOUS
      <3>1. a \in Nat /\ b \in Nat
        BY <1>1
      <3>2. rank[a] = Cardinality(low(a)) /\ rank[b] = Cardinality(low(b))
        OBVIOUS
      <3>3. ~(a < b) /\ ~(b < a)
        <4>1. Cardinality(low(a)) \in 1..C /\ Cardinality(low(b)) \in 1..C
          BY <1>4
        <4> QED BY <3>2, <4>1, <1>5, <1>2
      <3> QED BY <3>1, <3>3
    <2> QED BY <2>1, <2>2 DEF Injection, IsInjective
  <1>7. rank \in Surjection(T, 1..C)
    <2>1. IsFiniteSet(1..C) /\ Cardinality(1..C) = C
      BY <1>2, FS_Interval
    <2> HIDE DEF rank
    <2> QED BY <2>1, <1>6, FS_Injection
  <1>8. \A n \in 1..C : nth(n) \in T /\ Cardinality(low(nth(n))) = n
    <2> SUFFICES ASSUME NEW n \in 1..C  PROVE nth(n) \in T /\ Cardinality(low(nth(n))) = n
      OBVIOUS
    <2>1. \E i \in T : rank[i] = n
      BY <1>7 DEF Surjection
    <2>2. \E i \in T : Cardinality(low(i)) = n
      BY <2>1
    <2> QED BY <2>2
  <1> DEFINE g == [n \in 1..C |-> nth(n)]
  <1> HIDE DEF rank, nth
  <1>9. DOMAIN N = 1..C /\ N = [n \in 1..C |-> N[n]] /\ \A n \in 1..C : N[n] = [q[nth(n)] EXCEPT !.abort = TRUE]
    BY <1>3
  <1>10. IsSeq(N)
    BY <1>2, <1>9, SeqMade
  <1>11. g \in [DOMAIN N -> DOMAIN q]
    BY <1>8, <1>9, <1>31
  <1>12. \A i, j \in DOMAIN N : i < j => g[i] < g[j]
    <2> SUFFICES ASSUME NEW i \in 1..C, NEW j \in 1..C, i < j  PROVE nth(i) < nth(j)
      BY <1>9
    <2>1. nth(i) \in T /\ nth(j) \in T /\ Cardinality(low(nth(i))) = i /\ Cardinality(low(nth(j))) = j
      BY <1>8
    <2>2. nth(i) \in Nat /\ nth(j) \in Nat /\ nth(i) # nth(j)
      <3>1. nth(i) \in Nat /\ nth(j) \in Nat
        BY <2>1, <1>31
      <3>2. i # j
        BY <1>2
      <3> QED BY <2>1, <3>1, <3>2
    <2>3. ~(nth(j) < nth(i))
      <3>1. nth(j) < nth(i) => j < i
        BY <2>1, <1>5
      <3> QED BY <3>1, <1>2
    <2> QED BY <2>2, <2>3
  <1>13. \A i \in DOMAIN N : q[g[i]].at = "tlm" /\ N[i] = [q[g[i]] EXCEPT !.abort = TRUE]
    BY <1>8, <1>9, <1>31
  <1> HIDE DEF g
  <1> QED BY <1>10, <1>11, <1>12, <1>13 DEF N

\* A reset thins out a list.
LEMMA ListResets ==
    ASSUME Shape, Shape', EntryInv, scn' = scn, NEW l \in Lists, IdsWait(l),
           s'.list[l] = Ongoing(s.list[l]), Behind(l)' = <<>>
    PROVE  Thins(l) /\ IdsWait(l)'
  <1> DEFINE q == s.list[l]
             N == s'.list[l]
  <1>1. IsSeq(q) /\ \A i \in DOMAIN q : IsEntry(q[i])
    BY DEF Shape, EntryInv
  <1>2. N = Ongoing(q)
    OBVIOUS
  <1> HIDE DEF q, N
  <1>3. PICK g \in [DOMAIN N -> DOMAIN q] :
            /\ \A i, j \in DOMAIN N : i < j => g[i] < g[j]
            /\ \A i \in DOMAIN N : q[g[i]].at = "tlm" /\ N[i] = [q[g[i]] EXCEPT !.abort = TRUE]
    BY <1>1, <1>2, OngoingIs
  <1>4. ASSUME NEW i \in DOMAIN N
        PROVE  N[i].x = q[g[i]].x /\ N[i].at = q[g[i]].at
    <2>1. IsEntry(q[g[i]]) /\ N[i] = [q[g[i]] EXCEPT !.abort = TRUE]
      BY <1>1, <1>3
    <2> QED BY <2>1 DEF IsEntry
  <1> QED BY <1>3, <1>4, ListThins DEF q, N

(***************************************************************************)
(* How many entries of a list are not to be aborted.                       *)
(***************************************************************************)
\* The number of live entries is a natural number.
LEMMA LiveIs ==
    ASSUME NEW q, IsSeq(q)
    PROVE  IsFiniteSet({i \in DOMAIN q : ~q[i].abort}) /\ Live(q) \in Nat
  <1>1. Len(q) \in Nat /\ DOMAIN q = 1..Len(q)
    BY SeqLen
  <1>2. IsFiniteSet(1..Len(q))
    BY <1>1, FS_Interval
  <1>3. {i \in DOMAIN q : ~q[i].abort} \in SUBSET (1..Len(q))
    BY <1>1
  <1>4. IsFiniteSet({i \in DOMAIN q : ~q[i].abort})
    BY <1>2, <1>3, FS_Subset
  <1> QED BY <1>4, FS_CardinalityType DEF Live

\* Each transaction that joins counts.
LEMMA LiveJoined ==
    ASSUME NEW q, NEW new, IsSeq(q), IsSeq(new), \A i \in DOMAIN new : IsEntry(new[i]) /\ ~new[i].abort
    PROVE  Live(Joined(q, new)) = Live(q) + Len(new)
  <1> DEFINE J == Joined(q, new)
             n == Len(q)
             k1 == Len(new)
             A == {i \in DOMAIN q : ~q[i].abort}
             B == (n + 1)..(n + k1)
             S == {i \in DOMAIN J : ~J[i].abort}
  <1>1. n \in Nat /\ k1 \in Nat /\ DOMAIN q = 1..n /\ DOMAIN new = 1..k1
    BY SeqLen
  <1>2. IsSeq(J) /\ Len(J) = n + k1 /\ \A i \in 1..n : J[i] = q[i]
    BY JoinedIs
  <1>3. \A i \in 1..k1 : J[n + i].abort = new[i].abort
    BY JoinedIs
  <1>4. DOMAIN J = 1..(n + k1)
    BY <1>2, SeqLen
  <1> HIDE DEF J, n, k1
  <1>5. \A i \in B : i \in DOMAIN J /\ i \notin DOMAIN q /\ ~J[i].abort
    <2> SUFFICES ASSUME NEW i \in B  PROVE i \in DOMAIN J /\ i \notin DOMAIN q /\ ~J[i].abort
      OBVIOUS
    <2>1. i - n \in 1..k1 /\ n + (i - n) = i
      BY <1>1
    <2>2. J[i].abort = new[i - n].abort
      BY <2>1, <1>3
    <2> QED BY <2>1, <2>2, <1>1, <1>4
  <1>6. \A i \in DOMAIN J : i \in DOMAIN q \/ i \in B
    BY <1>1, <1>4
  <1>7. \A i \in DOMAIN q : i \in DOMAIN J /\ J[i] = q[i]
    BY <1>1, <1>2, <1>4
  <1>8. S = A \cup B /\ A \cap B = {}
    BY <1>5, <1>6, <1>7
  <1>9. IsFiniteSet(A)
    BY LiveIs
  <1>10. IsFiniteSet(B) /\ Cardinality(B) = k1
    BY <1>1, FS_Interval
  <1> HIDE DEF A, B, S
  <1>11. Cardinality(S) = Cardinality(A) + k1 - Cardinality(A \cap B)
    BY <1>8, <1>9, <1>10, FS_Union
  <1>12. Cardinality(A \cap B) = 0 /\ Cardinality(A) \in Nat
    BY <1>8, <1>9, FS_EmptySet, FS_CardinalityType
  <1>13. Cardinality(S) = Cardinality(A) + k1
    BY <1>11, <1>12, <1>1
  <1> QED BY <1>13 DEF Live, A, S, J, k1

\* One that returns does not count any longer.
LEMMA LiveEnds ==
    ASSUME NEW q, IsSeq(q), NEW n \in DOMAIN q, NEW N, Ends(q, n, N), \A i \in DOMAIN q : IsEntry(q[i])
    PROVE  Live(N) = Live(q) - (IF q[n].abort THEN 0 ELSE 1)
  <1> DEFINE A == {i \in DOMAIN q : ~q[i].abort}
             B == {i \in DOMAIN N : ~N[i].abort}
             f == [i \in B |-> Back(n, i)]
  <1>1. /\ Len(q) \in Nat /\ DOMAIN q = 1..Len(q) /\ DOMAIN N = 1..(Len(q) - 1) /\ n \in 1..Len(q)
        /\ \A i \in DOMAIN N : Back(n, i) \in DOMAIN q /\ N[i].abort = q[Back(n, i)].abort
    BY DEF Ends
  <1>2. IsSeq(N)
    BY DEF Ends
  <1>3. \A i \in B : Back(n, i) \in A \ {n}
    <2> SUFFICES ASSUME NEW i \in B  PROVE Back(n, i) \in A /\ Back(n, i) # n
      OBVIOUS
    <2>1. Back(n, i) # n
      BY <1>1 DEF Back
    <2> QED BY <2>1, <1>1
  <1>4. \A h \in A \ {n} : \E i \in B : Back(n, i) = h
    <2> SUFFICES ASSUME NEW h \in A \ {n}  PROVE \E i \in B : Back(n, i) = h
      OBVIOUS
    <2> DEFINE i == IF h < n THEN h ELSE h - 1
    <2>1. i \in 1..(Len(q) - 1) /\ Back(n, i) = h
      BY <1>1 DEF Back
    <2>2. i \in B
      BY <2>1, <1>1
    <2> QED BY <2>1, <2>2
  <1>5. \A i, j \in B : Back(n, i) = Back(n, j) => i = j
    BY <1>1 DEF Back
  <1>6. IsFiniteSet(A) /\ IsFiniteSet(B)
    BY <1>2, LiveIs
  <1>7. n \in A <=> ~q[n].abort
    OBVIOUS
  <1> HIDE DEF A, B
  <1>8. f \in Bijection(B, A \ {n})
    <2>1. f \in [B -> A \ {n}]
      BY <1>3
    <2>2. f \in Injection(B, A \ {n})
      BY <2>1, <1>5 DEF Injection, IsInjective
    <2>3. f \in Surjection(B, A \ {n})
      BY <2>1, <1>4 DEF Surjection
    <2> QED BY <2>2, <2>3 DEF Bijection
  <1>9. Cardinality(A \ {n}) = Cardinality(B)
    <2> HIDE DEF f
    <2> QED BY <1>6, <1>8, FS_Bijection DEF ExistsBijection
  <1>10. Cardinality(A \ {n}) = IF n \in A THEN Cardinality(A) - 1 ELSE Cardinality(A)
    BY <1>6, FS_RemoveElement
  <1>11. Cardinality(A) \in Nat
    BY <1>6, FS_CardinalityType
  <1> QED BY <1>7, <1>9, <1>10, <1>11 DEF Live, A, B

\* After a reset none counts.
LEMMA LiveOngoing ==
    ASSUME NEW q, IsSeq(q), \A i \in DOMAIN q : IsEntry(q[i])
    PROVE  Live(Ongoing(q)) = 0 /\ \A i \in DOMAIN Ongoing(q) : IsEntry(Ongoing(q)[i]) /\ Ongoing(q)[i].abort
                                                               /\ Ongoing(q)[i].at = "tlm"
  <1> DEFINE N == Ongoing(q)
  <1>1. PICK g \in [DOMAIN N -> DOMAIN q] :
            \A i \in DOMAIN N : q[g[i]].at = "tlm" /\ N[i] = [q[g[i]] EXCEPT !.abort = TRUE]
    BY OngoingIs
  <1> HIDE DEF N
  <1>2. ASSUME NEW i \in DOMAIN N
        PROVE  IsEntry(N[i]) /\ N[i].abort /\ N[i].at = "tlm"
    <2>1. IsEntry(q[g[i]]) /\ N[i] = [q[g[i]] EXCEPT !.abort = TRUE] /\ q[g[i]].at = "tlm"
      BY <1>1
    <2> DEFINE e == q[g[i]]
    <2> HIDE DEF e
    <2>2. IsEntry(e) /\ N[i] = [e EXCEPT !.abort = TRUE] /\ e.at = "tlm"
      BY <2>1 DEF e
    <2> QED BY <2>2 DEF IsEntry
  <1>3. {i \in DOMAIN N : ~N[i].abort} = {}
    BY <1>2
  <1> QED BY <1>2, <1>3, FS_EmptySet DEF Live, N

(***************************************************************************)
(* Steps that leave the paths alone.                                       *)
(***************************************************************************)
\* The terms of the counters are natural numbers.
LEMMA LensAre ==
    ASSUME Shape, NumInv, NEW l \in Lists
    PROVE  /\ Live(s.list[l]) \in Nat /\ Len(s.out[l]) \in Nat /\ Len(s.wrDataList) \in Nat
           /\ s.num[l] \in Nat
  <1>1. IsSeq(s.list[l]) /\ IsSeq(s.out[l]) /\ IsSeq(s.wrDataList)
    BY DEF Shape
  <1>2. Live(s.list[l]) \in Nat /\ Len(s.out[l]) \in Nat /\ Len(s.wrDataList) \in Nat
    BY <1>1, LiveIs, SeqLen
  <1>3. s.num[l] = Live(s.list[l]) + Len(s.out[l]) + (IF l = "wr" THEN Len(s.wrDataList) ELSE 0)
    BY DEF NumInv
  <1> QED BY <1>2, <1>3

\* A step that touches responses and statuses only.
LEMMA QuietKeeps ==
    ASSUME AxiInv, scn' = scn, DOMAIN m' = MasterFields, DOMAIN s' = SlaveFields,
           \A f \in {"rdTrans", "wrTrans", "wrData", "pos", "beat", "issued"} : m'[f] = m[f],
           ~m'.up => ~m.up, m'.status \in [Txns -> Statuses],
           \A t \in Txns : m'.status[t] = "idle" => m.status[t] = "idle",
           \A f \in {"list", "wrDataList", "ran", "unexpected"} : s'[f] = s[f],
           DOMAIN s'.out = Lists, DOMAIN s'.ack = Lists, DOMAIN s'.num = Lists,
           \A l \in Lists :
              /\ IsSeq(s'.out[l]) /\ (s'.ack[l] => s'.out[l] # <<>>)
              /\ s'.num[l] = s.num[l] - Len(s.out[l]) + Len(s'.out[l])
    PROVE  AxiInv'
  <1> USE DEF AxiInv
  <1>1. /\ m'.rdTrans = m.rdTrans /\ m'.wrTrans = m.wrTrans /\ m'.wrData = m.wrData
        /\ m'.pos = m.pos /\ m'.beat = m.beat /\ m'.issued = m.issued
        /\ s'.list = s.list /\ s'.wrDataList = s.wrDataList /\ s'.ran = s.ran /\ s'.unexpected = s.unexpected
    OBVIOUS
  <1>2. Txns' = Txns
    BY SameScenario
  <1>3. Shape'
    BY <1>1, <1>2 DEF Shape
  <1>4. EntryInv'
    BY <1>1, SameEntry DEF EntryInv
  <1>5. DownInv'
    BY <1>1 DEF DownInv
  <1>6. \A l \in Lists : Path(l)' = Path(l)
    BY <1>1 DEF Path, Behind
  <1>7. \A l \in Lists : Thins(l) /\ IdsWait(l)'
    BY <1>1, <1>3, <1>6, ListStays DEF RunInv, TogetherInv
  <1>8. RunInv'
    BY <1>1, <1>3, <1>7, RunKeeps
  <1>9. WrDataInv'
    <2>1. \A t : Txn(t)' = Txn(t) /\ KindOf(t)' = KindOf(t)
      BY SameScenario
    <2>2. NextData' = NextData
      BY <1>1, <2>1 DEF NextData
    <2> QED BY <1>1, <2>1, <2>2 DEF WrDataInv
  <1>10. NumInv'
    <2>1. ASSUME NEW l \in Lists
          PROVE  s'.num[l] = Live(s.list[l]) + Len(s'.out[l]) + (IF l = "wr" THEN Len(s.wrDataList) ELSE 0)
      <3>1. /\ Live(s.list[l]) \in Nat /\ Len(s.out[l]) \in Nat /\ Len(s.wrDataList) \in Nat
        BY LensAre
      <3>2. Len(s'.out[l]) \in Nat
        BY SeqLen
      <3> QED BY <3>1, <3>2 DEF NumInv
    <2> QED BY <1>1, <2>1 DEF NumInv
  <1> QED BY <1>3, <1>4, <1>5, <1>8, <1>9, <1>10

\* A response is one of the statuses of TLM.
LEMMA StatusIs ==
    ASSUME NEW e
    PROVE  Status(e) \in Statuses \ {"idle"}
  BY DEF Status, tlm_gp_set_axi_resp, Statuses

\* The transaction that has been answered leaves, and its counter follows.
LEMMA AnsweredIs ==
    ASSUME AxiInv, NEW l \in Lists, s.out[l] # <<>>, s' = Answered(l)
    PROVE  /\ DOMAIN s' = SlaveFields
           /\ \A f \in {"list", "wrDataList", "ran", "unexpected"} : s'[f] = s[f]
           /\ DOMAIN s'.out = Lists /\ DOMAIN s'.ack = Lists /\ DOMAIN s'.num = Lists
           /\ \A h \in Lists :
                 /\ IsSeq(s'.out[h]) /\ (s'.ack[h] => s'.out[h] # <<>>)
                 /\ s'.num[h] = s.num[h] - Len(s.out[h]) + Len(s'.out[h])
  <1> USE DEF AxiInv
  <1>1. DOMAIN s = SlaveFields /\ DOMAIN s.out = Lists /\ DOMAIN s.ack = Lists /\ DOMAIN s.num = Lists
    BY DEF Shape
  <1>2. /\ DOMAIN s' = SlaveFields
        /\ \A f \in {"list", "wrDataList", "ran", "unexpected"} : s'[f] = s[f]
        /\ s'.out = [s.out EXCEPT ![l] = Tail(s.out[l])]
        /\ s'.ack = [s.ack EXCEPT ![l] = FALSE] /\ s'.num = [s.num EXCEPT ![l] = s.num[l] - 1]
    BY <1>1 DEF Answered, SlaveFields
  <1>3. \A h \in Lists : IsSeq(s.out[h]) /\ Len(s.out[h]) \in Nat /\ s.num[h] \in Nat
    BY LensAre DEF Shape
  <1>4. IsSeq(Tail(s.out[l])) /\ Len(Tail(s.out[l])) = Len(s.out[l]) - 1
    BY <1>3, SeqTail
  <1>5. ASSUME NEW h \in Lists
        PROVE  /\ IsSeq(s'.out[h]) /\ (s'.ack[h] => s'.out[h] # <<>>)
               /\ s'.num[h] = s.num[h] - Len(s.out[h]) + Len(s'.out[h])
    <2>1. CASE h = l
      BY <2>1, <1>1, <1>2, <1>3, <1>4
    <2>2. CASE h # l
      <3>1. s'.out[h] = s.out[h] /\ s'.ack[h] = s.ack[h] /\ s'.num[h] = s.num[h]
        BY <2>2, <1>1, <1>2
      <3> QED BY <3>1, <1>3 DEF EntryInv
    <2> QED BY <2>1, <2>2
  <1> QED BY <1>1, <1>2, <1>5

\* An acknowledge is due.
LEMMA AckIs ==
    ASSUME AxiInv, NEW l \in Lists, s.out[l] # <<>>, s' = [s EXCEPT !.ack[l] = TRUE]
    PROVE  /\ DOMAIN s' = SlaveFields
           /\ \A f \in {"list", "wrDataList", "ran", "unexpected"} : s'[f] = s[f]
           /\ DOMAIN s'.out = Lists /\ DOMAIN s'.ack = Lists /\ DOMAIN s'.num = Lists
           /\ \A h \in Lists :
                 /\ IsSeq(s'.out[h]) /\ (s'.ack[h] => s'.out[h] # <<>>)
                 /\ s'.num[h] = s.num[h] - Len(s.out[h]) + Len(s'.out[h])
  <1> USE DEF AxiInv
  <1>1. DOMAIN s = SlaveFields /\ DOMAIN s.out = Lists /\ DOMAIN s.ack = Lists /\ DOMAIN s.num = Lists
    BY DEF Shape
  <1>2. /\ DOMAIN s' = SlaveFields
        /\ \A f \in {"list", "wrDataList", "ran", "unexpected"} : s'[f] = s[f]
        /\ s'.out = s.out /\ s'.ack = [s.ack EXCEPT ![l] = TRUE] /\ s'.num = s.num
    BY <1>1 DEF SlaveFields
  <1>3. \A h \in Lists : IsSeq(s.out[h]) /\ Len(s.out[h]) \in Nat /\ s.num[h] \in Nat
    BY LensAre DEF Shape
  <1> QED BY <1>1, <1>2, <1>3 DEF EntryInv

\* A response, with or without an acknowledge.
LEMMA ResponseKeeps ==
    ASSUME AxiInv, RHandshake \/ BHandshake \/ RackHandshake \/ WackHandshake
    PROVE  AxiInv'
  <1> USE DEF AxiInv
  <1>1. /\ DOMAIN m = MasterFields /\ DOMAIN s = SlaveFields /\ m.status \in [Txns -> Statuses]
        /\ DOMAIN s.out = Lists /\ DOMAIN s.ack = Lists /\ DOMAIN s.num = Lists
        /\ \A l \in Lists : IsSeq(s.out[l]) /\ (s.ack[l] => s.out[l] # <<>>)
    BY DEF Shape, EntryInv
  <1>2. scn' = scn
    BY DEF RHandshake, BHandshake, RackHandshake, WackHandshake, Quiet
  <1> DEFINE MasterPart ==
               /\ DOMAIN m' = MasterFields
               /\ \A f \in {"rdTrans", "wrTrans", "wrData", "pos", "beat", "issued"} : m'[f] = m[f]
               /\ m'.up = m.up /\ m'.status \in [Txns -> Statuses]
               /\ \A t \in Txns : m'.status[t] = "idle" => m.status[t] = "idle"
             SlavePart ==
               /\ DOMAIN s' = SlaveFields
               /\ \A f \in {"list", "wrDataList", "ran", "unexpected"} : s'[f] = s[f]
               /\ DOMAIN s'.out = Lists /\ DOMAIN s'.ack = Lists /\ DOMAIN s'.num = Lists
               /\ \A l \in Lists :
                     /\ IsSeq(s'.out[l]) /\ (s'.ack[l] => s'.out[l] # <<>>)
                     /\ s'.num[l] = s.num[l] - Len(s.out[l]) + Len(s'.out[l])
  <1>3. ASSUME NEW t, NEW v \in Statuses \ {"idle"}, NEW c \in BOOLEAN,
               m'.status = [m.status EXCEPT ![t] = IF c THEN v ELSE @]
        PROVE  /\ m'.status \in [Txns -> Statuses]
               /\ \A u \in Txns : m'.status[u] = "idle" => m.status[u] = "idle"
    BY <1>1, <1>3
  <1>4. CASE RHandshake
    <2> DEFINE e == Out("rd")
    <2>1. RReady /\ Valid("rd") /\ RDone(e.x.id, RBeat, Status(e)) /\ RSent
      BY <1>4 DEF RHandshake
    <2>2. MasterPart
      <3> DEFINE t == IF m.r # NoTxn THEN m.r ELSE Taken(m.rdResponses, e.x.id)
      <3>1. \E c \in BOOLEAN : m'.status = [m.status EXCEPT ![t] = IF c THEN Status(e) ELSE @]
        BY <2>1, <1>1 DEF RDone, MasterFields
      <3>2. /\ DOMAIN m' = MasterFields
            /\ \A f \in {"rdTrans", "wrTrans", "wrData", "pos", "beat", "issued"} : m'[f] = m[f]
            /\ m'.up = m.up
        BY <2>1, <1>1 DEF RDone, MasterFields
      <3> HIDE DEF t, e
      <3>3. /\ m'.status \in [Txns -> Statuses]
            /\ \A u \in Txns : m'.status[u] = "idle" => m.status[u] = "idle"
        BY <3>1, <1>3, StatusIs
      <3> QED BY <3>2, <3>3
    <2>3. SlavePart
      <3>1. s.out["rd"] # <<>> /\ "rd" \in Lists
        BY <2>1 DEF Valid, Lists
      <3>2. CASE ~RLast
        <4> DEFINE next == [e EXCEPT !.beat = @ + 1, !.idx = @ + Cardinality(ReadLanes(e.x, e.beat))]
        <4>1. s' = [s EXCEPT !.out["rd"][1] = next]
          BY <2>1, <3>2 DEF RSent
        <4> HIDE DEF next
        <4>2. /\ DOMAIN s' = SlaveFields
              /\ \A f \in {"list", "wrDataList", "ran", "unexpected"} : s'[f] = s[f]
              /\ s'.out = [s.out EXCEPT !["rd"] = [s.out["rd"] EXCEPT ![1] = next]]
              /\ s'.ack = s.ack /\ s'.num = s.num
          BY <4>1, <1>1 DEF SlaveFields
        <4>3. IsSeq(s.out["rd"]) /\ 1 \in DOMAIN s.out["rd"]
          BY <3>1, <1>1, SeqLen
        <4> DEFINE z == [s.out["rd"] EXCEPT ![1] = next]
        <4>4. IsSeq(z) /\ Len(z) = Len(s.out["rd"])
          BY <4>3, SeqExcept
        <4> HIDE DEF z
        <4>5. s'.out = [s.out EXCEPT !["rd"] = z]
          BY <4>2 DEF z
        <4>6. \A l \in Lists : IsSeq(s.out[l]) /\ Len(s.out[l]) \in Nat /\ s.num[l] \in Nat
          BY LensAre DEF Shape
        <4>7. ASSUME NEW l \in Lists
              PROVE  IsSeq(s'.out[l]) /\ Len(s'.out[l]) = Len(s.out[l]) /\ (s'.ack[l] => s'.out[l] # <<>>)
          <5>1. CASE l = "rd"
            <6>1. s'.out[l] = z
              BY <5>1, <4>5, <1>1
            <6>2. z # <<>>
              BY <4>3, <4>4, <3>1, SeqLen
            <6> QED BY <6>1, <6>2, <4>4, <5>1
          <5>2. CASE l # "rd"
            <6>1. s'.out[l] = s.out[l] /\ s'.ack[l] = s.ack[l]
              BY <5>2, <4>2, <4>5, <1>1
            <6> QED BY <6>1, <1>1
          <5> QED BY <5>1, <5>2
        <4>8. \A l \in Lists : s'.num[l] = s.num[l] - Len(s.out[l]) + Len(s'.out[l])
          <5> SUFFICES ASSUME NEW l \in Lists
                       PROVE  s'.num[l] = s.num[l] - Len(s.out[l]) + Len(s'.out[l])
            OBVIOUS
          <5>1. s.num[l] \in Nat /\ Len(s.out[l]) \in Nat /\ Len(s'.out[l]) = Len(s.out[l])
            BY <4>6, <4>7
          <5> QED BY <5>1, <4>2
        <4>9. DOMAIN s'.out = Lists /\ DOMAIN s'.ack = Lists /\ DOMAIN s'.num = Lists
          BY <4>2, <4>5, <1>1
        <4> QED BY <4>2, <4>7, <4>8, <4>9
      <3>3. CASE RLast /\ scn.ace
        <4>1. s' = [s EXCEPT !.ack["rd"] = TRUE]
          BY <2>1, <3>3 DEF RSent
        <4> QED BY <4>1, <3>1, AckIs
      <3>4. CASE RLast /\ ~scn.ace
        <4>1. s' = Answered("rd")
          BY <2>1, <3>4 DEF RSent
        <4> QED BY <4>1, <3>1, AnsweredIs
      <3> QED BY <3>2, <3>3, <3>4
    <2> HIDE DEF e
    <2> QED BY <2>2, <2>3, <1>2, QuietKeeps
  <1>5. CASE BHandshake
    <2> DEFINE e == Out("wr")
    <2>1. Valid("wr") /\ BDone(e.x.id, Status(e)) /\ BSent
      BY <1>5 DEF BHandshake
    <2>2. MasterPart
      <3> DEFINE t == Taken(m.wrResponses, e.x.id)
      <3>1. \E c \in BOOLEAN : m'.status = [m.status EXCEPT ![t] = IF c THEN Status(e) ELSE @]
        BY <2>1, <1>1 DEF BDone, MasterFields
      <3>2. /\ DOMAIN m' = MasterFields
            /\ \A f \in {"rdTrans", "wrTrans", "wrData", "pos", "beat", "issued"} : m'[f] = m[f]
            /\ m'.up = m.up
        BY <2>1, <1>1 DEF BDone, MasterFields
      <3> HIDE DEF t, e
      <3>3. /\ m'.status \in [Txns -> Statuses]
            /\ \A u \in Txns : m'.status[u] = "idle" => m.status[u] = "idle"
        BY <3>1, <1>3, StatusIs
      <3> QED BY <3>2, <3>3
    <2>3. SlavePart
      <3>1. s.out["wr"] # <<>> /\ "wr" \in Lists
        BY <2>1 DEF Valid, Lists
      <3>2. s' = [s EXCEPT !.ack["wr"] = TRUE] \/ s' = Answered("wr")
        BY <2>1 DEF BSent
      <3> QED BY <3>1, <3>2, AckIs, AnsweredIs
    <2> HIDE DEF e
    <2> QED BY <2>2, <2>3, <1>2, QuietKeeps
  <1>6. CASE RackHandshake \/ WackHandshake
    <2>1. PICK l \in Lists : s.ack[l] /\ s' = Answered(l)
      BY <1>6 DEF RackHandshake, WackHandshake, Lists
    <2>2. SlavePart
      <3>1. s.out[l] # <<>>
        BY <2>1, <1>1
      <3> QED BY <2>1, <3>1, AnsweredIs
    <2>3. MasterPart
      <3>1. \E e : RackDone(Status(e)) \/ WackDone(Status(e))
        BY <1>6 DEF RackHandshake, WackHandshake
      <3>2. PICK e : RackDone(Status(e)) \/ WackDone(Status(e))
        BY <3>1
      <3>3. /\ DOMAIN m' = MasterFields
            /\ \A f \in {"rdTrans", "wrTrans", "wrData", "pos", "beat", "issued"} : m'[f] = m[f]
            /\ m'.up = m.up
            /\ \E t : m'.status = [m.status EXCEPT ![t] = Status(e)]
        BY <3>2, <1>1 DEF RackDone, WackDone, MasterFields
      <3>4. PICK t : m'.status = [m.status EXCEPT ![t] = Status(e)]
        BY <3>3
      <3>5. /\ m'.status \in [Txns -> Statuses]
            /\ \A u \in Txns : m'.status[u] = "idle" => m.status[u] = "idle"
        BY <3>4, <1>1, StatusIs
      <3> QED BY <3>3, <3>5
    <2> QED BY <2>2, <2>3, <1>2, QuietKeeps
  <1> QED BY <1>4, <1>5, <1>6

\* A request that is refused, and the end of a reset.
LEMMA RefusedKeeps ==
    ASSUME AxiInv, NEW t \in Txns, m' = [m EXCEPT !.status[t] = "GENERIC_ERROR"], scn' = scn, s' = s
    PROVE  AxiInv'
  <1> USE DEF AxiInv
  <1>1. /\ DOMAIN m = MasterFields /\ DOMAIN s = SlaveFields /\ m.status \in [Txns -> Statuses]
        /\ DOMAIN s.out = Lists /\ DOMAIN s.ack = Lists /\ DOMAIN s.num = Lists
        /\ \A l \in Lists : IsSeq(s.out[l]) /\ (s.ack[l] => s.out[l] # <<>>)
    BY DEF Shape, EntryInv
  <1>2. /\ DOMAIN m' = MasterFields
        /\ \A f \in {"rdTrans", "wrTrans", "wrData", "pos", "beat", "issued"} : m'[f] = m[f]
        /\ m'.up = m.up /\ m'.status = [m.status EXCEPT ![t] = "GENERIC_ERROR"]
    BY <1>1 DEF MasterFields
  <1>3. m'.status \in [Txns -> Statuses] /\ \A u \in Txns : m'.status[u] = "idle" => m.status[u] = "idle"
    BY <1>1, <1>2 DEF Statuses
  <1>4. \A l \in Lists : s'.num[l] = s.num[l] - Len(s.out[l]) + Len(s'.out[l])
    BY LensAre
  <1> QED BY <1>1, <1>2, <1>3, <1>4, QuietKeeps

\* The end of a reset.
LEMMA ReleaseKeeps ==
    ASSUME AxiInv, Release
    PROVE  AxiInv'
  <1> USE DEF AxiInv
  <1>1. /\ DOMAIN m = MasterFields /\ DOMAIN s = SlaveFields /\ m.status \in [Txns -> Statuses]
        /\ DOMAIN s.out = Lists /\ DOMAIN s.ack = Lists /\ DOMAIN s.num = Lists
        /\ \A l \in Lists : IsSeq(s.out[l]) /\ (s.ack[l] => s.out[l] # <<>>)
    BY DEF Shape, EntryInv
  <1>2. /\ DOMAIN m' = MasterFields
        /\ \A f \in {"rdTrans", "wrTrans", "wrData", "pos", "beat", "issued"} : m'[f] = m[f]
        /\ m'.up = TRUE /\ m'.status = m.status /\ scn' = scn /\ s' = s
    BY <1>1 DEF MasterFields, Release, MasterRelease
  <1>3. \A l \in Lists : s'.num[l] = s.num[l] - Len(s.out[l]) + Len(s'.out[l])
    BY <1>2, LensAre
  <1> QED BY <1>1, <1>2, <1>3, QuietKeeps

(***************************************************************************)
(* The target's calls.                                                     *)
(***************************************************************************)
\* RunTLMTransaction calls the target.
LEMMA StartKeeps ==
    ASSUME AxiInv, NEW l \in Lists, NEW i \in DOMAIN s.list[l], TlmStart(l, i)
    PROVE  AxiInv'
  <1> USE DEF AxiInv
  <1> DEFINE q == s.list[l]
             r == [q EXCEPT ![i].at = "tlm"]
             e == [t |-> q[i].x.t, data |-> q[i].data]
  <1>1. /\ DOMAIN s = SlaveFields /\ DOMAIN s.list = Lists /\ IsSeq(q) /\ IsEntry(q[i])
        /\ \A h \in Lists : IsSeq(s.list[h])
    BY DEF Shape, EntryInv
  <1>2. /\ q[i].at = "wait" /\ m.up /\ ~WaitForTransactions(q, i) /\ m' = m /\ scn' = scn
        /\ s' = [s EXCEPT !.list[l][i].at = "tlm", !.ran = Append(@, e)]
    BY DEF TlmStart, masterVars
  <1>3. /\ DOMAIN s' = SlaveFields /\ s'.list = [s.list EXCEPT ![l] = r] /\ s'.ran = Append(s.ran, e)
        /\ \A f \in {"wrDataList", "out", "ack", "num", "unexpected"} : s'[f] = s[f]
    BY <1>1, <1>2 DEF SlaveFields
  <1>4. /\ IsEntry([q[i] EXCEPT !.at = "tlm"]) /\ [q[i] EXCEPT !.at = "tlm"].x = q[i].x
        /\ [q[i] EXCEPT !.at = "tlm"].abort = q[i].abort
    BY <1>1, EntryAt
  <1>5. /\ IsSeq(r) /\ Len(r) = Len(q) /\ DOMAIN r = DOMAIN q
        /\ \A j \in DOMAIN q : r[j] = IF j = i THEN [q[i] EXCEPT !.at = "tlm"] ELSE q[j]
    <2> DEFINE z == [q[i] EXCEPT !.at = "tlm"]
    <2>1. r = [q EXCEPT ![i] = z]
      OBVIOUS
    <2> HIDE DEF z, r
    <2>2. /\ IsSeq(r) /\ Len(r) = Len(q) /\ DOMAIN r = DOMAIN q
          /\ \A j \in DOMAIN q : r[j] = IF j = i THEN z ELSE q[j]
      BY <2>1, <1>1, SeqExcept
    <2> QED BY <2>2 DEF z
  <1> HIDE DEF r, e
  <1>6. s'.list[l] = r /\ DOMAIN s'.list = Lists /\ \A h \in Lists \ {l} : s'.list[h] = s.list[h]
    BY <1>1, <1>3
  <1>7. Txns' = Txns
    BY <1>2, SameScenario
  <1>8. Shape'
    <2>1. IsSeq(s'.ran)
      BY <1>3, SeqAppend DEF Shape
    <2>2. \A h \in Lists : IsSeq(s'.list[h])
      BY <1>1, <1>5, <1>6
    <2> QED BY <2>1, <2>2, <1>2, <1>3, <1>6, <1>7 DEF Shape
  <1>9. /\ \A j \in DOMAIN q : IsEntry(r[j]) /\ r[j].x = q[j].x /\ r[j].abort = q[j].abort
    BY <1>4, <1>5 DEF EntryInv
  <1>10. EntryInv'
    <2>1. \A h \in Lists : \A j \in DOMAIN s'.list[h] : IsEntry(s'.list[h][j])
      BY <1>5, <1>6, <1>9 DEF EntryInv
    <2>2. \A h \in Lists : \A j \in DOMAIN s'.list[h] : IsEntry(s.list[h][j])'
      BY <2>1, <1>2, SameEntry
    <2>3. \A j \in DOMAIN s'.wrDataList : IsEntry(s.wrDataList[j])' /\ ~s'.wrDataList[j].abort
      BY <1>2, <1>3, SameEntry DEF EntryInv
    <2> QED BY <2>2, <2>3, <1>3 DEF EntryInv
  <1>11. DownInv'
    BY <1>2 DEF DownInv
  <1>12. \A h \in Lists : Path(h)' = Path(h)
    <2>1. \A h \in Lists : Behind(h)' = Behind(h)
      BY <1>2, <1>3 DEF Behind
    <2>2. TxnsOf(r) = TxnsOf(q)
      BY <1>5, <1>9 DEF TxnsOf
    <2>3. \A h \in Lists : TxnsOf(s'.list[h]) = TxnsOf(s.list[h])
      BY <2>2, <1>6
    <2> QED BY <2>1, <2>3 DEF Path, TxnsOf
  <1>13. e.t = Path(l)[i]
    BY PathIs DEF e
  <1>14. RunInv'
    <2>1. s'.list[l] = [s.list[l] EXCEPT ![i].at = "tlm"]
      BY <1>6 DEF r
    <2> QED BY <2>1, <1>2, <1>3, <1>6, <1>8, <1>12, <1>13, RunStarts
  <1>15. WrDataInv'
    <2>1. \A t : Txn(t)' = Txn(t) /\ KindOf(t)' = KindOf(t)
      BY <1>2, SameScenario
    <2>2. NextData' = NextData
      BY <1>2, <1>3, <2>1 DEF NextData
    <2> QED BY <1>2, <1>3, <2>1, <2>2 DEF WrDataInv
  <1>16. NumInv'
    <2>1. Live(r) = Live(q)
      BY <1>5, <1>9 DEF Live
    <2>2. \A h \in Lists : Live(s'.list[h]) = Live(s.list[h])
      BY <2>1, <1>6
    <2> QED BY <2>2, <1>3 DEF NumInv
  <1> QED BY <1>8, <1>10, <1>11, <1>14, <1>15, <1>16

\* RunTLMTransaction returns from the target.
LEMMA EndKeeps ==
    ASSUME AxiInv, NEW l \in Lists, NEW i \in DOMAIN s.list[l], TlmEnd(l, i)
    PROVE  AxiInv'
  <1> USE DEF AxiInv
  <1> DEFINE q == s.list[l]
             e == q[i]
             rest == RemoveAt(q, i)
             N == IF m.up THEN NextWithID(rest, e.x.id) ELSE rest
             o == IF m.up /\ ~e.abort THEN Append(s.out[l], e) ELSE s.out[l]
  <1>1. /\ DOMAIN s = SlaveFields /\ DOMAIN s.list = Lists /\ DOMAIN s.out = Lists
        /\ IsSeq(q) /\ IsSeq(s.out[l]) /\ \A j \in DOMAIN q : IsEntry(q[j])
        /\ \A h \in Lists : IsSeq(s.list[h]) /\ IsSeq(s.out[h])
    BY DEF Shape, EntryInv
  <1>2. e.at = "tlm" /\ m' = m /\ scn' = scn /\ s' = [s EXCEPT !.list[l] = N, !.out[l] = o]
    BY DEF TlmEnd, masterVars
  <1>3. /\ DOMAIN s' = SlaveFields /\ s'.list = [s.list EXCEPT ![l] = N] /\ s'.out = [s.out EXCEPT ![l] = o]
        /\ \A f \in {"wrDataList", "ack", "num", "unexpected", "ran"} : s'[f] = s[f]
    <2> HIDE DEF N, o
    <2> QED BY <1>1, <1>2 DEF SlaveFields
  <1>4. N \in {RemoveAt(q, i), NextWithID(RemoveAt(q, i), q[i].x.id)}
    OBVIOUS
  <1>41. i \in DOMAIN q
    OBVIOUS
  <1>5. Ends(q, i, N)
    <2> HIDE DEF N, q
    <2> QED BY <1>1, <1>4, <1>41, EndIs
  <1>6. /\ s'.list[l] = N /\ s'.out[l] = o /\ DOMAIN s'.list = Lists /\ DOMAIN s'.out = Lists
        /\ \A h \in Lists \ {l} : s'.list[h] = s.list[h] /\ s'.out[h] = s.out[h]
    <2> HIDE DEF N, o
    <2> QED BY <1>1, <1>3
  <1>7. /\ IsSeq(o) /\ (s.out[l] # <<>> => o # <<>>)
        /\ Len(o) = Len(s.out[l]) + (IF m.up /\ ~e.abort THEN 1 ELSE 0)
    <2>1. Len(s.out[l]) \in Nat
      BY <1>1, SeqLen
    <2> HIDE DEF e
    <2>2. /\ IsSeq(Append(s.out[l], e)) /\ Len(Append(s.out[l], e)) = Len(s.out[l]) + 1
          /\ Append(s.out[l], e) # <<>>
      BY <1>1, SeqAppend
    <2>3. CASE m.up /\ ~e.abort
      <3>1. o = Append(s.out[l], e)
        BY <2>3
      <3> HIDE DEF o
      <3>2. IsSeq(o) /\ Len(o) = Len(s.out[l]) + 1 /\ o # <<>>
        BY <2>2, <3>1
      <3> QED BY <2>3, <3>2
    <2>4. CASE ~(m.up /\ ~e.abort)
      <3>1. o = s.out[l]
        BY <2>4
      <3> HIDE DEF o
      <3>2. IsSeq(o) /\ (s.out[l] # <<>> => o # <<>>)
        BY <3>1, <1>1
      <3>3. (IF m.up /\ ~e.abort THEN 1 ELSE 0) = 0
        BY <2>4
      <3>4. Len(o) = Len(s.out[l]) + 0
        BY <2>1, <3>1
      <3> QED BY <3>2, <3>3, <3>4
    <2> QED BY <2>3, <2>4
  <1>8. Txns' = Txns
    BY <1>2, SameScenario
  <1>9. Shape'
    <2>1. \A h \in Lists : IsSeq(s'.list[h]) /\ IsSeq(s'.out[h])
      <3> HIDE DEF N, o, q
      <3> QED BY <1>1, <1>5, <1>6, <1>7 DEF Ends
    <2> QED BY <2>1, <1>2, <1>3, <1>6, <1>8 DEF Shape
  <1>10. EntryInv'
    <2> HIDE DEF N, o, q
    <2>1. \A h \in Lists : \A j \in DOMAIN s'.list[h] : IsEntry(s'.list[h][j])
      BY <1>5, <1>6 DEF EntryInv, Ends
    <2>2. \A h \in Lists : \A j \in DOMAIN s'.list[h] : IsEntry(s.list[h][j])'
      BY <2>1, <1>2, SameEntry
    <2>3. \A j \in DOMAIN s'.wrDataList : IsEntry(s.wrDataList[j])' /\ ~s'.wrDataList[j].abort
      BY <1>2, <1>3, SameEntry DEF EntryInv
    <2>4. \A h \in Lists : s'.ack[h] => s'.out[h] # <<>>
      BY <1>3, <1>6, <1>7 DEF EntryInv
    <2> QED BY <2>2, <2>3, <2>4 DEF EntryInv
  <1>11. DownInv'
    <2> SUFFICES ASSUME ~m.up  PROVE DownInv'
      BY <1>2 DEF DownInv
    <2>1. /\ m.rdTrans = <<>> /\ m.wrTrans = <<>> /\ m.wrData = <<>> /\ s.wrDataList = <<>>
          /\ \A h \in Lists : \A j \in DOMAIN s.list[h] : s.list[h][j].at = "tlm" /\ s.list[h][j].abort
      BY DEF DownInv
    <2>2. s'.list[l] = rest
      BY <1>6
    <2>3. IsSeq(rest) /\ Len(rest) = Len(q) - 1
      BY <1>1, SeqRemove
    <2>4. \A j \in 1..(Len(q) - 1) : rest[j] = IF j < i THEN q[j] ELSE q[j + 1]
      BY <1>1, SeqRemove
    <2>5. DOMAIN rest = 1..(Len(q) - 1) /\ DOMAIN q = 1..Len(q) /\ Len(q) \in Nat
      BY <2>3, <1>1, SeqLen
    <2> HIDE DEF rest, q
    <2>6. \A j \in DOMAIN rest : \E h \in DOMAIN q : rest[j] = q[h]
      <3> SUFFICES ASSUME NEW j \in DOMAIN rest  PROVE \E h \in DOMAIN q : rest[j] = q[h]
        OBVIOUS
      <3>1. j \in DOMAIN q /\ j + 1 \in DOMAIN q
        BY <2>5
      <3> QED BY <3>1, <2>4, <2>5
    <2>7. \A j \in DOMAIN rest : rest[j].at = "tlm" /\ rest[j].abort
      BY <2>1, <2>6 DEF q
    <2> QED BY <2>1, <2>2, <2>7, <1>2, <1>3, <1>6 DEF DownInv
  <1>12. \A h \in Lists : Behind(h)' = Behind(h)
    BY <1>2, <1>3 DEF Behind
  <1>13. \A h \in Lists : Thins(h) /\ IdsWait(h)'
    <2> SUFFICES ASSUME NEW h \in Lists  PROVE Thins(h) /\ IdsWait(h)'
      OBVIOUS
    <2>0. IdsWait(h)
      BY DEF RunInv, TogetherInv
    <2>1. CASE h = l
      <3>1. s'.list[l] \in {RemoveAt(s.list[l], i), NextWithID(RemoveAt(s.list[l], i), s.list[l][i].x.id)}
        BY <1>4, <1>6
      <3>2. s.list[l][i].at = "tlm"
        BY <1>2
      <3> HIDE DEF N, o, q, e, rest
      <3> QED BY <2>0, <2>1, <3>1, <3>2, <1>2, <1>9, <1>12, ListEnds
    <2>2. CASE h # l
      <3>1. s'.list[h] = s.list[h]
        BY <2>2, <1>6
      <3>2. Path(h)' = Path(h)
        BY <3>1, <1>12 DEF Path
      <3> QED BY <2>0, <3>1, <3>2, <1>2, <1>9, ListStays
    <2> QED BY <2>1, <2>2
  <1>14. RunInv'
    BY <1>2, <1>3, <1>9, <1>13, RunKeeps
  <1>15. WrDataInv'
    <2>1. \A t : Txn(t)' = Txn(t) /\ KindOf(t)' = KindOf(t)
      BY <1>2, SameScenario
    <2>2. NextData' = NextData
      BY <1>2, <1>3, <2>1 DEF NextData
    <2> QED BY <1>2, <1>3, <2>1, <2>2 DEF WrDataInv
  <1>16. NumInv'
    <2>1. Live(N) = Live(q) - (IF e.abort THEN 0 ELSE 1)
      <3> HIDE DEF N, q
      <3> QED BY <1>1, <1>41, <1>5, LiveEnds
    <2>2. ~m.up => e.abort
      BY DEF DownInv
    <2> HIDE DEF N, q, e, o
    <2>3. ASSUME NEW h \in Lists
          PROVE  s'.num[h] = Live(s'.list[h]) + Len(s'.out[h]) + (IF h = "wr" THEN Len(s'.wrDataList) ELSE 0)
      <3>0. s.num[h] = Live(s.list[h]) + Len(s.out[h]) + (IF h = "wr" THEN Len(s.wrDataList) ELSE 0)
        BY DEF NumInv
      <3>1. /\ Live(s.list[h]) \in Nat /\ Len(s.out[h]) \in Nat /\ Len(s.wrDataList) \in Nat
        BY LensAre
      <3>2. CASE h = l
        <4>1. Live(s'.list[h]) + Len(s'.out[h]) = Live(s.list[h]) + Len(s.out[h])
          <5>1. s'.list[h] = N /\ s'.out[h] = o
            BY <3>2, <1>6
          <5>2. Live(N) = Live(s.list[h]) - (IF e.abort THEN 0 ELSE 1)
            BY <3>2, <2>1 DEF q
          <5>3. Len(o) = Len(s.out[h]) + (IF e.abort THEN 0 ELSE 1)
            BY <3>2, <1>7, <2>2
          <5>4. CASE e.abort
            BY <5>1, <5>2, <5>3, <5>4, <3>1
          <5>5. CASE ~e.abort
            BY <5>1, <5>2, <5>3, <5>5, <3>1
          <5> QED BY <5>4, <5>5
        <4> QED BY <3>0, <3>1, <4>1, <1>3
      <3>3. CASE h # l
        BY <3>0, <3>3, <1>3, <1>6
      <3> QED BY <3>2, <3>3
    <2> QED BY <2>3, <1>3 DEF NumInv
  <1> QED BY <1>9, <1>10, <1>11, <1>14, <1>15, <1>16

\* The reset of both bridges.
LEMMA ResetKeeps ==
    ASSUME AxiInv, Reset
    PROVE  AxiInv'
  <1> USE DEF AxiInv
  <1>1. /\ DOMAIN m = MasterFields /\ DOMAIN s = SlaveFields /\ m.status \in [Txns -> Statuses]
        /\ \A l \in Lists : IsSeq(s.list[l]) /\ \A i \in DOMAIN s.list[l] : IsEntry(s.list[l][i])
    BY DEF Shape, EntryInv
  <1>2. MasterReset /\ SlaveReset /\ scn' = scn
    BY DEF Reset
  <1>3. /\ DOMAIN m' = MasterFields
        /\ m'.rdTrans = <<>> /\ m'.wrTrans = <<>> /\ m'.wrData = <<>> /\ m'.pos = 0 /\ m'.beat = 1
        /\ m'.issued = m.issued
        /\ m'.status = [t \in Txns |-> IF m.status[t] = "pending" THEN "GENERIC_ERROR" ELSE m.status[t]]
    BY <1>1, <1>2 DEF MasterReset, MasterFields
  <1>4. /\ DOMAIN s' = SlaveFields
        /\ s'.list = [l \in Lists |-> Ongoing(s.list[l])] /\ s'.wrDataList = <<>>
        /\ s'.out = [l \in Lists |-> <<>>] /\ s'.ack = [l \in Lists |-> FALSE] /\ s'.num = [l \in Lists |-> 0]
        /\ s'.ran = s.ran /\ s'.unexpected = s.unexpected
    BY <1>1, <1>2 DEF SlaveReset, SlaveFields, NumAfterReset
  <1>5. Txns' = Txns
    BY <1>2, SameScenario
  <1>6. \A l \in Lists : IsSeq(Ongoing(s.list[l]))
    BY <1>1, OngoingIs
  <1>7. \A l \in Lists : /\ s'.list[l] = Ongoing(s.list[l]) /\ Live(s'.list[l]) = 0
                         /\ \A i \in DOMAIN s'.list[l] :
                               IsEntry(s'.list[l][i]) /\ s'.list[l][i].abort /\ s'.list[l][i].at = "tlm"
    BY <1>1, <1>4, LiveOngoing
  <1>8. IsSeq(<<>>) /\ Len(<<>>) = 0 /\ DOMAIN <<>> = {} /\ TxnsOf(<<>>) = <<>>
    BY SeqEmpty, TxnsOfIs
  <1>9. Shape'
    <2>1. m'.status \in [Txns -> Statuses]
      BY <1>1, <1>3 DEF Statuses
    <2>2. \A l \in Lists : IsSeq(s'.list[l]) /\ IsSeq(s'.out[l])
      BY <1>4, <1>6, <1>7, <1>8
    <2> QED BY <2>1, <2>2, <1>2, <1>3, <1>4, <1>5, <1>8 DEF Shape
  <1>10. EntryInv'
    <2>1. \A l \in Lists : \A i \in DOMAIN s'.list[l] : IsEntry(s.list[l][i])'
      BY <1>2, <1>7, SameEntry
    <2> QED BY <2>1, <1>4, <1>8 DEF EntryInv
  <1>11. DownInv'
    BY <1>3, <1>4, <1>7 DEF DownInv
  <1>12. \A l \in Lists : Behind(l)' = <<>>
    <2>1. <<>> \o <<>> = <<>>
      OBVIOUS
    <2>2. TxnsOf(s'.wrDataList) \o m'.wrTrans = <<>>
      BY <2>1, <1>3, <1>4, <1>8
    <2> QED BY <2>2, <1>3 DEF Behind
  <1>13. \A l \in Lists : Thins(l) /\ IdsWait(l)'
    BY <1>2, <1>7, <1>9, <1>12, ListResets DEF RunInv, TogetherInv
  <1>14. RunInv'
    BY <1>2, <1>3, <1>4, <1>9, <1>13, RunKeeps
  <1>15. WrDataInv'
    <2>1. NextData' = <<>>
      BY <1>3 DEF NextData
    <2>2. <<>> \o <<>> = <<>>
      OBVIOUS
    <2>3. m'.wrData = TxnsOf(s'.wrDataList) \o NextData'
      BY <2>1, <2>2, <1>3, <1>4, <1>8
    <2> QED BY <2>3, <1>3, <1>4, <1>8 DEF WrDataInv
  <1>16. NumInv'
    BY <1>4, <1>7, <1>8 DEF NumInv
  <1> QED BY <1>9, <1>10, <1>11, <1>14, <1>15, <1>16

(***************************************************************************)
(* More about sequences: the first element and the others, two parts.      *)
(***************************************************************************)
\* A sequence with one more member in front.
LEMMA SeqCons ==
    ASSUME NEW x, NEW q, IsSeq(q)
    PROVE  /\ IsSeq(<<x>> \o q) /\ Len(<<x>> \o q) = 1 + Len(q) /\ (<<x>> \o q)[1] = x
           /\ \A i \in 1..Len(q) : (<<x>> \o q)[1 + i] = q[i]
  <1> DEFINE a == <<x>>
             d == a \o q
  <1>1. IsSeq(a) /\ Len(a) = 1 /\ a[1] = x
    BY SeqOne
  <1> HIDE DEF a
  <1>2. IsSeq(a)
    BY <1>1
  <1>3. IsSeq(d)
    BY <1>2, SeqConcat
  <1>4. Len(d) = Len(a) + Len(q)
    BY <1>2, SeqConcat
  <1>5. \A i \in 1..Len(a) : d[i] = a[i]
    BY <1>2, SeqConcat
  <1>6. \A i \in 1..Len(q) : d[Len(a) + i] = q[i]
    BY <1>2, SeqConcat
  <1> HIDE DEF d
  <1>7. d[1] = x
    BY <1>1, <1>5
  <1>8. Len(d) = 1 + Len(q) /\ \A i \in 1..Len(q) : d[1 + i] = q[i]
    BY <1>1, <1>4, <1>6
  <1> QED BY <1>3, <1>7, <1>8 DEF a, d

\* A sequence is its first member and the rest.
LEMMA SeqFirst ==
    ASSUME NEW q, IsSeq(q), q # <<>>
    PROVE  q = <<q[1]>> \o Tail(q) /\ RemoveAt(q, 1) = Tail(q) /\ Head(q) = q[1]
  <1> DEFINE S == {q[i] : i \in DOMAIN q}
  <1>1. q \in Seq(S)
    BY DEF IsSeq
  <1> HIDE DEF S
  <1>2. IsSeq(Tail(q)) /\ Len(Tail(q)) = Len(q) - 1 /\ \A i \in 1..(Len(q) - 1) : Tail(q)[i] = q[i + 1]
    BY SeqTail
  <1>3. Len(q) \in Nat /\ 1 \in DOMAIN q /\ Len(q) # 0 /\ Head(q) = q[1]
    BY SeqLen
  <1>4. IsSeq(<<q[1]>>) /\ Len(<<q[1]>>) = 1 /\ <<q[1]>>[1] = q[1]
    BY SeqOne
  <1> DEFINE a == <<q[1]>>
             b == Tail(q)
             c == RemoveAt(q, 1)
  <1>5. IsSeq(c) /\ Len(c) = Len(q) - 1 /\ \A i \in 1..(Len(q) - 1) : c[i] = IF i < 1 THEN q[i] ELSE q[i + 1]
    BY <1>3, SeqRemove
  <1>6. IsSeq(a) /\ Len(a) = 1 /\ a[1] = q[1] /\ IsSeq(b) /\ Len(b) = Len(q) - 1
        /\ \A i \in 1..(Len(q) - 1) : b[i] = q[i + 1]
    BY <1>2, <1>4
  <1> HIDE DEF a, b, c
  <1>7. c = b
    <2>1. \A i \in 1..Len(c) : c[i] = b[i]
      BY <1>3, <1>5, <1>6
    <2> QED BY <2>1, <1>5, <1>6, SeqSame
  <1> DEFINE d == a \o b
  <1>8. /\ IsSeq(d) /\ Len(d) = 1 + (Len(q) - 1) /\ d[1] = a[1]
        /\ \A i \in 2..(1 + (Len(q) - 1)) : d[i] = b[i - 1]
    <2>1. IsSeq(d) /\ Len(d) = 1 + Len(b) /\ d[1] = q[1]
      BY <1>6, SeqCons DEF a
    <2>2. \A i \in 1..Len(b) : d[1 + i] = b[i]
      BY <1>6, SeqCons DEF a
    <2> HIDE DEF d
    <2>3. ASSUME NEW i \in 2..(1 + (Len(q) - 1))  PROVE d[i] = b[i - 1]
      <3>1. i - 1 \in 1..Len(b) /\ 1 + (i - 1) = i
        BY <1>3, <1>6
      <3> QED BY <3>1, <2>2
    <2> QED BY <2>1, <2>3, <1>6
  <1> HIDE DEF d
  <1>9. q = d
    <2>1. Len(q) = Len(d)
      BY <1>3, <1>8
    <2>2. ASSUME NEW i \in 1..Len(q)  PROVE q[i] = d[i]
      <3>1. CASE i = 1
        BY <3>1, <1>6, <1>8
      <3>2. CASE i # 1
        <4>1. i \in 2..(1 + (Len(q) - 1)) /\ i - 1 \in 1..(Len(q) - 1) /\ (i - 1) + 1 = i
          BY <3>2, <1>3
        <4> QED BY <4>1, <1>6, <1>8
      <3> QED BY <3>1, <3>2
    <2> QED BY <2>1, <2>2, <1>8, SeqSame
  <1> QED BY <1>3, <1>7, <1>9 DEF a, b, c, d

\* The rest of such a sequence.
LEMMA SeqTailOf ==
    ASSUME NEW x, NEW q, IsSeq(q)
    PROVE  Tail(<<x>> \o q) = q /\ <<x>> \o q # <<>> /\ (<<x>> \o q)[1] = x
  <1> DEFINE a == <<x>>
             S == {x} \cup {q[i] : i \in DOMAIN q}
             d == a \o q
  <1>1. IsSeq(a) /\ Len(a) = 1 /\ a[1] = x /\ Len(q) \in Nat
    BY SeqOne, SeqLen
  <1> HIDE DEF a
  <1>2. IsSeq(d) /\ Len(d) = 1 + Len(q) /\ d[1] = x
    BY SeqCons DEF a
  <1>3. \A i \in 1..Len(q) : d[1 + i] = q[i]
    BY SeqCons DEF a
  <1> HIDE DEF d
  <1>4. d # <<>>
    BY <1>1, <1>2, SeqLen
  <1>5. IsSeq(Tail(d)) /\ Len(Tail(d)) = Len(d) - 1 /\ \A i \in 1..(Len(d) - 1) : Tail(d)[i] = d[i + 1]
    BY <1>2, <1>4, SeqTail
  <1> DEFINE e == Tail(d)
  <1>6. IsSeq(e) /\ Len(e) = Len(q) /\ \A i \in 1..Len(q) : e[i] = d[i + 1]
    BY <1>1, <1>2, <1>5
  <1> HIDE DEF e
  <1>7. \A i \in 1..Len(e) : e[i] = q[i]
    <2> SUFFICES ASSUME NEW i \in 1..Len(q)  PROVE e[i] = q[i]
      BY <1>6
    <2>1. i + 1 = 1 + i
      OBVIOUS
    <2> QED BY <2>1, <1>3, <1>6
  <1>8. e = q
    BY <1>6, <1>7, SeqSame
  <1> QED BY <1>2, <1>4, <1>8 DEF a, d, e

\* A sequence is its first n members and the others.
LEMMA SeqSplit ==
    ASSUME NEW q, IsSeq(q), NEW n \in 0..Len(q)
    PROVE  /\ SubSeq(q, 1, n) \o SubSeq(q, n + 1, Len(q)) = q
           /\ IsSeq(SubSeq(q, 1, n)) /\ Len(SubSeq(q, 1, n)) = n
           /\ IsSeq(SubSeq(q, n + 1, Len(q))) /\ Len(SubSeq(q, n + 1, Len(q))) = Len(q) - n
           /\ \A i \in 1..n : SubSeq(q, 1, n)[i] = q[i]
           /\ \A i \in 1..(Len(q) - n) : SubSeq(q, n + 1, Len(q))[i] = q[n + i]
  <1> DEFINE a == SubSeq(q, 1, n)
             b == SubSeq(q, n + 1, Len(q))
  <1>1. Len(q) \in Nat
    BY SeqLen
  <1>2. IsSeq(a) /\ Len(a) = n /\ \A i \in 1..n : a[i] = q[i]
    <2>1. 1 \in 1..(Len(q) + 1) /\ n \in 0..Len(q) /\ 1 <= n + 1 /\ n + 1 - 1 = n
      BY <1>1
    <2>2. IsSeq(a) /\ Len(a) = n + 1 - 1 /\ \A i \in 1..(n + 1 - 1) : a[i] = q[1 + i - 1]
      BY <2>1, SeqSub
    <2>3. \A i \in 1..n : 1 + i - 1 = i
      BY <1>1
    <2> QED BY <2>1, <2>2, <2>3
  <1>3. IsSeq(b) /\ Len(b) = Len(q) - n /\ \A i \in 1..(Len(q) - n) : b[i] = q[n + i]
    <2>1. n + 1 \in 1..(Len(q) + 1) /\ Len(q) \in 0..Len(q) /\ n + 1 <= Len(q) + 1
          /\ Len(q) + 1 - (n + 1) = Len(q) - n
      BY <1>1
    <2>2. /\ IsSeq(b) /\ Len(b) = Len(q) + 1 - (n + 1)
          /\ \A i \in 1..(Len(q) + 1 - (n + 1)) : b[i] = q[(n + 1) + i - 1]
      BY <2>1, SeqSub
    <2>3. \A i \in 1..(Len(q) - n) : (n + 1) + i - 1 = n + i
      BY <1>1
    <2> QED BY <2>1, <2>2, <2>3
  <1> HIDE DEF a, b
  <1> DEFINE d == a \o b
  <1>4. IsSeq(d)
    BY <1>2, <1>3, SeqConcat
  <1>5. Len(d) = Len(a) + Len(b)
    BY <1>2, <1>3, SeqConcat
  <1>6. \A i \in 1..Len(a) : d[i] = a[i]
    BY <1>2, <1>3, SeqConcat
  <1>7. \A i \in (Len(a) + 1)..(Len(a) + Len(b)) : d[i] = b[i - Len(a)]
    BY <1>2, <1>3, SeqConcat
  <1> HIDE DEF d
  <1>8. ASSUME NEW i \in 1..Len(d)  PROVE d[i] = q[i]
    <2>1. CASE i <= n
      BY <2>1, <1>1, <1>2, <1>6
    <2>2. CASE ~(i <= n)
      <3>1. i \in (Len(a) + 1)..(Len(a) + Len(b)) /\ i - n \in 1..(Len(q) - n) /\ n + (i - n) = i
        BY <2>2, <1>1, <1>2, <1>3, <1>5
      <3> QED BY <3>1, <1>2, <1>3, <1>7
    <2> QED BY <2>1, <2>2
  <1>9. Len(d) = Len(q)
    BY <1>1, <1>2, <1>3, <1>5
  <1>10. d = q
    BY <1>4, <1>8, <1>9, SeqSame
  <1> QED BY <1>2, <1>3, <1>10 DEF a, b, d

\* The transaction of one entry.
LEMMA TxnsOfOne ==
    ASSUME NEW e
    PROVE  TxnsOf(<<e>>) = <<e.x.t>>
  BY DEF TxnsOf

(***************************************************************************)
(* What the thread of W passes on at once.                                 *)
(***************************************************************************)
\* The members of a sequence before the first one that is in a set.
LEMMA FirstWith ==
    ASSUME NEW q, IsSeq(q), NEW S \in SUBSET DOMAIN q,
           NEW n, n = IF S = {} THEN Len(q) ELSE Least(S) - 1
    PROVE  /\ n \in 0..Len(q) /\ \A i \in 1..n : i \notin S
           /\ n < Len(q) => n + 1 \in S
  <1>1. Len(q) \in Nat /\ DOMAIN q = 1..Len(q)
    BY SeqLen
  <1>2. CASE S = {}
    BY <1>1, <1>2
  <1>3. CASE S # {}
    <2> DEFINE v == Least(S)
    <2>1. S \in SUBSET Nat
      BY <1>1
    <2>2. v \in S /\ \A i \in S : v <= i
      BY <2>1, <1>3, LeastIs
    <2>3. n = v - 1
      BY <1>3
    <2> HIDE DEF v
    <2>4. v \in 1..Len(q) /\ (v - 1) + 1 = v
      BY <2>2, <1>1
    <2>5. \A i \in 1..(v - 1) : i \notin S
      <3> SUFFICES ASSUME NEW i \in 1..(v - 1), i \in S  PROVE FALSE
        OBVIOUS
      <3>1. v <= i
        BY <2>2
      <3> QED BY <2>4, <3>1
    <2> QED BY <2>2, <2>3, <2>4, <2>5
  <1> QED BY <1>2, <1>3

\* Where the thread stops, n transactions without data having been passed on.
StopsAt(w, n) ==
    /\ n \in 0..Len(w) /\ \A i \in 1..n : ~hasData(KindOf(w[i]))
    /\ n < Len(w) => hasData(KindOf(w[n + 1]))

\* What the thread of W skips at once are the transactions before the first with data.
LEMMA PassIs ==
    ASSUME NEW mm, DOMAIN mm = MasterFields, IsSeq(mm.wrData)
    PROVE  /\ DOMAIN PassNoData(mm) = MasterFields
           /\ \A f \in MasterFields \ {"wrData", "wrResponses"} : PassNoData(mm)[f] = mm[f]
           /\ \E n : /\ StopsAt(mm.wrData, n)
                     /\ PassNoData(mm).wrData = SubSeq(mm.wrData, n + 1, Len(mm.wrData))
  <1> DEFINE with == {i \in DOMAIN mm.wrData : hasData(Txn(mm.wrData[i]).kind)}
             n == IF with = {} THEN Len(mm.wrData) ELSE Least(with) - 1
  <1>1. PassNoData(mm) = [mm EXCEPT !.wrData = SubSeq(@, n + 1, Len(@)),
                                    !.wrResponses = @ \o SubSeq(mm.wrData, 1, n)]
    BY DEF PassNoData
  <1>2. with \in SUBSET DOMAIN mm.wrData /\ Len(mm.wrData) \in Nat /\ DOMAIN mm.wrData = 1..Len(mm.wrData)
    BY SeqLen
  <1>3. \A i \in DOMAIN mm.wrData : i \in with <=> hasData(KindOf(mm.wrData[i]))
    BY DEF KindOf
  <1>4. n = IF with = {} THEN Len(mm.wrData) ELSE Least(with) - 1
    OBVIOUS
  <1> HIDE DEF with, n
  <1>5. n \in 0..Len(mm.wrData) /\ (\A i \in 1..n : i \notin with) /\ (n < Len(mm.wrData) => n + 1 \in with)
    BY <1>2, <1>4, FirstWith
  <1>6. StopsAt(mm.wrData, n)
    <2>1. \A i \in 1..n : i \in DOMAIN mm.wrData
      BY <1>2, <1>5
    <2> QED BY <2>1, <1>2, <1>3, <1>5 DEF StopsAt
  <1>7. /\ DOMAIN PassNoData(mm) = MasterFields
        /\ \A f \in MasterFields \ {"wrData", "wrResponses"} : PassNoData(mm)[f] = mm[f]
    BY <1>1
  <1>8. PassNoData(mm).wrData = SubSeq(mm.wrData, n + 1, Len(mm.wrData))
    BY <1>1 DEF MasterFields
  <1> QED BY <1>6, <1>7, <1>8

\* Where it stops is one place.
LEMMA StopsOnce ==
    ASSUME NEW w, IsSeq(w), NEW n, NEW k1, StopsAt(w, n), StopsAt(w, k1)
    PROVE  n = k1
  <1>1. Len(w) \in Nat /\ n \in 0..Len(w) /\ k1 \in 0..Len(w)
    BY SeqLen DEF StopsAt
  <1>2. ~(n < k1)
    <2> SUFFICES ASSUME n < k1  PROVE FALSE
      OBVIOUS
    <2>1. n + 1 \in 1..k1 /\ n < Len(w)
      BY <1>1
    <2> QED BY <2>1 DEF StopsAt
  <1>3. ~(k1 < n)
    <2> SUFFICES ASSUME k1 < n  PROVE FALSE
      OBVIOUS
    <2>1. k1 + 1 \in 1..n /\ k1 < Len(w)
      BY <1>1
    <2> QED BY <2>1 DEF StopsAt
  <1> QED BY <1>1, <1>2, <1>3

\* So it is known what it skips.
LEMMA PassAt ==
    ASSUME NEW mm, DOMAIN mm = MasterFields, IsSeq(mm.wrData), NEW n, StopsAt(mm.wrData, n)
    PROVE  PassNoData(mm).wrData = SubSeq(mm.wrData, n + 1, Len(mm.wrData))
  BY PassIs, StopsOnce

\* What it has then taken has data.
LEMMA PassHead ==
    ASSUME NEW mm, DOMAIN mm = MasterFields, IsSeq(mm.wrData)
    PROVE  /\ IsSeq(PassNoData(mm).wrData)
           /\ PassNoData(mm).wrData # <<>> => hasData(KindOf(Head(PassNoData(mm).wrData)))
  <1> DEFINE w == mm.wrData
             v == PassNoData(mm).wrData
  <1>1. PICK n : StopsAt(w, n) /\ v = SubSeq(w, n + 1, Len(w))
    BY PassIs
  <1>2. IsSeq(w) /\ Len(w) \in Nat /\ n \in 0..Len(w)
    BY <1>1, SeqLen DEF StopsAt
  <1> HIDE DEF w, v
  <1>3. IsSeq(v) /\ Len(v) = Len(w) - n /\ \A i \in 1..(Len(w) - n) : v[i] = w[n + i]
    BY <1>1, <1>2, SeqSplit
  <1>4. ASSUME v # <<>>  PROVE hasData(KindOf(Head(v)))
    <2>1. Head(v) = v[1] /\ Len(v) # 0
      BY <1>3, <1>4, SeqLen
    <2>2. n < Len(w) /\ 1 \in 1..(Len(w) - n)
      BY <2>1, <1>2, <1>3
    <2>3. hasData(KindOf(w[n + 1]))
      BY <2>2, <1>1 DEF StopsAt
    <2> QED BY <2>1, <2>2, <2>3, <1>3
  <1> QED BY <1>3, <1>4 DEF v

\* Nothing is passed on while the first one has data, or there is none.
LEMMA PassNone ==
    ASSUME NEW mm, DOMAIN mm = MasterFields, IsSeq(mm.wrData),
           mm.wrData # <<>> => hasData(KindOf(mm.wrData[1]))
    PROVE  PassNoData(mm).wrData = mm.wrData
  <1> DEFINE w == mm.wrData
  <1>1. IsSeq(w) /\ Len(w) \in Nat /\ (w = <<>> <=> Len(w) = 0)
    BY SeqLen
  <1>2. w # <<>> => hasData(KindOf(w[1]))
    OBVIOUS
  <1> HIDE DEF w
  <1>3. StopsAt(w, 0)
    BY <1>1, <1>2 DEF StopsAt
  <1>4. PassNoData(mm).wrData = SubSeq(w, 0 + 1, Len(w))
    BY <1>3, PassAt DEF w
  <1>5. IsSeq(SubSeq(w, 1, Len(w))) /\ Len(SubSeq(w, 1, Len(w))) = Len(w)
        /\ \A i \in 1..Len(w) : SubSeq(w, 1, Len(w))[i] = w[i]
    <2>1. Len(w) \in 0..Len(w)
      BY <1>1
    <2> QED BY <2>1, <1>1, SeqSplit
  <1>6. SubSeq(w, 1, Len(w)) = w
    BY <1>1, <1>5, SeqSame
  <1> QED BY <1>4, <1>6 DEF w

\* It has the transactions of L and the first of W; n of L are passed on.
HeadOf(W) == IF W # <<>> THEN <<Head(W)>> ELSE <<>>
Follows(R, W) == IF W # <<>> /\ (R # <<>> \/ hasData(KindOf(Head(W)))) THEN <<Head(W)>> ELSE <<>>

\* The transaction whose AW is next, if there is one.
LEMMA HeadOfIs ==
    ASSUME NEW W
    PROVE  /\ IsSeq(HeadOf(W)) /\ Len(HeadOf(W)) = IF W = <<>> THEN 0 ELSE 1
           /\ W # <<>> => HeadOf(W)[1] = Head(W)
           /\ HeadOf(W) = <<>> <=> W = <<>>
  <1>1. CASE W = <<>>
    <2>1. HeadOf(W) = <<>>
      BY <1>1 DEF HeadOf
    <2> QED BY <2>1, <1>1, SeqEmpty
  <1>2. CASE W # <<>>
    <2>1. HeadOf(W) = <<Head(W)>>
      BY <1>2 DEF HeadOf
    <2>2. <<Head(W)>> # <<>>
      OBVIOUS
    <2> QED BY <2>1, <2>2, <1>2, SeqOne
  <1> QED BY <1>1, <1>2

\* What it has left when it has skipped n of those that wait in the slave.
LEMMA PassData ==
    ASSUME NEW mm, DOMAIN mm = MasterFields, NEW L, IsSeq(L), NEW W,
           mm.wrData = TxnsOf(L) \o HeadOf(W), NEW n, StopsAt(TxnsOf(L), n),
           NEW R, R = SubSeq(L, n + 1, Len(L))
    PROVE  PassNoData(mm).wrData = TxnsOf(R) \o Follows(R, W)
  <1> DEFINE a == TxnsOf(L)
             h == HeadOf(W)
             w == a \o h
             c == TxnsOf(R)
             f == Follows(R, W)
  <1>1. IsSeq(a) /\ Len(a) = Len(L) /\ (\A i \in 1..Len(L) : a[i] = L[i].x.t) /\ Len(L) \in Nat
    BY TxnsOfIs, SeqLen
  <1>2. IsSeq(h) /\ Len(h) = (IF W = <<>> THEN 0 ELSE 1) /\ (W # <<>> => h[1] = Head(W))
        /\ (h = <<>> <=> W = <<>>)
    BY HeadOfIs
  <1>3. StopsAt(a, n) /\ n \in 0..Len(L)
    BY <1>1 DEF StopsAt
  <1>4. IsSeq(R) /\ Len(R) = Len(L) - n /\ (\A i \in 1..(Len(L) - n) : R[i] = L[n + i])
        /\ (R = <<>> <=> Len(R) = 0)
    BY <1>1, <1>3, SeqSplit, SeqLen
  <1>5. IsSeq(c) /\ Len(c) = Len(R) /\ \A i \in 1..Len(R) : c[i] = R[i].x.t
    BY <1>4, TxnsOfIs
  <1>6. f = IF W # <<>> /\ (R # <<>> \/ hasData(KindOf(h[1]))) THEN h ELSE <<>>
    BY <1>2 DEF Follows, HeadOf
  <1>7. mm.wrData = w
    OBVIOUS
  <1> HIDE DEF a, h, c, f
  <1>8. IsSeq(a) /\ IsSeq(h)
    BY <1>1, <1>2
  <1>9. IsSeq(w)
    BY <1>8, SeqConcat
  <1>10. Len(w) = Len(a) + Len(h)
    BY <1>8, SeqConcat
  <1>11. \A i \in 1..Len(a) : w[i] = a[i]
    BY <1>8, SeqConcat
  <1>12. \A i \in 1..Len(h) : w[Len(a) + i] = h[i]
    BY <1>8, SeqConcat
  <1> HIDE DEF w
  <1>13. \A i \in 1..(Len(L) - n) : c[i] = w[n + i]
    <2> SUFFICES ASSUME NEW i \in 1..(Len(L) - n)  PROVE c[i] = w[n + i]
      OBVIOUS
    <2>1. n + i \in 1..Len(L)
      BY <1>1, <1>3
    <2> QED BY <2>1, <1>1, <1>4, <1>5, <1>11
  <1>14. CASE f = <<>>
    <2> DEFINE n2 == IF W = <<>> THEN n ELSE n + 1
    <2>1. StopsAt(w, n2)
      <3>1. CASE W = <<>>
        <4>1. Len(w) = Len(a) /\ n2 = n
          BY <3>1, <1>1, <1>2, <1>10
        <4>2. n < Len(a) => n + 1 \in 1..Len(a)
          BY <1>1, <1>3
        <4>3. \A i \in 1..n : i \in 1..Len(a)
          BY <1>1, <1>3
        <4> HIDE DEF n2
        <4> QED BY <4>1, <4>2, <4>3, <1>3, <1>11 DEF StopsAt
      <3>2. CASE W # <<>>
        <4>1. R = <<>> /\ ~hasData(KindOf(h[1]))
          <5>1. h # <<>>
            BY <3>2, <1>2
          <5> QED BY <3>2, <5>1, <1>6, <1>14
        <4>2. n = Len(a) /\ Len(w) = n + 1 /\ n2 = n + 1 /\ w[n + 1] = h[1] /\ n \in Nat
          BY <3>2, <4>1, <1>1, <1>2, <1>3, <1>4, <1>10, <1>12
        <4> HIDE DEF n2
        <4>3. ASSUME NEW i \in 1..n2  PROVE ~hasData(KindOf(w[i]))
          <5>1. CASE i = n + 1
            BY <5>1, <4>1, <4>2
          <5>2. CASE i # n + 1
            <6>1. i \in 1..n
              BY <5>2, <4>2
            <6>2. w[i] = a[i] /\ ~hasData(KindOf(a[i]))
              BY <6>1, <4>2, <1>3, <1>11 DEF StopsAt
            <6> QED BY <6>2
          <5> QED BY <5>1, <5>2
        <4> QED BY <4>2, <4>3 DEF StopsAt
      <3> QED BY <3>1, <3>2
    <2>2. n2 \in Nat /\ Len(w) - n2 = Len(R) /\ n2 \in 0..Len(w) /\ (Len(R) # 0 => n2 = n)
      <3>1. CASE W = <<>>
        BY <3>1, <1>1, <1>2, <1>3, <1>4, <1>10
      <3>2. CASE W # <<>>
        <4>1. R = <<>>
          <5>1. h # <<>>
            BY <3>2, <1>2
          <5> QED BY <3>2, <5>1, <1>6, <1>14
        <4>2. n2 = n + 1
          BY <3>2
        <4> HIDE DEF n2
        <4>3. Len(R) = 0 /\ n = Len(L) /\ n \in Nat /\ Len(w) = n + 1
          BY <3>2, <4>1, <1>1, <1>2, <1>3, <1>4, <1>10
        <4> QED BY <4>2, <4>3
      <3> QED BY <3>1, <3>2
    <2> HIDE DEF n2
    <2>3. PassNoData(mm).wrData = SubSeq(w, n2 + 1, Len(w))
      BY <2>1, <1>7, <1>9, PassAt
    <2> DEFINE v == SubSeq(w, n2 + 1, Len(w))
    <2>4. IsSeq(v) /\ Len(v) = Len(w) - n2 /\ \A i \in 1..(Len(w) - n2) : v[i] = w[n2 + i]
      BY <1>9, <2>2, SeqSplit
    <2> HIDE DEF v
    <2>5. v = c
      <3>1. Len(v) = Len(c)
        BY <2>2, <2>4, <1>5
      <3>2. ASSUME NEW i \in 1..Len(v)  PROVE v[i] = c[i]
        <4>1. Len(R) # 0 /\ i \in 1..(Len(L) - n)
          BY <3>1, <1>1, <1>3, <1>4, <1>5
        <4> QED BY <4>1, <2>2, <2>4, <1>4, <1>13
      <3> QED BY <3>1, <3>2, <2>4, <1>5, SeqSame
    <2>6. c \o f = c
      <3>1. c \in Seq({c[i] : i \in DOMAIN c})
        BY <1>5 DEF IsSeq
      <3>2. c \o <<>> = c
        BY <3>1
      <3> QED BY <3>2, <1>14
    <2> QED BY <2>3, <2>5, <2>6 DEF v, c, f
  <1>15. CASE f # <<>>
    <2>1. W # <<>> /\ f = h /\ Len(h) = 1 /\ (R # <<>> \/ hasData(KindOf(h[1])))
      BY <1>15, <1>6, <1>2
    <2>2. StopsAt(w, n)
      <3>1. \A i \in 1..n : i \in 1..Len(a)
        BY <1>1, <1>3
      <3>2. ASSUME NEW i \in 1..n  PROVE ~hasData(KindOf(w[i]))
        BY <3>1, <1>3, <1>11 DEF StopsAt
      <3>3. hasData(KindOf(w[n + 1]))
        <4>1. CASE n < Len(a)
          <5>1. n + 1 \in 1..Len(a) /\ hasData(KindOf(a[n + 1]))
            BY <4>1, <1>1, <1>3 DEF StopsAt
          <5> QED BY <5>1, <1>11
        <4>2. CASE ~(n < Len(a))
          <5>1. n = Len(a) /\ R = <<>> /\ w[n + 1] = h[1]
            BY <4>2, <2>1, <1>1, <1>3, <1>4, <1>12
          <5> QED BY <5>1, <2>1
        <4> QED BY <4>1, <4>2
      <3>4. n \in 0..Len(w)
        BY <1>1, <1>3, <1>10, <2>1
      <3> QED BY <3>2, <3>3, <3>4 DEF StopsAt
    <2>3. PassNoData(mm).wrData = SubSeq(w, n + 1, Len(w))
      BY <2>2, <1>7, <1>9, PassAt
    <2> DEFINE v == SubSeq(w, n + 1, Len(w))
    <2>4. n \in 0..Len(w)
      BY <2>2 DEF StopsAt
    <2>5. IsSeq(v) /\ Len(v) = Len(w) - n /\ \A i \in 1..(Len(w) - n) : v[i] = w[n + i]
      BY <1>9, <2>4, SeqSplit
    <2> DEFINE g == c \o h
    <2>c. IsSeq(c)
      BY <1>5
    <2>h. IsSeq(h)
      BY <1>8
    <2>6. IsSeq(g)
      BY <2>c, <2>h, SeqConcat
    <2>7. Len(g) = Len(c) + Len(h)
      BY <2>c, <2>h, SeqConcat
    <2>8. \A i \in 1..Len(c) : g[i] = c[i]
      BY <2>c, <2>h, SeqConcat
    <2>9. \A i \in 1..Len(h) : g[Len(c) + i] = h[i]
      BY <2>c, <2>h, SeqConcat
    <2> HIDE DEF v, g
    <2>10. v = g
      <3>1. Len(v) = Len(g) /\ Len(g) = (Len(L) - n) + 1
        BY <2>1, <2>5, <2>7, <1>1, <1>3, <1>4, <1>5, <1>10
      <3>2. ASSUME NEW i \in 1..Len(v)  PROVE v[i] = g[i]
        <4>1. v[i] = w[n + i]
          BY <2>1, <2>5, <3>1, <1>1, <1>10
        <4>2. CASE i \in 1..(Len(L) - n)
          BY <4>1, <4>2, <2>8, <1>4, <1>5, <1>13
        <4>3. CASE i \notin 1..(Len(L) - n)
          <5>1. i = (Len(L) - n) + 1 /\ n + i = Len(a) + 1 /\ i = Len(c) + 1 /\ 1 \in 1..Len(h)
            BY <4>3, <3>1, <2>1, <1>1, <1>3, <1>4, <1>5
          <5> QED BY <5>1, <4>1, <2>9, <1>12
        <4> QED BY <4>2, <4>3
      <3> QED BY <3>1, <3>2, <2>5, <2>6, SeqSame
    <2>11. PassNoData(mm).wrData = c \o f
      BY <2>1, <2>3, <2>10 DEF v, g
    <2> QED BY <2>11 DEF c, f
  <1> QED BY <1>14, <1>15

(***************************************************************************)
(* What the thread of W has: its first transaction, with its first beat.   *)
(***************************************************************************)
\* A payload has a beat.
LEMMA CeilingOne ==
    ASSUME NEW n \in Nat \ {0}, NEW g \in 1..8
    PROVE  (n + g - 1) \div g \in Nat \ {0}
  <1>1. CASE g = 1
    BY <1>1
  <1>2. CASE g = 2
    BY <1>2
  <1>3. CASE g = 3
    BY <1>3
  <1>4. CASE g = 4
    BY <1>4
  <1>5. CASE g = 5
    BY <1>5
  <1>6. CASE g = 6
    BY <1>6
  <1>7. CASE g = 7
    BY <1>7
  <1>8. CASE g = 8
    BY <1>8
  <1> QED BY <1>1, <1>2, <1>3, <1>4, <1>5, <1>6, <1>7, <1>8

\* The first beat begins at the first byte.
LEMMA FirstBeat ==
    ASSUME NEW p, Regular(p)
    PROVE  NumBeats(p) \in Nat /\ 1 \in 1..NumBeats(p) /\ PosAt(p, 1) = 0
  <1> DEFINE w == GetBurstWidth(p)
             o == p.addr % w
  <1>1. p.addr \in Nat /\ p.len \in Nat \ {0} /\ w \in Widths /\ Bus % w = 0
    BY DEF Regular
  <1>2. NumBeats(p) = IF SetupBurstType(p) = "FIXED" THEN (p.len + w - o - 1) \div (w - o)
                      ELSE (p.len + o + w - 1) \div w
    BY DEF NumBeats
  <1>3. PosAt(p, 1) = IF SetupBurstType(p) = "FIXED" THEN (1 - 1) * (w - o) ELSE 0
    BY DEF PosAt
  <1> HIDE DEF w
  <1>4. w \in 1..8
    BY <1>1 DEF Widths
  <1>5. o \in 0..(w - 1)
    BY <1>1, WordInBus
  <1> HIDE DEF o
  <1>6. PosAt(p, 1) = 0
    <2>1. (1 - 1) * (w - o) = 0
      BY <1>4, <1>5
    <2> QED BY <2>1, <1>3
  <1>7. NumBeats(p) \in Nat \ {0}
    <2>1. CASE SetupBurstType(p) = "FIXED"
      <3> DEFINE g == w - o
      <3>1. g \in 1..8 /\ p.len + w - o - 1 = p.len + g - 1
        BY <1>1, <1>4, <1>5
      <3>2. NumBeats(p) = (p.len + g - 1) \div g
        BY <2>1, <3>1, <1>2
      <3> HIDE DEF g
      <3> QED BY <3>1, <3>2, <1>1, CeilingOne
    <2>2. CASE SetupBurstType(p) # "FIXED"
      <3> DEFINE n == p.len + o
      <3>1. n \in Nat \ {0}
        BY <1>1, <1>4, <1>5
      <3>2. NumBeats(p) = (n + w - 1) \div w
        BY <2>2, <1>2
      <3> HIDE DEF n
      <3> QED BY <3>1, <3>2, <1>4, CeilingOne
    <2> QED BY <2>1, <2>2
  <1> QED BY <1>6, <1>7

\* The writes with data of the scenarios are regular.
LEMMA RegularTxn ==
    ASSUME WholeBursts, scn \in Scenarios, NEW t \in Txns, Validate(t), IsWrite(t), hasData(KindOf(t))
    PROVE  Regular(Txn(t).p)
  <1> DEFINE p == Txn(t).p
  <1>1. p.addr \in Nat /\ p.len \in Nat /\ p.sw \in Nat /\ p.bw \in Nat
    BY ScenarioAssumption DEF Txn, Txns
  <1>2. p.len > 0 /\ p.sw > 0 /\ GetBurstWidth(p) \in Widths
    BY DEF Validate, Widths
  <1>3. Bus % GetBurstWidth(p) = 0 /\ (SetupBurstType(p) = "FIXED" => GetBurstWidth(p) <= p.sw)
    BY <1>2 DEF WholeBursts, IsWrite, KindOf, Txn, Txns, Widths
  <1> HIDE DEF p
  <1>4. Regular(p)
    BY <1>1, <1>2, <1>3 DEF Regular
  <1> QED BY <1>4 DEF p

WrDataIs == m.wrData = TxnsOf(s.wrDataList) \o NextData
WrGood ==
    \A i \in DOMAIN m.wrData :
        m.wrData[i] \in Txns /\ Issued(m.wrData[i]) /\ Validate(m.wrData[i]) /\ IsWrite(m.wrData[i])

\* The thread of W has valid writes only.
LEMMA WrDataGood == Shape /\ IssueInv /\ WrDataIs => WrGood
  <1> SUFFICES ASSUME Shape, IssueInv, WrDataIs, NEW i \in DOMAIN m.wrData
               PROVE  m.wrData[i] \in Txns /\ Issued(m.wrData[i]) /\ Validate(m.wrData[i]) /\ IsWrite(m.wrData[i])
    BY DEF WrGood
  <1> DEFINE D == s.wrDataList
             W == m.wrTrans
             a == TxnsOf(D)
             n == NextData
  <1>1. IsSeq(D) /\ IsSeq(W) /\ IsSeq(m.wrData)
    BY DEF Shape
  <1>2. IsSeq(a) /\ Len(a) \in Nat /\ DOMAIN m.wrData = 1..Len(m.wrData)
    BY <1>1, TxnsOfIs, SeqLen
  <1>3. n = <<>> \/ (W # <<>> /\ n = <<W[1]>>)
    <2>1. W # <<>> => Head(W) = W[1]
      BY <1>1, SeqLen
    <2> QED BY <2>1 DEF NextData
  <1>4. m.wrData = a \o n /\ Behind("wr") = a \o W
    BY DEF WrDataIs, Behind
  <1> HIDE DEF D, W, a, n
  <1>5. IsSeq(n) /\ Len(n) \in {0, 1} /\ (Len(n) = 1 => W # <<>> /\ n[1] = W[1])
    <2>1. CASE n = <<>>
      BY <2>1, SeqEmpty
    <2>2. CASE W # <<>> /\ n = <<W[1]>>
      BY <2>2, SeqOne
    <2> QED BY <2>1, <2>2, <1>3
  <1>6. \E j \in 1..Len(Behind("wr")) : m.wrData[i] = Behind("wr")[j]
    <2>1. IsSeq(a) /\ IsSeq(n) /\ IsSeq(W)
      BY <1>1, <1>2, <1>5 DEF W
    <2>2. Len(a \o n) = Len(a) + Len(n)
      BY <2>1, SeqConcat
    <2>3. \A j \in 1..Len(a) : (a \o n)[j] = a[j]
      BY <2>1, SeqConcat
    <2>4. \A j \in 1..Len(n) : (a \o n)[Len(a) + j] = n[j]
      BY <2>1, SeqConcat
    <2>5. Len(a \o W) = Len(a) + Len(W)
      BY <2>1, SeqConcat
    <2>6. \A j \in 1..Len(a) : (a \o W)[j] = a[j]
      BY <2>1, SeqConcat
    <2>7. \A j \in 1..Len(W) : (a \o W)[Len(a) + j] = W[j]
      BY <2>1, SeqConcat
    <2> DEFINE v == a \o n
               b == a \o W
    <2>8. m.wrData = v /\ Behind("wr") = b
      BY <1>4
    <2>9. Len(W) \in Nat /\ (W # <<>> => Len(W) # 0)
      BY <2>1, SeqLen
    <2>10. i \in 1..Len(v)
      BY <1>2, <2>8
    <2>11. /\ Len(v) = Len(a) + Len(n) /\ Len(b) = Len(a) + Len(W)
           /\ (\A j \in 1..Len(a) : v[j] = a[j] /\ b[j] = a[j])
           /\ (\A j \in 1..Len(n) : v[Len(a) + j] = n[j])
           /\ (\A j \in 1..Len(W) : b[Len(a) + j] = W[j])
      BY <2>2, <2>3, <2>4, <2>5, <2>6, <2>7
    <2> HIDE DEF v, b
    <2>12. \E j \in 1..Len(b) : v[i] = b[j]
      <3>1. CASE i \in 1..Len(a)
        <4>1. i \in 1..Len(b) /\ v[i] = b[i]
          BY <3>1, <1>2, <2>9, <2>11
        <4> QED BY <4>1
      <3>2. CASE i \notin 1..Len(a)
        <4>a. Len(v) = Len(a) + Len(n) /\ Len(a) \in Nat /\ Len(n) \in {0, 1} /\ i \in 1..Len(v)
          BY <1>2, <1>5, <2>10, <2>11
        <4>1. Len(n) = 1 /\ i = Len(a) + 1
          <5>1. \A x \in Nat, y \in {0, 1} : \A z \in 1..(x + y) : z \notin 1..x => y = 1 /\ z = x + 1
            OBVIOUS
          <5> QED BY <3>2, <4>a, <5>1
        <4>2. 1 \in 1..Len(n) /\ 1 \in 1..Len(W)
          BY <4>1, <1>5, <2>9
        <4>3. v[Len(a) + 1] = n[1] /\ b[Len(a) + 1] = W[1]
          BY <4>2, <2>11
        <4>4. Len(a) + 1 \in 1..Len(b)
          BY <4>2, <1>2, <2>9, <2>11
        <4> QED BY <4>1, <4>3, <4>4, <1>5
      <3> QED BY <3>1, <3>2
    <2> QED BY <2>8, <2>12
  <1>7. PICK j \in 1..Len(Behind("wr")) : m.wrData[i] = Behind("wr")[j]
    BY <1>6
  <1> DEFINE h == Len(s.list["wr"]) + j
  <1>8. h \in DOMAIN Path("wr") /\ Path("wr")[h] = m.wrData[i]
    BY <1>7, PathIs, "wr" \in Lists DEF Lists
  <1> HIDE DEF h
  <1>9. m.wrData[i] \in Txns /\ Issued(m.wrData[i]) /\ Carries("wr", m.wrData[i]) /\ Validate(m.wrData[i])
    BY <1>8, "wr" \in Lists DEF IssueInv, Lists
  <1> QED BY <1>9 DEF Carries, IsWrite

\* The same of the next state.
LEMMA NextWrDataGood == Shape' /\ IssueInv' /\ WrDataIs' => WrGood'
  BY WrDataGood, PTL

\* The thread takes a transaction.
LEMMA WrDataStarts ==
    ASSUME WholeBursts, Shape', IssueInv', WrDataIs', scn' = scn,
           m'.wrData # <<>> => hasData(KindOf(Head(m'.wrData))),
           m'.pos = 0, m'.beat = 1, \A i \in DOMAIN s'.wrDataList : s'.wrDataList[i].beat = 1
    PROVE  WrDataInv'
  <1>1. WrGood'
    BY NextWrDataGood
  <1>2. /\ Txns' = Txns
        /\ \A t : KindOf(t)' = KindOf(t) /\ Txn(t)' = Txn(t) /\ (Validate(t)' <=> Validate(t))
        /\ \A t : IsWrite(t)' <=> IsWrite(t)
    BY SameScenario DEF IsWrite
  <1>3. IsSeq(m'.wrData) /\ scn' \in Scenarios
    BY DEF Shape
  <1>4. ASSUME m'.wrData # <<>>
        PROVE  LET t == Head(m'.wrData) IN
               hasData(KindOf(t)) /\ 1 \in 1..NumBeats(Txn(t).p) /\ PosAt(Txn(t).p, 1) = 0
    <2> DEFINE t == m'.wrData[1]
    <2>1. Head(m'.wrData) = t /\ 1 \in DOMAIN m'.wrData
      BY <1>3, <1>4, SeqLen
    <2>2. t \in Txns' /\ Validate(m.wrData[1])' /\ IsWrite(m.wrData[1])'
      BY <1>1, <2>1 DEF WrGood
    <2>3. t \in Txns /\ Validate(t) /\ IsWrite(t)
      BY <1>2, <2>2
    <2>4. hasData(KindOf(t))
      BY <1>4, <2>1
    <2> HIDE DEF t
    <2>5. Regular(Txn(t).p)
      BY <1>3, <2>3, <2>4, RegularTxn
    <2> QED BY <2>1, <2>4, <2>5, FirstBeat
  <1>5. m'.wrData # <<>> =>
          (LET t == Head(m.wrData) IN
           hasData(KindOf(t)) /\ m.beat \in 1..NumBeats(Txn(t).p) /\ m.pos = PosAt(Txn(t).p, m.beat))'
    BY <1>2, <1>4
  <1> QED BY <1>5 DEF WrDataInv, WrDataIs

\* The thread goes on with the transaction that it has.
LEMMA WrDataGoes ==
    ASSUME WrDataInv, WrDataIs', scn' = scn, m.wrData # <<>>, m'.wrData # <<>>,
           Head(m'.wrData) = Head(m.wrData), m'.pos = m.pos, m'.beat = m.beat,
           s.wrDataList = <<>> \/ s'.wrDataList # <<>>,
           \A i \in DOMAIN s'.wrDataList : s'.wrDataList[i].beat = IF i = 1 THEN m.beat ELSE 1
    PROVE  WrDataInv'
  <1>1. \A t : KindOf(t)' = KindOf(t) /\ Txn(t)' = Txn(t)
    BY SameScenario
  <1>2. (LET t == Head(m.wrData) IN
         hasData(KindOf(t)) /\ m.beat \in 1..NumBeats(Txn(t).p) /\ m.pos = PosAt(Txn(t).p, m.beat))'
    BY <1>1 DEF WrDataInv
  <1>3. s'.wrDataList = <<>> => m'.beat = 1
    BY DEF WrDataInv
  <1> QED BY <1>2, <1>3 DEF WrDataInv, WrDataIs

(***************************************************************************)
(* The handshakes of AR, AW and W: the slave takes what is to join a list. *)
(***************************************************************************)
\* What waits behind a list belongs there.
LEMMA BehindGood ==
    ASSUME Shape, IssueInv, NEW l \in Lists, NEW i \in 1..Len(Behind(l))
    PROVE  Behind(l)[i] \in Txns /\ Carries(l, Behind(l)[i])
  <1> DEFINE h == Len(s.list[l]) + i
  <1>1. h \in DOMAIN Path(l) /\ Path(l)[h] = Behind(l)[i]
    BY PathIs
  <1> HIDE DEF h
  <1> QED BY <1>1 DEF IssueInv

\* The entry that an address phase makes.
LEMMA EntryOf ==
    ASSUME NEW t \in Txns
    PROVE  /\ IsEntry(Entry(AxChannel(t))) /\ Entry(AxChannel(t)).x = AxChannel(t) /\ AxChannel(t).t = t
           /\ ~Entry(AxChannel(t)).abort /\ (IsWrite(t) => Entry(AxChannel(t)).beat = 1)
  <1>1. AxChannel(t).t = t /\ AxChannel(t).kind = KindOf(t)
    BY DEF AxChannel, KindOf
  <1>2. /\ DOMAIN Entry(AxChannel(t)) = {"x", "beat", "idx", "data", "at", "abort"}
        /\ Entry(AxChannel(t)).x = AxChannel(t) /\ Entry(AxChannel(t)).at = "queued"
        /\ Entry(AxChannel(t)).abort = FALSE
        /\ Entry(AxChannel(t)).beat
             = IF HasSingleRdDataTransfer(AxChannel(t).kind) THEN AxChannel(t).beats ELSE 1
    BY DEF Entry
  <1>3. IsEntry(Entry(AxChannel(t)))
    BY <1>1, <1>2 DEF IsEntry
  <1>4. IsWrite(t) => ~HasSingleRdDataTransfer(KindOf(t))
    BY DEF IsWrite, IsReadKind, HasSingleRdDataTransfer
  <1> QED BY <1>1, <1>2, <1>3, <1>4

\* A list of the slave takes the transactions new, which come from behind it.
TakesIn(l, new) ==
    /\ IsSeq(new) /\ \A i \in DOMAIN new : IsEntry(new[i]) /\ ~new[i].abort
    /\ s'.list[l] = Joined(s.list[l], new) /\ Behind(l) = TxnsOf(new) \o Behind(l)'

\* A handshake that passes transactions on to a list keeps the order.
LEMMA JoinKeeps ==
    ASSUME AxiInv, Shape', scn' = scn, m'.issued = m.issued, m'.status = m.status, m'.up = TRUE,
           \A f \in {"ran", "out", "ack"} : s'[f] = s[f],
           \A l \in Lists : \/ s'.list[l] = s.list[l] /\ Behind(l)' = Behind(l)
                            \/ \E new : TakesIn(l, new),
           \A i \in DOMAIN s'.wrDataList : IsEntry(s'.wrDataList[i]) /\ ~s'.wrDataList[i].abort
    PROVE  EntryInv' /\ DownInv' /\ RunInv'
  <1> USE DEF AxiInv
  <1>1. ASSUME NEW l \in Lists
        PROVE  Thins(l) /\ IdsWait(l)' /\ \A i \in DOMAIN s'.list[l] : IsEntry(s.list[l][i])'
    <2>0. IdsWait(l)
      BY DEF RunInv, TogetherInv
    <2>1. CASE s'.list[l] = s.list[l] /\ Behind(l)' = Behind(l)
      <3>1. Path(l)' = Path(l)
        BY <2>1 DEF Path
      <3>2. \A i \in DOMAIN s'.list[l] : IsEntry(s.list[l][i])'
        BY <2>1, SameEntry DEF EntryInv
      <3> QED BY <2>0, <2>1, <3>1, <3>2, ListStays
    <2>2. CASE \E new : TakesIn(l, new)
      <3>1. PICK new : TakesIn(l, new)
        BY <2>2
      <3>2. /\ IsSeq(new) /\ \A i \in DOMAIN new : IsEntry(new[i])
            /\ s'.list[l] = Joined(s.list[l], new) /\ Behind(l) = TxnsOf(new) \o Behind(l)'
        BY <3>1 DEF TakesIn
      <3> QED BY <2>0, <3>2, ListJoins
    <2> QED BY <2>1, <2>2
  <1>2. EntryInv'
    <2>1. \A i \in DOMAIN s'.wrDataList : IsEntry(s.wrDataList[i])' /\ ~s'.wrDataList[i].abort
      BY SameEntry
    <2>2. \A l \in Lists : s'.ack[l] => s'.out[l] # <<>>
      BY DEF EntryInv
    <2> QED BY <1>1, <2>1, <2>2 DEF EntryInv
  <1>3. DownInv'
    BY DEF DownInv
  <1>4. RunInv'
    BY <1>1, RunKeeps
  <1> QED BY <1>2, <1>3, <1>4

\* The handshake of AR.
LEMMA ArKeeps ==
    ASSUME AxiInv, ArHandshake
    PROVE  AxiInv'
  <1> USE DEF AxiInv
  <1> DEFINE R == m.rdTrans
             t == R[1]
             x == AxChannel(t)
             new == <<Entry(x)>>
             J == Joined(s.list["rd"], new)
  <1>1. /\ DOMAIN m = MasterFields /\ DOMAIN s = SlaveFields /\ IsSeq(R)
        /\ DOMAIN s.list = Lists /\ DOMAIN s.num = Lists /\ \A l \in Lists : IsSeq(s.list[l])
    BY DEF Shape
  <1>2. R # <<>> /\ m.up /\ ArDone /\ ArTake(AxChannel(Head(R))) /\ scn' = scn
    BY DEF ArHandshake, ArValid, Quiet
  <1>3. R = <<t>> \o Tail(R) /\ Head(R) = t /\ IsSeq(Tail(R)) /\ 1 \in 1..Len(R)
    BY <1>1, <1>2, SeqFirst, SeqTail, SeqLen
  <1>4. /\ DOMAIN m' = MasterFields /\ m'.rdTrans = Tail(R)
        /\ \A f \in {"wrTrans", "wrData", "pos", "beat", "issued", "up", "status"} : m'[f] = m[f]
    BY <1>1, <1>2 DEF ArDone, MasterFields
  <1>5. /\ DOMAIN s' = SlaveFields /\ s'.list = [s.list EXCEPT !["rd"] = J] /\ s'.num = [s.num EXCEPT !["rd"] = @ + 1]
        /\ \A f \in {"wrDataList", "ran", "out", "ack", "unexpected"} : s'[f] = s[f]
    <2>1. ArTake(x)
      BY <1>2, <1>3
    <2> HIDE DEF x
    <2> QED BY <1>1, <2>1 DEF ArTake, SlaveFields
  <1>6. Behind("rd") = R /\ Behind("wr")' = Behind("wr") /\ Behind("rd")' = Tail(R)
    BY <1>4, <1>5 DEF Behind
  <1>7. t \in Txns
    BY <1>3, <1>6, BehindGood, "rd" \in Lists DEF RunInv, Lists
  <1>8. IsEntry(Entry(x)) /\ Entry(x).x.t = t /\ ~Entry(x).abort
    BY <1>7, EntryOf
  <1> HIDE DEF x
  <1>9. IsSeq(new) /\ Len(new) = 1 /\ DOMAIN new = {1} /\ new[1] = Entry(x) /\ TxnsOf(new) = <<t>>
    BY <1>8, SeqOne, TxnsOfOne
  <1> HIDE DEF new, R, t
  <1>10. \A i \in DOMAIN new : IsEntry(new[i]) /\ ~new[i].abort
    BY <1>8, <1>9
  <1>11. IsSeq(J)
    BY <1>1, <1>9, <1>10, JoinedIs DEF Lists
  <1>12. s'.list["rd"] = J /\ s'.list["wr"] = s.list["wr"] /\ DOMAIN s'.list = Lists /\ DOMAIN s'.num = Lists
         /\ s'.num["rd"] = s.num["rd"] + 1 /\ s'.num["wr"] = s.num["wr"]
    BY <1>1, <1>5 DEF Lists
  <1>13. Txns' = Txns
    BY <1>2, SameScenario
  <1>14. Shape'
    <2>1. \A l \in Lists : IsSeq(s'.list[l])
      BY <1>1, <1>11, <1>12 DEF Lists
    <2> QED BY <2>1, <1>2, <1>3, <1>4, <1>5, <1>12, <1>13 DEF Shape, R
  <1>15. TakesIn("rd", new)
    <2>1. Behind("rd") = TxnsOf(new) \o Behind("rd")'
      BY <1>3, <1>6, <1>9
    <2> QED BY <2>1, <1>9, <1>10, <1>12 DEF TakesIn, J
  <1>16. EntryInv' /\ DownInv' /\ RunInv'
    <2>1. \A l \in Lists : (s'.list[l] = s.list[l] /\ Behind(l)' = Behind(l)) \/ \E z : TakesIn(l, z)
      BY <1>6, <1>12, <1>15 DEF Lists
    <2>2. \A i \in DOMAIN s'.wrDataList : IsEntry(s'.wrDataList[i]) /\ ~s'.wrDataList[i].abort
      BY <1>5 DEF EntryInv
    <2> QED BY <2>1, <2>2, <1>2, <1>4, <1>5, <1>14, JoinKeeps
  <1>17. WrDataInv'
    <2>1. \A u : Txn(u)' = Txn(u) /\ KindOf(u)' = KindOf(u)
      BY <1>2, SameScenario
    <2>2. NextData' = NextData
      BY <1>4, <1>5, <2>1 DEF NextData
    <2> QED BY <1>4, <1>5, <2>1, <2>2 DEF WrDataInv
  <1>18. NumInv'
    <2>1. Live(J) = Live(s.list["rd"]) + 1
      BY <1>1, <1>9, <1>10, LiveJoined DEF Lists
    <2> HIDE DEF J
    <2>2. ASSUME NEW l \in Lists
          PROVE  s'.num[l] = Live(s'.list[l]) + Len(s'.out[l]) + (IF l = "wr" THEN Len(s'.wrDataList) ELSE 0)
      <3>1. /\ Live(s.list[l]) \in Nat /\ Len(s.out[l]) \in Nat /\ Len(s.wrDataList) \in Nat
        BY LensAre
      <3>2. s.num[l] = Live(s.list[l]) + Len(s.out[l]) + (IF l = "wr" THEN Len(s.wrDataList) ELSE 0)
        BY DEF NumInv
      <3>3. CASE l = "rd"
        <4>1. s'.num[l] = s.num[l] + 1 /\ Live(s'.list[l]) = Live(s.list[l]) + 1 /\ s'.out[l] = s.out[l]
          BY <3>3, <2>1, <1>5, <1>12
        <4> QED BY <3>1, <3>2, <3>3, <4>1
      <3>4. CASE l = "wr"
        BY <3>2, <3>4, <1>5, <1>12
      <3> QED BY <3>3, <3>4 DEF Lists
    <2> QED BY <2>2, <1>5 DEF NumInv
  <1> QED BY <1>14, <1>16, <1>17, <1>18

(***************************************************************************)
(* What the thread of W has, when a transaction is handed to it.           *)
(***************************************************************************)
\* A sequence is a part of itself.
LEMMA SeqAll ==
    ASSUME NEW q, IsSeq(q)
    PROVE  SubSeq(q, 1, Len(q)) = q
  <1>1. Len(q) \in Nat /\ Len(q) \in 0..Len(q)
    BY SeqLen
  <1> DEFINE a == SubSeq(q, 1, Len(q))
  <1>2. IsSeq(a) /\ Len(a) = Len(q) /\ \A i \in 1..Len(q) : a[i] = q[i]
    BY <1>1, SeqSplit
  <1> HIDE DEF a
  <1>3. a = q
    BY <1>2, SeqSame
  <1> QED BY <1>3 DEF a

\* Appending and concatenation.
LEMMA AppendConcat ==
    ASSUME NEW p, NEW q, IsSeq(p), IsSeq(q), NEW x
    PROVE  p \o Append(q, x) = Append(p \o q, x) /\ Append(p, x) = p \o <<x>> /\ p \o <<>> = p
           /\ Append(<<>>, x) = <<x>>
  <1> DEFINE S == {p[i] : i \in DOMAIN p} \cup {q[i] : i \in DOMAIN q} \cup {x}
  <1>1. p \in Seq(S) /\ q \in Seq(S) /\ x \in S
    BY DEF IsSeq
  <1> HIDE DEF S
  <1>2. p \o Append(q, x) = Append(p \o q, x)
    BY <1>1
  <1>3. Append(p, x) = p \o <<x>>
    BY <1>1
  <1>4. p \o <<>> = p
    BY <1>1
  <1>5. Append(<<>>, x) = <<x>>
    BY <1>1
  <1> QED BY <1>2, <1>3, <1>4, <1>5

\* Nothing is skipped if the first one that waits in the slave has data.
LEMMA PassAll ==
    ASSUME NEW mm, DOMAIN mm = MasterFields, NEW L, IsSeq(L), NEW W,
           mm.wrData = TxnsOf(L) \o HeadOf(W), StopsAt(TxnsOf(L), 0)
    PROVE  PassNoData(mm).wrData = TxnsOf(L) \o Follows(L, W)
  <1>1. PICK n : n = 0
    OBVIOUS
  <1>2. StopsAt(TxnsOf(L), n)
    BY <1>1
  <1>3. n + 1 = 1
    BY <1>1
  <1> DEFINE R == SubSeq(L, n + 1, Len(L))
  <1>4. R = L
    BY <1>3, SeqAll
  <1>5. R = SubSeq(L, n + 1, Len(L))
    OBVIOUS
  <1> HIDE DEF R
  <1>6. PassNoData(mm).wrData = TxnsOf(R) \o Follows(R, W)
    BY <1>2, <1>5, PassData
  <1> QED BY <1>4, <1>6

\* The next transaction with data, before and after a step.
LEMMA NextDataIs ==
    ASSUME scn' = scn
    PROVE  NextData' = Follows(s'.wrDataList, m'.wrTrans) /\ NextData = Follows(s.wrDataList, m.wrTrans)
  BY SameScenario DEF NextData, Follows

\* What follows those that wait is the next transaction on AW, or nothing.
LEMMA FollowsIs ==
    ASSUME NEW R, NEW W
    PROVE  IsSeq(Follows(R, W)) /\ (R # <<>> => Follows(R, W) = HeadOf(W)) /\ Follows(R, <<>>) = <<>>
  <1>1. Follows(R, W) = <<>> \/ Follows(R, W) = <<Head(W)>>
    BY DEF Follows
  <1>2. IsSeq(Follows(R, W))
    BY <1>1, SeqEmpty, SeqOne
  <1> QED BY <1>2 DEF Follows, HeadOf

\* The thread of W sends the data of the first one that waits in the slave.
LEMMA WrDataHead ==
    ASSUME Shape, WrDataInv
    PROVE  /\ StopsAt(TxnsOf(s.wrDataList), 0)
           /\ s.wrDataList # <<>> => m.wrData # <<>> /\ Head(m.wrData) = s.wrDataList[1].x.t
  <1> DEFINE D == s.wrDataList
             a == TxnsOf(D)
             n == NextData
  <1>1. IsSeq(D) /\ Len(D) \in Nat /\ (D = <<>> <=> Len(D) = 0) /\ IsSeq(m.wrData)
    BY SeqLen DEF Shape
  <1>2. IsSeq(a) /\ Len(a) = Len(D) /\ \A i \in 1..Len(D) : a[i] = D[i].x.t
    BY <1>1, TxnsOfIs
  <1>3. IsSeq(n)
    <2>1. n = Follows(s.wrDataList, m.wrTrans)
      BY DEF NextData, Follows
    <2> QED BY <2>1, FollowsIs
  <1>4. m.wrData = a \o n
    BY DEF WrDataInv
  <1> HIDE DEF a, n
  <1>5. Len(a \o n) = Len(a) + Len(n)
    BY <1>2, <1>3, SeqConcat
  <1>6. \A i \in 1..Len(a) : (a \o n)[i] = a[i]
    BY <1>2, <1>3, SeqConcat
  <1>7. Len(n) \in Nat
    BY <1>3, SeqLen
  <1>8. ASSUME D # <<>>  PROVE m.wrData # <<>> /\ Head(m.wrData) = D[1].x.t
    <2>1. 1 \in 1..Len(D) /\ Len(m.wrData) # 0
      BY <1>1, <1>2, <1>4, <1>5, <1>7, <1>8
    <2>2. m.wrData # <<>> /\ Head(m.wrData) = m.wrData[1]
      BY <2>1, <1>1, SeqLen
    <2> QED BY <2>1, <2>2, <1>2, <1>4, <1>6
  <1>9. StopsAt(a, 0)
    <2>1. 0 < Len(a) => hasData(KindOf(a[1]))
      <3> SUFFICES ASSUME 0 < Len(a)  PROVE hasData(KindOf(a[1]))
        OBVIOUS
      <3>1. D # <<>> /\ 1 \in 1..Len(D)
        BY <1>1, <1>2
      <3>2. a[1] = Head(m.wrData) /\ m.wrData # <<>>
        BY <3>1, <1>2, <1>8
      <3> QED BY <3>2 DEF WrDataInv
    <2> QED BY <2>1, <1>1, <1>2 DEF StopsAt
  <1> QED BY <1>8, <1>9 DEF a

\* A write that is issued is given to the thread of W if no other waits for AW.
LEMMA WriteIssueKeeps ==
    ASSUME AxiInv, WholeBursts, NEW t, NEW mm, DOMAIN mm = MasterFields,
           mm.wrTrans = Append(m.wrTrans, t),
           mm.wrData = (IF m.wrTrans = <<>> THEN Append(m.wrData, t) ELSE m.wrData),
           mm.pos = m.pos, mm.beat = m.beat, m' = PassNoData(mm), s' = s, scn' = scn, Shape', IssueInv'
    PROVE  WrDataInv'
  <1> USE DEF AxiInv
  <1> DEFINE D == s.wrDataList
             W == m.wrTrans
  <1>1. IsSeq(D) /\ IsSeq(W) /\ IsSeq(m.wrData) /\ IsSeq(TxnsOf(D))
    BY TxnsOfIs DEF Shape
  <1>2. IsSeq(mm.wrData)
    BY <1>1, SeqAppend
  <1>3. /\ m'.wrTrans = mm.wrTrans /\ m'.pos = mm.pos /\ m'.beat = mm.beat
        /\ (m'.wrData # <<>> => hasData(KindOf(Head(m'.wrData))))
    BY <1>2, PassIs, PassHead DEF MasterFields
  <1>4. StopsAt(TxnsOf(D), 0) /\ (D # <<>> => m.wrData # <<>> /\ Head(m.wrData) = D[1].x.t)
    BY WrDataHead
  <1>5. m.wrData = TxnsOf(D) \o Follows(D, W)
    BY NextDataIs DEF WrDataInv
  <1>6. NextData' = Follows(D, m'.wrTrans)
    BY NextDataIs
  <1>7. m.wrData # <<>> => m'.wrData = mm.wrData /\ mm.wrData # <<>> /\ Head(mm.wrData) = Head(m.wrData)
    <2> SUFFICES ASSUME m.wrData # <<>>
                 PROVE  m'.wrData = mm.wrData /\ mm.wrData # <<>> /\ Head(mm.wrData) = Head(m.wrData)
      OBVIOUS
    <2>1. hasData(KindOf(Head(m.wrData)))
      BY DEF WrDataInv
    <2>2. Head(m.wrData) = m.wrData[1] /\ 1 \in DOMAIN m.wrData
      BY <1>1, SeqLen
    <2>3. mm.wrData # <<>> /\ mm.wrData[1] = m.wrData[1]
      BY <2>2, <1>1, SeqAppend
    <2>4. Head(mm.wrData) = mm.wrData[1]
      BY <2>3, <1>2, SeqLen
    <2>5. m'.wrData = mm.wrData
      BY <2>1, <2>2, <2>3, <1>2, PassNone
    <2> QED BY <2>2, <2>3, <2>4, <2>5
  <1>8. m'.wrData = TxnsOf(D) \o Follows(D, m'.wrTrans)
    <2>1. CASE W = <<>>
      <3>1. m'.wrTrans = <<t>> /\ Head(m'.wrTrans) = t /\ m'.wrTrans # <<>>
        <4>1. m'.wrTrans = Append(<<>>, t)
          BY <2>1, <1>3
        <4>2. Append(<<>>, t) = <<t>>
          OBVIOUS
        <4>3. Head(<<t>>) = t /\ <<t>> # <<>>
          OBVIOUS
        <4> QED BY <4>1, <4>2, <4>3
      <3>2. m.wrData = TxnsOf(D)
        BY <2>1, <1>1, <1>5, FollowsIs, AppendConcat
      <3>3. mm.wrData = TxnsOf(D) \o HeadOf(m'.wrTrans)
        BY <2>1, <3>1, <3>2, <1>1, AppendConcat DEF HeadOf
      <3> HIDE DEF D, W
      <3> DEFINE V == m'.wrTrans
      <3>4. IsSeq(D) /\ StopsAt(TxnsOf(D), 0) /\ mm.wrData = TxnsOf(D) \o HeadOf(V)
        BY <3>3, <1>1, <1>4
      <3> HIDE DEF V
      <3>5. PassNoData(mm).wrData = TxnsOf(D) \o Follows(D, V)
        BY <3>4, PassAll
      <3> QED BY <3>5 DEF V
    <2>2. CASE W # <<>>
      <3>1. m'.wrTrans # <<>> /\ Head(m'.wrTrans) = Head(W)
        <4>1. Head(W) = W[1] /\ 1 \in DOMAIN W
          BY <2>2, <1>1, SeqLen
        <4>2. m'.wrTrans # <<>> /\ m'.wrTrans[1] = W[1] /\ IsSeq(m'.wrTrans)
          BY <4>1, <1>1, <1>3, SeqAppend
        <4>3. Head(m'.wrTrans) = m'.wrTrans[1]
          BY <4>2, SeqLen
        <4> QED BY <4>1, <4>2, <4>3
      <3>2. Follows(D, m'.wrTrans) = Follows(D, W)
        BY <2>2, <3>1 DEF Follows
      <3>3. mm.wrData = m.wrData
        BY <2>2
      <3>4. m'.wrData = m.wrData
        <4>1. CASE m.wrData # <<>>
          BY <4>1, <1>7, <3>3
        <4>2. CASE m.wrData = <<>>
          BY <4>2, <3>3, <1>2, PassNone
        <4> QED BY <4>1, <4>2
      <3> QED BY <3>2, <3>4, <1>5
    <2> QED BY <2>1, <2>2
  <1>9. WrDataIs'
    BY <1>6, <1>8 DEF WrDataIs, TxnsOf
  <1>10. CASE m.wrData # <<>>
    <2>1. \A i \in DOMAIN s'.wrDataList : s'.wrDataList[i].beat = IF i = 1 THEN m.beat ELSE 1
      BY DEF WrDataInv
    <2>2. s.wrDataList = <<>> \/ s'.wrDataList # <<>>
      OBVIOUS
    <2> QED BY <2>1, <2>2, <1>3, <1>7, <1>9, <1>10, WrDataGoes
  <1>11. CASE m.wrData = <<>>
    <2>1. D = <<>> /\ m.pos = 0 /\ m.beat = 1
      BY <1>4, <1>11 DEF WrDataInv
    <2>2. \A i \in DOMAIN s'.wrDataList : s'.wrDataList[i].beat = 1
      BY <2>1, SeqEmpty, SeqLen
    <2> QED BY <2>1, <2>2, <1>3, <1>9, WrDataStarts
  <1> QED BY <1>10, <1>11

\* An initiator calls b_transport.
LEMMA RequestKeeps ==
    ASSUME AxiInv, WholeBursts, NEW t \in Txns, Request(t), s' = s
    PROVE  AxiInv'
  <1> USE DEF AxiInv
  <1>1. /\ DOMAIN m = MasterFields /\ m.status \in [Txns -> Statuses] /\ scn' = scn /\ m.status[t] = "idle"
        /\ IsSeq(m.rdTrans) /\ IsSeq(m.wrTrans) /\ IsSeq(m.wrData) /\ IsSeq(m.issued)
        /\ \A l \in Lists : IsSeq(TxnsOf(s.list[l]))
    BY TxnsOfIs DEF Request, Shape
  <1>2. Txns' = Txns
    BY <1>1, SameScenario
  <1>3. CASE ~m.up \/ ~Validate(t)
    <2>1. m' = [m EXCEPT !.status[t] = "GENERIC_ERROR"]
      BY <1>3 DEF Request
    <2> QED BY <2>1, <1>1, RefusedKeeps
  <1>4. CASE m.up /\ Validate(t)
    <2> DEFINE q == [m.status EXCEPT ![t] = "pending"]
    <2>1. q \in [Txns -> Statuses]
      BY <1>1 DEF Statuses
    <2>2. \A l \in Lists : IsSeq(Behind(l))
      BY BehindIs
    <2> HIDE DEF q
    <2>3. ASSUME DOMAIN m' = MasterFields, m'.up = m.up, m'.status = q, m'.issued = Append(m.issued, t),
                 NEW c \in Lists, Carries(c, t), Behind(c)' = Append(Behind(c), t),
                 \A l \in Lists \ {c} : Behind(l)' = Behind(l),
                 IsSeq(m'.rdTrans), IsSeq(m'.wrTrans), IsSeq(m'.wrData)
          PROVE  Shape' /\ EntryInv' /\ DownInv' /\ RunInv' /\ NumInv'
      <3>1. Shape'
        <4>1. IsSeq(m'.issued)
          BY <2>3, <1>1, SeqAppend
        <4> QED BY <4>1, <2>1, <2>3, <1>1, <1>2 DEF Shape
      <3>2. EntryInv'
        BY <1>1, SameEntry DEF EntryInv
      <3>3. DownInv'
        BY <1>4, <2>3 DEF DownInv
      <3>4. Path(c)' = Append(Path(c), t)
        <4>1. TxnsOf(s.list[c]) \o Append(Behind(c), t) = Append(TxnsOf(s.list[c]) \o Behind(c), t)
          BY <1>1, <2>2, AppendConcat
        <4>2. Path(c)' = TxnsOf(s.list[c]) \o Behind(c)'
          BY DEF Path, TxnsOf
        <4> QED BY <4>1, <4>2, <2>3 DEF Path
      <3>5. \A l \in Lists \ {c} : Path(l)' = Path(l)
        BY <2>3 DEF Path, TxnsOf
      <3>6. m'.status = [m.status EXCEPT ![t] = "pending"]
        BY <2>3 DEF q
      <3>7. RunInv'
        BY <3>1, <3>4, <3>5, <3>6, <2>3, <1>1, <1>4, RunIssues
      <3>8. NumInv'
        BY DEF NumInv
      <3> QED BY <3>1, <3>2, <3>3, <3>7, <3>8
    <2>4. CASE IsReadKind(KindOf(t))
      <3>1. m' = [m EXCEPT !.status[t] = "pending", !.rdTrans = Append(@, t), !.issued = Append(@, t)]
        BY <1>4, <2>4 DEF Request, KindOf
      <3>2. /\ DOMAIN m' = MasterFields /\ m'.status = q /\ m'.rdTrans = Append(m.rdTrans, t)
            /\ m'.issued = Append(m.issued, t)
            /\ \A f \in {"wrTrans", "wrData", "pos", "beat", "up"} : m'[f] = m[f]
        BY <3>1, <1>1 DEF MasterFields, q
      <3>3. Behind("rd")' = Append(Behind("rd"), t) /\ \A l \in Lists \ {"rd"} : Behind(l)' = Behind(l)
        BY <3>2 DEF Behind, Lists, TxnsOf
      <3>4. Carries("rd", t) /\ "rd" \in Lists
        BY <2>4 DEF Carries, Lists
      <3>5. IsSeq(m'.rdTrans)
        BY <3>2, <1>1, SeqAppend
      <3>6. Shape' /\ EntryInv' /\ DownInv' /\ RunInv' /\ NumInv'
        BY <3>2, <3>3, <3>4, <3>5, <1>1, <2>3
      <3>7. WrDataInv'
        <4>1. \A u : Txn(u)' = Txn(u) /\ KindOf(u)' = KindOf(u)
          BY <1>1, SameScenario
        <4>2. NextData' = NextData
          BY <3>2, <4>1 DEF NextData
        <4> QED BY <3>2, <4>1, <4>2 DEF WrDataInv
      <3> QED BY <3>6, <3>7
    <2>5. CASE ~IsReadKind(KindOf(t))
      <3> DEFINE mm == [m EXCEPT !.status[t] = "pending", !.wrTrans = Append(@, t), !.issued = Append(@, t),
                                 !.wrData = IF m.wrTrans = <<>> THEN Append(@, t) ELSE @]
      <3>1. m' = PassNoData(mm)
        BY <1>4, <2>5 DEF Request, KindOf
      <3>2. /\ DOMAIN mm = MasterFields /\ mm.status = q /\ mm.wrTrans = Append(m.wrTrans, t)
            /\ mm.issued = Append(m.issued, t)
            /\ mm.wrData = (IF m.wrTrans = <<>> THEN Append(m.wrData, t) ELSE m.wrData)
            /\ \A f \in {"rdTrans", "pos", "beat", "up"} : mm[f] = m[f]
        BY <1>1 DEF MasterFields, q
      <3> HIDE DEF mm
      <3>3. IsSeq(mm.wrData)
        BY <3>2, <1>1, SeqAppend
      <3>4. /\ DOMAIN m' = MasterFields /\ IsSeq(m'.wrData)
            /\ \A f \in {"status", "wrTrans", "issued", "rdTrans", "pos", "beat", "up"} : m'[f] = mm[f]
        BY <3>1, <3>2, <3>3, PassIs, PassHead DEF MasterFields
      <3>5. Behind("wr")' = Append(Behind("wr"), t) /\ \A l \in Lists \ {"wr"} : Behind(l)' = Behind(l)
        <4>1. IsSeq(TxnsOf(s.wrDataList))
          BY TxnsOfIs DEF Shape
        <4>2. TxnsOf(s.wrDataList) \o Append(m.wrTrans, t) = Append(TxnsOf(s.wrDataList) \o m.wrTrans, t)
          <5> DEFINE a == TxnsOf(s.wrDataList)
                     b == m.wrTrans
          <5>1. IsSeq(a) /\ IsSeq(b)
            BY <4>1, <1>1
          <5> HIDE DEF a, b
          <5>2. a \o Append(b, t) = Append(a \o b, t)
            BY <5>1, AppendConcat
          <5> QED BY <5>2 DEF a, b
        <4>3. Behind("wr")' = TxnsOf(s.wrDataList) \o Append(m.wrTrans, t)
          BY <3>2, <3>4 DEF Behind, TxnsOf
        <4> QED BY <4>2, <4>3, <3>2, <3>4 DEF Behind, Lists
      <3>6. Carries("wr", t) /\ "wr" \in Lists
        BY <2>5 DEF Carries, Lists
      <3>7. IsSeq(m'.wrTrans) /\ IsSeq(m'.rdTrans)
        <4>1. IsSeq(m.wrTrans) /\ IsSeq(m.rdTrans)
          BY <1>1
        <4>2. IsSeq(Append(m.wrTrans, t))
          BY <4>1, SeqAppend
        <4>3. m'.wrTrans = Append(m.wrTrans, t) /\ m'.rdTrans = m.rdTrans
          BY <3>2, <3>4
        <4> QED BY <4>1, <4>2, <4>3
      <3>8. Shape' /\ EntryInv' /\ DownInv' /\ RunInv' /\ NumInv'
        BY <3>2, <3>4, <3>5, <3>6, <3>7, <2>3
      <3>9. WrDataInv'
        BY <3>1, <3>2, <3>8, <1>1, WriteIssueKeeps DEF RunInv
      <3> QED BY <3>8, <3>9
    <2> QED BY <2>4, <2>5
  <1> QED BY <1>3, <1>4

\* The handshake of AW.
LEMMA AwKeeps ==
    ASSUME AxiInv, WholeBursts, AwHandshake
    PROVE  AxiInv'
  <1> USE DEF AxiInv
  <1> DEFINE W == m.wrTrans
             D == s.wrDataList
             V == Tail(W)
             h == W[1]
             x == AxChannel(h)
             e == Entry(x)
             new == <<e>>
             direct == ~hasData(x.kind) /\ D = <<>>
             J == Joined(s.list["wr"], new)
             mm == [m EXCEPT !.wrTrans = V, !.wrData = IF V = <<>> THEN @ ELSE Append(@, Head(V))]
  <1>1. /\ DOMAIN m = MasterFields /\ DOMAIN s = SlaveFields /\ IsSeq(W) /\ IsSeq(D) /\ IsSeq(m.wrData)
        /\ DOMAIN s.list = Lists /\ DOMAIN s.num = Lists /\ \A l \in Lists : IsSeq(s.list[l])
    BY DEF Shape
  <1>2. W # <<>> /\ m.up /\ AwDone /\ AwTake(AxChannel(Head(W))) /\ scn' = scn
    BY DEF AwHandshake, AwValid, Quiet
  <1>3. W = <<h>> \o V /\ Head(W) = h /\ IsSeq(V) /\ 1 \in 1..Len(W)
    BY <1>1, <1>2, SeqFirst, SeqTail, SeqLen
  <1>4. m' = PassNoData(mm)
    BY <1>2 DEF AwDone
  <1>5. /\ DOMAIN mm = MasterFields /\ mm.wrTrans = V
        /\ mm.wrData = (IF V = <<>> THEN m.wrData ELSE Append(m.wrData, Head(V)))
        /\ \A f \in {"rdTrans", "pos", "beat", "issued", "up", "status"} : mm[f] = m[f]
    <2> HIDE DEF V
    <2> QED BY <1>1 DEF MasterFields
  <1>6. mm.wrData = m.wrData \o HeadOf(V)
    <2> HIDE DEF V, mm
    <2>1. CASE V = <<>>
      <3>1. m.wrData \o <<>> = m.wrData
        BY <1>1, AppendConcat
      <3> QED BY <2>1, <3>1, <1>5 DEF HeadOf
    <2>2. CASE V # <<>>
      <3> DEFINE a == m.wrData
                 b == Head(V)
      <3>1. IsSeq(a)
        BY <1>1
      <3> HIDE DEF a, b
      <3>2. Append(a, b) = a \o <<b>>
        BY <3>1, AppendConcat
      <3>3. Append(m.wrData, Head(V)) = m.wrData \o <<Head(V)>>
        BY <3>2 DEF a, b
      <3> QED BY <2>2, <3>3, <1>5 DEF HeadOf
    <2> QED BY <2>1, <2>2
  <1> HIDE DEF mm
  <1>7. IsSeq(mm.wrData)
    <2>1. IsSeq(HeadOf(V))
      BY HeadOfIs
    <2> QED BY <2>1, <1>1, <1>6, SeqConcat
  <1>8. /\ DOMAIN m' = MasterFields /\ IsSeq(m'.wrData)
        /\ (m'.wrData # <<>> => hasData(KindOf(Head(m'.wrData))))
        /\ \A f \in {"wrTrans", "rdTrans", "pos", "beat", "issued", "up", "status"} : m'[f] = mm[f]
    BY <1>4, <1>5, <1>7, PassIs, PassHead DEF MasterFields
  <1>9. /\ DOMAIN s' = SlaveFields
        /\ s'.list = [s.list EXCEPT !["wr"] = IF direct THEN J ELSE @]
        /\ s'.wrDataList = (IF direct THEN D ELSE Append(D, e)) /\ s'.num = [s.num EXCEPT !["wr"] = @ + 1]
        /\ \A f \in {"ran", "out", "ack", "unexpected"} : s'[f] = s[f]
    <2>1. AwTake(x)
      BY <1>2, <1>3
    <2> HIDE DEF x
    <2> QED BY <1>1, <2>1 DEF AwTake, SlaveFields
  <1>10. h \in Txns /\ IsWrite(h)
    <2> DEFINE a == TxnsOf(D)
    <2>1. IsSeq(a)
      BY <1>1, TxnsOfIs
    <2>2. Behind("wr") = a \o W
      BY DEF Behind
    <2> HIDE DEF a
    <2>3. Len(a \o W) = Len(a) + Len(W)
      BY <2>1, <1>1, SeqConcat
    <2>4. \A i \in 1..Len(W) : (a \o W)[Len(a) + i] = W[i]
      BY <2>1, <1>1, SeqConcat
    <2>5. Len(a) \in Nat /\ Len(W) \in Nat
      BY <2>1, <1>1, SeqLen
    <2>6. Len(a) + 1 \in 1..Len(Behind("wr")) /\ Behind("wr")[Len(a) + 1] = h
      <3>1. Len(a) + 1 \in 1..(Len(a) + Len(W))
        BY <2>5, <1>3
      <3>2. (a \o W)[Len(a) + 1] = W[1]
        BY <2>4, <1>3
      <3> QED BY <2>2, <2>3, <3>1, <3>2
    <2>7. h \in Txns /\ Carries("wr", h)
      BY <2>6, BehindGood, "wr" \in Lists DEF RunInv, Lists
    <2> QED BY <2>7 DEF Carries, IsWrite
  <1>11. IsEntry(e) /\ e.x = x /\ x.t = h /\ ~e.abort /\ e.beat = 1 /\ x.kind = KindOf(h)
    <2>1. x.kind = KindOf(h)
      BY DEF AxChannel, KindOf
    <2> QED BY <2>1, <1>10, EntryOf
  <1> HIDE DEF x, e
  <1>12. IsSeq(new) /\ Len(new) = 1 /\ DOMAIN new = {1} /\ new[1] = e /\ TxnsOf(new) = <<h>>
    BY <1>11, SeqOne, TxnsOfOne
  <1>13. direct <=> ~hasData(KindOf(h)) /\ D = <<>>
    BY <1>11
  <1>14. Append(D, e) = D \o new
    BY <1>1, AppendConcat
  <1> HIDE DEF new, V, h, D, W, direct
  <1>15. \A i \in DOMAIN new : IsEntry(new[i]) /\ ~new[i].abort
    BY <1>11, <1>12
  <1>16. IsSeq(J) /\ IsSeq(D \o new) /\ IsSeq(TxnsOf(D)) /\ IsSeq(<<h>>)
    <2>1. IsSeq(J)
      BY <1>1, <1>12, <1>15, JoinedIs DEF Lists
    <2>2. IsSeq(D \o new)
      BY <1>1, <1>12, SeqConcat
    <2>3. IsSeq(TxnsOf(D)) /\ IsSeq(<<h>>)
      BY <1>1, TxnsOfIs, SeqOne
    <2> QED BY <2>1, <2>2, <2>3
  <1> HIDE DEF J
  <1>17. /\ s'.list["wr"] = (IF direct THEN J ELSE s.list["wr"]) /\ s'.list["rd"] = s.list["rd"]
         /\ DOMAIN s'.list = Lists /\ DOMAIN s'.num = Lists
         /\ s'.num["wr"] = s.num["wr"] + 1 /\ s'.num["rd"] = s.num["rd"]
         /\ s'.wrDataList = IF direct THEN D ELSE D \o new
    BY <1>1, <1>9, <1>14 DEF Lists
  <1>18. Txns' = Txns
    BY <1>2, SameScenario
  <1>19. Shape'
    <2>1. \A l \in Lists : IsSeq(s'.list[l])
      BY <1>1, <1>16, <1>17 DEF Lists
    <2>2. IsSeq(s'.wrDataList)
      BY <1>1, <1>16, <1>17
    <2>3. m'.rdTrans = m.rdTrans /\ m'.issued = m.issued /\ m'.status = m.status /\ m'.wrTrans = V
      BY <1>5, <1>8
    <2> QED BY <2>1, <2>2, <2>3, <1>2, <1>3, <1>8, <1>9, <1>17, <1>18 DEF Shape
  <1>20. TxnsOf(D \o new) = TxnsOf(D) \o <<h>>
    BY <1>1, <1>12, TxnsOfConcat
  <1>21. Behind("wr") = TxnsOf(D) \o (<<h>> \o V)
    BY <1>3 DEF Behind, D, W
  <1>22. Behind("wr")' = TxnsOf(s'.wrDataList) \o V /\ Behind("rd")' = Behind("rd")
    BY <1>5, <1>8 DEF Behind, TxnsOf
  <1>23. \A l \in Lists : (s'.list[l] = s.list[l] /\ Behind(l)' = Behind(l)) \/ \E z : TakesIn(l, z)
    <2>1. s'.list["rd"] = s.list["rd"] /\ Behind("rd")' = Behind("rd")
      BY <1>17, <1>22
    <2>2. CASE direct
      <3>1. TxnsOf(D) = <<>> /\ s'.wrDataList = D
        BY <2>2, <1>13, <1>17, SeqEmpty, TxnsOfIs
      <3>2. <<>> \o V = V /\ <<>> \o (<<h>> \o V) = <<h>> \o V
        <4> DEFINE z == <<h>> \o V
        <4>1. IsSeq(z)
          BY <1>3, SeqCons
        <4> HIDE DEF z
        <4>2. <<>> \o V = V /\ <<>> \o z = z
          BY <4>1, <1>3 DEF IsSeq
        <4> QED BY <4>2 DEF z
      <3>3. Behind("wr") = TxnsOf(new) \o Behind("wr")'
        BY <3>1, <3>2, <1>12, <1>21, <1>22
      <3>4. TakesIn("wr", new)
        BY <2>2, <3>3, <1>12, <1>15, <1>17 DEF TakesIn, J
      <3> QED BY <2>1, <3>4 DEF Lists
    <2>3. CASE ~direct
      <3>1. Behind("wr")' = (TxnsOf(D) \o <<h>>) \o V
        BY <2>3, <1>17, <1>20, <1>22
      <3>2. (TxnsOf(D) \o <<h>>) \o V = TxnsOf(D) \o (<<h>> \o V)
        BY <1>3, <1>16, SeqAssoc
      <3>3. s'.list["wr"] = s.list["wr"] /\ Behind("wr")' = Behind("wr")
        BY <2>3, <3>1, <3>2, <1>17, <1>21
      <3> QED BY <2>1, <3>3 DEF Lists
    <2> QED BY <2>2, <2>3
  <1>24. EntryInv' /\ DownInv' /\ RunInv'
    <2>1. \A i \in DOMAIN s'.wrDataList : IsEntry(s'.wrDataList[i]) /\ ~s'.wrDataList[i].abort
      <3>1. \A i \in DOMAIN D : IsEntry(D[i]) /\ ~D[i].abort
        BY DEF EntryInv, D
      <3>2. CASE direct
        BY <3>1, <3>2, <1>17
      <3>3. CASE ~direct
        <4>1. s'.wrDataList = Append(D, e)
          BY <3>3, <1>14, <1>17
        <4>2. DOMAIN D = 1..Len(D) /\ Len(D) \in Nat
          BY <1>1, SeqLen
        <4>3. DOMAIN Append(D, e) = 1..(Len(D) + 1) /\ Append(D, e)[Len(D) + 1] = e
              /\ \A i \in DOMAIN D : Append(D, e)[i] = D[i]
          BY <1>1, SeqAppend
        <4>4. ASSUME NEW i \in DOMAIN Append(D, e)  PROVE IsEntry(Append(D, e)[i]) /\ ~Append(D, e)[i].abort
          <5>1. i \in DOMAIN D \/ i = Len(D) + 1
            BY <4>2, <4>3
          <5> QED BY <5>1, <4>3, <3>1, <1>11
        <4> QED BY <4>1, <4>4
      <3> QED BY <3>2, <3>3
    <2>2. \A f \in {"ran", "out", "ack"} : s'[f] = s[f]
      BY <1>9
    <2>3. m'.issued = m.issued /\ m'.status = m.status /\ m'.up = TRUE
      BY <1>2, <1>5, <1>8
    <2> QED BY <2>1, <2>2, <2>3, <1>2, <1>19, <1>23, JoinKeeps
  <1>25. m.wrData = TxnsOf(s'.wrDataList)
    <2>1. m.wrData = TxnsOf(D) \o Follows(D, W)
      BY <1>2, NextDataIs DEF WrDataInv, D, W
    <2>2. CASE direct
      <3>1. Follows(D, W) = <<>> /\ s'.wrDataList = D
        BY <2>2, <1>3, <1>13, <1>17 DEF Follows
      <3> QED BY <2>1, <3>1, <1>16, AppendConcat
    <2>3. CASE ~direct
      <3>1. Follows(D, W) = <<h>>
        BY <2>3, <1>2, <1>3, <1>13 DEF Follows, W
      <3> QED BY <2>1, <2>3, <3>1, <1>17, <1>20
    <2> QED BY <2>2, <2>3
  <1>26. WrDataIs'
    <2> DEFINE L == s'.wrDataList
    <2>1. IsSeq(L)
      BY <1>19 DEF Shape
    <2>2. StopsAt(TxnsOf(L), 0)
      <3> DEFINE a == m.wrData
      <3>1. IsSeq(a) /\ Len(a) \in Nat /\ (a # <<>> => Head(a) = a[1]) /\ (a = <<>> <=> Len(a) = 0)
        BY <1>1, SeqLen
      <3>2. a # <<>> => hasData(KindOf(Head(a)))
        BY DEF WrDataInv
      <3>3. a = TxnsOf(L)
        BY <1>25
      <3> HIDE DEF a, L
      <3>4. StopsAt(a, 0)
        BY <3>1, <3>2 DEF StopsAt
      <3> QED BY <3>3, <3>4
    <2>3. mm.wrData = TxnsOf(L) \o HeadOf(V)
      BY <1>6, <1>25
    <2> HIDE DEF L
    <2>4. PassNoData(mm).wrData = TxnsOf(L) \o Follows(L, V)
      <3>1. DOMAIN mm = MasterFields
        BY <1>5
      <3> QED BY <2>1, <2>2, <2>3, <3>1, PassAll
    <2>5. m'.wrData = TxnsOf(L) \o Follows(L, V) /\ m'.wrTrans = V
      BY <2>4, <1>4, <1>5, <1>8
    <2>6. NextData' = Follows(L, V)
      BY <2>5, <1>2, NextDataIs DEF L
    <2> QED BY <2>5, <2>6 DEF WrDataIs, L, TxnsOf
  <1>27. WrDataInv'
    <2>1. m'.pos = m.pos /\ m'.beat = m.beat
      BY <1>5, <1>8
    <2>2. CASE m.wrData # <<>>
      <3> DEFINE a == m.wrData
                 b == mm.wrData
      <3>1. IsSeq(a) /\ a # <<>> /\ hasData(KindOf(Head(a))) /\ Head(a) = a[1] /\ 1 \in 1..Len(a) /\ Len(a) \in Nat
        BY <2>2, <1>1, SeqLen DEF WrDataInv
      <3>2. IsSeq(HeadOf(V)) /\ b = a \o HeadOf(V) /\ IsSeq(b)
        BY <1>6, <1>7, HeadOfIs
      <3> HIDE DEF a, b
      <3>3. \A i \in 1..Len(a) : (a \o HeadOf(V))[i] = a[i]
        BY <3>1, <3>2, SeqConcat
      <3>4. Len(a \o HeadOf(V)) = Len(a) + Len(HeadOf(V))
        BY <3>1, <3>2, SeqConcat
      <3>5. b[1] = a[1] /\ b # <<>>
        <4>1. Len(HeadOf(V)) \in Nat
          BY <3>2, SeqLen
        <4>2. Len(b) # 0
          BY <3>1, <3>2, <3>4, <4>1
        <4> QED BY <3>1, <3>2, <3>3, <4>2, SeqLen
      <3>6. Head(b) = a[1]
        BY <3>2, <3>5, SeqLen
      <3>7. m'.wrData = b
        BY <3>1, <3>5, <1>4, <1>5, <1>7, PassNone DEF b
      <3>8. m'.wrData # <<>> /\ Head(m'.wrData) = Head(m.wrData)
        BY <3>1, <3>5, <3>6, <3>7 DEF a
      <3>9. s.wrDataList = <<>> \/ s'.wrDataList # <<>>
        BY <2>2, <1>19, <1>25, TxnsOfIs DEF Shape
      <3>10. \A i \in DOMAIN s'.wrDataList : s'.wrDataList[i].beat = IF i = 1 THEN m.beat ELSE 1
        <4>1. \A i \in DOMAIN D : D[i].beat = IF i = 1 THEN m.beat ELSE 1
          BY DEF WrDataInv, D
        <4>2. D = <<>> => m.beat = 1
          BY DEF WrDataInv, D
        <4>3. CASE direct
          BY <4>1, <4>3, <1>17
        <4>4. CASE ~direct
          <5>1. s'.wrDataList = Append(D, e)
            BY <4>4, <1>14, <1>17
          <5>2. DOMAIN D = 1..Len(D) /\ Len(D) \in Nat /\ (D = <<>> <=> Len(D) = 0)
            BY <1>1, SeqLen
          <5>3. DOMAIN Append(D, e) = 1..(Len(D) + 1) /\ Append(D, e)[Len(D) + 1] = e
                /\ \A i \in DOMAIN D : Append(D, e)[i] = D[i]
            BY <1>1, SeqAppend
          <5>4. ASSUME NEW i \in DOMAIN Append(D, e)  PROVE Append(D, e)[i].beat = IF i = 1 THEN m.beat ELSE 1
            <6>1. CASE i \in DOMAIN D
              BY <6>1, <4>1, <5>3
            <6>2. CASE i \notin DOMAIN D
              <7>1. i = Len(D) + 1 /\ (i = 1 <=> D = <<>>)
                BY <6>2, <5>2, <5>3
              <7> QED BY <7>1, <4>2, <5>3, <1>11
            <6> QED BY <6>1, <6>2
          <5> QED BY <5>1, <5>4
        <4> QED BY <4>3, <4>4
      <3> QED BY <2>1, <2>2, <3>8, <3>9, <3>10, <1>2, <1>26, WrDataGoes
    <2>3. CASE m.wrData = <<>>
      <3>1. s.wrDataList = <<>> /\ m.pos = 0 /\ m.beat = 1
        BY <2>3, WrDataHead DEF WrDataInv
      <3>2. s'.wrDataList = <<>>
        BY <2>3, <1>19, <1>25, TxnsOfIs DEF Shape
      <3>3. \A i \in DOMAIN s'.wrDataList : s'.wrDataList[i].beat = 1
        BY <3>2, SeqEmpty, SeqLen
      <3> QED BY <2>1, <3>1, <3>3, <1>2, <1>8, <1>19, <1>24, <1>26, WrDataStarts DEF RunInv
    <2> QED BY <2>2, <2>3
  <1>28. NumInv'
    <2> DEFINE K == s.list["wr"]
    <2>0. IsSeq(K) /\ "wr" \in Lists
      BY <1>1 DEF Lists
    <2>1. Live(J) = Live(K) + 1
      <3> HIDE DEF K
      <3>1. Live(Joined(K, new)) = Live(K) + Len(new)
        BY <2>0, <1>12, <1>15, LiveJoined
      <3> QED BY <3>1, <1>12 DEF J, K
    <2>2. Len(D \o new) = Len(D) + 1
      <3>1. IsSeq(D) /\ IsSeq(new)
        BY <1>1, <1>12
      <3>2. Len(D \o new) = Len(D) + Len(new)
        BY <3>1, SeqConcat
      <3> QED BY <3>2, <1>12
    <2>3. ASSUME NEW l \in Lists
          PROVE  s'.num[l] = Live(s'.list[l]) + Len(s'.out[l]) + (IF l = "wr" THEN Len(s'.wrDataList) ELSE 0)
      <3>1. /\ Live(s.list[l]) \in Nat /\ Len(s.out[l]) \in Nat /\ Len(D) \in Nat
        BY LensAre DEF D
      <3>2. s.num[l] = Live(s.list[l]) + Len(s.out[l]) + (IF l = "wr" THEN Len(D) ELSE 0)
        BY DEF NumInv, D
      <3>3. s'.out[l] = s.out[l]
        BY <1>9
      <3>4. CASE l = "wr"
        <4>1. s'.num[l] = s.num[l] + 1 /\ s.num[l] = Live(K) + Len(s.out[l]) + Len(D)
              /\ Live(K) \in Nat
          BY <3>1, <3>2, <3>4, <1>17
        <4>2. Live(s'.list[l]) + Len(s'.wrDataList) = Live(K) + Len(D) + 1
          <5> HIDE DEF K
          <5>1. CASE direct
            <6>1. s'.list[l] = J /\ s'.wrDataList = D
              BY <3>4, <5>1, <1>17
            <6> QED BY <6>1, <2>1, <3>1, <4>1
          <5>2. CASE ~direct
            <6>1. s'.list[l] = K /\ s'.wrDataList = D \o new
              BY <3>4, <5>2, <1>17 DEF K
            <6> QED BY <6>1, <2>2, <3>1, <4>1
          <5> QED BY <5>1, <5>2
        <4>3. Live(s'.list[l]) \in Nat /\ Len(s'.wrDataList) \in Nat
          BY <1>19, LiveIs, SeqLen DEF Shape
        <4>5. s'.num[l] = Live(s'.list[l]) + Len(s.out[l]) + Len(s'.wrDataList)
          <5> DEFINE a == Live(s'.list[l])
                     b == Len(s'.wrDataList)
                     c == Live(K)
                     d == Len(D)
                     o == Len(s.out[l])
          <5>1. a \in Nat /\ b \in Nat /\ c \in Nat /\ d \in Nat /\ o \in Nat
            BY <3>1, <4>1, <4>3
          <5>2. a + b = c + d + 1 /\ s'.num[l] = (c + o + d) + 1
            BY <4>1, <4>2
          <5> HIDE DEF a, b, c, d, o
          <5>3. s'.num[l] = a + o + b
            BY <5>1, <5>2
          <5> QED BY <5>3 DEF a, b, o
        <4> QED BY <3>3, <3>4, <4>5
      <3>5. CASE l = "rd"
        BY <3>2, <3>3, <3>5, <1>17
      <3> QED BY <3>4, <3>5 DEF Lists
    <2> QED BY <2>3, <1>9 DEF NumInv
  <1> QED BY <1>19, <1>24, <1>27, <1>28

\* A beat of W that is not the last one.
LEMMA MoreKeeps ==
    ASSUME AxiInv, m.up, scn' = scn, s.wrDataList # <<>>, NEW new, NEW next,
           m' = [m EXCEPT !.pos = next, !.beat = m.beat + 1],
           DOMAIN s' = SlaveFields, s'.wrDataList = [s.wrDataList EXCEPT ![1] = new],
           \A f \in {"list", "out", "ack", "num", "ran", "unexpected"} : s'[f] = s[f],
           IsEntry(new), ~new.abort, new.x = s.wrDataList[1].x, new.beat = m.beat + 1,
           m.beat + 1 \in 1..NumBeats(Txn(s.wrDataList[1].x.t).p),
           next = PosAt(Txn(s.wrDataList[1].x.t).p, m.beat + 1)
    PROVE  AxiInv'
  <1> USE DEF AxiInv
  <1> DEFINE D == s.wrDataList
             E == [D EXCEPT ![1] = new]
  <1>1. /\ DOMAIN m = MasterFields /\ IsSeq(D) /\ \A l \in Lists : IsSeq(s.list[l])
    BY DEF Shape
  <1>2. /\ DOMAIN m' = MasterFields /\ m'.pos = next /\ m'.beat = m.beat + 1
        /\ \A f \in {"rdTrans", "wrTrans", "wrData", "issued", "up", "status"} : m'[f] = m[f]
    BY <1>1 DEF MasterFields
  <1>3. 1 \in DOMAIN D /\ Len(D) \in Nat /\ DOMAIN D = 1..Len(D)
    BY <1>1, SeqLen
  <1>4. s'.wrDataList = E
    OBVIOUS
  <1> HIDE DEF D
  <1>5. /\ IsSeq(E) /\ Len(E) = Len(D) /\ DOMAIN E = DOMAIN D
        /\ \A i \in DOMAIN D : E[i] = IF i = 1 THEN new ELSE D[i]
    BY <1>1, <1>3, SeqExcept
  <1> HIDE DEF E
  <1>6. TxnsOf(E) = TxnsOf(D) /\ E # <<>>
    <2>1. \A i \in DOMAIN D : E[i].x = D[i].x
      BY <1>5 DEF D
    <2>2. TxnsOf(E) = TxnsOf(D)
      BY <2>1, <1>5 DEF TxnsOf
    <2>3. Len(E) # 0
      BY <1>3, <1>5
    <2> QED BY <2>2, <2>3, <1>5, SeqLen
  <1>7. Txns' = Txns
    BY SameScenario
  <1>8. Shape'
    BY <1>1, <1>2, <1>4, <1>5, <1>7 DEF Shape
  <1>9. \A l \in Lists : Behind(l)' = Behind(l)
    <2>1. TxnsOf(s'.wrDataList) = TxnsOf(s.wrDataList)
      BY <1>4, <1>6 DEF D
    <2> QED BY <2>1, <1>2 DEF Behind, TxnsOf
  <1>10. EntryInv' /\ DownInv' /\ RunInv'
    <2>1. \A i \in DOMAIN s'.wrDataList : IsEntry(s'.wrDataList[i]) /\ ~s'.wrDataList[i].abort
      BY <1>4, <1>5 DEF EntryInv, D
    <2>2. m'.issued = m.issued /\ m'.status = m.status /\ m'.up = TRUE
      BY <1>2 DEF Shape
    <2> QED BY <2>1, <2>2, <1>8, <1>9, JoinKeeps
  <1>11. WrDataInv'
    <2>1. /\ \A u : Txn(u)' = Txn(u) /\ KindOf(u)' = KindOf(u)
      BY SameScenario
    <2>2. NextData' = NextData
      <3>1. s'.wrDataList # <<>> /\ s.wrDataList # <<>> /\ m'.wrTrans = m.wrTrans
        BY <1>2, <1>4, <1>6
      <3> QED BY <3>1, <2>1 DEF NextData
    <2>3. m'.wrData = TxnsOf(s'.wrDataList) \o NextData'
      BY <2>2, <1>2, <1>4, <1>6 DEF WrDataInv, D
    <2>4. Head(m.wrData) = s.wrDataList[1].x.t /\ m.wrData # <<>>
      BY WrDataHead
    <2>5. hasData(KindOf(Head(m.wrData))) /\ m.beat + 1 \in 1..NumBeats(Txn(Head(m.wrData)).p)
          /\ next = PosAt(Txn(Head(m.wrData)).p, m.beat + 1)
      BY <2>4 DEF WrDataInv
    <2>6. (LET t == Head(m.wrData) IN
           hasData(KindOf(t)) /\ m.beat \in 1..NumBeats(Txn(t).p) /\ m.pos = PosAt(Txn(t).p, m.beat))'
      BY <2>1, <2>5, <1>2
    <2>7. \A i \in DOMAIN s'.wrDataList : s'.wrDataList[i].beat = IF i = 1 THEN m'.beat ELSE 1
      BY <1>2, <1>4, <1>5 DEF WrDataInv, D
    <2>8. m'.wrData # <<>> /\ s'.wrDataList # <<>>
      BY <2>4, <1>2, <1>4, <1>6
    <2> QED BY <2>3, <2>6, <2>7, <2>8 DEF WrDataInv, TxnsOf
  <1>12. NumInv'
    <2>1. Len(s'.wrDataList) = Len(s.wrDataList)
      BY <1>4, <1>5 DEF D
    <2> QED BY <2>1 DEF NumInv
  <1> QED BY <1>8, <1>10, <1>11, <1>12

\* Four parts, joined two by two.
TwoByTwo(p, q, r, w) == (p \o (q \o r)) \o w = (p \o q) \o (r \o w)

\* Concatenations of four sequences, two by two.
LEMMA FourParts ==
    ASSUME NEW p, NEW q, NEW r, NEW w, IsSeq(p), IsSeq(q), IsSeq(r), IsSeq(w)
    PROVE  TwoByTwo(p, q, r, w)
  <1>1. IsSeq(p \o q)
    BY SeqConcat
  <1>2. p \o (q \o r) = (p \o q) \o r
    BY SeqAssoc
  <1>3. ((p \o q) \o r) \o w = (p \o q) \o (r \o w)
    <2> DEFINE c == p \o q
    <2>1. IsSeq(c)
      BY <1>1
    <2> HIDE DEF c
    <2>2. (c \o r) \o w = c \o (r \o w)
      BY <2>1, SeqAssoc
    <2> QED BY <2>2 DEF c
  <1> QED BY <1>2, <1>3 DEF TwoByTwo

Passes(mm, L, W, n, R) == PassNoData(mm).wrData = TxnsOf(R) \o Follows(R, W)
LEMMA PassesIs ==
    ASSUME NEW mm, DOMAIN mm = MasterFields, NEW L, IsSeq(L), NEW W,
           mm.wrData = TxnsOf(L) \o HeadOf(W), NEW n, StopsAt(TxnsOf(L), n),
           NEW R, R = SubSeq(L, n + 1, Len(L))
    PROVE  Passes(mm, L, W, n, R)
  BY PassData DEF Passes

\* D without its first one, new for that: n of the others follow it, R stay.
Parts(D, n, new, L, A, R, Z) ==
    /\ IsSeq(L) /\ Len(L) \in Nat /\ Len(L) = Len(D) - 1 /\ \A i \in 1..Len(L) : L[i] = D[i + 1]
    /\ IsSeq(A) /\ Len(A) = n /\ \A i \in 1..n : A[i] = L[i]
    /\ IsSeq(R) /\ Len(R) = Len(L) - n /\ \A i \in 1..(Len(L) - n) : R[i] = L[n + i]
    /\ IsSeq(Z) /\ Len(Z) = 1 + n /\ Z[1] = new /\ \A i \in 1..n : Z[1 + i] = A[i]
    /\ TxnsOf(Z) = <<new.x.t>> \o TxnsOf(A) /\ TxnsOf(D) = <<D[1].x.t>> \o TxnsOf(L)
    /\ TxnsOf(L) = TxnsOf(A) \o TxnsOf(R)

\* What has got its data, those without data that follow it, and the rest.
LEMMA PartsAre ==
    ASSUME NEW D, IsSeq(D), D # <<>>, NEW L, L = Tail(D), NEW n \in 0..Len(L), NEW new,
           NEW A, A = SubSeq(L, 1, n), NEW R, R = SubSeq(L, n + 1, Len(L)), NEW Z, Z = <<new>> \o A
    PROVE  Parts(D, n, new, L, A, R, Z)
  <1>1. D = <<D[1]>> \o L /\ IsSeq(L) /\ Len(L) = Len(D) - 1 /\ \A i \in 1..Len(L) : L[i] = D[i + 1]
    BY SeqFirst, SeqTail
  <1>2. Len(L) \in Nat
    BY <1>1, SeqLen
  <1>3. A \o R = L
    BY <1>1, SeqSplit
  <1>4. IsSeq(A) /\ Len(A) = n /\ \A i \in 1..n : A[i] = L[i]
    BY <1>1, SeqSplit
  <1>5. IsSeq(R) /\ Len(R) = Len(L) - n /\ \A i \in 1..(Len(L) - n) : R[i] = L[n + i]
    BY <1>1, SeqSplit
  <1>6. IsSeq(Z) /\ Len(Z) = 1 + n /\ Z[1] = new /\ \A i \in 1..n : Z[1 + i] = A[i]
    BY <1>4, SeqCons
  <1>7. ASSUME NEW e, NEW q, IsSeq(q)
        PROVE  TxnsOf(<<e>> \o q) = <<e.x.t>> \o TxnsOf(q)
    <2>1. IsSeq(<<e>>) /\ TxnsOf(<<e>>) = <<e.x.t>>
      BY SeqOne, TxnsOfOne
    <2>2. TxnsOf(<<e>> \o q) = TxnsOf(<<e>>) \o TxnsOf(q)
      BY <2>1, <1>7, TxnsOfConcat
    <2> QED BY <2>1, <2>2
  <1>8. TxnsOf(A \o R) = TxnsOf(A) \o TxnsOf(R)
    BY <1>4, <1>5, TxnsOfConcat
  <1>9. TxnsOf(Z) = <<new.x.t>> \o TxnsOf(A)
    BY <1>4, <1>7
  <1>10. TxnsOf(<<D[1]>> \o L) = <<D[1].x.t>> \o TxnsOf(L)
    BY <1>1, <1>7
  <1>11. TxnsOf(L) = TxnsOf(A) \o TxnsOf(R)
    BY <1>3, <1>8
  <1>12. TxnsOf(D) = <<D[1].x.t>> \o TxnsOf(L)
    BY <1>1, <1>10
  <1> QED BY <1>1, <1>2, <1>4, <1>5, <1>6, <1>9, <1>11, <1>12 DEF Parts

\* The last beat of W: the transaction joins the list with the n without data
\* that follow it.
LEMMA BurstKeeps ==
    ASSUME AxiInv, WholeBursts, m.up, scn' = scn, s.wrDataList # <<>>, NEW new, NEW mm,
           DOMAIN mm = MasterFields, mm.pos = 0, mm.beat = 1, mm.wrData = Tail(m.wrData),
           \A f \in {"rdTrans", "wrTrans", "issued", "up", "status"} : mm[f] = m[f],
           m' = PassNoData(mm),
           NEW n, StopsAt(TxnsOf(Tail(s.wrDataList)), n),
           DOMAIN s' = SlaveFields,
           s'.wrDataList = SubSeq(Tail(s.wrDataList), n + 1, Len(Tail(s.wrDataList))),
           s'.list = [s.list EXCEPT !["wr"] = Joined(@, <<new>> \o SubSeq(Tail(s.wrDataList), 1, n))],
           \A f \in {"out", "ack", "num", "ran", "unexpected"} : s'[f] = s[f],
           IsEntry(new), ~new.abort, new.x = s.wrDataList[1].x
    PROVE  AxiInv'
  <1> USE DEF AxiInv
  <1> DEFINE D == s.wrDataList
             L == Tail(D)
             A == SubSeq(L, 1, n)
             R == SubSeq(L, n + 1, Len(L))
             Z == <<new>> \o A
             h == D[1].x.t
             a == TxnsOf(A)
             r == TxnsOf(R)
             W == m.wrTrans
             K == s.list["wr"]
             J == Joined(K, Z)
             H == HeadOf(W)
  <1>1. /\ IsSeq(D) /\ D # <<>> /\ IsSeq(W) /\ DOMAIN s.list = Lists /\ IsSeq(m.wrData)
        /\ \A l \in Lists : IsSeq(s.list[l])
    BY DEF Shape
  <1>3. 1 \in DOMAIN D /\ Len(D) \in Nat /\ DOMAIN D = 1..Len(D)
    BY <1>1, SeqLen
  <1>4. \A i \in DOMAIN D : IsEntry(D[i]) /\ ~D[i].abort
    BY DEF EntryInv
  <1>5. \A i \in DOMAIN D : D[i].beat = IF i = 1 THEN m.beat ELSE 1
    BY DEF WrDataInv
  <1>6. Head(m.wrData) = h /\ m.wrData # <<>>
    BY WrDataHead
  <1>7. m.wrData = TxnsOf(D) \o Follows(D, W)
    BY NextDataIs DEF WrDataInv
  <1>8. s'.wrDataList = R /\ s'.list = [s.list EXCEPT !["wr"] = J] /\ StopsAt(TxnsOf(L), n)
        /\ mm.wrTrans = W /\ mm.wrData = Tail(m.wrData)
    OBVIOUS
  <1>81. IsSeq(L)
    BY <1>1, SeqTail
  <1>82. L = Tail(D) /\ A = SubSeq(L, 1, n) /\ R = SubSeq(L, n + 1, Len(L)) /\ Z = <<new>> \o A /\ J = Joined(K, Z)
         /\ new.x.t = h
    OBVIOUS
  <1> HIDE DEF D, L, W, K
  <1>9. n \in 0..Len(L)
    BY <1>8, <1>81, TxnsOfIs DEF StopsAt
  <1> HIDE DEF A, R, Z, J
  <1>10. Parts(D, n, new, L, A, R, Z)
    BY <1>1, <1>9, <1>82, PartsAre
  <1>2. IsSeq(L) /\ Len(L) = Len(D) - 1 /\ Len(L) \in Nat /\ \A i \in 1..Len(L) : L[i] = D[i + 1]
    BY <1>10 DEF Parts
  <1>11. IsSeq(A) /\ Len(A) = n /\ IsSeq(R) /\ Len(R) = Len(L) - n
    BY <1>10 DEF Parts
  <1>12. /\ \A i \in 1..n : A[i] = L[i]
         /\ \A i \in 1..(Len(L) - n) : R[i] = L[n + i]
    BY <1>10 DEF Parts
  <1>15. /\ \A i \in DOMAIN A : IsEntry(A[i]) /\ ~A[i].abort
         /\ \A i \in DOMAIN R : IsEntry(R[i]) /\ ~R[i].abort /\ R[i].beat = 1
    <2>1. DOMAIN A = 1..n /\ DOMAIN R = 1..(Len(L) - n)
      BY <1>11, SeqLen
    <2>2. ASSUME NEW i \in DOMAIN A  PROVE IsEntry(A[i]) /\ ~A[i].abort
      <3>1. i \in 1..n /\ i \in 1..Len(L) /\ i + 1 \in DOMAIN D
        BY <2>1, <1>2, <1>3, <1>9
      <3> QED BY <3>1, <1>2, <1>4, <1>12
    <2>3. ASSUME NEW i \in DOMAIN R  PROVE IsEntry(R[i]) /\ ~R[i].abort /\ R[i].beat = 1
      <3>1. i \in 1..(Len(L) - n)
        BY <2>1
      <3>2. n + i \in 1..Len(L) /\ (n + i) + 1 \in DOMAIN D /\ (n + i) + 1 # 1
        BY <3>1, <1>2, <1>3, <1>9
      <3>3. R[i] = D[(n + i) + 1]
        BY <3>1, <3>2, <1>2, <1>12
      <3> QED BY <3>2, <3>3, <1>4, <1>5
    <2> QED BY <2>2, <2>3
  <1>16. IsSeq(Z) /\ Len(Z) = 1 + n /\ Z[1] = new /\ \A i \in 1..n : Z[1 + i] = A[i]
    BY <1>10 DEF Parts
  <1>17. \A i \in DOMAIN Z : IsEntry(Z[i]) /\ ~Z[i].abort
    <2> SUFFICES ASSUME NEW i \in DOMAIN Z  PROVE IsEntry(Z[i]) /\ ~Z[i].abort
      OBVIOUS
    <2>1. DOMAIN Z = 1..(1 + n) /\ DOMAIN A = 1..n
      BY <1>11, <1>16, SeqLen
    <2>2. CASE i = 1
      BY <2>2, <1>16
    <2>3. CASE i # 1
      <3>1. i - 1 \in 1..n /\ 1 + (i - 1) = i
        BY <2>1, <2>3, <1>9
      <3>2. Z[i] = A[i - 1]
        BY <3>1, <1>16
      <3> QED BY <2>1, <3>1, <3>2, <1>15
    <2> QED BY <2>2, <2>3
  <1>18. /\ TxnsOf(Z) = <<h>> \o a /\ TxnsOf(D) = <<h>> \o TxnsOf(L) /\ TxnsOf(L) = a \o r
    BY <1>10, <1>82 DEF Parts
  <1>19. IsSeq(a) /\ IsSeq(r) /\ IsSeq(<<h>>) /\ IsSeq(TxnsOf(L)) /\ IsSeq(H)
    <2>1. IsSeq(a) /\ IsSeq(r) /\ IsSeq(TxnsOf(L))
      BY <1>2, <1>11, TxnsOfIs
    <2> QED BY <2>1, SeqOne, HeadOfIs
  <1>20. Follows(D, W) = H
    BY <1>1, FollowsIs
  <1> HIDE DEF h, a, r, H
  <1>21. mm.wrData = TxnsOf(L) \o H
    <2>1. m.wrData = (<<h>> \o TxnsOf(L)) \o H
      BY <1>7, <1>18, <1>20
    <2>2. (<<h>> \o TxnsOf(L)) \o H = <<h>> \o (TxnsOf(L) \o H)
      BY <1>19, SeqAssoc
    <2> DEFINE v == TxnsOf(L) \o H
    <2>3. IsSeq(v)
      BY <1>19, SeqConcat
    <2>4. m.wrData = <<h>> \o v
      BY <2>1, <2>2
    <2> HIDE DEF v
    <2>5. Tail(<<h>> \o v) = v
      BY <2>3, SeqTailOf
    <2> QED BY <2>4, <2>5, <1>8 DEF v
  <1>22. IsSeq(mm.wrData)
    <2>1. IsSeq(TxnsOf(L) \o H)
      BY <1>19, SeqConcat
    <2> QED BY <2>1, <1>21
  <1>23. /\ DOMAIN m' = MasterFields /\ IsSeq(m'.wrData)
         /\ (m'.wrData # <<>> => hasData(KindOf(Head(m'.wrData))))
         /\ \A f \in {"wrTrans", "rdTrans", "pos", "beat", "issued", "up", "status"} : m'[f] = mm[f]
    <2>1. /\ m' = PassNoData(mm) /\ DOMAIN PassNoData(mm) = MasterFields
          /\ \A f \in MasterFields \ {"wrData", "wrResponses"} : PassNoData(mm)[f] = mm[f]
      BY <1>22, PassIs
    <2>2. IsSeq(m'.wrData) /\ (m'.wrData # <<>> => hasData(KindOf(Head(m'.wrData))))
      BY <1>22, PassHead
    <2> QED BY <2>1, <2>2 DEF MasterFields
  <1>24. m'.wrData = TxnsOf(R) \o Follows(R, W)
    <2>1. mm.wrData = TxnsOf(L) \o HeadOf(W) /\ IsSeq(L) /\ StopsAt(TxnsOf(L), n) /\ R = SubSeq(L, n + 1, Len(L))
      BY <1>8, <1>81, <1>82, <1>21 DEF H
    <2>2. DOMAIN mm = MasterFields /\ m' = PassNoData(mm)
      OBVIOUS
    <2>3. Passes(mm, L, W, n, R)
      BY <2>1, <2>2, PassesIs
    <2> QED BY <2>2, <2>3 DEF Passes
  <1>25. IsSeq(J)
    BY <1>1, <1>82, <1>16, <1>17, JoinedIs DEF Lists, K
  <1>26. s'.list["wr"] = J /\ s'.list["rd"] = s.list["rd"] /\ DOMAIN s'.list = Lists
    BY <1>1, <1>8 DEF Lists
  <1>27. m'.rdTrans = m.rdTrans /\ m'.issued = m.issued /\ m'.status = m.status /\ m'.wrTrans = W
         /\ m'.up = TRUE /\ m'.pos = 0 /\ m'.beat = 1
    BY <1>8, <1>23
  <1>28. Shape'
    <2>1. Txns' = Txns
      BY SameScenario
    <2>2. \A l \in Lists : IsSeq(s'.list[l])
      BY <1>1, <1>25, <1>26 DEF Lists
    <2>3. IsSeq(s'.wrDataList)
      BY <1>8, <1>11
    <2> QED BY <2>1, <2>2, <2>3, <1>1, <1>23, <1>26, <1>27 DEF Shape
  <1>29. TakesIn("wr", Z)
    <2>1. Behind("wr") = TxnsOf(D) \o W
      BY DEF Behind, D, W
    <2>2. Behind("wr")' = r \o W
      <3>1. Behind("wr")' = TxnsOf(s'.wrDataList) \o m'.wrTrans
        BY DEF Behind, TxnsOf
      <3> QED BY <3>1, <1>8, <1>27 DEF r
    <2>3. (<<h>> \o (a \o r)) \o W = (<<h>> \o a) \o (r \o W)
      <3> DEFINE b == <<h>>
      <3>1. IsSeq(b) /\ IsSeq(a) /\ IsSeq(r) /\ IsSeq(W)
        BY <1>1, <1>19
      <3> HIDE DEF b
      <3>2. TwoByTwo(b, a, r, W)
        BY <3>1, FourParts
      <3> QED BY <3>2 DEF b, TwoByTwo
    <2>4. Behind("wr") = TxnsOf(Z) \o Behind("wr")'
      BY <2>1, <2>2, <2>3, <1>18
    <2>5. s'.list["wr"] = Joined(s.list["wr"], Z)
      BY <1>82, <1>26 DEF K
    <2> QED BY <2>4, <2>5, <1>16, <1>17 DEF TakesIn
  <1>30. EntryInv' /\ DownInv' /\ RunInv'
    <2>1. \A i \in DOMAIN s'.wrDataList : IsEntry(s'.wrDataList[i]) /\ ~s'.wrDataList[i].abort
      BY <1>8, <1>15
    <2>2. s'.list["rd"] = s.list["rd"] /\ Behind("rd")' = Behind("rd")
      BY <1>26, <1>27 DEF Behind
    <2>3. \A l \in Lists : (s'.list[l] = s.list[l] /\ Behind(l)' = Behind(l)) \/ \E z : TakesIn(l, z)
      BY <2>2, <1>29 DEF Lists
    <2> QED BY <2>1, <2>3, <1>27, <1>28, JoinKeeps
  <1>31. WrDataInv'
    <2>1. NextData' = Follows(R, W)
      <3>1. NextData' = Follows(s'.wrDataList, m'.wrTrans)
        BY NextDataIs
      <3> QED BY <3>1, <1>8, <1>27
    <2>2. WrDataIs'
      <3>1. m'.wrData = TxnsOf(s'.wrDataList) \o NextData'
        BY <2>1, <1>8, <1>24
      <3> QED BY <3>1 DEF WrDataIs, TxnsOf
    <2>3. \A i \in DOMAIN s'.wrDataList : s'.wrDataList[i].beat = 1
      BY <1>8, <1>15
    <2> QED BY <2>2, <2>3, <1>23, <1>27, <1>28, <1>30, WrDataStarts DEF RunInv
  <1>32. NumInv'
    <2>1. Live(J) = Live(K) + Len(Z)
      <3>1. IsSeq(K)
        BY <1>1 DEF Lists, K
      <3>2. Live(Joined(K, Z)) = Live(K) + Len(Z)
        BY <3>1, <1>16, <1>17, LiveJoined
      <3> QED BY <3>2, <1>82
    <2>2. ASSUME NEW l \in Lists
          PROVE  s'.num[l] = Live(s'.list[l]) + Len(s'.out[l]) + (IF l = "wr" THEN Len(s'.wrDataList) ELSE 0)
      <3>1. Live(s.list[l]) \in Nat /\ Len(s.out[l]) \in Nat
        BY LensAre
      <3>2. s.num[l] = Live(s.list[l]) + Len(s.out[l]) + (IF l = "wr" THEN Len(D) ELSE 0)
        BY DEF NumInv, D
      <3>3. CASE l = "wr"
        <4> DEFINE c == Live(K)
                   d == Len(D)
                   g == Len(L)
                   o == Len(s.out[l])
        <4>1. c \in Nat /\ d \in Nat /\ o \in Nat /\ n \in 0..g /\ g = d - 1 /\ g \in Nat
          BY <3>1, <3>3, <1>2, <1>3, <1>9 DEF K
        <4>2. s'.num[l] = c + o + d
          BY <3>2, <3>3 DEF K
        <4>3. Live(s'.list[l]) = c + (1 + n) /\ Len(s'.wrDataList) = g - n /\ Len(s'.out[l]) = o
          BY <3>3, <2>1, <1>8, <1>11, <1>16, <1>26
        <4> HIDE DEF c, d, g, o
        <4>4. (c + (1 + n)) + o + (g - n) = c + o + d
          BY <4>1
        <4> QED BY <3>3, <4>2, <4>3, <4>4
      <3>4. CASE l = "rd"
        BY <3>2, <3>4, <1>26
      <3> QED BY <3>3, <3>4 DEF Lists
    <2> QED BY <2>2 DEF NumInv
  <1> QED BY <1>28, <1>30, <1>31, <1>32

\* The handshake of W.
LEMMA WKeeps ==
    ASSUME AxiInv, WholeBursts, WHandshake
    PROVE  AxiInv'
  <1> USE DEF AxiInv
  <1> DEFINE D == s.wrDataList
             L == Tail(D)
             e == D[1]
             h == e.x.t
             p == Txn(h).p
             id == Txn(WTxn).id
             lanes == WBeat
             size == Cardinality(FilledLanes(e.x, e.beat, e.idx))
             new == [e EXCEPT !.beat = @ + 1, !.idx = @ + size,
                              !.data = @ \o FillData(e.x, e.beat, e.idx, lanes)]
             next == m.pos + BeatBytes(p, m.pos, m.beat = 1, TRUE)
             mm == [m EXCEPT !.pos = 0, !.beat = 1, !.wrData = Tail(@), !.wrResponses = Append(@, WTxn)]
             early == scn.axi3 /\ ~PreviousHaveData(D, id)
             with == {j \in DOMAIN L : hasData(L[j].x.kind)}
             n == IF with = {} THEN Len(L) ELSE Least(with) - 1
  <1>1. /\ DOMAIN m = MasterFields /\ DOMAIN s = SlaveFields /\ IsSeq(D) /\ IsSeq(m.wrData)
        /\ scn \in Scenarios /\ DOMAIN s.list = Lists
    BY DEF Shape
  <1>2. m.wrData # <<>> /\ m.up /\ D # <<>> /\ WDone /\ WTake(id, lanes, WLast) /\ scn' = scn
    BY DEF WHandshake, WValid, WReady, Quiet
  <1>3. WTxn = h /\ Head(m.wrData) = h
    BY <1>2, WrDataHead DEF WTxn
  <1>4. /\ hasData(KindOf(h)) /\ m.beat \in 1..NumBeats(p) /\ m.pos = PosAt(p, m.beat)
        /\ \A i \in DOMAIN D : D[i].beat = IF i = 1 THEN m.beat ELSE 1
    BY <1>2, <1>3 DEF WrDataInv
  <1>5. 1 \in DOMAIN D /\ Len(D) \in Nat /\ DOMAIN D = 1..Len(D)
    BY <1>1, <1>2, SeqLen
  <1>6. IsEntry(e) /\ ~e.abort /\ e.beat = m.beat
    BY <1>4, <1>5 DEF EntryInv
  <1>7. e.x = AxChannel(h) /\ h \in Txns /\ e.x.id = id /\ e.x.beats = NumBeats(p)
    <2>1. e.x = AxChannel(h) /\ h \in Txns
      BY <1>6 DEF IsEntry
    <2>2. AxChannel(h).id = Txn(h).id /\ AxChannel(h).beats = NumBeats(p)
      BY <1>4 DEF AxChannel, hasData, KindOf
    <2> QED BY <2>1, <2>2, <1>3
  <1>8. Regular(p)
    <2>1. WrDataIs
      BY DEF WrDataInv, WrDataIs
    <2>2. WrGood
      BY <2>1, WrDataGood DEF RunInv
    <2>3. 1 \in DOMAIN m.wrData /\ m.wrData[1] = h
      BY <1>1, <1>2, <1>3, SeqLen
    <2>4. Validate(h) /\ IsWrite(h)
      BY <2>2, <2>3 DEF WrGood
    <2> QED BY <2>4, <1>1, <1>4, <1>7, RegularTxn
  <1>9. NumBeats(p) \in Nat
    BY <1>8, FirstBeat
  <1>10. /\ next < p.len <=> m.beat < NumBeats(p)
         /\ next < p.len => next = PosAt(p, m.beat + 1)
    <2>1. Regular(p) /\ m.beat \in 1..NumBeats(p) /\ m.pos = PosAt(p, m.beat)
      BY <1>4, <1>8
    <2> HIDE DEF p
    <2> QED BY <2>1, BeatStep
  <1>11. m' = IF next < p.len THEN [m EXCEPT !.pos = next, !.beat = @ + 1] ELSE PassNoData(mm)
    BY <1>2, <1>3 DEF WDone
  <1>12. WTarget(id) = 1
    <2>1. CASE ~scn.axi3
      BY <2>1 DEF WTarget
    <2>2. CASE scn.axi3
      <3> DEFINE I == {i \in 1..Len(D) : D[i].x.id = id}
      <3>1. 1 \in I /\ I \subseteq Int /\ \A i \in I : 1 <= i
        BY <1>5, <1>7
      <3>2. WTarget(id) = IF I = {} THEN 0 ELSE Least(I)
        BY <2>2 DEF WTarget, SelectInSeq, Least
      <3> HIDE DEF I
      <3>3. Least(I) = 1
        BY <3>1, LeastOf
      <3> QED BY <3>1, <3>2, <3>3
    <2> QED BY <2>1, <2>2
  <1>13. ~early
    BY <1>5, <1>7 DEF PreviousHaveData
  <1>14. RemoveAt(D, 1) = L
    BY <1>1, <1>2, SeqFirst
  <1>15. s' = IF ~(new.beat > e.x.beats)
              THEN [s EXCEPT !.wrDataList[1] = new, !.unexpected = @ \/ early]
              ELSE [s EXCEPT !.wrDataList = SubSeq(L, n + 1, Len(L)),
                             !.list["wr"] = Joined(@, <<new>> \o SubSeq(L, 1, n)),
                             !.unexpected = @ \/ ~WLast \/ early]
    BY <1>2, <1>12, <1>14 DEF WTake
  <1>16. IsEntry(new) /\ ~new.abort /\ new.x = e.x /\ new.beat = m.beat + 1
    <2> DEFINE f == FillData(e.x, e.beat, e.idx, lanes)
    <2> HIDE DEF e, size, f
    <2> QED BY <1>6 DEF IsEntry
  <1>17. ~s.unexpected
    BY DEF NumInv
  <1> HIDE DEF lanes, size, new, next, early, with, n, mm
  <1>18. CASE m.beat < NumBeats(p)
    <2>1. ~(new.beat > e.x.beats) /\ next < p.len
      BY <1>4, <1>7, <1>9, <1>10, <1>16, <1>18
    <2>2. s' = [s EXCEPT !.wrDataList[1] = new, !.unexpected = @ \/ early]
      BY <2>1, <1>15
    <2>3. /\ DOMAIN s' = SlaveFields /\ s'.wrDataList = [D EXCEPT ![1] = new]
          /\ s'.unexpected = (s.unexpected \/ early)
          /\ \A f \in {"list", "out", "ack", "num", "ran"} : s'[f] = s[f]
      BY <2>2, <1>1 DEF SlaveFields
    <2>4. s'.unexpected = s.unexpected
      <3>1. s'.unexpected = FALSE
        BY <2>3, <1>13, <1>17
      <3>2. s.unexpected = FALSE
        BY <1>17
      <3> QED BY <3>1, <3>2
    <2>5. m' = [m EXCEPT !.pos = next, !.beat = m.beat + 1]
      BY <2>1, <1>11
    <2>6. m.beat + 1 \in 1..NumBeats(p) /\ next = PosAt(p, m.beat + 1)
      BY <2>1, <1>4, <1>9, <1>10, <1>18
    <2>7. \A f \in {"list", "out", "ack", "num", "ran", "unexpected"} : s'[f] = s[f]
      BY <2>3, <2>4
    <2> QED BY <2>3, <2>5, <2>6, <2>7, <1>2, <1>16, MoreKeeps
  <1>19. CASE ~(m.beat < NumBeats(p))
    <2>1. new.beat > e.x.beats /\ ~(next < p.len) /\ m.beat = NumBeats(p)
      BY <1>4, <1>7, <1>9, <1>10, <1>16, <1>19
    <2>2. WLast
      BY <2>1, <1>3 DEF WLast
    <2>3. s' = [s EXCEPT !.wrDataList = SubSeq(L, n + 1, Len(L)),
                         !.list["wr"] = Joined(@, <<new>> \o SubSeq(L, 1, n)),
                         !.unexpected = @ \/ ~WLast \/ early]
      BY <2>1, <1>15
    <2>4. /\ DOMAIN s' = SlaveFields /\ s'.wrDataList = SubSeq(L, n + 1, Len(L))
          /\ s'.list = [s.list EXCEPT !["wr"] = Joined(@, <<new>> \o SubSeq(L, 1, n))]
          /\ s'.unexpected = (s.unexpected \/ ~WLast \/ early)
          /\ \A f \in {"out", "ack", "num", "ran"} : s'[f] = s[f]
      <3> DEFINE R == SubSeq(L, n + 1, Len(L))
                 A == <<new>> \o SubSeq(L, 1, n)
      <3> HIDE DEF R, A, L
      <3>1. s' = [s EXCEPT !.wrDataList = R, !.list["wr"] = Joined(@, A), !.unexpected = @ \/ ~WLast \/ early]
        BY <2>3 DEF R, A
      <3>2. /\ DOMAIN s' = SlaveFields /\ s'.wrDataList = R
            /\ s'.list = [s.list EXCEPT !["wr"] = Joined(@, A)]
            /\ s'.unexpected = (s.unexpected \/ ~WLast \/ early)
            /\ \A f \in {"out", "ack", "num", "ran"} : s'[f] = s[f]
        BY <3>1, <1>1 DEF SlaveFields
      <3> QED BY <3>2 DEF R, A
    <2>5. s'.unexpected = s.unexpected
      <3>1. s'.unexpected = FALSE
        BY <2>2, <2>4, <1>13, <1>17
      <3>2. s.unexpected = FALSE
        BY <1>17
      <3> QED BY <3>1, <3>2
    <2>6. \A f \in {"out", "ack", "num", "ran", "unexpected"} : s'[f] = s[f]
      BY <2>4, <2>5
    <2>7. /\ DOMAIN mm = MasterFields /\ mm.pos = 0 /\ mm.beat = 1 /\ mm.wrData = Tail(m.wrData)
          /\ \A f \in {"rdTrans", "wrTrans", "issued", "up", "status"} : mm[f] = m[f]
      BY <1>1 DEF mm, MasterFields
    <2>8. m' = PassNoData(mm)
      BY <2>1, <1>11
    <2>9. StopsAt(TxnsOf(L), n)
      <3>1. IsSeq(L) /\ Len(L) = Len(D) - 1 /\ Len(L) \in Nat /\ DOMAIN L = 1..Len(L)
            /\ \A i \in 1..Len(L) : L[i] = D[i + 1]
        <4>1. IsSeq(L) /\ Len(L) = Len(D) - 1 /\ \A i \in 1..(Len(D) - 1) : L[i] = D[i + 1]
          BY <1>1, <1>2, SeqTail
        <4> HIDE DEF L
        <4> QED BY <4>1, SeqLen
      <3>2. \A i \in DOMAIN L : L[i].x.kind = KindOf(L[i].x.t)
        <4> SUFFICES ASSUME NEW i \in DOMAIN L  PROVE L[i].x.kind = KindOf(L[i].x.t)
          OBVIOUS
        <4>1. i + 1 \in DOMAIN D /\ L[i] = D[i + 1]
          BY <3>1, <1>5
        <4>2. IsEntry(D[i + 1])
          BY <4>1 DEF EntryInv
        <4>3. D[i + 1].x = AxChannel(D[i + 1].x.t)
          BY <4>2 DEF IsEntry
        <4>4. \A t : AxChannel(t).kind = KindOf(t)
          BY DEF AxChannel, KindOf
        <4> QED BY <4>1, <4>3, <4>4
      <3>3. n \in 0..Len(L) /\ (\A i \in 1..n : i \notin with) /\ (n < Len(L) => n + 1 \in with)
        <4>1. with \in SUBSET DOMAIN L
          BY DEF with
        <4>2. n = IF with = {} THEN Len(L) ELSE Least(with) - 1
          BY DEF n
        <4>3. IsSeq(L)
          BY <3>1
        <4> HIDE DEF L
        <4>4. n \in 0..Len(L)
          BY <4>1, <4>2, <4>3, FirstWith
        <4>5. \A i \in 1..n : i \notin with
          BY <4>1, <4>2, <4>3, FirstWith
        <4>6. n < Len(L) => n + 1 \in with
          BY <4>1, <4>2, <4>3, FirstWith
        <4> QED BY <4>4, <4>5, <4>6
      <3>4. \A i \in DOMAIN L : i \in with <=> hasData(KindOf(L[i].x.t))
        BY <3>2 DEF with
      <3> HIDE DEF L
      <3>5. Len(TxnsOf(L)) = Len(L) /\ \A i \in 1..Len(L) : TxnsOf(L)[i] = L[i].x.t
        BY <3>1, TxnsOfIs
      <3>6. \A i \in 1..n : i \in DOMAIN L
        BY <3>1, <3>3
      <3>7. \A i \in 1..n : ~hasData(KindOf(TxnsOf(L)[i]))
        BY <3>1, <3>3, <3>4, <3>5, <3>6
      <3>8. n < Len(L) => hasData(KindOf(TxnsOf(L)[n + 1]))
        <4> SUFFICES ASSUME n < Len(L)  PROVE hasData(KindOf(TxnsOf(L)[n + 1]))
          OBVIOUS
        <4>1. n + 1 \in 1..Len(L) /\ n + 1 \in with
          BY <3>1, <3>3
        <4> QED BY <4>1, <3>1, <3>4, <3>5
      <3> QED BY <3>3, <3>5, <3>7, <3>8 DEF StopsAt
    <2> QED BY <2>4, <2>6, <2>7, <2>8, <2>9, <1>2, <1>16, BurstKeeps
  <1> QED BY <1>18, <1>19

(***************************************************************************)
(* The invariant.                                                          *)
(***************************************************************************)
\* The first state.
LEMMA InitInv ==
    ASSUME AxiInit
    PROVE  AxiInv
  <1>1. /\ scn \in Scenarios /\ DOMAIN m = MasterFields
        /\ m.rdTrans = <<>> /\ m.wrTrans = <<>> /\ m.wrData = <<>> /\ m.pos = 0 /\ m.beat = 1
        /\ m.up /\ m.issued = <<>> /\ m.status = [t \in Txns |-> "idle"]
    BY DEF AxiInit, MasterInit, MasterFields, Txns
  <1>2. /\ DOMAIN s = SlaveFields
        /\ s.list = [l \in Lists |-> <<>>] /\ s.wrDataList = <<>> /\ s.out = [l \in Lists |-> <<>>]
        /\ s.ack = [l \in Lists |-> FALSE] /\ s.num = [l \in Lists |-> 0]
        /\ s.ran = <<>> /\ ~s.unexpected
    BY DEF AxiInit, SlaveInit, SlaveFields
  <1>3. IsSeq(<<>>) /\ Len(<<>>) = 0 /\ DOMAIN <<>> = {} /\ TxnsOf(<<>>) = <<>>
    BY SeqEmpty, TxnsOfIs
  <1>4. Shape
    BY <1>1, <1>2, <1>3 DEF Shape, Statuses
  <1>5. EntryInv /\ DownInv
    BY <1>1, <1>2, <1>3 DEF EntryInv, DownInv
  <1>6. <<>> \o <<>> = <<>>
    OBVIOUS
  <1>7. \A l \in Lists : DOMAIN Path(l) = {}
    <2>1. \A l \in Lists : Behind(l) = <<>>
      BY <1>1, <1>2, <1>3, <1>6 DEF Behind
    <2>2. \A l \in Lists : Path(l) = <<>>
      BY <2>1, <1>2, <1>3, <1>6 DEF Path
    <2> QED BY <2>2, <1>3
  <1>8. RunInv
    BY <1>1, <1>2, <1>3, <1>7
       DEF RunInv, IssueInv, Issued, OrderInv, WaitingInv, TogetherInv, IdsWait, RanInv
  <1>9. WrDataInv
    <2>1. NextData = <<>>
      BY <1>1 DEF NextData
    <2> QED BY <2>1, <1>1, <1>2, <1>3, <1>6 DEF WrDataInv
  <1>10. NumInv
    <2>1. Live(<<>>) = 0
      <3>1. {i \in DOMAIN <<>> : ~<<>>[i].abort} = {}
        BY <1>3
      <3> QED BY <3>1, FS_EmptySet DEF Live
    <2> QED BY <2>1, <1>2, <1>3 DEF NumInv
  <1> QED BY <1>4, <1>5, <1>8, <1>9, <1>10 DEF AxiInv

\* A step of others.
LEMMA StutterKeeps ==
    ASSUME AxiInv, UNCHANGED sysVars
    PROVE  AxiInv'
  <1> USE DEF AxiInv
  <1>1. scn' = scn /\ m' = m /\ s' = s
    BY DEF sysVars
  <1>2. /\ DOMAIN m = MasterFields /\ DOMAIN s = SlaveFields /\ m.status \in [Txns -> Statuses]
        /\ DOMAIN s.out = Lists /\ DOMAIN s.ack = Lists /\ DOMAIN s.num = Lists
        /\ \A l \in Lists : IsSeq(s.out[l]) /\ (s.ack[l] => s.out[l] # <<>>)
    BY DEF Shape, EntryInv
  <1>3. \A l \in Lists : s'.num[l] = s.num[l] - Len(s.out[l]) + Len(s'.out[l])
    BY <1>1, LensAre
  <1> QED BY <1>1, <1>2, <1>3, QuietKeeps

\* Every step.
LEMMA StepKeeps ==
    ASSUME WholeBursts, AxiInv, [AxiNext]_sysVars
    PROVE  AxiInv'
  <1>1. CASE Ask
    <2>1. PICK t \in Txns : Request(t)
      BY <1>1 DEF Ask
    <2>2. s' = s
      BY <1>1 DEF Ask
    <2> QED BY <2>1, <2>2, RequestKeeps
  <1>2. CASE ArHandshake
    BY <1>2, ArKeeps
  <1>3. CASE AwHandshake
    BY <1>3, AwKeeps
  <1>4. CASE WHandshake
    BY <1>4, WKeeps
  <1>5. CASE RHandshake \/ BHandshake \/ RackHandshake \/ WackHandshake
    BY <1>5, ResponseKeeps
  <1>6. CASE RunTarget
    <2>1. PICK l \in Lists : \E i \in DOMAIN s.list[l] : TlmStart(l, i) \/ TlmEnd(l, i)
      BY <1>6 DEF RunTarget
    <2>2. PICK i \in DOMAIN s.list[l] : TlmStart(l, i) \/ TlmEnd(l, i)
      BY <2>1
    <2> QED BY <2>2, StartKeeps, EndKeeps
  <1>7. CASE Release
    BY <1>7, ReleaseKeeps
  <1>8. CASE Reset
    BY <1>8, ResetKeeps
  <1>9. CASE UNCHANGED sysVars
    BY <1>9, StutterKeeps
  <1> QED BY <1>1, <1>2, <1>3, <1>4, <1>5, <1>6, <1>7, <1>8, <1>9 DEF AxiNext, Progress

(***************************************************************************)
(* Theorem.  The two bridges keep the invariant in every run, with resets  *)
(* at any time: a path holds the transactions of its channel in the order  *)
(* in which b_transport was called (tlm2axi-bridge.h), RunTLMTransaction   *)
(* (axi2tlm-bridge.h) starts only what conflicts with none before it, and  *)
(* the beats that the thread of W counts are those that write_data_phase   *)
(* counts.  The writes are to come out even (WholeBursts): where the burst *)
(* width is greater than the streaming width (tlm2axi-bridge.h:312) AxLEN  *)
(* says fewer beats than prepare_wbeat makes.                               *)
(***************************************************************************)
THEOREM SpecAxiInv ==
    ASSUME WholeBursts
    PROVE  AxiSpec => []AxiInv
  <1>1. AxiInit => AxiInv
    BY InitInv
  <1>2. AxiInv /\ [AxiNext]_sysVars => AxiInv'
    BY StepKeeps
  <1> QED BY <1>1, <1>2, PTL DEF AxiSpec

\* The order that the initiators ask for follows from the invariant.
LEMMA OrderHolds ==
    ASSUME AxiInv
    PROVE  TlmOrder
  <1> USE DEF AxiInv, RunInv
  <1> SUFFICES ASSUME NEW i \in DOMAIN s.ran, NEW j \in DOMAIN s.ran,
                      IsReadKind(Txn(s.ran[i].t).kind) <=> IsReadKind(Txn(s.ran[j].t).kind),
                      Before(s.ran[i].t, s.ran[j].t), Conflict(s.ran[i].t, s.ran[j].t)
               PROVE  /\ i < j
                      /\ \A l \in Lists : \A e, f \in Range(s.list[l]) :
                            e.x.t = s.ran[i].t /\ f.x.t = s.ran[j].t => ~(e.at = "tlm" /\ f.at = "tlm")
    BY DEF TlmOrder
  <1>1. i < j
    BY DEF RanInv, KindOf
  <1>2. ASSUME NEW l \in Lists, NEW e \in Range(s.list[l]), NEW f \in Range(s.list[l]),
               e.x.t = s.ran[i].t, f.x.t = s.ran[j].t, e.at = "tlm", f.at = "tlm"
        PROVE  FALSE
    <2>1. PICK a \in DOMAIN s.list[l], b \in DOMAIN s.list[l] : s.list[l][a] = e /\ s.list[l][b] = f
      BY DEF Range
    <2>2. /\ a \in DOMAIN Path(l) /\ b \in DOMAIN Path(l) /\ a \in Nat \ {0} /\ b \in Nat
          /\ Path(l)[a] = s.ran[i].t /\ Path(l)[b] = s.ran[j].t
      BY <1>2, <2>1, PathIs
    <2>3. s.ran[i].t # s.ran[j].t /\ ~Before(s.ran[j].t, s.ran[i].t)
      BY BeforeIsOrder
    <2>4. ~(b < a) /\ a # b
      BY <2>2, <2>3 DEF OrderInv
    <2>5. a \in 1..(b - 1)
      BY <2>2, <2>4
    <2>6. ~Conflict(Path(l)[a], Path(l)[b])
      BY <1>2, <2>1, <2>5 DEF TogetherInv
    <2> QED BY <2>2, <2>6
  <1> QED BY <1>1, <1>2

(***************************************************************************)
(* Theorem.  The target runs the transactions of one channel that have the *)
(* same ID or go to the same page in the order of issue and never at the   *)
(* same time, and a barrier alone and in its place (WaitForTransactions,   *)
(* GetFirstWithID and InList of axi2tlm-bridge.h).                         *)
(***************************************************************************)
THEOREM SpecTlmOrder ==
    ASSUME WholeBursts
    PROVE  AxiSpec => []TlmOrder
  <1>1. AxiInv => TlmOrder
    BY OrderHolds
  <1> QED BY <1>1, SpecAxiInv, PTL

(***************************************************************************)
(* Theorem.  The counters m_numReadTransactions and m_numWriteTransactions *)
(* of axi2tlm-bridge.h count what is under way, also after a reset; and    *)
(* write_data_phase finds WLAST on the beat that it takes for the last one *)
(* and the first data of AXI3 transactions in the order of the addresses.  *)
(***************************************************************************)
THEOREM SpecAxiTypeOK ==
    ASSUME WholeBursts
    PROVE  AxiSpec => []AxiTypeOK
  <1>1. AxiInv => AxiTypeOK
    BY DEF AxiInv, Shape, Statuses, NumInv, Live, AxiTypeOK
  <1> QED BY <1>1, SpecAxiInv, PTL
=============================================================================
