--------------------------- MODULE ChiLink_proofs ---------------------------
(***************************************************************************)
(* Credits of a link, for any number of channels and of credits.  The      *)
(* invariant needs its parts together: a credit on the wires of a stopped  *)
(* link would be lost, so conservation rests on StoppedIsEmpty; and a link *)
(* stops when the receiver has all its credits back, so that nothing can   *)
(* be on the wires rests on conservation.                                  *)
(***************************************************************************)
EXTENDS ChiLink, SequenceTheorems, TLAPS

LinkInv == LinkTypeOK /\ StoppedIsEmpty /\ CreditsConserved /\ MonitorAgrees

\* The packets that wait are packets.
LEMMA WaitingType ==
    ASSUME LinkTypeOK, NEW l \in Links
    PROVE  Waiting(l) \in Seq(1 .. MaxPackets)
<1>1. txList[l] \in Seq(1 .. MaxPackets)
    BY DEF LinkTypeOK
<1>2. txList[l] # <<>> => Tail(txList[l]) \in Seq(1 .. MaxPackets)
    BY <1>1, HeadTailProperties
<1> QED BY <1>1, <1>2 DEF Waiting

\* What a clock edge leaves in the TxChannel and on its wires is what it
\* collected, and what it leaves in the RxChannel is what it freed.
LEMMA EdgeCounts ==
    ASSUME LinkInv, TxThread, RxThread, Monitor, NEW l \in Links
    PROVE  /\ credits'[l] + (IF flit'[l] # None THEN 1 ELSE 0) = Collected(l)
           /\ avail'[l] + (IF lcrdv'[l] THEN 1 ELSE 0) = Freed(l)
           /\ Collected(l) + Freed(l) = Credits(l)
           /\ credits'[l] \in Nat /\ avail'[l] \in Nat
           /\ flit'[l] \in 0 .. MaxPackets + 1 /\ lcrdv'[l] \in BOOLEAN
           /\ counted'[l] = counted[l] - (IF flit[l] # None THEN 1 ELSE 0)
                                       + (IF lcrdv[l] THEN 1 ELSE 0)
<1> USE LinkAssumption DEF LinkInv, LinkTypeOK
<1>1. Collected(l) \in Nat /\ Freed(l) \in Nat
    BY DEF Collected, Freed, Receives
<1>2. Waiting(l) \in Seq(1 .. MaxPackets)
    BY WaitingType
<1>3. SendsPacket(l) => Head(Waiting(l)) \in 1 .. MaxPackets
    BY <1>2 DEF SendsPacket
<1>4. State(l) = "Stop" => flit[l] = None /\ ~lcrdv[l]
    BY DEF StoppedIsEmpty
<1>5. SendsPacket(l) \/ ReturnsCredit(l) => Collected(l) > 0 /\ State(l) # "Stop"
    BY DEF SendsPacket, ReturnsCredit, Transmits
<1>6. credits'[l] = IF SendsPacket(l) \/ ReturnsCredit(l) THEN Collected(l) - 1 ELSE Collected(l)
    BY DEF TxThread
<1>7. flit'[l] = IF SendsPacket(l) THEN Head(Waiting(l))
                 ELSE IF ReturnsCredit(l) THEN LCrdReturn
                 ELSE IF State(l) = "Stop" THEN flit[l] ELSE None
    BY DEF TxThread
<1>8. /\ credits'[l] \in Nat /\ flit'[l] \in 0 .. MaxPackets + 1
      /\ credits'[l] + (IF flit'[l] # None THEN 1 ELSE 0) = Collected(l)
    BY <1>1, <1>3, <1>4, <1>5, <1>6, <1>7 DEF None, LCrdReturn
<1>9. /\ avail'[l] \in Nat /\ lcrdv'[l] \in BOOLEAN
      /\ avail'[l] + (IF lcrdv'[l] THEN 1 ELSE 0) = Freed(l)
    <2>1. lcrdv'[l] = Grants(l) /\ avail'[l] = Remaining(l)
        BY DEF RxThread
    <2>2. Grants(l) \in BOOLEAN /\ (Grants(l) => Freed(l) > 0)
        BY DEF Grants
    <2> QED BY <2>1, <2>2, <1>1 DEF Remaining
<1>10. Collected(l) + Freed(l) = Credits(l)
    BY <1>4 DEF Collected, Freed, Receives, Credits
<1>11. counted'[l] = counted[l] - (IF flit[l] # None THEN 1 ELSE 0)
                                + (IF lcrdv[l] THEN 1 ELSE 0)
    BY DEF Monitor
<1> QED BY <1>8, <1>9, <1>10, <1>11

\* A link that is stopped after a clock edge was stopped before, or was being
\* deactivated and its receiver has all credits.
LEMMA EdgeStops ==
    ASSUME LinkInv, NEW acks \in SUBSET Sides, StateThread(acks), NEW l \in Links,
           State(l)' = "Stop"
    PROVE  \/ State(l) = "Stop"
           \/ State(l) = "Deactivate" /\ Remaining(l) = MaxCredits
<1>1. l[1] \in Sides
    BY LinkAssumption
<1>2. l \in Channels(l[1])
    BY DEF Channels
<1>3. ~req'[l[1]] /\ ~ack'[l[1]]
    BY DEF State, GetLinkState
<1>4. CASE l[1] \in acks
    <2>1. GetLinkState(l[1]) = "Deactivate" /\ RxChnlsDeactivated(l[1])
        BY <1>4 DEF StateThread
    <2> QED BY <2>1, <1>2 DEF RxChnlsDeactivated, State
<1>5. CASE l[1] \notin acks
    <2>1. ack'[l[1]] = IF GetLinkState(l[1]) = "Activate" THEN TRUE ELSE ack[l[1]]
        BY <1>1, <1>5 DEF StateThread
    <2>2. GetLinkState(l[1]) # "Activate" /\ ~ack[l[1]]
        BY <2>1, <1>3
    <2> QED BY <2>2 DEF State, GetLinkState
<1> QED BY <1>4, <1>5

\* A clock edge keeps the invariant.
LEMMA ClockKeeps == LinkInv /\ Clock => LinkInv'
<1> SUFFICES ASSUME LinkInv, Clock PROVE LinkInv'
    OBVIOUS
<1> USE LinkAssumption
<1>1. PICK acks \in SUBSET Sides : StateThread(acks)
    BY DEF Clock
<1>2. TxThread /\ RxThread /\ Monitor
    BY DEF Clock
<1>3. LinkTypeOK'
    <2>1. /\ req' \in [Sides -> BOOLEAN] /\ ack' \in [Sides -> BOOLEAN]
          /\ deactivate' \in [Sides -> BOOLEAN]
        BY <1>1 DEF StateThread, LinkInv, LinkTypeOK
    <2>2. /\ credits' \in [Links -> Nat] /\ avail' \in [Links -> Nat]
          /\ lcrdv' \in [Links -> BOOLEAN] /\ flit' \in [Links -> 0 .. MaxPackets + 1]
        <3>1. \A l \in Links : /\ credits'[l] \in Nat /\ avail'[l] \in Nat
                               /\ flit'[l] \in 0 .. MaxPackets + 1 /\ lcrdv'[l] \in BOOLEAN
            BY <1>2, EdgeCounts
        <3> QED BY <3>1, <1>2 DEF TxThread, RxThread
    <2>3. txList' \in [Links -> Seq(1 .. MaxPackets)]
        <3>1. \A l \in Links : Waiting(l) \in Seq(1 .. MaxPackets)
            BY WaitingType DEF LinkInv
        <3> QED BY <3>1, <1>2 DEF TxThread
    <2>4. created' \in [Links -> BOOLEAN]
        BY <1>2 DEF TxThread, SendsPacket, Transmits, LinkInv, LinkTypeOK
    <2>5. counted' \in [Links -> Int]
        BY <1>2 DEF Monitor, LinkInv, LinkTypeOK
    <2> QED BY <2>1, <2>2, <2>3, <2>4, <2>5 DEF LinkInv, LinkTypeOK, Clock
<1>4. \A l \in Links : Credits(l)' = Credits(l)
    <2> TAKE l \in Links
    <2>1. credits[l] \in Nat /\ avail[l] \in Nat
        BY DEF LinkInv, LinkTypeOK
    <2> QED BY <2>1, <1>2, EdgeCounts DEF Credits, Collected, Freed
<1>5. CreditsConserved'
    BY <1>4 DEF CreditsConserved, LinkInv, Clock
<1>6. StoppedIsEmpty'
    <2> SUFFICES ASSUME NEW l \in Links, State(l)' = "Stop"
                 PROVE  flit'[l] = None /\ ~lcrdv'[l]
        BY DEF StoppedIsEmpty
    <2>1. /\ flit[l] \in 0 .. MaxPackets + 1 /\ lcrdv[l] \in BOOLEAN
          /\ credits[l] \in Nat /\ avail[l] \in Nat
        BY DEF LinkInv, LinkTypeOK
    <2>2. State(l) \in {"Stop", "Deactivate"} => ~Grants(l)
        BY DEF Grants
    <2>3. lcrdv'[l] = Grants(l)
        BY <1>2 DEF RxThread
    <2>4. CASE State(l) = "Stop"
        <3>1. flit[l] = None
            BY <2>4 DEF StoppedIsEmpty, LinkInv
        <3>2. ~SendsPacket(l) /\ ~ReturnsCredit(l)
            BY <2>4 DEF SendsPacket, ReturnsCredit, Transmits
        <3> QED BY <3>1, <3>2, <2>2, <2>3, <2>4, <1>2 DEF TxThread
    <2>5. CASE State(l) = "Deactivate" /\ Remaining(l) = MaxCredits
        <3>1. Freed(l) = MaxCredits
            BY <2>5, <2>2 DEF Remaining
        <3>2. Collected(l) + Freed(l) <= MaxCredits
            BY <1>2, EdgeCounts DEF CreditsConserved, LinkInv
        <3>3. Collected(l) = 0
            BY <3>1, <3>2, <2>1 DEF Collected
        <3>4. ~SendsPacket(l) /\ ~ReturnsCredit(l)
            BY <3>3 DEF SendsPacket, ReturnsCredit
        <3> QED BY <3>4, <2>2, <2>3, <2>5, <1>2 DEF TxThread
    <2> QED BY <2>4, <2>5, <1>1, EdgeStops
<1>7. MonitorAgrees'
    <2> SUFFICES ASSUME resets' = 0, NEW l \in Links
                 PROVE  /\ counted'[l] = credits'[l] + (IF flit'[l] # None THEN 1 ELSE 0)
                        /\ counted'[l] \in 0 .. MaxCredits
        BY DEF MonitorAgrees
    <2>1. resets = 0
        BY DEF Clock
    <2>2. counted[l] = credits[l] + (IF flit[l] # None THEN 1 ELSE 0)
        BY <2>1 DEF MonitorAgrees, LinkInv
    <2>3. credits[l] \in Nat /\ (State(l) = "Stop" => ~lcrdv[l])
        BY DEF LinkInv, LinkTypeOK, StoppedIsEmpty
    <2>4. counted'[l] = Collected(l)
        BY <2>2, <2>3, <1>2, EdgeCounts DEF Collected
    <2>5. Collected(l) <= MaxCredits /\ Collected(l) \in Nat
        <3>1. Credits(l) <= MaxCredits /\ Freed(l) \in Nat /\ Collected(l) \in Nat
            BY DEF LinkInv, LinkTypeOK, CreditsConserved, Freed, Collected
        <3> QED BY <3>1, <1>2, EdgeCounts
    <2> QED BY <2>4, <2>5, <1>2, EdgeCounts
<1> QED BY <1>3, <1>5, <1>6, <1>7 DEF LinkInv

\* The other steps: they leave the wires and the credits alone, but for a
\* reset, which clears the wires.
LEMMA OthersKeep ==
    ASSUME LinkInv, Reset \/ (\E l \in Links : Submit(l) \/ Take(l)) \/ (\E s \in Sides : SetState(s))
    PROVE  LinkInv'
<1> USE LinkAssumption DEF LinkInv
<1>1. CASE Reset
    <2>1. LinkTypeOK'
        BY <1>1 DEF Reset, LinkTypeOK, None
    <2>2. StoppedIsEmpty' /\ MonitorAgrees'
        BY <1>1 DEF Reset, StoppedIsEmpty, MonitorAgrees, LinkTypeOK
    <2>3. \A l \in Links : Credits(l)' <= Credits(l)
        BY <1>1 DEF Reset, Credits, LinkTypeOK
    <2>4. \A l \in Links : Credits(l)' \in Nat /\ Credits(l) \in Nat
        BY <1>1 DEF Reset, Credits, LinkTypeOK
    <2>5. resets' # 0
        BY <1>1 DEF Reset, LinkTypeOK
    <2> QED BY <2>1, <2>2, <2>3, <2>4, <2>5 DEF CreditsConserved
<1>2. CASE \E l \in Links : Submit(l) \/ Take(l)
    <2>1. UNCHANGED <<req, ack, target, deactivate, credits, created, flit, avail, lcrdv, counted, resets>>
        BY <1>2 DEF Submit, Take, portVars, txVars, rxVars
    <2>2. txList' \in [Links -> Seq(1 .. MaxPackets)] /\ submitted' \in [Links -> 0 .. MaxPackets]
        <3>1. PICK l \in Links : Submit(l) \/ Take(l)
            BY <1>2
        <3>2. CASE Submit(l)
            <4>1. submitted[l] + 1 \in 1 .. MaxPackets
                BY <3>2 DEF Submit, LinkTypeOK
            <4>2. Append(txList[l], submitted[l] + 1) \in Seq(1 .. MaxPackets)
                BY <4>1 DEF LinkTypeOK
            <4> QED BY <3>2, <4>1, <4>2 DEF Submit, LinkTypeOK
        <3>3. CASE Take(l)
            BY <3>3 DEF Take, txVars, LinkTypeOK
        <3> QED BY <3>1, <3>2, <3>3
    <2> QED BY <2>1, <2>2 DEF LinkTypeOK, StoppedIsEmpty, CreditsConserved, MonitorAgrees,
                              Credits, State, GetLinkState
<1>3. CASE \E s \in Sides : SetState(s)
    <2>1. UNCHANGED <<req, ack, deactivate, txVars, rxVars, counted, submitted, resets>>
        BY <1>3 DEF SetState
    <2>2. target' \in [Sides -> {"Run", "Stop"}]
        BY <1>3 DEF SetState, LinkTypeOK
    <2> QED BY <2>1, <2>2 DEF LinkTypeOK, StoppedIsEmpty, CreditsConserved, MonitorAgrees,
                              Credits, State, GetLinkState, txVars, rxVars
<1> QED BY <1>1, <1>2, <1>3

(***************************************************************************)
(* The order of packets.                                                   *)
(***************************************************************************)
\* What the order needs besides: no packet is taken that was not submitted, the
\* mark of a created flit is never left on an empty list, where it would
\* swallow the next packet, and links that are not used stay empty.
OrderInv ==
    /\ taken \in [Links -> Nat] /\ rxList \in [Links -> Seq(1 .. MaxPackets + 1)]
    /\ \A l \in Links : taken[l] <= submitted[l] /\ (created[l] => txList[l] # <<>>)
    /\ \A l \in Links \ Used : submitted[l] = 0 /\ txList[l] = <<>> /\ rxList[l] = <<>>
    /\ InOrder

\* Sequences: a flit sent moves from the head of those that wait to the wires,
\* a packet submitted goes to the end, one taken comes from the head.
LEMMA SplitHead ==
    ASSUME NEW S, NEW f \in Seq(S), NEW c \in Seq(S), c # <<>>
    PROVE  (f \o <<Head(c)>>) \o Tail(c) = f \o c
<1> DEFINE g == (f \o <<Head(c)>>) \o Tail(c)   h == f \o c
<1>1. Head(c) \in S /\ Tail(c) \in Seq(S) /\ Len(Tail(c)) = Len(c) - 1 /\ Head(c) = c[1]
      /\ \A i \in 1 .. Len(c) - 1 : Tail(c)[i] = c[i + 1]
    BY HeadTailProperties
<1>2. f \o <<Head(c)>> \in Seq(S) /\ Len(f \o <<Head(c)>>) = Len(f) + 1
    BY <1>1
<1>3. g \in Seq(S) /\ h \in Seq(S) /\ Len(g) = Len(h) /\ Len(c) \in Nat /\ Len(f) \in Nat /\ Len(c) > 0
    BY <1>1, <1>2
<1>4. \A i \in 1 .. Len(g) : g[i] = h[i]
    BY <1>1, <1>2, <1>3
<1> QED BY <1>3, <1>4, SeqEqual

LEMMA AppendLast ==
    ASSUME NEW S, NEW f \in Seq(S), NEW c \in Seq(S), NEW x \in S
    PROVE  f \o Append(c, x) = Append(f \o c, x)
<1> DEFINE g == f \o Append(c, x)   h == Append(f \o c, x)
<1>1. g \in Seq(S) /\ h \in Seq(S) /\ Len(g) = Len(h) /\ Len(c) \in Nat /\ Len(f) \in Nat
    OBVIOUS
<1>2. \A i \in 1 .. Len(g) : g[i] = h[i]
    BY <1>1
<1> QED BY <1>1, <1>2, SeqEqual

LEMMA TailFirst ==
    ASSUME NEW S, NEW a \in Seq(S), NEW b \in Seq(S), a # <<>>
    PROVE  Tail(a) \o b = Tail(a \o b) /\ Head(a) = Head(a \o b) /\ a \o b # <<>>
<1> DEFINE g == Tail(a) \o b   h == Tail(a \o b)
<1>1. Tail(a) \in Seq(S) /\ Len(Tail(a)) = Len(a) - 1 /\ Len(a) \in Nat /\ Len(a) > 0 /\ Len(b) \in Nat
      /\ Head(a) = a[1] /\ \A i \in 1 .. Len(a) - 1 : Tail(a)[i] = a[i + 1]
    BY HeadTailProperties
<1>2. a \o b \in Seq(S) /\ Len(a \o b) = Len(a) + Len(b) /\ a \o b # <<>>
    BY <1>1
<1>3. h \in Seq(S) /\ Len(h) = Len(a \o b) - 1 /\ Head(a \o b) = (a \o b)[1]
      /\ \A i \in 1 .. Len(a \o b) - 1 : h[i] = (a \o b)[i + 1]
    BY <1>2, HeadTailProperties
<1>4. g \in Seq(S) /\ Len(g) = Len(h)
    BY <1>1, <1>2, <1>3
<1>5. \A i \in 1 .. Len(g) : g[i] = h[i]
    BY <1>1, <1>2, <1>3, <1>4
<1> QED BY <1>1, <1>2, <1>3, <1>4, <1>5, SeqEqual

\* Delivery survives a returned credit at the end, and moves on with a packet
\* that is submitted and with a flit that is taken.
LEMMA DeliversReturn ==
    ASSUME NEW f \in Seq(1 .. MaxPackets + 1), NEW b \in Nat, NEW n \in Nat, Delivers(f, b, n)
    PROVE  Delivers(Append(f, LCrdReturn), b, n)
<1> DEFINE g == Append(f, LCrdReturn)
<1>1. /\ Len(f) \in Nat /\ Len(g) = Len(f) + 1 /\ g[Len(f) + 1] = LCrdReturn
      /\ \A i \in 1 .. Len(f) : g[i] = f[i]
    OBVIOUS
<1>2. \A i \in 1 .. Len(g) : g[i] # LCrdReturn => i \in 1 .. Len(f) /\ g[i] = f[i]
    BY <1>1
<1> HIDE DEF g
<1>3. \A p \in b + 1 .. n : \E i \in 1 .. Len(g) : g[i] = p
    <2> TAKE p \in b + 1 .. n
    <2>1. PICK i \in 1 .. Len(f) : f[i] = p
        BY DEF Delivers
    <2>2. i \in 1 .. Len(g) /\ g[i] = p
        BY <2>1, <1>1
    <2> QED BY <2>2
<1>4. Delivers(g, b, n)
    BY <1>2, <1>3 DEF Delivers
<1> QED BY <1>4 DEF g

LEMMA DeliversPacket ==
    ASSUME NEW f \in Seq(1 .. MaxPackets + 1), NEW b \in Nat, NEW n \in Nat, Delivers(f, b, n), b <= n
    PROVE  Delivers(Append(f, n + 1), b, n + 1)
<1> DEFINE g == Append(f, n + 1)
<1>1. /\ Len(f) \in Nat /\ Len(g) = Len(f) + 1 /\ g[Len(f) + 1] = n + 1
      /\ \A i \in 1 .. Len(f) : g[i] = f[i]
    OBVIOUS
<1>2. \A i \in 1 .. Len(g) : i \in 1 .. Len(f) \/ i = Len(f) + 1
    BY <1>1
<1> HIDE DEF g
<1>3. \A p \in b + 1 .. n + 1 : \E i \in 1 .. Len(g) : g[i] = p
    <2> TAKE p \in b + 1 .. n + 1
    <2>1. CASE p = n + 1
        <3>1. Len(f) + 1 \in 1 .. Len(g)
            BY <1>1
        <3> QED BY <3>1, <2>1, <1>1
    <2>2. CASE p # n + 1
        <3>1. PICK i \in 1 .. Len(f) : f[i] = p
            BY <2>2 DEF Delivers
        <3>2. i \in 1 .. Len(g) /\ g[i] = p
            BY <3>1, <1>1
        <3> QED BY <3>2
    <2> QED BY <2>1, <2>2
<1>4. \A i \in 1 .. Len(f) : f[i] # LCrdReturn => f[i] \in b + 1 .. n
    BY DEF Delivers
<1>5. \A i \in 1 .. Len(g) : g[i] # LCrdReturn => g[i] \in b + 1 .. n + 1
    BY <1>1, <1>2, <1>4
<1>6. \A i, j \in 1 .. Len(g) :
          i < j /\ g[i] # LCrdReturn /\ g[j] # LCrdReturn => g[i] < g[j]
    <2> TAKE i, j \in 1 .. Len(g)
    <2> HAVE i < j /\ g[i] # LCrdReturn /\ g[j] # LCrdReturn
    <2>1. i \in 1 .. Len(f) /\ g[i] = f[i] /\ f[i] \in b + 1 .. n
        BY <1>1, <1>2, <1>4
    <2>2. CASE j = Len(f) + 1
        BY <2>1, <2>2, <1>1
    <2>3. CASE j \in 1 .. Len(f)
        BY <2>1, <2>3, <1>1 DEF Delivers
    <2> QED BY <2>2, <2>3, <1>2
<1>7. Delivers(g, b, n + 1)
    BY <1>3, <1>5, <1>6 DEF Delivers
<1> QED BY <1>7 DEF g

LEMMA DeliversTail ==
    ASSUME NEW f \in Seq(1 .. MaxPackets + 1), NEW b \in Nat, NEW n \in 0 .. MaxPackets, Delivers(f, b, n), f # <<>>
    PROVE  IF Head(f) = LCrdReturn THEN Delivers(Tail(f), b, n)
                                   ELSE b < n /\ Delivers(Tail(f), b + 1, n)
<1> DEFINE g == Tail(f)
<1>1. /\ Len(f) \in Nat /\ Len(f) > 0 /\ Len(g) = Len(f) - 1 /\ Head(f) = f[1]
      /\ \A i \in 1 .. Len(g) : g[i] = f[i + 1] /\ i + 1 \in 1 .. Len(f)
    BY HeadTailProperties
<1> HIDE DEF g
<1>2. \A i \in 1 .. Len(f) : f[i] # LCrdReturn => f[i] \in b + 1 .. n
    BY DEF Delivers
<1>3. \A i, j \in 1 .. Len(f) :
          i < j /\ f[i] # LCrdReturn /\ f[j] # LCrdReturn => f[i] < f[j]
    BY DEF Delivers
<1>4. \A i, j \in 1 .. Len(g) :
          i < j /\ g[i] # LCrdReturn /\ g[j] # LCrdReturn => g[i] < g[j]
    BY <1>1, <1>3
<1>5. \A p \in b + 1 .. n : p # f[1] => \E i \in 1 .. Len(g) : g[i] = p
    <2> TAKE p \in b + 1 .. n
    <2> HAVE p # f[1]
    <2>1. PICK i \in 1 .. Len(f) : f[i] = p
        BY DEF Delivers
    <2>2. i - 1 \in 1 .. Len(g) /\ g[i - 1] = p
        BY <2>1, <1>1
    <2> QED BY <2>2
<1>6. CASE Head(f) = LCrdReturn
    <2>1. \A i \in 1 .. Len(g) : g[i] # LCrdReturn => g[i] \in b + 1 .. n
        BY <1>1, <1>2
    <2>2. \A p \in b + 1 .. n : \E i \in 1 .. Len(g) : g[i] = p
        <3> TAKE p \in b + 1 .. n
        <3>1. PICK i \in 1 .. Len(f) : f[i] = p
            BY DEF Delivers
        <3>2. CASE i = 1
            BY <3>1, <3>2, <1>1, <1>6, LinkAssumption DEF LCrdReturn
        <3>3. CASE i # 1
            <4>1. i - 1 \in 1 .. Len(g) /\ g[i - 1] = p
                BY <3>1, <3>3, <1>1
            <4> QED BY <4>1
        <3> QED BY <3>2, <3>3
    <2>3. Delivers(g, b, n)
        BY <1>4, <2>1, <2>2 DEF Delivers
    <2> QED BY <2>3, <1>6 DEF g
<1>7. CASE Head(f) # LCrdReturn
    <2>1. f[1] \in b + 1 .. n /\ 1 \in 1 .. Len(f)
        BY <1>1, <1>2, <1>7
    <2>2. f[1] = b + 1
        <3>1. b + 1 \in b + 1 .. n
            BY <2>1
        <3>2. PICK i \in 1 .. Len(f) : f[i] = b + 1
            BY <3>1 DEF Delivers
        <3>3. b + 1 # LCrdReturn
            BY <2>1, LinkAssumption DEF LCrdReturn
        <3> QED BY <3>2, <3>3, <2>1, <1>3, <1>1, <1>7
    <2>3. \A i \in 1 .. Len(g) : g[i] # LCrdReturn => g[i] \in (b + 1) + 1 .. n
        <3> TAKE i \in 1 .. Len(g)
        <3> HAVE g[i] # LCrdReturn
        <3>1. g[i] = f[i + 1] /\ i + 1 \in 1 .. Len(f) /\ 1 < i + 1
            BY <1>1
        <3>2. f[1] < f[i + 1] /\ f[i + 1] \in b + 1 .. n
            BY <3>1, <2>1, <1>1, <1>2, <1>3, <1>7
        <3> QED BY <3>1, <3>2, <2>2
    <2>4. \A p \in (b + 1) + 1 .. n : \E i \in 1 .. Len(g) : g[i] = p
        BY <1>5, <2>2
    <2>5. Delivers(g, b + 1, n)
        BY <1>4, <2>3, <2>4 DEF Delivers
    <2> QED BY <2>1, <2>5, <1>7 DEF g
<1> QED BY <1>6, <1>7

\* Every step of the link keeps the invariant.
THEOREM LinkInvariance == LinkSpec => []LinkInv
<1>1. LinkInit => LinkInv
    BY LinkAssumption DEF LinkInit, LinkInv, LinkTypeOK, StoppedIsEmpty, CreditsConserved,
        MonitorAgrees, Credits, None
<1>2. LinkInv /\ [LinkNext]_linkVars => LinkInv'
    <2> SUFFICES ASSUME LinkInv, [LinkNext]_linkVars PROVE LinkInv'
        OBVIOUS
    <2>1. CASE Clock
        BY <2>1, ClockKeeps
    <2>2. CASE Reset \/ (\E l \in Links : Submit(l) \/ Take(l)) \/ (\E s \in Sides : SetState(s))
        BY <2>2, OthersKeep
    <2>3. CASE UNCHANGED linkVars
        BY <2>3 DEF linkVars, portVars, txVars, rxVars, LinkInv, LinkTypeOK, StoppedIsEmpty,
            CreditsConserved, MonitorAgrees, Credits, State, GetLinkState
    <2> QED BY <2>1, <2>2, <2>3 DEF LinkNext
<1> QED BY <1>1, <1>2, PTL DEF LinkSpec

\* The types of the link state, for any number of channels and packets.
THEOREM LinkTypes == LinkSpec => []LinkTypeOK
<1>1. LinkInv => LinkTypeOK
    BY DEF LinkInv
<1> QED BY <1>1, LinkInvariance, PTL

\* tx_thread and rx_thread make up no credit and lose none, over any sequence
\* of activations and deactivations.
THEOREM LinkConservesCredits == LinkSpec => []CreditsConserved
<1>1. LinkInv => CreditsConserved
    BY DEF LinkInv
<1> QED BY <1>1, LinkInvariance, PTL

\* state_thread stops no link that still has a flit or a credit on its wires.
THEOREM LinkStopsEmpty == LinkSpec => []StoppedIsEmpty
<1>1. LinkInv => StoppedIsEmpty
    BY DEF LinkInv
<1> QED BY <1>1, LinkInvariance, PTL

\* The LCrdMonitor of a channel reports nothing unless there was a reset.
THEOREM LinkMonitorAgrees == LinkSpec => []MonitorAgrees
<1>1. LinkInv => MonitorAgrees
    BY DEF LinkInv
<1> QED BY <1>1, LinkInvariance, PTL

\* The sequences of a link.
LEMMA FlitsType ==
    ASSUME LinkTypeOK, OrderInv, NEW l \in Links
    PROVE  /\ rxList[l] \in Seq(1 .. MaxPackets + 1) /\ OnWire(l) \in Seq(1 .. MaxPackets + 1)
           /\ Unsent(l) \in Seq(1 .. MaxPackets + 1) /\ txList[l] \in Seq(1 .. MaxPackets)
           /\ txList[l] \in Seq(1 .. MaxPackets + 1) /\ Flits(l) \in Seq(1 .. MaxPackets + 1)
<1> USE LinkAssumption
<1> DEFINE S == 1 .. MaxPackets + 1
<1>1. rxList[l] \in Seq(S) /\ txList[l] \in Seq(1 .. MaxPackets) /\ flit[l] \in 0 .. MaxPackets + 1
    BY DEF LinkTypeOK, OrderInv
<1>2. OnWire(l) \in Seq(S)
    <2>1. flit[l] # None => flit[l] \in S
        BY <1>1 DEF None
    <2> HIDE DEF S
    <2>2. flit[l] # None => <<flit[l]>> \in Seq(S)
        BY <2>1
    <2>3. <<>> \in Seq(S)
        OBVIOUS
    <2> QED BY <2>2, <2>3 DEF OnWire
<1>3. txList[l] \in Seq(S)
    <2>1. /\ Len(txList[l]) \in Nat /\ DOMAIN txList[l] = 1 .. Len(txList[l])
          /\ \A i \in 1 .. Len(txList[l]) : txList[l][i] \in S
        BY <1>1
    <2>2. txList[l] \in [1 .. Len(txList[l]) -> S]
        BY <1>1, <2>1
    <2> QED BY <2>1, <2>2
<1>4. Unsent(l) \in Seq(S)
    BY <1>3, HeadTailProperties DEF Unsent
<1> QED BY <1>1, <1>2, <1>3, <1>4, ConcatProperties DEF Flits

\* A clock edge moves flits along and may put a returned credit at the end.
LEMMA EdgeMoves ==
    ASSUME LinkInv, OrderInv, Clock, NEW l \in Used, l \in Links
    PROVE  Flits(l)' \in {Flits(l), Append(Flits(l), LCrdReturn)}
<1> USE LinkAssumption
<1> DEFINE S == 1 .. MaxPackets + 1   a == rxList[l]   b == OnWire(l)   c == Unsent(l)
<1>1. TxThread /\ RxThread
    BY DEF Clock
<1>2. a \in Seq(S) /\ b \in Seq(S) /\ c \in Seq(S) /\ <<>> \in Seq(S) /\ Flits(l) = (a \o b) \o c
      /\ a \o b \in Seq(S)
    BY FlitsType, ConcatProperties DEF Flits, LinkInv
<1>3. txList'[l] = Waiting(l) /\ created'[l] = IF Transmits(l) THEN SendsPacket(l) ELSE created[l]
    BY <1>1 DEF TxThread
<1>4. flit'[l] = IF SendsPacket(l) THEN Head(Waiting(l))
                 ELSE IF ReturnsCredit(l) THEN LCrdReturn
                 ELSE IF State(l) = "Stop" THEN flit[l] ELSE None
    BY <1>1 DEF TxThread
<1>5. rxList'[l] = IF Receives(l) THEN Append(rxList[l], flit[l]) ELSE rxList[l]
    BY <1>1 DEF RxThread
<1>6. State(l) = "Stop" => flit[l] = None
    BY DEF LinkInv, StoppedIsEmpty
<1>7. rxList'[l] = a \o b
    <2>1. CASE flit[l] = None
        BY <2>1, <1>2, <1>5, ConcatEmptySeq DEF Receives, OnWire
    <2>2. CASE flit[l] # None
        <3>1. flit[l] \in S
            BY <2>2 DEF LinkInv, LinkTypeOK, None
        <3> QED BY <2>2, <3>1, <1>2, <1>5, <1>6, AppendIsConcat DEF Receives, OnWire
    <2> QED BY <2>1, <2>2
<1>8. Flits(l)' = ((a \o b) \o OnWire(l)') \o Unsent(l)'
    BY <1>7 DEF Flits
<1>9. OnWire(l)' = IF flit'[l] = None THEN <<>> ELSE <<flit'[l]>>
    BY DEF OnWire
<1>10. Unsent(l)' = IF txList'[l] # <<>> /\ created'[l] THEN Tail(txList'[l]) ELSE txList'[l]
    BY DEF Unsent
<1> HIDE DEF a, b, c
<1>11. CASE ~Transmits(l)
    <2>1. ~SendsPacket(l) /\ ~ReturnsCredit(l) /\ Waiting(l) = txList[l]
        BY <1>11 DEF SendsPacket, ReturnsCredit, Transmits, Waiting
    <2>2. flit'[l] = None
        BY <2>1, <1>4, <1>6
    <2>3. Unsent(l)' = c /\ OnWire(l)' = <<>>
        BY <2>1, <2>2, <1>3, <1>9, <1>10, <1>11 DEF c, Unsent
    <2> QED BY <2>3, <1>2, <1>8, ConcatEmptySeq
<1>12. CASE Transmits(l)
    <2>1. Waiting(l) = c
        BY <1>12 DEF c, Unsent, Waiting
    <2>2. CASE SendsPacket(l)
        <3>1. c # <<>>
            BY <2>1, <2>2 DEF SendsPacket
        <3>2. c \in Seq(1 .. MaxPackets)
            BY <2>1, WaitingType DEF LinkInv
        <3>3. Head(c) \in 1 .. MaxPackets
            BY <3>1, <3>2, HeadTailProperties
        <3>4. OnWire(l)' = <<Head(c)>>
            BY <2>1, <2>2, <3>3, <1>4, <1>9 DEF None
        <3>5. Unsent(l)' = Tail(c)
            BY <2>1, <2>2, <3>1, <1>3, <1>10, <1>12
        <3> QED BY <3>1, <3>4, <3>5, <1>2, <1>8, SplitHead
    <2>3. CASE ~SendsPacket(l)
        <3>1. Unsent(l)' = c
            BY <2>1, <2>3, <1>3, <1>10, <1>12
        <3>2. CASE ReturnsCredit(l)
            <4>1. c = <<>>
                BY <2>1, <3>2 DEF ReturnsCredit
            <4>2. OnWire(l)' = <<LCrdReturn>>
                BY <2>3, <3>2, <1>4, <1>9 DEF LCrdReturn, None
            <4>3. LCrdReturn \in S
                BY DEF LCrdReturn
            <4>4. (a \o b) \o <<LCrdReturn>> \in Seq(S)
                  /\ (a \o b) \o <<LCrdReturn>> = Append(a \o b, LCrdReturn)
                BY <4>3, <1>2, AppendIsConcat, AppendProperties
            <4>5. Flits(l) = a \o b /\ Flits(l)' = Append(a \o b, LCrdReturn)
                BY <4>1, <4>2, <4>4, <3>1, <1>2, <1>8, ConcatEmptySeq
            <4> QED BY <4>5
        <3>3. CASE ~ReturnsCredit(l)
            <4>1. OnWire(l)' = <<>>
                BY <2>3, <3>3, <1>4, <1>6, <1>9
            <4> QED BY <4>1, <3>1, <1>2, <1>8, ConcatEmptySeq
        <3> QED BY <3>2, <3>3
    <2> QED BY <2>2, <2>3
<1> QED BY <1>11, <1>12

LEMMA OrderClock == ASSUME LinkInv, OrderInv, Clock PROVE OrderInv'
<1> USE LinkAssumption
<1> DEFINE S == 1 .. MaxPackets + 1
<1>1. TxThread /\ RxThread /\ UNCHANGED <<submitted, taken>>
    BY DEF Clock
<1>2. rxList' \in [Links -> Seq(S)]
    <2>1. \A l \in Links : Receives(l) => flit[l] \in S
        BY DEF Receives, LinkInv, LinkTypeOK, None
    <2>2. \A l \in Links : rxList[l] \in Seq(S)
        BY DEF OrderInv
    <2>3. \A l \in Links : Receives(l) => Append(rxList[l], flit[l]) \in Seq(S)
        BY <2>1, <2>2, AppendProperties
    <2> QED BY <2>2, <2>3, <1>1 DEF RxThread
<1>3. \A l \in Links : created'[l] => txList'[l] # <<>>
    <2> TAKE l \in Links
    <2>1. txList'[l] = Waiting(l) /\ created'[l] = IF Transmits(l) THEN SendsPacket(l) ELSE created[l]
        BY <1>1 DEF TxThread
    <2>2. ~Transmits(l) => Waiting(l) = txList[l]
        BY DEF Waiting
    <2> QED BY <2>1, <2>2 DEF SendsPacket, OrderInv
<1>4. ASSUME NEW l \in Links \ Used
      PROVE  submitted'[l] = 0 /\ txList'[l] = <<>> /\ rxList'[l] = <<>> /\ InOrder!(l)'
    <2>1. submitted[l] = 0 /\ txList[l] = <<>> /\ rxList[l] = <<>> /\ taken[l] \in Nat
        BY DEF OrderInv
    <2>2. Waiting(l) = <<>> /\ ~SendsPacket(l)
        BY <2>1 DEF Waiting, SendsPacket
    <2>3. submitted'[l] = 0 /\ txList'[l] = <<>> /\ rxList'[l] = <<>> /\ taken'[l] = taken[l]
        BY <2>1, <2>2, <1>1 DEF TxThread, RxThread
    <2>4. flit'[l] \in {None, LCrdReturn}
        BY <2>2, <1>1 DEF TxThread, LinkInv, StoppedIsEmpty
    <2>5. OnWire(l)' \in {<<>>, <<LCrdReturn>>} /\ Unsent(l)' = <<>>
        BY <2>3, <2>4 DEF OnWire, Unsent
    <2>6. Flits(l)' \in {<<>>, <<LCrdReturn>>}
        BY <2>3, <2>5 DEF Flits
    <2>7. \A i \in 1 .. Len(Flits(l)') : Flits(l)'[i] = LCrdReturn
        BY <2>6
    <2>8. Delivers(Flits(l)', taken'[l], submitted'[l])
        BY <2>1, <2>3, <2>7 DEF Delivers
    <2> QED BY <2>3, <2>8
<1>5. ASSUME NEW l \in Links, l \in Used PROVE InOrder!(l)'
    <2>1. Flits(l) \in Seq(S) /\ taken[l] \in Nat /\ submitted[l] \in Nat
        BY FlitsType DEF OrderInv, LinkInv, LinkTypeOK
    <2>2. Delivers(Flits(l), taken[l], submitted[l])
        BY DEF OrderInv, InOrder
    <2>3. Delivers(Append(Flits(l), LCrdReturn), taken[l], submitted[l])
        BY <2>1, <2>2, DeliversReturn
    <2> QED BY <2>2, <2>3, <1>1, <1>5, EdgeMoves
<1>6. InOrder'
    BY <1>4, <1>5 DEF InOrder
<1> QED BY <1>1, <1>2, <1>3, <1>4, <1>6 DEF OrderInv

LEMMA OrderSubmit ==
    ASSUME LinkInv, OrderInv, NEW k \in Links, Submit(k) PROVE OrderInv'
<1> USE LinkAssumption
<1> DEFINE S == 1 .. MaxPackets + 1   x == submitted[k] + 1
<1>1. /\ UNCHANGED <<created, flit, rxList, taken>>
      /\ k \in Used /\ x \in S /\ x \in 1 .. MaxPackets /\ submitted[k] \in Nat
      /\ \A l \in Links : /\ submitted'[l] = IF l = k THEN x ELSE submitted[l]
                          /\ txList'[l] = IF l = k THEN Append(txList[l], x) ELSE txList[l]
    BY DEF Submit, rxVars, LinkInv, LinkTypeOK
<1>2. \A l \in Links : rxList[l] \in Seq(S) /\ OnWire(l) \in Seq(S) /\ Unsent(l) \in Seq(S)
                       /\ txList[l] \in Seq(S) /\ Flits(l) \in Seq(S)
                       /\ taken[l] \in Nat /\ submitted[l] \in Nat /\ taken[l] <= submitted[l]
    <2>1. LinkTypeOK
        BY DEF LinkInv
    <2>2. \A l \in Links : rxList[l] \in Seq(S) /\ OnWire(l) \in Seq(S) /\ Unsent(l) \in Seq(S)
                            /\ txList[l] \in Seq(S) /\ Flits(l) \in Seq(S)
        BY <2>1, FlitsType
    <2>3. \A l \in Links : taken[l] \in Nat /\ submitted[l] \in Nat /\ taken[l] <= submitted[l]
        BY <2>1 DEF LinkTypeOK, OrderInv
    <2> QED BY <2>2, <2>3
<1>3. Flits(k)' = Append(Flits(k), x)
    <2>1. OnWire(k)' = OnWire(k) /\ rxList'[k] = rxList[k]
        BY <1>1 DEF OnWire
    <2>2. Append(txList[k], x) # <<>>
        <3>1. txList[k] \in Seq(S) /\ x \in S
            BY <1>1, <1>2
        <3> HIDE DEF S, x
        <3> QED BY <3>1, AppendProperties
    <2>3. Unsent(k)' = Append(Unsent(k), x)
        <3>1. CASE created[k]
            <4>1. txList[k] # <<>>
                BY <3>1 DEF OrderInv
            <4>2. Tail(Append(txList[k], x)) = Append(Tail(txList[k]), x)
                BY <4>1, <1>2, HeadTailAppend
            <4> QED BY <4>1, <4>2, <2>2, <3>1, <1>1 DEF Unsent
        <3>2. CASE ~created[k]
            BY <3>2, <1>1 DEF Unsent
        <3> QED BY <3>1, <3>2
    <2>4. rxList[k] \o OnWire(k) \in Seq(S)
        BY <1>2, ConcatProperties
    <2>6. Unsent(k) \in Seq(S) /\ x \in S
        BY <1>1, <1>2
    <2> DEFINE f == rxList[k] \o OnWire(k)   u == Unsent(k)
    <2>7. f \in Seq(S) /\ u \in Seq(S)
        BY <2>4, <2>6
    <2> HIDE DEF S, x, f, u
    <2>8. f \o Append(u, x) = Append(f \o u, x)
        BY <2>6, <2>7, AppendLast
    <2>5. (rxList[k] \o OnWire(k)) \o Append(Unsent(k), x) = Append((rxList[k] \o OnWire(k)) \o Unsent(k), x)
        BY <2>8 DEF f, u
    <2> QED BY <2>1, <2>3, <2>5 DEF Flits
<1>4. Delivers(Append(Flits(k), x), taken[k], x)
    BY <1>2, DeliversPacket DEF OrderInv, InOrder
<1>5. InOrder'
    <2> SUFFICES ASSUME NEW l \in Links PROVE Delivers(Flits(l)', taken'[l], submitted'[l])
        BY DEF InOrder
    <2>1. CASE l = k
        BY <2>1, <1>1, <1>3, <1>4
    <2>2. CASE l # k
        BY <2>2, <1>1 DEF Flits, OnWire, Unsent, OrderInv, InOrder
    <2> QED BY <2>1, <2>2
<1>6. \A l \in Links : taken'[l] <= submitted'[l] /\ (created'[l] => txList'[l] # <<>>)
    <2> TAKE l \in Links
    <2>1. CASE l = k
        <3>1. txList[k] \in Seq(S) /\ taken[k] <= x
            BY <1>2
        <3>2. Append(txList[k], x) # <<>>
            BY <3>1, <1>1, AppendProperties
        <3> QED BY <2>1, <3>1, <3>2, <1>1
    <2>2. CASE l # k
        BY <2>2, <1>1 DEF OrderInv
    <2> QED BY <2>1, <2>2
<1> QED BY <1>1, <1>5, <1>6 DEF OrderInv

LEMMA OrderTake ==
    ASSUME LinkInv, OrderInv, NEW k \in Links, Take(k) PROVE OrderInv'
<1> USE LinkAssumption
<1> DEFINE S == 1 .. MaxPackets + 1   a == rxList[k]   r == OnWire(k) \o Unsent(k)
<1>1. /\ UNCHANGED <<txList, created, flit, submitted>> /\ a # <<>>
      /\ taken' = [taken EXCEPT ![k] = IF Head(a) = LCrdReturn THEN @ ELSE @ + 1]
      /\ rxList' = [rxList EXCEPT ![k] = Tail(@)]
    BY DEF Take, txVars
<1>2. \A l \in Links : rxList[l] \in Seq(S) /\ OnWire(l) \in Seq(S) /\ Unsent(l) \in Seq(S)
                       /\ taken[l] \in Nat /\ submitted[l] \in 0 .. MaxPackets
    <2>1. LinkTypeOK
        BY DEF LinkInv
    <2>2. \A l \in Links : rxList[l] \in Seq(S) /\ OnWire(l) \in Seq(S) /\ Unsent(l) \in Seq(S)
        BY <2>1, FlitsType
    <2>3. \A l \in Links : taken[l] \in Nat /\ submitted[l] \in 0 .. MaxPackets
        BY <2>1 DEF LinkTypeOK, OrderInv
    <2> QED BY <2>2, <2>3
<1>3. Tail(a) \in Seq(S)
    BY <1>1, <1>2, HeadTailProperties
<1>4. rxList' \in [Links -> Seq(S)] /\ \A l \in Links : rxList'[l] = IF l = k THEN Tail(a) ELSE rxList[l]
    BY <1>1, <1>3 DEF OrderInv
<1>5. /\ taken' \in [Links -> Nat]
      /\ \A l \in Links : taken'[l] = IF l = k /\ Head(a) # LCrdReturn THEN taken[l] + 1 ELSE taken[l]
    BY <1>1, <1>2 DEF OrderInv
<1>6. Flits(k) = a \o r /\ Flits(k)' = Tail(a) \o r /\ r \in Seq(S)
    <2>1. r \in Seq(S)
        BY <1>2, ConcatProperties
    <2>6. a \in Seq(S) /\ OnWire(k) \in Seq(S) /\ Unsent(k) \in Seq(S)
        BY <1>2
    <2> DEFINE b == OnWire(k)   c == Unsent(k)   d == Tail(a)
    <2>7. a \in Seq(S) /\ b \in Seq(S) /\ c \in Seq(S) /\ d \in Seq(S)
        BY <2>6, <1>3
    <2> HIDE DEF S, a, b, c, d
    <2>8. (a \o b) \o c = a \o (b \o c)
        BY <2>7, ConcatAssociative
    <2>9. (d \o b) \o c = d \o (b \o c)
        BY <2>7, ConcatAssociative
    <2>2. (a \o OnWire(k)) \o Unsent(k) = a \o r
        BY <2>8 DEF b, c
    <2>3. (Tail(a) \o OnWire(k)) \o Unsent(k) = Tail(a) \o r
        BY <2>9 DEF b, c, d
    <2>4. OnWire(k)' = OnWire(k) /\ Unsent(k)' = Unsent(k)
        BY <1>1 DEF OnWire, Unsent
    <2>5. Flits(k)' = (Tail(a) \o OnWire(k)) \o Unsent(k)
        BY <2>4, <1>4 DEF Flits
    <2> QED BY <2>1, <2>2, <2>3, <2>5 DEF Flits, a
<1>7. Flits(k)' = Tail(Flits(k)) /\ Head(a) = Head(Flits(k)) /\ Flits(k) # <<>> /\ Flits(k) \in Seq(S)
    <2>1. a \in Seq(S) /\ a # <<>>
        BY <1>1, <1>2
    <2> HIDE DEF a, r, S
    <2> QED BY <2>1, <1>6, TailFirst, ConcatProperties
<1>8. IF Head(a) = LCrdReturn THEN Delivers(Flits(k)', taken[k], submitted[k])
      ELSE taken[k] < submitted[k] /\ Delivers(Flits(k)', taken[k] + 1, submitted[k])
    BY <1>2, <1>7, DeliversTail DEF OrderInv, InOrder
<1>9. InOrder'
    <2> SUFFICES ASSUME NEW l \in Links PROVE Delivers(Flits(l)', taken'[l], submitted'[l])
        BY DEF InOrder
    <2>1. CASE l = k
        BY <2>1, <1>1, <1>5, <1>8
    <2>2. CASE l # k
        BY <2>2, <1>1, <1>4, <1>5 DEF Flits, OnWire, Unsent, OrderInv, InOrder
    <2> QED BY <2>1, <2>2
<1>10. \A l \in Links : taken'[l] <= submitted'[l]
    BY <1>1, <1>2, <1>5, <1>8 DEF OrderInv
<1>11. ASSUME NEW l \in Links \ Used PROVE rxList'[l] = <<>>
    <2>1. rxList[l] = <<>> /\ l # k
        BY <1>1 DEF OrderInv
    <2> QED BY <2>1, <1>4
<1> QED BY <1>1, <1>4, <1>5, <1>9, <1>10, <1>11 DEF OrderInv

LEMMA OrderReset == ASSUME LinkInv, OrderInv, Reset PROVE OrderInv'
<1> USE LinkAssumption
<1>1. \A l \in Links : /\ txList'[l] = <<>> /\ rxList'[l] = <<>> /\ flit'[l] = None /\ ~created'[l]
                       /\ taken'[l] = submitted[l] /\ submitted'[l] = submitted[l]
                       /\ submitted[l] \in Nat
    BY DEF Reset, LinkInv, LinkTypeOK
<1>2. \A l \in Links : Flits(l)' = <<>>
    BY <1>1 DEF Flits, OnWire, Unsent
<1>3. \A l \in Links : Delivers(<<>>, submitted[l], submitted[l])
    BY <1>1 DEF Delivers
<1>4. InOrder'
    BY <1>1, <1>2, <1>3 DEF InOrder
<1>5. taken' \in [Links -> Nat] /\ rxList' \in [Links -> Seq(1 .. MaxPackets + 1)]
    BY DEF Reset, LinkInv, LinkTypeOK
<1>6. \A l \in Links : taken'[l] <= submitted'[l] /\ (created'[l] => txList'[l] # <<>>)
    BY <1>1
<1>7. \A l \in Links \ Used : submitted'[l] = 0 /\ txList'[l] = <<>> /\ rxList'[l] = <<>>
    BY <1>1 DEF OrderInv
<1> QED BY <1>4, <1>5, <1>6, <1>7 DEF OrderInv

\* RxChannel::GetNext hands out every packet given to TxChannel::Process once
\* and in order, over any number of activations, deactivations and returned
\* credits; a reset drops those under way.
THEOREM LinkDelivers == LinkSpec => []InOrder
<1>1. LinkInit => OrderInv
    <2> SUFFICES ASSUME LinkInit PROVE OrderInv
        OBVIOUS
    <2>1. \A l \in Links : Flits(l) = <<>> /\ taken[l] = 0 /\ submitted[l] = 0
        BY DEF LinkInit, Flits, OnWire, Unsent
    <2>2. Delivers(<<>>, 0, 0)
        BY DEF Delivers
    <2> QED BY <2>1, <2>2 DEF LinkInit, OrderInv, InOrder
<1>2. LinkInv /\ OrderInv /\ [LinkNext]_linkVars => OrderInv'
    <2> SUFFICES ASSUME LinkInv, OrderInv, [LinkNext]_linkVars PROVE OrderInv'
        OBVIOUS
    <2>1. CASE Clock
        BY <2>1, OrderClock
    <2>2. CASE Reset
        BY <2>2, OrderReset
    <2>3. ASSUME NEW l \in Links, Submit(l) \/ Take(l) PROVE OrderInv'
        BY <2>3, OrderSubmit, OrderTake
    <2>4. CASE (\E s \in Sides : SetState(s)) \/ UNCHANGED linkVars
        <3>1. UNCHANGED <<txVars, rxVars, submitted, taken>>
            BY <2>4 DEF SetState, linkVars
        <3> QED BY <3>1 DEF txVars, rxVars, OrderInv, InOrder, Flits, OnWire, Unsent
    <2> QED BY <2>1, <2>2, <2>3, <2>4 DEF LinkNext
<1>3. OrderInv => InOrder
    BY DEF OrderInv
<1> QED BY <1>1, <1>2, <1>3, LinkInvariance, PTL DEF LinkSpec
=============================================================================
