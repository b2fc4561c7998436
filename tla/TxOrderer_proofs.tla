-------------------------- MODULE TxOrderer_proofs --------------------------
(***************************************************************************)
(* Proofs about OverlappingTxOrderer, for any number of transactions over  *)
(* any ranges: no wake-up is lost, and snooping transactions that run      *)
(* together touch different bytes.                                         *)
(***************************************************************************)
EXTENDS TxOrderer, AddressRange, TLAPS

\* The three comparisons of is_overlapping find out exactly whether two
\* transactions have a byte in common.
THEOREM OverlapIsExact ==
    ASSUME NEW r \in AddressRanges, NEW q \in AddressRanges
    PROVE  InRangeOf(r, q) <=> Bytes(r) \cap Bytes(q) # {}
<1> DEFINE last == r.addr + r.len - 1
<1>1. r.addr \in Nat /\ r.len \in Nat /\ r.len # 0
      /\ q.addr \in Nat /\ q.len \in Nat /\ q.len # 0
  BY DEF AddressRanges
<1>2. last \in Nat
  BY <1>1
<1>3. ASSUME InAddressRange(q, r.addr)  PROVE  r.addr \in Bytes(r) \cap Bytes(q)
  BY <1>1, <1>3 DEF Bytes, InAddressRange
<1>4. ASSUME InAddressRange(q, last)  PROVE  last \in Bytes(r) \cap Bytes(q)
  BY <1>1, <1>2, <1>4 DEF Bytes, InAddressRange
<1>5. ASSUME InAddressRange(r, q.addr)  PROVE  q.addr \in Bytes(r) \cap Bytes(q)
  BY <1>1, <1>5 DEF Bytes, InAddressRange
<1>6. ASSUME NEW a \in Bytes(r) \cap Bytes(q)
      PROVE  InAddressRange(q, r.addr) \/ InAddressRange(r, q.addr)
  BY <1>1 DEF Bytes, InAddressRange
<1>7. QED
  BY <1>3, <1>4, <1>5, <1>6 DEF InRangeOf

\* It does not matter which of the two transactions the test is called for:
\* ranges of bytes satisfy what TxOrderer assumes of its overlap test.
THEOREM OverlapIsSymmetric ==
    ASSUME NEW r \in AddressRanges, NEW q \in AddressRanges
    PROVE  InRangeOf(r, q) <=> InRangeOf(q, r)
  BY OverlapIsExact

-----------------------------------------------------------------------------

\* The ranges of two transactions that are not out overlap in both orders.
LEMMA Symmetric ==
    ASSUME OrdTypeOK, NEW a \in Txs, NEW b \in Txs,
           place[a] # "out", place[b] # "out"
    PROVE  InRange(rng[a], rng[b]) <=> InRange(rng[b], rng[a])
  BY OrdererAssumption DEF OrdTypeOK

\* Initially m_ongoing_tx and m_overlapping_tx are empty.
LEMMA InitInv == OrdInit => OrdInv
  BY DEF OrdInit, OrdInv, OrdTypeOK, Stalled, Running, StalledHasBlocker,
         SnoopingDisjoint, AllClasses

\* process() up to its wait keeps the invariant.
LEMMA ProcessInv ==
    ASSUME OrdInv, NEW t \in Txs, NEW r \in Ranges, NEW c \in Classes,
           Process(t, r, c)
    PROVE  OrdInv'
<1>1. OrdTypeOK /\ StalledHasBlocker /\ SnoopingDisjoint
  BY DEF OrdInv
<1>2. OrdTypeOK'
  <2>1. CASE Stalls(r, c)
    BY <1>1, <2>1, OrdererAssumption DEF Process, OrdTypeOK, Stalled
  <2>2. CASE ~Stalls(r, c)
    BY <1>1, <2>2, OrdererAssumption DEF Process, OrdTypeOK
  <2>3. QED
    BY <2>1, <2>2
<1>3. \A x \in Txs \ {t} : place'[x] = place[x] /\ rng'[x] = rng[x] /\ class'[x] = class[x]
  BY <1>1 DEF Process, OrdTypeOK
<1>4. t \notin Stalled /\ t \notin Running /\ rng'[t] = r /\ class'[t] = c
  BY <1>1 DEF Process, OrdTypeOK, Stalled, Running
<1>5. CASE Stalls(r, c)
  <2>1. Stalled' = Stalled \cup {t} /\ Running' = Running
    BY <1>1, <1>3, <1>4, <1>5 DEF Process, OrdTypeOK, Stalled, Running
  <2>2. older' = older \cup (Stalled \X {t})
    BY <1>5 DEF Process
  <2>3. \A a, b \in Stalled' : a # b => <<a, b>> \in older' \/ <<b, a>> \in older'
    BY <2>1, <2>2 DEF OrdInv
  <2>4. \A s \in Stalled' : class'[s] = "snoop"
    BY <2>1, <1>3, <1>4, <1>5 DEF OrdInv, Stalls, Stalled
  <2>5. StalledHasBlocker'
    BY <1>1, <1>3, <1>4, <1>5, <2>1
       DEF StalledHasBlocker, overlapping, Stalls, Running, Stalled
  <2>6. SnoopingDisjoint'
    BY <1>1, <1>3, <1>4, <2>1 DEF SnoopingDisjoint, Running
  <2>7. QED
    BY <1>2, <2>3, <2>4, <2>5, <2>6 DEF OrdInv
<1>6. CASE ~Stalls(r, c)
  <2>1. Stalled' = Stalled /\ Running' = Running \cup {t} /\ older' = older
    BY <1>1, <1>3, <1>4, <1>6 DEF Process, OrdTypeOK, Stalled, Running
  <2>2. \A s \in Stalled' : class'[s] = "snoop"
    BY <2>1, <1>3, <1>4 DEF OrdInv, Stalled
  <2>3. StalledHasBlocker'
    BY <1>1, <1>3, <1>4, <2>1 DEF StalledHasBlocker, overlapping, Running, Stalled
  <2>4. SnoopingDisjoint'
    <3>1. ASSUME NEW a \in Running, c = "snoop"
          PROVE  ~InRange(r, rng[a]) /\ ~InRange(rng[a], r)
      <4>1. ~InRange(r, rng[a])
        BY <1>6, <3>1 DEF Stalls, overlapping
      <4>2. rng[a] \in Ranges
        BY <1>1 DEF OrdTypeOK, Running
      <4>3. QED
        BY <4>1, <4>2, OrdererAssumption
    <3>2. QED
      BY <1>1, <1>3, <1>4, <2>1, <3>1 DEF SnoopingDisjoint, Running
  <2>5. QED
    BY <1>2, <2>1, <2>2, <2>3, <2>4 DEF OrdInv
<1>7. QED
  BY <1>5, <1>6

\* process() from DoneEvent on, restart_overlapping included, keeps it.
LEMMA DoneInv ==
    ASSUME OrdInv, NEW t \in Txs, Done(t)
    PROVE  OrdInv'
<1>1. OrdTypeOK /\ StalledHasBlocker /\ SnoopingDisjoint
  BY DEF OrdInv
<1>2. PICK R \in SUBSET Stalled :
        /\ Restarts(t, R)
        /\ place' = [x \in Txs |-> IF x = t THEN "out"
                                   ELSE IF x \in R THEN "ongoing" ELSE place[x]]
        /\ older' = {p \in older : p[1] \notin R /\ p[2] \notin R}
  BY DEF Done
<1>3. /\ place[t] = "ongoing"
      /\ rng' = [rng EXCEPT ![t] = NoRange]
      /\ class' = [class EXCEPT ![t] = "plain"]
  BY DEF Done
<1>4. \A x \in Txs \ {t} : rng'[x] = rng[x] /\ class'[x] = class[x]
  BY <1>1, <1>3 DEF OrdTypeOK
<1>5. Stalled' = Stalled \ R /\ Running' = (Running \ {t}) \cup R
  BY <1>2, <1>3 DEF Stalled, Running
<1>6. t \notin Stalled
  BY <1>3 DEF Stalled
<1>7. OrdTypeOK'
  BY <1>1, <1>2, <1>3, <1>4 DEF OrdTypeOK, Stalled, AllClasses
<1>8. \A a, b \in Stalled' : a # b => <<a, b>> \in older' \/ <<b, a>> \in older'
  BY <1>2, <1>5 DEF OrdInv
<1>9. \A s \in Stalled' : class'[s] = "snoop"
  BY <1>4, <1>5, <1>6 DEF OrdInv, Stalled
<1>10. StalledHasBlocker'
  <2> SUFFICES ASSUME NEW s \in Stalled \ R
               PROVE  \E q \in (Running \ {t}) \cup R : InRange(rng[s], rng[q])
    BY <1>4, <1>5, <1>6 DEF StalledHasBlocker, overlapping, Stalled, Running
  <2>1. \/ ~InRange(rng[t], rng[s])
        \/ overlapping(rng[s], Running \ {t})
        \/ overlapping(rng[s], {r \in R : <<r, s>> \in older})
    BY <1>2 DEF Restarts
  <2>2. CASE ~InRange(rng[t], rng[s])
    <3>1. PICK q \in Running : InRange(rng[s], rng[q])
      BY <1>1 DEF StalledHasBlocker, overlapping
    <3>2. ~InRange(rng[s], rng[t])
      BY <1>1, <1>3, <2>2, Symmetric DEF Stalled
    <3>3. QED
      BY <3>1, <3>2
  <2>3. QED
    BY <2>1, <2>2 DEF overlapping
<1>11. SnoopingDisjoint'
  <2> SUFFICES ASSUME NEW a \in (Running \ {t}) \cup R,
                      NEW b \in (Running \ {t}) \cup R,
                      a # b, class[a] = "snoop", class[b] = "snoop"
               PROVE  ~InRange(rng[a], rng[b])
    BY <1>4, <1>5, <1>6 DEF SnoopingDisjoint, Stalled, Running
  <2>1. InRange(rng[a], rng[b]) <=> InRange(rng[b], rng[a])
    BY <1>1, Symmetric DEF Stalled, Running
  <2>2. CASE a \in Running \ {t} /\ b \in Running \ {t}
    BY <1>1, <2>2 DEF SnoopingDisjoint
  <2>3. CASE a \in R /\ b \in Running \ {t}
    BY <1>2, <2>3 DEF Restarts, overlapping
  <2>4. CASE b \in R /\ a \in Running \ {t}
    BY <1>2, <2>1, <2>4 DEF Restarts, overlapping
  <2>5. CASE a \in R /\ b \in R
    <3>1. <<a, b>> \in older \/ <<b, a>> \in older
      BY <2>5 DEF OrdInv
    <3>2. QED
      BY <1>2, <2>1, <2>5, <3>1 DEF Restarts, overlapping
  <2>6. QED
    BY <2>2, <2>3, <2>4, <2>5
<1>12. QED
  BY <1>7, <1>8, <1>9, <1>10, <1>11 DEF OrdInv

\* The inductive invariant holds in every reachable state.
THEOREM OrdererInvariant == OrdSpec => []OrdInv
<1>1. ASSUME OrdInv, [OrdNext]_ordVars  PROVE  OrdInv'
  <2>1. CASE \E t \in Txs, r \in Ranges, c \in Classes : Process(t, r, c)
    BY <1>1, <2>1, ProcessInv
  <2>2. CASE \E t \in Txs : Done(t)
    BY <1>1, <2>2, DoneInv
  <2>3. CASE UNCHANGED ordVars
    BY <1>1, <2>3 DEF ordVars, OrdInv, OrdTypeOK, Stalled, Running, overlapping,
                      StalledHasBlocker, SnoopingDisjoint
  <2>4. QED
    BY <1>1, <2>1, <2>2, <2>3 DEF OrdNext
<1>2. QED
  BY <1>1, InitInv, PTL DEF OrdSpec

\* The members of OverlappingTxOrderer stay well formed: a transaction that
\* is in one of its lists has a range.
THEOREM OrdererTypeOK == OrdSpec => []OrdTypeOK
<1>1. OrdInv => OrdTypeOK
  BY DEF OrdInv
<1>2. QED
  BY <1>1, OrdererInvariant, PTL

\* No wake-up is lost: whatever is in m_overlapping_tx overlaps something in
\* m_ongoing_tx, so restart_overlapping will look at it again.
THEOREM NoLostWakeUp == OrdSpec => []StalledHasBlocker
<1>1. OrdInv => StalledHasBlocker
  BY DEF OrdInv
<1>2. QED
  BY <1>1, OrdererInvariant, PTL

\* Snooping transactions that run together touch different bytes.
THEOREM SnoopingApart == OrdSpec => []SnoopingDisjoint
<1>1. OrdInv => SnoopingDisjoint
  BY DEF OrdInv
<1>2. QED
  BY <1>1, OrdererInvariant, PTL
=============================================================================
