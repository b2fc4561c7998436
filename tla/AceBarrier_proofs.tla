--------------------------- MODULE AceBarrier_proofs ---------------------------
(***************************************************************************)
(* The barriers of AceBarrier, for any number of other threads: its types, *)
(* and that the second barrier of a pair answers for both.                 *)
(***************************************************************************)
EXTENDS AceBarrier, TLAPS

\* What the pair under way looks like.  m_ongoing is never cleared, so a
\* second pair finds no spawned thread, and nobody wakes its first barrier.
PairInv ==
    /\ turn = "second" \/ pc[Barriers] # "idle" => ongoing
    /\ ongoing /\ turn = "first" =>
          pc[Spawned] = "idle" /\ pc[Barriers] # "woken"
    /\ pc[Barriers] = "woken" => pc[Spawned] = "idle"
    /\ turn = "second" /\ bar # "incomplete" => first = bar

BarInv == BarTypeOK /\ PairInv

LEMMA Distinct ==
    /\ Barriers \in Initiators /\ Barriers \in Threads /\ Spawned \in Threads
    /\ Initiators \subseteq Threads
    /\ Spawned \notin Initiators /\ Spawned # Barriers
BY BarrierAssumption DEF Initiators, Threads

LEMMA BarInitial == BarInit => BarInv
BY Distinct DEF BarInit, BarInv, BarTypeOK, PairInv, Status

LEMMA BarStep == BarInv /\ [BarNext]_barVars => BarInv'
<1> SUFFICES ASSUME BarInv, [BarNext]_barVars PROVE BarInv'
  OBVIOUS
<1> USE Distinct
<1>0. BarTypeOK /\ PairInv
  BY DEF BarInv
<1>1. CASE Launch
  BY <1>0, <1>1 DEF Launch, BarInv, BarTypeOK, PairInv, Status
<1>2. ASSUME NEW t \in Initiators, Forward(t) PROVE BarInv'
  BY <1>0, <1>2 DEF Forward, BarInv, BarTypeOK, PairInv, Status
<1>3. ASSUME NEW t \in Initiators, Answered(t) PROVE BarInv'
  <2>1. PICK s \in {"ok", "error"} :
          /\ resp' = [resp EXCEPT ![t] = s]
          /\ first' = IF t = Barriers /\ turn = "first" THEN s ELSE first
    BY <1>3 DEF Answered
  <2>2. CASE Waits(t)
    BY <1>0, <1>3, <2>1, <2>2 DEF Answered, Waits, BarInv, BarTypeOK, PairInv, Status
  <2>3. CASE ~Waits(t)
    <3>1. t # Barriers
      BY <1>0, <1>3, <2>3 DEF Answered, Waits, PairInv
    <3> QED
      BY <1>0, <1>3, <2>1, <2>3, <3>1 DEF Answered, BarInv, BarTypeOK, PairInv, Status
  <2> QED
    BY <2>2, <2>3
<1>4. ASSUME NEW t \in Threads, Lock(t) PROVE BarInv'
  BY <1>0, <1>4 DEF Lock, BarInv, BarTypeOK, PairInv, Status
<1>5. CASE FirstAnswered
  <2>1. PICK s \in {"ok", "error"} : bar' = s /\ first' = s
    BY <1>5 DEF FirstAnswered
  <2> QED
    BY <1>0, <1>5, <2>1 DEF FirstAnswered, BarInv, BarTypeOK, PairInv, Status
<1>6. CASE Notify
  BY <1>0, <1>6 DEF Notify, BarInv, BarTypeOK, PairInv, Status
<1>7. CASE Return
  BY <1>0, <1>7 DEF Return, Next_turn, BarInv, BarTypeOK, PairInv, Status
<1>8. CASE UNCHANGED barVars
  BY <1>0, <1>8 DEF barVars, BarInv, BarTypeOK, PairInv
<1> QED
  BY <1>1, <1>2, <1>3, <1>4, <1>5, <1>6, <1>7, <1>8 DEF BarNext

LEMMA BarAlways == BarSpec => []BarInv
BY BarInitial, BarStep, PTL DEF BarSpec

\* Every variable of the barrier processor keeps its type, and while the
\* spawned thread is on its way m_bar stays ongoing and unanswered.
THEOREM BarTypes == BarSpec => []BarTypeOK
<1>1. BarInv => BarTypeOK
  BY DEF BarInv
<1> QED
  BY <1>1, BarAlways, PTL

\* A second barrier that returns TLM_OK_RESPONSE has waited for the first,
\* which was answered TLM_OK_RESPONSE: b_transport propagates its error.
THEOREM SecondAnswersBoth == BarSpec => PairAnswersBoth
<1>1. BarInv /\ [BarNext]_barVars =>
        [turn = "second" /\ turn' = "first" /\ resp'[Barriers] = "ok"
            => first = "ok"]_barVars
  <2> SUFFICES ASSUME BarInv, BarNext, turn = "second", turn' = "first",
                      resp'[Barriers] = "ok"
               PROVE  first = "ok"
    BY DEF barVars
  <2> USE Distinct
  <2>0. BarTypeOK /\ PairInv
    BY DEF BarInv
  <2>1. CASE Return
    BY <2>0, <2>1 DEF Return, BarTypeOK, PairInv
  <2>2. ASSUME NEW t \in Initiators, Answered(t) PROVE first = "ok"
    BY <2>0, <2>2 DEF Answered, Waits, PairInv
  <2> QED
    BY <2>1, <2>2 DEF BarNext, Launch, Forward, Lock, FirstAnswered, Notify
<1> QED
  BY <1>1, BarAlways, PTL DEF BarSpec, PairAnswersBoth
=============================================================================
