------------------------------ MODULE AceBarrier ------------------------------
(***************************************************************************)
(* BarrierProcesser (tlm-modules/bp-ace.h), between an initiator and its   *)
(* cache_ace: the first barrier of a pair is sent by a thread of its own,  *)
(* so that the initiator can go on to issue the second, which waits for    *)
(* the first and answers for both.                                         *)
(*                                                                         *)
(* One thread of the initiator issues barriers, in pairs; the others issue *)
(* ordinary accesses.  All meet at the cache's m_mutex.                    *)
(***************************************************************************)
CONSTANTS Barriers,  \* the initiator's thread that issues barriers
          Others,    \* its threads that issue ordinary accesses
          Spawned    \* the thread of exec_barrier

ASSUME BarrierAssumption ==
    /\ Barriers \notin Others
    /\ Spawned \notin Others \cup {Barriers}

VARIABLES ongoing, \* m_bar.m_ongoing
          bar,     \* the response status of m_bar's payload
          holder,  \* who holds m_mutex of the cache: a set of at most one thread
          pc,      \* where each thread is
          resp,    \* the response status of the payload a thread passes on
          turn,    \* which barrier of a pair the initiator issues next
          first    \* history: how the first barrier of the pair was answered

barVars == <<ongoing, bar, holder, pc, resp, turn, first>>

Initiators == Others \cup {Barriers}
Threads == Initiators \cup {Spawned}
Status == {"incomplete", "ok", "error"}

\* Types, and what Setup leaves for the spawned thread: m_bar is marked
\* ongoing and has no response until that thread has one.
BarTypeOK ==
    /\ ongoing \in BOOLEAN
    /\ bar \in Status
    /\ holder \in SUBSET Threads
    /\ pc \in [Threads -> {"idle", "lock", "run", "wait", "delay", "woken"}]
    /\ resp \in [Initiators -> Status]
    /\ turn \in {"first", "second"}
    /\ first \in Status
    /\ pc[Spawned] \in {"lock", "run"} => ongoing /\ bar = "incomplete"

BarInit ==
    /\ ongoing = FALSE
    /\ bar = "incomplete"
    /\ holder = {}
    /\ pc = [t \in Threads |-> "idle"]
    /\ resp = [t \in Initiators |-> "incomplete"]
    /\ turn = "first"
    /\ first = "incomplete"

\* Variant: Setup does not mark m_bar as ongoing.
Launch_NotOngoing ==
    /\ pc[Barriers] = "idle" /\ turn = "first" /\ ~ongoing
    /\ bar' = "incomplete"
    /\ pc' = [pc EXCEPT ![Spawned] = "lock"]
    /\ resp' = [resp EXCEPT ![Barriers] = "ok"]
    /\ turn' = "second"
    /\ first' = "incomplete"
    /\ UNCHANGED <<ongoing, holder>>

\* b_transport with the first barrier: Setup, exec_barrier, and return.
Launch ==
    /\ pc[Barriers] = "idle" /\ turn = "first" /\ ~ongoing
    /\ ongoing' = TRUE
    /\ bar' = "incomplete"
    /\ pc' = [pc EXCEPT ![Spawned] = "lock"]
    /\ resp' = [resp EXCEPT ![Barriers] = "ok"]
    /\ turn' = "second"
    /\ first' = "incomplete"
    /\ UNCHANGED holder

\* b_transport with anything else is passed on to the cache.
Forward(t) ==
    /\ pc[t] = "idle"
    /\ t = Barriers => ongoing
    /\ pc' = [pc EXCEPT ![t] = "lock"]
    /\ resp' = [resp EXCEPT ![t] = "incomplete"]
    /\ first' = IF t = Barriers /\ turn = "first" THEN "incomplete" ELSE first
    /\ UNCHANGED <<ongoing, bar, holder, turn>>

\* cache_ace::b_transport: m_mutex.lock()
Lock(t) ==
    /\ pc[t] = "lock" /\ holder = {}
    /\ holder' = {t}
    /\ pc' = [pc EXCEPT ![t] = "run"]
    /\ UNCHANGED <<ongoing, bar, resp, turn, first>>

\* The barriers take turns, and first is the answer to the first of a pair.
Next_turn == IF turn = "first" THEN "second" ELSE "first"

\* Variant: the second barrier does not wait.
Waits_No(t) == FALSE

Waits(t) == t = Barriers /\ ongoing

\* The cache answers s and unlocks; a barrier then waits for DoneEvent.
Answered(t) ==
    /\ pc[t] = "run" /\ t \in Initiators
    /\ holder' = {}
    /\ \E s \in {"ok", "error"} :
          /\ resp' = [resp EXCEPT ![t] = s]
          /\ first' = IF t = Barriers /\ turn = "first" THEN s ELSE first
    /\ IF Waits(t)
       THEN /\ pc' = [pc EXCEPT ![t] = "wait"]
            /\ UNCHANGED turn
       ELSE /\ pc' = [pc EXCEPT ![t] = "idle"]
            /\ turn' = IF t = Barriers THEN Next_turn ELSE turn
    /\ UNCHANGED <<ongoing, bar>>

\* exec_tlm_gp: the cache answers the first barrier, ...
FirstAnswered ==
    /\ pc[Spawned] = "run"
    /\ holder' = {}
    /\ \E s \in {"ok", "error"} : bar' = s /\ first' = s
    /\ pc' = [pc EXCEPT ![Spawned] = "delay"]
    /\ UNCHANGED <<ongoing, resp, turn>>

\* ... and after wait(delay) DoneEvent().notify() wakes who waits just now.
Notify ==
    /\ pc[Spawned] = "delay"
    /\ pc' = [pc EXCEPT ![Spawned] = "idle",
                        ![Barriers] = IF @ = "wait" THEN "woken" ELSE @]
    /\ UNCHANGED <<ongoing, bar, holder, resp, turn, first>>

\* The second barrier returns; an error of the first is propagated.
Return ==
    /\ pc[Barriers] = "woken"
    /\ resp' = [resp EXCEPT ![Barriers] = IF @ = "ok" /\ bar # "ok" THEN bar ELSE @]
    /\ pc' = [pc EXCEPT ![Barriers] = "idle"]
    /\ turn' = Next_turn
    /\ UNCHANGED <<ongoing, bar, holder, first>>

BarNext ==
    \/ Launch
    \/ \E t \in Initiators : Forward(t) \/ Answered(t)
    \/ \E t \in Threads : Lock(t)
    \/ FirstAnswered
    \/ Notify
    \/ Return

BarSpec == BarInit /\ [][BarNext]_barVars

-----------------------------------------------------------------------------
\* "return the result with the second barrier transaction": when the second
\* barrier of a pair returns TLM_OK_RESPONSE, the first has been answered,
\* and answered with TLM_OK_RESPONSE.
PairAnswersBoth ==
    [][turn = "second" /\ turn' = "first" /\ resp'[Barriers] = "ok"
          => first = "ok"]_barVars
=============================================================================
