----------------------------- MODULE TxOrderer -----------------------------
(***************************************************************************)
(* iconnect_ace::OverlappingTxOrderer (tlm-modules/iconnect-ace.h), the    *)
(* component that keeps transactions for the same bytes apart: process()   *)
(* lets a transaction run or puts it in m_overlapping_tx, and when one is  *)
(* done restart_overlapping looks through that list, from its front, for   *)
(* those that may run now.                                                 *)
(*                                                                         *)
(* The module is parameterised by the overlap test, so that it specifies   *)
(* the class for the ranges of bytes it computes with (AddressRange) and   *)
(* for the sets of words of the system model (AceSystem).                  *)
(***************************************************************************)
CONSTANTS Txs,            \* transactions, by the port they come from
          Ranges,         \* the address ranges they may have
          NoRange,        \* the range of no transaction
          Classes,        \* the classes of the transactions that may come
          InRange(_, _)   \* the test of is_overlapping and restart_overlapping

\* IsSnoopingTransaction holds for the first two, IsDVM for the second.
AllClasses == {"snoop", "dvm", "plain"}

ASSUME OrdererAssumption ==
    /\ NoRange \notin Ranges
    /\ Classes \subseteq AllClasses
    /\ \A r, q \in Ranges : InRange(r, q) \in BOOLEAN
    /\ \A r, q \in Ranges : InRange(r, q) <=> InRange(q, r)

VARIABLES place,    \* where a transaction is
          rng,      \* its address range
          class,    \* whether it snoops: "snoop", "dvm" or "plain"
          older     \* <<a, b>>: a is before b in m_overlapping_tx

ordVars == <<place, rng, class, older>>

Stalled == {t \in Txs : place[t] = "stalled"}   \* m_overlapping_tx
Running == {t \in Txs : place[t] = "ongoing"}   \* m_ongoing_tx

OrdTypeOK ==
    /\ place \in [Txs -> {"out", "stalled", "ongoing"}]
    /\ rng \in [Txs -> Ranges \cup {NoRange}]
    /\ \A t \in Txs : place[t] # "out" => rng[t] \in Ranges
    /\ class \in [Txs -> AllClasses]
    /\ older \in SUBSET (Txs \X Txs)

OrdInit ==
    /\ place = [t \in Txs |-> "out"]
    /\ rng = [t \in Txs |-> NoRange]
    /\ class = [t \in Txs |-> "plain"]
    /\ older = {}

\* is_overlapping, for a transaction with range r and the ongoing ones S
overlapping(r, S) == \E q \in S : InRange(r, rng[q])

\* Variant: any transaction that overlaps an ongoing one waits.
Stalls_Any(r, c) == overlapping(r, Running)

\* A snooping transaction, other than a DVM message, that overlaps an ongoing
\* transaction of any class has to wait.
Stalls(r, c) == c = "snoop" /\ overlapping(r, Running)

\* process(), up to the wait for DoneEvent.
Process(t, r, c) ==
    /\ place[t] = "out"
    /\ rng' = [rng EXCEPT ![t] = r]
    /\ class' = [class EXCEPT ![t] = c]
    /\ \/ /\ Stalls(r, c)
          /\ place' = [place EXCEPT ![t] = "stalled"]
          /\ older' = older \cup (Stalled \X {t})
       \/ /\ ~Stalls(r, c)
          /\ place' = [place EXCEPT ![t] = "ongoing"]
          /\ UNCHANGED older

\* Variant: the restart looks before t has left m_ongoing_tx.
Restarts_None(t, R) == R = {s \in Stalled : ~overlapping(rng[s], Running)}

\* Variant: the restart forgets what it has just restarted.
Restarts_All(t, R) ==
    R = {s \in Stalled : InRange(rng[t], rng[s])
                           /\ ~overlapping(rng[s], Running \ {t})}

\* R are the transactions that restart_overlapping restarts once t is done:
\* it goes through the list in order and adds what it restarts to m_ongoing_tx.
Restarts(t, R) ==
    \A s \in Stalled :
        s \in R <=> /\ InRange(rng[t], rng[s])
                    /\ ~overlapping(rng[s], Running \ {t})
                    /\ ~overlapping(rng[s], {r \in R : <<r, s>> \in older})

\* process(), from DoneEvent on.
Done(t) ==
    /\ place[t] = "ongoing"
    /\ \E R \in SUBSET Stalled :
          /\ Restarts(t, R)
          /\ place' = [x \in Txs |-> IF x = t THEN "out"
                                     ELSE IF x \in R THEN "ongoing" ELSE place[x]]
          /\ older' = {p \in older : p[1] \notin R /\ p[2] \notin R}
    /\ rng' = [rng EXCEPT ![t] = NoRange]
    /\ class' = [class EXCEPT ![t] = "plain"]

OrdNext ==
    \E t \in Txs : \/ \E r \in Ranges, c \in Classes : Process(t, r, c)
                   \/ Done(t)

OrdSpec == OrdInit /\ [][OrdNext]_ordVars

-----------------------------------------------------------------------------
\* No lost wake-up: a transaction in m_overlapping_tx always overlaps one in
\* m_ongoing_tx, whose completion will look at it.
StalledHasBlocker == \A s \in Stalled : overlapping(rng[s], Running)

\* Two snooping transactions that process() or restart_overlapping let run
\* together never touch the same bytes (a DVM message has no bytes).
SnoopingDisjoint ==
    \A a, b \in Running :
        a # b /\ class[a] = "snoop" /\ class[b] = "snoop" => ~InRange(rng[a], rng[b])

\* What makes the two invariants inductive: m_overlapping_tx is a list, so of
\* two stalled transactions one is behind the other, and only snooping
\* transactions are in it.
OrdInv ==
    /\ OrdTypeOK
    /\ \A a, b \in Stalled : a # b => <<a, b>> \in older \/ <<b, a>> \in older
    /\ \A s \in Stalled : class[s] = "snoop"
    /\ StalledHasBlocker
    /\ SnoopingDisjoint
=============================================================================
