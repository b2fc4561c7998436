--------------------------- MODULE AceInterconnect ---------------------------
(***************************************************************************)
(* iconnect_ace (tlm-modules/iconnect-ace.h) and what the pair of ACE      *)
(* bridges in front of every port adds to it: a request and a response     *)
(* each take time to cross, and the ace2tlm bridge holds a snoop back      *)
(* while an earlier response for the same line waits for its RACK / WACK   *)
(* (ACESnoopChannels_S::m_overlapList).                                    *)
(*                                                                         *)
(* A master has at most one transaction, tx[m].  Its phases are            *)
(*   idle      none                                                        *)
(*   req       issued, crossing the bridges on AR / AW                     *)
(*   stalled   in m_overlapping_tx                                         *)
(*   engine    in m_snoop_engine_fifo                                      *)
(*   snoop     its SnoopTransactions are running                           *)
(*   ds        in m_downstream_fifo                                        *)
(*   resp      b_transport returned; the response crosses the bridges      *)
(* The transactions of the phases engine, snoop and ds are m_ongoing_tx.   *)
(***************************************************************************)
EXTENDS AceProtocol

VARIABLES tx,         \* the transaction of every master
          older,      \* <<a, b>>: a entered the list that b is in before b did
          snoop,      \* the SnoopTransaction of a master for a line
          snoopDone,  \* m_snoop_done_fifo
          downstream, \* m_downstream_fifo
          overlap,    \* m_overlapList of a port's bridge, by line
          memory,     \* the slave behind the downstream port
          posSet,     \* PosMonitor::m_port_set
          posLock     \* PosMonitor::m_lock

icnVars == <<tx, older, snoop, snoopDone, downstream, overlap, memory, posSet,
             posLock>>

Phases == {"idle", "req", "stalled", "engine", "snoop", "ds", "resp"}

RangeData == UNION {[rng -> Values] : rng \in SUBSET Addr}

Tx == [phase : Phases, kind : TxKinds \cup {"none"}, rng : SUBSET Addr,
       data : RangeData, excl : BOOLEAN, shared : BOOLEAN, dirty : BOOLEAN,
       ok : BOOLEAN, exokay : BOOLEAN, segs : SUBSET Lines]

NoTx == [phase |-> "idle", kind |-> "none", rng |-> {}, data |-> Nothing,
         excl |-> FALSE, shared |-> FALSE, dirty |-> FALSE, ok |-> FALSE,
         exokay |-> FALSE, segs |-> {}]

Answer == [shared : BOOLEAN, dirty : BOOLEAN, xfer : BOOLEAN, data : LineData]

BlankAnswer == [shared |-> FALSE, dirty |-> FALSE, xfer |-> FALSE,
                data |-> BlankLine]

\* sent: ports snooped and not yet answered; back: answered, PortDone to come
Snoop == [sent : SUBSET Caches, back : SUBSET Caches, ans : [Caches -> Answer],
          exec : BOOLEAN, data : LineData]

NoSnoop == [sent |-> {}, back |-> {}, ans |-> [c \in Caches |-> BlankAnswer],
            exec |-> FALSE, data |-> BlankLine]

\* An entry of m_downstream_fifo: the transaction itself, or the ds_gp that a
\* SnoopTransaction runs for one line (exec_snoop_downstream_gp).
DsEntry == [m : Masters, line : Lines, own : BOOLEAN]

IcnTypeOK ==
    /\ tx \in [Masters -> Tx]
    /\ \A m \in Masters : tx[m].data \in [tx[m].rng -> Values]
    /\ older \in SUBSET (Masters \X Masters)
    /\ snoop \in [Masters -> [Lines -> Snoop]]
    /\ snoopDone \in Seq(Masters \X Lines)
    /\ downstream \in Seq(DsEntry)
    /\ overlap \in [Caches -> [Lines -> Seq(Masters)]]
    /\ memory \in [Addr -> Values]
    /\ posSet \in [Caches -> BOOLEAN]
    /\ posLock \in BOOLEAN

IcnInit ==
    /\ tx = [m \in Masters |-> NoTx]
    /\ older = {}
    /\ snoop = [m \in Masters |-> [l \in Lines |-> NoSnoop]]
    /\ snoopDone = <<>>
    /\ downstream = <<>>
    /\ overlap = [c \in Caches |-> [l \in Lines |-> <<>>]]
    /\ memory = [a \in Addr |-> InitValue]
    /\ posSet = [c \in Caches |-> FALSE]
    /\ posLock = FALSE

\* std::list::remove, of an element listed at most once
Without(q, m) ==
    IF \E i \in 1..Len(q) : q[i] = m
    THEN LET i == CHOOSE i \in 1..Len(q) : q[i] = m
         IN  SubSeq(q, 1, i - 1) \o SubSeq(q, i + 1, Len(q))
    ELSE q

(***************************************************************************)
(* Issuing a transaction (do_tlm), seen from the interconnect.             *)
(***************************************************************************)
NewTx(kind, rng, data, excl) ==
    [NoTx EXCEPT !.phase = "req", !.kind = kind, !.rng = rng, !.data = data,
                 !.excl = excl, !.segs = LinesOf(rng)]

(***************************************************************************)
(* OverlappingTxOrderer.                                                   *)
(***************************************************************************)
InPhase(p) == {m \in Masters : tx[m].phase = p}
Ongoing == {m \in Masters : tx[m].phase \in {"engine", "snoop", "ds"}}

Overlapping(a, b) == tx[a].rng \cap tx[b].rng # {}
is_overlapping(m, others) == \E o \in others : Overlapping(m, o)

\* m enters a list whose members are q; a list's order is kept in older.
Forget(R) == {p \in older : p[1] \notin R /\ p[2] \notin R}
Behind(q, m) == q \X {m}

\* b_transport of ACEPort_S / ACELitePort_S and process(), up to the wait.
Accept(m) ==
    /\ tx[m].phase = "req"
    /\ LET kind == tx[m].kind
           l == CHOOSE x \in LinesOf(tx[m].rng) : TRUE
       IN
       \/ /\ kind = "Evict"
          /\ tx' = [tx EXCEPT ![m].phase = "resp", ![m].ok = TRUE]
          /\ overlap' = [overlap EXCEPT ![m][l] = Append(@, m)]
          /\ UNCHANGED <<older, downstream>>
       \/ /\ IsSnoopingTransaction(kind)
          /\ is_overlapping(m, Ongoing)
          /\ tx' = [tx EXCEPT ![m].phase = "stalled"]
          /\ older' = older \cup Behind(InPhase("stalled"), m)
          /\ UNCHANGED <<overlap, downstream>>
       \/ /\ IsSnoopingTransaction(kind)
          /\ ~is_overlapping(m, Ongoing)
          /\ tx' = [tx EXCEPT ![m].phase = "engine"]
          /\ older' = older \cup Behind(InPhase("engine"), m)
          /\ UNCHANGED <<overlap, downstream>>
       \/ /\ ~IsSnoopingTransaction(kind) /\ kind # "Evict"
          /\ tx' = [tx EXCEPT ![m].phase = "ds"]
          /\ downstream' = Append(downstream, [m |-> m, line |-> l, own |-> TRUE])
          /\ UNCHANGED <<older, overlap>>
    /\ UNCHANGED <<snoop, snoopDone, memory, posSet, posLock>>

(***************************************************************************)
(* DoneEvent of m's transaction, now t: process() drops it from            *)
(* m_ongoing_tx and restarts, in the order they stalled, the transactions  *)
(* that overlap it and no other ongoing one (restart_overlapping); then    *)
(* b_transport returns and the bridge lists the response.                  *)
(***************************************************************************)
\* Variant: the restart looks before m has left m_ongoing_tx.
Restartable_None(m, R) == R = {s \in InPhase("stalled") : ~is_overlapping(s, Ongoing)}

\* Variant: the restart forgets what it has just restarted.
Restartable_All(m, R) ==
    R = {s \in InPhase("stalled") :
            Overlapping(s, m) /\ ~is_overlapping(s, Ongoing \ {m})}

Restartable(m, R) ==
    \A s \in InPhase("stalled") :
        s \in R <=> /\ Overlapping(s, m)
                    /\ ~is_overlapping(s, Ongoing \ {m})
                    /\ \A r \in R : <<r, s>> \in older => ~Overlapping(r, s)

Complete(m, t) ==
    \E R \in SUBSET InPhase("stalled") :
        /\ Restartable(m, R)
        /\ tx' = [x \in Masters |->
                     IF x = m THEN [t EXCEPT !.phase = "resp"]
                     ELSE IF x \in R THEN [tx[x] EXCEPT !.phase = "engine"]
                     ELSE tx[x]]
        /\ older' = {p \in Forget({m}) : p[1] \in R <=> p[2] \in R}
                        \cup (InPhase("engine") \ {m}) \X R
        /\ overlap' = IF m \in Caches
                      THEN [overlap EXCEPT ![m] = [l \in Lines |->
                               IF l \in LinesOf(t.rng) THEN Append(@[l], m)
                                                       ELSE @[l]]]
                      ELSE overlap

(***************************************************************************)
(* SnoopEngine::snoop_engine_thread.                                       *)
(***************************************************************************)
EngineHead == {m \in InPhase("engine") :
                  \A x \in InPhase("engine") : <<x, m>> \notin older}

\* handle_exclusive: the PoS monitor, and whether the transaction goes on.
Proceeds(m) == tx[m].excl /\ tx[m].kind = "CleanUnique" => posSet[m]

handle_exclusive(m) ==
    IF ~tx[m].excl THEN UNCHANGED <<posSet, posLock>>
    ELSE LET marked == [posSet EXCEPT ![m] = @ \/ ~posLock] IN
         IF tx[m].kind = "CleanUnique" /\ posSet[m]
         THEN /\ posSet' = [c \in Caches |-> c = m]
              /\ posLock' = TRUE
         ELSE /\ posSet' = marked
              /\ UNCHANGED posLock

\* Failed exclusive CleanUnique ends here
EngineFail(m) ==
    /\ m \in EngineHead
    /\ ~Proceeds(m)
    /\ handle_exclusive(m)
    /\ Complete(m, [tx[m] EXCEPT !.ok = TRUE])
    /\ UNCHANGED <<snoop, snoopDone, downstream, memory>>

\* One SnoopTransaction per cacheline of the transaction, to every other port.
EngineSnoop(m) ==
    /\ m \in EngineHead
    /\ Proceeds(m)
    /\ handle_exclusive(m)
    /\ LET ports == Caches \ {m}
           lines == LinesOf(tx[m].rng)
       IN  /\ tx' = [tx EXCEPT ![m].phase = "snoop", ![m].exokay = tx[m].excl]
           /\ older' = Forget({m})
           /\ snoop' = [snoop EXCEPT ![m] = [l \in Lines |->
                            IF l \in lines
                            THEN [NoSnoop EXCEPT !.sent = ports,
                                                 !.exec = tx[m].kind = "ReadOnce"]
                            ELSE @[l]]]
           /\ overlap' = [c \in Caches |-> [l \in Lines |->
                            IF c \in ports /\ l \in lines
                            THEN Append(overlap[c][l], m) ELSE overlap[c][l]]]
           /\ snoopDone' = IF ports = {}
                           THEN Append(snoopDone, <<m, CHOOSE l \in lines : TRUE>>)
                           ELSE snoopDone
    /\ UNCHANGED <<downstream, memory>>

(***************************************************************************)
(* ACEPort_S::snoop_master_thread of port c, for line l of m: the answer   *)
(* a comes back from the master, and PortDone merges it.                   *)
(***************************************************************************)
\* Variant: a snoop overtakes the response on its way to the master.
SnoopReady_NoWait(m, l, c) == c \in snoop[m][l].sent

SnoopReady(m, l, c) ==
    /\ c \in snoop[m][l].sent
    /\ Head(overlap[c][l]) = m      \* wait_for_overlapping_tx

SnoopAnswered(m, l, c, a) ==
    /\ LET s == snoop[m][l] IN
       snoop' = [snoop EXCEPT ![m][l] =
          [s EXCEPT !.sent = s.sent \ {c}, !.back = s.back \cup {c}, !.ans[c] = a]]
    /\ UNCHANGED <<tx, older, snoopDone, downstream, overlap, memory, posSet, posLock>>

\* update_trans_response: the snoop alone answers these transactions.
AnsweredBySnoop(kind, a) ==
    \/ kind \in ReadKinds \ {"ReadOnce"} /\ a.xfer
    \/ kind \in CleanKinds \cup CmoKinds

\* copy_data: the words of line l that the transaction covers
CopyLine(t, l, d) ==
    [t EXCEPT !.data = [x \in t.rng |-> IF x[1] = l THEN d[x[2]] ELSE @[x]]]

\* Dirty data that must not be passed on is written downstream.
MustClean(kind, a) == a.xfer /\ a.dirty /\ ~AllowPassDirty(kind)

\* Variant: data that a snoop brought is fetched from downstream as well.
NeedsDownstream_Always(was, kind, a) == was \/ MustClean(kind, a)

\* m_exec_ds_gp after the answer a, which is set for ReadOnce at first.
NeedsDownstream(was, kind, a) ==
    MustClean(kind, a) \/ (was /\ ~(a.xfer /\ kind = "ReadOnce"))

PortDone(m, l, c) ==
    /\ c \in snoop[m][l].back
    /\ LET t == tx[m]
           s == snoop[m][l]
           a == s.ans[c]
           merged == [t EXCEPT !.shared = @ \/ a.shared,
                               !.dirty = @ \/ (a.xfer /\ a.dirty
                                                 /\ AllowPassDirty(t.kind)),
                               !.ok = @ \/ AnsweredBySnoop(t.kind, a)]
       IN  /\ tx' = [tx EXCEPT ![m] = IF a.xfer /\ t.kind \in ReadKinds
                                      THEN CopyLine(merged, l, a.data) ELSE merged]
           /\ snoop' = [snoop EXCEPT ![m][l] =
                 [s EXCEPT !.back = s.back \ {c},
                           !.ans[c] = BlankAnswer,
                           !.exec = NeedsDownstream(s.exec, t.kind, a),
                           !.data = IF MustClean(t.kind, a) THEN a.data ELSE s.data]]
           /\ snoopDone' = IF s.sent = {} /\ s.back = {c}
                           THEN Append(snoopDone, <<m, l>>) ELSE snoopDone
    /\ overlap' = [overlap EXCEPT ![c][l] = Without(@, m)]
    /\ UNCHANGED <<older, downstream, memory, posSet, posLock>>

(***************************************************************************)
(* finalize_snoop_tr for line l of m, whose transaction is now t; q is the *)
(* downstream fifo it may append to.                                       *)
(***************************************************************************)
Segmented(kind) == kind \in {"ReadOnce", "WriteUnique"}

finalize_snoop_tr(m, l, t, q) ==
    LET left == IF Segmented(t.kind) THEN t.segs \ {l} ELSE {}
        t2 == [t EXCEPT !.segs = left,
                        !.ok = @ \/ (t.kind = "ReadOnce" /\ left = {})]
    IN  /\ snoop' = [snoop EXCEPT ![m][l] = NoSnoop]
        /\ \/ /\ left # {}
              /\ tx' = [tx EXCEPT ![m] = t2]
              /\ downstream' = q
              /\ UNCHANGED <<older, overlap>>
           \/ /\ left = {} /\ t2.ok
              /\ Complete(m, t2)
              /\ downstream' = q
           \/ /\ left = {} /\ ~t2.ok
              /\ tx' = [tx EXCEPT ![m] = [t2 EXCEPT !.phase = "ds"]]
              /\ downstream' = Append(q, [m |-> m, line |-> l, own |-> TRUE])
              /\ UNCHANGED <<older, overlap>>

\* SnoopEngine::snoop_done_thread
SnoopDone ==
    /\ snoopDone # <<>>
    /\ snoopDone' = Tail(snoopDone)
    /\ LET m == Head(snoopDone)[1]
           l == Head(snoopDone)[2]
       IN  IF snoop[m][l].exec
           THEN /\ downstream' = Append(downstream,
                                        [m |-> m, line |-> l, own |-> FALSE])
                /\ UNCHANGED <<tx, older, snoop, overlap>>
           ELSE finalize_snoop_tr(m, l, tx[m], downstream)
    /\ UNCHANGED <<memory, posSet, posLock>>

(***************************************************************************)
(* DownstreamPort::downstream_port_thread: the access of the slave, then   *)
(* DoneEvent and what its waiter does.                                     *)
(***************************************************************************)
\* Variant: the length of the payload is not looked at.
ReadBySlave_All(t) == memory

ReadBySlave(t) == [a \in t.rng |-> memory[a]]

DsOwn ==
    /\ downstream # <<>> /\ Head(downstream).own
    /\ downstream' = Tail(downstream)
    /\ LET m == Head(downstream).m
           t == tx[m]
       IN  /\ memory' = IF IsWriteTx(t.kind)
                        THEN [a \in Addr |-> IF a \in t.rng THEN t.data[a]
                                                            ELSE memory[a]]
                        ELSE memory
           /\ Complete(m, [t EXCEPT !.ok = TRUE,
                                    !.data = IF IsReadTx(t.kind)
                                             THEN ReadBySlave(t) ELSE @])
    /\ UNCHANGED <<snoop, snoopDone, posSet, posLock>>

\* exec_snoop_downstream_gp: clean a line, or fetch one for ReadOnce
DsSnoop ==
    /\ downstream # <<>> /\ ~Head(downstream).own
    /\ LET m == Head(downstream).m
           l == Head(downstream).line
           t == tx[m]
       IN  IF t.kind = "ReadOnce"
           THEN /\ finalize_snoop_tr(m, l, CopyLine(t, l, ToLine(memory, l)),
                                     Tail(downstream))
                /\ UNCHANGED memory
           ELSE /\ finalize_snoop_tr(m, l, t, Tail(downstream))
                /\ memory' = [a \in Addr |-> IF a[1] = l THEN snoop[m][l].data[a[2]]
                                                         ELSE memory[a]]
    /\ UNCHANGED <<snoopDone, posSet, posLock>>

(***************************************************************************)
(* The response reaches master m, which goes on with next (a new           *)
(* transaction, or NoTx).  The bridge gets RACK / WACK: it drops the       *)
(* response from its list and destroys the payload, which releases the     *)
(* PoS monitor if this was an exclusive CleanUnique that passed.  A read   *)
(* response waits while the snoop channel works on its line.               *)
(***************************************************************************)
ResponseReady(m) ==
    /\ tx[m].phase = "resp"
    /\ \/ tx[m].kind \in CopyBackKinds \cup UniqueWriteKinds \cup {"WriteNoSnoop"}
       \/ \A l \in LinesOf(tx[m].rng), x \in Masters : m \notin snoop[x][l].back

\* Variant: the payload carries no release event.
ReleasesLock_No(m) == FALSE

ReleasesLock(m) == tx[m].exokay /\ tx[m].kind = "CleanUnique"

Deliver(m, next) ==
    /\ tx' = [tx EXCEPT ![m] = next]
    /\ IF m \in Caches
       THEN overlap' = [overlap EXCEPT ![m] = [l \in Lines |->
                            IF l \in LinesOf(tx[m].rng) THEN Without(@[l], m)
                                                        ELSE @[l]]]
       ELSE UNCHANGED overlap
    /\ posLock' = (posLock /\ ~ReleasesLock(m))
    /\ UNCHANGED <<older, snoop, snoopDone, downstream, memory, posSet>>

=============================================================================
