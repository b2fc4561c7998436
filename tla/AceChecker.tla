------------------------------ MODULE AceChecker ------------------------------
(***************************************************************************)
(* The protocol checker on the port of a master (checkers/checker-ace.h):  *)
(* what checker_ace_rd_tx, checker_ace_wr_tx, checker_ace_snoop_channels   *)
(* and checker_ace_cd_data watch and report.  A checker only reads the     *)
(* channels; an operator below is TRUE when the checker has no complaint.  *)
(*                                                                         *)
(* A transaction of a master is shareable unless all its lines are         *)
(* non-shareable.  The masters here have one transaction at a time, so     *)
(* that the lists of outstanding ones (m_rtList, m_wtList, m_respList)     *)
(* never hold a second one to compare with.                                *)
(***************************************************************************)
EXTENDS AceProtocol

VARIABLES allocated, \* m_allocated: the lines the checker takes to be cached
          alarms     \* the ports whose checker has reported an error

checkerVars == <<allocated, alarms>>

CheckerInit ==
    /\ allocated = [c \in Caches |-> {}]
    /\ alarms = {}

(***************************************************************************)
(* A transaction on AR or AW.                                              *)
(***************************************************************************)
WriteChannel == UniqueWriteKinds \cup CopyBackKinds \cup {"WriteNoSnoop"}
Shareable(t) == ~(LinesOf(t.rng) \subseteq NonShareable)
WholeLineOf(t) == \E l \in Lines : t.rng = LineAddr(l)

\* is_cacheline_sized_tx
CachelineSized(kind) ==
    kind \in (ReadKinds \ {"ReadOnce"}) \cup CleanKinds \cup CmoKinds
               \cup {"WriteLineUnique", "Evict"}

\* CheckARSnoop: which AxSNOOP goes with which domain, and with ACE-Lite
CheckARSnoop(m, t) ==
    /\ m \in LiteMasters => t.kind \in {"ReadNoSnoop", "ReadOnce"} \cup CmoKinds
    /\ t.kind = "ReadNoSnoop" => ~Shareable(t)
    /\ t.kind \in ReadKinds \cup CleanKinds => Shareable(t)

\* CheckAWSnoop
CheckAWSnoop(m, t) ==
    /\ m \in LiteMasters => t.kind \notin CopyBackKinds
    /\ t.kind = "WriteNoSnoop" => ~Shareable(t)
    /\ t.kind \in UniqueWriteKinds \cup {"Evict"} => Shareable(t)

\* CheckBurstAddr, CheckCachelineSzTx
CheckSize(t) == CachelineSized(t.kind) => WholeLineOf(t)

\* CheckWriteBackWriteClean: part of one line, and not exclusive
CheckCopyBack(t) ==
    t.kind \in {"WriteBack", "WriteClean"}
        => ~t.excl /\ Cardinality(LinesOf(t.rng)) = 1

\* CheckWriteUnique
CheckWriteUnique(t) == t.kind \in UniqueWriteKinds => ~t.excl

\* check_arsignals, check_awsignals
CheckRequest(m, t) ==
    /\ IF t.kind \in WriteChannel THEN CheckAWSnoop(m, t) ELSE CheckARSnoop(m, t)
    /\ CheckSize(t)
    /\ CheckCopyBack(t)
    /\ CheckWriteUnique(t)

(***************************************************************************)
(* The response on R or B.                                                 *)
(***************************************************************************)
AllowsExclusive(kind) == kind \in {"ReadNoSnoop", "ReadClean", "ReadShared", "CleanUnique"}

\* AllowsIsShared of a read
ReadAllowsIsShared(kind) ==
    kind \notin {"ReadNoSnoop", "ReadUnique", "CleanUnique", "CleanInvalid",
                 "MakeUnique", "MakeInvalid"}

\* check_ace_resp of checker_ace_rd_tx; ACE-Lite responses carry no such bits
CheckRresp(m, t) ==
    /\ IF t.excl THEN AllowsExclusive(t.kind) ELSE ~t.exokay
    /\ m \in Caches =>
          /\ t.shared => ReadAllowsIsShared(t.kind)
          /\ t.dirty => AllowPassDirty(t.kind)
          /\ ~(t.dirty /\ t.shared /\ t.kind = "ReadNotSharedDirty")

\* check_bresp: an exclusive write only as WriteNoSnoop
CheckBresp(t) == IF t.excl THEN t.kind = "WriteNoSnoop" ELSE ~t.exokay

CheckResponse(m, t) ==
    IF t.kind \in WriteChannel THEN CheckBresp(t) ELSE CheckRresp(m, t)

\* process_rchannel, process_bchannel: the lines allocated after the response
AllocateCacheline(kind) == kind \in (ReadKinds \ {"ReadOnce"}) \cup CleanKinds
EvictCacheline(kind) == kind \in {"CleanInvalid", "MakeInvalid", "WriteBack", "Evict"}

AfterResponse(lines, t) ==
    IF AllocateCacheline(t.kind) THEN lines \cup LinesOf(t.rng)
    ELSE IF EvictCacheline(t.kind) THEN lines \ LinesOf(t.rng)
    ELSE lines

(***************************************************************************)
(* A snoop on AC and its answer a on CR.                                   *)
(***************************************************************************)
\* AllowsIsShared of a snoop
SnoopAllowsIsShared(kind) == kind \notin {"ReadUnique", "CleanInvalid", "MakeInvalid"}

\* check_crsignals
CheckCRSignals(kind, a) ==
    /\ a.dirty => a.xfer
    /\ a.shared => SnoopAllowsIsShared(kind)

\* check_crresp: a cached line is transferred by a snoop that reads, and no
\* other line is transferred
CheckCrresp(lines, kind, l, a) ==
    /\ l \in lines /\ kind \in ReadKinds => a.xfer
    /\ l \notin lines => ~a.xfer

CheckSnoop(lines, kind, l, a) ==
    CheckCRSignals(kind, a) /\ CheckCrresp(lines, kind, l, a)

\* process_crchannel
AfterSnoop(lines, l, a) == IF a.shared THEN lines ELSE lines \ {l}

=============================================================================
