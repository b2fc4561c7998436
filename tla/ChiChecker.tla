----------------------------- MODULE ChiChecker -----------------------------
(***************************************************************************)
(* The monitor of checker-chi.h on the port of a request node:             *)
(* checker_requests, checker_txn_structures and checker_request_retry.  It *)
(* sees the flits, keeps its own account of what is outstanding and        *)
(* reports what does not fit.  A node has one transaction at a time, so    *)
(* one entry stands for the tables that transaction IDs index.             *)
(***************************************************************************)
EXTENDS ChiFlit

\* Of each requester: the transaction of checker_txn_structures, the snoops it
\* waits for, and of checker_request_retry the request that may be retried,
\* those that were, the credits for them; and what has been reported.
VARIABLE chk

NoChk == [op |-> "none", ack |-> FALSE, got |-> {}]
ChkInit ==
    chk = [r \in Requesters |->
              [txn |-> NoChk, snps |-> <<>>, held |-> {}, retried |-> <<>>, credits |-> 0,
               errors |-> {}]]

Report(c, wrong, what) == IF wrong THEN [c EXCEPT !.errors = @ \cup {what}] ELSE c

(***************************************************************************)
(* checker_requests, checker_snoop_requests, checker_responses and         *)
(* checker_data_flits.                                                     *)
(***************************************************************************)
CheckOpcode(op) == op \notin {"none", "ReadNoSnpSep"}
CheckExpCompAck(m) ==
    /\ AllocatesCacheLine(m.op) \/ m.op \in {"CleanUnique", "MakeUnique"} => m.ack
    /\ \/ IsCacheMaintenance(m.op) \/ IsCopyBack(m.op) \/ IsAtomic(m.op) \/ IsStashOnce(m.op)
       \/ m.op \in {"Evict", "WriteNoSnpPtl", "WriteNoSnpFull"}
       => ~m.ack
CheckSnpAttr(m) ==
    /\ \/ IsSnpRead(m.op) \/ IsStashOnce(m.op) \/ IsCopyBack(m.op) \/ IsWriteUnique(m.op)
       \/ m.op \in {"CleanUnique", "MakeUnique", "Evict"}
       => m.flit.SnpAttr = 1
    /\ m.op \in {"WriteNoSnpPtl", "WriteNoSnpFull", "ReadNoSnp"} => m.flit.SnpAttr = 0
CheckOrder(m) ==
    /\ m.flit.Order # 1
    /\ m.flit.Order # 0 => \/ IsNonCoherentRead(m.op) \/ IsAtomic(m.op)
                           \/ m.op \in {"WriteUniquePtl", "WriteUniqueFull"}
CheckAllowRetry(m) ==
    m.retry => m.op \notin {"PrefetchTgt", "PCrdReturn"} /\ m.flit.PCrdType = 0
\* The two halves of an AtomicCompare: 1 << size / 2 halves the exponent.
CheckAddress(m) ==
    /\ m.op = "AtomicCompare" => m.line % 2 ^ (m.flit.Size \div 2) = 0
    /\ IsAtomic(m.op) => m.line % 2 ^ m.flit.Size = 0
CheckSize(m) ==
    /\ m.flit.Size # 7
    /\ IsAtomic(m.op) \/ m.op = "AtomicCompare" => m.flit.Size <= 3
CheckDVM(m) ==
    m.op = "DVMOp" =>
        /\ \A f \in {"ReturnNID", "StashNIDValid", "ReturnTxnID", "NS", "LikelyShared", "Order",
                     "Allocate", "Cacheable", "DeviceMemory", "EarlyWrAck", "SnpAttr", "Excl"} :
              m.flit[f] = 0
        /\ m.flit.Size <= DVMOpSize
CheckExcl(m) ==
    m.flit.Excl = 1 =>
        \/ m.op \in {"ReadClean", "ReadNotSharedDirty", "ReadShared", "CleanUnique",
                     "WriteNoSnpPtl", "WriteNoSnpFull", "ReadNoSnp"}
        \/ IsAtomic(m.op)
CheckRequest(m) ==
    /\ CheckOpcode(m.op) /\ CheckExpCompAck(m) /\ CheckSnpAttr(m) /\ CheckOrder(m)
    /\ CheckAllowRetry(m) /\ CheckAddress(m) /\ CheckSize(m) /\ CheckDVM(m) /\ CheckExcl(m)

CheckSnpDVM(m) ==
    m.t = "SnpDVMOp" =>
        \A f \in {"FwdNID", "NS", "DoNotGoToSD", "RetToSrc"} : m.flit[f] = 0
CheckSnoopRequests(m) == CheckOpcode(m.t) /\ CheckSnpDVM(m)
CheckResponses(c, m) == Report(c, ~CheckOpcode(m.t), "response")
CheckDat(c, m) == Report(c, ~CheckOpcode(m.t), "data")

(***************************************************************************)
(* What the monitor samples of a flit that it has parsed, and whether the  *)
(* checks that look at nothing but the flit pass.                          *)
(***************************************************************************)
SeenReqs ==
    [op \in DOMAIN ReqOpcode |-> [ack \in BOOLEAN |-> [retry \in BOOLEAN |->
     [n \in Requesters |-> [l \in Lines |->
        LET f == ParseFlit(ReqFlit, CreateFlit(ReqPkt, ReqAttr(n, op, l, ack, retry)))
            m == [op |-> Enumerator(ReqOpcode, f.Opcode), line |-> f.Addr,
                  ack |-> f.ExpCompAck = 1, retry |-> f.AllowRetry = 1, flit |-> f]
        IN [op |-> m.op, line |-> m.line, ack |-> m.ack, retry |-> m.retry,
            ok |-> CheckRequest(m)]]]]]]
SeenReq(r, m) == SeenReqs[m.op][m.ack][m.retry][r][m.line]

\* Responses and data: opcode, Resp and FwdState; the node IDs are not compared.
SeenRsps ==
    [t \in DOMAIN RspOpcode |-> [resp \in 0 .. 7 |-> [fwd \in 0 .. 7 |->
        LET f == ParseFlit(RspFlit, CreateFlit(RspPkt, RspAttr(RspOpcode[t], resp, fwd))) IN
        [t |-> Enumerator(RspOpcode, f.Opcode), pull |-> f.FwdState % 2 = 1]]]]
SeenRsp(m) == SeenRsps[m.t][GetResp(m.st, m.pd)][FwdState_DataPull(m)]
SeenDats ==
    [t \in DOMAIN DatOpcode |-> [resp \in 0 .. 7 |-> [fwd \in 0 .. 7 |->
        LET f == ParseFlit(DatFlit, CreateFlit(DatPkt, RspAttr(DatOpcode[t], resp, fwd))) IN
        [t |-> Enumerator(DatOpcode, f.Opcode), pull |-> f.FwdState % 2 = 1]]]]
SeenDat(m) ==
    SeenDats[m.t][IF m.t = "CompData" THEN GetCompDataResp(m.st, m.pd) ELSE GetResp(m.st, m.pd)]
            [FwdState_DataPull(m)]

SeenSnps ==
    [t \in DOMAIN SnpOpcode |-> [n \in Requesters |-> [l \in Lines |->
        LET f == ParseFlit(SnpFlit, CreateFlit(SnpPkt, SnpAttr(n, t, l)))
            m == [t |-> Enumerator(SnpOpcode, f.Opcode), flit |-> f]
        IN [t |-> m.t, ok |-> CheckSnoopRequests(m)]]]]
SeenSnp(m) == SeenSnps[m.t][m.to][m.line]

(***************************************************************************)
(* checker_txn_structures: the flits that complete a transaction of each   *)
(* class, and those that it takes now.                                     *)
(***************************************************************************)
Class(op) ==
    CASE IsRead(op) -> "Read" [] IsDataLess(op) -> "Dataless"
      [] IsWrite(op) \/ IsAtomicStore(op) \/ op = "DVMOp" -> "Write"
      [] OTHER -> "Atomic"
Completes(t) ==
    (IF t.ack THEN {"CompAck"} ELSE {}) \cup
    CASE Class(t.op) = "Read" -> {"CompData"}
      [] Class(t.op) = "Dataless" -> {"Comp"}
      [] Class(t.op) = "Write" -> {"DBIDResp", "Comp", "WrData"}
      [] OTHER -> {"DBIDResp", "CompData", "WrData"}
Flits(m) ==
    IF m.t = "CompDBIDResp" THEN {"DBIDResp", "Comp"}
    ELSE IF m.t \in {"CopyBackWrData", "NonCopyBackWrData"} THEN {"WrData"} ELSE {m.t}
\* A flit that the node sends is matched by the IDs an answer has brought.
GetHomeNIDValid(t) ==
    t.got \cap (IF Class(t.op) = "Atomic" THEN {"DBIDResp"} ELSE {"DBIDResp", "Comp", "CompData"}) # {}
Handles(t, m) ==
    /\ t.op # "none" /\ Flits(m) \subseteq Completes(t)
    /\ Flits(m) \cap t.got \subseteq (IF Class(t.op) = "Write" THEN {"WrData"} ELSE {})
    /\ m.t = "CompDBIDResp" => Class(t.op) = "Write"
    /\ Flits(m) \cap {"WrData", "CompAck"} # {} => GetHomeNIDValid(t)
HandleTxn(c, m) ==
    LET t == [c.txn EXCEPT !.got = @ \cup Flits(m)] IN
    IF Handles(c.txn, m)
    THEN [c EXCEPT !.txn = IF t.got = Completes(t) THEN NoChk ELSE t]
    ELSE Report(c, TRUE, "no request")

\* A request with an ID that the monitor still waits for is reported.
SampleRequest(c, m) ==
    [Report(c, c.txn.op # "none", "duplicate") EXCEPT
        !.txn = [op |-> m.op, ack |-> m.ack, got |-> {}]]

(***************************************************************************)
(* Snoops: SnpFwdTxn, SnpStashTxn, SnpNonFwdNonStashTxn.  The answer goes  *)
(* to the entry of the snoop's ID, the first that has not been answered.   *)
(***************************************************************************)
SnpKind(t) ==
    CASE t \in FwdSnoops -> "fwd"
      [] t \in {"SnpUniqueStash", "SnpMakeInvalidStash", "SnpStashUnique", "SnpStashShared"} -> "stash"
      [] t = "SnpDVMOp" -> "dvm"
      [] OTHER -> "plain"
Entry(k) == [kind |-> k, resp |-> FALSE]

\* The second message of a DVM operation adds nothing.
SampleSnpReq(c, m) ==
    IF m.t = "SnpDVMOp" /\ \E i \in DOMAIN c.snps : c.snps[i].kind = "dvm" THEN c
    ELSE [c EXCEPT !.snps = Append(@, Entry(SnpKind(m.t)))]

\* An answer that forwards leaves the entry until the CompData, one that pulls
\* leaves it for ever, since the home node never sends that data.
Stays(s, m) == (s.kind = "fwd" /\ IsSnpFwded(m)) \/ (s.kind = "stash" /\ m.pull)
HandleSnpResp(c, m) ==
    LET open == {i \in DOMAIN c.snps : ~c.snps[i].resp}
        i == CHOOSE n \in open : \A k \in open : n <= k
    IN
    IF open = {} \/ (IsSnpFwded(m) /\ c.snps[i].kind # "fwd") THEN Report(c, TRUE, "no snoop")
    ELSE [c EXCEPT !.snps = IF Stays(c.snps[i], m) THEN [@ EXCEPT ![i].resp = TRUE]
                                                   ELSE RemoveAt(@, i)]
\* Data that a snooped node forwards.
HandleFwdData(c) ==
    LET fwd == {i \in DOMAIN c.snps : c.snps[i].kind = "fwd" /\ c.snps[i].resp} IN
    IF fwd = {} THEN Report(c, TRUE, "no snoop")
    ELSE [c EXCEPT !.snps = RemoveAt(@, CHOOSE i \in fwd : TRUE)]

(***************************************************************************)
(* checker_request_retry, for the one completer that is the home node.     *)
(***************************************************************************)
\* Compare: what a request sent again has in common with the first one.
Compared(m) == [op |-> m.op, line |-> m.line, ack |-> m.ack]
\* Which request a credit was for is not known: all go with the last credit.
DecNumPCredits(c) == [c EXCEPT !.credits = @ - 1, !.retried = IF c.credits = 1 THEN <<>> ELSE @]
SampleRetry(c, m) ==
    IF m.retry THEN [c EXCEPT !.held = {Compared(m)}]
    ELSE IF \E i \in DOMAIN c.retried : c.retried[i] = Compared(m) THEN DecNumPCredits(c)
    ELSE Report(c, TRUE, "retry")
HandleRetryAck(c) ==
    [Report(c, c.held = {}, "retry") EXCEPT !.held = {}, !.retried = @ \o SetToSeq(c.held)]
HandlePCrdGrant(c) == [c EXCEPT !.credits = @ + 1]
CheckCompleters(c) == Report(c, c.held = {} /\ c.credits > Len(c.retried), "credits")

(***************************************************************************)
(* What the monitor of requester r makes of a flit.                        *)
(***************************************************************************)
Observe(r, c) == chk' = [chk EXCEPT ![r] = c]

TxReq(c, m) == SampleRetry(SampleRequest(Report(c, ~m.ok, "request"), m), m)
TxRsp(c, m) == IF m.t = "CompAck" THEN HandleTxn(c, m) ELSE HandleSnpResp(c, m)
TxDat(c, m) ==
    CASE m.t = "CompData" -> HandleFwdData(c)
      [] m.t \in {"CopyBackWrData", "NonCopyBackWrData"} -> HandleTxn(c, m)
      [] OTHER -> HandleSnpResp(c, m)
RxRspOrDat(c, m) ==
    CheckCompleters(
        CASE m.t = "RetryAck" -> HandleRetryAck([c EXCEPT !.txn = NoChk])
          [] m.t = "PCrdGrant" -> HandlePCrdGrant(c)
          [] OTHER -> [HandleTxn(c, m) EXCEPT !.held = {}])

SeeTxReq(r, m) == Observe(r, TxReq(chk[r], SeenReq(r, m)))
SeeTxRsp(r, m) == Observe(r, TxRsp(chk[r], SeenRsp(m)))
SeeTxDat(r, m) ==
    \E q \in {SeenDat(m)} : Observe(r, TxDat(CheckDat(chk[r], q), q))
SeeRxRsp(r, m) ==
    \E q \in {SeenRsp(m)} : Observe(r, RxRspOrDat(CheckResponses(chk[r], q), q))
SeeRxDat(r, m) == Observe(r, RxRspOrDat(chk[r], SeenDat(m)))
SeeRxSnp(r, m) ==
    \E q \in {SeenSnp(m)} : Observe(r, SampleSnpReq(Report(chk[r], ~q.ok, "snoop"), q))
=============================================================================
