------------------------------- MODULE ChiHome -------------------------------
(***************************************************************************)
(* The home node: iconnect_chi with its RN-F ports, without CCIX ports.    *)
(* RequestOrderer runs one request at a time, cur; m_ongoingTxn leads the  *)
(* answers of the nodes to it.  Requests are not exclusive and have no     *)
(* Order; PrefetchTgt, which the home node drops, is left out.             *)
(***************************************************************************)
EXTENDS ChiProtocol

VARIABLES reqList,   \* m_reqList of RequestOrderer
          cur,       \* the request in m_ongoing
          filter,    \* SnoopFilter of each port
          toggle     \* m_toggle of each port

hnVars == <<reqList, cur, filter, toggle>>

NoSN == [op |-> "none", line |-> NoOp.line, retry |-> FALSE, to |-> "HN", receipt |-> FALSE,
         whole |-> FALSE]
NoReq == [op |-> "none", src |-> "HN", line |-> NoOp.line, ack |-> FALSE, data |-> ZeroData,
          be |-> {}, waiting |-> {}, shared |-> FALSE, dirty |-> FALSE, hasData |-> FALSE,
          ptl |-> FALSE, fwd |-> FALSE, fwded |-> FALSE, snpResp |-> "I", snpPD |-> FALSE,
          gotSnpData |-> FALSE, waitAck |-> FALSE, ackRcvd |-> FALSE, waitReceipt |-> FALSE,
          toSNDone |-> FALSE, snReq |-> NoSN, snGot |-> {}]

HnInit ==
    /\ reqList = <<>>
    /\ cur = NoReq
    /\ filter = [r \in Requesters |-> {}]
    /\ toggle = [r \in Requesters |-> FALSE]

\* Mutant: the credit for the retry is forgotten.
ReplyRetry_NoGrant(r) == Put(down, r, "rsp", Rsp("RetryAck", "I", FALSE))
ReplyRetry(r) ==
    Put(Put(down, r, "rsp", Rsp("RetryAck", "I", FALSE)), r, "rsp", Rsp("PCrdGrant", "I", FALSE))

\* Port_RN_F::b_transport_rxreq: a request that allows it is retried every
\* other time.
RxReq(r, m) ==
    /\ toggle' = IF m.retry THEN [toggle EXCEPT ![r] = ~@] ELSE toggle
    /\ IF m.retry /\ ~toggle[r]
       THEN /\ down' = ReplyRetry(r)
            /\ UNCHANGED reqList
       ELSE /\ reqList' = Append(reqList, [NoReq EXCEPT !.op = m.op, !.src = r,
                                                        !.line = m.line, !.ack = m.ack])
            /\ UNCHANGED down
    /\ UNCHANGED <<toSN, snData, fromSN, cur, filter>>

(***************************************************************************)
(* SnoopFilter and ReqTxn.                                                 *)
(***************************************************************************)
\* Mutant: a line that is written clean counts as gone.
Keeps_NoClean(o) == o \in {"CleanShared", "CleanSharedPersist"}
Keeps(o) == o \in {"CleanShared", "CleanSharedPersist", "WriteCleanFull"}
FilterAfterReq(q, f) ==
    [f EXCEPT ![q.src] =
        IF AllocatesCacheLine(q.op) \/ q.op \in {"CleanUnique", "MakeUnique"}
        THEN @ \cup {q.line}
        ELSE IF Keeps(q.op) THEN @ ELSE @ \ {q.line}]
\* Mutant: a port that answered is not snooped again.
FilterAfterSnp_Any(r, m) == [filter EXCEPT ![r] = @ \ {cur.line}]
FilterAfterSnp(r, m) == IF m.st = "I" THEN [filter EXCEPT ![r] = @ \ {cur.line}] ELSE filter

AllowsPassDirtySnpData(q) == ~q.ptl /\ q.op \in {"ReadShared", "ReadUnique"}
AllowsDMT(q) == (q.snpResp \in {"I", "UC"} /\ ~q.snpPD) /\ ~IsAtomic(q.op)

\* ReqTxn::CopyData: bytes that are not enabled become zero.
CopyData(q, m) == [q EXCEPT !.data = Merge(ZeroData, m.data, m.be), !.be = m.be]

\* The length of a request to the slave node is a line, but for that of an
\* atomic, which is that of its operand until CopySnpData has set it to a line.
WholeLine(q) == IsAtomic(q.op) => q.hasData

\* Mutant: the slave node is always asked for a receipt.
SNRequest_Receipt(q, opcode) ==
    [op |-> opcode, line |-> q.line, retry |-> TRUE,
     to |-> IF AllowsDMT(q) THEN q.src ELSE "HN", receipt |-> TRUE, whole |-> WholeLine(q)]
\* A request to the slave node; the read data of a DMT goes to the requester.
\* The copy in the request is what a retry sends.
SNRequest(q, opcode) ==
    [op |-> opcode, line |-> q.line, retry |-> TRUE,
     to |-> IF AllowsDMT(q) THEN q.src ELSE "HN", receipt |-> ~q.ack, whole |-> WholeLine(q)]
ToSN(q, f, opcode) ==
    /\ toSN' = Append(toSN, SNRequest(q, opcode))
    /\ cur' = [q EXCEPT !.snReq = SNRequest(q, opcode)]
    /\ filter' = f
    /\ UNCHANGED down

ToRN(q, m) == down' = Put(down, q.src, IF m.t = "CompData" THEN "dat" ELSE "rsp", m)

(***************************************************************************)
(* TxnProcessor.                                                           *)
(***************************************************************************)
\* f is the snoop filter as the answer that led here has left it.
ProcessReq(q, f) ==
    \/ /\ IsRead(q.op)
       /\ ToSN([q EXCEPT !.waitReceipt = AllowsDMT(q) /\ ~q.ack,
                         !.waitAck = @ \/ (AllowsDMT(q) /\ q.ack)], f, "ReadNoSnp")
    \/ /\ IsWrite(q.op) \/ IsAtomicStore(q.op)
       /\ ToRN(q, Rsp("CompDBIDResp", "I", FALSE))
       /\ cur' = [q EXCEPT !.waitAck = @ \/ (IsWriteUnique(q.op) /\ q.ack)]
       /\ filter' = f /\ UNCHANGED toSN
    \/ /\ IsDataLess(q.op)
       /\ ToRN(q, Rsp("Comp", IF q.op \in {"CleanUnique", "MakeUnique"} THEN "UC" ELSE "I", FALSE))
       /\ cur' = IF q.ack THEN [q EXCEPT !.waitAck = TRUE] ELSE NoReq
       /\ filter' = IF q.ack THEN f ELSE FilterAfterReq(q, f)
       /\ UNCHANGED toSN
    \/ /\ IsAtomicNonStore(q.op) \/ q.op = "DVMOp"
       /\ ToRN(q, Rsp("DBIDResp", "I", FALSE))
       /\ cur' = q
       /\ filter' = f /\ UNCHANGED toSN

\* Mutant: only what a cache still shares is written back.
MustWriteBack_Shared(q) ==
    q.gotSnpData /\ q.snpPD /\ ~AllowsPassDirtySnpData(q) /\ q.snpResp = "SC"
\* After the snoops: dirty data that the requester may not take over goes to
\* the slave node first, data for a read goes to the requester.
MustWriteBack(q) == q.gotSnpData /\ q.snpPD /\ ~AllowsPassDirtySnpData(q)
CanAnswer(q) == q.gotSnpData /\ IsSnpRead(q.op) /\ ~q.ptl
SnpCompData(q) ==
    Msg("CompData",
        IF IsNonCoherentRead(q.op) THEN "I"
        ELSE IF ~q.snpPD THEN q.snpResp ELSE IF q.snpResp = "SC" THEN "SD" ELSE "UD",
        q.snpPD, q.data, q.be, q.src)
ProcessSnpdReq(q, f) ==
    CASE MustWriteBack(q) -> ToSN([q EXCEPT !.snpPD = FALSE], f, "WriteNoSnpPtl")
      [] ~MustWriteBack(q) /\ CanAnswer(q) ->
            /\ ToRN(q, SnpCompData(q))
            /\ cur' = IF q.ack THEN [q EXCEPT !.waitAck = TRUE] ELSE NoReq
            /\ filter' = f /\ UNCHANGED toSN
      [] q.op = "DVMOp" ->
            /\ ToRN(q, Rsp("Comp", "I", FALSE))
            /\ cur' = NoReq
            /\ filter' = f /\ UNCHANGED toSN
      [] OTHER -> ProcessReq([q EXCEPT !.gotSnpData = FALSE, !.toSNDone = FALSE], f)

(***************************************************************************)
(* PointOfCoherence.                                                       *)
(***************************************************************************)
SnoopPorts(q) == {r \in Requesters \ {q.src} : q.line \in filter[r]}

SendSnoops(q, ports, snps) ==
    /\ down' = [r \in Requesters |->
          IF r \in ports THEN [down[r] EXCEPT !.snp = @ \o snps] ELSE down[r]]
    /\ UNCHANGED <<toSN, filter>>

Snoop(q) ==
    LET ports == SnoopPorts(q)
        snp == GetOpcode(q.op, mode.dct /\ Cardinality(ports) = 1)
    IN  /\ SendSnoops(q, ports, <<[t |-> snp, line |-> q.line, to |-> q.src]>>)
        /\ cur' = [q EXCEPT !.waiting = ports, !.fwd = snp \in FwdSnoops,
                            !.waitAck = snp \in FwdSnoops]

ProcessDVM(q) ==
    LET snp == [t |-> "SnpDVMOp", line |-> q.line, to |-> q.src] IN
    /\ SendSnoops(q, Requesters \ {q.src}, <<snp, snp>>)
    /\ cur' = [q EXCEPT !.waiting = Requesters \ {q.src}]

\* RequestOrderer and PacketRouter::RouteInternal.
RouteReq ==
    LET q == Head(reqList) IN
    /\ cur = NoReq /\ reqList # <<>>
    /\ reqList' = Tail(reqList)
    /\ IF GetSnpAttr(q.op) /\ IsSnoopingReq(q.op) /\ SnoopPorts(q) # {}
       THEN Snoop(q) ELSE ProcessReq(q, filter)
    /\ UNCHANGED <<up, snData, fromSN, toggle>>

\* A snoop response with or without data.
Tracked(r, m) ==
    LET q == IF m.t \in {"SnpRespData", "SnpRespDataPtl", "SnpRespDataFwded"}
             THEN [CopyData(cur, m) EXCEPT !.hasData = TRUE,
                                           !.ptl = @ \/ m.t = "SnpRespDataPtl"]
             ELSE cur
    IN  [q EXCEPT !.waiting = @ \ {r}, !.shared = @ \/ m.st # "I", !.dirty = @ \/ m.pd,
                  !.fwded = q.fwd /\ m.t \in {"SnpRespFwded", "SnpRespDataFwded"}]
ParseSnpResponses(q) ==
    [q EXCEPT !.snpResp = IF q.shared THEN "SC" ELSE "UC", !.snpPD = q.dirty,
              !.gotSnpData = q.hasData]

\* CheckSnpDone: forwarded data is complete with the CompAck of the requester.
RxSnpResp(r, m) ==
    LET q == Tracked(r, m) IN
    /\ r \in cur.waiting
    /\ IF q.waiting = {} /\ ~q.fwded
       THEN ProcessSnpdReq(ParseSnpResponses(q), FilterAfterSnp(r, m))
       ELSE /\ cur' = IF q.waiting = {} /\ q.ackRcvd THEN NoReq ELSE q
            /\ filter' = FilterAfterSnp(r, m)
            /\ UNCHANGED <<down, toSN>>
    /\ UNCHANGED <<snData, fromSN, reqList, toggle>>

(***************************************************************************)
(* Answers of the requesters and of the slave node.                        *)
(***************************************************************************)
RxCompAck(r) ==
    /\ cur.waitAck /\ cur.src = r
    /\ IF IsWriteUnique(cur.op)
       THEN /\ cur' = IF cur.toSNDone THEN NoReq ELSE [cur EXCEPT !.ackRcvd = TRUE]
            /\ UNCHANGED filter
       ELSE /\ cur' = IF cur.waiting = {} THEN NoReq ELSE [cur EXCEPT !.ackRcvd = TRUE]
            /\ filter' = FilterAfterReq(cur, filter)
    /\ UNCHANGED <<down, toSN, snData, fromSN, reqList, toggle>>

\* CompData that a snooped cache forwards to the requester.
RouteDat(m) ==
    /\ down' = Put(down, m.to, "dat", m)
    /\ UNCHANGED <<toSN, snData, fromSN, hnVars>>

RxWriteData(r, m) ==
    LET q == CopyData(cur, m)
        f == FilterAfterReq(cur, filter)
    IN
    /\ cur.src = r
    /\ CASE m.t = "CopyBackWrData" /\ m.pd -> ToSN(q, f, "WriteNoSnpPtl")
         [] m.t = "CopyBackWrData" /\ ~m.pd ->
               cur' = NoReq /\ filter' = f /\ UNCHANGED <<down, toSN>>
         [] m.t # "CopyBackWrData" /\ q.op = "DVMOp" -> ProcessDVM(q)
         [] OTHER -> ToSN(q, filter, IF IsAtomic(q.op) THEN q.op ELSE "WriteNoSnpPtl")
    /\ UNCHANGED <<snData, fromSN, reqList, toggle>>

HnRxRsp(r, m) ==
    IF m.t = "CompAck" THEN RxCompAck(r) ELSE RxSnpResp(r, m)
HnRxDat(r, m) ==
    CASE m.t = "CompData" -> RouteDat(m)
      [] m.t \in {"CopyBackWrData", "NonCopyBackWrData"} -> RxWriteData(r, m)
      [] OTHER -> RxSnpResp(r, m)

\* Mutant: the request is sent again with either answer.
RetryRequest_Any(q) == q.snGot # {}
RetryRequest(q) == {"RetryAck", "PCrdGrant"} \subseteq q.snGot

\* A request that the slave node wants again; the flags are never cleared.
RetrySN(m) ==
    LET q == [cur EXCEPT !.snGot = @ \cup {m.t},
                         !.snReq.retry = @ /\ m.t # "RetryAck"] IN
    /\ cur' = q
    /\ toSN' = IF RetryRequest(q)
               THEN Append(toSN, q.snReq) ELSE toSN
    /\ UNCHANGED <<down, snData, filter>>

\* DatMsg copies as many byte enables of an atomic as the requester has sent
\* data: none yet when snooped data is written back for it, and its array keeps
\* what was in the memory before.
SNEnables(q) == IF IsAtomic(q.op) /\ q.gotSnpData THEN SUBSET Words ELSE {q.be}

\* The data for the slave node.  With CompDBIDResp the write counts as done,
\* though its data has only been put on the channel.
SendSNData(m) ==
    /\ \E be \in SNEnables(cur) : snData' = Append(snData, [data |-> cur.data, be |-> be])
    /\ IF m.t = "CompDBIDResp" /\ cur.gotSnpData THEN ProcessSnpdReq(cur, filter)
       ELSE /\ cur' = IF m.t # "CompDBIDResp" THEN cur
                      ELSE IF ~cur.ack \/ cur.ackRcvd THEN NoReq
                      ELSE [cur EXCEPT !.toSNDone = TRUE]
            /\ UNCHANGED <<down, toSN, filter>>

ReadReceipt ==
    /\ cur.waitReceipt
    /\ cur' = NoReq
    /\ UNCHANGED <<down, toSN, snData, filter>>

RxRspSN ==
    LET m == Head(fromSN.rsp) IN
    /\ fromSN.rsp # <<>>
    /\ fromSN' = [fromSN EXCEPT !.rsp = Tail(@)]
    /\ CASE m.t \in {"RetryAck", "PCrdGrant"} -> RetrySN(m)
         [] m.t = "ReadReceipt" -> ReadReceipt
         [] OTHER -> SendSNData(m)
    /\ UNCHANGED <<up, reqList, toggle>>

\* Read data passes through (DMT), or is the answer of the home node.
RxDatSN ==
    LET m == Head(fromSN.dat) IN
    /\ fromSN.dat # <<>>
    /\ fromSN' = [fromSN EXCEPT !.dat = Tail(@)]
    /\ IF m.to # "HN"
       THEN down' = Put(down, m.to, "dat", m) /\ UNCHANGED cur
       ELSE /\ ToRN(cur, [m EXCEPT !.st = IF IsAtomic(cur.op) THEN "I" ELSE cur.snpResp,
                                   !.to = cur.src])
            /\ cur' = IF cur.ack THEN [cur EXCEPT !.waitAck = TRUE] ELSE NoReq
    /\ UNCHANGED <<up, toSN, snData, reqList, filter, toggle>>
=============================================================================
