------------------------------ MODULE ChiCache ------------------------------
(***************************************************************************)
(* The request nodes: cache_chi with the transactions of txns-rn.h.  A     *)
(* cache has a slot for one line.  A core thread (b_transport, under       *)
(* m_mutex) runs one access at a time and waits for the DoneEvent of one   *)
(* transaction after the other; the channel callbacks answer snoops and    *)
(* move the transaction on meanwhile.  A requester in Outside makes        *)
(* transactions of the same classes and holds no lines.  Exclusive and     *)
(* ordered accesses, and accesses of more than a line, are left out.       *)
(***************************************************************************)
EXTENDS ChiProtocol

VARIABLES line,   \* CacheLine of each requester
          access, \* the access the core thread is in
          stage,  \* where it waits: loop, part2, main, after
          want,   \* the opcode it makes room for in the slot
          txn,    \* its transaction, m_txn[id]
          pulls,  \* IDs held by DataPull transactions, never given back
          dvm     \* m_receivedDVM: one packet of a SnpDVMOp has come

rnVars == <<line, access, stage, want, txn, pulls, dvm>>

EmptyLine == [valid |-> FALSE, tag |-> NoOp.line, shared |-> FALSE, dirty |-> FALSE,
              be |-> Words, data |-> ZeroData]
NoTxn == [op |-> "none", line |-> NoOp.line, data |-> ZeroData, be |-> {},
          ack |-> FALSE, got |-> {}, res |-> ZeroData]

RnInit ==
    /\ line = [r \in Requesters |-> EmptyLine]
    /\ access = [r \in Requesters |-> NoOp]
    /\ stage = [r \in Requesters |-> "loop"]
    /\ want = [r \in Requesters |-> "none"]
    /\ txn = [r \in Requesters |-> NoTxn]
    /\ pulls = [r \in Requesters |-> 0]
    /\ dvm = [r \in Requesters |-> FALSE]

(***************************************************************************)
(* Cachelines.                                                             *)
(***************************************************************************)
GetFillGrade(l) ==
    IF l.be = Words THEN "Full" ELSE IF l.be = {} THEN "Empty" ELSE "Partial"
GetStatus(l) ==
    IF ~l.valid THEN "I"
    ELSE IF l.shared THEN (IF l.dirty THEN "SD" ELSE "SC")
    ELSE CASE GetFillGrade(l) = "Full" -> IF l.dirty THEN "UD" ELSE "UC"
           [] GetFillGrade(l) = "Partial" -> "UDP"
           [] OTHER -> "UCE"
IsDirtyFull(l) == l.dirty /\ GetFillGrade(l) = "Full"
IsDirtyPartial(l) == l.dirty /\ GetFillGrade(l) = "Partial"
IsUniqueCleanFull(l) == ~l.dirty /\ GetFillGrade(l) = "Full"
InCache(c, a, requireFullState) ==
    /\ line[c].valid /\ line[c].tag = a
    /\ requireFullState => GetFillGrade(line[c]) = "Full"
Write(l, d, ws) == [l EXCEPT !.data = Merge(@, d, ws), !.be = @ \cup ws]
\* Mutant: the bytes are written and the line stays as clean as it was.
WriteLine_Clean(l, d, ws) == Write(l, d, ws)
WriteLine(l, d, ws) ==
    LET n == Write(l, d, ws) IN [n EXCEPT !.dirty = @ \/ GetFillGrade(n) # "Empty"]
StoreData(o) == [w \in Words |-> o.val]

(***************************************************************************)
(* Transactions: the constructors and the request they put on the channel. *)
(***************************************************************************)
\* Mutant: a request that is sent again asks for no acknowledgement.
Request_NoAck(t) == [op |-> t.op, line |-> t.line, ack |-> t.ack /\ "RetryAck" \notin t.got,
                     retry |-> "RetryAck" \notin t.got]
Request(t) == [op |-> t.op, line |-> t.line, ack |-> t.ack,
               retry |-> "RetryAck" \notin t.got]

\* What the transaction takes with it: a copy-back a copy of the line, made
\* when it is constructed; a write the enabled bytes of the access.
NewTxn(c, opcode, ack) ==
    LET o == access[c] IN
    [NoTxn EXCEPT !.op = opcode, !.ack = ack,
        !.line = IF IsCopyBack(opcode) \/ opcode \in {"Evict", "CleanUnique"}
                 THEN line[c].tag ELSE o.line,
        !.data = IF IsCopyBack(opcode) THEN line[c].data ELSE StoreData(o),
        !.be = IF IsCopyBack(opcode) THEN line[c].be ELSE o.ws]

ExpCompAck(opcode) ==
    IF IsRead(opcode) \/ opcode \in {"CleanUnique", "MakeUnique"} THEN {TRUE}
    ELSE IF IsWriteUnique(opcode) THEN BOOLEAN ELSE {FALSE}

\* GetID waits until one of the IDs is free.
Issue(c, opcode, next) ==
    /\ pulls[c] < NumIDs
    /\ stage' = [stage EXCEPT ![c] = next]
    /\ \E ack \in ExpCompAck(opcode) :
        /\ txn' = [txn EXCEPT ![c] = NewTxn(c, opcode, ack)]
        /\ up' = Put(up, c, "req", Request(NewTxn(c, opcode, ack)))
    /\ UNCHANGED <<down, toSN, snData, fromSN, access, pulls, dvm>>

(***************************************************************************)
(* The core thread: HandleLoad, HandleStore, InvalidateCacheLine.          *)
(***************************************************************************)
Running(c) == access[c].kind # "none" /\ txn[c].op = "none"
At(c, s) == Running(c) /\ stage[c] = s
IsLoad(o) == o.kind = "Load"
IsStore(o) == o.kind = "Store"

Finish(c) ==
    /\ access' = [access EXCEPT ![c] = NoOp]
    /\ stage' = [stage EXCEPT ![c] = "loop"]
    /\ want' = [want EXCEPT ![c] = "none"]
    /\ txn' = [txn EXCEPT ![c] = NoTxn]
    /\ UNCHANGED <<channels, pulls, dvm>>

Begin(c, o) ==
    /\ access[c].kind = "none"
    /\ access' = [access EXCEPT ![c] = o]
    /\ UNCHANGED <<channels, line, stage, want, txn, pulls, dvm>>

\* The last part of InvalidateCacheLine, for a line that is still valid.
Victim(c) ==
    IF IsDirtyPartial(line[c]) THEN {"WriteBackPtl"}
    ELSE IF line[c].dirty THEN {"WriteBackFull"}
    ELSE IF IsUniqueCleanFull(line[c]) /\ TRUE \in mode.evicts
         THEN IF FALSE \in mode.evicts THEN {"WriteEvictFull", "Evict"} ELSE {"WriteEvictFull"}
    ELSE {"Evict"}
EvictLine(c) ==
    \E v \in Victim(c) :
        /\ Issue(c, v, "main")
        /\ line' = [line EXCEPT ![c].valid = @ /\ v # "Evict"]

\* An allocating transaction leads back to the loop, any other ends the access.
IssueWanted(c, w) ==
    /\ Issue(c, w, IF AllocatesCacheLine(w) \/ w = "MakeUnique" THEN "loop" ELSE "after")
    /\ UNCHANGED line

\* Start of a transaction w that first makes room: InvalidateCacheLine may
\* write a dirty line clean before it evicts it.
Fetch(c, w) ==
    /\ want' = [want EXCEPT ![c] = w]
    /\ \/ ~line[c].valid /\ IssueWanted(c, w)
       \/ /\ line[c].valid /\ IsDirtyFull(line[c]) /\ TRUE \in mode.evicts
          /\ Issue(c, "WriteCleanFull", "part2") /\ UNCHANGED line
       \/ /\ line[c].valid /\ (IsDirtyFull(line[c]) => FALSE \in mode.evicts)
          /\ EvictLine(c)

EvictCleaned(c) ==
    /\ At(c, "part2")
    /\ IF line[c].valid THEN EvictLine(c) ELSE IssueWanted(c, want[c])
    /\ UNCHANGED want

RoomMade(c) == At(c, "main") /\ IssueWanted(c, want[c]) /\ UNCHANGED want

LoadHit(c) ==
    /\ At(c, "loop") /\ IsLoad(access[c]) /\ InCache(c, access[c].line, TRUE)
    /\ Finish(c) /\ UNCHANGED line

LoadMiss(c) ==
    /\ At(c, "loop") /\ IsLoad(access[c]) /\ ~InCache(c, access[c].line, TRUE)
    /\ \E w \in mode.reads : Fetch(c, w)

StoreHit(c) ==
    /\ At(c, "loop") /\ IsStore(access[c]) /\ InCache(c, access[c].line, FALSE) /\ ~line[c].shared
    /\ line' = [line EXCEPT ![c] = WriteLine(@, StoreData(access[c]), access[c].ws)]
    /\ Finish(c)

StoreShared(c) ==
    /\ At(c, "loop") /\ IsStore(access[c]) /\ InCache(c, access[c].line, FALSE) /\ line[c].shared
    /\ Issue(c, "CleanUnique", "loop")
    /\ UNCHANGED <<line, want>>

\* AllBytesEnabled holds only if the access brings an array of enables.
WriteUniques(o) ==
    IF o.wide /\ o.ws = Words THEN {"WriteUniqueFull", "WriteUniquePtl"}
                              ELSE {"WriteUniquePtl"}
StoreMiss(c) ==
    /\ At(c, "loop") /\ IsStore(access[c]) /\ ~InCache(c, access[c].line, FALSE)
    /\ \/ /\ "allocate" \in mode.stores
          /\ Fetch(c, IF access[c].wide THEN "MakeUnique" ELSE "ReadUnique")
       \/ /\ "unique" \in mode.stores
          /\ \E w \in WriteUniques(access[c]) : Issue(c, w, "after")
          /\ UNCHANGED <<line, want>>

\* Atomics, DVM operations and the accesses of a nonshareable region.
Direct(c) ==
    /\ At(c, "loop") /\ ~IsLoad(access[c]) /\ ~IsStore(access[c])
    /\ \E w \in IF access[c].kind = "WriteNoSnp" THEN WriteUniques(access[c]) ELSE {access[c].kind} :
            Issue(c, w, "after")
    /\ UNCHANGED <<line, want>>

\* FetchNonCoherentData and the ends of the writes.
Complete(c) == At(c, "after") /\ Finish(c) /\ UNCHANGED line

\* What a load returns in the step that finishes it.
Returned(c) == IF stage[c] = "after" THEN txn[c].res ELSE line[c].data

(***************************************************************************)
(* Callbacks of the transaction: b_transport_rxrsp and b_transport_rxdat.  *)
(***************************************************************************)
Done(t) == [NoTxn EXCEPT !.res = t.res]

\* The answers that HandleRxRsp and HandleRxDat of each class take; the sender
\* asserts that one of them does.
ReadTxnTakes(t, m) == IsRead(t.op) /\ m.t = "CompData" /\ "Data" \notin t.got
DatalessTxnTakes(t, m) == IsDataLess(t.op) /\ m.t = "Comp" /\ "Comp" \notin t.got
WriteTxnTakes(t, m) == IsWrite(t.op) /\ m.t = "CompDBIDResp" /\ "DBID" \notin t.got
AtomicTxnTakes(t, m) ==
    \/ IsAtomicStore(t.op) /\ m.t = "CompDBIDResp" /\ "DBID" \notin t.got
    \/ IsAtomicNonStore(t.op) /\ m.t = "DBIDResp" /\ "DBID" \notin t.got
    \/ IsAtomicNonStore(t.op) /\ m.t = "CompData" /\ "Data" \notin t.got
DVMOpTxnTakes(t, m) ==
    /\ t.op = "DVMOp"
    /\ (m.t = "DBIDResp" /\ "DBID" \notin t.got) \/ (m.t = "Comp" /\ "Comp" \notin t.got)

AcceptsRsp(t, m) ==
    IF m.t \in {"RetryAck", "PCrdGrant"} THEN t.op # "none"
    ELSE \/ DatalessTxnTakes(t, m) \/ WriteTxnTakes(t, m)
         \/ AtomicTxnTakes(t, m) \/ DVMOpTxnTakes(t, m)
AcceptsDat(t, m) == ReadTxnTakes(t, m) \/ AtomicTxnTakes(t, m)

\* A retried request is sent again when the answer and the credit have come.
HandleRetry(r, m) ==
    LET t == [txn[r] EXCEPT !.got = @ \cup {m.t}] IN
    /\ txn' = [txn EXCEPT ![r] = t]
    /\ up' = IF {"RetryAck", "PCrdGrant"} \subseteq t.got
             THEN Put(up, r, "req", Request(t)) ELSE up
    /\ UNCHANGED line

\* DatalessTxn::ParseResp: Comp_UC makes the line valid, whatever it was.
ParseResp(l, t, m) ==
    IF m.st # "UC" THEN [l EXCEPT !.valid = FALSE]
    ELSE [valid |-> TRUE, tag |-> t.line, shared |-> FALSE, dirty |-> FALSE,
          be |-> IF t.op = "MakeUnique" THEN {} ELSE l.be,
          data |-> IF t.op = "MakeUnique" THEN ZeroData ELSE l.data]
HandleComp(r, m) ==
    LET t == txn[r] IN
    /\ line' = IF r \notin Caches \/ t.op = "DVMOp" THEN line
               ELSE [line EXCEPT ![r] = ParseResp(@, t, m)]
    /\ up' = IF t.ack THEN Put(up, r, "rsp", Rsp("CompAck", "I", FALSE)) ELSE up
    /\ txn' = [txn EXCEPT ![r] =
          IF t.ack \/ (t.op = "DVMOp" /\ "Sent" \notin t.got)
          THEN [t EXCEPT !.got = @ \cup {"Comp"}] ELSE Done(t)]

\* WriteTxn::SetupWriteDat and UpdateLineStatus: a line that was invalidated
\* meanwhile is sent with no byte enabled.
HandleDBID(r) ==
    LET t == txn[r]
        l == line[r]
        st == CASE ~l.valid -> "I"
                [] l.valid /\ l.shared -> IF l.dirty THEN "SD" ELSE "SC"
                [] OTHER -> IF l.dirty THEN "UD" ELSE "UC"
    IN
    /\ txn' = [txn EXCEPT ![r].got = @ \cup {"DBID"}]
    /\ IF IsCopyBack(t.op)
       THEN /\ up' = Put(up, r, "dat", Msg("CopyBackWrData", st, l.valid /\ l.dirty, t.data,
                                          IF l.valid THEN t.be ELSE {}, "HN"))
            /\ line' = [line EXCEPT ![r] =
                  IF t.op = "WriteCleanFull" THEN [@ EXCEPT !.dirty = FALSE]
                                             ELSE [@ EXCEPT !.valid = FALSE]]
       ELSE /\ up' = Put(up, r, "dat", Msg("NonCopyBackWrData", "I", FALSE, t.data, t.be, "HN"))
            /\ UNCHANGED line

RxRsp(r) ==
    LET m == Head(down[r].rsp) IN
    /\ down[r].rsp # <<>> /\ AcceptsRsp(txn[r], m)
    /\ down' = Drop(down, r, "rsp")
    /\ CASE m.t \in {"RetryAck", "PCrdGrant"} -> HandleRetry(r, m)
         [] m.t = "Comp" -> HandleComp(r, m)
         [] OTHER -> HandleDBID(r)
    /\ UNCHANGED <<toSN, snData, fromSN, access, stage, want, pulls, dvm>>

\* ReadTxn: CopyData takes the enabled bytes, then a valid line counts as full.
ParseReadResp(l, t, m) ==
    LET n == [l EXCEPT !.valid = m.st # "I", !.data = Merge(@, m.data, m.be)] IN
    IF m.st = "I" THEN [n EXCEPT !.be = @ \cup m.be]
    ELSE [n EXCEPT !.tag = t.line, !.shared = m.st \in {"SC", "SD"}, !.dirty = m.pd,
                   !.be = Words]

\* An atomic counts the enabled bytes: "Data" if they are all that it waits for,
\* "Part" if m_received is not m_inboundLen.
Counted(t, m) ==
    IF IsAtomic(t.op) /\ Cardinality(m.be) # Cardinality(t.be) THEN "Part" ELSE "Data"

\* m is the data as the bridge has taken it from the flits.
RxDat(r, m) ==
    LET t == [txn[r] EXCEPT !.got = @ \cup {Counted(txn[r], m)}, !.res = m.data] IN
    /\ down[r].dat # <<>> /\ AcceptsDat(txn[r], m)
    /\ down' = Drop(down, r, "dat")
    /\ line' = IF ~AllocatesCacheLine(t.op) \/ r \notin Caches THEN line
               ELSE [line EXCEPT ![r] = ParseReadResp(@, t, m)]
    /\ up' = IF t.ack THEN Put(up, r, "rsp", Rsp("CompAck", "I", FALSE)) ELSE up
    /\ txn' = [txn EXCEPT ![r] =
          IF t.ack \/ (IsAtomic(t.op) /\ ~({"Sent", "Data"} \subseteq t.got)) THEN t ELSE Done(t)]
    /\ UNCHANGED <<toSN, snData, fromSN, access, stage, want, pulls, dvm>>

(***************************************************************************)
(* Snoops: HandleSnp and the tables 4-16 to 4-28 it implements.            *)
(***************************************************************************)
\* What a handler leaves and sends: the line, the answer with the state that it
\* reports and whether it passes dirty, the CompData that it has the cache
\* forward, and DataPull.
Reply(l, t, st, pd) ==
    [line |-> l, t |-> t, st |-> st, pd |-> pd, fst |-> "none", fpd |-> FALSE, pull |-> FALSE]
SnpResp(l, st) == Reply(l, "SnpResp", st, FALSE)
SnpRespData(l, st, pd) == Reply(l, "SnpRespData", st, pd)
SnpRespDataPtl(l, st, pd) == Reply(l, "SnpRespDataPtl", st, pd)
SnpRespFwded(l, st, fst, fpd) == [Reply(l, "SnpRespFwded", st, FALSE) EXCEPT !.fst = fst, !.fpd = fpd]
SnpRespDataFwded(l, st, fst, pd) == [Reply(l, "SnpRespDataFwded", st, pd) EXCEPT !.fst = fst]

Invalid(l) == [l EXCEPT !.valid = FALSE]
Shared(l) == [l EXCEPT !.shared = TRUE]
Clean(l) == [l EXCEPT !.dirty = FALSE]

HandleSnpOnce(l, st) ==
    CASE st = "UCE" -> SnpResp(l, "UC")
      [] st = "UDP" -> SnpRespDataPtl(l, "UC", FALSE)
      [] OTHER -> SnpRespData(l, IF st = "UD" THEN "UC" ELSE st, FALSE)

\* A line in UD stays dirty though it passes the duty to write it back.
HandleSnpClean(l, st) ==
    CASE st = "UCE" -> SnpResp(Invalid(l), "I")
      [] st = "UDP" -> SnpRespDataPtl(Invalid(l), "I", TRUE)
      [] st = "SD" -> SnpRespData(Clean(l), "SC", TRUE)
      [] OTHER -> SnpRespData(Shared(l), "SC", st = "UD")

HandleSnpUnique(l, st) ==
    CASE st = "UCE" -> SnpResp(Invalid(l), "I")
      [] st = "UDP" -> SnpRespDataPtl(Invalid(l), "I", TRUE)
      [] OTHER -> SnpRespData(Invalid(l), "I", st \in {"UD", "SD"})

HandleSnpCleanShared(l, st) ==
    CASE st = "UCE" -> SnpResp(Invalid(l), "I")
      [] st = "UDP" -> SnpRespDataPtl(Invalid(l), "I", TRUE)
      [] st \in {"UD", "SD"} -> SnpRespData(Clean(l), IF st = "UD" THEN "UC" ELSE "SC", TRUE)
      [] OTHER -> SnpResp(l, st)

HandleSnpCleanInvalid(l, st) ==
    CASE st = "UDP" -> SnpRespDataPtl(Invalid(l), "I", TRUE)
      [] st \in {"UD", "SD"} -> SnpRespData(Invalid(l), "I", TRUE)
      [] OTHER -> SnpResp(Invalid(l), "I")

HandleSnpMakeInvalid(l, st) == SnpResp(Invalid(l), "I")

HandleSnpUniqueStash(l, st) == [HandleSnpCleanInvalid(l, st) EXCEPT !.pull = TRUE]

HandleSnpMakeInvalidStash(l, st) == [HandleSnpMakeInvalid(l, st) EXCEPT !.pull = TRUE]

HandleSnpStashUnique(l, st) ==
    [SnpResp(l, IF st \in {"SC", "SD"} THEN st ELSE "UC")
        EXCEPT !.pull = st \in {"UCE", "SC", "SD"}]

HandleSnpStashShared(l, st) ==
    [SnpResp(l, IF st \in {"SC", "SD"} THEN st ELSE "UC") EXCEPT !.pull = st = "UCE"]

HandleSnpOnceFwd(l, st) ==
    CASE st = "UCE" -> SnpResp(l, "UC")
      [] st = "UDP" -> SnpRespDataPtl(l, "UC", FALSE)
      [] OTHER -> SnpRespFwded(l, IF st = "UD" THEN "UC" ELSE st, "I", FALSE)

HandleSnpCleanFwd(l, st) ==
    CASE st = "UCE" -> SnpResp(Invalid(l), "I")
      [] st = "UDP" -> SnpRespDataPtl(Invalid(l), "I", TRUE)
      [] OTHER -> SnpRespDataFwded(Shared(Clean(l)), "SC", "SC", st \in {"UD", "SD"})

\* The handlers of the other two forwarding reads are the same, word for word.
HandleSnpNotSharedDirtyFwd(l, st) == HandleSnpCleanFwd(l, st)
HandleSnpSharedFwd(l, st) == HandleSnpCleanFwd(l, st)

HandleSnpUniqueFwd(l, st) ==
    CASE st = "UCE" -> SnpResp(Invalid(l), "I")
      [] st = "UDP" -> SnpRespDataPtl(Invalid(l), "I", TRUE)
      [] st \in {"UD", "SD"} -> SnpRespFwded(Invalid(l), "I", "UD", TRUE)
      [] OTHER -> SnpRespFwded(Invalid(l), "I", "UC", FALSE)

SnpReply(snp, l, st) ==
    CASE snp = "SnpOnce" -> HandleSnpOnce(l, st)
      [] snp \in {"SnpClean", "SnpShared", "SnpNotSharedDirty"} -> HandleSnpClean(l, st)
      [] snp = "SnpUnique" -> HandleSnpUnique(l, st)
      [] snp = "SnpCleanShared" -> HandleSnpCleanShared(l, st)
      [] snp = "SnpCleanInvalid" -> HandleSnpCleanInvalid(l, st)
      [] snp = "SnpMakeInvalid" -> HandleSnpMakeInvalid(l, st)
      [] snp = "SnpUniqueStash" -> HandleSnpUniqueStash(l, st)
      [] snp = "SnpMakeInvalidStash" -> HandleSnpMakeInvalidStash(l, st)
      [] snp = "SnpStashUnique" -> HandleSnpStashUnique(l, st)
      [] snp = "SnpStashShared" -> HandleSnpStashShared(l, st)
      [] snp = "SnpOnceFwd" -> HandleSnpOnceFwd(l, st)
      [] snp = "SnpCleanFwd" -> HandleSnpCleanFwd(l, st)
      [] snp = "SnpNotSharedDirtyFwd" -> HandleSnpNotSharedDirtyFwd(l, st)
      [] snp = "SnpSharedFwd" -> HandleSnpSharedFwd(l, st)
      [] OTHER -> HandleSnpUniqueFwd(l, st)

OnRsp == {"SnpResp", "SnpRespFwded"}

\* A line that is not there is answered by SnpResp_I, also if it is forwarding.
\* DataPull takes an ID, except with SnpStashShared.
HandleSnp(r, m) ==
    LET a == IF InCache(r, m.line, FALSE) THEN SnpReply(m.t, line[r], GetStatus(line[r]))
                                          ELSE SnpResp(line[r], "I")
        takesID == a.pull /\ m.t # "SnpStashShared"
    IN
    /\ takesID => pulls[r] < NumIDs
    /\ pulls' = [pulls EXCEPT ![r] = @ + (IF takesID THEN 1 ELSE 0)]
    /\ line' = [line EXCEPT ![r] = a.line]
    /\ up' = Put(up, r, IF a.t \in OnRsp THEN "rsp" ELSE "dat",
                 [t |-> a.t, st |-> a.st, pd |-> a.pd, to |-> m.to, fst |-> a.fst, fpd |-> a.fpd,
                  pull |-> a.pull])
    /\ UNCHANGED dvm

\* Both packets of a DVM operation are answered with the second one.
HandleSnpDVMOp(r) ==
    /\ dvm' = [dvm EXCEPT ![r] = ~@]
    /\ up' = IF dvm[r] THEN Put(up, r, "rsp", Rsp("SnpResp", "I", FALSE)) ELSE up
    /\ UNCHANGED <<line, pulls>>

RxSnp(r) ==
    LET m == Head(down[r].snp) IN
    /\ down[r].snp # <<>>
    /\ down' = Drop(down, r, "snp")
    /\ IF m.t = "SnpDVMOp" THEN HandleSnpDVMOp(r) ELSE HandleSnp(r, m)
    /\ UNCHANGED <<toSN, snData, fromSN, access, stage, want, txn>>

(***************************************************************************)
(* A message leaves on a channel: tx_thread, ProcessSnp and Done.          *)
(***************************************************************************)
\* Snoop data is read from the cacheline when it is sent: SetData and
\* SetCompData keep pointers.
Sent(r, m) ==
    IF m.t \in {"SnpRespData", "SnpRespDataPtl", "SnpRespDataFwded"}
    THEN Msg(m.t, m.st, m.pd, line[r].data, line[r].be, "HN") ELSE m

Forwarded(r, m) == Msg("CompData", m.fst, m.fpd, line[r].data, Words, m.to)

TransmitRsp(r, m) ==
    /\ up[r].rsp # <<>> /\ m = Head(up[r].rsp)
    /\ up' = IF m.t = "SnpRespFwded" THEN Put(Drop(up, r, "rsp"), r, "dat", Forwarded(r, m))
                                     ELSE Drop(up, r, "rsp")
    /\ txn' = IF m.t = "CompAck" THEN [txn EXCEPT ![r] = Done(@)] ELSE txn
    /\ UNCHANGED <<line, access, stage, want, pulls, dvm>>

TransmitDat(r, m) ==
    LET t == [txn[r] EXCEPT !.got = @ \cup {"Sent"}]
        mine == m.t \in {"CopyBackWrData", "NonCopyBackWrData"}
        waits == \/ t.ack
                 \/ t.op = "DVMOp" /\ "Comp" \notin t.got
                 \/ IsAtomicNonStore(t.op) /\ "Data" \notin t.got
        left == Drop(up, r, "dat")
    IN
    /\ up[r].dat # <<>> /\ m = Sent(r, Head(up[r].dat))
    /\ up' = IF mine /\ t.ack THEN Put(left, r, "rsp", Rsp("CompAck", "I", FALSE))
             ELSE IF m.t = "SnpRespDataFwded"
             THEN Put(left, r, "dat", Forwarded(r, Head(up[r].dat))) ELSE left
    /\ txn' = IF ~mine THEN txn ELSE [txn EXCEPT ![r] = IF waits THEN t ELSE Done(t)]
    /\ UNCHANGED <<line, access, stage, want, pulls, dvm>>

TransmitReq(r, m) ==
    /\ up[r].req # <<>> /\ m = Head(up[r].req)
    /\ up' = Drop(up, r, "req")
    /\ UNCHANGED rnVars
=============================================================================
