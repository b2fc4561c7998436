------------------------------- MODULE ChiFlit -------------------------------
(***************************************************************************)
(* The flits of the four channels.  The bridges of a port (ReqPkt, RspPkt, *)
(* SnpPkt, DatPkt of pkts.h) put the fields of a message next to each      *)
(* other, field by field, and take them apart at the other end; the        *)
(* monitor has a parser of its own (flits-chi.h).  A layout is the         *)
(* sequence of <<field, width>> in the order in which m_pos advances.      *)
(***************************************************************************)
EXTENDS ChiProtocol, TLC

\* The template parameters.  Addresses, data and the fields that nothing sets
\* are narrower than the defaults of the code: a word stands for a byte lane.
NODEID_WIDTH == 7
ADDR_WIDTH == 9
RSVDC_WIDTH == 2
BE_WIDTH == Cardinality(Words)
DATA_WIDTH == 8 * BE_WIDTH
DATACHECK_WIDTH == BE_WIDTH
POISON_WIDTH == 1
DAT_OPCODE_WIDTH == 4

CACHELINE_SZ == 64
WORD_SZ == 8      \* length of an atomic access
DVMOpSize == 3
ICN_ID == 0

\* Where lines, words and requesters are: node IDs and addresses.
Place(S, e) == CHOOSE i \in DOMAIN SetToSeq(S) : SetToSeq(S)[i] = e
NodeID(n) == IF n \in Requesters THEN Place(Requesters, n) ELSE ICN_ID
GetTag(l) == CACHELINE_SZ * Place(Lines, l)

(***************************************************************************)
(* Opcodes (amba-chi.h).  The requests that no node of the model sends are *)
(* those at the end of the first table.                                    *)
(***************************************************************************)
ReqOpcode ==
    [ReadShared |-> 1, ReadClean |-> 2, ReadOnce |-> 3, ReadNoSnp |-> 4, ReadUnique |-> 7,
     CleanShared |-> 8, CleanInvalid |-> 9, MakeInvalid |-> 10, CleanUnique |-> 11,
     MakeUnique |-> 12, Evict |-> 13, DVMOp |-> 20, WriteEvictFull |-> 21,
     WriteCleanFull |-> 23, WriteUniquePtl |-> 24, WriteUniqueFull |-> 25,
     WriteBackPtl |-> 26, WriteBackFull |-> 27, WriteNoSnpPtl |-> 28, WriteNoSnpFull |-> 29,
     WriteUniqueFullStash |-> 32, WriteUniquePtlStash |-> 33, StashOnceShared |-> 34,
     StashOnceUnique |-> 35, ReadOnceCleanInvalid |-> 36, ReadOnceMakeInvalid |-> 37,
     ReadNotSharedDirty |-> 38, CleanSharedPersist |-> 39, AtomicStoreADD |-> 40,
     AtomicLoadADD |-> 48, AtomicSwap |-> 56,
     ReqLCrdReturn |-> 0, PCrdReturn |-> 5, ReadNoSnpSep |-> 17, AtomicCompare |-> 57,
     PrefetchTgt |-> 58]
RspOpcode ==
    [RespLCrdReturn |-> 0, SnpResp |-> 1, CompAck |-> 2, RetryAck |-> 3, Comp |-> 4,
     CompDBIDResp |-> 5, DBIDResp |-> 6, PCrdGrant |-> 7, ReadReceipt |-> 8,
     SnpRespFwded |-> 9, RespSepData |-> 11]
SnpOpcode ==
    [SnpLCrdReturn |-> 0, SnpShared |-> 1, SnpClean |-> 2, SnpOnce |-> 3,
     SnpNotSharedDirty |-> 4, SnpUniqueStash |-> 5, SnpMakeInvalidStash |-> 6,
     SnpUnique |-> 7, SnpCleanShared |-> 8, SnpCleanInvalid |-> 9, SnpMakeInvalid |-> 10,
     SnpStashUnique |-> 11, SnpStashShared |-> 12, SnpDVMOp |-> 13, SnpSharedFwd |-> 17,
     SnpCleanFwd |-> 18, SnpOnceFwd |-> 19, SnpNotSharedDirtyFwd |-> 20, SnpUniqueFwd |-> 23]
DatOpcode ==
    [DataLCrdReturn |-> 0, SnpRespData |-> 1, CopyBackWrData |-> 2, NonCopyBackWrData |-> 3,
     CompData |-> 4, SnpRespDataPtl |-> 5, SnpRespDataFwded |-> 6, WriteDataCancel |-> 7,
     DataSepResp |-> 11, NCBWrDataCompAck |-> 12]
\* The enumerator of an opcode, for the switch statements.
Enumerator(table, n) ==
    IF \E o \in DOMAIN table : table[o] = n THEN CHOOSE o \in DOMAIN table : table[o] = n
                                            ELSE "none"

(***************************************************************************)
(* Set and Extract.                                                        *)
(***************************************************************************)
Bit(b) == IF b THEN 1 ELSE 0
Set(flit, val, width) == flit \o [i \in 1 .. width |-> (val \div 2 ^ (i - 1)) % 2]
Extract(flit, pos, width) ==
    FoldLeft(LAMBDA n, i : 2 * n + flit[pos + i], 0, [i \in 1 .. width |-> width + 1 - i])

CreateFlit(layout, attr) ==
    FoldLeft(LAMBDA flit, f : Set(flit, attr[f[1]], f[2]), <<>>, layout)
ParseFlit(layout, flit) ==
    FoldLeft(LAMBDA p, f : [pos |-> p.pos + f[2],
                            attr |-> (f[1] :> Extract(flit, p.pos, f[2])) @@ p.attr],
             [pos |-> 0, attr |-> <<>>], layout).attr

(***************************************************************************)
(* The fields of a message: chiattr_extension, all zero but for NS, which  *)
(* is the negation of secure, with what the constructors of messages set.  *)
(***************************************************************************)
NoAttr ==
    [f \in {"QoS", "TgtID", "SrcID", "TxnID", "HomeNID", "ReturnNID", "StashNIDValid",
            "ReturnTxnID", "Opcode", "Size", "Addr", "LikelyShared", "AllowRetry", "Order",
            "PCrdType", "Allocate", "Cacheable", "DeviceMemory", "EarlyWrAck", "SnpAttr",
            "LPID", "Excl", "ExpCompAck", "TraceTag", "RSVDC", "RespErr", "Resp", "FwdState",
            "DBID", "CCID", "DataID", "BE", "Data", "DataCheck", "Poison", "FwdNID",
            "FwdTxnID", "DoNotGoToSD", "RetToSrc"} |-> 0]
    @@ ("NS" :> 1)

DataLength(op) ==
    IF op = "DVMOp" THEN DVMOpSize ELSE IF IsAtomic(op) THEN WORD_SZ ELSE CACHELINE_SZ
\* A length that is no power of two has size zero.
GetSize(len) ==
    IF \E s \in 0 .. 6 : 2 ^ s = len THEN CHOOSE s \in 0 .. 6 : 2 ^ s = len ELSE 0
\* GetMemAttr and ExtractMemAttr: four bits, the last one first.
MemAttr == <<<<"EarlyWrAck", 1>>, <<"DeviceMemory", 1>>, <<"Cacheable", 1>>, <<"Allocate", 1>>>>

\* Accesses have the attributes of normal memory that is cached; those of a
\* DVM operation are not copied.
ReqAttr(n, op, l, ack, retry) ==
    [NoAttr EXCEPT
        !.TgtID = ICN_ID, !.SrcID = NodeID(n), !.Opcode = ReqOpcode[op],
        !.Size = GetSize(DataLength(op)), !.Addr = GetTag(l),
        !.NS = Bit(op # "DVMOp"), !.AllowRetry = Bit(retry),
        !.Cacheable = Bit(op # "DVMOp"), !.Allocate = Bit(op # "DVMOp"),
        !.SnpAttr = Bit(GetSnpAttr(op)), !.ExpCompAck = Bit(ack)]

\* Table of the states that a response carries.
GetResp(st, pd) ==
    IF pd THEN CASE st = "UC" -> 6 [] st = "SC" -> 5 [] OTHER -> 4
    ELSE CASE st = "SD" -> 3 [] st \in {"UC", "UD"} -> 2 [] st = "SC" -> 1 [] OTHER -> 0
GetCompDataResp(st, pd) ==
    IF pd THEN CASE st = "UD" -> 6 [] st = "SD" -> 7 [] OTHER -> 4
    ELSE CASE st = "UC" -> 2 [] st = "SC" -> 1 [] OTHER -> 0
IsSnpFwded(m) == m.t \in {"SnpRespFwded", "SnpRespDataFwded"}
\* One field is FwdState in the answer to a snoop that forwards, else DataPull.
FwdState_DataPull(m) ==
    IF IsSnpFwded(m) THEN GetResp(m.fst, m.fpd) ELSE Bit("pull" \in DOMAIN m /\ m.pull)
RspAttr(opcode, resp, fwd) ==
    [NoAttr EXCEPT !.Opcode = opcode, !.Resp = resp, !.FwdState = fwd]
\* Byte enables and data: a bit and a byte for every lane of the line.
Lane == SetToSeq(Words)
ByteEnables(be) ==
    FoldLeft(LAMBDA n, w : 2 * n + Bit(w \in be), 0, Reverse(Lane))
Bytes(d) == FoldLeft(LAMBDA n, w : 256 * n + d[w], 0, Reverse(Lane))
DatAttr(d, be) == [NoAttr EXCEPT !.BE = ByteEnables(be), !.Data = Bytes(d)]

GetDoNotGoToSD(snp) ==
    snp \in {"SnpUniqueFwd", "SnpUnique", "SnpCleanShared", "SnpCleanInvalid", "SnpMakeInvalid"}
\* A snoop for requester n; the address is sent without its last three bits.
SnpAttr(n, t, l) ==
    [NoAttr EXCEPT
        !.SrcID = ICN_ID, !.Opcode = SnpOpcode[t], !.Addr = GetTag(l) \div 8,
        !.FwdNID = IF t \in FwdSnoops THEN NodeID(n) ELSE 0,
        !.NS = Bit(t # "SnpDVMOp"), !.DoNotGoToSD = Bit(GetDoNotGoToSD(t)),
        !.RetToSrc = Bit(t # "SnpDVMOp")]

(***************************************************************************)
(* The layouts of the bridges.                                             *)
(***************************************************************************)
\* A width of zero leaves the field out.
Field(name, width) == IF width = 0 THEN <<>> ELSE <<<<name, width>>>>
ReqPkt ==
    <<<<"QoS", 4>>, <<"TgtID", NODEID_WIDTH>>, <<"SrcID", NODEID_WIDTH>>, <<"TxnID", 8>>,
      <<"ReturnNID", NODEID_WIDTH>>, <<"StashNIDValid", 1>>, <<"ReturnTxnID", 8>>,
      <<"Opcode", 6>>, <<"Size", 3>>, <<"Addr", ADDR_WIDTH>>, <<"NS", 1>>,
      <<"LikelyShared", 1>>, <<"AllowRetry", 1>>, <<"Order", 2>>, <<"PCrdType", 4>>>>
    \o MemAttr
    \o <<<<"SnpAttr", 1>>, <<"LPID", 5>>, <<"Excl", 1>>, <<"ExpCompAck", 1>>, <<"TraceTag", 1>>>>
    \o Field("RSVDC", RSVDC_WIDTH)
RspPkt ==
    <<<<"QoS", 4>>, <<"TgtID", NODEID_WIDTH>>, <<"SrcID", NODEID_WIDTH>>, <<"TxnID", 8>>,
      <<"Opcode", 4>>, <<"RespErr", 2>>, <<"Resp", 3>>, <<"FwdState", 3>>, <<"DBID", 8>>,
      <<"PCrdType", 4>>, <<"TraceTag", 1>>>>
SnpPkt ==
    <<<<"QoS", 4>>, <<"SrcID", NODEID_WIDTH>>, <<"TxnID", 8>>, <<"FwdNID", NODEID_WIDTH>>,
      <<"FwdTxnID", 8>>, <<"Opcode", 5>>, <<"Addr", ADDR_WIDTH - 3>>, <<"NS", 1>>,
      <<"DoNotGoToSD", 1>>, <<"RetToSrc", 1>>, <<"TraceTag", 1>>>>
DatHeader ==
    <<<<"QoS", 4>>, <<"TgtID", NODEID_WIDTH>>, <<"SrcID", NODEID_WIDTH>>, <<"TxnID", 8>>,
      <<"HomeNID", NODEID_WIDTH>>, <<"Opcode", DAT_OPCODE_WIDTH>>, <<"RespErr", 2>>,
      <<"Resp", 3>>, <<"FwdState", 3>>, <<"DBID", 8>>, <<"CCID", 2>>, <<"DataID", 2>>,
      <<"TraceTag", 1>>>> \o Field("RSVDC", RSVDC_WIDTH)
\* The byte that SetData writes after the last one is where DataCheck, or else
\* Poison, is put next.
DatPkt ==
    DatHeader \o <<<<"BE", BE_WIDTH>>, <<"Data", DATA_WIDTH>>>>
    \o Field("DataCheck", DATACHECK_WIDTH) \o Field("Poison", POISON_WIDTH)

\* What the bridge at the other end makes of data that was sent: the lanes with
\* their enables.
Arrives ==
    [m \in {<<d, be>> : d \in Data, be \in SUBSET Words} |->
        LET a == ParseFlit(DatPkt, CreateFlit(DatPkt, DatAttr(m[1], m[2])))
            At(w) == CHOOSE i \in DOMAIN Lane : Lane[i] = w
        IN [data |-> [w \in Words |-> (a.Data \div 256 ^ (At(w) - 1)) % 256],
            be |-> {w \in Words : (a.BE \div 2 ^ (At(w) - 1)) % 2 = 1}]]
Arrived(m) ==
    LET a == Arrives[<<m.data, m.be>>] IN [m EXCEPT !.data = a.data, !.be = a.be]
\* The bridges lose nothing: the words of a line fit in its flits, and a value in
\* its lane.
FlitsKeepData ==
    \A d \in Data, be \in SUBSET Words : Arrives[<<d, be>>] = [data |-> d, be |-> be]

(***************************************************************************)
(* The parsers of the monitor.                                             *)
(***************************************************************************)
ReqFlit ==
    <<<<"QoS", 4>>, <<"TgtID", NODEID_WIDTH>>, <<"SrcID", NODEID_WIDTH>>, <<"TxnID", 8>>,
      <<"ReturnNID", NODEID_WIDTH>>, <<"StashNIDValid", 1>>, <<"ReturnTxnID", 8>>,
      <<"Opcode", 6>>, <<"Size", 3>>, <<"Addr", ADDR_WIDTH>>, <<"NS", 1>>,
      <<"LikelyShared", 1>>, <<"AllowRetry", 1>>, <<"Order", 2>>, <<"PCrdType", 4>>,
      <<"EarlyWrAck", 1>>, <<"DeviceMemory", 1>>, <<"Cacheable", 1>>, <<"Allocate", 1>>,
      <<"SnpAttr", 1>>, <<"LPID", 5>>, <<"Excl", 1>>, <<"ExpCompAck", 1>>, <<"TraceTag", 1>>>>
    \o Field("RSVDC", RSVDC_WIDTH)
RspFlit ==
    <<<<"QoS", 4>>, <<"TgtID", NODEID_WIDTH>>, <<"SrcID", NODEID_WIDTH>>, <<"TxnID", 8>>,
      <<"Opcode", 4>>, <<"RespErr", 2>>, <<"Resp", 3>>, <<"FwdState", 3>>, <<"DBID", 8>>,
      <<"PCrdType", 4>>, <<"TraceTag", 1>>>>
SnpFlit ==
    <<<<"QoS", 4>>, <<"SrcID", NODEID_WIDTH>>, <<"TxnID", 8>>, <<"FwdNID", NODEID_WIDTH>>,
      <<"FwdTxnID", 8>>, <<"Opcode", 5>>, <<"Addr", ADDR_WIDTH - 3>>, <<"NS", 1>>,
      <<"DoNotGoToSD", 1>>, <<"RetToSrc", 1>>, <<"TraceTag", 1>>>>
DatFlit ==
    <<<<"QoS", 4>>, <<"TgtID", NODEID_WIDTH>>, <<"SrcID", NODEID_WIDTH>>, <<"TxnID", 8>>,
      <<"HomeNID", NODEID_WIDTH>>, <<"Opcode", DAT_OPCODE_WIDTH>>, <<"RespErr", 2>>,
      <<"Resp", 3>>, <<"FwdState", 3>>, <<"DBID", 8>>, <<"CCID", 2>>, <<"DataID", 2>>,
      <<"TraceTag", 1>>>>
    \o Field("RSVDC", RSVDC_WIDTH) \o <<<<"BE", BE_WIDTH>>, <<"Data", DATA_WIDTH>>>>
    \o Field("DataCheck", DATACHECK_WIDTH) \o Field("Poison", POISON_WIDTH)
=============================================================================
