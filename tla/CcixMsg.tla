------------------------------- MODULE CcixMsg -------------------------------
(***************************************************************************)
(* How a CCIX port translates CHI messages into CCIX messages and back     *)
(* (CCIXReq, CCIXResp, CCIXSnpReq and CCIXSnpResp of ccixport.h).  CHI     *)
(* opcodes and responses are their names; CCIX operations are the numbers  *)
(* that travel, since the receiver compares them as ranges.  A CHI request *)
(* is a record with its opcode, the sub-operation of an atomic, SnoopMe,   *)
(* its memory attributes, address and size; ones are the bytes of its line *)
(* that hold 0xFF, in groups of eight.                                     *)
(***************************************************************************)
EXTENDS Integers, Sequences

CONSTANT CachelineSz   \* CACHELINE_SZ

Error == -1            \* a translation that SC_REPORT_ERROR reports

ReqOp ==
    [ReadNoSnp |-> 0, ReadOnce |-> 1, ReadOnceCleanInvalid |-> 2, ReadOnceMakeInvalid |-> 3,
     ReadUnique |-> 4, ReadClean |-> 5, ReadNotSharedDirty |-> 6, ReadShared |-> 7,
     CleanUnique |-> 16, MakeUnique |-> 17, Evict |-> 19, CleanShared |-> 20,
     CleanSharedPersist |-> 21, CleanInvalid |-> 22, MakeInvalid |-> 23,
     WriteNoSnpPtl |-> 32, WriteNoSnpFull |-> 33, WriteUniquePtl |-> 34, WriteUniqueFull |-> 35,
     WriteBackPtl |-> 36, WriteBackFullUD |-> 37, WriteBackFullSD |-> 39,
     WriteCleanFullSD |-> 43, WriteEvictFull |-> 45,
     AtomicStore |-> 64, AtomicLoad |-> 80, AtomicSwap |-> 96, AtomicCompare |-> 97,
     AtomicStoreSnpMe |-> 192, AtomicLoadSnpMe |-> 208, AtomicSwapSnpMe |-> 224,
     AtomicCompareSnpMe |-> 225]

CoherentReads == {"ReadClean", "ReadNotSharedDirty", "ReadShared", "ReadUnique"}
SnpReads == CoherentReads \cup {"ReadOnce", "ReadOnceCleanInvalid", "ReadOnceMakeInvalid"}
Reads == SnpReads \cup {"ReadNoSnp"}
Dataless == {"CleanUnique", "MakeUnique", "Evict", "CleanShared", "CleanSharedPersist",
             "CleanInvalid", "MakeInvalid"}
CopyBacks == {"WriteBackFull", "WriteBackPtl", "WriteCleanFull", "WriteEvictFull"}
WriteUniques == {"WriteUniquePtl", "WriteUniqueFull"}
Writes == CopyBacks \cup WriteUniques \cup {"WriteNoSnpPtl", "WriteNoSnpFull"}
Atomics == {"AtomicStore", "AtomicLoad", "AtomicSwap", "AtomicCompare"}

(***************************************************************************)
(* Requests, from CHI.  The operation of a write is known when its data    *)
(* is, and only data that passes dirty reaches the link.                   *)
(***************************************************************************)
IsDataLessWithCompAck(op) == op \in {"CleanUnique", "MakeUnique"}
ExpCompAck(op) == op \in SnpReads \/ IsDataLessWithCompAck(op)

toReqOp(op) == IF op \in Reads \cup Dataless THEN ReqOp[op] ELSE Error

toWriteReqOp(op, resp) ==
    CASE op = "WriteBackFull" /\ resp = "SD_PD"               -> ReqOp.WriteBackFullSD
      [] op = "WriteBackFull" /\ resp = "UD_PD"               -> ReqOp.WriteBackFullUD
      [] op = "WriteCleanFull" /\ resp \in {"SD_PD", "UD_PD"} -> ReqOp.WriteCleanFullSD
      [] op \in Writes \ {"WriteBackFull", "WriteCleanFull"}  -> ReqOp[op]
      [] OTHER                                                -> Error

toAtomicReqOp(c) ==
    LET base == CASE c.op = "AtomicStore"   -> IF c.snpMe THEN ReqOp.AtomicStoreSnpMe ELSE ReqOp.AtomicStore
                  [] c.op = "AtomicLoad"    -> IF c.snpMe THEN ReqOp.AtomicLoadSnpMe ELSE ReqOp.AtomicLoad
                  [] c.op = "AtomicSwap"    -> IF c.snpMe THEN ReqOp.AtomicSwapSnpMe ELSE ReqOp.AtomicSwap
                  [] c.op = "AtomicCompare" -> IF c.snpMe THEN ReqOp.AtomicCompareSnpMe ELSE ReqOp.AtomicCompare
    IN  IF c.op \in {"AtomicStore", "AtomicLoad"} THEN base + c.sub ELSE base

Device_nRnE == 0
Device_nRE == 1
Device_RE == 2
NonCacheable == 3
WBnA == 4
WBA == 5
GetReqAttrMemType(a) ==
    IF a.device
    THEN IF a.endpoint THEN IF a.ewa THEN Device_nRE ELSE Device_nRnE
         ELSE IF a.ewa THEN Device_RE ELSE Error    \* assert(EWA)
    ELSE IF ~a.cacheable THEN NonCacheable ELSE IF a.allocate THEN WBA ELSE WBnA

SizeCode == [n \in {1, 2, 4, 8, 16, 32, 64, 128} |->
    CASE n = 128 -> 7 [] n = 64 -> 6 [] n = 32 -> 5 [] n = 16 -> 4
      [] n = 8 -> 3 [] n = 4 -> 2 [] n = 2 -> 1 [] OTHER -> 0]
GetReqAttr(c) == 16 * SizeCode[c.size] + GetReqAttrMemType(c.mem)

\* The CCIX request; resp is that of the data of a write.
chi2ccix(c, resp) ==
    [reqOp |-> CASE c.op \in Atomics -> toAtomicReqOp(c)
                 [] c.op \in Writes  -> toWriteReqOp(c.op, resp)
                 [] OTHER            -> toReqOp(c.op),
     reqAttr |-> GetReqAttr(c), addr |-> c.addr, ns |-> c.ns]

(***************************************************************************)
(* Requests, to CHI.                                                       *)
(***************************************************************************)
IsCCIXAtomic(o) == o >= ReqOp.AtomicStore /\ o <= ReqOp.AtomicCompareSnpMe
IsCCIXAtomicSnpMe(o) == o >= ReqOp.AtomicStoreSnpMe /\ o <= ReqOp.AtomicCompareSnpMe
IsAtomicNonStore(o) ==
    \/ o >= ReqOp.AtomicLoad /\ o <= ReqOp.AtomicCompare
    \/ o >= ReqOp.AtomicLoadSnpMe /\ o <= ReqOp.AtomicCompareSnpMe
Between(o, from, below) == o >= ReqOp[from] /\ o < ReqOp[below]

toCHIAtomic(o) ==
    CASE Between(o, "AtomicStore", "AtomicLoad") \/ Between(o, "AtomicStoreSnpMe", "AtomicLoadSnpMe")
                                                                -> "AtomicStore"
      [] Between(o, "AtomicLoad", "AtomicSwap") \/ Between(o, "AtomicLoadSnpMe", "AtomicSwapSnpMe")
                                                                -> "AtomicLoad"
      [] o \in {ReqOp.AtomicSwap, ReqOp.AtomicSwapSnpMe}        -> "AtomicSwap"
      [] o \in {ReqOp.AtomicCompare, ReqOp.AtomicCompareSnpMe}  -> "AtomicCompare"
      [] OTHER                                                  -> "Error"
toCHI(o) ==
    LET exact == {x \in Reads \cup Dataless \cup (Writes \ {"WriteBackFull", "WriteCleanFull"}) :
                    ReqOp[x] = o}
    IN  CASE exact # {}                                               -> CHOOSE x \in exact : TRUE
          [] o \in {ReqOp.WriteBackFullUD, ReqOp.WriteBackFullSD}     -> "WriteBackFull"
          [] o = ReqOp.WriteCleanFullSD                               -> "WriteCleanFull"
          [] IsCCIXAtomic(o)                                          -> toCHIAtomic(o)
          [] OTHER                                                    -> "Error"

\* Normal memory is always given early write acknowledge.
ToCHIMemoryAttributes(t) ==
    [device |-> t < NonCacheable, ewa |-> t # Device_nRnE,
     endpoint |-> t \in {Device_nRE, Device_nRnE},
     cacheable |-> t \in {WBnA, WBA}, allocate |-> t = WBA]

GetCHISnpAttr(op) == op \in SnpReads \cup Dataless

(***************************************************************************)
(* Data shorter than a line: the part of the line that travels, and where  *)
(* it stands in the message, whose data has at least 8 bytes.  The data of *)
(* an AtomicCompare is half as long on the way back.                       *)
(***************************************************************************)
Align(a, n) == (a \div n) * n
CopyData(c) ==
    LET exact == c.op # "AtomicCompare" /\ c.mem.device
        al == Align(c.addr, c.size)
        len == IF exact THEN c.size - (c.addr - al) ELSE c.size
        at == IF c.op = "AtomicCompare" THEN Align(c.addr % 4, len) ELSE c.addr % 4
    IN  [from |-> (IF exact THEN c.addr ELSE al) % CachelineSz, len |-> len,
         at |-> IF len < 8 THEN at ELSE 0]
\* The byte enables of a line are filled from its data, and not from those of the
\* write: a byte that holds 0xFF is an enabled one.  Shorter data has none.
CopyByteEnables(c) == c.ones
\* The receiver derives the same window from the CCIX request.
GenerateCHIData(c) ==
    LET exact == c.op # "AtomicCompare" /\ GetReqAttrMemType(c.mem) < NonCacheable
        al == Align(c.addr, c.reqSize)
        len == IF exact THEN c.reqSize - (c.addr - al) ELSE c.reqSize
        at == c.addr % 4
    IN  [to |-> (IF exact THEN c.addr ELSE al) % CachelineSz, len |-> len,
         at |-> IF len >= 8 THEN 0 ELSE IF c.op = "AtomicCompare" THEN Align(at, len) ELSE at]
\* The responses: the messages hold no address, so the data is at their start.
GenerateCCIXData(c) ==
    LET n == IF c.op = "AtomicCompare" THEN c.reqSize \div 2 ELSE c.reqSize
        exact == c.op # "AtomicCompare" /\ c.mem.device
        al == Align(c.addr, n)
    IN  [from |-> (IF exact THEN c.addr ELSE al) % CachelineSz,
         len |-> IF exact THEN n - (c.addr - al) ELSE n]
\* The offset is that of the address, whatever has been computed before.
GenerateCHIRespData(c) ==
    LET n == IF c.op = "AtomicCompare" THEN c.size \div 2 ELSE c.size
        exact == c.op # "AtomicCompare" /\ c.mem.device
    IN  [to |-> c.addr % CachelineSz, len |-> IF exact THEN n - (c.addr - Align(c.addr, n)) ELSE n]

\* Mutant: the sub-operation of an atomic is not carried over.
SubOp_Not(op, o) == 0
SubOp(op, o) == IF op \in {"AtomicStore", "AtomicLoad"} THEN o % 8 ELSE 0

\* The size of the request is that of GetReqSize; the length of its payload is
\* that of the data, and of a line when there is none.
ccix2chi(x) ==
    LET op == toCHI(x.reqOp)
        c == [op |-> op, sub |-> SubOp(op, x.reqOp), snpMe |-> IsCCIXAtomicSnpMe(x.reqOp),
              snpAttr |-> IF IsCCIXAtomicSnpMe(x.reqOp) THEN TRUE ELSE GetCHISnpAttr(op),
              ack |-> ExpCompAck(op), mem |-> ToCHIMemoryAttributes(x.reqAttr % 8),
              addr |-> x.addr, reqSize |-> 2^(x.reqAttr \div 16), size |-> CachelineSz, ns |-> x.ns]
    IN  IF x.data = 0 \/ x.data = CachelineSz THEN c
        ELSE [c EXCEPT !.size = GenerateCHIData(c).len]

GetDatOpcode(x) ==
    IF IsCCIXAtomic(x.reqOp) \/ toCHI(x.reqOp) \notin CopyBacks
    THEN "NonCopyBackWrData" ELSE "CopyBackWrData"
toDatResp(o) ==
    CASE IsCCIXAtomic(o)                                              -> "I"
      [] o \in {ReqOp.WriteBackPtl, ReqOp.WriteBackFullUD}            -> "UD_PD"
      [] o \in {ReqOp.WriteBackFullSD, ReqOp.WriteCleanFullSD}        -> "SD_PD"
      [] o = ReqOp.WriteEvictFull                                     -> "UC"
      [] OTHER                                                        -> "I"

\* Mutant: the Comp of an Evict is taken for that of a write.
IsDataLess_NoEvict(op) == op \in Dataless \ {"Evict"}
IsDataLess(op) == op \in Dataless
GetDataLessResp(op) == IF IsDataLessWithCompAck(op) THEN "UC" ELSE "I"
IsWrite(op) == op \in Writes

(***************************************************************************)
(* Responses: pairs of RespOp and RespAttr.                                *)
(***************************************************************************)
CompDataCode == [I |-> <<1, 4>>, UC |-> <<1, 4>>, SC |-> <<1, 6>>, UD_PD |-> <<2, 5>>, SD_PD |-> <<2, 7>>]
SetResp(resp, nonStore) == IF nonStore THEN CompDataCode.UC ELSE CompDataCode[resp]
Comp == <<0, 0>>
IsComp(code) == code = Comp
GetCHIResp(code) ==
    CASE code = CompDataCode.UC    -> "UC"
      [] code = CompDataCode.SC    -> "SC"
      [] code = CompDataCode.UD_PD -> "UD_PD"
      [] code = CompDataCode.SD_PD -> "SD_PD"
      [] OTHER                     -> "Error"

(***************************************************************************)
(* Snoops.                                                                 *)
(***************************************************************************)
SnpOp == [SnpToAny |-> 0, SnpToC |-> 1, SnpToS |-> 2, SnpToI |-> 4, SnpToMakeI |-> 5]
toSnpOp(op) ==
    CASE op = "SnpOnce"                                        -> SnpOp.SnpToAny
      [] op \in {"SnpClean", "SnpShared", "SnpNotSharedDirty"} -> SnpOp.SnpToS
      [] op \in {"SnpUnique", "SnpCleanInvalid"}               -> SnpOp.SnpToI
      [] op = "SnpCleanShared"                                 -> SnpOp.SnpToC
      [] op = "SnpMakeInvalid"                                 -> SnpOp.SnpToMakeI
      [] OTHER                                                 -> Error
toCHIOpcode(o) ==
    CASE o = SnpOp.SnpToAny   -> "SnpOnce"
      [] o = SnpOp.SnpToS     -> "SnpShared"
      [] o = SnpOp.SnpToI     -> "SnpUnique"
      [] o = SnpOp.SnpToC     -> "SnpCleanShared"
      [] o = SnpOp.SnpToMakeI -> "SnpMakeInvalid"
      [] OTHER                -> "Error"

(***************************************************************************)
(* Snoop responses.  SnpResp_SD has no CCIX form.                          *)
(***************************************************************************)
SnpRespDataCode ==
    [I |-> <<0, 0>>, UC_UD |-> <<0, 4>>, SC |-> <<0, 6>>, SD |-> <<0, 7>>,
     I_PD |-> <<1, 0>>, UC_PD |-> <<1, 4>>, SC_PD |-> <<1, 6>>]
SnpRespDataPtlCode == [UC_UD |-> <<2, 5>>, I_PD |-> <<3, 0>>]
SnpRespCode == [I |-> <<4, 0>>, UC_UD |-> <<4, 4>>, SC |-> <<4, 6>>]
CompAck == <<6, 0>>

SetSnpRespData(opcode, resp) ==
    IF opcode = "SnpRespData" THEN SnpRespDataCode[resp] ELSE SnpRespDataPtlCode[resp]
SetSnpResp(resp) == SnpRespCode[resp]

ParseSnpRespData(code) ==
    IF code[1] = 0
    THEN CASE code[2] = 0 -> "I" [] code[2] = 6 -> "SC" [] code[2] \in {4, 5} -> "UC_UD"
           [] code[2] = 7 -> "SD" [] OTHER -> "Error"
    ELSE CASE code[2] = 0 -> "I_PD" [] code[2] = 4 -> "UC_PD" [] code[2] = 6 -> "SC_PD"
           [] OTHER -> "Error"
ParseSnpRespDataPtl(code) == IF code[2] = 0 THEN "I_PD" ELSE IF code[2] = 5 THEN "UC_UD" ELSE "Error"
ParseSnpResp(code) ==
    CASE code[2] = 0 -> "I" [] code[2] = 4 -> "UC_UD" [] code[2] = 6 -> "SC" [] OTHER -> "Error"
\* The CHI response that a CCIX snoop response stands for.
snp2chi(code) ==
    CASE code[1] < 2        -> [opcode |-> "SnpRespData", resp |-> ParseSnpRespData(code)]
      [] code[1] \in {2, 3} -> [opcode |-> "SnpRespDataPtl", resp |-> ParseSnpRespDataPtl(code)]
      [] code[1] = 4        -> [opcode |-> "SnpResp", resp |-> ParseSnpResp(code)]
      [] code = CompAck     -> [opcode |-> "CompAck", resp |-> "I"]
      [] OTHER              -> [opcode |-> "Error", resp |-> "Error"]
==============================================================================
