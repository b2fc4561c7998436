------------------------------ MODULE CcixFlit ------------------------------
(***************************************************************************)
(* How a tlm2cxs_bridge packs a CCIX message into the words of a TLP, cuts *)
(* the TLP into flits, and how the other bridge assembles and unpacks it   *)
(* (pkts.h, rxlink.h and txlink.h of tlm-bridges/private/ccix).            *)
(* A word is the set of its bits that are one; the data words carry their  *)
(* index only.  A TLP holds one message, without credits, message chains   *)
(* or the address bits above 31.                                           *)
(***************************************************************************)
EXTENDS CcixMsg, FiniteSetsExt

CONSTANTS FlitWords,     \* FLIT_WIDTH / 32
          MaxPktPerFlit  \* MAX_PKT_PER_FLIT

(***************************************************************************)
(* Fields: set_ and get_ of GEN_FIELD_FUNCS.                               *)
(***************************************************************************)
BitsOf(v) == {i \in 0..30 : (v \div 2^i) % 2 = 1}
Field(shift, width, v) == {shift + i : i \in BitsOf(v)}
Got(w, shift, width) == MapThenSumSet(LAMBDA i : 2^i, {i \in 0..(width - 1) : shift + i \in w})

ExtBit == 31
Header(ext, type, txn) ==
    (IF ext THEN {ExtBit} ELSE {}) \cup Field(27, 4, type) \cup Field(10, 12, txn)
WithLength(ws) == [ws EXCEPT ![1] = @ \cup Field(22, 5, Len(ws))]

MsgType == [Req |-> 1, SnpReq |-> 2, Resp |-> 9, SnpResp |-> 10, MiscUnCredited |-> 11]
CreditGrant == 1

DataWords(n) == [i \in 1..(n \div 4) |-> {ExtBit + i}]
\* PlaceBE places one bit per byte, the first bytes in the upper bits of a word.
EighthBits(g) == {8 * (3 - (g % 4)) + k : k \in 0..7}
PlaceBE(n, be) ==
    [i \in 1..((n + 31) \div 32) |-> UNION {EighthBits(g) : g \in {h \in be : h \div 4 = i - 1}}]
Eighths(n) == 0..(n \div 8 - 1)
\* ParseByteEnables steps over all bytes of byte enables but the last one, and
\* then to the next word: over nothing when there is one byte.
ParseByteEnables(n) == ((n \div 8 - 1) + 3) \div 4

HasByteEnables(o) == o \in {ReqOp.WriteNoSnpPtl, ReqOp.WriteUniquePtl, ReqOp.WriteBackPtl}
ExtType1Allowed(o) ==
    o \in {ReqOp.ReadNoSnp, ReqOp.WriteNoSnpPtl, ReqOp.WriteUniquePtl} \/ IsCCIXAtomic(o)

(***************************************************************************)
(* The messages.                                                           *)
(***************************************************************************)
AddressWords(attr, m) ==
    <<Field(24, 8, attr), Field(6, 26, m.addr \div 64) \cup (IF m.ns THEN {4} ELSE {})>>

MsgReq(m) ==
    LET ext == m.addr % 64 # 0
    IN  WithLength(
          <<Header(ext, MsgType.Req, m.txn) \cup Field(0, 8, m.reqOp)>>
          \o (IF ext THEN <<Field(28, 3, 1) \cup Field(0, 6, m.addr % 64)>> ELSE <<>>)
          \o AddressWords(m.reqAttr, m)
          \o (IF m.data > 0 /\ HasByteEnables(m.reqOp) THEN PlaceBE(m.data, m.be) ELSE <<>>)
          \o DataWords(m.data))

IsSnpRespDataPtl(type, code) == type = "SnpResp" /\ code[1] \in {2, 3}
MsgRsp(m) ==
    WithLength(
      <<Header(FALSE, MsgType[m.type], m.txn) \cup Field(4, 3, m.code[2]) \cup Field(0, 3, m.code[1])>>
      \o (IF m.data > 0 /\ IsSnpRespDataPtl(m.type, m.code) THEN PlaceBE(m.data, Eighths(m.data)) ELSE <<>>)
      \o DataWords(m.data))

MsgSnpReq(m) ==
    WithLength(<<Header(FALSE, MsgType.SnpReq, m.txn) \cup Field(0, 4, m.snpOp)>> \o AddressWords(0, m))

MsgCrdEx(m) ==
    WithLength(<<Header(FALSE, MsgType.MiscUnCredited, 0) \cup Field(16, 4, CreditGrant)
                   \cup Field(8, 8, m.grant.data) \cup Field(0, 8, m.grant.req),
                 Field(8, 8, m.grant.misc) \cup Field(0, 8, m.grant.snoop)>>)

Message(m) ==
    CASE m.type = "Req"               -> MsgReq(m)
      [] m.type = "SnpReq"            -> MsgSnpReq(m)
      [] m.type \in {"Resp", "SnpResp"} -> MsgRsp(m)
      [] m.type = "MiscUnCredited"    -> MsgCrdEx(m)

\* TLPHdr_comp
TLPHdrSize == 4
TLPHdr(m, len) ==
    <<Field(29, 3, 3) \cup Field(24, 5, 18) \cup Field(20, 3, 7) \cup Field(0, 10, len),
      Field(0, 8, 127), {}, Field(14, 6, m.tgt) \cup Field(8, 6, m.src)>>
TLP(m) == TLPHdr(m, Len(Message(m))) \o Message(m)

(***************************************************************************)
(* Unpacking.  The extension words come before the address.                *)
(***************************************************************************)
ExtractExtensions(ws) == Min({k \in 0..(Len(ws) - 1) : ExtBit \notin ws[1 + k]})
ExtAddress(ws) == IF ExtractExtensions(ws) = 0 THEN 0 ELSE Got(ws[2], 0, 6)
get_size(attr) == IF attr \div 16 >= 4 THEN 2^(attr \div 16) ELSE 8

ExtractReq(ws) ==
    LET n == ExtractExtensions(ws)
        op == Got(ws[1], 0, 8)
        attr == Got(ws[n + 2], 24, 8)
        skip == IF HasByteEnables(op) THEN ParseByteEnables(get_size(attr)) ELSE 0
        len == 4 * (Len(ws) - (n + 3) - skip)
    IN  [reqOp |-> op, txn |-> Got(ws[1], 10, 12), reqAttr |-> attr,
         addr |-> 64 * Got(ws[n + 3], 6, 20) + ExtAddress(ws), ns |-> 4 \in ws[n + 3],
         data |-> len,
         be |-> IF HasByteEnables(op) /\ len = CachelineSz
                THEN {g \in Eighths(len) : EighthBits(g) \subseteq ws[n + 4 + g \div 4]}
                ELSE Eighths(len)]
ExtractRsp(ws) ==
    LET tail == 4 * (Len(ws) - 1)
        skip == IF tail > CachelineSz THEN ParseByteEnables(CachelineSz) ELSE 0
    IN  [txn |-> Got(ws[1], 10, 12), code |-> <<Got(ws[1], 0, 3), Got(ws[1], 4, 3)>>,
         data |-> tail - 4 * skip]
ExtractSnpReq(ws) ==
    [txn |-> Got(ws[1], 10, 12), snpOp |-> Got(ws[1], 0, 4),
     addr |-> 64 * Got(ws[3], 6, 20), ns |-> 4 \in ws[3]]
ExtractCrdEx(ws) ==
    [grant |-> [req |-> Got(ws[1], 0, 8), data |-> Got(ws[1], 8, 8),
                misc |-> Got(ws[2], 8, 8), snoop |-> Got(ws[2], 0, 8)]]

\* ExtractCCIXMessages: the length of the message says where the next begins.
ExtractCCIXMessage(tlp) ==
    LET ws == SubSeq(tlp, TLPHdrSize + 1, Len(tlp))
        type == CHOOSE t \in DOMAIN MsgType : MsgType[t] = Got(ws[1], 27, 4)
        body == CASE type = "Req"                 -> ExtractReq(ws)
                  [] type = "SnpReq"              -> ExtractSnpReq(ws)
                  [] type \in {"Resp", "SnpResp"} -> ExtractRsp(ws)
                  [] type = "MiscUnCredited"      -> ExtractCrdEx(ws)
    IN  [type |-> type, len |-> Got(ws[1], 22, 5), all |-> Len(ws), body |-> body,
         tgt |-> Got(tlp[TLPHdrSize], 14, 6), src |-> Got(tlp[TLPHdrSize], 8, 6)]

(***************************************************************************)
(* Flits: a TLP begins at the start of a flit, which is marked in the      *)
(* control bits, and so is its last word.  Words that are not written keep *)
(* what the wires held.                                                    *)
(***************************************************************************)
PtrWidth(n) == CASE n = 2 -> 1 [] n = 4 -> 2 [] n = 8 -> 3 [] n = 16 -> 4 [] OTHER -> 5
StartPtrWidth == PtrWidth(FlitWords \div 4)
EndPtrWidth == PtrWidth(FlitWords)
EndBitsShift == MaxPktPerFlit + MaxPktPerFlit * StartPtrWidth
EndPtrsShift == EndBitsShift + 2 * MaxPktPerFlit

NoPtr == -1
CXSCntl(start, end) ==
    (IF start = NoPtr THEN {} ELSE {0} \cup Field(MaxPktPerFlit, StartPtrWidth, start))
    \cup (IF end = NoPtr THEN {} ELSE {EndBitsShift} \cup Field(EndPtrsShift, EndPtrWidth, end))
StartPtr(cntl) == IF 0 \in cntl THEN Got(cntl, MaxPktPerFlit, StartPtrWidth) ELSE NoPtr
EndPtr(cntl) == IF EndBitsShift \in cntl THEN Got(cntl, EndPtrsShift, EndPtrWidth) ELSE NoPtr

CreateFlit(tlp, k) ==
    [words |-> [i \in 1..FlitWords |-> IF (k - 1) * FlitWords + i <= Len(tlp)
                                       THEN tlp[(k - 1) * FlitWords + i] ELSE {}],
     cntl |-> CXSCntl(IF k = 1 THEN 0 ELSE NoPtr,
                      IF k * FlitWords >= Len(tlp) THEN Len(tlp) - 1 - (k - 1) * FlitWords ELSE NoPtr)]
Flits(m) ==
    LET tlp == TLP(m) IN
    [k \in 1..((Len(tlp) + FlitWords - 1) \div FlitWords) |-> CreateFlit(tlp, k)]

\* processRxCntl and processRxData: an assembler takes all words from the start
\* of its TLP, and those of the following flits, to the marked end.
Assembled(flits) ==
    LET last == Min({k \in DOMAIN flits : EndPtr(flits[k].cntl) # NoPtr})
        n == (last - 1) * FlitWords + EndPtr(flits[last].cntl) + 1 - 4 * StartPtr(flits[1].cntl)
    IN  [i \in 1..n |-> flits[((i - 1) \div FlitWords) + 1].words[((i - 1) % FlitWords) + 1]]

\* A message survives the link: it fits its fields and comes out as it went in.
SurvivesLink(m) ==
    LET x == ExtractCCIXMessage(Assembled(Flits(m))) IN
    /\ x.type = m.type /\ x.len = x.all
    /\ \A f \in DOMAIN x.body : x.body[f] = m[f]
    /\ m.type # "MiscUnCredited" => x.tgt = m.tgt /\ x.src = m.src
    /\ m.type = "Req" => (m.addr % 64 # 0 => ExtType1Allowed(m.reqOp))
==============================================================================
