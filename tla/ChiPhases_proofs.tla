-------------------------- MODULE ChiPhases_proofs --------------------------
(***************************************************************************)
(* No message of the CHI system meets an assertion, and the home node has  *)
(* at most one request out to the slave node: ChiSystem keeps              *)
(* MessagesAreExpected and OneSlaveRequest for every set of requesters,    *)
(* lines and words, and every load.                                        *)
(*                                                                         *)
(* The home node serves one request at a time, cur.  The invariant says    *)
(* how far it has come, and with that what is on every channel: a phase    *)
(* fixes what the requester that is being served, the requesters that are  *)
(* snooped and the slave node have sent and not yet got.  All the other    *)
(* requesters are aside: their request is on its way to the home node, is  *)
(* sent back to be retried, waits in m_reqList, or is over but for the     *)
(* last message, which an atomic of snooped data waits for in vain.        *)
(***************************************************************************)
EXTENDS ChiSystem, TLAPS, SequenceTheorems, FiniteSetTheorems

(***************************************************************************)
(* The classes of opcodes, as sets.                                        *)
(***************************************************************************)
ReadOnces    == {"ReadOnce", "ReadOnceCleanInvalid", "ReadOnceMakeInvalid"}
Fills        == {"ReadClean", "ReadNotSharedDirty", "ReadShared", "ReadUnique"}
Reading      == ReadOnces \cup Fills \cup {"ReadNoSnp"}
Upgrading    == {"CleanUnique", "MakeUnique"}
Informing    == {"CleanShared", "CleanSharedPersist", "CleanInvalid", "MakeInvalid",
                 "StashOnceUnique", "StashOnceShared", "Evict"}
CopyBacks    == {"WriteBackFull", "WriteBackPtl", "WriteCleanFull", "WriteEvictFull"}
UniqueWrites == {"WriteUniqueFull", "WriteUniquePtl", "WriteUniqueFullStash",
                 "WriteUniquePtlStash"}
Writing      == CopyBacks \cup UniqueWrites \cup {"WriteNoSnpFull", "WriteNoSnpPtl"}
\* Over when the slave node has asked for the data; over when it has answered.
Storing      == Writing \cup {"AtomicStoreADD"}
Swapping     == {"AtomicLoadADD", "AtomicSwap"}
ReqOps       == Reading \cup Upgrading \cup Informing \cup Storing \cup Swapping \cup {"DVMOp"}
Snooping     == ReadOnces \cup Fills \cup Upgrading \cup (Informing \ {"Evict"})
                  \cup UniqueWrites \cup {"AtomicStoreADD"} \cup Swapping

(***************************************************************************)
(* The shapes of functions and records, which no step changes.             *)
(***************************************************************************)
MsgFields == {"t", "st", "pd", "data", "be", "to"}
IsMsg(m) == DOMAIN m = MsgFields
ReqFields ==
    {"op", "src", "line", "ack", "data", "be", "waiting", "shared", "dirty", "hasData", "ptl",
     "fwd", "fwded", "snpResp", "snpPD", "gotSnpData", "waitAck", "ackRcvd", "waitReceipt",
     "toSNDone", "snReq", "snGot"}
SNFields == {"op", "line", "retry", "to", "receipt", "whole"}
IsReq(q) == DOMAIN q = ReqFields /\ DOMAIN q.snReq = SNFields
IsTxn(t) == DOMAIN t = {"op", "line", "data", "be", "ack", "got", "res"}
IsSeq(s) == s \in Seq({s[i] : i \in DOMAIN s})

Shape ==
    /\ DOMAIN up = Requesters /\ DOMAIN down = Requesters /\ DOMAIN txn = Requesters
    /\ DOMAIN dvm = Requesters /\ DOMAIN access = Requesters /\ DOMAIN stage = Requesters
    /\ DOMAIN want = Requesters
    /\ \A r \in Requesters : /\ DOMAIN up[r] = {"req", "rsp", "dat"}
                             /\ DOMAIN down[r] = {"rsp", "dat", "snp"}
                             /\ IsTxn(txn[r])
    /\ DOMAIN fromSN = {"rsp", "dat"}
    /\ IsReq(cur)
    /\ IsSeq(reqList) /\ IsSeq(writes) /\ IsSeq(snData)

(***************************************************************************)
(* The transactions: their opcodes, which of them are acknowledged, and    *)
(* the opcode that a core thread makes room for.                           *)
(***************************************************************************)
Acked(op, ack) ==
    /\ ack \in BOOLEAN
    /\ op \in Reading \cup Upgrading => ack
    /\ op \in ReqOps \ (Reading \cup Upgrading \cup UniqueWrites) => ~ack
TxnInv ==
    /\ mode \in Modes
    /\ \A r \in Requesters :
          /\ txn[r].op \in ReqOps \cup {"none"}
          /\ txn[r].op # "none" => Acked(txn[r].op, txn[r].ack)
          /\ txn[r].op # "none" => access[r].kind # "none"
          /\ access[r].kind # "none" => access[r] \in mode.traffic[r]
          /\ stage[r] \in {"loop", "part2", "main", "after"}
          /\ stage[r] \in {"part2", "main"} => want[r] \in ReadOnces \cup Fills \cup {"MakeUnique"}

(***************************************************************************)
(* A requester that the home node is not serving.                          *)
(***************************************************************************)
One(s) == s # <<>> /\ s = <<s[1]>>
RetryAck     == Rsp("RetryAck", "I", FALSE)
PCrdGrant    == Rsp("PCrdGrant", "I", FALSE)
CompI        == Rsp("Comp", "I", FALSE)
CompUC       == Rsp("Comp", "UC", FALSE)
DBIDResp     == Rsp("DBIDResp", "I", FALSE)
CompDBIDResp == Rsp("CompDBIDResp", "I", FALSE)
CompAck      == Rsp("CompAck", "I", FALSE)
SnpRespI     == Rsp("SnpResp", "I", FALSE)
Both == {"RetryAck", "PCrdGrant"}

Listed(r)    == \E i \in DOMAIN reqList : reqList[i].src = r
NoAnswer(r)  == down[r].rsp = <<>> /\ down[r].dat = <<>>
\* It has taken no answer to its request.
Untouched(r) == txn[r].got = {} \/ txn[r].got = Both

Free(r) == /\ txn[r].op = "none"
           /\ up[r].req = <<>> /\ NoAnswer(r) /\ ~Listed(r)
Asks(r) == /\ txn[r].op # "none" /\ Untouched(r)
           /\ up[r].req = <<Request(txn[r])>> /\ NoAnswer(r) /\ ~Listed(r)
Retried(r) ==
    /\ txn[r].op # "none"
    /\ \/ down[r].rsp = <<RetryAck, PCrdGrant>> /\ txn[r].got = {}
       \/ down[r].rsp = <<PCrdGrant>> /\ txn[r].got = {"RetryAck"}
    /\ up[r].req = <<>> /\ down[r].dat = <<>> /\ ~Listed(r)
Queued(r) == /\ txn[r].op # "none" /\ Untouched(r)
             /\ up[r].req = <<>> /\ NoAnswer(r) /\ Listed(r)
Informed(r) ==
    /\ \/ txn[r].op \in Informing /\ Untouched(r)
       \/ txn[r].op = "DVMOp" /\ "Sent" \in txn[r].got /\ "Comp" \notin txn[r].got
    /\ down[r].rsp = <<CompI>>
    /\ up[r].req = <<>> /\ down[r].dat = <<>> /\ ~Listed(r)
Replied(r) ==
    /\ txn[r].op \in Swapping /\ "Sent" \in txn[r].got /\ "Data" \notin txn[r].got
    /\ One(down[r].dat) /\ down[r].dat[1].t = "CompData" /\ IsMsg(down[r].dat[1])
    /\ up[r].req = <<>> /\ down[r].rsp = <<>> /\ ~Listed(r)
\* An atomic whose data was no answer to it: it waits on, and gets nothing more.
Abandoned(r) ==
    /\ txn[r].op \in Swapping
    /\ {"Sent", "Part"} \subseteq txn[r].got /\ "Data" \notin txn[r].got
    /\ up[r].req = <<>> /\ NoAnswer(r) /\ ~Listed(r)
Aside(r) == \/ Free(r) \/ Asks(r) \/ Retried(r) \/ Queued(r) \/ Informed(r) \/ Replied(r)
            \/ Abandoned(r)

\* It has nothing to say of what the home node is doing, and hears nothing of it.
Silent(r) == up[r].rsp = <<>> /\ up[r].dat = <<>>
Calm(r) == Silent(r) /\ down[r].snp = <<>>

(***************************************************************************)
(* The requester that is being served, and all the others.                 *)
(***************************************************************************)
src == cur.src
\* Request q is the transaction of its requester.
Serves(q, t) ==
    /\ q.src \in Requesters
    /\ q.op = t.op /\ q.line = t.line /\ q.op \in ReqOps
    /\ Acked(q.op, q.ack) /\ (q.ack <=> t.ack)
Served == /\ Serves(cur, txn[src])
          /\ up[src].req = <<>> /\ ~Listed(src) /\ down[src].snp = <<>>
Unanswered == NoAnswer(src) /\ Silent(src) /\ Untouched(src)
Others == \A r \in Requesters \ {src} : Aside(r)
OthersCalm == \A r \in Requesters \ {src} : Calm(r)

(***************************************************************************)
(* The slave node.                                                         *)
(***************************************************************************)
SNIdle == toSN = <<>> /\ fromSN.rsp = <<>> /\ fromSN.dat = <<>>
\* The next request of q to the slave node would be the first, or one that it
\* does not retry: the flags of a retry are never cleared.
MayAsk(q) == q.snGot = {} \/ (q.snGot = Both /\ snToggle)
SNAsked ==
    /\ fromSN.rsp = <<>> /\ fromSN.dat = <<>>
    /\ toSN = <<cur.snReq>> /\ MayAsk(cur) /\ (~cur.snReq.retry => cur.snGot = Both)
SNRetries ==
    /\ toSN = <<>> /\ fromSN.dat = <<>> /\ snToggle
    /\ \/ cur.snGot = {} /\ cur.snReq.retry /\ fromSN.rsp = <<RetryAck, PCrdGrant>>
       \/ cur.snGot = {"RetryAck"} /\ ~cur.snReq.retry /\ fromSN.rsp = <<PCrdGrant>>
SNBusy(op) == cur.snReq.op = op /\ (SNAsked \/ SNRetries)
SNAnswers(m) ==
    /\ toSN = <<>> /\ fromSN.dat = <<>> /\ fromSN.rsp = <<m>>
SNReturns(to) ==
    /\ toSN = <<>> /\ fromSN.rsp = <<>> /\ One(fromSN.dat)
    /\ fromSN.dat[1].t = "CompData" /\ fromSN.dat[1].to = to /\ IsMsg(fromSN.dat[1])

\* A write has its data on the way, or is waited for; only the last one can be
\* an atomic that returns data, and the home node still waits for that.
AtomicAt(i) == writes[i].op \in Swapping
NoAtomic == \A i \in DOMAIN writes : ~AtomicAt(i)
Pending == IF fromSN.rsp = <<CompDBIDResp>>
              \/ fromSN.rsp = <<DBIDResp>> THEN 1 ELSE 0
SlaveInv ==
    /\ Len(writes) = Len(snData) + Pending
    /\ \A i \in DOMAIN writes : AtomicAt(i) => i = Len(writes) /\ writes[i].to = "HN"

(***************************************************************************)
(* The phases of the request that is being served.                         *)
(***************************************************************************)
Idle ==
    /\ cur = NoReq /\ SNIdle /\ NoAtomic
    /\ \A r \in Requesters : Aside(r) /\ Calm(r)

\* Snoops are out to the ports in cur.waiting, or their answers under way.
SnoopMsg == [t |-> GetOpcode(cur.op, cur.fwd), line |-> cur.line, to |-> src]
AnswersOnRsp(r) ==
    /\ up[r].dat = <<>> /\ One(up[r].rsp)
    /\ LET m == up[r].rsp[1] IN
       /\ m.t \in {"SnpResp", "SnpRespFwded"}
       /\ m.t = "SnpRespFwded" => cur.fwd /\ m.to = src
AnswersOnDat(r) ==
    /\ up[r].rsp = <<>> /\ One(up[r].dat)
    /\ LET m == up[r].dat[1] IN
       /\ m.t \in {"SnpRespData", "SnpRespDataPtl", "SnpRespDataFwded"}
       /\ m.t = "SnpRespDataFwded" => cur.fwd /\ m.to = src
Snooped(r) ==
    \/ down[r].snp = <<SnoopMsg>> /\ Silent(r)
    \/ down[r].snp = <<>> /\ (AnswersOnRsp(r) \/ AnswersOnDat(r))
Snoops ==
    /\ cur.waiting # {} /\ cur.waiting \subseteq Requesters \ {src}
    /\ cur.op \in Snooping /\ Served /\ Unanswered /\ Others
    /\ SNIdle /\ NoAtomic
    /\ \A r \in Requesters \ {src} : IF r \in cur.waiting THEN Snooped(r) ELSE Calm(r)
    /\ cur.fwd => /\ \A r, s \in cur.waiting : r = s
                  /\ cur.op \in ReadOnces \cup Fills /\ cur.waitAck
    /\ ~cur.fwded /\ cur.snGot = {} /\ ~cur.ackRcvd /\ ~cur.waitReceipt

DVMSnp == [t |-> "SnpDVMOp", line |-> cur.line, to |-> src]
SnoopedDVM(r) ==
    \/ down[r].snp = <<DVMSnp, DVMSnp>> /\ ~dvm[r] /\ Silent(r)
    \/ down[r].snp = <<DVMSnp>> /\ dvm[r] /\ Silent(r)
    \/ down[r].snp = <<>> /\ ~dvm[r] /\ up[r].rsp = <<SnpRespI>> /\ up[r].dat = <<>>
SnoopsDVM ==
    /\ cur.waiting \subseteq Requesters \ {src}
    /\ cur.op = "DVMOp" /\ Served /\ NoAnswer(src) /\ Silent(src)
    /\ "Sent" \in txn[src].got /\ "Comp" \notin txn[src].got
    /\ Others /\ SNIdle /\ NoAtomic
    /\ \A r \in Requesters \ {src} : IF r \in cur.waiting THEN SnoopedDVM(r) ELSE Calm(r)
    /\ ~cur.hasData /\ ~cur.ackRcvd

\* No snoop is out.
Fixed == cur.waiting = {} /\ ~cur.waitReceipt

\* Dirty data of a snooped cache goes to the slave node first.
WritesBack ==
    /\ Fixed /\ cur.op \in Snooping
    /\ Served /\ Unanswered /\ Others /\ OthersCalm /\ NoAtomic
    /\ cur.gotSnpData /\ ~cur.snpPD /\ ~cur.ackRcvd /\ ~cur.fwded
    /\ \/ SNBusy("WriteNoSnpPtl") /\ (cur.snReq.retry => cur.snGot = {})
       \/ SNAnswers(CompDBIDResp) /\ MayAsk(cur)

Fetches ==
    /\ Fixed /\ cur.op \in Reading
    /\ Served /\ Unanswered /\ Others /\ OthersCalm /\ NoAtomic
    /\ ~cur.ackRcvd /\ ~cur.fwded
    /\ cur.snReq.to \in {"HN", src}
    /\ cur.snReq.to = src => cur.waitAck /\ AllowsDMT(cur)
    /\ \/ SNBusy("ReadNoSnp") /\ ~cur.snReq.receipt
       \/ SNReturns(cur.snReq.to)

\* What the requester asked for is on its way to it, or the acknowledgement back.
Forwards ==
    /\ cur.fwded /\ cur.op \in ReadOnces \cup Fills /\ Unanswered
    /\ \E e \in Requesters \ {src} :
        /\ \A r \in Requesters \ {src, e} : Calm(r)
        /\ One(up[e].dat) /\ up[e].dat[1].t = "CompData" /\ up[e].dat[1].to = src
        /\ IsMsg(up[e].dat[1])
        /\ up[e].rsp = <<>> /\ down[e].snp = <<>>
GivesData ==
    /\ cur.op \in Reading /\ OthersCalm
    /\ down[src].rsp = <<>> /\ Silent(src) /\ Untouched(src)
    /\ One(down[src].dat) /\ down[src].dat[1].t = "CompData" /\ IsMsg(down[src].dat[1])
GivesUnique ==
    /\ cur.op \in Upgrading /\ OthersCalm
    /\ down[src].dat = <<>> /\ Silent(src) /\ Untouched(src)
    /\ down[src].rsp = <<CompUC>>
Acknowledged ==
    /\ OthersCalm /\ NoAnswer(src)
    /\ up[src].dat = <<>> /\ up[src].rsp = <<CompAck>>
Gives ==
    /\ Fixed /\ cur.op \in Reading \cup Upgrading /\ cur.waitAck
    /\ Served /\ Others /\ SNIdle /\ NoAtomic /\ ~cur.ackRcvd
    /\ Forwards \/ GivesData \/ GivesUnique \/ Acknowledged

\* The requester is asked for its data, or sends it.
DBIDFor(op) == IF op \in Swapping \cup {"DVMOp"} THEN DBIDResp ELSE CompDBIDResp
DataFor(op) == IF op \in CopyBacks THEN "CopyBackWrData" ELSE "NonCopyBackWrData"
TakesData ==
    /\ Fixed /\ cur.op \in Storing \cup Swapping \cup {"DVMOp"}
    /\ Served /\ Others /\ OthersCalm /\ SNIdle /\ NoAtomic
    /\ MayAsk(cur) /\ ~cur.gotSnpData /\ ~cur.toSNDone /\ ~cur.ackRcvd
    /\ cur.ack => cur.waitAck
    /\ cur.op = "DVMOp" => ~cur.hasData
    /\ down[src].dat = <<>> /\ up[src].rsp = <<>>
    /\ \/ /\ down[src].rsp = <<DBIDFor(cur.op)>>
          /\ up[src].dat = <<>> /\ Untouched(src)
       \/ /\ down[src].rsp = <<>>
          /\ One(up[src].dat) /\ up[src].dat[1].t = DataFor(cur.op) /\ IsMsg(up[src].dat[1])
          /\ {"Comp", "Data", "Part", "Sent"} \cap txn[src].got = {}

\* An atomic is at the slave node, until its data returns.
RunsAtomic ==
    /\ Fixed /\ cur.op \in Swapping
    /\ Served /\ NoAnswer(src) /\ Silent(src) /\ Others /\ OthersCalm
    /\ "Sent" \in txn[src].got /\ {"Data", "Part"} \cap txn[src].got = {}
    /\ ~cur.gotSnpData /\ cur.snReq.to = "HN"
    /\ \/ SNBusy(cur.op) /\ NoAtomic
       \/ SNAnswers(DBIDResp) /\ writes # <<>> /\ AtomicAt(Len(writes))
       \/ SNIdle /\ writes # <<>> /\ AtomicAt(Len(writes))
       \/ SNReturns("HN") /\ NoAtomic

\* The slave node takes the data of a write.  The requester may have an
\* acknowledgement to send; otherwise it goes on with something else.
Owed == cur.ack /\ ~cur.ackRcvd
Writes ==
    /\ Fixed /\ cur.op \in Storing /\ src \in Requesters
    /\ cur.ack => cur.op \in UniqueWrites
    /\ ~cur.gotSnpData /\ NoAtomic /\ Others /\ OthersCalm /\ down[src].snp = <<>>
    /\ \/ /\ ~cur.toSNDone
          /\ \/ SNBusy("WriteNoSnpPtl") \/ SNBusy("AtomicStoreADD")
             \/ SNAnswers(CompDBIDResp)
       \/ cur.toSNDone /\ SNIdle /\ Owed
    /\ \/ /\ Owed /\ Served /\ cur.waitAck /\ NoAnswer(src)
          /\ up[src].dat = <<>> /\ up[src].rsp = <<CompAck>>
       \/ ~Owed /\ Aside(src) /\ Silent(src)

PhaseInv == \/ Idle \/ Snoops \/ SnoopsDVM \/ WritesBack \/ Fetches \/ Gives
            \/ TakesData \/ RunsAtomic \/ Writes

\* m_reqList holds the requests of the requesters that wait there, each once.
ListInv ==
    /\ \A i, j \in DOMAIN reqList : reqList[i].src = reqList[j].src => i = j
    /\ \A i \in DOMAIN reqList :
          LET q == reqList[i] IN
          /\ Serves(q, txn[q.src])
          /\ q = [NoReq EXCEPT !.op = q.op, !.src = q.src, !.line = q.line, !.ack = q.ack]

\* A requester has half of a DVM operation only while it is snooped for it.
DVMInv == \A r \in Requesters : dvm[r] => cur.op = "DVMOp" /\ r \in cur.waiting

IInv == Shape /\ TxnInv /\ PhaseInv /\ ListInv /\ DVMInv /\ SlaveInv

(***************************************************************************)
(* Sequences.                                                              *)
(***************************************************************************)
\* A sequence of one element: all of its channel that a phase looks at.
LEMMA OneIs ==
    ASSUME NEW s, NEW x, s = <<x>>
    PROVE  s # <<>> /\ Head(s) = x /\ Tail(s) = <<>> /\ Len(s) = 1 /\ s[1] = x /\ DOMAIN s = {1}
  <1>1. /\ <<x>> # <<>> /\ Head(<<x>>) = x /\ Tail(<<x>>) = <<>> /\ Len(<<x>>) = 1
        /\ <<x>>[1] = x /\ DOMAIN <<x>> = {1}
    OBVIOUS
  <1> QED BY <1>1

\* A sequence of two: the answers to a request that is retried, the halves of a
\* DVM operation.
LEMMA TwoIs ==
    ASSUME NEW s, NEW x, NEW y, s = <<x, y>>
    PROVE  s # <<>> /\ s[1] = x /\ Head(s) = x /\ Tail(s) = <<y>>
  <1>1. /\ <<x, y>> # <<>> /\ <<x, y>>[1] = x
        /\ Head(<<x, y>>) = x /\ Tail(<<x, y>>) = <<y>>
    OBVIOUS
  <1> QED BY <1>1

\* Putting a first and a second message on a channel.
LEMMA AppendIs ==
    ASSUME NEW x, NEW y
    PROVE  /\ Append(<<>>, x) = <<x>> /\ Append(<<x>>, y) = <<x, y>>
           /\ <<>> \o <<x>> = <<x>> /\ <<>> \o <<x, y>> = <<x, y>>
  <1>1. <<x>> \in Seq({x, y}) /\ <<x, y>> \in Seq({x, y})
    OBVIOUS
  <1>2. /\ Append(<<x>>, y) \in Seq({x, y})
        /\ Len(Append(<<x>>, y)) = 2 /\ Len(<<x, y>>) = 2
    BY <1>1
  <1>3. Append(<<x>>, y)[1] = x /\ Append(<<x>>, y)[2] = y
    BY <1>1
  <1>4. \A i \in 1..2 : Append(<<x>>, y)[i] = <<x, y>>[i]
    BY <1>3
  <1>5. Append(<<x>>, y) = <<x, y>>
    BY <1>1, <1>2, <1>4, SeqEqual
  <1>6. <<>> \o <<x>> = <<x>> /\ <<>> \o <<x, y>> = <<x, y>>
    OBVIOUS
  <1> QED BY <1>5, <1>6

\* The lists m_reqList, m_txn and the write data: what is in them, nothing else.
LEMMA IsSeqIs ==
    ASSUME NEW S, NEW s \in Seq(S)
    PROVE  IsSeq(s)
  BY DEF IsSeq

LEMMA SeqLen ==
    ASSUME NEW s, IsSeq(s)
    PROVE  /\ Len(s) \in Nat /\ DOMAIN s = 1..Len(s) /\ (s = <<>> <=> Len(s) = 0)
           /\ s # <<>> => Head(s) = s[1] /\ 1 \in DOMAIN s /\ Len(s) \in DOMAIN s
  BY DEF IsSeq

LEMMA SeqAppend ==
    ASSUME NEW s, IsSeq(s), NEW x
    PROVE  /\ IsSeq(Append(s, x)) /\ Len(Append(s, x)) = Len(s) + 1 /\ Append(s, x) # <<>>
           /\ DOMAIN Append(s, x) = 1..(Len(s) + 1)
           /\ Append(s, x)[Len(s) + 1] = x
           /\ \A i \in DOMAIN s : Append(s, x)[i] = s[i]
  <1> DEFINE S == {s[i] : i \in DOMAIN s} \cup {x}
  <1>1. s \in Seq(S)
    BY DEF IsSeq
  <1>2. Append(s, x) \in Seq(S)
    BY <1>1
  <1>3. IsSeq(Append(s, x))
    BY <1>2, IsSeqIs
  <1>4. /\ Len(Append(s, x)) = Len(s) + 1 /\ Append(s, x)[Len(s) + 1] = x
        /\ \A i \in 1..Len(s) : Append(s, x)[i] = s[i]
    BY <1>1
  <1>5. DOMAIN s = 1..Len(s) /\ DOMAIN Append(s, x) = 1..Len(Append(s, x)) /\ Len(s) \in Nat
    BY <1>1, <1>2
  <1>6. Append(s, x) # <<>>
    BY <1>4, <1>5
  <1> QED BY <1>3, <1>4, <1>5, <1>6

LEMMA SeqTail ==
    ASSUME NEW s, IsSeq(s), s # <<>>
    PROVE  /\ IsSeq(Tail(s)) /\ Len(Tail(s)) = Len(s) - 1
           /\ DOMAIN Tail(s) = 1..(Len(s) - 1)
           /\ \A i \in 1..(Len(s) - 1) : Tail(s)[i] = s[i + 1]
  <1> DEFINE S == {s[i] : i \in DOMAIN s}
  <1>1. s \in Seq(S)
    BY DEF IsSeq
  <1>2. Tail(s) \in Seq(S) /\ Len(Tail(s)) = Len(s) - 1
    BY <1>1
  <1>3. \A i \in 1..(Len(s) - 1) : Tail(s)[i] = s[i + 1]
    BY <1>1
  <1>4. DOMAIN Tail(s) = 1..Len(Tail(s))
    BY <1>2
  <1>5. IsSeq(Tail(s))
    BY <1>2, IsSeqIs
  <1> QED BY <1>2, <1>3, <1>4, <1>5

(***************************************************************************)
(* Opcodes.                                                                *)
(***************************************************************************)
LEMMA Classes ==
    ASSUME NEW op
    PROVE  /\ IsRead(op) <=> op \in Reading
           /\ IsSnpRead(op) <=> op \in ReadOnces \cup Fills
           /\ AllocatesCacheLine(op) <=> op \in Fills
           /\ IsDataLess(op) <=> op \in Upgrading \cup Informing
           /\ IsCopyBack(op) <=> op \in CopyBacks
           /\ IsWriteUnique(op) <=> op \in UniqueWrites
           /\ IsWrite(op) <=> op \in Writing
           /\ IsAtomicStore(op) <=> op = "AtomicStoreADD"
           /\ IsAtomicNonStore(op) <=> op \in Swapping
           /\ IsAtomic(op) <=> op \in Swapping \cup {"AtomicStoreADD"}
           /\ IsRequest(op) <=> op \in ReqOps
           /\ op \in ReqOps => (GetSnpAttr(op) /\ IsSnoopingReq(op) <=> op \in Snooping)
  BY DEF IsRead, IsSnpRead, IsReadOnce, AllocatesCacheLine, IsDataLess, IsCacheMaintenance,
         IsStashOnce, IsCopyBack, IsWriteUnique, IsWrite, IsAtomicStore, IsAtomicNonStore,
         IsAtomic, IsRequest, GetSnpAttr, IsSnoopingReq, ReadOnces, Fills, Reading, Upgrading,
         Informing, CopyBacks, UniqueWrites, Writing, Storing, Swapping, ReqOps, Snooping

(***************************************************************************)
(* Steps that a requester takes while it is aside.                         *)
(***************************************************************************)
\* A requester whose part of the state stays as it is.
Rests(r) == /\ up'[r] = up[r] /\ down'[r] = down[r] /\ txn'[r] = txn[r] /\ dvm'[r] = dvm[r]
            /\ Listed(r)' <=> Listed(r)

LEMMA AsideStays ==
    ASSUME NEW r, txn'[r] = txn[r], up'[r].req = up[r].req, down'[r].rsp = down[r].rsp,
           down'[r].dat = down[r].dat, Listed(r)' <=> Listed(r)
    PROVE  Aside(r)' <=> Aside(r)
  BY DEF Aside, Free, Asks, Retried, Queued, Informed, Replied, Abandoned, NoAnswer, Untouched, One

\* What the fields of a message are.
LEMMA MsgIs ==
    ASSUME NEW t, NEW st, NEW pd, NEW data, NEW be, NEW to
    PROVE  LET m == Msg(t, st, pd, data, be, to) IN
           /\ m.t = t /\ m.st = st /\ m.pd = pd /\ m.data = data /\ m.be = be /\ m.to = to
           /\ IsMsg(m)
  BY DEF Msg, IsMsg, MsgFields

LEMMA Answers ==
    /\ RetryAck.t = "RetryAck" /\ PCrdGrant.t = "PCrdGrant"
    /\ CompI.t = "Comp" /\ CompI.st = "I" /\ CompUC.t = "Comp" /\ CompUC.st = "UC"
    /\ DBIDResp.t = "DBIDResp" /\ CompDBIDResp.t = "CompDBIDResp" /\ CompAck.t = "CompAck"
    /\ SnpRespI.t = "SnpResp" /\ SnpRespI.st = "I"
  BY DEF RetryAck, PCrdGrant, CompI, CompUC, DBIDResp, CompDBIDResp, CompAck, SnpRespI, Rsp, Msg

\* The requester that is being served is not aside, except one whose write is
\* at the slave node.
LEMMA ServedIsNotAside ==
    ASSUME PhaseInv, Aside(src)
    PROVE  Idle \/ (Writes /\ ~Owed)
  <1>1. Served => txn[src].op = cur.op /\ cur.op \in ReqOps /\ cur.op # "none"
                  /\ up[src].req = <<>> /\ ~Listed(src)
    BY DEF Served, Serves, ReqOps, Reading, Upgrading, Informing, Storing, Writing, Swapping,
           ReadOnces, Fills, CopyBacks, UniqueWrites
  <1>2. Served => Retried(src) \/ Informed(src) \/ Replied(src) \/ Abandoned(src)
    BY <1>1 DEF Aside, Free, Asks, Queued
  <1>3. Retried(src) => down[src].rsp # <<>> /\ down[src].rsp[1].t \in {"RetryAck", "PCrdGrant"}
    <2>1. Retried(src) => down[src].rsp = <<RetryAck, PCrdGrant>> \/ down[src].rsp = <<PCrdGrant>>
      BY DEF Retried
    <2>2. down[src].rsp = <<RetryAck, PCrdGrant>> =>
             down[src].rsp # <<>> /\ down[src].rsp[1].t = "RetryAck"
      BY Answers
    <2>3. down[src].rsp = <<PCrdGrant>> =>
             down[src].rsp # <<>> /\ down[src].rsp[1].t = "PCrdGrant"
      BY Answers
    <2> QED BY <2>1, <2>2, <2>3
  <1>4. Informed(src) => /\ down[src].rsp # <<>> /\ down[src].rsp[1].t = "Comp"
                         /\ txn[src].op \in Informing \cup {"DVMOp"}
    BY Answers, OneIs DEF Informed
  <1>5. Replied(src) => down[src].dat # <<>> /\ txn[src].op \in Swapping /\ down[src].rsp = <<>>
    BY DEF Replied, One
  <1>5a. Abandoned(src) => /\ NoAnswer(src) /\ ~Untouched(src)
                           /\ {"Sent", "Part"} \subseteq txn[src].got
                           /\ txn[src].op \in Swapping
    BY DEF Abandoned, Untouched, Both
  <1>6. ~(Served /\ NoAnswer(src)) \/ Abandoned(src)
    BY <1>2, <1>3, <1>4, <1>5 DEF NoAnswer
  <1>7. ~Snoops /\ ~SnoopsDVM /\ ~WritesBack /\ ~Fetches /\ ~RunsAtomic
    <2>1. ~Snoops /\ ~WritesBack /\ ~Fetches
      BY <1>6, <1>5a DEF Snoops, WritesBack, Fetches, Unanswered
    <2>2. ~SnoopsDVM
      BY <1>1, <1>6, <1>5a DEF SnoopsDVM, Swapping
    <2>3. ~RunsAtomic
      BY <1>6, <1>5a DEF RunsAtomic
    <2> QED BY <2>1, <2>2, <2>3
  <1>8. ~Gives
    <2>1. ASSUME Gives PROVE FALSE
      <3>1. Served /\ (Forwards \/ GivesData \/ GivesUnique \/ Acknowledged)
        BY <2>1 DEF Gives
      <3>2. ~Forwards /\ ~Acknowledged
        BY <2>1, <3>1, <1>1, <1>5a, <1>6
           DEF Gives, Forwards, Acknowledged, Unanswered, Upgrading, Reading, ReadOnces, Fills,
               Swapping
      <3>3. ~GivesData
        BY <3>1, <1>1, <1>2, <1>3, <1>4, <1>5, <1>5a
           DEF GivesData, Reading, Swapping, ReadOnces, Fills, NoAnswer, One
      <3>4. ~GivesUnique
        <4>1. GivesUnique => /\ down[src].rsp[1].t = "Comp" /\ cur.op \in Upgrading
                             /\ down[src].rsp # <<>>
          BY Answers, OneIs DEF GivesUnique
        <4> QED BY <4>1, <3>1, <1>1, <1>2, <1>3, <1>4, <1>5, <1>5a
                DEF Upgrading, Informing, NoAnswer
      <3> QED BY <3>1, <3>2, <3>3, <3>4
    <2> QED BY <2>1
  <1>9. ~TakesData
    <2>1. ASSUME TakesData PROVE FALSE
      <3>1. Served /\ down[src].rsp # <<>> /\ down[src].rsp = <<DBIDFor(cur.op)>>
        BY <2>1, <1>5a, <1>6 DEF TakesData, NoAnswer
      <3>2. down[src].rsp[1].t \in {"DBIDResp", "CompDBIDResp"}
        BY <3>1, Answers, OneIs DEF DBIDFor
      <3> QED BY <3>1, <3>2, <1>2, <1>3, <1>4, <1>5, <1>5a DEF NoAnswer
    <2> QED BY <2>1
  <1>10. Writes => ~Owed
    BY <1>1, <1>5a, <1>6
       DEF Writes, Storing, Writing, CopyBacks, UniqueWrites, Swapping
  <1> QED BY <1>7, <1>8, <1>9, <1>10 DEF PhaseInv

\* What a step leaves alone that no requester takes part in.
Undisturbed == UNCHANGED <<cur, toSN, fromSN, writes, snData, snToggle>>

LEMMA SlaveStays ==
    ASSUME Undisturbed
    PROVE  /\ SNIdle' <=> SNIdle
           /\ NoAtomic' <=> NoAtomic
           /\ \A op : SNBusy(op)' <=> SNBusy(op)
           /\ \A m : SNAnswers(m)' <=> SNAnswers(m)
           /\ \A to : SNReturns(to)' <=> SNReturns(to)
           /\ MayAsk(cur)' <=> MayAsk(cur)
           /\ src' = src /\ SnoopMsg' = SnoopMsg /\ DVMSnp' = DVMSnp
           /\ Owed' <=> Owed
  BY DEF Undisturbed, SNIdle, NoAtomic, AtomicAt, SNBusy, SNAsked, SNRetries, SNAnswers,
         SNReturns, MayAsk, src, SnoopMsg, DVMSnp, Owed, One

LEMMA ServedStays ==
    ASSUME cur' = cur, src \in Requesters => Rests(src)
    PROVE  Served => Served' /\ (Unanswered => Unanswered') /\ (Silent(src) => Silent(src)')
  BY DEF Rests, Served, Unanswered, Silent, NoAnswer, Untouched, src, Serves

\* A requester that is aside, and stays aside, does not move the one that is
\* being served.
LEMMA AsideStep ==
    ASSUME PhaseInv, Undisturbed, NEW r \in Requesters, Aside(r), Aside(r)',
           \A q \in Requesters \ {r} : Rests(q),
           up'[r].rsp = up[r].rsp, up'[r].dat = up[r].dat, down'[r].snp = down[r].snp,
           dvm'[r] = dvm[r]
    PROVE  PhaseInv'
  <1>1. \A q \in Requesters : Aside(q) => Aside(q)'
    <2>1. \A q \in Requesters \ {r} : Aside(q) => Aside(q)'
      BY AsideStays DEF Rests
    <2> QED BY <2>1
  <1>2. \A q \in Requesters : (Calm(q) => Calm(q)') /\ (Silent(q) => Silent(q)')
    BY DEF Calm, Silent, Rests
  <1>3. cur' = cur /\ src' = src
    BY DEF Undisturbed, src
  <1>4. (Others => Others') /\ (OthersCalm => OthersCalm')
    BY <1>1, <1>2, <1>3 DEF Others, OthersCalm
  <1>5. CASE Idle
    BY <1>5, <1>1, <1>2, <1>3, SlaveStays DEF Idle, PhaseInv
  <1>6. CASE Writes /\ ~Owed
    <2>1. src \in Requesters /\ down'[src].snp = down[src].snp
      BY <1>6 DEF Writes, Rests
    <2> QED BY <1>6, <1>1, <1>2, <1>3, <1>4, <2>1, SlaveStays DEF Writes, Fixed, PhaseInv
  <1>7. CASE ~Idle /\ ~(Writes /\ ~Owed)
    <2>1. r # src
      BY <1>7, ServedIsNotAside
    <2>2. src \in Requesters => Rests(src)
      BY <2>1
    <2>3. (Served => Served') /\ (Unanswered /\ Served => Unanswered')
      BY <1>3, <2>2, ServedStays
    <2>4. Served => /\ up'[src] = up[src] /\ down'[src] = down[src] /\ txn'[src] = txn[src]
                    /\ NoAnswer(src)' <=> NoAnswer(src)
                    /\ Silent(src)' <=> Silent(src)
                    /\ Untouched(src)' <=> Untouched(src)
      <3>1. Served => up'[src] = up[src] /\ down'[src] = down[src] /\ txn'[src] = txn[src]
        BY <2>2 DEF Rests, Served, Serves, src
      <3> QED BY <1>3, <3>1 DEF NoAnswer, Silent, Untouched
    <2>5. CASE Snoops
      <3>1. \A q \in Requesters : Snooped(q) => Snooped(q)'
        BY <1>3, SlaveStays DEF Snooped, Silent, AnswersOnRsp, AnswersOnDat, Rests, One
      <3> QED BY <2>5, <2>3, <1>2, <1>3, <1>4, <3>1, SlaveStays DEF Snoops, PhaseInv
    <2>6. CASE SnoopsDVM
      <3>1. \A q \in Requesters : SnoopedDVM(q) => SnoopedDVM(q)'
        BY <1>3, SlaveStays DEF SnoopedDVM, Silent, Rests
      <3> QED BY <2>6, <2>3, <2>4, <1>2, <1>3, <1>4, <3>1, SlaveStays DEF SnoopsDVM, PhaseInv
    <2>7. CASE WritesBack
      BY <2>7, <2>3, <1>3, <1>4, SlaveStays DEF WritesBack, Fixed, PhaseInv
    <2>8. CASE Fetches
      BY <2>8, <2>3, <1>3, <1>4, SlaveStays DEF Fetches, Fixed, AllowsDMT, PhaseInv
    <2>9. CASE Gives
      <3>1. Served /\ Served' /\ Others' /\ SNIdle' /\ NoAtomic'
        BY <2>9, <2>3, <1>4, SlaveStays DEF Gives
      <3>2. Forwards => Forwards'
        <4>1. ASSUME Forwards, NEW e \in Requesters \ {src},
                     One(up[e].dat), up[e].dat[1].t = "CompData", up[e].dat[1].to = src,
                     IsMsg(up[e].dat[1]), up[e].rsp = <<>>, down[e].snp = <<>>
              PROVE  /\ One(up'[e].dat) /\ up'[e].dat[1].t = "CompData"
                     /\ up'[e].dat[1].to = src'
                     /\ IsMsg(up'[e].dat[1]) /\ up'[e].rsp = <<>> /\ down'[e].snp = <<>>
          BY <4>1, <1>3 DEF Rests, One
        <4> QED BY <4>1, <1>2, <1>3, <2>3, <3>1 DEF Forwards, IsMsg
      <3>3. GivesData => GivesData'
        BY <1>3, <1>4, <2>4, <3>1 DEF GivesData, IsMsg, One
      <3>4. GivesUnique => GivesUnique'
        BY <1>3, <1>4, <2>4, <3>1 DEF GivesUnique
      <3>5. Acknowledged => Acknowledged'
        BY <1>3, <1>4, <2>4, <3>1 DEF Acknowledged
      <3> QED BY <2>9, <1>3, <3>1, <3>2, <3>3, <3>4, <3>5 DEF Gives, Fixed, PhaseInv
    <2>10. CASE TakesData
      BY <2>10, <2>3, <2>4, <1>3, <1>4, SlaveStays DEF TakesData, Fixed, IsMsg, One, PhaseInv
    <2>11. CASE RunsAtomic
      BY <2>11, <2>3, <2>4, <1>3, <1>4, SlaveStays
         DEF RunsAtomic, Fixed, AtomicAt, Undisturbed, PhaseInv
    <2>12. CASE Writes
      BY <2>12, <1>7, <2>3, <2>4, <1>3, <1>4, SlaveStays DEF Writes, Fixed, PhaseInv
    <2> QED BY <1>7, <2>5, <2>6, <2>7, <2>8, <2>9, <2>10, <2>11, <2>12 DEF PhaseInv
  <1> QED BY <1>5, <1>6, <1>7

LEMMA NoneIsNoReq == "none" \notin ReqOps /\ NoReq.op = "none" /\ NoReq.src = "HN"
  BY DEF ReqOps, Reading, Upgrading, Informing, Storing, Writing, Swapping, ReadOnces, Fills,
         CopyBacks, UniqueWrites, NoReq

\* A requester without a transaction is aside, with nothing on its channels.
LEMMA NoTxnIsFree ==
    ASSUME PhaseInv, NEW r \in Requesters, txn[r].op = "none"
    PROVE  Free(r)
  <1>1. Aside(r) => Free(r)
    BY DEF Aside, Asks, Retried, Queued, Informed, Replied, Abandoned, Informing, Swapping
  <1>2. ~(Served /\ r = src)
    BY NoneIsNoReq DEF Served, Serves
  <1>3. Idle \/ (Served /\ Others) \/ (Others /\ Aside(src))
    BY DEF PhaseInv, Snoops, SnoopsDVM, WritesBack, Fetches, Gives, TakesData, RunsAtomic, Writes
  <1>4. Aside(r)
    BY <1>2, <1>3 DEF Idle, Others
  <1> QED BY <1>1, <1>4

\* The waiting requests are as they were if no requester that waits changes its
\* transaction.
LEMMA ListStays ==
    ASSUME ListInv, reqList' = reqList,
           \A r \in Requesters : Listed(r) => txn'[r] = txn[r]
    PROVE  ListInv'
  <1>1. \A i \in DOMAIN reqList : Serves(reqList[i], txn'[reqList[i].src])
    BY DEF ListInv, Listed, Serves
  <1> QED BY <1>1 DEF ListInv, Serves

\* A step of a requester that is aside: the invariant holds after it if the
\* requester is aside still.
LEMMA LocalStep ==
    ASSUME IInv, Shape', TxnInv', NEW r \in Requesters, Aside(r), Aside(r)',
           Undisturbed, UNCHANGED <<reqList, dvm>>, Listed(r) => txn'[r] = txn[r],
           \A q \in Requesters \ {r} : up'[q] = up[q] /\ down'[q] = down[q] /\ txn'[q] = txn[q],
           up'[r].rsp = up[r].rsp, up'[r].dat = up[r].dat, down'[r].snp = down[r].snp
    PROVE  IInv'
  <1>1. \A q : Listed(q)' <=> Listed(q)
    BY DEF Listed
  <1>2. \A q \in Requesters \ {r} : Rests(q)
    BY <1>1 DEF Rests
  <1>3. PhaseInv'
    BY <1>2, AsideStep DEF IInv
  <1>4. ListInv'
    BY ListStays DEF IInv
  <1>5. DVMInv'
    BY DEF IInv, DVMInv, Undisturbed
  <1>6. SlaveInv'
    BY DEF IInv, SlaveInv, Undisturbed, Pending, AtomicAt
  <1> QED BY <1>3, <1>4, <1>5, <1>6 DEF IInv

(***************************************************************************)
(* The core thread.                                                        *)
(***************************************************************************)
LEMMA StartStep ==
    ASSUME IInv, NEW r \in Requesters, Start(r)
    PROVE  IInv'
  <1>1. /\ UNCHANGED <<up, down, toSN, snData, fromSN, stage, want, txn, dvm, mode>>
        /\ UNCHANGED <<reqList, cur, writes, snToggle>>
        /\ access[r].kind = "none"
        /\ \E o \in mode.traffic[r] : access' = [access EXCEPT ![r] = o]
    BY DEF Start, Begin, channels, hnVars, snVars
  <1>2. Shape'
    BY <1>1 DEF IInv, Shape, IsTxn, IsReq, IsSeq
  <1>3. txn[r].op = "none"
    BY <1>1 DEF IInv, TxnInv
  <1>4. TxnInv'
    BY <1>1, <1>3 DEF IInv, TxnInv, Shape
  <1>5. Aside(r) /\ Aside(r)'
    <2>1. Aside(r)
      BY <1>3, NoTxnIsFree DEF IInv, Aside
    <2> QED BY <1>1, <2>1, AsideStays DEF Listed
  <1> QED BY <1>1, <1>2, <1>4, <1>5, LocalStep DEF Undisturbed

LEMMA FinishStep ==
    ASSUME IInv, NEW r \in Requesters, Running(r), Finish(r), UNCHANGED <<mode, hnVars, snVars>>
    PROVE  IInv'
  <1>1. /\ UNCHANGED <<up, down, toSN, snData, fromSN, dvm, mode, reqList, cur, writes, snToggle>>
        /\ access' = [access EXCEPT ![r] = NoOp] /\ stage' = [stage EXCEPT ![r] = "loop"]
        /\ want' = [want EXCEPT ![r] = "none"] /\ txn' = [txn EXCEPT ![r] = NoTxn]
        /\ txn[r].op = "none"
    BY DEF Finish, channels, hnVars, snVars, Running
  <1>2. NoTxn.op = "none" /\ IsTxn(NoTxn) /\ NoOp.kind = "none"
    BY DEF NoTxn, IsTxn, NoOp, Access
  <1>3. Shape'
    BY <1>1, <1>2 DEF IInv, Shape, IsTxn, IsReq, IsSeq
  <1>4. TxnInv'
    BY <1>1, <1>2 DEF IInv, TxnInv, Shape
  <1>5. Free(r)
    BY <1>1, NoTxnIsFree DEF IInv
  <1>6. Free(r)'
    BY <1>1, <1>2, <1>5 DEF Free, NoAnswer, Listed, IInv, Shape
  <1>7. /\ \A q \in Requesters \ {r} : txn'[q] = txn[q]
        /\ ~Listed(r)
    BY <1>1, <1>5 DEF IInv, Shape, Free
  <1> QED BY <1>1, <1>3, <1>4, <1>5, <1>6, <1>7, LocalStep DEF Undisturbed, Aside

\* What NewTxn puts into the transaction, and Request into the request.
LEMMA NewTxnIs ==
    ASSUME NEW r, NEW op, NEW ack
    PROVE  /\ NewTxn(r, op, ack).op = op /\ NewTxn(r, op, ack).ack = ack
           /\ NewTxn(r, op, ack).got = {} /\ IsTxn(NewTxn(r, op, ack))
  BY DEF NewTxn, NoTxn, IsTxn

LEMMA AckIs ==
    ASSUME NEW op \in ReqOps, NEW ack \in ExpCompAck(op)
    PROVE  Acked(op, ack)
  BY Classes DEF ExpCompAck, Acked, Reading, Upgrading, UniqueWrites

LEMMA IssueStep ==
    ASSUME IInv, NEW r \in Requesters, Running(r), NEW op \in ReqOps,
           NEW next \in {"loop", "part2", "main", "after"}, Issue(r, op, next),
           DOMAIN want' = Requesters, \A q \in Requesters \ {r} : want'[q] = want[q],
           next \in {"part2", "main"} => want'[r] \in ReadOnces \cup Fills \cup {"MakeUnique"},
           UNCHANGED <<mode, hnVars, snVars>>
    PROVE  IInv'
  <1>1. /\ UNCHANGED <<down, toSN, snData, fromSN, access, dvm, mode, reqList, cur, writes, snToggle>>
        /\ stage' = [stage EXCEPT ![r] = next] /\ txn[r].op = "none" /\ access[r].kind # "none"
    BY DEF Issue, hnVars, snVars, Running
  <1>2. PICK ack \in ExpCompAck(op) :
           /\ txn' = [txn EXCEPT ![r] = NewTxn(r, op, ack)]
           /\ up' = Put(up, r, "req", Request(NewTxn(r, op, ack)))
    BY DEF Issue
  <1>3. PICK t : t = NewTxn(r, op, ack)
    OBVIOUS
  <1>4. t.op = op /\ t.ack = ack /\ t.got = {} /\ IsTxn(t) /\ Acked(t.op, t.ack) /\ t.op # "none"
    BY <1>3, NewTxnIs, AckIs, NoneIsNoReq
  <1>5. Free(r)
    BY <1>1, NoTxnIsFree DEF IInv
  <1>6. /\ DOMAIN up' = Requesters /\ DOMAIN up'[r] = DOMAIN up[r]
        /\ \A q \in Requesters \ {r} : up'[q] = up[q]
        /\ up'[r].req = <<Request(t)>> /\ up'[r].rsp = up[r].rsp /\ up'[r].dat = up[r].dat
    BY <1>2, <1>3, <1>5, AppendIs DEF IInv, Shape, Put, Free
  <1>7. /\ DOMAIN txn' = Requesters /\ txn'[r] = t
        /\ \A q \in Requesters \ {r} : txn'[q] = txn[q]
    BY <1>2, <1>3 DEF IInv, Shape
  <1>8. Shape'
    <2>1. \A q \in Requesters : DOMAIN up'[q] = DOMAIN up[q] /\ IsTxn(txn'[q])
      BY <1>4, <1>6, <1>7 DEF IInv, Shape
    <2> QED BY <1>1, <1>6, <1>7, <2>1 DEF IInv, Shape, IsReq, IsSeq
  <1>9. TxnInv'
    BY <1>1, <1>4, <1>7 DEF IInv, TxnInv, Shape
  <1>10. Asks(r)' /\ ~Listed(r)
    BY <1>1, <1>4, <1>5, <1>6, <1>7 DEF Asks, Untouched, NoAnswer, Listed, Free
  <1> QED BY <1>1, <1>5, <1>6, <1>7, <1>8, <1>9, <1>10, LocalStep DEF Undisturbed, Aside

LEMMA EvictStep ==
    ASSUME IInv, NEW r \in Requesters, Running(r), EvictLine(r),
           DOMAIN want' = Requesters, \A q \in Requesters \ {r} : want'[q] = want[q],
           want'[r] \in ReadOnces \cup Fills \cup {"MakeUnique"},
           UNCHANGED <<mode, hnVars, snVars>>
    PROVE  IInv'
  <1>1. PICK v \in Victim(r) : Issue(r, v, "main")
    BY DEF EvictLine
  <1>2. v \in ReqOps
    BY DEF Victim, ReqOps, Storing, Writing, CopyBacks, Informing
  <1> QED BY <1>1, <1>2, IssueStep

LEMMA WantedStep ==
    ASSUME IInv, NEW r \in Requesters, Running(r), NEW w, IssueWanted(r, w),
           w \in ReadOnces \cup Fills \cup {"MakeUnique"},
           DOMAIN want' = Requesters, \A q \in Requesters \ {r} : want'[q] = want[q],
           UNCHANGED <<mode, hnVars, snVars>>
    PROVE  IInv'
  <1>1. PICK next \in {"loop", "after"} : Issue(r, w, next)
    BY DEF IssueWanted
  <1>2. w \in ReqOps
    BY DEF ReqOps, Reading, Upgrading
  <1> QED BY <1>1, <1>2, IssueStep

LEMMA FetchStep ==
    ASSUME IInv, NEW r \in Requesters, Running(r), NEW w, Fetch(r, w),
           w \in ReadOnces \cup Fills \cup {"MakeUnique"}, UNCHANGED <<mode, hnVars, snVars>>
    PROVE  IInv'
  <1>1. /\ DOMAIN want' = Requesters /\ \A q \in Requesters \ {r} : want'[q] = want[q]
        /\ want'[r] = w
    BY DEF Fetch, IInv, Shape
  <1>2. IssueWanted(r, w) \/ Issue(r, "WriteCleanFull", "part2") \/ EvictLine(r)
    BY DEF Fetch
  <1>3. "WriteCleanFull" \in ReqOps
    BY DEF ReqOps, Storing, Writing, CopyBacks
  <1> QED BY <1>1, <1>2, <1>3, IssueStep, EvictStep, WantedStep

LEMMA RunStep ==
    ASSUME IInv, NEW r \in Requesters, Run(r)
    PROVE  IInv'
  <1>1. UNCHANGED <<mode, hnVars, snVars>>
    BY DEF Run
  <1>2. DOMAIN want = Requesters
    BY DEF IInv, Shape
  <1>3. Running(r)
    BY DEF Run, StoreHit, LoadHit, LoadMiss, StoreShared, StoreMiss, Direct, EvictCleaned,
           RoomMade, Complete, At
  <1>4. CASE StoreHit(r) \/ LoadHit(r) \/ Complete(r)
    BY <1>1, <1>3, <1>4, FinishStep DEF StoreHit, LoadHit, Complete
  <1>5. CASE LoadMiss(r)
    <2>1. PICK w \in mode.reads : Fetch(r, w)
      BY <1>5 DEF LoadMiss
    <2>2. w \in ReadOnces \cup Fills
      BY TrafficAssumption, Classes DEF IInv, TxnInv
    <2> QED BY <1>1, <1>3, <2>1, <2>2, FetchStep
  <1>6. CASE StoreShared(r)
    <2>1. Issue(r, "CleanUnique", "loop") /\ want' = want
      BY <1>6 DEF StoreShared
    <2>2. "CleanUnique" \in ReqOps
      BY DEF ReqOps, Upgrading
    <2> QED BY <1>1, <1>2, <1>3, <2>1, <2>2, IssueStep
  <1>7. CASE StoreMiss(r)
    <2>1. CASE \E w \in {"MakeUnique", "ReadUnique"} : Fetch(r, w)
      <3>1. "ReadUnique" \in Fills
        BY DEF Fills
      <3> QED BY <1>1, <1>3, <2>1, <3>1, FetchStep
    <2>2. CASE want' = want /\ \E w \in WriteUniques(access[r]) : Issue(r, w, "after")
      <3>1. WriteUniques(access[r]) \subseteq ReqOps
        BY DEF WriteUniques, ReqOps, Storing, Writing, UniqueWrites
      <3> QED BY <1>1, <1>2, <1>3, <2>2, <3>1, IssueStep
    <2> QED BY <1>7, <2>1, <2>2 DEF StoreMiss
  <1>8. CASE Direct(r)
    <2>1. /\ want' = want /\ ~IsLoad(access[r]) /\ ~IsStore(access[r])
          /\ \E w \in IF access[r].kind = "WriteNoSnp" THEN WriteUniques(access[r])
                      ELSE {access[r].kind} : Issue(r, w, "after")
      BY <1>8 DEF Direct
    <2>2. WriteUniques(access[r]) \subseteq ReqOps
      BY DEF WriteUniques, ReqOps, Storing, Writing, UniqueWrites
    <2>3. access[r].kind = "WriteNoSnp" \/ access[r].kind \in ReqOps
      <3>1. mode \in Modes /\ access[r] \in mode.traffic[r]
        BY <1>3 DEF IInv, TxnInv, Running
      <3>2. r \in Outside => IsRequest(access[r].kind) \/ access[r].kind = "WriteNoSnp"
        BY <3>1, TrafficAssumption
      <3>3. r \in Caches => \/ IsAtomic(access[r].kind)
                            \/ access[r].kind \in {"ReadNoSnp", "WriteNoSnp", "DVMOp"}
        BY <2>1, <3>1, TrafficAssumption DEF IsCached
      <3> QED BY <3>2, <3>3, Classes
              DEF Requesters, ReqOps, Reading, Storing, Swapping
    <2> QED BY <1>1, <1>2, <1>3, <2>1, <2>2, <2>3, IssueStep
  <1>9. CASE EvictCleaned(r)
    <2>1. stage[r] = "part2" /\ want' = want /\ (EvictLine(r) \/ IssueWanted(r, want[r]))
      BY <1>9 DEF EvictCleaned, At
    <2>2. want[r] \in ReadOnces \cup Fills \cup {"MakeUnique"}
      BY <2>1 DEF IInv, TxnInv
    <2> QED BY <1>1, <1>2, <1>3, <2>1, <2>2, EvictStep, WantedStep
  <1>10. CASE RoomMade(r)
    <2>1. stage[r] = "main" /\ want' = want /\ IssueWanted(r, want[r])
      BY <1>10 DEF RoomMade, At
    <2> QED BY <1>1, <1>2, <1>3, <2>1, WantedStep DEF IInv, TxnInv
  <1> QED BY <1>4, <1>5, <1>6, <1>7, <1>8, <1>9, <1>10 DEF Run

(***************************************************************************)
(* The request, and its answers to a requester that is aside.              *)
(***************************************************************************)
LEMMA AsksIs ==
    ASSUME PhaseInv, NEW r \in Requesters, up[r].req # <<>>
    PROVE  Asks(r)
  <1>1. Aside(r) => Asks(r)
    BY DEF Aside, Free, Retried, Queued, Informed, Replied, Abandoned
  <1>2. ~(Served /\ r = src)
    BY DEF Served
  <1>3. Idle \/ (Served /\ Others) \/ (Others /\ Aside(src))
    BY DEF PhaseInv, Snoops, SnoopsDVM, WritesBack, Fetches, Gives, TakesData, RunsAtomic, Writes
  <1> QED BY <1>1, <1>2, <1>3 DEF Idle, Others

\* The request in the list: fields of a new ReqTxn.
NewReq(t, r) == [NoReq EXCEPT !.op = t.op, !.src = r, !.line = t.line, !.ack = t.ack]

LEMMA NewReqIs ==
    ASSUME NEW t, NEW r \in Requesters, t.op \in ReqOps, Acked(t.op, t.ack)
    PROVE  /\ NewReq(t, r).src = r /\ Serves(NewReq(t, r), t)
           /\ NewReq(t, r) = [NoReq EXCEPT !.op = NewReq(t, r).op, !.src = NewReq(t, r).src,
                                           !.line = NewReq(t, r).line, !.ack = NewReq(t, r).ack]
  <1>1. /\ NewReq(t, r).op = t.op /\ NewReq(t, r).src = r /\ NewReq(t, r).line = t.line
        /\ NewReq(t, r).ack = t.ack
    BY DEF NewReq, NoReq
  <1> QED BY <1>1 DEF NewReq, Serves

LEMMA SendReqStep ==
    ASSUME IInv, NEW r \in Requesters, up[r].req # <<>>, SendReq(r)
    PROVE  IInv'
  <1> DEFINE t == txn[r]
             m == Request(t)
  <1>1. Asks(r)
    BY AsksIs DEF IInv
  <1>2. Head(up[r].req) = m /\ Tail(up[r].req) = <<>>
    BY <1>1, OneIs DEF Asks
  <1>3. /\ up' = Drop(up, r, "req") /\ UNCHANGED <<txn, dvm, access, stage, want, mode>>
        /\ UNCHANGED <<toSN, snData, fromSN, cur, writes, snToggle>>
        /\ \/ /\ m.retry /\ ~toggle[r] /\ down' = ReplyRetry(r) /\ UNCHANGED reqList
           \/ /\ down' = down
              /\ reqList' = Append(reqList, [NoReq EXCEPT !.op = m.op, !.src = r,
                                                          !.line = m.line, !.ack = m.ack])
    BY <1>2 DEF SendReq, TransmitReq, RxReq, rnVars, snVars
  <1>4. /\ DOMAIN up' = Requesters /\ DOMAIN up'[r] = DOMAIN up[r]
        /\ \A q \in Requesters \ {r} : up'[q] = up[q]
        /\ up'[r].req = <<>> /\ up'[r].rsp = up[r].rsp /\ up'[r].dat = up[r].dat
    BY <1>2, <1>3 DEF IInv, Shape, Drop
  <1>5. t.op \in ReqOps /\ Acked(t.op, t.ack)
    BY <1>1 DEF IInv, TxnInv, Asks
  <1>6. m.op = t.op /\ m.line = t.line /\ m.ack = t.ack /\ (m.retry => "RetryAck" \notin t.got)
    BY DEF Request
  <1>7. TxnInv'
    BY <1>3 DEF IInv, TxnInv
  <1>8. CASE m.retry /\ ~toggle[r] /\ down' = ReplyRetry(r) /\ UNCHANGED reqList
    <2>1. /\ DOMAIN down' = Requesters /\ DOMAIN down'[r] = DOMAIN down[r]
          /\ \A q \in Requesters \ {r} : down'[q] = down[q]
          /\ down'[r].rsp = <<RetryAck, PCrdGrant>> /\ down'[r].dat = down[r].dat
          /\ down'[r].snp = down[r].snp
      <3>1. down' = Put(Put(down, r, "rsp", RetryAck), r, "rsp", PCrdGrant)
        BY <1>8 DEF ReplyRetry, RetryAck, PCrdGrant
      <3>2. down[r].rsp = <<>>
        BY <1>1 DEF Asks, NoAnswer
      <3> QED BY <3>1, <3>2, AppendIs DEF IInv, Shape, Put
    <2>2. t.got = {}
      BY <1>1, <1>6, <1>8 DEF Asks, Untouched, Both
    <2>3. Retried(r)'
      BY <1>1, <1>3, <1>4, <1>8, <2>1, <2>2 DEF Retried, Asks, NoAnswer, Listed
    <2>4. Shape'
      <3>1. \A q \in Requesters : DOMAIN up'[q] = DOMAIN up[q] /\ DOMAIN down'[q] = DOMAIN down[q]
        BY <1>4, <2>1
      <3> QED BY <1>3, <1>4, <1>8, <2>1, <3>1 DEF IInv, Shape, IsTxn, IsReq, IsSeq
    <2> QED BY <1>1, <1>3, <1>4, <1>7, <1>8, <2>1, <2>3, <2>4, LocalStep DEF Undisturbed, Aside
  <1>9. CASE /\ down' = down
             /\ reqList' = Append(reqList, [NoReq EXCEPT !.op = m.op, !.src = r,
                                                         !.line = m.line, !.ack = m.ack])
    <2> DEFINE n == NewReq(t, r)
    <2>1. reqList' = Append(reqList, n)
      BY <1>6, <1>9 DEF NewReq
    <2>2. n.src = r /\ Serves(n, t) /\ n = [NoReq EXCEPT !.op = n.op, !.src = n.src,
                                                         !.line = n.line, !.ack = n.ack]
      BY <1>5, NewReqIs
    <2> HIDE DEF n
    <2>3. /\ IsSeq(reqList') /\ DOMAIN reqList = 1..Len(reqList) /\ Len(reqList) \in Nat
          /\ DOMAIN reqList' = 1..(Len(reqList) + 1) /\ reqList'[Len(reqList) + 1] = n
          /\ \A i \in DOMAIN reqList : reqList'[i] = reqList[i]
      BY <2>1, SeqAppend, SeqLen DEF IInv, Shape
    <2>4. \A q : Listed(q)' <=> (Listed(q) \/ q = r)
      BY <2>2, <2>3 DEF Listed
    <2>5. Queued(r)'
      BY <1>1, <1>3, <1>4, <1>9, <2>4 DEF Queued, Asks, NoAnswer, Untouched
    <2>6. Shape'
      <3>1. \A q \in Requesters : DOMAIN up'[q] = DOMAIN up[q]
        BY <1>4
      <3> QED BY <1>3, <1>4, <1>9, <2>3, <3>1 DEF IInv, Shape, IsTxn, IsReq, IsSeq
    <2>7. PhaseInv'
      <3>1. \A q \in Requesters \ {r} : Rests(q)
        BY <1>3, <1>4, <1>9, <2>4 DEF Rests
      <3> QED BY <1>1, <1>3, <1>4, <1>9, <2>5, <3>1, AsideStep DEF IInv, Undisturbed, Aside
    <2>8. ListInv'
      <3>1. \A i \in DOMAIN reqList : reqList[i].src # r
        BY <1>1 DEF Asks, Listed
      <3>2. \A i, j \in DOMAIN reqList' : reqList'[i].src = reqList'[j].src => i = j
        <4>1. ASSUME NEW i \in DOMAIN reqList'
              PROVE  i \in DOMAIN reqList \/ (i = Len(reqList) + 1 /\ reqList'[i].src = r)
          BY <2>2, <2>3
        <4>2. \A i \in DOMAIN reqList : reqList'[i].src # r
          BY <2>3, <3>1
        <4>3. \A i, j \in DOMAIN reqList : reqList'[i].src = reqList'[j].src => i = j
          BY <2>3 DEF IInv, ListInv
        <4> QED BY <4>1, <4>2, <4>3
      <3>3. \A i \in DOMAIN reqList' :
               LET q == reqList'[i] IN
               /\ Serves(q, txn'[q.src])
               /\ q = [NoReq EXCEPT !.op = q.op, !.src = q.src, !.line = q.line, !.ack = q.ack]
        <4>1. ASSUME NEW i \in DOMAIN reqList'
              PROVE  i \in DOMAIN reqList \/ reqList'[i] = n
          BY <2>3
        <4> QED BY <1>3, <2>2, <2>3, <4>1 DEF IInv, ListInv
      <3> QED BY <3>2, <3>3 DEF ListInv, Serves
    <2>9. DVMInv' /\ SlaveInv'
      BY <1>3 DEF IInv, DVMInv, SlaveInv, Pending, AtomicAt
    <2> QED BY <1>7, <2>6, <2>7, <2>8, <2>9 DEF IInv
  <1> QED BY <1>3, <1>8, <1>9

(***************************************************************************)
(* Which phase a message on a channel belongs to.                          *)
(***************************************************************************)
\* Two requests of a phase: the one that is being served, and all the others.
LEMMA Sides ==
    ASSUME PhaseInv, NEW r \in Requesters
    PROVE  \/ Aside(r) /\ Calm(r)
           \/ Aside(r) /\ r # src /\ (Snoops \/ SnoopsDVM) /\ r \in cur.waiting
           \/ Aside(r) /\ r # src /\ Gives /\ Forwards
           \/ r = src /\ Served /\ ~Idle /\ (Writes => Owed)
  <1>1. CASE Idle
    BY <1>1 DEF Idle
  <1>2. CASE ~Idle
    <2>1. Others /\ (Served \/ Writes)
      BY <1>2 DEF PhaseInv, Snoops, SnoopsDVM, WritesBack, Fetches, Gives, TakesData, RunsAtomic,
                  Writes
    <2>2. CASE r = src
      BY <1>2, <2>1, <2>2 DEF Writes, Calm
    <2>3. CASE r # src
      <3>1. Aside(r)
        BY <2>1, <2>3 DEF Others
      <3>2. Snoops \/ SnoopsDVM => Calm(r) \/ r \in cur.waiting
        BY <2>3 DEF Snoops, SnoopsDVM
      <3>3. OthersCalm => Calm(r)
        BY <2>3 DEF OthersCalm
      <3>4. Gives => OthersCalm \/ Forwards
        BY DEF Gives, GivesData, GivesUnique, Acknowledged
      <3>5. WritesBack \/ Fetches \/ TakesData \/ RunsAtomic \/ Writes => OthersCalm
        BY DEF WritesBack, Fetches, TakesData, RunsAtomic, Writes
      <3> QED BY <1>2, <2>3, <3>1, <3>2, <3>3, <3>4, <3>5 DEF PhaseInv
    <2> QED BY <2>2, <2>3
  <1> QED BY <1>1, <1>2

\* An acknowledgement, or the answer to a snoop.
LEMMA UpRspIs ==
    ASSUME PhaseInv, NEW r \in Requesters, up[r].rsp # <<>>
    PROVE  \/ Snoops /\ r \in cur.waiting /\ down[r].snp = <<>> /\ AnswersOnRsp(r)
           \/ /\ SnoopsDVM /\ r \in cur.waiting
              /\ down[r].snp = <<>> /\ ~dvm[r] /\ up[r].rsp = <<SnpRespI>> /\ up[r].dat = <<>>
           \/ r = src /\ Gives /\ Acknowledged
           \/ r = src /\ Writes /\ Owed /\ Served /\ up[r].rsp = <<CompAck>>
  <1>1. ~Calm(r)
    BY DEF Calm, Silent
  <1>2. CASE r # src /\ Snoops /\ r \in cur.waiting
    BY <1>2 DEF Snoops, Snooped, Silent, AnswersOnDat
  <1>3. CASE r # src /\ SnoopsDVM /\ r \in cur.waiting
    BY <1>3 DEF SnoopsDVM, SnoopedDVM, Silent
  <1>4. ~(r # src /\ Gives /\ Forwards)
    BY <1>1 DEF Forwards
  <1>5. CASE r = src /\ Served /\ ~Idle /\ (Writes => Owed)
    <2>1. ~Silent(r)
      BY DEF Silent
    <2>2. ~Snoops /\ ~SnoopsDVM /\ ~WritesBack /\ ~Fetches /\ ~TakesData /\ ~RunsAtomic
      BY <1>5, <2>1 DEF Snoops, SnoopsDVM, WritesBack, Fetches, TakesData, RunsAtomic, Unanswered
    <2>3. Gives => Acknowledged
      BY <1>5, <2>1 DEF Gives, Forwards, GivesData, GivesUnique, Unanswered
    <2>4. Writes => up[r].rsp = <<CompAck>>
      BY <1>5 DEF Writes
    <2> QED BY <1>5, <2>2, <2>3, <2>4 DEF PhaseInv
  <1> QED BY <1>1, <1>2, <1>3, <1>4, <1>5, Sides

\* Write data, forwarded data, or the answer to a snoop with data.
LEMMA UpDatIs ==
    ASSUME PhaseInv, NEW r \in Requesters, up[r].dat # <<>>
    PROVE  \/ Snoops /\ r \in cur.waiting /\ down[r].snp = <<>> /\ AnswersOnDat(r)
           \/ /\ Gives /\ Forwards /\ r # src
              /\ \A q \in Requesters \ {src, r} : Calm(q)
              /\ One(up[r].dat) /\ up[r].dat[1].t = "CompData" /\ up[r].dat[1].to = src
              /\ IsMsg(up[r].dat[1]) /\ up[r].rsp = <<>> /\ down[r].snp = <<>>
           \/ /\ TakesData /\ r = src /\ down[r].rsp = <<>>
              /\ One(up[r].dat) /\ up[r].dat[1].t = DataFor(cur.op) /\ IsMsg(up[r].dat[1])
              /\ {"Comp", "Data", "Part", "Sent"} \cap txn[r].got = {}
  <1>1. ~Calm(r)
    BY DEF Calm, Silent
  <1>2. CASE r # src /\ Snoops /\ r \in cur.waiting
    BY <1>2 DEF Snoops, Snooped, Silent, AnswersOnRsp
  <1>3. ~(r # src /\ SnoopsDVM /\ r \in cur.waiting)
    BY DEF SnoopsDVM, SnoopedDVM, Silent
  <1>4. CASE r # src /\ Gives /\ Forwards
    <2>1. PICK e \in Requesters \ {src} :
              /\ \A q \in Requesters \ {src, e} : Calm(q)
              /\ One(up[e].dat) /\ up[e].dat[1].t = "CompData" /\ up[e].dat[1].to = src
              /\ IsMsg(up[e].dat[1])
              /\ up[e].rsp = <<>> /\ down[e].snp = <<>>
      BY <1>4 DEF Forwards
    <2>2. e = r
      BY <1>1, <1>4, <2>1
    <2> QED BY <1>4, <2>1, <2>2
  <1>5. CASE r = src /\ Served /\ ~Idle /\ (Writes => Owed)
    <2>1. ~Silent(r)
      BY DEF Silent
    <2>2. ~Snoops /\ ~SnoopsDVM /\ ~WritesBack /\ ~Fetches /\ ~RunsAtomic
      BY <1>5, <2>1 DEF Snoops, SnoopsDVM, WritesBack, Fetches, TakesData, RunsAtomic, Unanswered
    <2>3. ~Gives
      BY <1>5, <2>1 DEF Gives, Forwards, GivesData, GivesUnique, Acknowledged, Unanswered
    <2>4. ~Writes
      BY <1>5 DEF Writes
    <2>5. TakesData
      BY <1>5, <2>2, <2>3, <2>4 DEF PhaseInv
    <2> QED BY <1>5, <2>5 DEF TakesData, One
  <1> QED BY <1>1, <1>2, <1>3, <1>4, <1>5, Sides

\* A snoop.
LEMMA DownSnpIs ==
    ASSUME PhaseInv, NEW r \in Requesters, down[r].snp # <<>>
    PROVE  /\ r # src /\ r \in cur.waiting
           /\ \/ Snoops /\ down[r].snp = <<SnoopMsg>> /\ Silent(r)
              \/ SnoopsDVM /\ down[r].snp = <<DVMSnp, DVMSnp>> /\ ~dvm[r] /\ Silent(r)
              \/ SnoopsDVM /\ down[r].snp = <<DVMSnp>> /\ dvm[r] /\ Silent(r)
  <1>1. ~Calm(r)
    BY DEF Calm
  <1>2. ~(r = src /\ Served)
    BY DEF Served
  <1>3. ~(r # src /\ Gives /\ Forwards)
    BY <1>1 DEF Forwards
  <1>4. CASE r # src /\ Snoops /\ r \in cur.waiting
    BY <1>4 DEF Snoops, Snooped
  <1>5. CASE r # src /\ SnoopsDVM /\ r \in cur.waiting
    BY <1>5 DEF SnoopsDVM, SnoopedDVM
  <1> QED BY <1>1, <1>2, <1>3, <1>4, <1>5, Sides

\* A response to the requester that is being served, or to one that is aside.
LEMMA DownRspIs ==
    ASSUME PhaseInv, NEW r \in Requesters, down[r].rsp # <<>>
    PROVE  \/ Retried(r) \/ Informed(r)
           \/ r = src /\ Gives /\ GivesUnique
           \/ /\ r = src /\ TakesData /\ down[r].rsp = <<DBIDFor(cur.op)>>
              /\ up[r].dat = <<>> /\ Untouched(r)
  <1>1. Aside(r) => Retried(r) \/ Informed(r)
    BY DEF Aside, Free, Asks, Queued, Replied, Abandoned, NoAnswer
  <1>2. CASE r = src /\ Served /\ ~Idle /\ (Writes => Owed)
    <2>1. ~NoAnswer(r)
      BY DEF NoAnswer
    <2>2. ~Snoops /\ ~SnoopsDVM /\ ~WritesBack /\ ~Fetches /\ ~RunsAtomic
      BY <1>2, <2>1 DEF Snoops, SnoopsDVM, WritesBack, Fetches, RunsAtomic, Unanswered
    <2>3. Gives => GivesUnique
      BY <1>2, <2>1 DEF Gives, Forwards, GivesData, Acknowledged, Unanswered
    <2>4. ~Writes
      BY <1>2, <2>1 DEF Writes
    <2>5. TakesData => down[r].rsp = <<DBIDFor(cur.op)>> /\ up[r].dat = <<>> /\ Untouched(r)
      BY <1>2 DEF TakesData
    <2> QED BY <1>2, <2>2, <2>3, <2>4, <2>5 DEF PhaseInv
  <1> QED BY <1>1, <1>2, Sides

\* Data for the requester that is being served, or for one that is aside.
LEMMA DownDatIs ==
    ASSUME PhaseInv, NEW r \in Requesters, down[r].dat # <<>>
    PROVE  Replied(r) \/ (r = src /\ Gives /\ GivesData)
  <1>1. Aside(r) => Replied(r)
    BY DEF Aside, Free, Asks, Queued, Retried, Informed, Abandoned, NoAnswer
  <1>2. CASE r = src /\ Served /\ ~Idle /\ (Writes => Owed)
    <2>1. ~NoAnswer(r)
      BY DEF NoAnswer
    <2>2. ~Snoops /\ ~SnoopsDVM /\ ~WritesBack /\ ~Fetches /\ ~RunsAtomic /\ ~TakesData
      BY <1>2, <2>1 DEF Snoops, SnoopsDVM, WritesBack, Fetches, RunsAtomic, Unanswered, TakesData
    <2>3. Gives => GivesData
      BY <1>2, <2>1 DEF Gives, Forwards, GivesUnique, Acknowledged, Unanswered
    <2>4. ~Writes
      BY <1>2, <2>1 DEF Writes
    <2> QED BY <1>2, <2>2, <2>3, <2>4 DEF PhaseInv
  <1> QED BY <1>1, <1>2, Sides

\* What is on a channel to or from the slave node belongs to one of these.
LEMMA AtSlave ==
    ASSUME PhaseInv, ~SNIdle
    PROVE  /\ WritesBack \/ Fetches \/ RunsAtomic \/ Writes
           /\ cur.op \in ReqOps
  <1>1. WritesBack \/ Fetches \/ RunsAtomic \/ Writes
    BY DEF PhaseInv, Idle, Snoops, SnoopsDVM, Gives, TakesData
  <1>2. WritesBack \/ Fetches \/ RunsAtomic \/ Writes => cur.op \in ReqOps
    BY DEF WritesBack, Fetches, RunsAtomic, Writes, Served, Serves, ReqOps
  <1> QED BY <1>1, <1>2

(***************************************************************************)
(* What stays while another part of the system moves.                      *)
(***************************************************************************)
LEMMA RestsIs ==
    ASSUME NEW r, Rests(r)
    PROVE  /\ Aside(r)' <=> Aside(r)
           /\ Calm(r)' <=> Calm(r)
           /\ Silent(r)' <=> Silent(r)
           /\ NoAnswer(r)' <=> NoAnswer(r)
           /\ Untouched(r)' <=> Untouched(r)
           /\ SnoopedDVM(r) /\ cur'.line = cur.line /\ src' = src => SnoopedDVM(r)'
           /\ Snooped(r) /\ cur'.line = cur.line /\ src' = src /\ cur'.op = cur.op
                  /\ cur'.fwd = cur.fwd => Snooped(r)'
  <1>1. Aside(r)' <=> Aside(r)
    BY AsideStays DEF Rests
  <1>2. /\ Calm(r)' <=> Calm(r)
        /\ Silent(r)' <=> Silent(r)
        /\ NoAnswer(r)' <=> NoAnswer(r)
        /\ Untouched(r)' <=> Untouched(r)
    BY DEF Rests, Calm, Silent, NoAnswer, Untouched
  <1>3. SnoopedDVM(r) /\ cur'.line = cur.line /\ src' = src => SnoopedDVM(r)'
    BY <1>2 DEF Rests, SnoopedDVM, DVMSnp
  <1>4. Snooped(r) /\ cur'.line = cur.line /\ src' = src /\ cur'.op = cur.op
                  /\ cur'.fwd = cur.fwd => Snooped(r)'
    BY <1>2 DEF Rests, Snooped, SnoopMsg, AnswersOnRsp, AnswersOnDat, One
  <1> QED BY <1>1, <1>2, <1>3, <1>4

\* A transaction goes on, or is over.
LEMMA TxnStays ==
    ASSUME TxnInv, UNCHANGED <<mode, access, stage, want>>,
           \A q \in Requesters : \/ txn'[q].op = "none"
                                 \/ txn'[q].op = txn[q].op /\ txn'[q].ack = txn[q].ack
    PROVE  TxnInv'
  BY DEF TxnInv, Acked

\* The requester that is being served takes an answer, or puts a message on
\* one of its channels.
LEMMA SrcFrame ==
    ASSUME IInv, NEW r \in Requesters, r = src, Served, Undisturbed, UNCHANGED <<reqList, dvm>>,
           \A q \in Requesters \ {r} : up'[q] = up[q] /\ down'[q] = down[q] /\ txn'[q] = txn[q],
           up'[r].req = up[r].req, down'[r].snp = down[r].snp,
           txn'[r].op = txn[r].op, txn'[r].line = txn[r].line, txn'[r].ack = txn[r].ack
    PROVE  /\ Others => Others'
           /\ OthersCalm => OthersCalm'
           /\ Served' /\ cur' = cur /\ src' = src
           /\ ListInv' /\ DVMInv' /\ SlaveInv'
  <1>1. cur' = cur /\ src' = src
    BY DEF Undisturbed, src
  <1>2. \A q : Listed(q)' <=> Listed(q)
    BY DEF Listed
  <1>3. \A q \in Requesters \ {r} : Rests(q)
    BY <1>2 DEF Rests
  <1>4. (Others => Others') /\ (OthersCalm => OthersCalm')
    BY <1>1, <1>3, RestsIs DEF Others, OthersCalm
  <1>5. Served'
    BY <1>1, <1>2 DEF Served, Serves
  <1>6. ListInv'
    <2>1. \A q \in Requesters : Listed(q) => txn'[q] = txn[q]
      BY DEF Served
    <2> QED BY <2>1, ListStays DEF IInv
  <1>7. DVMInv' /\ SlaveInv'
    BY DEF IInv, DVMInv, SlaveInv, Pending, AtomicAt, Undisturbed
  <1> QED BY <1>1, <1>4, <1>5, <1>6, <1>7

(***************************************************************************)
(* Responses to a requester.                                               *)
(***************************************************************************)
LEMMA RetryStep ==
    ASSUME IInv, NEW r \in Requesters, Retried(r), RxRsp(r), UNCHANGED <<mode, hnVars, snVars>>
    PROVE  IInv'
  <1> DEFINE t == txn[r]
             m == Head(down[r].rsp)
             u == [t EXCEPT !.got = @ \cup {m.t}]
  <1>1. /\ UNCHANGED <<toSN, snData, fromSN, access, stage, want, dvm, mode, reqList, cur, writes,
                       snToggle>>
        /\ down' = Drop(down, r, "rsp")
    BY DEF RxRsp, hnVars, snVars
  <1>2. /\ DOMAIN down' = Requesters /\ DOMAIN down'[r] = DOMAIN down[r]
        /\ \A q \in Requesters \ {r} : down'[q] = down[q]
        /\ down'[r].rsp = Tail(down[r].rsp) /\ down'[r].dat = down[r].dat
        /\ down'[r].snp = down[r].snp
    BY <1>1 DEF IInv, Shape, Drop
  <1>3. \/ m = RetryAck /\ down'[r].rsp = <<PCrdGrant>> /\ t.got = {}
        \/ m = PCrdGrant /\ down'[r].rsp = <<>> /\ t.got = {"RetryAck"}
    <2>1. CASE down[r].rsp = <<RetryAck, PCrdGrant>> /\ t.got = {}
      BY <1>2, <2>1, TwoIs
    <2>2. CASE down[r].rsp = <<PCrdGrant>> /\ t.got = {"RetryAck"}
      BY <1>2, <2>2, OneIs
    <2> QED BY <2>1, <2>2 DEF Retried
  <1>4. m.t = "RetryAck" \/ m.t = "PCrdGrant"
    BY <1>3, Answers
  <1>5. /\ txn' = [txn EXCEPT ![r] = u]
        /\ up' = IF {"RetryAck", "PCrdGrant"} \subseteq u.got
                 THEN Put(up, r, "req", Request(u)) ELSE up
    BY <1>4 DEF RxRsp, HandleRetry
  <1>6. /\ DOMAIN txn' = Requesters /\ txn'[r] = u
        /\ \A q \in Requesters \ {r} : txn'[q] = txn[q]
    BY <1>5 DEF IInv, Shape
  <1>7. u.op = t.op /\ u.line = t.line /\ u.ack = t.ack /\ u.got = t.got \cup {m.t} /\ IsTxn(u)
    BY DEF IInv, Shape, IsTxn
  <1>8. TxnInv'
    BY <1>1, <1>6, <1>7, TxnStays DEF IInv
  <1> HIDE DEF u, m
  <1>9. CASE m = RetryAck /\ down'[r].rsp = <<PCrdGrant>> /\ t.got = {}
    <2>1. u.got = {"RetryAck"} /\ up' = up
      BY <1>5, <1>7, <1>9, Answers
    <2>2. Retried(r)'
      BY <1>1, <1>2, <1>6, <1>7, <1>9, <2>1 DEF Retried, Listed
    <2>3. Shape'
      <3>1. \A q \in Requesters : DOMAIN down'[q] = DOMAIN down[q] /\ IsTxn(txn'[q])
        BY <1>2, <1>6, <1>7 DEF IInv, Shape
      <3> QED BY <1>1, <1>2, <1>6, <2>1, <3>1 DEF IInv, Shape, IsReq, IsSeq
    <2> QED BY <1>1, <1>2, <1>6, <1>8, <2>1, <2>2, <2>3, LocalStep
            DEF Undisturbed, Aside, Retried
  <1>10. CASE m = PCrdGrant /\ down'[r].rsp = <<>> /\ t.got = {"RetryAck"}
    <2>1. u.got = Both /\ up' = Put(up, r, "req", Request(u))
      BY <1>5, <1>7, <1>10, Answers DEF Both
    <2>2. /\ DOMAIN up' = Requesters /\ DOMAIN up'[r] = DOMAIN up[r]
          /\ \A q \in Requesters \ {r} : up'[q] = up[q]
          /\ up'[r].req = <<Request(u)>> /\ up'[r].rsp = up[r].rsp /\ up'[r].dat = up[r].dat
      BY <2>1, AppendIs DEF IInv, Shape, Put, Retried
    <2>3. Asks(r)'
      BY <1>1, <1>2, <1>6, <1>7, <1>10, <2>1, <2>2
         DEF Asks, Untouched, Retried, Listed, NoAnswer
    <2>4. Shape'
      <3>1. \A q \in Requesters : /\ DOMAIN up'[q] = DOMAIN up[q] /\ DOMAIN down'[q] = DOMAIN down[q]
                                  /\ IsTxn(txn'[q])
        BY <1>2, <1>6, <1>7, <2>2 DEF IInv, Shape
      <3> QED BY <1>1, <1>2, <1>6, <2>2, <3>1 DEF IInv, Shape, IsReq, IsSeq
    <2> QED BY <1>1, <1>2, <1>6, <1>8, <2>2, <2>3, <2>4, LocalStep
            DEF Undisturbed, Aside, Retried
  <1> QED BY <1>3, <1>9, <1>10

LEMMA DoneIs == ASSUME NEW t PROVE Done(t).op = "none" /\ IsTxn(Done(t))
  BY DEF Done, NoTxn, IsTxn

\* The last answer to a requester that is aside.
LEMMA InformedStep ==
    ASSUME IInv, NEW r \in Requesters, Informed(r), RxRsp(r), UNCHANGED <<mode, hnVars, snVars>>
    PROVE  IInv'
  <1> DEFINE t == txn[r]
             m == Head(down[r].rsp)
  <1>1. /\ UNCHANGED <<toSN, snData, fromSN, access, stage, want, dvm, mode, reqList, cur, writes,
                       snToggle>>
        /\ down' = Drop(down, r, "rsp")
    BY DEF RxRsp, hnVars, snVars
  <1>2. m = CompI /\ Tail(down[r].rsp) = <<>>
    BY OneIs DEF Informed
  <1>3. /\ DOMAIN down' = Requesters /\ DOMAIN down'[r] = DOMAIN down[r]
        /\ \A q \in Requesters \ {r} : down'[q] = down[q]
        /\ down'[r].rsp = <<>> /\ down'[r].dat = down[r].dat
        /\ down'[r].snp = down[r].snp
    BY <1>1, <1>2 DEF IInv, Shape, Drop
  <1>4. HandleComp(r, m)
    BY <1>2, Answers DEF RxRsp
  <1>5. ~t.ack /\ (t.op = "DVMOp" => "Sent" \in t.got)
    <2>1. t.op \in Informing \cup {"DVMOp"}
      BY DEF Informed
    <2>2. t.op \in ReqOps \ (Reading \cup Upgrading \cup UniqueWrites) /\ t.op # "none"
      BY <2>1 DEF ReqOps, Reading, Upgrading, UniqueWrites, Informing, ReadOnces, Fills
    <2>3. Acked(t.op, t.ack)
      BY <2>2 DEF IInv, TxnInv
    <2>4. t.op = "DVMOp" => "Sent" \in t.got
      BY DEF Informed, Informing
    <2> QED BY <2>2, <2>3, <2>4 DEF Acked
  <1>6. up' = up /\ txn' = [txn EXCEPT ![r] = Done(t)]
    BY <1>4, <1>5 DEF HandleComp
  <1>7. /\ DOMAIN txn' = Requesters /\ txn'[r].op = "none" /\ IsTxn(txn'[r])
        /\ \A q \in Requesters \ {r} : txn'[q] = txn[q]
    BY <1>6, DoneIs DEF IInv, Shape
  <1>8. TxnInv'
    BY <1>1, <1>7, TxnStays DEF IInv
  <1>9. Free(r)'
    BY <1>1, <1>3, <1>6, <1>7 DEF Free, Informed, NoAnswer, Listed
  <1>10. Shape'
    <2>1. \A q \in Requesters : DOMAIN down'[q] = DOMAIN down[q] /\ IsTxn(txn'[q])
      BY <1>3, <1>7 DEF IInv, Shape
    <2> QED BY <1>1, <1>3, <1>6, <1>7, <2>1 DEF IInv, Shape, IsReq, IsSeq
  <1> QED BY <1>1, <1>3, <1>6, <1>7, <1>8, <1>9, <1>10, LocalStep
          DEF Undisturbed, Aside, Informed

\* Comp_UC: the requester acknowledges it.
LEMMA UniqueStep ==
    ASSUME IInv, NEW r \in Requesters, r = src, Gives, GivesUnique, RxRsp(r),
           UNCHANGED <<mode, hnVars, snVars>>
    PROVE  IInv'
  <1> DEFINE t == txn[r]
             m == Head(down[r].rsp)
  <1>1. /\ UNCHANGED <<toSN, snData, fromSN, access, stage, want, dvm, mode, reqList, cur, writes,
                       snToggle>>
        /\ down' = Drop(down, r, "rsp")
    BY DEF RxRsp, hnVars, snVars
  <1>2. m = CompUC /\ Tail(down[r].rsp) = <<>>
    BY OneIs DEF GivesUnique
  <1>3. /\ DOMAIN down' = Requesters /\ DOMAIN down'[r] = DOMAIN down[r]
        /\ \A q \in Requesters \ {r} : down'[q] = down[q]
        /\ down'[r].rsp = <<>> /\ down'[r].dat = down[r].dat
        /\ down'[r].snp = down[r].snp
    BY <1>1, <1>2 DEF IInv, Shape, Drop
  <1>4. HandleComp(r, m)
    BY <1>2, Answers DEF RxRsp
  <1>5. t.ack /\ Served
    BY DEF Gives, GivesUnique, Served, Serves, Acked, src, Upgrading, Reading
  <1>6. /\ up' = Put(up, r, "rsp", CompAck)
        /\ txn' = [txn EXCEPT ![r] = [t EXCEPT !.got = @ \cup {"Comp"}]]
    BY <1>4, <1>5 DEF HandleComp, CompAck
  <1>7. /\ DOMAIN up' = Requesters /\ DOMAIN up'[r] = DOMAIN up[r]
        /\ \A q \in Requesters \ {r} : up'[q] = up[q]
        /\ up'[r].rsp = <<CompAck>> /\ up'[r].dat = up[r].dat /\ up'[r].req = up[r].req
    BY <1>6, AppendIs DEF IInv, Shape, Put, GivesUnique, Silent
  <1>8. /\ DOMAIN txn' = Requesters /\ IsTxn(txn'[r])
        /\ txn'[r].op = t.op /\ txn'[r].line = t.line /\ txn'[r].ack = t.ack
        /\ \A q \in Requesters \ {r} : txn'[q] = txn[q]
    BY <1>6 DEF IInv, Shape, IsTxn
  <1>9. TxnInv'
    BY <1>1, <1>8, TxnStays DEF IInv
  <1>10. Shape'
    <2>1. \A q \in Requesters : /\ DOMAIN up'[q] = DOMAIN up[q] /\ DOMAIN down'[q] = DOMAIN down[q]
                                /\ IsTxn(txn'[q])
      BY <1>3, <1>7, <1>8 DEF IInv, Shape
    <2> QED BY <1>1, <1>3, <1>7, <1>8, <2>1 DEF IInv, Shape, IsReq, IsSeq
  <1>11. Undisturbed
    BY <1>1 DEF Undisturbed
  <1>12. Others' /\ OthersCalm' /\ Served' /\ cur' = cur /\ src' = src
         /\ ListInv' /\ DVMInv' /\ SlaveInv'
    BY <1>1, <1>3, <1>5, <1>7, <1>8, <1>11, SrcFrame DEF Gives, GivesUnique
  <1>13. Acknowledged'
    BY <1>3, <1>7, <1>12 DEF Acknowledged, NoAnswer, GivesUnique, Silent
  <1>14. Gives'
    BY <1>11, <1>12, <1>13, SlaveStays DEF Gives, Fixed
  <1> QED BY <1>9, <1>10, <1>12, <1>14 DEF IInv, PhaseInv

\* DBIDResp: the requester sends its data.
LEMMA DBIDStep ==
    ASSUME IInv, NEW r \in Requesters, r = src, TakesData, down[r].rsp = <<DBIDFor(cur.op)>>,
           up[r].dat = <<>>, Untouched(r), RxRsp(r), UNCHANGED <<mode, hnVars, snVars>>
    PROVE  IInv'
  <1> DEFINE t == txn[r]
             m == Head(down[r].rsp)
  <1>1. /\ UNCHANGED <<toSN, snData, fromSN, access, stage, want, dvm, mode, reqList, cur, writes,
                       snToggle>>
        /\ down' = Drop(down, r, "rsp")
    BY DEF RxRsp, hnVars, snVars
  <1>2. m = DBIDFor(cur.op) /\ Tail(down[r].rsp) = <<>>
    BY OneIs
  <1>3. /\ DOMAIN down' = Requesters /\ DOMAIN down'[r] = DOMAIN down[r]
        /\ \A q \in Requesters \ {r} : down'[q] = down[q]
        /\ down'[r].rsp = <<>> /\ down'[r].dat = down[r].dat
        /\ down'[r].snp = down[r].snp
    BY <1>1, <1>2 DEF IInv, Shape, Drop
  <1>4. HandleDBID(r)
    <2>1. m.t \in {"DBIDResp", "CompDBIDResp"}
      BY <1>2, Answers DEF DBIDFor
    <2> QED BY <2>1 DEF RxRsp
  <1>5. Served /\ t.op = cur.op
    BY DEF TakesData, Served, Serves, src
  <1>6. PICK d : /\ up' = Put(up, r, "dat", d) /\ d.t = DataFor(cur.op) /\ IsMsg(d)
    <2>1. \E st, pd, be : up' = Put(up, r, "dat", Msg(DataFor(cur.op), st, pd, t.data, be, "HN"))
      <3>1. IsCopyBack(t.op) <=> cur.op \in CopyBacks
        BY <1>5, Classes
      <3> QED BY <1>4, <3>1 DEF HandleDBID, DataFor
    <2>2. PICK st, pd, be :
             up' = Put(up, r, "dat", Msg(DataFor(cur.op), st, pd, t.data, be, "HN"))
      BY <2>1
    <2> QED BY <2>2, MsgIs
  <1>7. txn' = [txn EXCEPT ![r].got = @ \cup {"DBID"}]
    BY <1>4 DEF HandleDBID
  <1>8. /\ DOMAIN up' = Requesters /\ DOMAIN up'[r] = DOMAIN up[r]
        /\ \A q \in Requesters \ {r} : up'[q] = up[q]
        /\ up'[r].dat = <<d>> /\ up'[r].rsp = up[r].rsp /\ up'[r].req = up[r].req
    BY <1>6, AppendIs DEF IInv, Shape, Put
  <1>9. /\ DOMAIN txn' = Requesters /\ IsTxn(txn'[r])
        /\ txn'[r].op = t.op /\ txn'[r].line = t.line /\ txn'[r].ack = t.ack
        /\ txn'[r].got = t.got \cup {"DBID"}
        /\ \A q \in Requesters \ {r} : txn'[q] = txn[q]
    BY <1>7 DEF IInv, Shape, IsTxn
  <1>10. TxnInv'
    BY <1>1, <1>9, TxnStays DEF IInv
  <1>11. Shape'
    <2>1. \A q \in Requesters : /\ DOMAIN up'[q] = DOMAIN up[q] /\ DOMAIN down'[q] = DOMAIN down[q]
                                /\ IsTxn(txn'[q])
      BY <1>3, <1>8, <1>9 DEF IInv, Shape
    <2> QED BY <1>1, <1>3, <1>8, <1>9, <2>1 DEF IInv, Shape, IsReq, IsSeq
  <1>12. Undisturbed
    BY <1>1 DEF Undisturbed
  <1>13. Others' /\ OthersCalm' /\ Served' /\ cur' = cur /\ src' = src
         /\ ListInv' /\ DVMInv' /\ SlaveInv'
    BY <1>1, <1>3, <1>5, <1>8, <1>9, <1>12, SrcFrame DEF TakesData
  <1>14. /\ One(up'[r].dat) /\ up'[r].dat[1].t = DataFor(cur'.op) /\ IsMsg(up'[r].dat[1])
         /\ up'[r].rsp = <<>>
         /\ down'[r].dat = <<>> /\ down'[r].rsp = <<>>
    <2>1. up'[r].dat # <<>> /\ up'[r].dat[1] = d /\ up'[r].dat = <<up'[r].dat[1]>>
      BY <1>8, OneIs
    <2>2. cur' = cur
      BY <1>13
    <2>3. up[r].rsp = <<>> /\ down[r].dat = <<>>
      BY DEF TakesData
    <2> QED BY <1>3, <1>6, <1>8, <2>1, <2>2, <2>3 DEF One, IsMsg
  <1>15. {"Comp", "Data", "Part", "Sent"} \cap txn'[r].got = {}
    BY <1>9 DEF Untouched, Both
  <1>16. TakesData'
    BY <1>12, <1>13, <1>14, <1>15, SlaveStays DEF TakesData, Fixed, IsMsg
  <1> QED BY <1>10, <1>11, <1>13, <1>16 DEF IInv, PhaseInv

LEMMA RxRspStep ==
    ASSUME IInv, NEW r \in Requesters, RxRsp(r), UNCHANGED <<mode, hnVars, snVars>>
    PROVE  IInv'
  <1>1. down[r].rsp # <<>>
    BY DEF RxRsp
  <1> QED BY <1>1, DownRspIs, RetryStep, InformedStep, UniqueStep, DBIDStep DEF IInv

(***************************************************************************)
(* Data for a requester.                                                   *)
(***************************************************************************)
LEMMA ArrivedIs ==
    ASSUME NEW m, IsMsg(m)
    PROVE  Arrived(m).t = m.t /\ Arrived(m).to = m.to /\ IsMsg(Arrived(m))
  <1>1. PICK a : a = Arrives[<<m.data, m.be>>]
    OBVIOUS
  <1> QED BY <1>1 DEF Arrived, IsMsg, MsgFields

LEMMA ReplyStep ==
    ASSUME IInv, NEW r \in Requesters, Replied(r), NEW m, m.t = "CompData", RxDat(r, m),
           UNCHANGED <<mode, hnVars, snVars>>
    PROVE  IInv'
  <1> DEFINE t == txn[r]
             u == [t EXCEPT !.got = @ \cup {Counted(t, m)}, !.res = m.data]
  <1>1. /\ UNCHANGED <<toSN, snData, fromSN, access, stage, want, dvm, mode, reqList, cur, writes,
                       snToggle>>
        /\ down' = Drop(down, r, "dat")
    BY DEF RxDat, hnVars, snVars
  <1>2. Tail(down[r].dat) = <<>>
    BY OneIs DEF Replied, One
  <1>3. /\ DOMAIN down' = Requesters /\ DOMAIN down'[r] = DOMAIN down[r]
        /\ \A q \in Requesters \ {r} : down'[q] = down[q]
        /\ down'[r].rsp = <<>> /\ down'[r].dat = <<>>
        /\ down'[r].snp = down[r].snp
    BY <1>1, <1>2 DEF IInv, Shape, Drop, Replied
  <1>4. u.op = t.op /\ u.ack = t.ack /\ "Sent" \in u.got
    BY DEF IInv, Shape, IsTxn, Replied
  <1>5. ~t.ack /\ IsAtomic(t.op)
    <2>1. t.op \in ReqOps \ (Reading \cup Upgrading \cup UniqueWrites) /\ t.op # "none"
      BY DEF ReqOps, Reading, Upgrading, UniqueWrites, Swapping, ReadOnces, Fills, Replied
    <2>2. Acked(t.op, t.ack)
      BY <2>1 DEF IInv, TxnInv
    <2> QED BY <2>1, <2>2, Classes DEF Acked, Replied
  <1>6. up' = up /\ txn' = [txn EXCEPT ![r] = IF "Data" \in u.got THEN Done(u) ELSE u]
    <2>1. /\ up' = IF u.ack THEN Put(up, r, "rsp", Rsp("CompAck", "I", FALSE)) ELSE up
          /\ txn' = [txn EXCEPT ![r] =
                        IF u.ack \/ (IsAtomic(u.op) /\ ~({"Sent", "Data"} \subseteq u.got))
                        THEN u ELSE Done(u)]
      BY DEF RxDat
    <2> QED BY <1>4, <1>5, <2>1
  <1>11. /\ DOMAIN txn' = Requesters /\ \A q \in Requesters \ {r} : txn'[q] = txn[q]
         /\ \/ txn'[r] = Done(u)
            \/ txn'[r] = u /\ "Data" \notin u.got
    BY <1>6 DEF IInv, Shape
  <1>12. ASSUME txn'[r] = Done(u)
         PROVE  IsTxn(txn'[r]) /\ TxnInv' /\ Aside(r)'
    <2>1. txn'[r].op = "none" /\ IsTxn(txn'[r])
      BY <1>12, DoneIs
    <2>2. TxnInv'
      BY <1>1, <1>11, <2>1, TxnStays DEF IInv
    <2>3. Free(r)'
      BY <1>1, <1>3, <1>6, <2>1 DEF Free, Replied, NoAnswer, Listed
    <2> QED BY <2>1, <2>2, <2>3 DEF Aside
  <1>13. ASSUME txn'[r] = u, "Data" \notin u.got
         PROVE  IsTxn(txn'[r]) /\ TxnInv' /\ Aside(r)'
    <2>1. PICK c : c = Counted(t, m)
      OBVIOUS
    <2>2. c \in {"Part", "Data"}
      BY <2>1 DEF Counted
    <2>3. u.got = t.got \cup {c} /\ IsTxn(u)
      BY <2>1 DEF IInv, Shape, IsTxn
    <2>4. {"Sent", "Part"} \subseteq u.got
      BY <1>4, <1>13, <2>2, <2>3
    <2>5. TxnInv'
      BY <1>1, <1>4, <1>11, <1>13, <2>3, TxnStays DEF IInv
    <2>6. Abandoned(r)'
      BY <1>1, <1>3, <1>4, <1>6, <1>13, <2>4 DEF Abandoned, Replied, NoAnswer, Listed
    <2> QED BY <1>13, <2>3, <2>5, <2>6 DEF Aside
  <1>7. IsTxn(txn'[r]) /\ TxnInv' /\ Aside(r)'
    BY <1>11, <1>12, <1>13
  <1>10. Shape'
    <2>1. \A q \in Requesters : DOMAIN down'[q] = DOMAIN down[q] /\ IsTxn(txn'[q])
      BY <1>3, <1>7, <1>11 DEF IInv, Shape
    <2> QED BY <1>1, <1>3, <1>6, <1>11, <2>1 DEF IInv, Shape, IsReq, IsSeq
  <1> QED BY <1>1, <1>3, <1>6, <1>7, <1>10, <1>11, LocalStep
          DEF Undisturbed, Aside, Replied

\* CompData: the requester acknowledges it.
LEMMA DataStep ==
    ASSUME IInv, NEW r \in Requesters, r = src, Gives, GivesData, NEW m, RxDat(r, m),
           UNCHANGED <<mode, hnVars, snVars>>
    PROVE  IInv'
  <1> DEFINE t == txn[r]
             u == [t EXCEPT !.got = @ \cup {Counted(t, m)}, !.res = m.data]
  <1>1. /\ UNCHANGED <<toSN, snData, fromSN, access, stage, want, dvm, mode, reqList, cur, writes,
                       snToggle>>
        /\ down' = Drop(down, r, "dat")
    BY DEF RxDat, hnVars, snVars
  <1>2. Tail(down[r].dat) = <<>>
    BY OneIs DEF GivesData, One
  <1>3. /\ DOMAIN down' = Requesters /\ DOMAIN down'[r] = DOMAIN down[r]
        /\ \A q \in Requesters \ {r} : down'[q] = down[q]
        /\ down'[r].rsp = <<>> /\ down'[r].dat = <<>>
        /\ down'[r].snp = down[r].snp
    BY <1>1, <1>2 DEF IInv, Shape, Drop, GivesData
  <1>4. t.ack /\ Served
    BY DEF Gives, GivesData, Served, Serves, Acked, src
  <1>5. u.op = t.op /\ u.line = t.line /\ u.ack = t.ack /\ IsTxn(u)
    BY DEF IInv, Shape, IsTxn
  <1>6. up' = Put(up, r, "rsp", CompAck) /\ txn' = [txn EXCEPT ![r] = u]
    <2>1. /\ up' = IF u.ack THEN Put(up, r, "rsp", Rsp("CompAck", "I", FALSE)) ELSE up
          /\ txn' = [txn EXCEPT ![r] =
                        IF u.ack \/ (IsAtomic(u.op) /\ ~({"Sent", "Data"} \subseteq u.got))
                        THEN u ELSE Done(u)]
      BY DEF RxDat
    <2> QED BY <1>4, <1>5, <2>1 DEF CompAck
  <1> HIDE DEF u
  <1>7. /\ DOMAIN up' = Requesters /\ DOMAIN up'[r] = DOMAIN up[r]
        /\ \A q \in Requesters \ {r} : up'[q] = up[q]
        /\ up'[r].rsp = <<CompAck>> /\ up'[r].dat = up[r].dat /\ up'[r].req = up[r].req
    BY <1>6, AppendIs DEF IInv, Shape, Put, GivesData, Silent
  <1>8. /\ DOMAIN txn' = Requesters /\ IsTxn(txn'[r])
        /\ txn'[r].op = t.op /\ txn'[r].line = t.line /\ txn'[r].ack = t.ack
        /\ \A q \in Requesters \ {r} : txn'[q] = txn[q]
    BY <1>5, <1>6 DEF IInv, Shape
  <1>9. TxnInv'
    BY <1>1, <1>8, TxnStays DEF IInv
  <1>10. Shape'
    <2>1. \A q \in Requesters : /\ DOMAIN up'[q] = DOMAIN up[q] /\ DOMAIN down'[q] = DOMAIN down[q]
                                /\ IsTxn(txn'[q])
      BY <1>3, <1>7, <1>8 DEF IInv, Shape
    <2> QED BY <1>1, <1>3, <1>7, <1>8, <2>1 DEF IInv, Shape, IsReq, IsSeq
  <1>11. Undisturbed
    BY <1>1 DEF Undisturbed
  <1>12. Others' /\ OthersCalm' /\ Served' /\ cur' = cur /\ src' = src
         /\ ListInv' /\ DVMInv' /\ SlaveInv'
    BY <1>1, <1>3, <1>4, <1>7, <1>8, <1>11, SrcFrame DEF Gives, GivesData
  <1>13. Acknowledged'
    BY <1>3, <1>7, <1>12 DEF Acknowledged, NoAnswer, GivesData, Silent
  <1>14. Gives'
    BY <1>11, <1>12, <1>13, SlaveStays DEF Gives, Fixed
  <1> QED BY <1>9, <1>10, <1>12, <1>14 DEF IInv, PhaseInv

LEMMA RxDatStep ==
    ASSUME IInv, NEW r \in Requesters, down[r].dat # <<>>,
           RxDat(r, Arrived(Head(down[r].dat))), UNCHANGED <<mode, hnVars, snVars>>
    PROVE  IInv'
  <1>1. CASE Replied(r)
    <2>1. IsMsg(Head(down[r].dat)) /\ Head(down[r].dat).t = "CompData"
      BY <1>1, OneIs DEF Replied, One, IsMsg
    <2> QED BY <1>1, <2>1, ArrivedIs, ReplyStep
  <1>2. CASE r = src /\ Gives /\ GivesData
    BY <1>2, DataStep
  <1> QED BY <1>1, <1>2, DownDatIs DEF IInv

(***************************************************************************)
(* Snoops.                                                                 *)
(***************************************************************************)
PlainSnoops == {"SnpOnce", "SnpClean", "SnpShared", "SnpNotSharedDirty", "SnpUnique",
                "SnpCleanShared", "SnpCleanInvalid", "SnpMakeInvalid", "SnpUniqueStash",
                "SnpMakeInvalidStash", "SnpStashUnique", "SnpStashShared"}
OnDat == {"SnpRespData", "SnpRespDataPtl", "SnpRespDataFwded"}

LEMMA SnoopIs ==
    ASSUME NEW op \in Snooping
    PROVE  /\ GetOpcode(op, FALSE) \in PlainSnoops
           /\ GetOpcode(op, TRUE) \in PlainSnoops \cup FwdSnoops
           /\ op \notin ReadOnces \cup Fills => GetOpcode(op, TRUE) \notin FwdSnoops
  <1>1. SnoopOf(op) \in PlainSnoops /\ (IsAtomic(op) => SnoopOf(op) = "SnpUnique")
    BY Classes DEF SnoopOf, PlainSnoops, Snooping, ReadOnces, Fills, Upgrading, Informing,
                   UniqueWrites, Swapping
  <1>2. FwdOf(SnoopOf(op)) \in PlainSnoops \cup FwdSnoops
    BY <1>1 DEF FwdOf, PlainSnoops, FwdSnoops
  <1>3. ASSUME op \notin ReadOnces \cup Fills, ~IsAtomic(op)
        PROVE  FwdOf(SnoopOf(op)) = SnoopOf(op)
    BY <1>3, Classes DEF SnoopOf, FwdOf, Snooping, ReadOnces, Fills, Upgrading, Informing,
                         UniqueWrites, Swapping
  <1>4. PlainSnoops \cap FwdSnoops = {}
    BY DEF PlainSnoops, FwdSnoops
  <1>5. GetOpcode(op, FALSE) = SnoopOf(op)
        /\ GetOpcode(op, TRUE) = IF IsAtomic(op) THEN SnoopOf(op) ELSE FwdOf(SnoopOf(op))
    BY DEF GetOpcode
  <1> QED BY <1>1, <1>2, <1>3, <1>4, <1>5

\* Only a forwarding snoop is answered with Fwded.
LEMMA SnpReplyIs ==
    ASSUME NEW snp, NEW l, NEW st
    PROVE  /\ SnpReply(snp, l, st).t \in OnRsp \cup OnDat
           /\ snp \in PlainSnoops =>
                 SnpReply(snp, l, st).t \in {"SnpResp", "SnpRespData", "SnpRespDataPtl"}
  <1>1. \A k, s : /\ SnpResp(k, s).t = "SnpResp"
                  /\ \A p : SnpRespData(k, s, p).t = "SnpRespData"
                  /\ \A p : SnpRespDataPtl(k, s, p).t = "SnpRespDataPtl"
    BY DEF SnpResp, SnpRespData, SnpRespDataPtl, Reply
  <1>2. \A k, s, f, p : /\ SnpRespFwded(k, s, f, p).t = "SnpRespFwded"
                        /\ SnpRespDataFwded(k, s, f, p).t = "SnpRespDataFwded"
    BY DEF SnpRespFwded, SnpRespDataFwded, Reply
  <1>3. HandleSnpOnce(l, st).t \in {"SnpResp", "SnpRespData", "SnpRespDataPtl"}
    BY <1>1 DEF HandleSnpOnce
  <1>4. HandleSnpClean(l, st).t \in {"SnpResp", "SnpRespData", "SnpRespDataPtl"}
    BY DEF HandleSnpClean, SnpResp, SnpRespData, SnpRespDataPtl, Reply
  <1>5. HandleSnpUnique(l, st).t \in {"SnpResp", "SnpRespData", "SnpRespDataPtl"}
    BY <1>1 DEF HandleSnpUnique
  <1>6. HandleSnpCleanShared(l, st).t \in {"SnpResp", "SnpRespData", "SnpRespDataPtl"}
    BY <1>1 DEF HandleSnpCleanShared
  <1>7. HandleSnpCleanInvalid(l, st).t \in {"SnpResp", "SnpRespData", "SnpRespDataPtl"}
    BY <1>1 DEF HandleSnpCleanInvalid
  <1>8. HandleSnpMakeInvalid(l, st).t = "SnpResp"
    BY <1>1 DEF HandleSnpMakeInvalid
  <1>9. HandleSnpUniqueStash(l, st).t \in {"SnpResp", "SnpRespData", "SnpRespDataPtl"}
    <2>1. HandleSnpUniqueStash(l, st).t = HandleSnpCleanInvalid(l, st).t
      BY DEF HandleSnpUniqueStash, HandleSnpCleanInvalid, SnpResp, SnpRespData, SnpRespDataPtl, Reply
    <2> QED BY <1>7, <2>1
  <1>10. HandleSnpMakeInvalidStash(l, st).t = "SnpResp"
    BY DEF HandleSnpMakeInvalidStash, HandleSnpMakeInvalid, SnpResp, Reply
  <1>11. HandleSnpStashUnique(l, st).t = "SnpResp" /\ HandleSnpStashShared(l, st).t = "SnpResp"
    BY DEF HandleSnpStashUnique, HandleSnpStashShared, SnpResp, Reply
  <1>12. HandleSnpOnceFwd(l, st).t \in OnRsp \cup OnDat
    BY <1>1, <1>2 DEF HandleSnpOnceFwd, OnRsp, OnDat
  <1>13. HandleSnpCleanFwd(l, st).t \in OnRsp \cup OnDat
    BY <1>1, <1>2 DEF HandleSnpCleanFwd, OnRsp, OnDat
  <1>14. HandleSnpUniqueFwd(l, st).t \in OnRsp \cup OnDat
    BY <1>1, <1>2 DEF HandleSnpUniqueFwd, OnRsp, OnDat
  <1>15. snp \in PlainSnoops =>
            SnpReply(snp, l, st).t \in {"SnpResp", "SnpRespData", "SnpRespDataPtl"}
    BY <1>3, <1>4, <1>5, <1>6, <1>7, <1>8, <1>9, <1>10, <1>11 DEF SnpReply, PlainSnoops
  <1>16. snp \notin PlainSnoops => SnpReply(snp, l, st).t \in OnRsp \cup OnDat
    BY <1>12, <1>13, <1>14 DEF SnpReply, PlainSnoops, HandleSnpNotSharedDirtyFwd,
                               HandleSnpSharedFwd
  <1> QED BY <1>15, <1>16 DEF OnRsp, OnDat

\* A requester that is not being served takes a snoop, or puts its answer on a
\* channel.
LEMMA PortFrame ==
    ASSUME IInv, NEW r \in Requesters, r # src, Aside(r), Undisturbed, UNCHANGED <<reqList, txn>>,
           \A q \in Requesters \ {r} : up'[q] = up[q] /\ down'[q] = down[q] /\ dvm'[q] = dvm[q],
           up'[r].req = up[r].req, down'[r].rsp = down[r].rsp, down'[r].dat = down[r].dat
    PROVE  /\ Others => Others'
           /\ Served => Served' /\ (Unanswered => Unanswered')
                        /\ (NoAnswer(src) => NoAnswer(src)') /\ (Silent(src) => Silent(src)')
           /\ cur' = cur /\ src' = src
           /\ \A q \in Requesters \ {r} : Rests(q)
           /\ ListInv' /\ SlaveInv'
  <1>1. cur' = cur /\ src' = src
    BY DEF Undisturbed, src
  <1>2. \A q : Listed(q)' <=> Listed(q)
    BY DEF Listed
  <1>3. \A q \in Requesters \ {r} : Rests(q)
    BY <1>2 DEF Rests
  <1>4. Aside(r)'
    BY <1>2, AsideStays
  <1>5. Others => Others'
    BY <1>1, <1>3, <1>4, RestsIs DEF Others
  <1>6. Served => Served' /\ (Unanswered => Unanswered')
                  /\ (NoAnswer(src) => NoAnswer(src)') /\ (Silent(src) => Silent(src)')
    <2>1. Served => Served' /\ (Unanswered => Unanswered')
      BY <1>1, <1>3, ServedStays
    <2>2. Served => Rests(src)
      BY <1>3 DEF Served, Serves, src
    <2>3. Served => (NoAnswer(src) => NoAnswer(src)') /\ (Silent(src) => Silent(src)')
      BY <1>1, <2>2 DEF Rests, NoAnswer, Silent
    <2> QED BY <2>1, <2>3
  <1>7. ListInv'
    BY ListStays DEF IInv
  <1>8. SlaveInv'
    BY DEF IInv, SlaveInv, Pending, AtomicAt, Undisturbed
  <1> QED BY <1>1, <1>3, <1>5, <1>6, <1>7, <1>8

LEMMA SnoopStep ==
    ASSUME IInv, NEW r \in Requesters, r # src, r \in cur.waiting, Snoops,
           down[r].snp = <<SnoopMsg>>, Silent(r), RxSnp(r), UNCHANGED <<mode, hnVars, snVars>>
    PROVE  IInv'
  <1>1. /\ UNCHANGED <<toSN, snData, fromSN, access, stage, want, txn, mode, reqList, cur, writes,
                       snToggle>>
        /\ down' = Drop(down, r, "snp")
    BY DEF RxSnp, hnVars, snVars
  <1>2. Head(down[r].snp) = SnoopMsg /\ Tail(down[r].snp) = <<>>
    BY OneIs
  <1>3. /\ DOMAIN down' = Requesters /\ DOMAIN down'[r] = DOMAIN down[r]
        /\ \A q \in Requesters \ {r} : down'[q] = down[q]
        /\ down'[r].rsp = down[r].rsp /\ down'[r].dat = down[r].dat
        /\ down'[r].snp = <<>>
    BY <1>1, <1>2 DEF IInv, Shape, Drop
  <1>4. cur.op \in Snooping /\ SnoopMsg.t = GetOpcode(cur.op, cur.fwd) /\ SnoopMsg.to = src
    BY DEF Snoops, SnoopMsg
  <1>5. /\ SnoopMsg.t # "SnpDVMOp"
        /\ ~cur.fwd => SnoopMsg.t \in PlainSnoops
    <2>1. "SnpDVMOp" \notin PlainSnoops \cup FwdSnoops
      BY DEF PlainSnoops, FwdSnoops
    <2>2. cur.fwd => GetOpcode(cur.op, cur.fwd) = GetOpcode(cur.op, TRUE)
      BY DEF GetOpcode
    <2>3. ~cur.fwd => GetOpcode(cur.op, cur.fwd) = GetOpcode(cur.op, FALSE)
      BY DEF GetOpcode
    <2> QED BY <1>4, <2>1, <2>2, <2>3, SnoopIs
  <1>6. HandleSnp(r, SnoopMsg)
    BY <1>2, <1>5 DEF RxSnp
  <1>7. PICK a : /\ a = IF InCache(r, SnoopMsg.line, FALSE)
                        THEN SnpReply(SnoopMsg.t, line[r], GetStatus(line[r]))
                        ELSE SnpResp(line[r], "I")
                 /\ up' = Put(up, r, IF a.t \in OnRsp THEN "rsp" ELSE "dat",
                              [t |-> a.t, st |-> a.st, pd |-> a.pd, to |-> SnoopMsg.to,
                               fst |-> a.fst, fpd |-> a.fpd, pull |-> a.pull])
                 /\ dvm' = dvm
    BY <1>6 DEF HandleSnp
  <1>8. /\ a.t \in OnRsp \cup OnDat
        /\ ~cur.fwd => a.t \in {"SnpResp", "SnpRespData", "SnpRespDataPtl"}
    <2>1. SnpResp(line[r], "I").t = "SnpResp"
      BY DEF SnpResp, Reply
    <2> QED BY <1>5, <1>7, <2>1, SnpReplyIs DEF OnRsp
  <1>9. PICK x : /\ up' = Put(up, r, IF a.t \in OnRsp THEN "rsp" ELSE "dat", x)
                 /\ x.t = a.t /\ x.to = src
    <2> DEFINE x == [t |-> a.t, st |-> a.st, pd |-> a.pd, to |-> SnoopMsg.to,
                     fst |-> a.fst, fpd |-> a.fpd, pull |-> a.pull]
    <2>1. x.t = a.t /\ x.to = SnoopMsg.to
      OBVIOUS
    <2>2. up' = Put(up, r, IF a.t \in OnRsp THEN "rsp" ELSE "dat", x)
      BY <1>7
    <2> HIDE DEF x
    <2> QED BY <1>4, <2>1, <2>2
  <1>10. /\ DOMAIN up' = Requesters /\ DOMAIN up'[r] = DOMAIN up[r]
         /\ \A q \in Requesters \ {r} : up'[q] = up[q]
         /\ up'[r].req = up[r].req
         /\ a.t \in OnRsp => up'[r].rsp = <<x>> /\ up'[r].dat = up[r].dat
         /\ a.t \notin OnRsp => up'[r].dat = <<x>> /\ up'[r].rsp = up[r].rsp
    <2>1. Append(up[r].rsp, x) = <<x>> /\ Append(up[r].dat, x) = <<x>>
      BY AppendIs DEF Silent
    <2>2. CASE a.t \in OnRsp
      BY <1>9, <2>1, <2>2 DEF IInv, Shape, Put
    <2>3. CASE a.t \notin OnRsp
      BY <1>9, <2>1, <2>3 DEF IInv, Shape, Put
    <2> QED BY <2>2, <2>3
  <1>11. TxnInv'
    BY <1>1 DEF IInv, TxnInv
  <1>12. Shape'
    <2>1. \A q \in Requesters : DOMAIN up'[q] = DOMAIN up[q] /\ DOMAIN down'[q] = DOMAIN down[q]
      BY <1>3, <1>10 DEF IInv, Shape
    <2>2. dvm' = dvm
      BY <1>7
    <2> QED BY <1>1, <1>3, <1>10, <2>1, <2>2 DEF IInv, Shape, IsReq, IsSeq, IsTxn
  <1>13. Undisturbed
    BY <1>1 DEF Undisturbed
  <1>14. Aside(r)
    BY DEF Snoops, Others
  <1>15. /\ Others' /\ Served' /\ Unanswered' /\ cur' = cur /\ src' = src
         /\ \A q \in Requesters \ {r} : Rests(q)
         /\ ListInv' /\ SlaveInv'
    BY <1>1, <1>3, <1>7, <1>10, <1>13, <1>14, PortFrame DEF Snoops
  <1>16. DVMInv'
    BY <1>7, <1>15 DEF IInv, DVMInv
  <1>17. AnswersOnRsp(r)' \/ AnswersOnDat(r)'
    <2>1. CASE a.t \in OnRsp
      <3>1. up'[r].rsp # <<>> /\ up'[r].rsp[1] = x /\ up'[r].rsp = <<up'[r].rsp[1]>>
        BY <1>10, <2>1, OneIs
      <3>2. up'[r].dat = <<>>
        BY <1>10, <2>1 DEF Silent
      <3> QED BY <1>8, <1>9, <1>15, <2>1, <3>1, <3>2 DEF AnswersOnRsp, One, OnRsp
    <2>2. CASE a.t \notin OnRsp
      <3>1. up'[r].dat # <<>> /\ up'[r].dat[1] = x /\ up'[r].dat = <<up'[r].dat[1]>>
        BY <1>10, <2>2, OneIs
      <3>2. up'[r].rsp = <<>>
        BY <1>10, <2>2 DEF Silent
      <3> QED BY <1>8, <1>9, <1>15, <2>2, <3>1, <3>2 DEF AnswersOnDat, One, OnDat
    <2> QED BY <2>1, <2>2
  <1>18. Snooped(r)'
    BY <1>3, <1>17 DEF Snooped
  <1>19. \A q \in Requesters \ {r} : (Snooped(q) => Snooped(q)') /\ (Calm(q) => Calm(q)')
    BY <1>15, RestsIs
  <1>20. Snoops'
    BY <1>13, <1>15, <1>18, <1>19, SlaveStays DEF Snoops
  <1> QED BY <1>11, <1>12, <1>15, <1>16, <1>20 DEF IInv, PhaseInv

\* One packet of a DVM operation.
LEMMA DVMSnoopStep ==
    ASSUME IInv, NEW r \in Requesters, r # src, r \in cur.waiting, SnoopsDVM,
           \/ down[r].snp = <<DVMSnp, DVMSnp>> /\ ~dvm[r]
           \/ down[r].snp = <<DVMSnp>> /\ dvm[r],
           Silent(r), RxSnp(r), UNCHANGED <<mode, hnVars, snVars>>
    PROVE  IInv'
  <1>1. /\ UNCHANGED <<toSN, snData, fromSN, access, stage, want, txn, mode, reqList, cur, writes,
                       snToggle>>
        /\ down' = Drop(down, r, "snp")
    BY DEF RxSnp, hnVars, snVars
  <1>2. /\ Head(down[r].snp) = DVMSnp
        /\ ~dvm[r] => Tail(down[r].snp) = <<DVMSnp>>
        /\ dvm[r] => Tail(down[r].snp) = <<>>
    <2>1. CASE down[r].snp = <<DVMSnp, DVMSnp>> /\ ~dvm[r]
      BY <2>1, TwoIs
    <2>2. CASE down[r].snp = <<DVMSnp>> /\ dvm[r]
      BY <2>2, OneIs
    <2> QED BY <2>1, <2>2
  <1>3. /\ DOMAIN down' = Requesters /\ DOMAIN down'[r] = DOMAIN down[r]
        /\ \A q \in Requesters \ {r} : down'[q] = down[q]
        /\ down'[r].rsp = down[r].rsp /\ down'[r].dat = down[r].dat
        /\ down'[r].snp = Tail(down[r].snp)
    BY <1>1 DEF IInv, Shape, Drop
  <1>4. HandleSnpDVMOp(r)
    BY <1>2 DEF RxSnp, DVMSnp
  <1>5. /\ DOMAIN dvm' = Requesters /\ (dvm'[r] <=> ~dvm[r])
        /\ \A q \in Requesters \ {r} : dvm'[q] = dvm[q]
        /\ up' = IF dvm[r] THEN Put(up, r, "rsp", SnpRespI) ELSE up
    BY <1>4 DEF HandleSnpDVMOp, IInv, Shape, SnpRespI
  <1>6. /\ DOMAIN up' = Requesters /\ DOMAIN up'[r] = DOMAIN up[r]
        /\ \A q \in Requesters \ {r} : up'[q] = up[q]
        /\ up'[r].req = up[r].req /\ up'[r].dat = up[r].dat
        /\ dvm[r] => up'[r].rsp = <<SnpRespI>>
        /\ ~dvm[r] => up'[r].rsp = up[r].rsp
    BY <1>5, AppendIs DEF IInv, Shape, Put, Silent
  <1>7. TxnInv'
    BY <1>1 DEF IInv, TxnInv
  <1>8. Shape'
    <2>1. \A q \in Requesters : DOMAIN up'[q] = DOMAIN up[q] /\ DOMAIN down'[q] = DOMAIN down[q]
      BY <1>3, <1>6 DEF IInv, Shape
    <2> QED BY <1>1, <1>3, <1>5, <1>6, <2>1 DEF IInv, Shape, IsReq, IsSeq, IsTxn
  <1>9. Undisturbed
    BY <1>1 DEF Undisturbed
  <1>10. Aside(r)
    BY DEF SnoopsDVM, Others
  <1>11. /\ Others' /\ Served' /\ NoAnswer(src)' /\ Silent(src)' /\ cur' = cur /\ src' = src
         /\ \A q \in Requesters \ {r} : Rests(q)
         /\ ListInv' /\ SlaveInv'
    BY <1>1, <1>3, <1>5, <1>6, <1>9, <1>10, PortFrame DEF SnoopsDVM
  <1>12. DVMInv'
    BY <1>5, <1>11 DEF IInv, DVMInv, SnoopsDVM
  <1>13. SnoopedDVM(r)'
    <2>1. DVMSnp' = DVMSnp
      BY <1>11 DEF DVMSnp
    <2>2. CASE dvm[r]
      BY <1>2, <1>3, <1>5, <1>6, <2>1, <2>2 DEF SnoopedDVM, Silent
    <2>3. CASE ~dvm[r]
      BY <1>2, <1>3, <1>5, <1>6, <2>1, <2>3 DEF SnoopedDVM, Silent
    <2> QED BY <2>2, <2>3
  <1>14. \A q \in Requesters \ {r} : (SnoopedDVM(q) => SnoopedDVM(q)') /\ (Calm(q) => Calm(q)')
    BY <1>11, RestsIs
  <1>15. SnoopsDVM'
    BY <1>1, <1>9, <1>11, <1>13, <1>14, SlaveStays DEF SnoopsDVM
  <1> QED BY <1>7, <1>8, <1>11, <1>12, <1>15 DEF IInv, PhaseInv

LEMMA RxSnpStep ==
    ASSUME IInv, NEW r \in Requesters, RxSnp(r), UNCHANGED <<mode, hnVars, snVars>>
    PROVE  IInv'
  <1>1. down[r].snp # <<>>
    BY DEF RxSnp
  <1> QED BY <1>1, DownSnpIs, SnoopStep, DVMSnoopStep DEF IInv

LEMMA ReceiveStep ==
    ASSUME IInv, NEW r \in Requesters, Receive(r)
    PROVE  IInv'
  BY RxRspStep, RxDatStep, RxSnpStep DEF Receive

(***************************************************************************)
(* The home node goes on with a request: ProcessReq and ProcessSnpdReq.    *)
(***************************************************************************)
\* Request q is ready for that: no snoop is out for it.
Ready(q) ==
    /\ IsReq(q) /\ Serves(q, txn[q.src]) /\ q.waiting = {} /\ ~q.waitReceipt /\ ~q.ackRcvd
    /\ ~q.fwded /\ MayAsk(q)

\* The step leaves the requester s without an answer and all the others calm,
\* unless the home node now says something.
Turn(s) ==
    /\ UNCHANGED <<txn, snToggle>>
    /\ DOMAIN down = Requesters /\ \A r \in Requesters : DOMAIN down[r] = {"rsp", "dat", "snp"}
    /\ \A r \in Requesters : up'[r].req = up[r].req /\ Silent(r)' /\ down[r].snp = <<>>
    /\ \A r \in Requesters \ {s} : Aside(r) /\ (Listed(r)' <=> Listed(r))
    /\ up[s].req = <<>> /\ ~Listed(s)' /\ NoAnswer(s) /\ Untouched(s)
    /\ toSN = <<>> /\ fromSN'.rsp = <<>> /\ fromSN'.dat = <<>> /\ NoAtomic'

\* The shapes of what the home node writes.
HomeShape ==
    /\ DOMAIN down = Requesters
    /\ \A r \in Requesters : DOMAIN down[r] = {"rsp", "dat", "snp"}
    /\ IsReq(cur)

LEMMA NoReqIs == IsReq(NoReq) /\ NoReq.waiting = {}
  BY DEF NoReq, NoSN, IsReq, ReqFields, SNFields

LEMMA SNRequestIs ==
    ASSUME NEW q, NEW op
    PROVE  LET n == SNRequest(q, op) IN
           /\ DOMAIN n = SNFields
           /\ n.op = op /\ n.retry /\ (n.receipt <=> ~q.ack)
           /\ n.to = IF AllowsDMT(q) THEN q.src ELSE "HN"
  BY DEF SNRequest, SNFields

\* Without an answer the others stay calm.
LEMMA TurnOthers ==
    ASSUME NEW s, Turn(s), \A r \in Requesters \ {s} : down'[r] = down[r]
    PROVE  \A r \in Requesters \ {s} : Aside(r)' /\ Calm(r)'
  <1> SUFFICES ASSUME NEW r \in Requesters \ {s} PROVE Aside(r)' /\ Calm(r)'
    OBVIOUS
  <1>1. Aside(r)'
    BY AsideStays DEF Turn
  <1>2. Calm(r)'
    BY DEF Turn, Calm, Silent
  <1> QED BY <1>1, <1>2

\* A request goes to the slave node.
LEMMA ToSNPhase ==
    ASSUME NEW q, NEW f, NEW op, ToSN(q, f, op), Ready(q), Turn(q.src)
    PROVE  /\ HomeShape' /\ down' = down
           /\ cur' = [q EXCEPT !.snReq = SNRequest(q, op)]
           /\ cur'.snReq = SNRequest(q, op) /\ Fixed' /\ ~cur'.ackRcvd /\ ~cur'.fwded
           /\ cur'.op = q.op /\ cur'.src = q.src /\ cur'.ack = q.ack /\ cur'.snGot = q.snGot
           /\ cur'.gotSnpData = q.gotSnpData /\ cur'.waitAck = q.waitAck
           /\ cur'.snpPD = q.snpPD /\ cur'.snpResp = q.snpResp
           /\ Served' /\ Unanswered' /\ Others' /\ OthersCalm' /\ NoAtomic'
           /\ SNBusy(op)'
  <1>1. /\ cur' = [q EXCEPT !.snReq = SNRequest(q, op)]
        /\ toSN' = Append(toSN, SNRequest(q, op)) /\ down' = down
    BY DEF ToSN
  <1>2. PICK n : n = SNRequest(q, op)
    OBVIOUS
  <1>3. /\ DOMAIN n = SNFields
        /\ n.op = op /\ n.retry
    BY <1>2, SNRequestIs
  <1>4. cur' = [q EXCEPT !.snReq = n] /\ toSN' = <<n>>
    BY <1>1, <1>2, AppendIs DEF Turn
  <1>5. IsReq(q)
    BY DEF Ready
  <1>6. /\ IsReq(cur') /\ cur'.snReq = n
        /\ cur'.op = q.op /\ cur'.src = q.src /\ cur'.ack = q.ack /\ cur'.snGot = q.snGot
        /\ cur'.line = q.line
        /\ cur'.gotSnpData = q.gotSnpData /\ cur'.waitAck = q.waitAck
        /\ cur'.snpPD = q.snpPD /\ cur'.snpResp = q.snpResp
        /\ cur'.waiting = q.waiting /\ cur'.waitReceipt = q.waitReceipt
        /\ cur'.ackRcvd = q.ackRcvd /\ cur'.fwded = q.fwded
    BY <1>3, <1>4, <1>5 DEF IsReq, ReqFields
  <1>7. HomeShape'
    BY <1>1, <1>6 DEF HomeShape, Turn, IsReq
  <1>8. Fixed' /\ ~cur'.ackRcvd /\ ~cur'.fwded
    BY <1>6 DEF Ready, Fixed
  <1>9. Others' /\ OthersCalm'
    <2>1. \A r \in Requesters \ {q.src} : Aside(r)' /\ Calm(r)'
      BY <1>1, TurnOthers
    <2> QED BY <1>6, <2>1 DEF Others, OthersCalm, src
  <1>10. Served'
    BY <1>1, <1>6 DEF Served, Serves, Ready, Turn, src
  <1>11. Unanswered'
    BY <1>1, <1>6 DEF Unanswered, NoAnswer, Silent, Untouched, Turn, src, Ready, Serves
  <1>12. SNBusy(op)'
    <2>1. SNAsked'
      BY <1>3, <1>4, <1>6 DEF SNAsked, MayAsk, Ready, Turn
    <2> QED BY <1>3, <1>6, <2>1 DEF SNBusy
  <1>13. NoAtomic'
    BY DEF Turn
  <1> QED BY <1>1, <1>2, <1>6, <1>7, <1>8, <1>9, <1>10, <1>11, <1>12, <1>13

\* An answer goes to the requester, and the request is still to be completed.
LEMMA ToRNPhase ==
    ASSUME NEW q, NEW m, ToRN(q, m), Ready(q), Turn(q.src), UNCHANGED toSN,
           cur' = q \/ cur' = [q EXCEPT !.waitAck = TRUE]
    PROVE  /\ HomeShape' /\ Fixed' /\ ~cur'.ackRcvd
           /\ cur'.op = q.op /\ cur'.src = q.src /\ cur'.ack = q.ack /\ MayAsk(cur)'
           /\ cur'.gotSnpData = q.gotSnpData /\ cur'.toSNDone = q.toSNDone
           /\ cur'.hasData = q.hasData
           /\ cur' # q => cur'.waitAck
           /\ Served' /\ Others' /\ OthersCalm' /\ NoAtomic' /\ SNIdle'
           /\ Silent(src)' /\ Untouched(src)'
           /\ m.t # "CompData" => down'[q.src].rsp = <<m>> /\ down'[q.src].dat = <<>>
           /\ m.t = "CompData" => down'[q.src].dat = <<m>> /\ down'[q.src].rsp = <<>>
  <1>1. q.src \in Requesters /\ IsReq(q)
    BY DEF Ready, Serves
  <1>2. /\ DOMAIN down' = Requesters
        /\ \A r \in Requesters : DOMAIN down'[r] = DOMAIN down[r]
        /\ \A r \in Requesters \ {q.src} : down'[r] = down[r]
        /\ down'[q.src].snp = down[q.src].snp
        /\ m.t # "CompData" => down'[q.src].rsp = <<m>> /\ down'[q.src].dat = <<>>
        /\ m.t = "CompData" => down'[q.src].dat = <<m>> /\ down'[q.src].rsp = <<>>
    <2>1. Append(down[q.src].rsp, m) = <<m>> /\ Append(down[q.src].dat, m) = <<m>>
      BY AppendIs DEF Turn, NoAnswer
    <2>2. CASE m.t = "CompData"
      BY <1>1, <2>1, <2>2 DEF ToRN, Put, Turn, NoAnswer
    <2>3. CASE m.t # "CompData"
      BY <1>1, <2>1, <2>3 DEF ToRN, Put, Turn, NoAnswer
    <2> QED BY <2>2, <2>3
  <1>3. /\ IsReq(cur') /\ cur'.op = q.op /\ cur'.src = q.src /\ cur'.ack = q.ack
        /\ cur'.line = q.line /\ cur'.snGot = q.snGot
        /\ cur'.gotSnpData = q.gotSnpData /\ cur'.toSNDone = q.toSNDone
        /\ cur'.hasData = q.hasData
        /\ cur'.waiting = q.waiting /\ cur'.waitReceipt = q.waitReceipt
        /\ cur'.ackRcvd = q.ackRcvd
        /\ cur' # q => cur'.waitAck
    BY <1>1 DEF IsReq, ReqFields
  <1>4. HomeShape'
    BY <1>2, <1>3 DEF HomeShape, Turn, IsReq
  <1>5. Fixed' /\ ~cur'.ackRcvd /\ MayAsk(cur)'
    BY <1>3 DEF Ready, Fixed, MayAsk, Turn
  <1>6. Others' /\ OthersCalm'
    <2>1. \A r \in Requesters \ {q.src} : Aside(r)' /\ Calm(r)'
      BY <1>2, TurnOthers
    <2> QED BY <1>3, <2>1 DEF Others, OthersCalm, src
  <1>7. Served'
    BY <1>1, <1>2, <1>3 DEF Served, Serves, Ready, Turn, src
  <1>8. Silent(src)' /\ Untouched(src)'
    BY <1>1, <1>3 DEF Silent, Untouched, Turn, src
  <1>9. SNIdle' /\ NoAtomic'
    BY DEF SNIdle, Turn
  <1> QED BY <1>2, <1>3, <1>4, <1>5, <1>6, <1>7, <1>8, <1>9

\* The last answer goes to the requester, which is aside from now on.
LEMMA InformPhase ==
    ASSUME NEW q, ToRN(q, CompI), Ready(q), Turn(q.src), UNCHANGED toSN, cur' = NoReq,
           q.op \in Informing
    PROVE  HomeShape' /\ Idle'
  <1>1. q.src \in Requesters
    BY DEF Ready, Serves
  <1>2. /\ DOMAIN down' = Requesters
        /\ \A r \in Requesters : DOMAIN down'[r] = DOMAIN down[r]
        /\ \A r \in Requesters \ {q.src} : down'[r] = down[r]
        /\ down'[q.src].snp = <<>>
        /\ down'[q.src].rsp = <<CompI>> /\ down'[q.src].dat = <<>>
    <2>1. down' = Put(down, q.src, "rsp", CompI)
      BY Answers DEF ToRN
    <2> QED BY <1>1, <2>1, AppendIs DEF Put, Turn, NoAnswer
  <1>3. \A r \in Requesters \ {q.src} : Aside(r)' /\ Calm(r)'
    BY <1>2, TurnOthers
  <1>4. Informed(q.src)' /\ Calm(q.src)'
    <2>1. txn[q.src].op \in Informing /\ Untouched(q.src)'
      BY DEF Ready, Serves, Turn, Untouched
    <2> QED BY <1>1, <1>2, <2>1 DEF Informed, Calm, Silent, Turn
  <1>5. HomeShape'
    BY <1>2, NoReqIs DEF HomeShape, Turn
  <1>6. SNIdle' /\ NoAtomic'
    BY DEF SNIdle, Turn
  <1> QED BY <1>3, <1>4, <1>5, <1>6 DEF Idle, Aside

\* What ProcessReq does for each class of requests.
LEMMA ProcessReqPhase ==
    ASSUME NEW q, NEW f, ProcessReq(q, f), Ready(q), Turn(q.src), ~q.gotSnpData, ~q.toSNDone,
           q.op = "DVMOp" => ~q.hasData
    PROVE  HomeShape' /\ PhaseInv' /\ cur'.waiting = {}
  <1>1. q.op \in ReqOps /\ Acked(q.op, q.ack) /\ IsReq(q) /\ q.src \in Requesters
    BY DEF Ready, Serves
  <1>2. CASE q.op \in Reading
    <2>1. q.ack
      BY <1>1, <1>2 DEF Acked
    <2>2. PICK p : p = [q EXCEPT !.waitReceipt = AllowsDMT(q) /\ ~q.ack,
                                 !.waitAck = @ \/ (AllowsDMT(q) /\ q.ack)]
      OBVIOUS
    <2>3. ToSN(p, f, "ReadNoSnp")
      <3>1. ~(IsWrite(q.op) \/ IsAtomicStore(q.op)) /\ ~IsDataLess(q.op)
            /\ ~(IsAtomicNonStore(q.op) \/ q.op = "DVMOp")
        BY <1>2, Classes DEF Reading, ReadOnces, Fills, Writing, CopyBacks, UniqueWrites,
                             Upgrading, Informing, Swapping
      <3> QED BY <2>2, <3>1 DEF ProcessReq
    <2>4. /\ IsReq(p) /\ p.op = q.op /\ p.src = q.src /\ p.line = q.line /\ p.ack = q.ack
          /\ p.waiting = q.waiting /\ p.ackRcvd = q.ackRcvd /\ p.snGot = q.snGot
          /\ p.fwded = q.fwded
          /\ p.snpResp = q.snpResp /\ p.snpPD = q.snpPD
          /\ ~p.waitReceipt /\ (AllowsDMT(q) => p.waitAck)
      BY <1>1, <2>1, <2>2 DEF IsReq, ReqFields
    <2>5. Ready(p) /\ (AllowsDMT(p) <=> AllowsDMT(q))
      BY <2>4 DEF Ready, Serves, MayAsk, AllowsDMT
    <2>6. /\ HomeShape' /\ cur'.snReq = SNRequest(p, "ReadNoSnp") /\ Fixed' /\ ~cur'.ackRcvd
          /\ ~cur'.fwded
          /\ cur'.op = p.op /\ cur'.src = p.src /\ cur'.waitAck = p.waitAck
          /\ cur'.snpPD = p.snpPD /\ cur'.snpResp = p.snpResp
          /\ Served' /\ Unanswered' /\ Others' /\ OthersCalm' /\ NoAtomic'
          /\ SNBusy("ReadNoSnp")'
      BY <2>3, <2>4, <2>5, ToSNPhase
    <2>7. /\ ~cur'.snReq.receipt
          /\ cur'.snReq.to = IF AllowsDMT(p) THEN p.src ELSE "HN"
      <3>1. PICK n : n = SNRequest(p, "ReadNoSnp")
        OBVIOUS
      <3>2. (n.receipt <=> ~p.ack) /\ n.to = IF AllowsDMT(p) THEN p.src ELSE "HN"
        BY <3>1, SNRequestIs
      <3> QED BY <2>1, <2>4, <2>6, <3>1, <3>2
    <2>8. p.src # "HN"
      BY <1>1, <2>4, ChiAssumption
    <2>9. AllowsDMT(cur)' <=> AllowsDMT(p)
      BY <2>6 DEF AllowsDMT
    <2>10. Fetches'
      BY <1>2, <2>4, <2>5, <2>6, <2>7, <2>8, <2>9 DEF Fetches, src
    <2> QED BY <2>6, <2>10 DEF PhaseInv, Fixed
  <1>3. CASE q.op \in Storing
    <2>1. /\ ToRN(q, CompDBIDResp) /\ UNCHANGED toSN
          /\ cur' = [q EXCEPT !.waitAck = @ \/ (IsWriteUnique(q.op) /\ q.ack)]
      <3>1. ~IsRead(q.op) /\ ~IsDataLess(q.op)
            /\ ~(IsAtomicNonStore(q.op) \/ q.op = "DVMOp")
        BY <1>3, Classes DEF Reading, ReadOnces, Fills, Storing, Writing, CopyBacks,
                             UniqueWrites, Upgrading, Informing, Swapping
      <3> QED BY <3>1 DEF ProcessReq, CompDBIDResp
    <2>2. q.ack => IsWriteUnique(q.op)
      BY <1>1, <1>3, Classes DEF Acked, Reading, ReadOnces, Fills, Storing, Writing, CopyBacks,
                                 UniqueWrites, Upgrading
    <2>3. IsReq(cur') /\ (q.ack => cur'.waitAck)
      BY <1>1, <2>1, <2>2 DEF IsReq, ReqFields
    <2>4. /\ cur'.op = q.op /\ cur'.src = q.src /\ cur'.ack = q.ack /\ cur'.line = q.line
          /\ cur'.gotSnpData = q.gotSnpData /\ cur'.toSNDone = q.toSNDone
          /\ cur'.waiting = q.waiting /\ cur'.waitReceipt = q.waitReceipt
          /\ cur'.ackRcvd = q.ackRcvd /\ cur'.snGot = q.snGot
      BY <1>1, <2>1 DEF IsReq, ReqFields
    <2>5. /\ DOMAIN down' = Requesters
          /\ \A r \in Requesters : DOMAIN down'[r] = DOMAIN down[r]
          /\ \A r \in Requesters \ {q.src} : down'[r] = down[r]
          /\ down'[q.src].snp = <<>>
          /\ down'[q.src].rsp = <<CompDBIDResp>> /\ down'[q.src].dat = <<>>
      <3>1. down' = Put(down, q.src, "rsp", CompDBIDResp)
        BY <2>1, Answers DEF ToRN
      <3> QED BY <1>1, <3>1, AppendIs DEF Put, Turn, NoAnswer
    <2>6. Others' /\ OthersCalm'
      <3>1. \A r \in Requesters \ {q.src} : Aside(r)' /\ Calm(r)'
        BY <2>5, TurnOthers
      <3> QED BY <2>4, <3>1 DEF Others, OthersCalm, src
    <2>7. Served' /\ Fixed'
      BY <1>1, <2>4, <2>5 DEF Served, Serves, Ready, Turn, src, Fixed
    <2>8. SNIdle' /\ NoAtomic' /\ MayAsk(cur)'
      BY <2>1, <2>4 DEF SNIdle, Turn, Ready, MayAsk
    <2>9. Silent(src)' /\ Untouched(src)'
      BY <1>1, <2>4 DEF Silent, Untouched, Turn, src
    <2>10. down'[src'].rsp = <<DBIDFor(cur'.op)>> /\ down'[src'].dat = <<>>
      <3>1. q.op \notin Swapping \cup {"DVMOp"}
        BY <1>3 DEF Storing, Writing, CopyBacks, UniqueWrites, Swapping
      <3>2. DBIDFor(q.op) = CompDBIDResp
        BY <3>1 DEF DBIDFor
      <3> QED BY <2>4, <2>5, <3>2 DEF src
    <2>11. TakesData'
      <3>1. q.op # "DVMOp"
        BY <1>3 DEF Storing, Writing, CopyBacks, UniqueWrites
      <3>2. /\ cur'.op \in Storing \cup Swapping \cup {"DVMOp"}
            /\ ~cur'.gotSnpData /\ ~cur'.toSNDone /\ ~cur'.ackRcvd
            /\ (cur'.ack => cur'.waitAck) /\ cur'.op # "DVMOp"
        BY <1>3, <2>3, <2>4, <3>1 DEF Ready
      <3>3. up'[src'].dat = <<>> /\ up'[src'].rsp = <<>>
        BY <2>9 DEF Silent
      <3> QED BY <2>6, <2>7, <2>8, <2>9, <2>10, <3>2, <3>3 DEF TakesData
    <2>12. HomeShape'
      BY <2>3, <2>5 DEF HomeShape, Turn
    <2> QED BY <2>7, <2>11, <2>12 DEF PhaseInv, Fixed
  <1>4. CASE q.op \in Upgrading
    <2>1. q.ack
      BY <1>1, <1>4 DEF Acked
    <2>2. ToRN(q, CompUC) /\ UNCHANGED toSN /\ cur' = [q EXCEPT !.waitAck = TRUE]
      <3>1. /\ ~IsRead(q.op) /\ ~(IsWrite(q.op) \/ IsAtomicStore(q.op))
            /\ ~(IsAtomicNonStore(q.op) \/ q.op = "DVMOp")
            /\ q.op \in {"CleanUnique", "MakeUnique"}
        BY <1>4, Classes DEF Reading, ReadOnces, Fills, Writing, CopyBacks, UniqueWrites,
                             Upgrading, Swapping
      <3> QED BY <2>1, <3>1 DEF ProcessReq, CompUC
    <2>3. /\ HomeShape' /\ Fixed' /\ ~cur'.ackRcvd
          /\ cur'.op = q.op /\ cur'.src = q.src
          /\ Served' /\ Others' /\ OthersCalm' /\ NoAtomic' /\ SNIdle'
          /\ Silent(src)' /\ Untouched(src)'
          /\ down'[q.src].rsp = <<CompUC>> /\ down'[q.src].dat = <<>>
      BY <2>2, ToRNPhase, Answers
    <2>4. cur'.waitAck
      BY <1>1, <2>2 DEF IsReq, ReqFields
    <2>5. Gives'
      BY <1>4, <2>3, <2>4 DEF Gives, GivesUnique, src
    <2> QED BY <2>3, <2>5 DEF PhaseInv, Fixed
  <1>5. CASE q.op \in Informing
    <2>1. ~q.ack
      BY <1>1, <1>5 DEF Acked, Informing, Reading, ReadOnces, Fills, Upgrading, UniqueWrites
    <2>2. ToRN(q, CompI) /\ UNCHANGED toSN /\ cur' = NoReq
      <3>1. /\ ~IsRead(q.op) /\ ~(IsWrite(q.op) \/ IsAtomicStore(q.op))
            /\ ~(IsAtomicNonStore(q.op) \/ q.op = "DVMOp")
            /\ q.op \notin {"CleanUnique", "MakeUnique"}
        BY <1>5, Classes DEF Reading, ReadOnces, Fills, Writing, CopyBacks, UniqueWrites,
                             Informing, Swapping
      <3> QED BY <2>1, <3>1 DEF ProcessReq, CompI
    <2>3. HomeShape' /\ Idle'
      BY <1>5, <2>2, InformPhase
    <2> QED BY <2>2, <2>3, NoReqIs DEF PhaseInv
  <1>6. CASE q.op \in Swapping \cup {"DVMOp"}
    <2>1. ToRN(q, DBIDResp) /\ UNCHANGED toSN /\ cur' = q
      <3>1. ~IsRead(q.op) /\ ~(IsWrite(q.op) \/ IsAtomicStore(q.op)) /\ ~IsDataLess(q.op)
        BY <1>6, Classes DEF Reading, ReadOnces, Fills, Writing, CopyBacks, UniqueWrites,
                             Upgrading, Informing, Swapping
      <3> QED BY <3>1 DEF ProcessReq, DBIDResp
    <2>2. /\ HomeShape' /\ Fixed' /\ ~cur'.ackRcvd /\ MayAsk(cur)'
          /\ cur'.op = q.op /\ cur'.src = q.src /\ cur'.ack = q.ack
          /\ cur'.gotSnpData = q.gotSnpData /\ cur'.toSNDone = q.toSNDone
          /\ cur'.hasData = q.hasData
          /\ Served' /\ Others' /\ OthersCalm' /\ NoAtomic' /\ SNIdle'
          /\ Silent(src)' /\ Untouched(src)'
          /\ down'[q.src].rsp = <<DBIDResp>> /\ down'[q.src].dat = <<>>
      BY <2>1, ToRNPhase, Answers
    <2>3. ~q.ack
      BY <1>1, <1>6 DEF Acked, ReqOps, Swapping, Reading, ReadOnces, Fills, Upgrading, UniqueWrites
    <2>4. down'[src'].rsp = <<DBIDFor(cur'.op)>> /\ down'[src'].dat = <<>>
      BY <1>6, <2>2 DEF DBIDFor, src
    <2>5. TakesData'
      <3>1. up'[src'].dat = <<>> /\ up'[src'].rsp = <<>>
        BY <2>2 DEF Silent
      <3> QED BY <1>6, <2>2, <2>3, <2>4, <3>1 DEF TakesData
    <2> QED BY <2>2, <2>5 DEF PhaseInv, Fixed
  <1> QED BY <1>1, <1>2, <1>3, <1>4, <1>5, <1>6 DEF ReqOps

\* After the snoops, and again after dirty data has been written back.
LEMMA ProcessSnpdReqPhase ==
    ASSUME NEW q, NEW f, ProcessSnpdReq(q, f), Ready(q), Turn(q.src), q.op \in Snooping,
           MustWriteBack(q) => q.snGot = {}
    PROVE  HomeShape' /\ PhaseInv' /\ cur'.waiting = {}
  <1>1. q.op \in ReqOps /\ Acked(q.op, q.ack) /\ IsReq(q) /\ q.src \in Requesters
    BY DEF Ready, Serves
  <1>2. q.op # "DVMOp"
    BY DEF Snooping, ReadOnces, Fills, Upgrading, Informing, UniqueWrites, Swapping
  <1>3. CASE MustWriteBack(q)
    <2>1. PICK p : p = [q EXCEPT !.snpPD = FALSE]
      OBVIOUS
    <2>2. ToSN(p, f, "WriteNoSnpPtl")
      BY <1>2, <1>3, <2>1 DEF ProcessSnpdReq
    <2>3. /\ IsReq(p) /\ p.op = q.op /\ p.src = q.src /\ p.line = q.line /\ p.ack = q.ack
          /\ p.waiting = q.waiting /\ p.waitReceipt = q.waitReceipt /\ p.ackRcvd = q.ackRcvd
          /\ p.fwded = q.fwded /\ p.snGot = q.snGot /\ ~p.snpPD /\ p.gotSnpData = q.gotSnpData
      BY <1>1, <2>1 DEF IsReq, ReqFields
    <2>4. Ready(p)
      BY <2>3 DEF Ready, Serves, MayAsk
    <2>5. /\ HomeShape' /\ Fixed' /\ ~cur'.ackRcvd /\ ~cur'.fwded
          /\ cur'.op = p.op /\ cur'.snGot = p.snGot
          /\ cur'.gotSnpData = p.gotSnpData /\ cur'.snpPD = p.snpPD
          /\ Served' /\ Unanswered' /\ Others' /\ OthersCalm' /\ NoAtomic'
          /\ SNBusy("WriteNoSnpPtl")'
      BY <2>2, <2>3, <2>4, ToSNPhase
    <2>6. q.gotSnpData /\ q.snGot = {}
      BY <1>3 DEF MustWriteBack
    <2>7. WritesBack'
      BY <2>3, <2>5, <2>6 DEF WritesBack
    <2> QED BY <2>5, <2>7 DEF PhaseInv, Fixed
  <1>4. CASE ~MustWriteBack(q) /\ CanAnswer(q)
    <2>1. q.op \in ReadOnces \cup Fills
      BY <1>4, Classes DEF CanAnswer
    <2>2. q.ack
      BY <1>1, <2>1 DEF Acked, Reading
    <2>3. PICK m : m = SnpCompData(q)
      OBVIOUS
    <2>4. m.t = "CompData" /\ IsMsg(m)
      BY <2>3, MsgIs DEF SnpCompData
    <2>5. ToRN(q, m) /\ UNCHANGED toSN /\ cur' = [q EXCEPT !.waitAck = TRUE]
      BY <1>2, <1>4, <2>2, <2>3 DEF ProcessSnpdReq
    <2>6. /\ HomeShape' /\ Fixed' /\ ~cur'.ackRcvd
          /\ cur'.op = q.op /\ cur'.src = q.src
          /\ Served' /\ Others' /\ OthersCalm' /\ NoAtomic' /\ SNIdle'
          /\ Silent(src)' /\ Untouched(src)'
          /\ down'[q.src].dat = <<m>> /\ down'[q.src].rsp = <<>>
      BY <2>4, <2>5, ToRNPhase
    <2>7. cur'.waitAck
      BY <1>1, <2>5 DEF IsReq, ReqFields
    <2>8. /\ down'[src'].dat # <<>> /\ down'[src'].dat[1] = m
          /\ down'[src'].dat = <<down'[src'].dat[1]>>
      BY <2>6, OneIs DEF src
    <2>9. GivesData'
      BY <2>1, <2>4, <2>6, <2>8 DEF GivesData, Reading, One, IsMsg, src
    <2>10. Gives'
      BY <2>1, <2>6, <2>7, <2>9 DEF Gives, Reading
    <2> QED BY <2>6, <2>10 DEF PhaseInv, Fixed
  <1>5. CASE ~MustWriteBack(q) /\ ~CanAnswer(q)
    <2>1. PICK p : p = [q EXCEPT !.gotSnpData = FALSE, !.toSNDone = FALSE]
      OBVIOUS
    <2>2. ProcessReq(p, f)
      BY <1>2, <1>5, <2>1 DEF ProcessSnpdReq
    <2>3. /\ IsReq(p) /\ p.op = q.op /\ p.src = q.src /\ p.line = q.line /\ p.ack = q.ack
          /\ p.waiting = q.waiting /\ p.waitReceipt = q.waitReceipt /\ p.ackRcvd = q.ackRcvd
          /\ p.fwded = q.fwded /\ p.snGot = q.snGot /\ ~p.gotSnpData /\ ~p.toSNDone
      BY <1>1, <2>1 DEF IsReq, ReqFields
    <2>4. Ready(p)
      BY <2>3 DEF Ready, Serves, MayAsk
    <2> QED BY <1>2, <2>2, <2>3, <2>4, ProcessReqPhase
  <1> QED BY <1>3, <1>4, <1>5

(***************************************************************************)
(* The next request.                                                       *)
(***************************************************************************)
\* The request at the head of m_reqList: as it was put there.
LEMMA HeadIs ==
    ASSUME IInv, reqList # <<>>
    PROVE  LET q == Head(reqList) IN
           /\ q = reqList[1] /\ q.src \in Requesters
           /\ Serves(q, txn[q.src]) /\ IsReq(q) /\ q.op \in ReqOps
           /\ q.waiting = {} /\ ~q.waitReceipt /\ ~q.ackRcvd /\ ~q.gotSnpData /\ ~q.toSNDone
           /\ ~q.hasData /\ ~q.fwded /\ q.snGot = {}
           /\ IsSeq(Tail(reqList))
           /\ \A s : (\E i \in DOMAIN Tail(reqList) : Tail(reqList)[i].src = s)
                        <=> Listed(s) /\ s # q.src
           /\ Listed(q.src)
  <1> DEFINE q == Head(reqList)
  <1>1. /\ q = reqList[1] /\ 1 \in DOMAIN reqList /\ DOMAIN reqList = 1..Len(reqList)
        /\ Len(reqList) \in Nat
    BY SeqLen DEF IInv, Shape
  <1>2. /\ IsSeq(Tail(reqList)) /\ DOMAIN Tail(reqList) = 1..(Len(reqList) - 1)
        /\ \A i \in 1..(Len(reqList) - 1) : Tail(reqList)[i] = reqList[i + 1]
    BY SeqTail DEF IInv, Shape
  <1> HIDE DEF q
  <1>3. /\ Serves(q, txn[q.src])
        /\ q = [NoReq EXCEPT !.op = q.op, !.src = q.src, !.line = q.line, !.ack = q.ack]
    BY <1>1 DEF IInv, ListInv
  <1>4. ASSUME NEW a, NEW b, NEW c, NEW d
        PROVE  LET n == [NoReq EXCEPT !.op = a, !.src = b, !.line = c, !.ack = d] IN
               /\ IsReq(n)
               /\ n.waiting = {} /\ ~n.waitReceipt /\ ~n.ackRcvd /\ ~n.gotSnpData /\ ~n.toSNDone
               /\ ~n.hasData /\ ~n.fwded /\ n.snGot = {}
    BY DEF IsReq, ReqFields, NoReq, NoSN, SNFields
  <1>5. /\ IsReq(q)
        /\ q.waiting = {} /\ ~q.waitReceipt /\ ~q.ackRcvd /\ ~q.gotSnpData /\ ~q.toSNDone
        /\ ~q.hasData /\ ~q.fwded /\ q.snGot = {}
    <2>1. PICK n : n = [NoReq EXCEPT !.op = q.op, !.src = q.src, !.line = q.line, !.ack = q.ack]
      OBVIOUS
    <2>2. /\ IsReq(n)
          /\ n.waiting = {} /\ ~n.waitReceipt /\ ~n.ackRcvd /\ ~n.gotSnpData /\ ~n.toSNDone
          /\ ~n.hasData /\ ~n.fwded /\ n.snGot = {}
      BY <1>4, <2>1
    <2> QED BY <1>3, <2>1, <2>2
  <1>6. \A i \in DOMAIN reqList : reqList[i].src = q.src => i = 1
    BY <1>1 DEF IInv, ListInv
  <1>7. ASSUME NEW s
        PROVE  (\E i \in DOMAIN Tail(reqList) : Tail(reqList)[i].src = s)
                  <=> Listed(s) /\ s # q.src
    <2>1. ASSUME NEW i \in DOMAIN Tail(reqList), Tail(reqList)[i].src = s
          PROVE  Listed(s) /\ s # q.src
      <3>1. i + 1 \in DOMAIN reqList /\ reqList[i + 1].src = s /\ i + 1 # 1
        BY <1>1, <1>2, <2>1
      <3> QED BY <1>6, <3>1 DEF Listed
    <2>2. ASSUME Listed(s), s # q.src
          PROVE  \E i \in DOMAIN Tail(reqList) : Tail(reqList)[i].src = s
      <3>1. PICK j \in DOMAIN reqList : reqList[j].src = s
        BY <2>2 DEF Listed
      <3>2. j # 1
        BY <1>1, <2>2, <3>1
      <3>3. j - 1 \in DOMAIN Tail(reqList) /\ (j - 1) + 1 = j
        BY <1>1, <1>2, <3>1, <3>2
      <3> QED BY <1>2, <3>1, <3>3
    <2> QED BY <2>1, <2>2
  <1>8. Listed(q.src)
    BY <1>1 DEF Listed
  <1>9. q.src \in Requesters /\ q.op \in ReqOps
    BY <1>3 DEF Serves
  <1> QED BY <1>1, <1>2, <1>3, <1>5, <1>7, <1>8, <1>9 DEF q

\* No request is being served only if all is idle.
LEMMA NoReqIsIdle ==
    ASSUME PhaseInv, cur = NoReq
    PROVE  Idle
  <1>1. ~Served
    BY NoneIsNoReq DEF Served, Serves
  <1>2. ~Writes
    BY NoneIsNoReq, ChiAssumption DEF Writes, src
  <1> QED BY <1>1, <1>2
          DEF PhaseInv, Snoops, SnoopsDVM, WritesBack, Fetches, Gives, TakesData, RunsAtomic

\* Whether the snoop forwards follows from its opcode.
LEMMA FwdIs ==
    ASSUME NEW op \in Snooping, NEW allow \in BOOLEAN, NEW snp, snp = GetOpcode(op, allow),
           NEW fwd \in BOOLEAN, fwd <=> snp \in FwdSnoops
    PROVE  /\ snp = GetOpcode(op, fwd)
           /\ fwd => allow /\ op \in ReadOnces \cup Fills
  <1>1. PlainSnoops \cap FwdSnoops = {}
    BY DEF PlainSnoops, FwdSnoops
  <1>2. CASE ~allow
    <2>1. snp = GetOpcode(op, FALSE)
      BY <1>2 DEF GetOpcode
    <2>2. ~fwd
      BY <1>1, <2>1, SnoopIs
    <2> QED BY <2>1, <2>2 DEF GetOpcode
  <1>3. CASE allow
    <2>1. snp = GetOpcode(op, TRUE)
      BY <1>3 DEF GetOpcode
    <2>2. CASE fwd
      BY <1>3, <2>1, <2>2, SnoopIs DEF GetOpcode
    <2>3. CASE ~fwd
      <3>1. FwdOf(SnoopOf(op)) = SnoopOf(op) \/ FwdOf(SnoopOf(op)) \in FwdSnoops
        BY DEF FwdOf, FwdSnoops
      <3>2. snp = SnoopOf(op)
        BY <2>1, <2>3, <3>1 DEF GetOpcode
      <3> QED BY <2>3, <3>2 DEF GetOpcode
    <2> QED BY <2>2, <2>3
  <1> QED BY <1>2, <1>3

\* The snoops of a request go out.
LEMMA SnoopPhase ==
    ASSUME IInv, Idle, NEW q, q.op \in Snooping, IsReq(q), Serves(q, txn[q.src]),
           ~q.fwded, q.snGot = {}, ~q.ackRcvd, ~q.waitReceipt,
           Queued(q.src), SnoopPorts(q) # {}, Snoop(q), ~Listed(q.src)',
           \A r \in Requesters \ {q.src} : Listed(r)' <=> Listed(r),
           UNCHANGED <<up, fromSN, txn, writes>>
    PROVE  HomeShape' /\ Snoops' /\ cur'.op # "DVMOp"
  <1> DEFINE ports == SnoopPorts(q)
  <1>1. PICK allow \in BOOLEAN : allow <=> mode.dct /\ Cardinality(ports) = 1
    OBVIOUS
  <1>2. PICK snp : snp = GetOpcode(q.op, mode.dct /\ Cardinality(ports) = 1)
    OBVIOUS
  <1>3. PICK fwd \in BOOLEAN : fwd <=> snp \in FwdSnoops
    OBVIOUS
  <1>4. snp = GetOpcode(q.op, allow)
    BY <1>1, <1>2 DEF GetOpcode
  <1>5. snp = GetOpcode(q.op, fwd) /\ (fwd => allow /\ q.op \in ReadOnces \cup Fills)
    BY <1>3, <1>4, FwdIs
  <1>6. PICK m : m = [t |-> snp, line |-> q.line, to |-> q.src]
    OBVIOUS
  <1>7. /\ SendSnoops(q, ports, <<m>>)
        /\ cur' = [q EXCEPT !.waiting = ports, !.fwd = snp \in FwdSnoops,
                            !.waitAck = snp \in FwdSnoops]
    BY <1>2, <1>6 DEF Snoop
  <1>8. /\ IsReq(cur') /\ cur'.waiting = ports
        /\ cur'.op = q.op /\ cur'.src = q.src /\ cur'.line = q.line /\ cur'.ack = q.ack
        /\ ~cur'.fwded /\ cur'.snGot = {} /\ ~cur'.ackRcvd /\ ~cur'.waitReceipt
    BY <1>7 DEF IsReq, ReqFields
  <1>9. cur'.fwd = (snp \in FwdSnoops) /\ cur'.waitAck = (snp \in FwdSnoops)
    BY <1>7 DEF IsReq, ReqFields
  <1>10. (cur'.fwd <=> fwd) /\ (cur'.waitAck <=> fwd)
    BY <1>3, <1>9
  <1>11. SnoopMsg' = m
    BY <1>5, <1>6, <1>8, <1>10 DEF SnoopMsg, src, GetOpcode
  <1>12. ports \subseteq Requesters \ {q.src} /\ ports # {}
    BY DEF SnoopPorts
  <1>13. \A r \in Requesters : down[r].snp = <<>>
    BY DEF Idle, Calm
  <1>14. /\ DOMAIN down' = Requesters
         /\ \A r \in Requesters : DOMAIN down'[r] = DOMAIN down[r]
         /\ \A r \in Requesters \ ports : down'[r] = down[r]
         /\ \A r \in ports : /\ down'[r].rsp = down[r].rsp /\ down'[r].dat = down[r].dat
                             /\ down'[r].snp = <<m>>
    <2>1. <<>> \o <<m>> = <<m>>
      BY AppendIs
    <2>2. down' = [r \in Requesters |-> IF r \in ports THEN [down[r] EXCEPT !.snp = @ \o <<m>>]
                                                       ELSE down[r]]
      BY <1>7 DEF SendSnoops
    <2> HIDE DEF ports
    <2> QED BY <1>12, <1>13, <2>1, <2>2 DEF IInv, Shape
  <1> HIDE DEF ports
  <1>15. HomeShape'
    BY <1>8, <1>14 DEF HomeShape, IInv, Shape
  <1>16. Others'
    <2>1. \A r \in Requesters \ {q.src} : Aside(r)'
      <3>1. ASSUME NEW r \in Requesters \ {q.src}
            PROVE  down'[r].rsp = down[r].rsp /\ down'[r].dat = down[r].dat
        BY <1>14
      <3> QED BY <3>1, AsideStays DEF Idle
    <2> QED BY <1>8, <2>1 DEF Others, src
  <1>17. q.src \in Requesters /\ q.src \notin ports
    BY <1>12 DEF Serves
  <1>18. Served' /\ Unanswered'
    <2>1. down'[q.src] = down[q.src] /\ up'[q.src] = up[q.src] /\ txn'[q.src] = txn[q.src]
      BY <1>14, <1>17
    <2>2. Calm(q.src)
      BY <1>17 DEF Idle
    <2> QED BY <1>8, <1>17, <2>1, <2>2
            DEF Served, Serves, Unanswered, NoAnswer, Silent, Calm, Untouched, Queued, src
  <1>19. SNIdle' /\ NoAtomic'
    BY <1>7 DEF Idle, SNIdle, NoAtomic, AtomicAt, SendSnoops
  <1>20. \A r \in Requesters \ {q.src} : IF r \in ports THEN Snooped(r)' ELSE Calm(r)'
    BY <1>11, <1>14 DEF Snooped, Calm, Silent, Idle
  <1>21. fwd => \A r, s \in ports : r = s
    <2>1. ASSUME fwd PROVE \A r, s \in ports : r = s
      <3>1. Cardinality(ports) = 1
        BY <1>1, <1>5, <2>1 DEF ports
      <3>2. IsFiniteSet(ports)
        BY <1>12, ChiAssumption, FS_Subset
      <3>3. \E x : ports = {x}
        BY <3>1, <3>2, FS_Singleton
      <3> QED BY <3>3
    <2> QED BY <2>1
  <1>22. q.op # "DVMOp"
    BY DEF Snooping, ReadOnces, Fills, Upgrading, Informing, UniqueWrites, Swapping
  <1>23. Snoops'
    BY <1>5, <1>8, <1>10, <1>12, <1>16, <1>18, <1>19, <1>20, <1>21 DEF Snoops, src
  <1> QED BY <1>8, <1>15, <1>22, <1>23

LEMMA RouteReqStep ==
    ASSUME IInv, RouteReq, UNCHANGED <<mode, rnVars, snVars>>
    PROVE  IInv'
  <1>0. PICK q : q = Head(reqList)
    OBVIOUS
  <1>1. /\ cur = NoReq /\ reqList # <<>> /\ reqList' = Tail(reqList)
        /\ UNCHANGED <<up, snData, fromSN, access, stage, want, txn, dvm, mode, writes, snToggle>>
    BY DEF RouteReq, rnVars, snVars
  <1>2. IF GetSnpAttr(q.op) /\ IsSnoopingReq(q.op) /\ SnoopPorts(q) # {}
        THEN Snoop(q) ELSE ProcessReq(q, filter)
    BY <1>0 DEF RouteReq
  <1>3. Idle
    BY <1>1, NoReqIsIdle DEF IInv
  <1>4. /\ q = reqList[1] /\ q.src \in Requesters
        /\ Serves(q, txn[q.src]) /\ IsReq(q) /\ q.op \in ReqOps
        /\ q.waiting = {} /\ ~q.waitReceipt /\ ~q.ackRcvd /\ ~q.gotSnpData /\ ~q.toSNDone
        /\ ~q.hasData /\ ~q.fwded /\ q.snGot = {}
        /\ IsSeq(Tail(reqList))
        /\ \A s : (\E i \in DOMAIN Tail(reqList) : Tail(reqList)[i].src = s)
                     <=> Listed(s) /\ s # q.src
        /\ Listed(q.src)
    BY <1>0, <1>1, HeadIs
  <1>5. \A s : Listed(s)' <=> Listed(s) /\ s # q.src
    BY <1>1, <1>4 DEF Listed
  <1>6. Queued(q.src)
    BY <1>3, <1>4 DEF Idle, Aside, Free, Asks, Retried, Informed, Replied, Abandoned
  <1>7. \A r \in Requesters : ~dvm[r]
    BY <1>1, NoneIsNoReq DEF IInv, DVMInv
  <1>8. TxnInv'
    BY <1>1 DEF IInv, TxnInv
  <1>9. ListInv'
    <2>1. /\ DOMAIN reqList = 1..Len(reqList) /\ Len(reqList) \in Nat
          /\ DOMAIN Tail(reqList) = 1..(Len(reqList) - 1)
          /\ \A i \in 1..(Len(reqList) - 1) : Tail(reqList)[i] = reqList[i + 1]
      BY <1>1, SeqTail, SeqLen DEF IInv, Shape
    <2>2. \A i \in DOMAIN reqList' : i + 1 \in DOMAIN reqList /\ reqList'[i] = reqList[i + 1]
      BY <1>1, <2>1
    <2>3. \A i, j \in DOMAIN reqList' : reqList'[i].src = reqList'[j].src => i = j
      <3>1. ASSUME NEW i \in DOMAIN reqList', NEW j \in DOMAIN reqList',
                   reqList'[i].src = reqList'[j].src
            PROVE  i = j
        <4> DEFINE a == i + 1
                   b == j + 1
        <4>1. /\ a \in DOMAIN reqList /\ b \in DOMAIN reqList
              /\ reqList[a].src = reqList[b].src
          BY <2>2, <3>1
        <4> HIDE DEF a, b
        <4>2. a = b
          BY <4>1 DEF IInv, ListInv
        <4> USE DEF a, b
        <4> QED BY <1>1, <2>1, <4>2
      <3> QED BY <3>1
    <2>4. \A i \in DOMAIN reqList' :
             LET p == reqList'[i] IN
             /\ Serves(p, txn'[p.src])
             /\ p = [NoReq EXCEPT !.op = p.op, !.src = p.src, !.line = p.line, !.ack = p.ack]
      <3>1. ASSUME NEW i \in DOMAIN reqList'
            PROVE  \E j \in DOMAIN reqList : reqList'[i] = reqList[j]
        BY <2>2
      <3>2. \A j \in DOMAIN reqList :
               LET p == reqList[j] IN
               /\ Serves(p, txn'[p.src])
               /\ p = [NoReq EXCEPT !.op = p.op, !.src = p.src, !.line = p.line, !.ack = p.ack]
        BY <1>1 DEF IInv, ListInv
      <3> QED BY <3>1, <3>2
    <2> QED BY <2>3, <2>4 DEF ListInv, Serves
  <1>10. HomeShape' /\ PhaseInv' /\ \A r \in Requesters : ~dvm'[r]
    <2>1. CASE GetSnpAttr(q.op) /\ IsSnoopingReq(q.op) /\ SnoopPorts(q) # {}
      <3>1. q.op \in Snooping
        BY <1>4, <2>1, Classes
      <3>2. Snoop(q)
        BY <1>2, <2>1
      <3>3. ~Listed(q.src)' /\ \A r \in Requesters \ {q.src} : Listed(r)' <=> Listed(r)
        BY <1>5
      <3>4. HomeShape' /\ Snoops'
        BY <1>1, <1>3, <1>4, <1>6, <2>1, <3>1, <3>2, <3>3, SnoopPhase
      <3> QED BY <1>1, <1>7, <3>4 DEF PhaseInv
    <2>2. CASE ~(GetSnpAttr(q.op) /\ IsSnoopingReq(q.op) /\ SnoopPorts(q) # {})
      <3>1. ProcessReq(q, filter)
        BY <1>2, <2>2
      <3>2. Ready(q)
        BY <1>4 DEF Ready, MayAsk
      <3>3. Turn(q.src)
        <4>1. \A r \in Requesters : up'[r].req = up[r].req /\ Silent(r)' /\ down[r].snp = <<>>
          BY <1>1, <1>3 DEF Idle, Calm, Silent
        <4>2. \A r \in Requesters \ {q.src} : Aside(r) /\ (Listed(r)' <=> Listed(r))
          BY <1>3, <1>5 DEF Idle
        <4>3. toSN = <<>> /\ fromSN'.rsp = <<>> /\ fromSN'.dat = <<>> /\ NoAtomic'
          BY <1>1, <1>3 DEF Idle, SNIdle, NoAtomic, AtomicAt
        <4> QED BY <1>1, <1>5, <1>6, <4>1, <4>2, <4>3 DEF Turn, Queued, IInv, Shape
      <3> QED BY <1>1, <1>4, <1>7, <3>1, <3>2, <3>3, ProcessReqPhase
    <2> QED BY <2>1, <2>2
  <1>11. Shape'
    <2>1. HomeShape' /\ IsSeq(reqList')
      BY <1>1, <1>4, <1>10
    <2> QED BY <1>1, <2>1 DEF HomeShape, IInv, Shape
  <1>12. SlaveInv'
    BY <1>1 DEF IInv, SlaveInv, Pending, AtomicAt
  <1>13. DVMInv'
    BY <1>10 DEF DVMInv
  <1> QED BY <1>8, <1>9, <1>10, <1>11, <1>12, <1>13 DEF IInv

(***************************************************************************)
(* The answers to a snoop.                                                 *)
(***************************************************************************)
Fwded == {"SnpRespFwded", "SnpRespDataFwded"}

\* The request with the answer m in it.
LEMMA TrackedIs ==
    ASSUME IsReq(cur), NEW r, NEW m
    PROVE  LET q == Tracked(r, m) IN
           /\ IsReq(q) /\ q.waiting = cur.waiting \ {r}
           /\ q.fwded = (cur.fwd /\ m.t \in Fwded)
           /\ q.op = cur.op /\ q.src = cur.src /\ q.line = cur.line /\ q.ack = cur.ack
           /\ q.fwd = cur.fwd /\ q.snGot = cur.snGot /\ q.ackRcvd = cur.ackRcvd
           /\ q.waitAck = cur.waitAck /\ q.waitReceipt = cur.waitReceipt
           /\ q.toSNDone = cur.toSNDone
           /\ m.t \notin OnDat => q.hasData = cur.hasData
  <1>1. PICK d : d = Merge(ZeroData, m.data, m.be)
    OBVIOUS
  <1>2. PICK q : q = IF m.t \in {"SnpRespData", "SnpRespDataPtl", "SnpRespDataFwded"}
                     THEN [CopyData(cur, m) EXCEPT !.hasData = TRUE,
                                                   !.ptl = @ \/ m.t = "SnpRespDataPtl"]
                     ELSE cur
    OBVIOUS
  <1>3. /\ IsReq(q) /\ q.waiting = cur.waiting
        /\ q.op = cur.op /\ q.src = cur.src /\ q.line = cur.line /\ q.ack = cur.ack
        /\ q.fwd = cur.fwd /\ q.snGot = cur.snGot /\ q.ackRcvd = cur.ackRcvd
        /\ q.waitAck = cur.waitAck /\ q.waitReceipt = cur.waitReceipt
        /\ q.toSNDone = cur.toSNDone
        /\ m.t \notin OnDat => q.hasData = cur.hasData
    <2>1. CASE m.t \in {"SnpRespData", "SnpRespDataPtl", "SnpRespDataFwded"}
      BY <1>1, <1>2, <2>1 DEF CopyData, IsReq, ReqFields, OnDat
    <2>2. CASE m.t \notin {"SnpRespData", "SnpRespDataPtl", "SnpRespDataFwded"}
      BY <1>2, <2>2
    <2> QED BY <2>1, <2>2
  <1>4. Tracked(r, m) =
          [q EXCEPT !.waiting = @ \ {r}, !.shared = @ \/ m.st # "I", !.dirty = @ \/ m.pd,
                    !.fwded = q.fwd /\ m.t \in {"SnpRespFwded", "SnpRespDataFwded"}]
    BY <1>2 DEF Tracked
  <1> QED BY <1>3, <1>4 DEF IsReq, ReqFields, Fwded

LEMMA ParsedIs ==
    ASSUME NEW q, IsReq(q)
    PROVE  LET p == ParseSnpResponses(q) IN
           /\ IsReq(p) /\ p.waiting = q.waiting
           /\ p.op = q.op /\ p.src = q.src /\ p.line = q.line /\ p.ack = q.ack
           /\ p.snGot = q.snGot /\ p.ackRcvd = q.ackRcvd /\ p.waitReceipt = q.waitReceipt
           /\ p.fwded = q.fwded
           /\ p.gotSnpData = q.hasData /\ p.snpPD = q.dirty /\ p.hasData = q.hasData
  BY DEF ParseSnpResponses, IsReq, ReqFields

\* An answer leaves the cache: with it, or after it, forwarded data.
Answered(r, m) ==
    /\ m.t \in OnRsp \cup OnDat
    /\ \A q \in Requesters \ {r} : up'[q] = up[q]
    /\ up'[r].req = up[r].req /\ up'[r].rsp = <<>>
    /\ m.t \in Fwded => /\ One(up'[r].dat) /\ up'[r].dat[1].t = "CompData"
                        /\ up'[r].dat[1].to = src /\ IsMsg(up'[r].dat[1])
    /\ m.t \notin Fwded => up'[r].dat = <<>>

LEMMA AnsweredPhase ==
    ASSUME IInv, Snoops, NEW r \in Requesters, r \in cur.waiting, down[r].snp = <<>>,
           NEW m, Answered(r, m), m.t \in Fwded => cur.fwd, RxSnpResp(r, m),
           UNCHANGED <<txn, writes, snToggle>>
    PROVE  HomeShape' /\ PhaseInv'
  <1>1. PICK q : q = Tracked(r, m)
    OBVIOUS
  <1>2. /\ IsReq(q) /\ q.waiting = cur.waiting \ {r}
        /\ q.fwded = (cur.fwd /\ m.t \in Fwded)
        /\ q.op = cur.op /\ q.src = cur.src /\ q.line = cur.line /\ q.ack = cur.ack
        /\ q.fwd = cur.fwd /\ q.snGot = cur.snGot /\ q.ackRcvd = cur.ackRcvd
        /\ q.waitAck = cur.waitAck /\ q.waitReceipt = cur.waitReceipt
    BY <1>1, TrackedIs DEF IInv, Shape
  <1>3. q.fwded <=> m.t \in Fwded
    BY <1>2
  <1>4. /\ UNCHANGED <<snData, fromSN, reqList>>
        /\ IF q.waiting = {} /\ ~q.fwded
           THEN ProcessSnpdReq(ParseSnpResponses(q), FilterAfterSnp(r, m))
           ELSE /\ cur' = IF q.waiting = {} /\ q.ackRcvd THEN NoReq ELSE q
                /\ UNCHANGED <<down, toSN>>
    BY <1>1 DEF RxSnpResp
  <1>5. cur.op # "DVMOp" /\ r # src /\ ~cur.ackRcvd /\ cur.snGot = {} /\ ~cur.waitReceipt
        /\ cur.waiting \subseteq Requesters \ {src}
    BY DEF Snoops, Snooping, ReadOnces, Fills, Upgrading, Informing, UniqueWrites, Swapping
  <1>6. /\ DOMAIN down = Requesters
        /\ \A s \in Requesters : DOMAIN down[s] = {"rsp", "dat", "snp"}
    BY DEF IInv, Shape
  <1>7. Served /\ Unanswered /\ Others /\ SNIdle /\ NoAtomic /\ cur.op \in Snooping
    BY DEF Snoops
  <1>8. src \in Requesters /\ src = cur.src
    BY <1>7 DEF Served, Serves, src
  <1>9. \A s : Listed(s)' <=> Listed(s)
    BY <1>4 DEF Listed
  <1>10. CASE q.waiting = {} /\ ~q.fwded
    <2>1. PICK p : p = ParseSnpResponses(q)
      OBVIOUS
    <2>2. /\ IsReq(p) /\ p.waiting = q.waiting
          /\ p.op = q.op /\ p.src = q.src /\ p.line = q.line /\ p.ack = q.ack
          /\ p.snGot = q.snGot /\ p.ackRcvd = q.ackRcvd /\ p.waitReceipt = q.waitReceipt
          /\ p.fwded = q.fwded
      BY <1>2, <2>1, ParsedIs
    <2>3. ProcessSnpdReq(p, FilterAfterSnp(r, m))
      BY <1>4, <1>10, <2>1
    <2>4. Ready(p)
      BY <1>2, <1>5, <1>7, <1>10, <2>2 DEF Ready, Served, Serves, MayAsk, src
    <2>5. Turn(p.src)
      <3>1. PICK z : z = src
        OBVIOUS
      <3>2. cur.waiting = {r} /\ p.src = z /\ m.t \notin Fwded
        BY <1>2, <1>3, <1>8, <1>10, <2>2, <3>1
      <3>3. up'[r].req = up[r].req /\ Silent(r)' /\ down[r].snp = <<>>
        BY <3>2 DEF Answered, Silent
      <3>4. \A s \in Requesters \ {r} : Calm(s)
        <4>1. Calm(src)
          BY <1>7 DEF Served, Unanswered, Calm
        <4> QED BY <3>2, <4>1 DEF Snoops
      <3>5. \A s \in Requesters \ {r} : up'[s].req = up[s].req /\ Silent(s)' /\ down[s].snp = <<>>
        BY <3>4 DEF Answered, Calm, Silent
      <3>6. \A s \in Requesters \ {z} : Aside(s) /\ (Listed(s)' <=> Listed(s))
        BY <1>7, <1>9, <3>1 DEF Others
      <3>7. toSN = <<>> /\ fromSN'.rsp = <<>> /\ fromSN'.dat = <<>> /\ NoAtomic'
        BY <1>4, <1>7 DEF SNIdle, NoAtomic, AtomicAt
      <3>8. up[z].req = <<>> /\ ~Listed(z)' /\ NoAnswer(z) /\ Untouched(z)
        <4>1. up[z].req = <<>> /\ ~Listed(z) /\ NoAnswer(z) /\ Untouched(z)
          BY <1>7, <3>1 DEF Served, Unanswered
        <4> QED BY <1>9, <4>1
      <3>9. Turn(z)
        BY <1>6, <3>3, <3>5, <3>6, <3>7, <3>8 DEF Turn
      <3> QED BY <3>2, <3>9
    <2>6. p.op \in Snooping /\ p.snGot = {}
      BY <1>2, <1>5, <1>7, <2>2
    <2> QED BY <2>3, <2>4, <2>5, <2>6, ProcessSnpdReqPhase
  <1>11. CASE ~(q.waiting = {} /\ ~q.fwded)
    <2>1. cur' = q /\ down' = down /\ toSN' = toSN
      BY <1>2, <1>4, <1>5, <1>11
    <2>2. HomeShape'
      BY <1>2, <1>6, <2>1 DEF HomeShape
    <2>3. src' = src /\ SNIdle' /\ NoAtomic'
      BY <1>2, <1>4, <1>7, <2>1 DEF src, SNIdle, NoAtomic, AtomicAt
    <2>4. \A s \in Requesters \ {r} : up'[s] = up[s] /\ down'[s] = down[s] /\ txn'[s] = txn[s]
      BY <2>1 DEF Answered
    <2>5. \A s \in Requesters \ {src} : Aside(s)'
      <3>1. \A s \in Requesters : /\ txn'[s] = txn[s] /\ up'[s].req = up[s].req
                                  /\ down'[s].rsp = down[s].rsp /\ down'[s].dat = down[s].dat
        BY <2>1, <2>4 DEF Answered
      <3> QED BY <1>7, <1>9, <3>1, AsideStays DEF Others
    <2>6. Served' /\ Unanswered'
      <3>1. PICK z : z = src
        OBVIOUS
      <3>2. z # r /\ z \in Requesters
        BY <1>5, <1>8, <3>1
      <3>3. up'[z] = up[z] /\ down'[z] = down[z] /\ txn'[z] = txn[z] /\ (Listed(z)' <=> Listed(z))
        BY <1>9, <2>4, <3>2
      <3>4. cur.src = z /\ src' = z /\ cur'.src = z
        BY <1>8, <2>3, <3>1 DEF src
      <3>5. Serves(cur', txn'[z])
        BY <1>2, <1>7, <2>1, <3>1, <3>3 DEF Served, Serves
      <3> QED BY <1>7, <3>1, <3>3, <3>4, <3>5 DEF Served, Unanswered, NoAnswer, Silent, Untouched
    <2>7. CASE q.waiting # {}
      <3>1. m.t \notin Fwded
        BY <1>2, <2>7 DEF Snoops
      <3>2. Calm(r)'
        BY <2>1, <3>1 DEF Answered, Calm, Silent
      <3>3. ASSUME NEW s \in Requesters \ {r}
            PROVE  (Calm(s) => Calm(s)') /\ (Snooped(s) => Snooped(s)')
        <4>2. SnoopMsg' = SnoopMsg
          BY <1>2, <2>1, <2>3 DEF SnoopMsg
        <4>3. cur'.fwd = cur.fwd
          BY <1>2, <2>1
        <4> QED BY <2>3, <2>4, <4>2, <4>3
                DEF Calm, Snooped, Silent, AnswersOnRsp, AnswersOnDat, One
      <3>4. \A s \in Requesters \ {src} : IF s \in cur'.waiting THEN Snooped(s)' ELSE Calm(s)'
        <4>1. \A s \in Requesters \ {src} : IF s \in cur.waiting THEN Snooped(s) ELSE Calm(s)
          BY DEF Snoops
        <4>2. cur'.waiting = cur.waiting \ {r}
          BY <1>2, <2>1
        <4>3. ASSUME NEW s \in Requesters \ {src}
              PROVE  IF s \in cur'.waiting THEN Snooped(s)' ELSE Calm(s)'
          <5>1. CASE s = r
            BY <3>2, <4>2, <5>1
          <5>2. CASE s # r
            <6>1. s \in cur'.waiting <=> s \in cur.waiting
              BY <4>2, <5>2
            <6>2. (Calm(s) => Calm(s)') /\ (Snooped(s) => Snooped(s)')
              BY <3>3, <5>2
            <6> QED BY <4>1, <6>1, <6>2
          <5> QED BY <5>1, <5>2
        <4> QED BY <4>3
      <3>5. cur'.fwd => /\ \A s, t \in cur'.waiting : s = t
                        /\ cur'.op \in ReadOnces \cup Fills /\ cur'.waitAck
        BY <1>2, <2>1 DEF Snoops
      <3>6. ~cur'.fwded
        BY <1>3, <2>1, <3>1
      <3>7. Snoops'
        BY <1>2, <1>5, <1>7, <2>1, <2>3, <2>5, <2>6, <2>7, <3>4, <3>5, <3>6
           DEF Snoops, Others
      <3> QED BY <2>2, <3>7 DEF PhaseInv
    <2>8. CASE q.waiting = {} /\ q.fwded
      <3>1. cur.waiting = {r} /\ m.t \in Fwded /\ cur.fwd
        BY <1>2, <1>3, <2>8
      <3>2. cur'.op \in ReadOnces \cup Fills /\ cur'.waitAck /\ cur'.fwded
        BY <1>2, <2>1, <2>8, <3>1 DEF Snoops
      <3>3. \A s \in Requesters \ {src, r} : Calm(s)'
        <4>1. \A s \in Requesters \ {src, r} : Calm(s)
          BY <3>1 DEF Snoops
        <4> QED BY <2>4, <4>1 DEF Calm, Silent
      <3>4. /\ One(up'[r].dat) /\ up'[r].dat[1].t = "CompData"
            /\ up'[r].dat[1].to = src' /\ IsMsg(up'[r].dat[1])
            /\ up'[r].rsp = <<>> /\ down'[r].snp = <<>>
        BY <2>1, <2>3, <3>1 DEF Answered
      <3>5. Forwards'
        <4>1. r \in Requesters \ {src'}
          BY <1>5, <2>3
        <4> QED BY <2>3, <2>6, <3>2, <3>3, <3>4, <4>1 DEF Forwards, One, IsMsg
      <3>6. Gives'
        BY <1>2, <1>5, <2>1, <2>3, <2>5, <2>6, <2>8, <3>2, <3>5
           DEF Gives, Fixed, Others, Reading
      <3> QED BY <2>2, <3>6 DEF PhaseInv
    <2> QED BY <1>11, <2>7, <2>8
  <1> QED BY <1>10, <1>11

\* Only the home node and the channels have moved.
LEMMA HomeStep ==
    ASSUME IInv, HomeShape', PhaseInv',
           UNCHANGED <<txn, dvm, access, stage, want, mode, reqList, writes, snData>>,
           DOMAIN fromSN' = DOMAIN fromSN, Pending' = Pending,
           DOMAIN up' = Requesters, \A q \in Requesters : DOMAIN up'[q] = DOMAIN up[q],
           \A q \in Requesters : ~dvm[q] \/ (cur'.op = "DVMOp" /\ q \in cur'.waiting)
    PROVE  IInv'
  <1>1. TxnInv'
    BY DEF IInv, TxnInv
  <1>2. Shape'
    BY DEF IInv, Shape, HomeShape
  <1>3. DVMInv'
    BY DEF DVMInv
  <1>4. SlaveInv'
    BY DEF IInv, SlaveInv, AtomicAt
  <1>5. ListInv'
    BY ListStays DEF IInv
  <1> QED BY <1>1, <1>2, <1>3, <1>4, <1>5 DEF IInv

LEMMA SnoopRspStep ==
    ASSUME IInv, NEW r \in Requesters, Snoops, r \in cur.waiting, down[r].snp = <<>>,
           AnswersOnRsp(r), SendRsp(r)
    PROVE  IInv'
  <1>1. PICK m : m = Head(up[r].rsp)
    OBVIOUS
  <1>2. /\ TransmitRsp(r, m) /\ HnRxRsp(r, m) /\ UNCHANGED <<mode, snVars>>
    BY <1>1 DEF SendRsp
  <1>3. /\ m = up[r].rsp[1] /\ Tail(up[r].rsp) = <<>> /\ up[r].dat = <<>>
        /\ m.t \in {"SnpResp", "SnpRespFwded"}
        /\ m.t = "SnpRespFwded" => cur.fwd /\ m.to = src
    <2>1. up[r].rsp = <<up[r].rsp[1]>>
      BY DEF AnswersOnRsp, One
    <2>2. Head(up[r].rsp) = up[r].rsp[1] /\ Tail(up[r].rsp) = <<>>
      BY <2>1, OneIs
    <2> QED BY <1>1, <2>2 DEF AnswersOnRsp
  <1>4. /\ up' = IF m.t = "SnpRespFwded"
                 THEN Put(Drop(up, r, "rsp"), r, "dat", Forwarded(r, m)) ELSE Drop(up, r, "rsp")
        /\ UNCHANGED <<txn, access, stage, want, dvm, writes, snToggle, mode>>
    BY <1>2, <1>3 DEF TransmitRsp, snVars
  <1>5. RxSnpResp(r, m)
    BY <1>2, <1>3 DEF HnRxRsp
  <1>6. UNCHANGED <<snData, fromSN, reqList>>
    BY <1>5 DEF RxSnpResp
  <1>7. /\ DOMAIN up' = Requesters /\ DOMAIN up'[r] = DOMAIN up[r]
        /\ \A q \in Requesters \ {r} : up'[q] = up[q]
        /\ up'[r].req = up[r].req /\ up'[r].rsp = <<>>
        /\ m.t = "SnpRespFwded" => up'[r].dat = <<Forwarded(r, m)>>
        /\ m.t # "SnpRespFwded" => up'[r].dat = <<>>
    <2>1. CASE m.t = "SnpRespFwded"
      <3>1. Append(<<>>, Forwarded(r, m)) = <<Forwarded(r, m)>>
        BY AppendIs
      <3> QED BY <1>3, <1>4, <2>1, <3>1 DEF IInv, Shape, Put, Drop
    <2>2. CASE m.t # "SnpRespFwded"
      BY <1>3, <1>4, <2>2 DEF IInv, Shape, Drop
    <2> QED BY <2>1, <2>2
  <1>8. Answered(r, m)
    <2>1. CASE m.t = "SnpRespFwded"
      <3>1. PICK f : f = Forwarded(r, m)
        OBVIOUS
      <3>2. f.t = "CompData" /\ f.to = src /\ IsMsg(f)
        BY <1>3, <2>1, <3>1, MsgIs DEF Forwarded
      <3>3. up'[r].dat # <<>> /\ up'[r].dat[1] = f /\ up'[r].dat = <<up'[r].dat[1]>>
        BY <1>7, <2>1, <3>1, OneIs
      <3> QED BY <1>3, <1>7, <2>1, <3>2, <3>3 DEF Answered, One, IsMsg, OnRsp, Fwded
    <2>2. CASE m.t # "SnpRespFwded"
      BY <1>3, <1>7, <2>2 DEF Answered, OnRsp, Fwded
    <2> QED BY <2>1, <2>2
  <1>9. m.t \in Fwded => cur.fwd
    BY <1>3 DEF Fwded
  <1>10. HomeShape' /\ PhaseInv'
    BY <1>4, <1>5, <1>8, <1>9, AnsweredPhase
  <1>11. \A q \in Requesters : ~dvm[q]
    BY DEF IInv, DVMInv, Snoops, Snooping, ReadOnces, Fills, Upgrading, Informing, UniqueWrites,
           Swapping
  <1>12. Pending' = Pending /\ \A q \in Requesters : DOMAIN up'[q] = DOMAIN up[q]
    BY <1>6, <1>7 DEF Pending
  <1> QED BY <1>4, <1>6, <1>7, <1>10, <1>11, <1>12, HomeStep

\* The answer to a DVM operation: it is complete with the last one.
LEMMA DVMRspStep ==
    ASSUME IInv, NEW r \in Requesters, SnoopsDVM, r \in cur.waiting, down[r].snp = <<>>,
           ~dvm[r], up[r].rsp = <<SnpRespI>>, up[r].dat = <<>>, SendRsp(r)
    PROVE  IInv'
  <1>1. PICK m : m = Head(up[r].rsp)
    OBVIOUS
  <1>2. /\ TransmitRsp(r, m) /\ HnRxRsp(r, m) /\ UNCHANGED <<mode, snVars>>
    BY <1>1 DEF SendRsp
  <1>3. m = SnpRespI /\ Tail(up[r].rsp) = <<>> /\ m.t = "SnpResp"
    BY <1>1, OneIs, Answers
  <1>4. /\ up' = Drop(up, r, "rsp")
        /\ UNCHANGED <<txn, access, stage, want, dvm, writes, snToggle, mode>>
    BY <1>2, <1>3 DEF TransmitRsp, snVars
  <1>5. PICK q : q = Tracked(r, m)
    OBVIOUS
  <1>6. /\ IsReq(q) /\ q.waiting = cur.waiting \ {r}
        /\ q.op = cur.op /\ q.src = cur.src /\ q.line = cur.line /\ q.ack = cur.ack
        /\ q.ackRcvd = cur.ackRcvd /\ q.hasData = cur.hasData /\ ~q.fwded
    <2>1. /\ IsReq(q) /\ q.waiting = cur.waiting \ {r}
          /\ q.op = cur.op /\ q.src = cur.src /\ q.line = cur.line /\ q.ack = cur.ack
          /\ q.ackRcvd = cur.ackRcvd /\ (m.t \notin OnDat => q.hasData = cur.hasData)
          /\ q.fwded = (cur.fwd /\ m.t \in Fwded)
      BY <1>5, TrackedIs DEF IInv, Shape
    <2>2. m.t \notin OnDat /\ m.t \notin Fwded
      BY <1>3 DEF OnDat, Fwded
    <2> QED BY <2>1, <2>2
  <1>7. /\ UNCHANGED <<snData, fromSN, reqList>>
        /\ IF q.waiting = {}
           THEN ProcessSnpdReq(ParseSnpResponses(q), FilterAfterSnp(r, m))
           ELSE cur' = q /\ UNCHANGED <<down, toSN>>
    BY <1>2, <1>3, <1>5, <1>6 DEF HnRxRsp, RxSnpResp
  <1>8. /\ DOMAIN up' = Requesters /\ DOMAIN up'[r] = DOMAIN up[r]
        /\ \A s \in Requesters \ {r} : up'[s] = up[s]
        /\ up'[r].req = up[r].req /\ up'[r].rsp = <<>> /\ up'[r].dat = <<>>
    BY <1>3, <1>4 DEF IInv, Shape, Drop
  <1>9. /\ cur.op = "DVMOp" /\ Served /\ NoAnswer(src) /\ Silent(src)
        /\ "Sent" \in txn[src].got /\ "Comp" \notin txn[src].got
        /\ Others /\ SNIdle /\ NoAtomic /\ ~cur.hasData /\ ~cur.ackRcvd
        /\ cur.waiting \subseteq Requesters \ {src}
    BY DEF SnoopsDVM
  <1>10. PICK z : z = src /\ z = cur.src /\ z \in Requesters /\ z # r
    BY <1>9 DEF Served, Serves, src
  <1>11. \A s : Listed(s)' <=> Listed(s)
    BY <1>7 DEF Listed
  <1>12. \A s \in Requesters : DOMAIN up'[s] = DOMAIN up[s]
    BY <1>8
  <1>13. Pending' = Pending
    BY <1>7 DEF Pending
  <1>14. CASE q.waiting # {}
    <2>1. cur' = q /\ down' = down /\ toSN' = toSN
      BY <1>7, <1>14
    <2>2. HomeShape'
      BY <1>6, <2>1 DEF HomeShape, IInv, Shape
    <2>3. src' = src /\ SNIdle' /\ NoAtomic'
      BY <1>4, <1>6, <1>7, <1>9, <2>1 DEF src, SNIdle, NoAtomic, AtomicAt
    <2>4. \A s \in Requesters \ {r} : Rests(s)
      BY <1>4, <1>8, <1>11, <2>1 DEF Rests
    <2>5. Aside(r)' /\ Calm(r)'
      <3>1. Aside(r)
        BY <1>9, <1>10 DEF Others
      <3>2. Aside(r)'
        BY <1>4, <1>8, <1>11, <2>1, <3>1, AsideStays
      <3> QED BY <1>8, <2>1, <3>2 DEF Calm, Silent
    <2>6. Others'
      <3>1. ASSUME NEW s \in Requesters \ {src} PROVE Aside(s)'
        BY <1>9, <2>4, <2>5, RestsIs DEF Others
      <3> QED BY <2>3, <3>1 DEF Others
    <2>7. Served' /\ NoAnswer(src)' /\ Silent(src)'
      <3>1. up'[z] = up[z] /\ down'[z] = down[z] /\ txn'[z] = txn[z] /\ (Listed(z)' <=> Listed(z))
        BY <1>4, <1>8, <1>10, <1>11, <2>1
      <3>2. src' = z /\ cur'.src = z
        BY <1>10, <2>3, <1>6, <2>1
      <3>3. Serves(cur', txn'[z])
        BY <1>6, <1>9, <1>10, <2>1, <3>1 DEF Served, Serves
      <3> QED BY <1>9, <1>10, <3>1, <3>2, <3>3 DEF Served, NoAnswer, Silent
    <2>8. ASSUME NEW s \in Requesters \ {src'}
          PROVE  IF s \in cur'.waiting THEN SnoopedDVM(s)' ELSE Calm(s)'
      <3>1. CASE s = r
        BY <1>6, <2>1, <2>5, <3>1
      <3>2. CASE s # r
        <4>1. Rests(s) /\ (s \in cur'.waiting <=> s \in cur.waiting)
          BY <1>6, <2>1, <2>4, <3>2
        <4>2. IF s \in cur.waiting THEN SnoopedDVM(s) ELSE Calm(s)
          BY <2>3 DEF SnoopsDVM
        <4>3. cur'.line = cur.line
          BY <1>6, <2>1
        <4> QED BY <2>3, <4>1, <4>2, <4>3, RestsIs
      <3> QED BY <3>1, <3>2
    <2>9. txn'[src'] = txn[src]
      BY <1>4, <2>3
    <2>10. SnoopsDVM'
      BY <1>6, <1>9, <2>1, <2>3, <2>6, <2>7, <2>8, <2>9 DEF SnoopsDVM
    <2>11. \A s \in Requesters : ~dvm[s] \/ (cur'.op = "DVMOp" /\ s \in cur'.waiting)
      BY <1>6, <1>9, <2>1 DEF IInv, DVMInv
    <2> QED BY <1>4, <1>7, <1>8, <1>12, <1>13, <2>2, <2>10, <2>11, HomeStep DEF PhaseInv
  <1>15. CASE q.waiting = {}
    <2>1. cur.waiting = {r}
      BY <1>6, <1>15
    <2>2. PICK p : p = ParseSnpResponses(q)
      OBVIOUS
    <2>3. p.op = "DVMOp" /\ p.src = z /\ ~p.gotSnpData
      BY <1>6, <1>9, <1>10, <2>2, ParsedIs
    <2>4. ToRN(p, CompI) /\ cur' = NoReq /\ UNCHANGED toSN
      <3>1. ~MustWriteBack(p) /\ ~CanAnswer(p)
        BY <2>3 DEF MustWriteBack, CanAnswer
      <3>2. ProcessSnpdReq(p, FilterAfterSnp(r, m))
        BY <1>7, <1>15, <2>2
      <3> QED BY <2>3, <3>1, <3>2 DEF ProcessSnpdReq, CompI
    <2>5. /\ DOMAIN down' = Requesters
          /\ \A s \in Requesters : DOMAIN down'[s] = DOMAIN down[s]
          /\ \A s \in Requesters \ {z} : down'[s] = down[s]
          /\ down'[z].snp = down[z].snp
          /\ down'[z].rsp = <<CompI>> /\ down'[z].dat = <<>>
      <3>1. down' = Put(down, z, "rsp", CompI)
        BY <2>3, <2>4, Answers DEF ToRN
      <3>2. NoAnswer(z)
        BY <1>9, <1>10
      <3> QED BY <1>10, <3>1, <3>2, AppendIs DEF Put, NoAnswer, IInv, Shape
    <2>6. HomeShape'
      BY <2>4, <2>5, NoReqIs DEF HomeShape, IInv, Shape
    <2>7. ASSUME NEW s \in Requesters \ {z} PROVE Aside(s)' /\ Calm(s)'
      <3>1. Aside(s)
        BY <1>9, <1>10, <2>7 DEF Others
      <3>2. txn'[s] = txn[s] /\ up'[s].req = up[s].req /\ down'[s] = down[s]
        BY <1>4, <1>8, <2>5, <2>7
      <3>3. Aside(s)'
        BY <1>11, <3>1, <3>2, AsideStays
      <3>4. CASE s = r
        BY <1>8, <3>2, <3>3, <3>4 DEF Calm, Silent
      <3>5. CASE s # r
        <4>1. Calm(s)
          BY <1>10, <2>1, <2>7, <3>5 DEF SnoopsDVM
        <4> QED BY <1>8, <3>2, <3>3, <3>5, <4>1 DEF Calm, Silent
      <3> QED BY <3>4, <3>5
    <2>8. Informed(z)' /\ Calm(z)'
      <3>1. up'[z] = up[z] /\ txn'[z] = txn[z]
        BY <1>4, <1>8, <1>10
      <3>2. /\ up[z].req = <<>> /\ ~Listed(z) /\ Silent(z) /\ down[z].snp = <<>>
            /\ txn[z].op = "DVMOp" /\ "Sent" \in txn[z].got /\ "Comp" \notin txn[z].got
        BY <1>9, <1>10 DEF Served, Serves
      <3> QED BY <1>11, <2>5, <3>1, <3>2 DEF Informed, Calm, Silent
    <2>9. SNIdle' /\ NoAtomic'
      BY <1>4, <1>7, <1>9, <2>4 DEF SNIdle, NoAtomic, AtomicAt
    <2>10. Idle'
      BY <2>4, <2>7, <2>8, <2>9 DEF Idle, Aside
    <2>11. \A s \in Requesters : ~dvm[s]
      BY <2>1 DEF IInv, DVMInv
    <2> QED BY <1>4, <1>7, <1>8, <1>12, <1>13, <2>6, <2>10, <2>11, HomeStep DEF PhaseInv
  <1> QED BY <1>14, <1>15

(***************************************************************************)
(* The acknowledgement.                                                    *)
(***************************************************************************)
LEMMA AckStep ==
    ASSUME IInv, NEW r \in Requesters, r = src, up[r].rsp = <<CompAck>>,
           \/ Gives /\ Acknowledged
           \/ Writes /\ Owed /\ Served,
           SendRsp(r)
    PROVE  IInv'
  <1>1. PICK m : m = Head(up[r].rsp)
    OBVIOUS
  <1>2. /\ TransmitRsp(r, m) /\ HnRxRsp(r, m) /\ UNCHANGED <<mode, snVars>>
    BY <1>1 DEF SendRsp
  <1>3. m = CompAck /\ Tail(up[r].rsp) = <<>> /\ m.t = "CompAck"
    BY <1>1, OneIs, Answers
  <1>4. /\ up' = Drop(up, r, "rsp") /\ txn' = [txn EXCEPT ![r] = Done(@)]
        /\ UNCHANGED <<access, stage, want, dvm, writes, snToggle, mode>>
    BY <1>2, <1>3 DEF TransmitRsp, snVars
  <1>5. /\ RxCompAck(r)
        /\ UNCHANGED <<down, toSN, snData, fromSN, reqList>>
    BY <1>2, <1>3 DEF HnRxRsp, RxCompAck
  <1>6. /\ Served /\ Others /\ OthersCalm /\ NoAnswer(r) /\ NoAtomic
        /\ up[r].dat = <<>> /\ cur.waiting = {} /\ ~cur.waitReceipt
    <2>1. Gives /\ Acknowledged => /\ Served /\ Others /\ OthersCalm /\ NoAnswer(r) /\ NoAtomic
                                   /\ up[r].dat = <<>> /\ cur.waiting = {} /\ ~cur.waitReceipt
      BY DEF Gives, Acknowledged, Fixed
    <2>2. Writes /\ Owed /\ Served => /\ Served /\ Others /\ OthersCalm /\ NoAnswer(r) /\ NoAtomic
                                   /\ up[r].dat = <<>> /\ cur.waiting = {} /\ ~cur.waitReceipt
      BY DEF Writes, Fixed
    <2> QED BY <2>1, <2>2
  <1>7. /\ DOMAIN up' = Requesters /\ DOMAIN up'[r] = DOMAIN up[r]
        /\ \A s \in Requesters \ {r} : up'[s] = up[s]
        /\ up'[r].req = up[r].req /\ up'[r].rsp = <<>> /\ up'[r].dat = <<>>
    BY <1>3, <1>4, <1>6 DEF IInv, Shape, Drop
  <1>8. /\ DOMAIN txn' = Requesters /\ txn'[r].op = "none" /\ IsTxn(txn'[r])
        /\ \A q \in Requesters \ {r} : txn'[q] = txn[q]
    BY <1>4, DoneIs DEF IInv, Shape
  <1>9. \A s : Listed(s)' <=> Listed(s)
    BY <1>5 DEF Listed
  <1>10. Free(r)' /\ Calm(r)'
    <2>1. up[r].req = <<>> /\ ~Listed(r) /\ down[r].snp = <<>>
      BY <1>6 DEF Served
    <2> QED BY <1>5, <1>6, <1>7, <1>8, <1>9, <2>1 DEF Free, NoAnswer, Calm, Silent
  <1>11. ASSUME NEW s \in Requesters \ {r} PROVE Aside(s)' /\ Calm(s)'
    <2>1. Rests(s)
      BY <1>4, <1>5, <1>7, <1>8, <1>9 DEF Rests
    <2>2. Aside(s) /\ Calm(s)
      BY <1>6 DEF Others, OthersCalm
    <2> QED BY <2>1, <2>2, RestsIs
  <1>12. TxnInv'
    BY <1>4, <1>8, TxnStays DEF IInv
  <1>13. ListInv'
    <2>1. \A q \in Requesters : Listed(q) => txn'[q] = txn[q]
      BY <1>6, <1>8 DEF Served
    <2> QED BY <1>5, <2>1, ListStays DEF IInv
  <1>14. DVMInv'
    BY <1>4, <1>6 DEF IInv, DVMInv
  <1>15. SlaveInv'
    BY <1>4, <1>5 DEF IInv, SlaveInv, Pending, AtomicAt
  <1>16. NoAtomic'
    BY <1>4, <1>6 DEF NoAtomic, AtomicAt
  <1>17. IsReq(cur') /\ PhaseInv'
    <2>1. CASE Gives /\ Acknowledged
      <3>1. ~IsWriteUnique(cur.op)
        BY <2>1, Classes DEF Gives, Reading, ReadOnces, Fills, Upgrading, UniqueWrites
      <3>2. cur' = NoReq
        BY <1>5, <1>6, <3>1 DEF RxCompAck
      <3>3. SNIdle'
        BY <1>5, <2>1 DEF Gives, SNIdle
      <3>4. Idle'
        BY <1>10, <1>11, <1>16, <3>2, <3>3 DEF Idle, Aside
      <3> QED BY <3>2, <3>4, NoReqIs DEF PhaseInv
    <2>2. CASE Writes /\ Owed /\ Served
      <3>1. IsWriteUnique(cur.op) /\ cur.op \in Storing
        BY <2>2, Classes DEF Writes, Owed
      <3>2. CASE cur.toSNDone
        <4>1. cur' = NoReq
          BY <1>5, <3>1, <3>2 DEF RxCompAck
        <4>2. SNIdle'
          BY <1>5, <2>2, <3>2 DEF Writes, SNIdle
        <4>3. Idle'
          BY <1>10, <1>11, <1>16, <4>1, <4>2 DEF Idle, Aside
        <4> QED BY <4>1, <4>3, NoReqIs DEF PhaseInv
      <3>3. CASE ~cur.toSNDone
        <4>1. cur' = [cur EXCEPT !.ackRcvd = TRUE]
          BY <1>5, <3>1, <3>3 DEF RxCompAck
        <4>2. /\ IsReq(cur') /\ cur'.ackRcvd /\ cur'.op = cur.op /\ cur'.src = cur.src
              /\ cur'.ack = cur.ack /\ cur'.waiting = cur.waiting
              /\ cur'.waitReceipt = cur.waitReceipt /\ cur'.gotSnpData = cur.gotSnpData
              /\ cur'.toSNDone = cur.toSNDone /\ cur'.snReq = cur.snReq /\ cur'.snGot = cur.snGot
          BY <4>1 DEF IInv, Shape, IsReq, ReqFields
        <4>3. src' = src /\ src' = r
          BY <4>2 DEF src
        <4>4. Others' /\ OthersCalm'
          BY <1>11, <4>3 DEF Others, OthersCalm
        <4>5. \/ SNBusy("WriteNoSnpPtl")' \/ SNBusy("AtomicStoreADD")'
              \/ SNAnswers(CompDBIDResp)'
          <5>1. \/ SNBusy("WriteNoSnpPtl") \/ SNBusy("AtomicStoreADD")
                \/ SNAnswers(CompDBIDResp)
            BY <2>2, <3>3 DEF Writes
          <5> QED BY <1>4, <1>5, <4>2, <5>1
                  DEF SNBusy, SNAsked, SNRetries, SNAnswers, MayAsk
        <4>6. ~Owed' /\ Aside(src)' /\ Silent(src)' /\ down'[src'].snp = <<>>
          <5>1. Aside(r)' /\ Silent(r)' /\ down'[r].snp = <<>>
            BY <1>10 DEF Aside, Calm
          <5> QED BY <1>5, <4>2, <4>3, <5>1
                  DEF Owed, Aside, Free, Asks, Retried, Queued, Informed, Replied, Abandoned, Silent,
                      NoAnswer, Untouched, Listed
        <4>7. Writes'
          <5>1. /\ cur'.op \in Storing /\ src' \in Requesters /\ ~cur'.gotSnpData
                /\ (cur'.ack => cur'.op \in UniqueWrites) /\ ~cur'.toSNDone /\ Fixed'
            BY <1>6, <2>2, <3>3, <4>2, <4>3 DEF Writes, Fixed
          <5> QED BY <1>16, <4>4, <4>5, <4>6, <5>1 DEF Writes
        <4> QED BY <4>2, <4>7 DEF PhaseInv
      <3> QED BY <3>2, <3>3
    <2> QED BY <2>1, <2>2
  <1>18. Shape'
    <2>1. \A q \in Requesters : DOMAIN up'[q] = DOMAIN up[q] /\ IsTxn(txn'[q])
      BY <1>7, <1>8 DEF IInv, Shape
    <2> QED BY <1>4, <1>5, <1>7, <1>8, <1>17, <2>1 DEF IInv, Shape
  <1> QED BY <1>12, <1>13, <1>14, <1>15, <1>17, <1>18 DEF IInv

LEMMA SendRspStep ==
    ASSUME IInv, NEW r \in Requesters, up[r].rsp # <<>>, SendRsp(r)
    PROVE  IInv'
  <1>1. Gives /\ Acknowledged /\ r = src => up[r].rsp = <<CompAck>>
    BY DEF Acknowledged
  <1> QED BY <1>1, UpRspIs, SnoopRspStep, DVMRspStep, AckStep DEF IInv

(***************************************************************************)
(* Data from the requesters.                                               *)
(***************************************************************************)
LEMMA SnoopDatStep ==
    ASSUME IInv, NEW r \in Requesters, Snoops, r \in cur.waiting, down[r].snp = <<>>,
           AnswersOnDat(r), SendDat(r)
    PROVE  IInv'
  <1>1. PICK x : x = Head(up[r].dat)
    OBVIOUS
  <1>2. PICK m : m = Sent(r, x)
    OBVIOUS
  <1>3. PICK a : a = Arrived(m)
    OBVIOUS
  <1>4. /\ TransmitDat(r, m) /\ HnRxDat(r, a) /\ UNCHANGED <<mode, snVars>>
    BY <1>1, <1>2, <1>3 DEF SendDat
  <1>5. /\ x = up[r].dat[1] /\ Tail(up[r].dat) = <<>> /\ up[r].rsp = <<>>
        /\ x.t \in OnDat
        /\ x.t = "SnpRespDataFwded" => cur.fwd /\ x.to = src
    <2>1. up[r].dat = <<up[r].dat[1]>>
      BY DEF AnswersOnDat, One
    <2>2. Head(up[r].dat) = up[r].dat[1] /\ Tail(up[r].dat) = <<>>
      BY <2>1, OneIs
    <2> QED BY <1>1, <2>2 DEF AnswersOnDat, OnDat
  <1>6. m.t = x.t /\ IsMsg(m)
    BY <1>2, <1>5, MsgIs DEF Sent, OnDat
  <1>7. a.t = x.t
    BY <1>3, <1>6, ArrivedIs
  <1>8. /\ up' = IF x.t = "SnpRespDataFwded"
                 THEN Put(Drop(up, r, "dat"), r, "dat", Forwarded(r, x)) ELSE Drop(up, r, "dat")
        /\ UNCHANGED <<txn, access, stage, want, dvm, writes, snToggle, mode>>
    <2>1. x.t \notin {"CopyBackWrData", "NonCopyBackWrData"}
      BY <1>5 DEF OnDat
    <2> QED BY <1>1, <1>4, <1>6, <2>1 DEF TransmitDat, snVars
  <1>9. RxSnpResp(r, a)
    BY <1>4, <1>5, <1>7 DEF HnRxDat, OnDat
  <1>10. UNCHANGED <<snData, fromSN, reqList>>
    BY <1>9 DEF RxSnpResp
  <1>11. /\ DOMAIN up' = Requesters /\ DOMAIN up'[r] = DOMAIN up[r]
         /\ \A q \in Requesters \ {r} : up'[q] = up[q]
         /\ up'[r].req = up[r].req /\ up'[r].rsp = <<>>
         /\ x.t = "SnpRespDataFwded" => up'[r].dat = <<Forwarded(r, x)>>
         /\ x.t # "SnpRespDataFwded" => up'[r].dat = <<>>
    <2>1. CASE x.t = "SnpRespDataFwded"
      <3>1. Append(<<>>, Forwarded(r, x)) = <<Forwarded(r, x)>>
        BY AppendIs
      <3> QED BY <1>5, <1>8, <2>1, <3>1 DEF IInv, Shape, Put, Drop
    <2>2. CASE x.t # "SnpRespDataFwded"
      BY <1>5, <1>8, <2>2 DEF IInv, Shape, Drop
    <2> QED BY <2>1, <2>2
  <1>12. Answered(r, a)
    <2>1. CASE x.t = "SnpRespDataFwded"
      <3>1. PICK f : f = Forwarded(r, x)
        OBVIOUS
      <3>2. f.t = "CompData" /\ f.to = src /\ IsMsg(f)
        BY <1>5, <2>1, <3>1, MsgIs DEF Forwarded
      <3>3. up'[r].dat # <<>> /\ up'[r].dat[1] = f /\ up'[r].dat = <<up'[r].dat[1]>>
        BY <1>11, <2>1, <3>1, OneIs
      <3> QED BY <1>5, <1>7, <1>11, <2>1, <3>2, <3>3 DEF Answered, One, IsMsg, OnDat, Fwded
    <2>2. CASE x.t # "SnpRespDataFwded"
      BY <1>5, <1>7, <1>11, <2>2 DEF Answered, OnDat, Fwded
    <2> QED BY <2>1, <2>2
  <1>13. a.t \in Fwded => cur.fwd
    BY <1>5, <1>7 DEF Fwded, OnDat
  <1>14. HomeShape' /\ PhaseInv'
    BY <1>8, <1>9, <1>12, <1>13, AnsweredPhase
  <1>15. \A q \in Requesters : ~dvm[q]
    BY DEF IInv, DVMInv, Snoops, Snooping, ReadOnces, Fills, Upgrading, Informing, UniqueWrites,
           Swapping
  <1>16. Pending' = Pending /\ \A q \in Requesters : DOMAIN up'[q] = DOMAIN up[q]
    BY <1>10, <1>11 DEF Pending
  <1> QED BY <1>8, <1>10, <1>11, <1>14, <1>15, <1>16, HomeStep

\* CompData that a snooped cache forwards passes through the home node.
LEMMA ForwardStep ==
    ASSUME IInv, NEW r \in Requesters, Gives, Forwards, r # src,
           \A q \in Requesters \ {src, r} : Calm(q),
           One(up[r].dat), up[r].dat[1].t = "CompData", up[r].dat[1].to = src,
           IsMsg(up[r].dat[1]), up[r].rsp = <<>>, down[r].snp = <<>>, SendDat(r)
    PROVE  IInv'
  <1>1. PICK m : m = up[r].dat[1]
    OBVIOUS
  <1>2. Head(up[r].dat) = m /\ Tail(up[r].dat) = <<>>
    BY <1>1, OneIs DEF One
  <1>3. m.t = "CompData" /\ m.to = src /\ IsMsg(m) /\ Sent(r, m) = m
    BY <1>1 DEF Sent, IsMsg
  <1>4. PICK a : a = Arrived(m)
    OBVIOUS
  <1>5. a.t = "CompData" /\ a.to = src /\ IsMsg(a)
    BY <1>3, <1>4, ArrivedIs
  <1>6. /\ TransmitDat(r, m) /\ HnRxDat(r, a) /\ UNCHANGED <<mode, snVars>>
    BY <1>2, <1>3, <1>4 DEF SendDat
  <1>7. /\ up' = Drop(up, r, "dat")
        /\ UNCHANGED <<txn, access, stage, want, dvm, writes, snToggle, mode>>
    BY <1>3, <1>6 DEF TransmitDat, snVars
  <1>8. /\ down' = Put(down, src, "dat", a)
        /\ UNCHANGED <<toSN, snData, fromSN, reqList, cur>>
    BY <1>5, <1>6 DEF HnRxDat, RouteDat, hnVars
  <1>9. PICK z : z = src /\ z = cur.src /\ z \in Requesters /\ z # r
    BY DEF Gives, Served, Serves, src
  <1>10. /\ Served /\ Others /\ SNIdle /\ NoAtomic /\ Unanswered /\ cur.op \in ReadOnces \cup Fills
    BY DEF Gives, Forwards
  <1>11. /\ DOMAIN up' = Requesters /\ DOMAIN up'[r] = DOMAIN up[r]
         /\ \A s \in Requesters \ {r} : up'[s] = up[s]
         /\ up'[r].req = up[r].req /\ up'[r].rsp = <<>> /\ up'[r].dat = <<>>
    BY <1>2, <1>7 DEF IInv, Shape, Drop
  <1>12. /\ DOMAIN down' = Requesters
         /\ \A s \in Requesters : DOMAIN down'[s] = DOMAIN down[s]
         /\ \A s \in Requesters \ {z} : down'[s] = down[s]
         /\ down'[z].snp = down[z].snp /\ down'[z].rsp = down[z].rsp
         /\ down'[z].dat = <<a>>
    <2>1. down[z].dat = <<>>
      BY <1>9, <1>10 DEF Unanswered, NoAnswer
    <2>2. Append(<<>>, a) = <<a>>
      BY AppendIs
    <2> QED BY <1>8, <1>9, <2>1, <2>2 DEF IInv, Shape, Put
  <1>13. \A s : Listed(s)' <=> Listed(s)
    BY <1>8 DEF Listed
  <1>14. src' = src /\ cur' = cur /\ SNIdle' /\ NoAtomic'
    BY <1>7, <1>8, <1>10 DEF src, SNIdle, NoAtomic, AtomicAt
  <1>15. ASSUME NEW s \in Requesters \ {z} PROVE Aside(s)' /\ Calm(s)'
    <2>1. Aside(s)
      BY <1>9, <1>10 DEF Others
    <2>2. txn'[s] = txn[s] /\ up'[s].req = up[s].req /\ down'[s] = down[s]
      BY <1>7, <1>11, <1>12
    <2>3. Aside(s)'
      BY <1>13, <2>1, <2>2, AsideStays
    <2>4. CASE s = r
      BY <1>11, <2>2, <2>3, <2>4 DEF Calm, Silent
    <2>5. CASE s # r
      BY <1>9, <1>11, <2>2, <2>3, <2>5 DEF Calm, Silent
    <2> QED BY <2>4, <2>5
  <1>16. Others' /\ OthersCalm'
    BY <1>9, <1>14, <1>15 DEF Others, OthersCalm
  <1>17. /\ up'[z] = up[z] /\ txn'[z] = txn[z] /\ up[z].req = <<>> /\ ~Listed(z)
         /\ down[z].snp = <<>> /\ down[z].rsp = <<>> /\ Silent(z) /\ Untouched(z)
    BY <1>7, <1>9, <1>10, <1>11 DEF Served, Unanswered, NoAnswer
  <1>18. Served'
    <2>1. Serves(cur', txn'[z])
      BY <1>9, <1>10, <1>14, <1>17 DEF Served, Serves
    <2> QED BY <1>9, <1>12, <1>13, <1>14, <1>17, <2>1 DEF Served
  <1>19. GivesData'
    <2>1. down'[z].dat # <<>> /\ down'[z].dat[1] = a /\ down'[z].dat = <<down'[z].dat[1]>>
      BY <1>12, OneIs
    <2>2. src' = z /\ cur'.op \in Reading
      BY <1>9, <1>10, <1>14 DEF Reading
    <2> QED BY <1>5, <1>12, <1>16, <1>17, <2>1, <2>2 DEF GivesData, One, IsMsg, Silent, Untouched
  <1>20. Gives'
    BY <1>14, <1>16, <1>18, <1>19 DEF Gives, Fixed
  <1>21. HomeShape'
    BY <1>8, <1>12 DEF HomeShape, IInv, Shape
  <1>22. \A s \in Requesters : ~dvm[s]
    BY DEF IInv, DVMInv, Gives, Fixed
  <1>23. Pending' = Pending /\ \A q \in Requesters : DOMAIN up'[q] = DOMAIN up[q]
    BY <1>8, <1>11 DEF Pending
  <1> QED BY <1>7, <1>8, <1>11, <1>20, <1>21, <1>22, <1>23, HomeStep DEF PhaseInv

\* The request q goes to the slave node, whoever may be waiting for what.
LEMMA ToSNIs ==
    ASSUME NEW q, NEW f, NEW op, ToSN(q, f, op), IsReq(q), MayAsk(q), UNCHANGED snToggle,
           toSN = <<>>, fromSN'.rsp = <<>>, fromSN'.dat = <<>>
    PROVE  /\ IsReq(cur') /\ down' = down
           /\ cur'.op = q.op /\ cur'.src = q.src /\ cur'.ack = q.ack /\ cur'.line = q.line
           /\ cur'.gotSnpData = q.gotSnpData /\ cur'.waitAck = q.waitAck
           /\ cur'.waiting = q.waiting /\ cur'.waitReceipt = q.waitReceipt
           /\ cur'.ackRcvd = q.ackRcvd /\ cur'.toSNDone = q.toSNDone
           /\ cur'.snReq.to = IF AllowsDMT(q) THEN q.src ELSE "HN"
           /\ SNBusy(op)'
  <1>1. PICK n : n = SNRequest(q, op)
    OBVIOUS
  <1>2. /\ DOMAIN n = SNFields
        /\ n.op = op /\ n.retry /\ n.to = IF AllowsDMT(q) THEN q.src ELSE "HN"
    BY <1>1, SNRequestIs
  <1>3. cur' = [q EXCEPT !.snReq = n] /\ toSN' = <<n>> /\ down' = down
    BY <1>1, AppendIs DEF ToSN
  <1>4. /\ IsReq(cur') /\ cur'.snReq = n
        /\ cur'.op = q.op /\ cur'.src = q.src /\ cur'.ack = q.ack /\ cur'.line = q.line
        /\ cur'.gotSnpData = q.gotSnpData /\ cur'.waitAck = q.waitAck
        /\ cur'.waiting = q.waiting /\ cur'.waitReceipt = q.waitReceipt
        /\ cur'.ackRcvd = q.ackRcvd /\ cur'.toSNDone = q.toSNDone /\ cur'.snGot = q.snGot
    BY <1>2, <1>3 DEF IsReq, ReqFields
  <1>5. SNAsked'
    BY <1>2, <1>3, <1>4 DEF SNAsked, MayAsk
  <1> QED BY <1>2, <1>3, <1>4, <1>5 DEF SNBusy

LEMMA CopiedIs ==
    ASSUME NEW m, IsReq(cur)
    PROVE  LET q == CopyData(cur, m) IN
           /\ IsReq(q)
           /\ q.op = cur.op /\ q.src = cur.src /\ q.ack = cur.ack /\ q.line = cur.line
           /\ q.gotSnpData = cur.gotSnpData /\ q.waitAck = cur.waitAck
           /\ q.waiting = cur.waiting /\ q.waitReceipt = cur.waitReceipt
           /\ q.ackRcvd = cur.ackRcvd /\ q.toSNDone = cur.toSNDone
           /\ q.snGot = cur.snGot /\ q.hasData = cur.hasData
  <1>1. PICK d : d = Merge(ZeroData, m.data, m.be)
    OBVIOUS
  <1> QED BY <1>1 DEF CopyData, IsReq, ReqFields

\* The data of a write leaves the requester: unless it waits for data or for
\* Comp, or has an acknowledgement to send, its transaction is over.
LEMMA WriteDataIs ==
    ASSUME IInv, NEW r \in Requesters, r = src, TakesData, One(up[r].dat),
           up[r].dat[1].t = DataFor(cur.op), IsMsg(up[r].dat[1]),
           {"Comp", "Data", "Part", "Sent"} \cap txn[r].got = {}, SendDat(r)
    PROVE  /\ DOMAIN up' = Requesters /\ DOMAIN up'[r] = DOMAIN up[r]
           /\ \A s \in Requesters \ {r} : up'[s] = up[s] /\ txn'[s] = txn[s]
           /\ up'[r].req = <<>> /\ up'[r].dat = <<>>
           /\ up'[r].rsp = IF cur.ack THEN <<CompAck>> ELSE <<>>
           /\ DOMAIN txn' = Requesters /\ IsTxn(txn'[r])
           /\ cur.ack \/ cur.op \in Swapping \cup {"DVMOp"} =>
                 /\ txn'[r].op = txn[r].op /\ txn'[r].line = txn[r].line
                 /\ txn'[r].ack = txn[r].ack /\ txn'[r].got = txn[r].got \cup {"Sent"}
           /\ ~cur.ack /\ cur.op \notin Swapping \cup {"DVMOp"} => txn'[r].op = "none"
           /\ UNCHANGED <<access, stage, want, dvm, writes, snToggle, mode>>
           /\ \E a : IsMsg(a) /\ a.t = DataFor(cur.op) /\ RxWriteData(r, a)
  <1>1. PICK m : m = up[r].dat[1]
    OBVIOUS
  <1>2. Head(up[r].dat) = m /\ Tail(up[r].dat) = <<>>
    BY <1>1, OneIs DEF One
  <1>3. m.t = DataFor(cur.op) /\ IsMsg(m) /\ m.t \in {"CopyBackWrData", "NonCopyBackWrData"}
    BY <1>1 DEF DataFor, IsMsg
  <1>4. Sent(r, m) = m
    BY <1>3 DEF Sent
  <1>5. PICK a : a = Arrived(m)
    OBVIOUS
  <1>6. a.t = m.t /\ IsMsg(a)
    BY <1>3, <1>5, ArrivedIs
  <1>7. /\ TransmitDat(r, m) /\ HnRxDat(r, a) /\ UNCHANGED <<mode, snVars>>
    BY <1>2, <1>4, <1>5 DEF SendDat
  <1>8. RxWriteData(r, a)
    BY <1>3, <1>6, <1>7 DEF HnRxDat
  <1>9. /\ txn[r].op = cur.op /\ (txn[r].ack <=> cur.ack) /\ up[r].req = <<>> /\ IsTxn(txn[r])
        /\ up[r].rsp = <<>>
    BY DEF TakesData, Served, Serves, src, IInv, Shape
  <1>10. PICK t : t = [txn[r] EXCEPT !.got = @ \cup {"Sent"}]
    OBVIOUS
  <1>11. /\ IsTxn(t) /\ t.op = txn[r].op /\ t.line = txn[r].line /\ t.ack = txn[r].ack
         /\ t.got = txn[r].got \cup {"Sent"}
    BY <1>9, <1>10 DEF IsTxn
  <1>12. /\ up' = IF t.ack THEN Put(Drop(up, r, "dat"), r, "rsp", CompAck)
                  ELSE Drop(up, r, "dat")
         /\ txn' = [txn EXCEPT ![r] = IF \/ t.ack
                                         \/ t.op = "DVMOp" /\ "Comp" \notin t.got
                                         \/ IsAtomicNonStore(t.op) /\ "Data" \notin t.got
                                      THEN t ELSE Done(t)]
         /\ UNCHANGED <<access, stage, want, dvm>>
    <2>1. m.t # "SnpRespDataFwded"
      BY <1>3
    <2> QED BY <1>2, <1>3, <1>7, <1>10, <2>1 DEF TransmitDat, CompAck
  <1>13. /\ DOMAIN up' = Requesters /\ DOMAIN up'[r] = DOMAIN up[r]
         /\ \A s \in Requesters \ {r} : up'[s] = up[s]
         /\ up'[r].req = <<>> /\ up'[r].dat = <<>>
         /\ up'[r].rsp = IF cur.ack THEN <<CompAck>> ELSE <<>>
    <2>1. Append(<<>>, CompAck) = <<CompAck>>
      BY AppendIs
    <2>2. CASE cur.ack
      BY <1>2, <1>9, <1>11, <1>12, <2>1, <2>2 DEF IInv, Shape, Put, Drop
    <2>3. CASE ~cur.ack
      BY <1>2, <1>9, <1>11, <1>12, <2>3 DEF IInv, Shape, Drop
    <2> QED BY <2>2, <2>3
  <1>14. /\ DOMAIN txn' = Requesters /\ \A s \in Requesters \ {r} : txn'[s] = txn[s]
    BY <1>12 DEF IInv, Shape
  <1>15. CASE cur.ack \/ cur.op \in Swapping \cup {"DVMOp"}
    <2>1. "Comp" \notin t.got /\ "Data" \notin t.got
      BY <1>11
    <2>2. txn'[r] = t
      BY <1>9, <1>11, <1>12, <1>15, <2>1, Classes DEF IInv, Shape
    <2> QED BY <1>7, <1>6, <1>3, <1>8, <1>11, <1>12, <1>13, <1>14, <1>15, <2>2 DEF snVars
  <1>16. CASE ~cur.ack /\ cur.op \notin Swapping \cup {"DVMOp"}
    <2>1. txn'[r] = Done(t)
      BY <1>9, <1>11, <1>12, <1>16, Classes DEF IInv, Shape
    <2>2. txn'[r].op = "none" /\ IsTxn(txn'[r])
      BY <2>1, DoneIs
    <2> QED BY <1>7, <1>6, <1>3, <1>8, <1>12, <1>13, <1>14, <1>16, <2>2 DEF snVars
  <1> QED BY <1>15, <1>16

LEMMA WriteDataStep ==
    ASSUME IInv, NEW r \in Requesters, r = src, TakesData, down[r].rsp = <<>>,
           One(up[r].dat), up[r].dat[1].t = DataFor(cur.op), IsMsg(up[r].dat[1]),
           {"Comp", "Data", "Part", "Sent"} \cap txn[r].got = {}, SendDat(r)
    PROVE  IInv'
  <1>1. /\ DOMAIN up' = Requesters /\ DOMAIN up'[r] = DOMAIN up[r]
        /\ \A s \in Requesters \ {r} : up'[s] = up[s] /\ txn'[s] = txn[s]
        /\ up'[r].req = <<>> /\ up'[r].dat = <<>>
        /\ up'[r].rsp = IF cur.ack THEN <<CompAck>> ELSE <<>>
        /\ DOMAIN txn' = Requesters /\ IsTxn(txn'[r])
        /\ cur.ack \/ cur.op \in Swapping \cup {"DVMOp"} =>
              /\ txn'[r].op = txn[r].op /\ txn'[r].line = txn[r].line
              /\ txn'[r].ack = txn[r].ack /\ txn'[r].got = txn[r].got \cup {"Sent"}
        /\ ~cur.ack /\ cur.op \notin Swapping \cup {"DVMOp"} => txn'[r].op = "none"
        /\ UNCHANGED <<access, stage, want, dvm, writes, snToggle, mode>>
        /\ \E a : IsMsg(a) /\ a.t = DataFor(cur.op) /\ RxWriteData(r, a)
    BY WriteDataIs
  <1>2. PICK a : a.t = DataFor(cur.op) /\ RxWriteData(r, a)
    BY <1>1
  <1>3. PICK q : q = CopyData(cur, a)
    OBVIOUS
  <1>4. /\ IsReq(q)
        /\ q.op = cur.op /\ q.src = cur.src /\ q.ack = cur.ack /\ q.line = cur.line
        /\ q.gotSnpData = cur.gotSnpData /\ q.waitAck = cur.waitAck
        /\ q.waiting = cur.waiting /\ q.waitReceipt = cur.waitReceipt
        /\ q.ackRcvd = cur.ackRcvd /\ q.toSNDone = cur.toSNDone
        /\ q.snGot = cur.snGot /\ q.hasData = cur.hasData
    BY <1>3, CopiedIs DEF IInv, Shape
  <1>5. /\ Served /\ Others /\ OthersCalm /\ SNIdle /\ NoAtomic /\ MayAsk(cur) /\ NoAnswer(r)
        /\ cur.op \in Storing \cup Swapping \cup {"DVMOp"} /\ cur.waiting = {} /\ ~cur.waitReceipt
        /\ ~cur.gotSnpData /\ ~cur.toSNDone /\ ~cur.ackRcvd /\ (cur.ack => cur.waitAck)
        /\ (cur.op = "DVMOp" => ~cur.hasData)
    BY DEF TakesData, Fixed, NoAnswer
  <1>6. UNCHANGED <<snData, fromSN, reqList>>
    BY <1>2 DEF RxWriteData
  <1>7. \A s : Listed(s)' <=> Listed(s)
    BY <1>6 DEF Listed
  <1>8. /\ r = cur.src /\ txn[r].op = cur.op /\ Serves(cur, txn[r]) /\ Acked(cur.op, cur.ack)
        /\ ~Listed(r) /\ down[r].snp = <<>>
    BY <1>5 DEF Served, Serves, src
  <1>9. ASSUME down'[r] = down[r], ~cur.ack, cur.op \notin Swapping \cup {"DVMOp"}
        PROVE  Free(r)' /\ Aside(r)' /\ Calm(r)' /\ Silent(r)'
    <2>1. Free(r)' /\ Calm(r)' /\ Silent(r)'
      BY <1>1, <1>5, <1>7, <1>8, <1>9 DEF Free, NoAnswer, Calm, Silent
    <2> QED BY <2>1 DEF Aside
  <1>10. ASSUME down' = down, NEW s \in Requesters \ {r} PROVE Aside(s)' /\ Calm(s)'
    <2>1. Rests(s)
      BY <1>1, <1>7, <1>10 DEF Rests
    <2>2. Aside(s) /\ Calm(s)
      BY <1>5 DEF Others, OthersCalm
    <2> QED BY <2>1, <2>2, RestsIs
  <1>11. /\ toSN = <<>> /\ fromSN.rsp = <<>> /\ fromSN.dat = <<>>
         /\ fromSN'.rsp = <<>> /\ fromSN'.dat = <<>>
    BY <1>5, <1>6 DEF SNIdle
  <1>12. MayAsk(q) /\ NoAtomic'
    BY <1>1, <1>4, <1>5 DEF MayAsk, NoAtomic, AtomicAt
  <1>13. TxnInv'
    <2>1. \A s \in Requesters :
             txn'[s].op = "none" \/ (txn'[s].op = txn[s].op /\ txn'[s].ack = txn[s].ack)
      <3>1. txn'[r].op = "none" \/ (txn'[r].op = txn[r].op /\ txn'[r].ack = txn[r].ack)
        BY <1>1
      <3>2. \A s \in Requesters \ {r} : txn'[s] = txn[s]
        BY <1>1
      <3> QED BY <3>1, <3>2
    <2> QED BY <1>1, <2>1, TxnStays DEF IInv
  <1>14. ListInv' /\ DVMInv' /\ SlaveInv'
    <2>1. \A s \in Requesters : Listed(s) => txn'[s] = txn[s]
      BY <1>1, <1>8
    <2>2. ListInv'
      BY <1>6, <2>1, ListStays DEF IInv
    <2>3. DVMInv'
      BY <1>1, <1>5 DEF IInv, DVMInv
    <2>4. SlaveInv'
      BY <1>1, <1>6 DEF IInv, SlaveInv, Pending, AtomicAt
    <2> QED BY <2>2, <2>3, <2>4
  <1>15. ASSUME NEW f, NEW op \in {"WriteNoSnpPtl", "AtomicStoreADD"}, ToSN(q, f, op),
                cur.op \in Storing
         PROVE  HomeShape' /\ Writes'
    <2>1. /\ IsReq(cur') /\ down' = down
          /\ cur'.op = cur.op /\ cur'.src = cur.src /\ cur'.ack = cur.ack
          /\ cur'.line = cur.line
          /\ ~cur'.gotSnpData /\ cur'.waitAck = cur.waitAck
          /\ cur'.waiting = {} /\ ~cur'.waitReceipt /\ ~cur'.ackRcvd /\ ~cur'.toSNDone
          /\ SNBusy(op)'
      BY <1>1, <1>4, <1>5, <1>11, <1>12, <1>15, ToSNIs
    <2>2. HomeShape'
      BY <2>1 DEF HomeShape, IInv, Shape
    <2>3. src' = r
      BY <1>8, <2>1 DEF src
    <2>4. Others' /\ OthersCalm'
      BY <1>10, <2>1, <2>3 DEF Others, OthersCalm
    <2>5. cur.ack => cur.op \in UniqueWrites
      BY <1>8, <1>15 DEF Acked, ReqOps, Reading, ReadOnces, Fills, Storing, Writing, CopyBacks,
                         UniqueWrites, Upgrading
    <2>6. SNBusy("WriteNoSnpPtl")' \/ SNBusy("AtomicStoreADD")'
      <3>1. CASE op = "WriteNoSnpPtl"
        BY <2>1, <3>1
      <3>2. CASE op = "AtomicStoreADD"
        BY <2>1, <3>2
      <3> QED BY <1>15, <3>1, <3>2
    <2>7. CASE cur.ack
      <3>1. /\ txn'[r].op = txn[r].op /\ txn'[r].line = txn[r].line
            /\ txn'[r].ack = txn[r].ack /\ up'[r].rsp = <<CompAck>>
        BY <1>1, <2>7
      <3>2. Owed'
        BY <2>1, <2>7 DEF Owed
      <3>3. Served'
        <4>1. Serves(cur', txn'[r])
          BY <1>8, <2>1, <3>1 DEF Serves
        <4> QED BY <1>1, <1>7, <1>8, <2>1, <2>3, <4>1 DEF Served
      <3>4. cur'.waitAck /\ NoAnswer(src)' /\ up'[src'].dat = <<>> /\ up'[src'].rsp = <<CompAck>>
        <4>1. NoAnswer(r)' /\ up'[r].dat = <<>>
          BY <1>1, <1>5, <2>1 DEF NoAnswer
        <4> QED BY <1>5, <2>1, <2>3, <2>7, <3>1, <4>1 DEF NoAnswer
      <3>5. down'[src'].snp = <<>>
        BY <1>8, <2>1, <2>3
      <3> QED BY <1>12, <1>15, <2>1, <2>2, <2>3, <2>4, <2>5, <2>6, <3>2, <3>3, <3>4, <3>5
              DEF Writes, Fixed
    <2>8. CASE ~cur.ack
      <3>1. cur.op \notin Swapping \cup {"DVMOp"}
        BY <1>15 DEF Storing, Writing, CopyBacks, UniqueWrites, Swapping
      <3>2. Free(r)' /\ Silent(r)'
        BY <1>9, <2>1, <2>8, <3>1
      <3>3. Aside(src)' /\ Silent(src)'
        BY <2>3, <3>2 DEF Aside, Free, NoAnswer, Listed, Silent
      <3>4. ~Owed'
        BY <2>1, <2>8 DEF Owed
      <3>5. down'[src'].snp = <<>>
        BY <1>8, <2>1, <2>3
      <3> QED BY <1>12, <1>15, <2>1, <2>2, <2>3, <2>4, <2>5, <2>6, <3>3, <3>4, <3>5
              DEF Writes, Fixed
    <2> QED BY <2>7, <2>8
  <1>16. HomeShape' /\ PhaseInv'
    <2>1. CASE cur.op \in CopyBacks
      <3>1. a.t = "CopyBackWrData" /\ cur.op \in Storing
        BY <1>2, <2>1 DEF DataFor, Storing, Writing
      <3>2. CASE a.pd
        <4>1. ToSN(q, FilterAfterReq(cur, filter), "WriteNoSnpPtl")
          BY <1>2, <1>3, <3>1, <3>2 DEF RxWriteData
        <4> QED BY <1>15, <3>1, <4>1 DEF PhaseInv
      <3>3. CASE ~a.pd
        <4>1. cur' = NoReq /\ down' = down /\ toSN' = toSN
          BY <1>2, <3>1, <3>3 DEF RxWriteData
        <4>2. ~cur.ack /\ cur.op \notin Swapping \cup {"DVMOp"}
          BY <1>8, <2>1 DEF Acked, ReqOps, Reading, ReadOnces, Fills, Storing, Writing, CopyBacks,
                            UniqueWrites, Upgrading, Swapping
        <4>3. \A s \in Requesters : Aside(s)' /\ Calm(s)'
          BY <1>9, <1>10, <4>1, <4>2
        <4>4. SNIdle'
          BY <1>11, <4>1 DEF SNIdle
        <4>5. Idle'
          BY <1>12, <4>1, <4>3, <4>4 DEF Idle
        <4>6. HomeShape'
          BY <4>1, NoReqIs DEF HomeShape, IInv, Shape
        <4> QED BY <4>5, <4>6 DEF PhaseInv
      <3> QED BY <3>2, <3>3
    <2>2. CASE cur.op = "DVMOp"
      <3>1. a.t # "CopyBackWrData"
        BY <1>2, <2>2 DEF DataFor, CopyBacks
      <3>2. ProcessDVM(q)
        BY <1>2, <1>3, <1>4, <2>2, <3>1 DEF RxWriteData
      <3>3. PICK snp : snp = [t |-> "SnpDVMOp", line |-> q.line, to |-> q.src]
        OBVIOUS
      <3>4. /\ down' = [s \in Requesters |->
                           IF s \in Requesters \ {r}
                           THEN [down[s] EXCEPT !.snp = @ \o <<snp, snp>>] ELSE down[s]]
            /\ toSN' = toSN /\ cur' = [q EXCEPT !.waiting = Requesters \ {r}]
        BY <1>4, <1>8, <3>2, <3>3 DEF ProcessDVM, SendSnoops
      <3>5. /\ IsReq(cur') /\ cur'.waiting = Requesters \ {r}
            /\ cur'.op = cur.op /\ cur'.src = cur.src /\ cur'.ack = cur.ack
            /\ cur'.line = cur.line /\ ~cur'.hasData /\ ~cur'.ackRcvd
        BY <1>4, <1>5, <2>2, <3>4 DEF IsReq, ReqFields
      <3>6. src' = r /\ DVMSnp' = snp
        BY <1>4, <1>8, <3>3, <3>5 DEF src, DVMSnp
      <3>7. /\ DOMAIN down' = Requesters /\ down'[r] = down[r]
            /\ \A s \in Requesters \ {r} :
                  /\ DOMAIN down'[s] = DOMAIN down[s]
                  /\ down'[s].rsp = down[s].rsp /\ down'[s].dat = down[s].dat
                  /\ down'[s].snp = down[s].snp \o <<snp, snp>>
        BY <3>4 DEF IInv, Shape
      <3>8. ASSUME NEW s \in Requesters \ {r} PROVE Aside(s)' /\ SnoopedDVM(s)'
        <4>1. Aside(s) /\ Calm(s)
          BY <1>5, <3>8 DEF Others, OthersCalm
        <4>2. Aside(s)'
          BY <1>1, <1>7, <3>7, <3>8, <4>1, AsideStays
        <4>3. down'[s].snp = <<snp, snp>>
          BY <3>7, <3>8, <4>1, AppendIs DEF Calm
        <4>4. ~dvm'[s]
          BY <1>1, <1>5, <3>8 DEF IInv, DVMInv
        <4>5. Silent(s)'
          BY <1>1, <3>8, <4>1 DEF Calm, Silent
        <4> QED BY <3>6, <4>2, <4>3, <4>4, <4>5 DEF SnoopedDVM
      <3>9. Others'
        BY <3>6, <3>8 DEF Others
      <3>10. Served'
        <4>1. Serves(cur', txn'[r])
          BY <1>1, <1>8, <2>2, <3>5 DEF Serves
        <4> QED BY <1>1, <1>7, <1>8, <3>6, <3>7, <4>1 DEF Served
      <3>11. NoAnswer(src)' /\ Silent(src)'
        <4>1. ~cur.ack
          BY <1>8, <2>2 DEF Acked, ReqOps, Reading, ReadOnces, Fills, UniqueWrites, Upgrading
        <4> QED BY <1>1, <1>5, <3>6, <3>7, <4>1 DEF NoAnswer, Silent
      <3>12. "Sent" \in txn'[src'].got /\ "Comp" \notin txn'[src'].got
        BY <1>1, <2>2, <3>6
      <3>13. SNIdle'
        BY <1>11, <3>4 DEF SNIdle
      <3>14. SnoopsDVM'
        <4>1. \A s \in Requesters \ {src'} :
                 IF s \in cur'.waiting THEN SnoopedDVM(s)' ELSE Calm(s)'
          BY <3>5, <3>6, <3>8
        <4> QED BY <1>12, <2>2, <3>5, <3>6, <3>9, <3>10, <3>11, <3>12, <3>13, <4>1 DEF SnoopsDVM
      <3>15. HomeShape'
        <4>1. \A s \in Requesters : DOMAIN down'[s] = DOMAIN down[s]
          BY <3>7
        <4> QED BY <3>5, <3>7, <4>1 DEF HomeShape, IInv, Shape
      <3> QED BY <3>14, <3>15 DEF PhaseInv
    <2>3. CASE cur.op \in Storing \ CopyBacks
      <3>1. a.t # "CopyBackWrData" /\ cur.op # "DVMOp"
        BY <1>2, <2>3 DEF DataFor, Storing, Writing, UniqueWrites
      <3>2. ToSN(q, filter, IF IsAtomic(q.op) THEN q.op ELSE "WriteNoSnpPtl")
        BY <1>2, <1>3, <1>4, <3>1 DEF RxWriteData
      <3>3. PICK op : op = IF IsAtomic(q.op) THEN q.op ELSE "WriteNoSnpPtl"
        OBVIOUS
      <3>4. op \in {"WriteNoSnpPtl", "AtomicStoreADD"}
        BY <1>4, <2>3, <3>3, Classes DEF Storing, Writing, CopyBacks, UniqueWrites, Swapping
      <3> QED BY <1>15, <2>3, <3>2, <3>3, <3>4 DEF PhaseInv
    <2>4. CASE cur.op \in Swapping
      <3>1. a.t # "CopyBackWrData" /\ cur.op # "DVMOp" /\ IsAtomic(q.op)
        BY <1>2, <1>4, <2>4, Classes DEF DataFor, CopyBacks, Swapping
      <3>2. ToSN(q, filter, cur.op)
        BY <1>2, <1>3, <1>4, <3>1 DEF RxWriteData
      <3>3. /\ IsReq(cur') /\ down' = down
            /\ cur'.op = cur.op /\ cur'.src = cur.src /\ cur'.ack = cur.ack
            /\ cur'.line = cur.line /\ ~cur'.gotSnpData
            /\ cur'.waiting = {} /\ ~cur'.waitReceipt
            /\ cur'.snReq.to = IF AllowsDMT(q) THEN q.src ELSE "HN"
            /\ SNBusy(cur.op)'
        BY <1>1, <1>4, <1>5, <1>11, <1>12, <3>2, ToSNIs
      <3>4. cur'.snReq.to = "HN"
        BY <3>1, <3>3 DEF AllowsDMT
      <3>5. src' = r
        BY <1>8, <3>3 DEF src
      <3>6. Others' /\ OthersCalm'
        BY <1>10, <3>3, <3>5 DEF Others, OthersCalm
      <3>7. Served'
        <4>1. Serves(cur', txn'[r])
          BY <1>1, <1>8, <2>4, <3>3 DEF Serves
        <4> QED BY <1>1, <1>7, <1>8, <3>3, <3>5, <4>1 DEF Served
      <3>8. NoAnswer(src)' /\ Silent(src)'
        <4>1. ~cur.ack
          BY <1>8, <2>4 DEF Acked, ReqOps, Reading, ReadOnces, Fills, UniqueWrites, Upgrading,
                            Swapping
        <4> QED BY <1>1, <1>5, <3>3, <3>5, <4>1 DEF NoAnswer, Silent
      <3>9. "Sent" \in txn'[src'].got /\ {"Data", "Part"} \cap txn'[src'].got = {}
        BY <1>1, <2>4, <3>5
      <3>10. SNBusy(cur.op)' => cur'.snReq.op = cur'.op /\ (SNAsked' \/ SNRetries')
        BY <3>3 DEF SNBusy
      <3>11. RunsAtomic'
        BY <1>12, <2>4, <3>3, <3>4, <3>6, <3>7, <3>8, <3>9, <3>10 DEF RunsAtomic, Fixed, SNBusy
      <3>12. HomeShape'
        BY <3>3 DEF HomeShape, IInv, Shape
      <3> QED BY <3>11, <3>12 DEF PhaseInv
    <2> QED BY <1>5, <2>1, <2>2, <2>3, <2>4
  <1>17. Shape'
    <2>1. \A s \in Requesters : DOMAIN up'[s] = DOMAIN up[s] /\ IsTxn(txn'[s])
      BY <1>1 DEF IInv, Shape
    <2> QED BY <1>1, <1>6, <1>16, <2>1 DEF IInv, Shape, HomeShape
  <1> QED BY <1>13, <1>14, <1>16, <1>17 DEF IInv

LEMMA SendDatStep ==
    ASSUME IInv, NEW r \in Requesters, up[r].dat # <<>>, SendDat(r)
    PROVE  IInv'
  BY UpDatIs, SnoopDatStep, ForwardStep, WriteDataStep DEF IInv

(***************************************************************************)
(* Between the home node and the slave node.                               *)
(***************************************************************************)
\* The requesters are not part of the step, and the request that is being
\* served has changed at most in what it wants of the slave node.
LEMMA KeepIs ==
    ASSUME UNCHANGED <<up, down, txn, dvm, reqList>>,
           cur'.op = cur.op, cur'.src = cur.src, cur'.line = cur.line, cur'.ack = cur.ack,
           cur'.waiting = cur.waiting, cur'.waitReceipt = cur.waitReceipt,
           cur'.ackRcvd = cur.ackRcvd
    PROVE  /\ src' = src /\ (Owed' <=> Owed)
           /\ Served => Served'
           /\ Unanswered => Unanswered'
           /\ Others => Others'
           /\ OthersCalm => OthersCalm'
           /\ Fixed => Fixed'
           /\ NoAnswer(src) => NoAnswer(src)'
           /\ Silent(src) => Silent(src)'
           /\ Aside(src) => Aside(src)'
  <1>1. src' = src /\ (Owed' <=> Owed)
    BY DEF src, Owed
  <1>2. \A s : Listed(s)' <=> Listed(s)
    BY DEF Listed
  <1>3. \A s : Rests(s)
    BY <1>2 DEF Rests
  <1>4. PICK z : z = src
    OBVIOUS
  <1>5. /\ Aside(z)' <=> Aside(z)
        /\ Silent(z)' <=> Silent(z)
        /\ NoAnswer(z)' <=> NoAnswer(z)
        /\ Untouched(z)' <=> Untouched(z)
    BY <1>3, RestsIs
  <1>6. /\ NoAnswer(src) => NoAnswer(src)'
        /\ Silent(src) => Silent(src)'
        /\ Untouched(src) => Untouched(src)'
    BY <1>1 DEF NoAnswer, Silent, Untouched
  <1>7. Aside(src) => Aside(src)'
    BY <1>1, <1>2 DEF Aside, Free, Asks, Retried, Queued, Informed, Replied, Abandoned, NoAnswer, Untouched,
                      One
  <1>8. Served => Served'
    BY <1>1, <1>2 DEF Served, Serves, src
  <1>9. Unanswered => Unanswered'
    BY <1>6 DEF Unanswered
  <1>10. (Others => Others') /\ (OthersCalm => OthersCalm')
    BY <1>1, <1>3, RestsIs DEF Others, OthersCalm
  <1>11. Fixed => Fixed'
    BY DEF Fixed
  <1> QED BY <1>1, <1>6, <1>7, <1>8, <1>9, <1>10, <1>11

\* A step at the slave node's side changes the phase and the slave node.
LEMMA SlaveSideStep ==
    ASSUME IInv, HomeShape', PhaseInv', SlaveInv', IsSeq(writes'), IsSeq(snData'),
           UNCHANGED <<up, txn, dvm, access, stage, want, mode, reqList>>,
           DOMAIN fromSN' = DOMAIN fromSN, cur.waiting = {}
    PROVE  IInv'
  <1>1. TxnInv'
    BY DEF IInv, TxnInv
  <1>2. Shape'
    BY DEF IInv, Shape, HomeShape
  <1>3. DVMInv'
    BY DEF IInv, DVMInv
  <1>4. ListInv'
    BY ListStays DEF IInv
  <1> QED BY <1>1, <1>2, <1>3, <1>4 DEF IInv

\* The home node takes an answer to a request that is retried: after both it
\* sends the request again, and not to be retried.
LEMMA SNRetryIs ==
    ASSUME IInv, SNRetries, RxRspSN, UNCHANGED snToggle
    PROVE  /\ IsReq(cur') /\ UNCHANGED <<up, down, snData, reqList>>
           /\ DOMAIN fromSN' = DOMAIN fromSN
           /\ cur'.op = cur.op /\ cur'.src = cur.src /\ cur'.line = cur.line
           /\ cur'.ack = cur.ack /\ cur'.waiting = cur.waiting
           /\ cur'.waitReceipt = cur.waitReceipt /\ cur'.ackRcvd = cur.ackRcvd
           /\ cur'.gotSnpData = cur.gotSnpData /\ cur'.snpPD = cur.snpPD
           /\ cur'.snpResp = cur.snpResp /\ cur'.waitAck = cur.waitAck
           /\ cur'.toSNDone = cur.toSNDone /\ cur'.fwded = cur.fwded
           /\ cur'.snReq.op = cur.snReq.op /\ cur'.snReq.to = cur.snReq.to
           /\ cur'.snReq.receipt = cur.snReq.receipt /\ ~cur'.snReq.retry
           /\ SNAsked' \/ SNRetries'
           /\ Pending = 0 /\ Pending' = 0
  <1>1. PICK m : m = Head(fromSN.rsp)
    OBVIOUS
  <1>2. PICK p : p = [cur.snReq EXCEPT !.retry = @ /\ m.t # "RetryAck"]
    OBVIOUS
  <1>3. PICK q : q = [cur EXCEPT !.snGot = @ \cup {m.t}, !.snReq = p]
    OBVIOUS
  <1>4. q = [cur EXCEPT !.snGot = @ \cup {m.t}, !.snReq.retry = @ /\ m.t # "RetryAck"]
    BY <1>2, <1>3 DEF IInv, Shape, IsReq, ReqFields
  <1>5. /\ fromSN' = [fromSN EXCEPT !.rsp = Tail(@)] /\ UNCHANGED <<up, reqList>>
        /\ CASE m.t \in {"RetryAck", "PCrdGrant"} -> RetrySN(m)
             [] m.t = "ReadReceipt" -> ReadReceipt
             [] OTHER -> SendSNData(m)
    BY <1>1 DEF RxRspSN
  <1>6. ASSUME m.t \in {"RetryAck", "PCrdGrant"}
        PROVE  /\ cur' = q /\ UNCHANGED <<down, snData>>
               /\ toSN' = IF Both \subseteq q.snGot THEN Append(toSN, q.snReq) ELSE toSN
    <2>1. RetrySN(m)
      BY <1>5, <1>6
    <2> QED BY <1>4, <2>1 DEF RetrySN, RetryRequest, Both
  <1>7. /\ DOMAIN p = DOMAIN cur.snReq /\ p.op = cur.snReq.op /\ p.to = cur.snReq.to
        /\ p.receipt = cur.snReq.receipt
        /\ ~cur.snReq.retry \/ m.t = "RetryAck" => ~p.retry
    BY <1>2 DEF IInv, Shape, IsReq, SNFields
  <1>8. /\ IsReq(q) /\ q.snReq = p /\ q.snGot = cur.snGot \cup {m.t}
        /\ q.op = cur.op /\ q.src = cur.src /\ q.line = cur.line
        /\ q.ack = cur.ack /\ q.waiting = cur.waiting
        /\ q.waitReceipt = cur.waitReceipt /\ q.ackRcvd = cur.ackRcvd
        /\ q.gotSnpData = cur.gotSnpData /\ q.snpPD = cur.snpPD
        /\ q.snpResp = cur.snpResp /\ q.waitAck = cur.waitAck
        /\ q.toSNDone = cur.toSNDone /\ q.fwded = cur.fwded
    BY <1>3, <1>7 DEF IInv, Shape, IsReq, ReqFields
  <1>9. /\ DOMAIN fromSN' = DOMAIN fromSN /\ fromSN'.dat = fromSN.dat
        /\ fromSN'.rsp = Tail(fromSN.rsp)
    BY <1>5 DEF IInv, Shape
  <1>10. CASE cur.snGot = {} /\ cur.snReq.retry /\ fromSN.rsp = <<RetryAck, PCrdGrant>>
    <2>1. m = RetryAck /\ fromSN'.rsp = <<PCrdGrant>> /\ fromSN.rsp # <<>>
      BY <1>1, <1>9, <1>10, TwoIs
    <2>2. m.t = "RetryAck"
      BY <2>1, Answers
    <2>3. ~(Both \subseteq q.snGot) /\ q.snGot = {"RetryAck"}
      BY <1>8, <1>10, <2>2 DEF Both
    <2>4. cur' = q /\ toSN' = <<>> /\ UNCHANGED <<down, snData>> /\ ~p.retry
      BY <1>6, <1>7, <2>2, <2>3 DEF SNRetries
    <2>5. SNRetries'
      BY <1>8, <1>9, <2>1, <2>3, <2>4 DEF SNRetries
    <2>6. Pending = 0 /\ Pending' = 0
      <3>1. fromSN.rsp # <<CompDBIDResp>> /\ fromSN.rsp # <<DBIDResp>>
        BY <1>1, <2>2, OneIs, Answers
      <3>2. Head(fromSN'.rsp) = PCrdGrant
        BY <2>1, OneIs
      <3>3. fromSN'.rsp # <<CompDBIDResp>> /\ fromSN'.rsp # <<DBIDResp>>
        BY <3>2, OneIs, Answers
      <3> QED BY <3>1, <3>3 DEF Pending, CompDBIDResp, DBIDResp
    <2> QED BY <1>5, <1>7, <1>8, <1>9, <2>4, <2>5, <2>6
  <1>11. CASE cur.snGot = {"RetryAck"} /\ ~cur.snReq.retry /\ fromSN.rsp = <<PCrdGrant>>
    <2>1. m = PCrdGrant /\ fromSN'.rsp = <<>> /\ fromSN.rsp # <<>>
      BY <1>1, <1>9, <1>11, OneIs
    <2>2. m.t = "PCrdGrant"
      BY <2>1, Answers
    <2>3. q.snGot = Both
      BY <1>8, <1>11, <2>2 DEF Both
    <2>4. cur' = q /\ toSN' = <<p>> /\ UNCHANGED <<down, snData>> /\ ~p.retry
      <3>1. Append(toSN, p) = <<p>>
        BY AppendIs DEF SNRetries
      <3> QED BY <1>6, <1>7, <1>8, <1>11, <2>2, <2>3, <3>1
    <2>5. SNAsked'
      BY <1>8, <1>9, <2>1, <2>3, <2>4 DEF SNRetries, SNAsked, MayAsk
    <2>6. Pending = 0 /\ Pending' = 0
      <3>1. fromSN.rsp # <<CompDBIDResp>> /\ fromSN.rsp # <<DBIDResp>>
        BY <1>1, <2>2, OneIs, Answers
      <3>2. fromSN'.rsp # <<CompDBIDResp>> /\ fromSN'.rsp # <<DBIDResp>>
        BY <2>1
      <3> QED BY <3>1, <3>2 DEF Pending, CompDBIDResp, DBIDResp
    <2> QED BY <1>5, <1>7, <1>8, <1>9, <2>4, <2>5, <2>6
  <1> QED BY <1>10, <1>11 DEF SNRetries

\* A response of the slave node.
LEMMA SNRspIs ==
    ASSUME PhaseInv, fromSN.rsp # <<>>
    PROVE  \/ /\ SNRetries
              /\ \/ WritesBack /\ cur.snReq.op = "WriteNoSnpPtl"
                 \/ Fetches /\ cur.snReq.op = "ReadNoSnp" /\ ~cur.snReq.receipt
                 \/ RunsAtomic /\ cur.snReq.op = cur.op /\ NoAtomic
                 \/ Writes /\ ~cur.toSNDone /\ cur.snReq.op \in {"WriteNoSnpPtl", "AtomicStoreADD"}
           \/ SNAnswers(CompDBIDResp) /\ WritesBack /\ MayAsk(cur)
           \/ SNAnswers(CompDBIDResp) /\ Writes /\ ~cur.toSNDone
           \/ SNAnswers(DBIDResp) /\ RunsAtomic /\ writes # <<>> /\ AtomicAt(Len(writes))
  <1>1. ~SNIdle
    BY DEF SNIdle
  <1>2. ASSUME NEW op PROVE SNBusy(op) => SNRetries /\ cur.snReq.op = op
    BY DEF SNBusy, SNAsked
  <1>3. ASSUME NEW to PROVE ~SNReturns(to)
    BY DEF SNReturns
  <1>4. CASE WritesBack
    BY <1>2, <1>4 DEF WritesBack
  <1>5. CASE Fetches
    <2>1. \/ SNBusy("ReadNoSnp") /\ ~cur.snReq.receipt
          \/ SNReturns(cur.snReq.to)
      BY <1>5 DEF Fetches
    <2> QED BY <1>2, <1>3, <1>5, <2>1
  <1>6. CASE RunsAtomic
    <2>1. \/ SNBusy(cur.op) /\ NoAtomic
          \/ SNAnswers(DBIDResp) /\ writes # <<>> /\ AtomicAt(Len(writes))
          \/ SNIdle /\ writes # <<>> /\ AtomicAt(Len(writes))
          \/ SNReturns("HN") /\ NoAtomic
      BY <1>6 DEF RunsAtomic
    <2> QED BY <1>1, <1>2, <1>3, <1>6, <2>1
  <1>7. CASE Writes
    <2>1. \/ /\ ~cur.toSNDone
             /\ \/ SNBusy("WriteNoSnpPtl") \/ SNBusy("AtomicStoreADD")
                \/ SNAnswers(CompDBIDResp)
          \/ cur.toSNDone /\ SNIdle /\ Owed
      BY <1>7 DEF Writes
    <2>2. CASE ~cur.toSNDone /\ SNBusy("WriteNoSnpPtl")
      BY <1>2, <1>7, <2>2
    <2>3. CASE ~cur.toSNDone /\ SNBusy("AtomicStoreADD")
      BY <1>2, <1>7, <2>3
    <2> QED BY <1>1, <1>7, <2>1, <2>2, <2>3
  <1> QED BY <1>1, <1>4, <1>5, <1>6, <1>7, AtSlave

LEMMA SNRetryStep ==
    ASSUME IInv, RxRspSN, UNCHANGED <<mode, rnVars, snVars>>, SNRetries,
           \/ WritesBack /\ cur.snReq.op = "WriteNoSnpPtl"
           \/ Fetches /\ cur.snReq.op = "ReadNoSnp" /\ ~cur.snReq.receipt
           \/ RunsAtomic /\ cur.snReq.op = cur.op /\ NoAtomic
           \/ Writes /\ ~cur.toSNDone /\ cur.snReq.op \in {"WriteNoSnpPtl", "AtomicStoreADD"}
    PROVE  IInv'
  <1>1. UNCHANGED <<mode, access, stage, want, txn, dvm, writes, snToggle>>
    BY DEF rnVars, snVars
  <1>2. /\ IsReq(cur') /\ UNCHANGED <<up, down, snData, reqList>>
        /\ DOMAIN fromSN' = DOMAIN fromSN
        /\ cur'.op = cur.op /\ cur'.src = cur.src /\ cur'.line = cur.line
        /\ cur'.ack = cur.ack /\ cur'.waiting = cur.waiting
        /\ cur'.waitReceipt = cur.waitReceipt /\ cur'.ackRcvd = cur.ackRcvd
        /\ cur'.gotSnpData = cur.gotSnpData /\ cur'.snpPD = cur.snpPD
        /\ cur'.snpResp = cur.snpResp /\ cur'.waitAck = cur.waitAck
        /\ cur'.toSNDone = cur.toSNDone /\ cur'.fwded = cur.fwded
        /\ cur'.snReq.op = cur.snReq.op /\ cur'.snReq.to = cur.snReq.to
        /\ cur'.snReq.receipt = cur.snReq.receipt /\ ~cur'.snReq.retry
        /\ SNAsked' \/ SNRetries'
        /\ Pending = 0 /\ Pending' = 0
    BY <1>1, SNRetryIs
  <1>3. /\ src' = src /\ (Owed' <=> Owed)
        /\ Served => Served'
        /\ Unanswered => Unanswered'
        /\ Others => Others'
        /\ OthersCalm => OthersCalm'
        /\ Fixed => Fixed'
        /\ NoAnswer(src) => NoAnswer(src)'
        /\ Silent(src) => Silent(src)'
        /\ Aside(src) => Aside(src)'
    BY <1>1, <1>2, KeepIs
  <1>4. NoAtomic => NoAtomic'
    BY <1>1 DEF NoAtomic, AtomicAt
  <1>5. HomeShape'
    BY <1>2 DEF HomeShape, IInv, Shape
  <1>6. CASE WritesBack /\ cur.snReq.op = "WriteNoSnpPtl"
    <2>1. WritesBack'
      BY <1>2, <1>3, <1>4, <1>6 DEF WritesBack, SNBusy
    <2> QED BY <1>1, <1>2, <1>5, <1>6, <2>1, HomeStep DEF PhaseInv, WritesBack, Fixed, IInv, Shape, DVMInv
  <1>7. CASE Fetches /\ cur.snReq.op = "ReadNoSnp" /\ ~cur.snReq.receipt
    <2>1. AllowsDMT(cur)' <=> AllowsDMT(cur)
      BY <1>2 DEF AllowsDMT
    <2>2. SNBusy("ReadNoSnp")' /\ ~cur'.snReq.receipt
      BY <1>2, <1>7 DEF SNBusy
    <2>3. Fetches'
      BY <1>2, <1>3, <1>4, <1>7, <2>1, <2>2 DEF Fetches
    <2> QED BY <1>1, <1>2, <1>5, <1>7, <2>3, HomeStep DEF PhaseInv, Fetches, Fixed, IInv, Shape, DVMInv
  <1>8. CASE RunsAtomic /\ cur.snReq.op = cur.op /\ NoAtomic
    <2>1. "Sent" \in txn'[src'].got /\ {"Data", "Part"} \cap txn'[src'].got = {}
      BY <1>1, <1>3, <1>8 DEF RunsAtomic
    <2>2. RunsAtomic'
      BY <1>2, <1>3, <1>4, <1>8, <2>1 DEF RunsAtomic, SNBusy
    <2> QED BY <1>1, <1>2, <1>5, <1>8, <2>2, HomeStep DEF PhaseInv, RunsAtomic, Fixed, IInv, Shape, DVMInv
  <1>9. CASE Writes /\ ~cur.toSNDone /\ cur.snReq.op \in {"WriteNoSnpPtl", "AtomicStoreADD"}
    <2>1. SNBusy("WriteNoSnpPtl")' \/ SNBusy("AtomicStoreADD")'
      BY <1>2, <1>9 DEF SNBusy
    <2>2. \/ /\ Owed' /\ Served' /\ cur'.waitAck /\ NoAnswer(src)'
             /\ up'[src'].dat = <<>> /\ up'[src'].rsp = <<CompAck>>
          \/ ~Owed' /\ Aside(src)' /\ Silent(src)'
      <3>1. CASE Owed
        BY <1>2, <1>3, <1>9, <3>1 DEF Writes
      <3>2. CASE ~Owed
        BY <1>2, <1>3, <1>9, <3>2 DEF Writes
      <3> QED BY <3>1, <3>2
    <2>3. src' \in Requesters /\ down'[src'].snp = <<>>
      BY <1>2, <1>3, <1>9 DEF Writes
    <2>4. Writes'
      BY <1>2, <1>3, <1>4, <1>9, <2>1, <2>2, <2>3 DEF Writes
    <2> QED BY <1>1, <1>2, <1>5, <1>9, <2>4, HomeStep DEF PhaseInv, Writes, Fixed, IInv, Shape, DVMInv
  <1> QED BY <1>6, <1>7, <1>8, <1>9

\* The slave node asks for data: it is put on the channel, for the write that
\* is last on the list of the slave node.
LEMMA SendSNDataIs ==
    ASSUME IInv, RxRspSN, UNCHANGED <<mode, rnVars, snVars>>, NEW m, SNAnswers(m),
           m = CompDBIDResp \/ m = DBIDResp
    PROVE  /\ SendSNData(m)
           /\ UNCHANGED <<up, reqList, mode, access, stage, want, txn, dvm, writes, snToggle>>
           /\ DOMAIN fromSN' = DOMAIN fromSN /\ fromSN'.rsp = <<>> /\ fromSN'.dat = <<>>
           /\ toSN = <<>>
           /\ IsSeq(snData') /\ IsSeq(writes') /\ SlaveInv'
  <1>1. m = Head(fromSN.rsp) /\ Tail(fromSN.rsp) = <<>> /\ fromSN.dat = <<>> /\ toSN = <<>>
    BY OneIs DEF SNAnswers
  <1>2. m.t \in {"CompDBIDResp", "DBIDResp"}
    BY Answers
  <1>3. SendSNData(m) /\ fromSN' = [fromSN EXCEPT !.rsp = Tail(@)] /\ UNCHANGED <<up, reqList>>
    BY <1>1, <1>2 DEF RxRspSN
  <1>4. UNCHANGED <<mode, access, stage, want, txn, dvm, writes, snToggle>>
    BY DEF rnVars, snVars
  <1>5. DOMAIN fromSN' = DOMAIN fromSN /\ fromSN'.rsp = <<>> /\ fromSN'.dat = <<>>
    BY <1>1, <1>3 DEF IInv, Shape
  <1>6. IsSeq(writes') /\ IsSeq(snData) /\ IsSeq(writes)
    BY <1>4 DEF IInv, Shape, IsSeq
  <1>8. PICK d : snData' = Append(snData, d)
    BY <1>3 DEF SendSNData
  <1>9. IsSeq(snData') /\ Len(snData') = Len(snData) + 1
    BY <1>6, <1>8, SeqAppend
  <1>10. Pending = 1
    BY DEF Pending, SNAnswers
  <1>11. Pending' = 0
    <2>1. fromSN'.rsp # <<CompDBIDResp>> /\ fromSN'.rsp # <<DBIDResp>>
      BY <1>5
    <2> QED BY <2>1 DEF Pending, CompDBIDResp, DBIDResp
  <1>12. SlaveInv'
    <2>1. Len(writes') = Len(snData')
      BY <1>4, <1>6, <1>9, <1>10, SeqLen DEF IInv, SlaveInv
    <2>2. Len(writes') = Len(snData') + Pending'
      BY <1>6, <1>4, <1>11, <2>1, SeqLen
    <2> QED BY <1>4, <2>2 DEF IInv, SlaveInv, AtomicAt
  <1> QED BY <1>1, <1>3, <1>4, <1>5, <1>6, <1>9, <1>12

\* Dirty data has been written back: now the request itself.
LEMMA WrittenBackStep ==
    ASSUME IInv, RxRspSN, UNCHANGED <<mode, rnVars, snVars>>, SNAnswers(CompDBIDResp),
           WritesBack, MayAsk(cur)
    PROVE  IInv'
  <1>1. /\ SendSNData(CompDBIDResp)
        /\ UNCHANGED <<up, reqList, mode, access, stage, want, txn, dvm, writes, snToggle>>
        /\ DOMAIN fromSN' = DOMAIN fromSN /\ fromSN'.rsp = <<>> /\ fromSN'.dat = <<>>
        /\ toSN = <<>>
        /\ IsSeq(snData') /\ IsSeq(writes') /\ SlaveInv'
    BY SendSNDataIs
  <1>2. /\ cur.waiting = {} /\ ~cur.waitReceipt /\ cur.op \in Snooping
        /\ Served /\ Unanswered /\ Others /\ OthersCalm /\ NoAtomic
        /\ cur.gotSnpData /\ ~cur.snpPD /\ ~cur.ackRcvd /\ ~cur.fwded
    BY DEF WritesBack, Fixed
  <1>3. PICK q : q = cur
    OBVIOUS
  <1>4. ProcessSnpdReq(q, filter)
    BY <1>1, <1>2, <1>3, Answers DEF SendSNData
  <1>5. Ready(q)
    BY <1>2, <1>3 DEF Ready, Served, src, IInv, Shape, MayAsk
  <1>6. PICK z : z = src /\ z = q.src /\ z \in Requesters
    BY <1>2, <1>3 DEF Served, Serves, src
  <1>7. Turn(z)
    <2>1. \A s : Listed(s)' <=> Listed(s)
      BY <1>1 DEF Listed
    <2>2. \A r \in Requesters : Silent(r) /\ down[r].snp = <<>>
      <3>1. Silent(z) /\ down[z].snp = <<>>
        BY <1>2, <1>6 DEF Served, Unanswered
      <3>2. \A r \in Requesters \ {z} : Silent(r) /\ down[r].snp = <<>>
        BY <1>2, <1>6 DEF OthersCalm, Calm
      <3> QED BY <3>1, <3>2
    <2>3. \A r \in Requesters : up'[r].req = up[r].req /\ Silent(r)'
      BY <1>1, <2>2 DEF Silent
    <2>4. \A r \in Requesters \ {z} : Aside(r)
      BY <1>2, <1>6 DEF Others
    <2>5. up[z].req = <<>> /\ ~Listed(z)' /\ NoAnswer(z) /\ Untouched(z)
      BY <1>2, <1>6, <2>1 DEF Served, Unanswered
    <2>6. NoAtomic'
      BY <1>1, <1>2 DEF NoAtomic, AtomicAt
    <2> QED BY <1>1, <2>1, <2>2, <2>3, <2>4, <2>5, <2>6 DEF Turn, IInv, Shape
  <1>8. ~MustWriteBack(q) /\ q.op \in Snooping
    BY <1>2, <1>3 DEF MustWriteBack
  <1>9. HomeShape' /\ PhaseInv'
    BY <1>4, <1>5, <1>6, <1>7, <1>8, ProcessSnpdReqPhase
  <1> QED BY <1>1, <1>2, <1>9, SlaveSideStep

\* A write counts as done when its data is on the channel.
LEMMA WrittenStep ==
    ASSUME IInv, RxRspSN, UNCHANGED <<mode, rnVars, snVars>>, SNAnswers(CompDBIDResp),
           Writes, ~cur.toSNDone
    PROVE  IInv'
  <1>1. /\ SendSNData(CompDBIDResp)
        /\ UNCHANGED <<up, reqList, mode, access, stage, want, txn, dvm, writes, snToggle>>
        /\ DOMAIN fromSN' = DOMAIN fromSN /\ fromSN'.rsp = <<>> /\ fromSN'.dat = <<>>
        /\ toSN = <<>>
        /\ IsSeq(snData') /\ IsSeq(writes') /\ SlaveInv'
    BY SendSNDataIs
  <1>2. /\ cur.waiting = {} /\ ~cur.waitReceipt /\ cur.op \in Storing /\ src \in Requesters
        /\ (cur.ack => cur.op \in UniqueWrites) /\ Fixed
        /\ ~cur.gotSnpData /\ NoAtomic /\ Others /\ OthersCalm /\ down[src].snp = <<>>
    BY DEF Writes, Fixed
  <1>3. /\ cur' = IF ~cur.ack \/ cur.ackRcvd THEN NoReq ELSE [cur EXCEPT !.toSNDone = TRUE]
        /\ UNCHANGED <<down, toSN>>
    BY <1>1, <1>2, Answers DEF SendSNData
  <1>4. SNIdle' /\ NoAtomic'
    BY <1>1, <1>2, <1>3 DEF SNIdle, NoAtomic, AtomicAt
  <1>5. PICK z : z = src /\ z \in Requesters
    BY <1>2
  <1>6. \A s : Listed(s)' <=> Listed(s)
    BY <1>1 DEF Listed
  <1>7. \A s : Rests(s)
    BY <1>1, <1>3, <1>6 DEF Rests
  <1>8. CASE ~Owed
    <2>1. cur' = NoReq
      BY <1>3, <1>8 DEF Owed
    <2>2. Aside(z) /\ Calm(z)
      BY <1>2, <1>5, <1>8 DEF Writes, Calm
    <2>3. \A s \in Requesters : Aside(s) /\ Calm(s)
      BY <1>2, <1>5, <2>2 DEF Others, OthersCalm
    <2>4. \A s \in Requesters : Aside(s)' /\ Calm(s)'
      BY <1>7, <2>3, RestsIs
    <2>5. Idle'
      BY <1>4, <2>1, <2>4 DEF Idle
    <2>6. HomeShape'
      BY <1>3, <2>1, NoReqIs DEF HomeShape, IInv, Shape
    <2> QED BY <1>1, <1>2, <2>5, <2>6, SlaveSideStep DEF PhaseInv
  <1>9. CASE Owed
    <2>1. cur' = [cur EXCEPT !.toSNDone = TRUE]
      BY <1>3, <1>9 DEF Owed
    <2>2. /\ IsReq(cur') /\ cur'.toSNDone
          /\ cur'.op = cur.op /\ cur'.src = cur.src /\ cur'.line = cur.line
          /\ cur'.ack = cur.ack /\ cur'.waiting = cur.waiting
          /\ cur'.waitReceipt = cur.waitReceipt /\ cur'.ackRcvd = cur.ackRcvd
          /\ cur'.gotSnpData = cur.gotSnpData /\ cur'.waitAck = cur.waitAck
      BY <2>1 DEF IInv, Shape, IsReq, ReqFields
    <2>3. /\ src' = src /\ (Owed' <=> Owed)
          /\ Served => Served'
          /\ Others => Others'
          /\ OthersCalm => OthersCalm'
          /\ Fixed => Fixed'
          /\ NoAnswer(src) => NoAnswer(src)'
      BY <1>1, <1>3, <2>2, KeepIs
    <2>4. /\ Owed' /\ Served' /\ cur'.waitAck /\ NoAnswer(src)'
          /\ up'[src'].dat = <<>> /\ up'[src'].rsp = <<CompAck>>
      BY <1>1, <1>9, <2>2, <2>3 DEF Writes
    <2>5. src' \in Requesters /\ down'[src'].snp = <<>>
      BY <1>2, <1>3, <2>3
    <2>6. Writes'
      BY <1>2, <1>4, <2>2, <2>3, <2>4, <2>5 DEF Writes
    <2>7. HomeShape'
      BY <1>3, <2>2 DEF HomeShape, IInv, Shape
    <2> QED BY <1>1, <1>2, <2>6, <2>7, SlaveSideStep DEF PhaseInv
  <1> QED BY <1>8, <1>9

\* An atomic that returns data: the home node goes on waiting.
LEMMA AtomicSentStep ==
    ASSUME IInv, RxRspSN, UNCHANGED <<mode, rnVars, snVars>>, SNAnswers(DBIDResp),
           RunsAtomic, writes # <<>>, AtomicAt(Len(writes))
    PROVE  IInv'
  <1>1. /\ SendSNData(DBIDResp)
        /\ UNCHANGED <<up, reqList, mode, access, stage, want, txn, dvm, writes, snToggle>>
        /\ DOMAIN fromSN' = DOMAIN fromSN /\ fromSN'.rsp = <<>> /\ fromSN'.dat = <<>>
        /\ toSN = <<>>
        /\ IsSeq(snData') /\ IsSeq(writes') /\ SlaveInv'
    BY SendSNDataIs
  <1>2. cur' = cur /\ UNCHANGED <<down, toSN>>
    BY <1>1, Answers DEF SendSNData, RunsAtomic
  <1>3. SNIdle'
    BY <1>1, <1>2 DEF SNIdle
  <1>4. /\ src' = src
        /\ Served => Served'
        /\ Others => Others'
        /\ OthersCalm => OthersCalm'
        /\ Fixed => Fixed'
        /\ NoAnswer(src) => NoAnswer(src)'
        /\ Silent(src) => Silent(src)'
    BY <1>1, <1>2, KeepIs
  <1>5. writes' # <<>> /\ AtomicAt(Len(writes))'
    BY <1>1 DEF AtomicAt
  <1>6. "Sent" \in txn'[src'].got /\ {"Data", "Part"} \cap txn'[src'].got = {}
    BY <1>1, <1>4 DEF RunsAtomic
  <1>7. RunsAtomic'
    BY <1>2, <1>3, <1>4, <1>5, <1>6 DEF RunsAtomic
  <1>8. HomeShape'
    BY <1>2 DEF HomeShape, IInv, Shape
  <1> QED BY <1>1, <1>7, <1>8, SlaveSideStep DEF PhaseInv, RunsAtomic, Fixed

LEMMA RxRspSNStep ==
    ASSUME IInv, RxRspSN, UNCHANGED <<mode, rnVars, snVars>>
    PROVE  IInv'
  <1>1. fromSN.rsp # <<>> /\ PhaseInv
    BY DEF RxRspSN, IInv
  <1> QED BY <1>1, SNRspIs, SNRetryStep, WrittenBackStep, WrittenStep, AtomicSentStep

\* Data of the slave node.
LEMMA SNDatIs ==
    ASSUME PhaseInv, fromSN.dat # <<>>
    PROVE  \/ Fetches /\ SNReturns(cur.snReq.to)
           \/ RunsAtomic /\ SNReturns("HN") /\ NoAtomic
  <1>1. ~SNIdle
    BY DEF SNIdle
  <1>2. ASSUME NEW op PROVE ~SNBusy(op)
    BY DEF SNBusy, SNAsked, SNRetries
  <1>3. ASSUME NEW m PROVE ~SNAnswers(m)
    BY DEF SNAnswers
  <1>4. ~WritesBack /\ ~Writes
    BY <1>1, <1>2, <1>3 DEF WritesBack, Writes
  <1>5. Fetches => SNReturns(cur.snReq.to)
    BY <1>2 DEF Fetches
  <1>6. RunsAtomic => SNReturns("HN") /\ NoAtomic
    BY <1>1, <1>2, <1>3 DEF RunsAtomic
  <1> QED BY <1>1, <1>4, <1>5, <1>6, AtSlave

\* Read data passes through, or is the answer of the home node.
LEMMA SNDataStep ==
    ASSUME IInv, RxDatSN, UNCHANGED <<mode, rnVars, snVars>>, NEW to, SNReturns(to),
           \/ Fetches /\ to = cur.snReq.to
           \/ RunsAtomic /\ to = "HN" /\ NoAtomic
    PROVE  IInv'
  <1>1. PICK m : m = fromSN.dat[1]
    OBVIOUS
  <1>2. /\ m = Head(fromSN.dat) /\ Tail(fromSN.dat) = <<>>
        /\ m.t = "CompData" /\ m.to = to /\ IsMsg(m) /\ fromSN.rsp = <<>> /\ toSN = <<>>
    BY <1>1, OneIs DEF SNReturns, One, IsMsg
  <1>3. /\ fromSN' = [fromSN EXCEPT !.dat = Tail(@)] /\ UNCHANGED <<up, toSN, snData, reqList>>
        /\ IF m.to # "HN"
           THEN down' = Put(down, m.to, "dat", m) /\ UNCHANGED cur
           ELSE /\ ToRN(cur, [m EXCEPT !.st = IF IsAtomic(cur.op) THEN "I" ELSE cur.snpResp,
                                       !.to = cur.src])
                /\ cur' = IF cur.ack THEN [cur EXCEPT !.waitAck = TRUE] ELSE NoReq
    BY <1>2 DEF RxDatSN
  <1>4. UNCHANGED <<mode, access, stage, want, txn, dvm, writes, snToggle>>
    BY DEF rnVars, snVars
  <1>5. /\ Served /\ NoAnswer(src) /\ Silent(src) /\ Others /\ OthersCalm /\ NoAtomic
        /\ cur.waiting = {} /\ ~cur.waitReceipt
    BY DEF Fetches, RunsAtomic, Fixed, Unanswered
  <1>6. PICK z : z = src /\ z = cur.src /\ z \in Requesters
    BY <1>5 DEF Served, Serves, src
  <1>7. z # "HN"
    BY <1>6, ChiAssumption
  <1>8. PICK x : IsMsg(x) /\ x.t = "CompData" /\ down' = Put(down, z, "dat", x)
    <2>1. CASE to # "HN"
      <3>1. to = z
        BY <1>6, <2>1 DEF Fetches
      <3> QED BY <1>2, <1>3, <2>1, <3>1
    <2>2. CASE to = "HN"
      <3>1. PICK st : st = IF IsAtomic(cur.op) THEN "I" ELSE cur.snpResp
        OBVIOUS
      <3>2. PICK x : x = [m EXCEPT !.st = st, !.to = cur.src]
        OBVIOUS
      <3>3. x.t = "CompData" /\ IsMsg(x)
        BY <1>2, <3>2 DEF IsMsg, MsgFields
      <3>4. ToRN(cur, x)
        BY <1>2, <1>3, <2>2, <3>1, <3>2
      <3> QED BY <1>6, <3>3, <3>4 DEF ToRN
    <2> QED BY <2>1, <2>2
  <1>9. /\ DOMAIN down' = Requesters
        /\ \A s \in Requesters : DOMAIN down'[s] = DOMAIN down[s]
        /\ \A s \in Requesters \ {z} : down'[s] = down[s]
        /\ down'[z].snp = <<>> /\ down'[z].rsp = <<>> /\ down'[z].dat = <<x>>
    <2>1. down[z].dat = <<>> /\ down[z].rsp = <<>> /\ down[z].snp = <<>>
      BY <1>5, <1>6 DEF NoAnswer, Served
    <2>2. Append(<<>>, x) = <<x>>
      BY AppendIs
    <2> QED BY <1>6, <1>8, <2>1, <2>2 DEF IInv, Shape, Put
  <1>10. One(down'[z].dat) /\ down'[z].dat[1].t = "CompData" /\ IsMsg(down'[z].dat[1])
    <2>1. down'[z].dat # <<>> /\ down'[z].dat[1] = x /\ down'[z].dat = <<down'[z].dat[1]>>
      BY <1>9, OneIs
    <2> QED BY <1>8, <2>1 DEF One, IsMsg
  <1>11. /\ DOMAIN fromSN' = DOMAIN fromSN /\ fromSN'.dat = <<>> /\ fromSN'.rsp = fromSN.rsp
    BY <1>2, <1>3 DEF IInv, Shape
  <1>12. \A s : Listed(s)' <=> Listed(s)
    BY <1>3 DEF Listed
  <1>13. ASSUME NEW s \in Requesters \ {z} PROVE Aside(s)' /\ Calm(s)'
    <2>1. Rests(s)
      BY <1>3, <1>4, <1>9, <1>12, <1>13 DEF Rests
    <2> QED BY <1>5, <1>6, <1>13, <2>1, RestsIs DEF Others, OthersCalm
  <1>14. SNIdle' /\ NoAtomic' /\ Pending' = Pending
    BY <1>2, <1>3, <1>4, <1>5, <1>11 DEF SNIdle, NoAtomic, AtomicAt, Pending
  <1>15. /\ up[z].req = <<>> /\ ~Listed(z) /\ txn[z].op = cur.op /\ Silent(z)
         /\ Acked(cur.op, cur.ack) /\ Serves(cur, txn[z])
    BY <1>5, <1>6 DEF Served, Serves
  <1>16. \A s \in Requesters : ~dvm[s]
    BY <1>5 DEF IInv, DVMInv
  <1>17. CASE Fetches /\ to = cur.snReq.to
    <2>1. /\ IsReq(cur') /\ cur'.waitAck
          /\ cur'.op = cur.op /\ cur'.src = cur.src /\ cur'.line = cur.line
          /\ cur'.ack = cur.ack /\ cur'.waiting = cur.waiting
          /\ cur'.waitReceipt = cur.waitReceipt /\ cur'.ackRcvd = cur.ackRcvd
      <3>1. CASE to # "HN"
        <4>1. cur' = cur /\ cur.waitAck
          BY <1>2, <1>3, <1>6, <1>17, <3>1 DEF Fetches
        <4> QED BY <4>1 DEF IInv, Shape
      <3>2. CASE to = "HN"
        <4>1. cur.ack
          BY <1>15, <1>17 DEF Acked, Fetches
        <4>2. cur' = [cur EXCEPT !.waitAck = TRUE]
          BY <1>2, <1>3, <3>2, <4>1
        <4> QED BY <4>2 DEF IInv, Shape, IsReq, ReqFields
      <3> QED BY <3>1, <3>2
    <2>2. src' = z
      BY <1>6, <2>1 DEF src
    <2>3. Others' /\ OthersCalm'
      BY <1>13, <2>2 DEF Others, OthersCalm
    <2>4. Served'
      <3>1. Serves(cur', txn'[z])
        BY <1>4, <1>15, <2>1 DEF Serves
      <3> QED BY <1>3, <1>9, <1>12, <1>15, <2>2, <3>1 DEF Served
    <2>5. Untouched(z) /\ cur.op \in Reading /\ ~cur.ackRcvd
      BY <1>6, <1>17 DEF Fetches, Unanswered
    <2>6. GivesData'
      <3>1. Silent(src)' /\ Untouched(src)'
        BY <1>3, <1>4, <1>15, <2>2, <2>5 DEF Silent, Untouched
      <3> QED BY <1>9, <1>10, <2>1, <2>2, <2>3, <2>5, <3>1 DEF GivesData, One, IsMsg
    <2>7. Gives'
      BY <1>5, <1>14, <2>1, <2>3, <2>4, <2>5, <2>6 DEF Gives, Fixed
    <2>8. HomeShape'
      BY <1>9, <2>1 DEF HomeShape, IInv, Shape
    <2> QED BY <1>3, <1>4, <1>11, <1>14, <1>16, <2>7, <2>8, HomeStep DEF PhaseInv, IInv, Shape
  <1>18. CASE RunsAtomic /\ to = "HN" /\ NoAtomic
    <2>1. ~cur.ack /\ cur.op \in Swapping
      BY <1>15, <1>18 DEF RunsAtomic, Acked, ReqOps, Reading, ReadOnces, Fills, UniqueWrites,
                          Upgrading, Swapping
    <2>2. cur' = NoReq
      BY <1>2, <1>3, <1>18, <2>1
    <2>3. Replied(z)' /\ Calm(z)'
      <3>1. txn[z].op \in Swapping /\ "Sent" \in txn[z].got /\ {"Data", "Part"} \cap txn[z].got = {}
        BY <1>6, <1>15, <1>18, <2>1 DEF RunsAtomic
      <3> QED BY <1>3, <1>4, <1>9, <1>10, <1>12, <1>15, <3>1
              DEF Replied, Calm, Silent, One, IsMsg
    <2>4. Idle'
      <3>1. \A s \in Requesters : Aside(s)' /\ Calm(s)'
        BY <1>13, <2>3 DEF Aside
      <3> QED BY <1>14, <2>2, <3>1 DEF Idle
    <2>5. HomeShape'
      BY <1>9, <2>2, NoReqIs DEF HomeShape, IInv, Shape
    <2> QED BY <1>3, <1>4, <1>11, <1>14, <1>16, <2>4, <2>5, HomeStep DEF PhaseInv, IInv, Shape
  <1> QED BY <1>17, <1>18

LEMMA RxDatSNStep ==
    ASSUME IInv, RxDatSN, UNCHANGED <<mode, rnVars, snVars>>
    PROVE  IInv'
  <1>1. fromSN.dat # <<>> /\ PhaseInv
    BY DEF RxDatSN, IInv
  <1> QED BY <1>1, SNDatIs, SNDataStep

LEMMA HomeActionStep ==
    ASSUME IInv, Home
    PROVE  IInv'
  BY RouteReqStep, RxRspSNStep, RxDatSNStep DEF Home

(***************************************************************************)
(* The slave node.                                                         *)
(***************************************************************************)
\* A request at the slave node.
LEMMA SNReqIs ==
    ASSUME PhaseInv, toSN # <<>>
    PROVE  /\ SNAsked
           /\ \/ WritesBack /\ cur.snReq.op = "WriteNoSnpPtl" /\ (cur.snReq.retry => cur.snGot = {})
              \/ Fetches /\ cur.snReq.op = "ReadNoSnp" /\ ~cur.snReq.receipt
              \/ RunsAtomic /\ cur.snReq.op = cur.op /\ NoAtomic
              \/ Writes /\ ~cur.toSNDone /\ cur.snReq.op \in {"WriteNoSnpPtl", "AtomicStoreADD"}
  <1>1. ~SNIdle
    BY DEF SNIdle
  <1>2. ASSUME NEW op PROVE SNBusy(op) => SNAsked /\ cur.snReq.op = op
    BY DEF SNBusy, SNRetries
  <1>3. ASSUME NEW to PROVE ~SNReturns(to)
    BY DEF SNReturns
  <1>4. ASSUME NEW m PROVE ~SNAnswers(m)
    BY DEF SNAnswers
  <1>5. CASE WritesBack
    BY <1>2, <1>4, <1>5 DEF WritesBack
  <1>6. CASE Fetches
    <2>1. SNBusy("ReadNoSnp") /\ ~cur.snReq.receipt
      BY <1>3, <1>6 DEF Fetches
    <2> QED BY <1>2, <1>6, <2>1
  <1>7. CASE RunsAtomic
    <2>1. SNBusy(cur.op) /\ NoAtomic
      BY <1>1, <1>3, <1>4, <1>7 DEF RunsAtomic
    <2> QED BY <1>2, <1>7, <2>1
  <1>8. CASE Writes
    <2>1. ~cur.toSNDone /\ (SNBusy("WriteNoSnpPtl") \/ SNBusy("AtomicStoreADD"))
      BY <1>1, <1>4, <1>8 DEF Writes
    <2>2. CASE SNBusy("WriteNoSnpPtl")
      BY <1>2, <1>8, <2>1, <2>2
    <2>3. CASE SNBusy("AtomicStoreADD")
      BY <1>2, <1>8, <2>1, <2>3
    <2> QED BY <2>1, <2>2, <2>3
  <1> QED BY <1>1, <1>5, <1>6, <1>7, <1>8, AtSlave

\* The slave node retries no request twice: a request that is sent again is
\* not to be retried, and one that finds the flags set finds m_toggle set.
LEMMA SNRefusesStep ==
    ASSUME IInv, SnRxReq, UNCHANGED <<mode, rnVars, hnVars>>, SNAsked,
           cur.snReq.retry, ~snToggle,
           \/ WritesBack /\ cur.snReq.op = "WriteNoSnpPtl"
           \/ Fetches /\ cur.snReq.op = "ReadNoSnp" /\ ~cur.snReq.receipt
           \/ RunsAtomic /\ cur.snReq.op = cur.op /\ NoAtomic
           \/ Writes /\ ~cur.toSNDone /\ cur.snReq.op \in {"WriteNoSnpPtl", "AtomicStoreADD"}
    PROVE  IInv'
  <1>1. PICK m : m = cur.snReq
    OBVIOUS
  <1>2. m = Head(toSN) /\ Tail(toSN) = <<>> /\ fromSN.rsp = <<>> /\ fromSN.dat = <<>>
        /\ cur.snGot = {}
    BY <1>1, OneIs DEF SNAsked, MayAsk
  <1>3. /\ toSN' = <<>> /\ snToggle'
        /\ fromSN' = [fromSN EXCEPT !.rsp = @ \o <<RetryAck, PCrdGrant>>]
        /\ writes' = writes
        /\ UNCHANGED <<up, down, snData, mode, txn, access, stage, want, dvm, cur, reqList>>
    BY <1>1, <1>2 DEF SnRxReq, Say, RetryAck, PCrdGrant, rnVars, hnVars
  <1>4. /\ DOMAIN fromSN' = DOMAIN fromSN /\ fromSN'.dat = <<>>
        /\ fromSN'.rsp = <<RetryAck, PCrdGrant>>
    BY <1>2, <1>3, AppendIs DEF IInv, Shape
  <1>5. SNRetries'
    BY <1>2, <1>3, <1>4 DEF SNRetries
  <1>6. Pending' = Pending
    <2>1. fromSN.rsp # <<CompDBIDResp>> /\ fromSN.rsp # <<DBIDResp>>
      BY <1>2
    <2>2. fromSN'.rsp # <<CompDBIDResp>> /\ fromSN'.rsp # <<DBIDResp>>
      <3>1. Head(fromSN'.rsp) = RetryAck
        BY <1>4, TwoIs
      <3> QED BY <3>1, OneIs, Answers
    <2> QED BY <2>1, <2>2 DEF Pending, CompDBIDResp, DBIDResp
  <1>7. /\ src' = src /\ (Owed' <=> Owed)
        /\ Served => Served'
        /\ Unanswered => Unanswered'
        /\ Others => Others'
        /\ OthersCalm => OthersCalm'
        /\ Fixed => Fixed'
        /\ NoAnswer(src) => NoAnswer(src)'
        /\ Silent(src) => Silent(src)'
        /\ Aside(src) => Aside(src)'
    BY <1>3, KeepIs
  <1>8. NoAtomic => NoAtomic'
    BY <1>3 DEF NoAtomic, AtomicAt
  <1>9. HomeShape'
    BY <1>3 DEF HomeShape, IInv, Shape
  <1>10. SNBusy(cur.snReq.op)'
    BY <1>3, <1>5 DEF SNBusy
  <1>11. PhaseInv' /\ cur.waiting = {}
    <2>1. CASE WritesBack /\ cur.snReq.op = "WriteNoSnpPtl"
      <3>1. SNBusy("WriteNoSnpPtl")'
        BY <1>3, <1>5, <2>1 DEF SNBusy
      <3>2. WritesBack'
        BY <1>2, <1>3, <1>7, <1>8, <2>1, <3>1 DEF WritesBack
      <3> QED BY <2>1, <3>2 DEF PhaseInv, WritesBack, Fixed
    <2>2. CASE Fetches /\ cur.snReq.op = "ReadNoSnp" /\ ~cur.snReq.receipt
      <3>1. SNBusy("ReadNoSnp")'
        BY <1>3, <1>5, <2>2 DEF SNBusy
      <3>2. Fetches'
        BY <1>3, <1>7, <1>8, <2>2, <3>1 DEF Fetches, AllowsDMT
      <3> QED BY <2>2, <3>2 DEF PhaseInv, Fetches, Fixed
    <2>3. CASE RunsAtomic /\ cur.snReq.op = cur.op /\ NoAtomic
      <3>1. "Sent" \in txn'[src'].got /\ {"Data", "Part"} \cap txn'[src'].got = {}
        BY <1>3, <1>7, <2>3 DEF RunsAtomic
      <3>2. RunsAtomic'
        BY <1>3, <1>5, <1>7, <1>8, <2>3, <3>1 DEF RunsAtomic, SNBusy
      <3> QED BY <2>3, <3>2 DEF PhaseInv, RunsAtomic, Fixed
    <2>4. CASE Writes /\ ~cur.toSNDone /\ cur.snReq.op \in {"WriteNoSnpPtl", "AtomicStoreADD"}
      <3>1. SNBusy("WriteNoSnpPtl")' \/ SNBusy("AtomicStoreADD")'
        BY <1>3, <1>5, <2>4 DEF SNBusy
      <3>2. \/ /\ Owed' /\ Served' /\ cur'.waitAck /\ NoAnswer(src)'
               /\ up'[src'].dat = <<>> /\ up'[src'].rsp = <<CompAck>>
            \/ ~Owed' /\ Aside(src)' /\ Silent(src)'
        <4>1. CASE Owed
          BY <1>3, <1>7, <2>4, <4>1 DEF Writes
        <4>2. CASE ~Owed
          BY <1>3, <1>7, <2>4, <4>2 DEF Writes
        <4> QED BY <4>1, <4>2
      <3>3. src' \in Requesters /\ down'[src'].snp = <<>>
        BY <1>3, <1>7, <2>4 DEF Writes
      <3>4. Writes'
        BY <1>3, <1>7, <1>8, <2>4, <3>1, <3>2, <3>3 DEF Writes
      <3> QED BY <2>4, <3>4 DEF PhaseInv, Writes, Fixed
    <2> QED BY <2>1, <2>2, <2>3, <2>4
  <1> QED BY <1>3, <1>4, <1>6, <1>9, <1>11, HomeStep DEF IInv, Shape, DVMInv

\* A write joins the list of those whose data is to come, and is asked for it.
LEMMA WriteListed ==
    ASSUME IInv, NoAtomic, fromSN.rsp = <<>>, NEW m, writes' = Append(writes, m),
           snData' = snData,
           fromSN'.rsp = <<CompDBIDResp>> \/ fromSN'.rsp = <<DBIDResp>>,
           m.op \in Swapping => m.to = "HN"
    PROVE  /\ IsSeq(writes') /\ IsSeq(snData') /\ SlaveInv' /\ writes' # <<>>
           /\ m.op \in Swapping => AtomicAt(Len(writes))'
           /\ m.op \notin Swapping => NoAtomic'
  <1>1. IsSeq(writes) /\ IsSeq(snData)
    BY DEF IInv, Shape
  <1>2. IsSeq(snData')
    BY <1>1 DEF IsSeq
  <1>3. /\ IsSeq(writes') /\ Len(writes') = Len(writes) + 1 /\ writes' # <<>>
        /\ DOMAIN writes' = 1..(Len(writes) + 1)
        /\ writes'[Len(writes) + 1] = m
        /\ \A i \in DOMAIN writes : writes'[i] = writes[i]
    <2>1. PICK w : w = Append(writes, m)
      OBVIOUS
    <2>2. /\ IsSeq(w) /\ Len(w) = Len(writes) + 1 /\ w # <<>>
          /\ DOMAIN w = 1..(Len(writes) + 1)
          /\ w[Len(writes) + 1] = m
          /\ \A i \in DOMAIN writes : w[i] = writes[i]
      BY <1>1, <2>1, SeqAppend
    <2>3. writes' = w
      BY <2>1
    <2>4. IsSeq(writes')
      BY <2>2, <2>3 DEF IsSeq
    <2> QED BY <2>2, <2>3, <2>4
  <1>4. Len(writes) \in Nat /\ DOMAIN writes = 1..Len(writes) /\ Len(snData) \in Nat
    BY <1>1, SeqLen
  <1>5. Pending = 0
    <2>1. fromSN.rsp # <<CompDBIDResp>> /\ fromSN.rsp # <<DBIDResp>>
      OBVIOUS
    <2> QED BY <2>1 DEF Pending, CompDBIDResp, DBIDResp
  <1>6. Pending' = 1
    BY DEF Pending
  <1>7. Len(writes') = Len(snData') + Pending'
    <2>1. Len(writes) = Len(snData)
      BY <1>4, <1>5 DEF IInv, SlaveInv
    <2> QED BY <1>3, <1>4, <1>6, <2>1
  <1>8. \A i \in DOMAIN writes' : writes'[i].op \in Swapping => i = Len(writes')
    <2>1. \A i \in DOMAIN writes : writes[i].op \notin Swapping
      BY DEF NoAtomic, AtomicAt
    <2> QED BY <1>3, <1>4, <2>1
  <1>9. \A i \in DOMAIN writes' :
           writes'[i].op \in Swapping => i = Len(writes') /\ writes'[i].to = "HN"
    BY <1>3, <1>8
  <1>10. SlaveInv'
    BY <1>7, <1>9 DEF SlaveInv, AtomicAt
  <1>11. m.op \in Swapping => AtomicAt(Len(writes))'
    BY <1>3 DEF AtomicAt
  <1>12. m.op \notin Swapping => NoAtomic'
    <2>1. m.op \notin Swapping => \A i \in DOMAIN writes' : writes'[i].op \notin Swapping
      BY <1>3, <1>8
    <2> QED BY <2>1 DEF NoAtomic, AtomicAt
  <1> QED BY <1>2, <1>3, <1>10, <1>11, <1>12

\* The slave node serves the request.
LEMMA SNServesStep ==
    ASSUME IInv, SnRxReq, UNCHANGED <<mode, rnVars, hnVars>>, SNAsked,
           ~(cur.snReq.retry /\ ~snToggle),
           \/ WritesBack /\ cur.snReq.op = "WriteNoSnpPtl" /\ (cur.snReq.retry => cur.snGot = {})
           \/ Fetches /\ cur.snReq.op = "ReadNoSnp" /\ ~cur.snReq.receipt
           \/ RunsAtomic /\ cur.snReq.op = cur.op /\ NoAtomic
           \/ Writes /\ ~cur.toSNDone /\ cur.snReq.op \in {"WriteNoSnpPtl", "AtomicStoreADD"}
    PROVE  IInv'
  <1>1. PICK m : m = cur.snReq
    OBVIOUS
  <1>2. m = Head(toSN) /\ Tail(toSN) = <<>> /\ fromSN.rsp = <<>> /\ fromSN.dat = <<>>
    BY <1>1, OneIs DEF SNAsked
  <1>3. /\ toSN' = <<>> /\ snToggle' = IF m.retry THEN ~snToggle ELSE snToggle
        /\ UNCHANGED <<up, down, snData, mode, txn, access, stage, want, dvm, cur, reqList>>
    BY <1>1, <1>2 DEF SnRxReq, rnVars, hnVars
  <1>4. /\ src' = src /\ (Owed' <=> Owed)
        /\ Served => Served'
        /\ Unanswered => Unanswered'
        /\ Others => Others'
        /\ OthersCalm => OthersCalm'
        /\ Fixed => Fixed'
        /\ NoAnswer(src) => NoAnswer(src)'
        /\ Silent(src) => Silent(src)'
        /\ Aside(src) => Aside(src)'
    BY <1>3, KeepIs
  <1>5. HomeShape'
    BY <1>3 DEF HomeShape, IInv, Shape
  <1>6. CASE Fetches /\ cur.snReq.op = "ReadNoSnp" /\ ~cur.snReq.receipt
    <2>1. PICK x : x = Msg("CompData", "UC", FALSE, memory[m.line], Words, m.to)
      OBVIOUS
    <2>2. x.t = "CompData" /\ x.to = m.to /\ IsMsg(x)
      <3>1. PICK d : d = memory[m.line]
        OBVIOUS
      <3> QED BY <2>1, <3>1 DEF Msg, IsMsg, MsgFields
    <2>3. fromSN' = [rsp |-> fromSN.rsp, dat |-> Append(fromSN.dat, x)] /\ writes' = writes
      <3>1. m.op = "ReadNoSnp" /\ ~m.receipt /\ ~(m.retry /\ ~snToggle)
        BY <1>1, <1>6
      <3>2. PICK v : v = [rsp |-> IF Head(toSN).receipt
                                  THEN Append(fromSN.rsp, Rsp("ReadReceipt", "I", FALSE))
                                  ELSE fromSN.rsp,
                          dat |-> Append(fromSN.dat,
                                         Msg("CompData", "UC", FALSE, memory[Head(toSN).line],
                                             Words, Head(toSN).to))]
        OBVIOUS
      <3>3. PICK a1, a3, a4 : fromSN' =
              CASE Head(toSN).retry /\ ~snToggle -> a1
                [] ~(Head(toSN).retry /\ ~snToggle) /\ Head(toSN).op = "ReadNoSnp" -> v
                [] ~(Head(toSN).retry /\ ~snToggle) /\ IsAtomicNonStore(Head(toSN).op) -> a3
                [] OTHER -> a4
        BY <3>2, Zenon DEF SnRxReq
      <3>4. ~IsAtomicNonStore(Head(toSN).op)
        BY <1>2, <3>1 DEF IsAtomicNonStore
      <3>5. fromSN' = v
        BY <1>2, <3>1, <3>3, <3>4
      <3>6. x = Msg("CompData", "UC", FALSE, memory[Head(toSN).line], Words, Head(toSN).to)
        BY <1>2, <2>1
      <3>7. ~Head(toSN).receipt
        BY <1>2, <3>1
      <3>8. v = [rsp |-> fromSN.rsp, dat |-> Append(fromSN.dat, x)]
        BY <3>2, <3>6, <3>7, Zenon
      <3>9. writes' = writes
        BY <1>2, <3>1 DEF SnRxReq
      <3> QED BY <3>5, <3>8, <3>9
    <2>4. fromSN'.rsp = <<>> /\ fromSN'.dat = <<x>> /\ DOMAIN fromSN' = DOMAIN fromSN
      BY <1>2, <2>3, AppendIs DEF IInv, Shape
    <2>5. SNReturns(cur.snReq.to)'
      <3>1. fromSN'.dat # <<>> /\ fromSN'.dat[1] = x /\ fromSN'.dat = <<fromSN'.dat[1]>>
        BY <2>4, OneIs
      <3>2. cur'.snReq.to = m.to
        BY <1>1, <1>3
      <3> QED BY <1>3, <2>2, <2>4, <3>1, <3>2 DEF SNReturns, One, IsMsg
    <2>6. NoAtomic' /\ Pending' = Pending
      BY <1>2, <1>6, <2>3, <2>4 DEF Fetches, NoAtomic, AtomicAt, Pending
    <2>7. Fetches'
      BY <1>3, <1>4, <1>6, <2>5, <2>6 DEF Fetches, AllowsDMT
    <2> QED BY <1>3, <1>5, <1>6, <2>3, <2>4, <2>6, <2>7, HomeStep
            DEF PhaseInv, IInv, Shape, DVMInv, Fetches, Fixed
  <1>7. ASSUME m.op # "ReadNoSnp", NEW t, t = IF m.op \in Swapping THEN DBIDResp ELSE CompDBIDResp
        PROVE  /\ DOMAIN fromSN' = DOMAIN fromSN /\ fromSN'.rsp = <<t>> /\ fromSN'.dat = <<>>
               /\ writes' = Append(writes, m)
    <2>1. writes' = Append(writes, m)
      BY <1>1, <1>2, <1>7 DEF SnRxReq
    <2>2. fromSN' = [fromSN EXCEPT !.rsp = @ \o <<t>>]
      <3>1. CASE m.op \in Swapping
        BY <1>1, <1>2, <1>7, <3>1, Classes DEF SnRxReq, SayOne, Say, DBIDResp
      <3>2. CASE m.op \notin Swapping
        BY <1>1, <1>2, <1>7, <3>2, Classes DEF SnRxReq, SayOne, Say, CompDBIDResp
      <3> QED BY <3>1, <3>2
    <2> QED BY <1>2, <2>1, <2>2, AppendIs DEF IInv, Shape
  <1>8. CASE WritesBack /\ cur.snReq.op = "WriteNoSnpPtl" /\ (cur.snReq.retry => cur.snGot = {})
    <2>1. m.op # "ReadNoSnp" /\ m.op \notin Swapping
      BY <1>1, <1>8 DEF Swapping
    <2>2. /\ DOMAIN fromSN' = DOMAIN fromSN /\ fromSN'.rsp = <<CompDBIDResp>>
          /\ fromSN'.dat = <<>> /\ writes' = Append(writes, m)
      BY <1>7, <2>1
    <2>3. IsSeq(writes') /\ IsSeq(snData') /\ SlaveInv' /\ NoAtomic'
      BY <1>2, <1>3, <1>8, <2>1, <2>2, WriteListed DEF WritesBack
    <2>4. SNAnswers(CompDBIDResp)'
      BY <1>3, <2>2 DEF SNAnswers, CompDBIDResp, Rsp, Msg, ZeroData
    <2>5. MayAsk(cur)'
      BY <1>1, <1>3, <1>8 DEF MayAsk, SNAsked
    <2>6. WritesBack'
      BY <1>3, <1>4, <1>8, <2>3, <2>4, <2>5 DEF WritesBack
    <2> QED BY <1>3, <1>5, <1>8, <2>2, <2>3, <2>6, SlaveSideStep
            DEF PhaseInv, WritesBack, Fixed
  <1>9. CASE RunsAtomic /\ cur.snReq.op = cur.op /\ NoAtomic
    <2>1. m.op \in Swapping /\ m.op # "ReadNoSnp" /\ m.to = "HN"
      BY <1>1, <1>9 DEF RunsAtomic, Swapping
    <2>2. /\ DOMAIN fromSN' = DOMAIN fromSN /\ fromSN'.rsp = <<DBIDResp>>
          /\ fromSN'.dat = <<>> /\ writes' = Append(writes, m)
      BY <1>7, <2>1
    <2>3. IsSeq(writes') /\ IsSeq(snData') /\ SlaveInv' /\ writes' # <<>> /\ AtomicAt(Len(writes))'
      BY <1>2, <1>3, <1>9, <2>1, <2>2, WriteListed
    <2>4. SNAnswers(DBIDResp)'
      BY <1>3, <2>2 DEF SNAnswers, DBIDResp, Rsp, Msg, ZeroData
    <2>5. "Sent" \in txn'[src'].got /\ {"Data", "Part"} \cap txn'[src'].got = {}
      BY <1>3, <1>4, <1>9 DEF RunsAtomic
    <2>6. RunsAtomic'
      BY <1>3, <1>4, <1>9, <2>3, <2>4, <2>5 DEF RunsAtomic
    <2> QED BY <1>3, <1>5, <1>9, <2>2, <2>3, <2>6, SlaveSideStep
            DEF PhaseInv, RunsAtomic, Fixed
  <1>10. CASE Writes /\ ~cur.toSNDone /\ cur.snReq.op \in {"WriteNoSnpPtl", "AtomicStoreADD"}
    <2>1. m.op # "ReadNoSnp" /\ m.op \notin Swapping
      BY <1>1, <1>10 DEF Swapping
    <2>2. /\ DOMAIN fromSN' = DOMAIN fromSN /\ fromSN'.rsp = <<CompDBIDResp>>
          /\ fromSN'.dat = <<>> /\ writes' = Append(writes, m)
      BY <1>7, <2>1
    <2>3. IsSeq(writes') /\ IsSeq(snData') /\ SlaveInv' /\ NoAtomic'
      BY <1>2, <1>3, <1>10, <2>1, <2>2, WriteListed DEF Writes
    <2>4. SNAnswers(CompDBIDResp)'
      BY <1>3, <2>2 DEF SNAnswers, CompDBIDResp, Rsp, Msg, ZeroData
    <2>5. \/ /\ Owed' /\ Served' /\ cur'.waitAck /\ NoAnswer(src)'
             /\ up'[src'].dat = <<>> /\ up'[src'].rsp = <<CompAck>>
          \/ ~Owed' /\ Aside(src)' /\ Silent(src)'
      <3>1. CASE Owed
        BY <1>3, <1>4, <1>10, <3>1 DEF Writes
      <3>2. CASE ~Owed
        BY <1>3, <1>4, <1>10, <3>2 DEF Writes
      <3> QED BY <3>1, <3>2
    <2>6. src' \in Requesters /\ down'[src'].snp = <<>>
      BY <1>3, <1>4, <1>10 DEF Writes
    <2>7. Writes'
      BY <1>3, <1>4, <1>10, <2>3, <2>4, <2>5, <2>6 DEF Writes
    <2> QED BY <1>3, <1>5, <1>10, <2>2, <2>3, <2>7, SlaveSideStep
            DEF PhaseInv, Writes, Fixed
  <1> QED BY <1>6, <1>8, <1>9, <1>10

LEMMA SnRxReqStep ==
    ASSUME IInv, SnRxReq, UNCHANGED <<mode, rnVars, hnVars>>
    PROVE  IInv'
  <1>1. toSN # <<>> /\ PhaseInv
    BY DEF SnRxReq, IInv
  <1> QED BY <1>1, SNReqIs, SNRefusesStep, SNServesStep

\* The data of a write is taken from the channel: the request that is being
\* served, if any, does not see it.
LEMMA WriteTakenPhase ==
    ASSUME PhaseInv, UNCHANGED <<up, down, txn, dvm, reqList, cur, toSN, fromSN, snToggle>>,
           NoAtomic => NoAtomic',
           writes # <<>> /\ AtomicAt(Len(writes)) => writes' # <<>> /\ AtomicAt(Len(writes))'
    PROVE  PhaseInv'
  <1>1. /\ src' = src /\ (Owed' <=> Owed)
        /\ Served => Served'
        /\ Unanswered => Unanswered'
        /\ Others => Others'
        /\ OthersCalm => OthersCalm'
        /\ Fixed => Fixed'
        /\ NoAnswer(src) => NoAnswer(src)'
        /\ Silent(src) => Silent(src)'
        /\ Aside(src) => Aside(src)'
    BY KeepIs
  <1>2. \A s : Listed(s)' <=> Listed(s)
    BY DEF Listed
  <1>3. \A s : Rests(s)
    BY <1>2 DEF Rests
  <1>4. /\ SNIdle' <=> SNIdle
        /\ \A op : SNBusy(op)' <=> SNBusy(op)
        /\ \A m : SNAnswers(m)' <=> SNAnswers(m)
        /\ \A to : SNReturns(to)' <=> SNReturns(to)
        /\ MayAsk(cur)' <=> MayAsk(cur)
    BY DEF SNIdle, SNBusy, SNAsked, SNRetries, SNAnswers, SNReturns, MayAsk, One
  <1>5. CASE Idle
    <2>1. \A s \in Requesters : Aside(s)' /\ Calm(s)'
      BY <1>3, <1>5, RestsIs DEF Idle
    <2> QED BY <1>4, <1>5, <2>1 DEF Idle, PhaseInv
  <1>6. CASE Snoops
    <2>1. ASSUME NEW s \in Requesters \ {src}
          PROVE  IF s \in cur.waiting THEN Snooped(s)' ELSE Calm(s)'
      BY <1>1, <1>3, <1>6, RestsIs DEF Snoops
    <2>2. \A s \in Requesters \ {src'} : IF s \in cur'.waiting THEN Snooped(s)' ELSE Calm(s)'
      BY <1>1, <2>1
    <2> QED BY <1>1, <1>4, <1>6, <2>2 DEF Snoops, PhaseInv
  <1>7. CASE SnoopsDVM
    <2>1. ASSUME NEW s \in Requesters \ {src}
          PROVE  IF s \in cur.waiting THEN SnoopedDVM(s)' ELSE Calm(s)'
      BY <1>1, <1>3, <1>7, RestsIs DEF SnoopsDVM
    <2>2. \A s \in Requesters \ {src'} :
             IF s \in cur'.waiting THEN SnoopedDVM(s)' ELSE Calm(s)'
      BY <1>1, <2>1
    <2> QED BY <1>1, <1>4, <1>7, <2>2 DEF SnoopsDVM, PhaseInv
  <1>8. CASE WritesBack
    BY <1>1, <1>4, <1>8 DEF WritesBack, PhaseInv
  <1>9. CASE Fetches
    BY <1>1, <1>4, <1>9 DEF Fetches, AllowsDMT, PhaseInv
  <1>10. CASE Gives
    <2>1. CASE Forwards
      <3>1. PICK e \in Requesters \ {src} :
              /\ \A r \in Requesters \ {src, e} : Calm(r)
              /\ One(up[e].dat) /\ up[e].dat[1].t = "CompData" /\ up[e].dat[1].to = src
              /\ IsMsg(up[e].dat[1])
              /\ up[e].rsp = <<>> /\ down[e].snp = <<>>
        BY <2>1 DEF Forwards
      <3>2. \A r \in Requesters \ {src', e} : Calm(r)'
        BY <1>1, <1>3, <3>1, RestsIs
      <3>3. Forwards'
        BY <1>1, <2>1, <3>1, <3>2 DEF Forwards, One, IsMsg
      <3> QED BY <1>1, <1>4, <1>10, <3>3 DEF Gives, PhaseInv
    <2>2. CASE GivesData \/ GivesUnique \/ Acknowledged
      <3>1. Untouched(src) => Untouched(src)'
        BY <1>1 DEF Untouched
      <3>2. GivesData' \/ GivesUnique' \/ Acknowledged'
        BY <1>1, <2>2, <3>1 DEF GivesData, GivesUnique, Acknowledged, One, IsMsg
      <3> QED BY <1>1, <1>4, <1>10, <3>2 DEF Gives, PhaseInv
    <2> QED BY <1>10, <2>1, <2>2 DEF Gives
  <1>11. CASE TakesData
    <2>1. Untouched(src) => Untouched(src)'
      BY <1>1 DEF Untouched
    <2>2. TakesData'
      BY <1>1, <1>4, <1>11, <2>1 DEF TakesData, One, IsMsg
    <2> QED BY <2>2 DEF PhaseInv
  <1>12. CASE RunsAtomic
    BY <1>1, <1>4, <1>12 DEF RunsAtomic, PhaseInv
  <1>13. CASE Writes
    <2>1. CASE Owed
      BY <1>1, <1>4, <1>13, <2>1 DEF Writes, PhaseInv
    <2>2. CASE ~Owed
      BY <1>1, <1>4, <1>13, <2>2 DEF Writes, PhaseInv
    <2> QED BY <2>1, <2>2
  <1> QED BY <1>5, <1>6, <1>7, <1>8, <1>9, <1>10, <1>11, <1>12, <1>13 DEF PhaseInv

LEMMA SnRxDatStep ==
    ASSUME IInv, SnRxDat, UNCHANGED <<mode, rnVars, hnVars>>
    PROVE  IInv'
  <1>1. PICK w : w = Head(writes)
    OBVIOUS
  <1>2. /\ snData # <<>> /\ writes # <<>>
        /\ snData' = Tail(snData) /\ writes' = Tail(writes)
        /\ UNCHANGED <<up, down, toSN, snToggle, mode, txn, access, stage, want, dvm, cur, reqList>>
    BY DEF SnRxDat, rnVars, hnVars
  <1>3. IsSeq(writes) /\ IsSeq(snData)
    BY DEF IInv, Shape
  <1>4. /\ Len(writes) \in Nat /\ DOMAIN writes = 1..Len(writes) /\ w = writes[1]
        /\ 1 \in DOMAIN writes /\ Len(writes) > 0
        /\ Len(snData) \in Nat /\ Len(snData) > 0
    BY <1>1, <1>2, <1>3, SeqLen
  <1>5. /\ IsSeq(Tail(writes)) /\ Len(Tail(writes)) = Len(writes) - 1
        /\ DOMAIN Tail(writes) = 1..(Len(writes) - 1)
        /\ \A i \in 1..(Len(writes) - 1) : Tail(writes)[i] = writes[i + 1]
        /\ IsSeq(Tail(snData)) /\ Len(Tail(snData)) = Len(snData) - 1
    BY <1>2, <1>3, SeqTail
  <1>6. /\ Len(writes') = Len(writes) - 1 /\ DOMAIN writes' = 1..(Len(writes) - 1)
        /\ \A i \in 1..(Len(writes) - 1) : writes'[i] = writes[i + 1]
        /\ Len(snData') = Len(snData) - 1
    BY <1>2, <1>5
  <1>7. IsSeq(writes') /\ IsSeq(snData')
    BY <1>2, <1>5 DEF IsSeq
  <1>8. /\ Len(writes) = Len(snData) + Pending
        /\ \A i \in DOMAIN writes :
              writes[i].op \in Swapping => i = Len(writes) /\ writes[i].to = "HN"
    BY DEF IInv, SlaveInv, AtomicAt
  <1>9. \A i \in DOMAIN writes' :
           /\ i + 1 \in DOMAIN writes /\ writes'[i] = writes[i + 1]
           /\ (i + 1 = Len(writes) <=> i = Len(writes'))
    BY <1>4, <1>6
  <1>10. \A i \in DOMAIN writes' :
            writes'[i].op \in Swapping => i = Len(writes') /\ writes'[i].to = "HN"
    BY <1>8, <1>9
  <1>11. Pending \in {0, 1}
    BY DEF Pending
  <1>12. HomeShape'
    BY <1>2 DEF HomeShape, IInv, Shape
  <1>13. CASE w.op \notin Swapping
    <2>1. fromSN' = fromSN
      BY <1>1, <1>13, Classes DEF SnRxDat
    <2>2. SlaveInv'
      <3>1. Pending' = Pending
        BY <2>1 DEF Pending
      <3>2. Len(writes') = Len(snData') + Pending'
        BY <1>4, <1>6, <1>8, <1>11, <3>1
      <3> QED BY <1>10, <3>2 DEF SlaveInv, AtomicAt
    <2>3. NoAtomic => NoAtomic'
      BY <1>9 DEF NoAtomic, AtomicAt
    <2>4. ASSUME AtomicAt(Len(writes)) PROVE writes' # <<>> /\ AtomicAt(Len(writes))'
      <3>1. Len(writes) # 1
        BY <1>4, <1>13, <2>4 DEF AtomicAt
      <3>2. /\ Len(writes') \in DOMAIN writes' /\ Len(writes') + 1 = Len(writes)
            /\ Len(writes') # 0
        BY <1>4, <1>6, <3>1
      <3>3. writes'[Len(writes')] = writes[Len(writes)]
        BY <1>9, <3>2
      <3>4. writes' # <<>>
        BY <1>7, <3>2, SeqLen
      <3> QED BY <2>4, <3>3, <3>4 DEF AtomicAt
    <2>5. PhaseInv'
      BY <1>2, <2>1, <2>3, <2>4, WriteTakenPhase DEF IInv
    <2>6. TxnInv' /\ ListInv' /\ DVMInv'
      BY <1>2, ListStays DEF IInv, TxnInv, DVMInv
    <2>7. Shape'
      BY <1>2, <1>7, <1>12, <2>1 DEF IInv, Shape, HomeShape
    <2> QED BY <2>2, <2>5, <2>6, <2>7 DEF IInv
  <1>14. CASE w.op \in Swapping
    <2>1. Len(writes) = 1 /\ w.to = "HN"
      BY <1>4, <1>8, <1>14
    <2>2. Pending = 0
      <3>1. Len(writes) = Len(snData) + Pending
        BY <1>8
      <3>2. PICK n : n = Len(snData)
        OBVIOUS
      <3>3. n \in Nat /\ n > 0
        BY <1>4, <3>2
      <3>4. 1 = n + Pending
        BY <2>1, <3>1, <3>2
      <3> HIDE DEF Pending
      <3> QED BY <1>11, <3>3, <3>4
    <2>3. ~NoAtomic
      BY <1>4, <1>14 DEF NoAtomic, AtomicAt
    <2>4. RunsAtomic
      BY <2>3 DEF IInv, PhaseInv, Idle, Snoops, SnoopsDVM, WritesBack, Fetches, Gives, TakesData,
                  Writes
    <2>5. SNIdle
      <3>1. ~SNAnswers(DBIDResp)
        BY <2>2 DEF SNAnswers, Pending
      <3> QED BY <2>3, <2>4, <3>1 DEF RunsAtomic
    <2>6. PICK be, x : /\ x = Msg("CompData", "I", FALSE, memory[w.line], be, w.to)
                       /\ be = IF IsAtomic(w.op) /\ w.whole THEN Words ELSE Head(snData).be
      OBVIOUS
    <2>7. x.t = "CompData" /\ x.to = "HN" /\ IsMsg(x)
      <3>1. PICK d : d = memory[w.line]
        OBVIOUS
      <3> QED BY <2>1, <2>6, <3>1 DEF Msg, IsMsg, MsgFields
    <2>8. fromSN' = [fromSN EXCEPT !.dat = Append(@, x)]
      <3>1. IsAtomicNonStore(w.op)
        BY <1>14, Classes
      <3>2. IsAtomicNonStore(Head(writes).op)
        BY <1>1, <3>1
      <3>3. x = Msg("CompData", "I", FALSE, memory[Head(writes).line],
                    IF IsAtomic(Head(writes).op) /\ Head(writes).whole
                    THEN Words ELSE Head(snData).be, Head(writes).to)
        BY <1>1, <2>6
      <3> QED BY <3>2, <3>3 DEF SnRxDat
    <2>9. /\ DOMAIN fromSN' = DOMAIN fromSN /\ fromSN'.rsp = <<>> /\ fromSN'.dat = <<x>>
      BY <2>5, <2>8, AppendIs DEF IInv, Shape, SNIdle
    <2>10. SNReturns("HN")'
      <3>1. fromSN'.dat # <<>> /\ fromSN'.dat[1] = x /\ fromSN'.dat = <<fromSN'.dat[1]>>
        BY <2>9, OneIs
      <3> QED BY <1>2, <2>5, <2>7, <2>9, <3>1 DEF SNReturns, SNIdle, One, IsMsg
    <2>11. NoAtomic' /\ SlaveInv'
      <3>1. DOMAIN writes' = {} /\ Len(writes') = 0
        BY <1>6, <2>1
      <3>2. Pending' = Pending
        BY <2>5, <2>9 DEF Pending, SNIdle
      <3>3. Len(writes') = Len(snData') + Pending'
        BY <1>4, <1>6, <1>8, <2>1, <2>2, <3>1, <3>2
      <3> QED BY <3>1, <3>3 DEF NoAtomic, SlaveInv
    <2>12. /\ src' = src
           /\ Served => Served'
           /\ Others => Others'
           /\ OthersCalm => OthersCalm'
           /\ Fixed => Fixed'
           /\ NoAnswer(src) => NoAnswer(src)'
           /\ Silent(src) => Silent(src)'
      BY <1>2, KeepIs
    <2>13. "Sent" \in txn'[src'].got /\ {"Data", "Part"} \cap txn'[src'].got = {}
      BY <1>2, <2>4, <2>12 DEF RunsAtomic
    <2>14. RunsAtomic'
      BY <1>2, <2>4, <2>10, <2>11, <2>12, <2>13 DEF RunsAtomic
    <2> QED BY <1>2, <1>7, <1>12, <2>4, <2>9, <2>11, <2>14, SlaveSideStep
            DEF PhaseInv, RunsAtomic, Fixed
  <1> QED BY <1>13, <1>14

LEMMA SlaveStep ==
    ASSUME IInv, Slave
    PROVE  IInv'
  BY SnRxReqStep, SnRxDatStep DEF Slave

(***************************************************************************)
(* The invariant of the specification.                                     *)
(***************************************************************************)
LEMMA InitStep == ChiInit => IInv
  <1> SUFFICES ASSUME ChiInit PROVE IInv
    OBVIOUS
  <1>1. /\ up = [r \in Requesters |-> [req |-> <<>>, rsp |-> <<>>, dat |-> <<>>]]
        /\ down = [r \in Requesters |-> [rsp |-> <<>>, dat |-> <<>>, snp |-> <<>>]]
        /\ toSN = <<>> /\ snData = <<>> /\ fromSN = [rsp |-> <<>>, dat |-> <<>>]
        /\ reqList = <<>> /\ cur = NoReq /\ writes = <<>> /\ mode \in Modes
    BY DEF ChiInit, HnInit, SnInit
  <1>2. /\ DOMAIN access = Requesters /\ DOMAIN stage = Requesters /\ DOMAIN want = Requesters
        /\ DOMAIN txn = Requesters /\ DOMAIN dvm = Requesters
        /\ \A r \in Requesters : /\ access[r].kind = "none" /\ stage[r] = "loop" /\ ~dvm[r]
                                 /\ IsTxn(txn[r]) /\ txn[r].op = "none"
    BY DEF ChiInit, RnInit, NoOp, Access, NoTxn, IsTxn
  <1>3. /\ IsSeq(<<>>) /\ Len(<<>>) = 0 /\ DOMAIN <<>> = {}
    BY DEF IsSeq
  <1>4. IsReq(NoReq)
    BY NoReqIs
  <1>5. Shape
    BY <1>1, <1>2, <1>3, <1>4 DEF Shape
  <1>6. TxnInv
    BY <1>1, <1>2 DEF TxnInv
  <1>7. SNIdle /\ NoAtomic /\ SlaveInv
    BY <1>1, <1>3 DEF SNIdle, NoAtomic, SlaveInv, Pending
  <1>8. \A r \in Requesters : Aside(r) /\ Calm(r)
    BY <1>1, <1>2, <1>3 DEF Aside, Free, NoAnswer, Listed, Calm, Silent
  <1>9. PhaseInv
    BY <1>1, <1>7, <1>8 DEF Idle, PhaseInv
  <1>10. ListInv /\ DVMInv
    BY <1>1, <1>2, <1>3 DEF ListInv, DVMInv
  <1> QED BY <1>5, <1>6, <1>7, <1>9, <1>10 DEF IInv

LEMMA StutterStep ==
    ASSUME IInv, UNCHANGED vars
    PROVE  IInv'
  <1>1. UNCHANGED <<up, down, toSN, snData, fromSN, access, stage, want, txn, dvm, reqList, cur,
                    writes, snToggle, mode>>
    BY DEF vars, channels, rnVars, hnVars, snVars
  <1>2. Shape'
    BY <1>1 DEF IInv, Shape, IsTxn, IsReq, IsSeq
  <1>3. TxnInv' /\ DVMInv'
    BY <1>1 DEF IInv, TxnInv, DVMInv
  <1>4. ListInv'
    BY <1>1, ListStays DEF IInv
  <1>5. SlaveInv'
    BY <1>1 DEF IInv, SlaveInv, Pending, AtomicAt
  <1>6. PhaseInv'
    BY <1>1, WriteTakenPhase DEF IInv, NoAtomic, AtomicAt
  <1> QED BY <1>2, <1>3, <1>4, <1>5, <1>6 DEF IInv

LEMMA NextStep ==
    ASSUME IInv, [ChiNext]_vars
    PROVE  IInv'
  <1>1. ASSUME NEW r \in Requesters, Run(r) PROVE IInv'
    BY <1>1, RunStep
  <1>2. ASSUME NEW r \in Requesters, Start(r) PROVE IInv'
    BY <1>2, StartStep
  <1>3. ASSUME NEW r \in Requesters, Receive(r) PROVE IInv'
    BY <1>3, ReceiveStep
  <1>4. ASSUME NEW r \in Requesters, up[r].req # <<>>, SendReq(r) PROVE IInv'
    BY <1>4, SendReqStep
  <1>5. ASSUME NEW r \in Requesters, up[r].rsp # <<>>, SendRsp(r) PROVE IInv'
    BY <1>5, SendRspStep
  <1>6. ASSUME NEW r \in Requesters, up[r].dat # <<>>, SendDat(r) PROVE IInv'
    BY <1>6, SendDatStep
  <1>7. CASE Home
    BY <1>7, HomeActionStep
  <1>8. CASE Slave
    BY <1>8, SlaveStep
  <1>9. CASE Terminating \/ UNCHANGED vars
    BY <1>9, StutterStep DEF Terminating
  <1> QED BY <1>1, <1>2, <1>3, <1>4, <1>5, <1>6, <1>7, <1>8, <1>9 DEF ChiNext

\* What is on the channels of the CHI system is always what the phase of the
\* request that iconnect_chi is serving allows: the transactions of the
\* requesters, m_reqList, the channels of every port and the writes that the
\* slave node waits for agree, for every load and any number of requesters.
THEOREM SpecPhases == ChiSpec => []IInv
  <1>1. ChiInit => IInv
    BY InitStep
  <1>2. IInv /\ [ChiNext]_vars => IInv'
    BY NextStep
  <1> QED BY <1>1, <1>2, PTL DEF ChiSpec

\* iconnect_chi never has two requests out to sn_chi, and what is out is the
\* request that its transaction holds: the flags of a retry, which it never
\* clears, do not make it send a request again that the slave node has taken.
THEOREM SpecOneSlaveRequest == ChiSpec => []OneSlaveRequest
  <1>1. IInv => OneSlaveRequest
    <2> SUFFICES ASSUME IInv PROVE OneSlaveRequest
      OBVIOUS
    <2>1. CASE toSN = <<>>
      BY <2>1 DEF OneSlaveRequest
    <2>2. CASE toSN # <<>>
      <3>1. SNAsked /\ cur.snReq.op # "none"
        <4>1. PhaseInv /\ ~SNIdle
          BY <2>2 DEF IInv, SNIdle
        <4>2. cur.op # "none"
          BY <4>1, AtSlave, NoneIsNoReq
        <4>3. SNAsked /\ (\/ cur.snReq.op = "ReadNoSnp" \/ cur.snReq.op = cur.op
                         \/ cur.snReq.op \in {"WriteNoSnpPtl", "AtomicStoreADD"})
          BY <2>2, <4>1, SNReqIs
        <4> QED BY <4>2, <4>3
      <3>2. toSN = <<cur.snReq>>
        BY <3>1 DEF SNAsked
      <3>3. Len(toSN) = 1
        BY <3>2, OneIs
      <3> QED BY <3>1, <3>3 DEF OneSlaveRequest
    <2> QED BY <2>1, <2>2
  <1> QED BY <1>1, SpecPhases, PTL

\* The transaction of a requester takes the first response it gets.
LEMMA RspIsAccepted ==
    ASSUME IInv, NEW r \in Requesters, down[r].rsp # <<>>
    PROVE  AcceptsRsp(txn[r], Head(down[r].rsp))
  <1> DEFINE t == txn[r]
  <1>1. PICK m : m = Head(down[r].rsp)
    OBVIOUS
  <1>2. Untouched(r) => {"Comp", "DBID", "Data"} \cap t.got = {}
    BY DEF Untouched, Both
  <1>3. CASE Retried(r)
    <2>1. m = RetryAck \/ m = PCrdGrant
      BY <1>1, <1>3, OneIs, TwoIs DEF Retried
    <2> QED BY <1>1, <1>3, <2>1, Answers DEF Retried, AcceptsRsp
  <1>4. CASE Informed(r)
    <2>1. m.t = "Comp"
      BY <1>1, <1>4, OneIs, Answers DEF Informed
    <2>2. "Comp" \notin t.got /\ (IsDataLess(t.op) \/ t.op = "DVMOp")
      BY <1>2, <1>4, Classes DEF Informed
    <2> QED BY <1>1, <2>1, <2>2 DEF AcceptsRsp, DatalessTxnTakes, DVMOpTxnTakes
  <1>5. CASE r = src /\ Gives /\ GivesUnique
    <2>1. m.t = "Comp"
      BY <1>1, <1>5, OneIs, Answers DEF GivesUnique
    <2>2. "Comp" \notin t.got /\ IsDataLess(t.op)
      BY <1>2, <1>5, Classes DEF GivesUnique, Gives, Served, Serves
    <2> QED BY <1>1, <2>1, <2>2 DEF AcceptsRsp, DatalessTxnTakes
  <1>6. CASE r = src /\ TakesData /\ down[r].rsp = <<DBIDFor(cur.op)>> /\ Untouched(r)
    <2>1. m = DBIDFor(cur.op)
      BY <1>1, <1>6, OneIs
    <2>2. "DBID" \notin t.got /\ t.op = cur.op /\ cur.op \in Storing \cup Swapping \cup {"DVMOp"}
      BY <1>2, <1>6 DEF TakesData, Served, Serves
    <2>3. CASE t.op \in Storing
      <3>1. t.op \notin Swapping \cup {"DVMOp"}
        BY <2>3 DEF Storing, Writing, CopyBacks, UniqueWrites, Swapping
      <3>2. m.t = "CompDBIDResp"
        BY <2>1, <2>2, <3>1, Answers DEF DBIDFor
      <3>3. IsWrite(t.op) \/ IsAtomicStore(t.op)
        BY <2>3, Classes DEF Storing
      <3> QED BY <1>1, <2>2, <3>2, <3>3 DEF AcceptsRsp, WriteTxnTakes, AtomicTxnTakes
    <2>4. CASE t.op \in Swapping \cup {"DVMOp"}
      <3>1. m.t = "DBIDResp"
        BY <2>1, <2>2, <2>4, Answers DEF DBIDFor
      <3>2. IsAtomicNonStore(t.op) \/ t.op = "DVMOp"
        BY <2>4, Classes
      <3> QED BY <1>1, <2>2, <3>1, <3>2 DEF AcceptsRsp, AtomicTxnTakes, DVMOpTxnTakes
    <2> QED BY <2>2, <2>3, <2>4
  <1> QED BY <1>3, <1>4, <1>5, <1>6, DownRspIs DEF IInv

\* The transaction of a requester takes the first data it gets.
LEMMA DatIsAccepted ==
    ASSUME IInv, NEW r \in Requesters, down[r].dat # <<>>
    PROVE  AcceptsDat(txn[r], Head(down[r].dat))
  <1> DEFINE t == txn[r]
  <1>1. PICK m : m = Head(down[r].dat)
    OBVIOUS
  <1>2. One(down[r].dat) => m = down[r].dat[1]
    BY <1>1, OneIs DEF One
  <1>3. CASE Replied(r)
    <2>1. m.t = "CompData" /\ IsAtomicNonStore(t.op) /\ "Data" \notin t.got
      BY <1>2, <1>3, Classes DEF Replied
    <2> QED BY <1>1, <2>1 DEF AcceptsDat, AtomicTxnTakes
  <1>4. CASE r = src /\ Gives /\ GivesData
    <2>1. m.t = "CompData"
      BY <1>2, <1>4 DEF GivesData
    <2>2. IsRead(t.op) /\ "Data" \notin t.got
      BY <1>4, Classes DEF GivesData, Gives, Served, Serves, Untouched, Both
    <2> QED BY <1>1, <2>1, <2>2 DEF AcceptsDat, ReadTxnTakes
  <1> QED BY <1>3, <1>4, DownDatIs DEF IInv

\* The home node waits for each response that a requester sends.
LEMMA RspIsAwaited ==
    ASSUME IInv, NEW r \in Requesters, NEW i \in DOMAIN up[r].rsp
    PROVE  IF up[r].rsp[i].t = "CompAck" THEN cur.waitAck /\ cur.src = r ELSE r \in cur.waiting
  <1>1. up[r].rsp # <<>>
    OBVIOUS
  <1>2. PICK m : m = up[r].rsp[i]
    OBVIOUS
  <1>3. \A x : up[r].rsp = <<x>> => m = x
    BY <1>2, OneIs
  <1>4. CASE Snoops /\ r \in cur.waiting /\ AnswersOnRsp(r)
    <2>1. m.t \in {"SnpResp", "SnpRespFwded"}
      BY <1>3, <1>4 DEF AnswersOnRsp, One
    <2> QED BY <1>2, <1>4, <2>1
  <1>5. CASE r \in cur.waiting /\ up[r].rsp = <<SnpRespI>>
    <2>1. m.t = "SnpResp"
      BY <1>3, <1>5, Answers
    <2> QED BY <1>2, <1>5, <2>1
  <1>6. CASE r = src /\ cur.waitAck /\ up[r].rsp = <<CompAck>>
    <2>1. m.t = "CompAck"
      BY <1>3, <1>6, Answers
    <2> QED BY <1>2, <1>6, <2>1 DEF src
  <1>7. Gives /\ Acknowledged => cur.waitAck /\ up[src].rsp = <<CompAck>>
    BY DEF Gives, Acknowledged
  <1>8. Writes /\ Owed => cur.waitAck
    BY DEF Writes
  <1> QED BY <1>1, <1>4, <1>5, <1>6, <1>7, <1>8, UpRspIs DEF IInv

\* The home node waits for all the data that a requester sends.
LEMMA DatIsAwaited ==
    ASSUME IInv, NEW r \in Requesters, NEW i \in DOMAIN up[r].dat
    PROVE  CASE up[r].dat[i].t = "CompData" -> cur.waitAck /\ cur.src # r
             [] up[r].dat[i].t \in {"CopyBackWrData", "NonCopyBackWrData"} -> cur.src = r
             [] OTHER -> r \in cur.waiting
  <1>1. up[r].dat # <<>>
    OBVIOUS
  <1>2. PICK m : m = up[r].dat[i]
    OBVIOUS
  <1>3. One(up[r].dat) => m = up[r].dat[1]
    BY <1>2, OneIs DEF One
  <1>4. CASE Snoops /\ r \in cur.waiting /\ AnswersOnDat(r)
    <2>1. m.t \in {"SnpRespData", "SnpRespDataPtl", "SnpRespDataFwded"}
      BY <1>3, <1>4 DEF AnswersOnDat
    <2> QED BY <1>2, <1>4, <2>1
  <1>5. CASE Gives /\ r # src /\ One(up[r].dat) /\ up[r].dat[1].t = "CompData"
    <2>1. m.t = "CompData" /\ cur.waitAck
      BY <1>3, <1>5 DEF Gives
    <2> QED BY <1>2, <1>5, <2>1 DEF src
  <1>6. CASE r = src /\ One(up[r].dat) /\ up[r].dat[1].t = DataFor(cur.op)
    <2>1. m.t \in {"CopyBackWrData", "NonCopyBackWrData"}
      BY <1>3, <1>6 DEF DataFor
    <2> QED BY <1>2, <1>6, <2>1 DEF src
  <1> QED BY <1>1, <1>4, <1>5, <1>6, UpDatIs DEF IInv

\* The home node waits for each response of the slave node.
LEMMA SNRspIsAwaited ==
    ASSUME IInv
    PROVE  /\ \A i \in DOMAIN fromSN.rsp : fromSN.rsp[i].t = "ReadReceipt" => cur.waitReceipt
           /\ fromSN.rsp # <<>> => cur.op # "none"
  <1>1. fromSN.rsp # <<>> => cur.op # "none"
    BY AtSlave, NoneIsNoReq DEF IInv, SNIdle
  <1>2. ASSUME NEW i \in DOMAIN fromSN.rsp PROVE fromSN.rsp[i].t # "ReadReceipt"
    <2>1. fromSN.rsp # <<>>
      OBVIOUS
    <2>2. PICK m : m = fromSN.rsp[i]
      OBVIOUS
    <2>3. \A x : fromSN.rsp = <<x>> => m = x
      BY <2>2, OneIs
    <2>4. \A x, y : fromSN.rsp = <<x, y>> => m \in {x, y}
      BY <2>2
    <2>5. m \in {RetryAck, PCrdGrant, CompDBIDResp, DBIDResp}
      BY <2>1, <2>3, <2>4, SNRspIs DEF IInv, SNRetries, SNAnswers
    <2> QED BY <2>2, <2>5, Answers
  <1> QED BY <1>1, <1>2

\* No response, data or snoop response meets an assertion of the nodes: each
\* finds the transaction or the request that waits for it, although every
\* channel runs at its own speed and requests are retried, queued and snooped.
THEOREM SpecMessagesAreExpected == ChiSpec => []MessagesAreExpected
  <1>1. IInv => MessagesAreExpected
    BY RspIsAccepted, DatIsAccepted, RspIsAwaited, DatIsAwaited, SNRspIsAwaited
       DEF MessagesAreExpected
  <1> QED BY <1>1, SpecPhases, PTL
=============================================================================
