------------------------------ MODULE CcixPort ------------------------------
(***************************************************************************)
(* Two chips joined by a CCIX link (CCIXPort and CCIXLink of ccixport.h).  *)
(* The requester of each chip uses lines whose home is the other chip: its *)
(* port turns each CHI request into a CCIX request, and the port of the    *)
(* other chip turns that into a CHI request again.  The homes snoop lines  *)
(* that the other chip may hold, for requests of their own.                *)
(* TransmitTxn waits until tx_thread has sent the message, and the caller  *)
(* then goes on: this is the field "after" of a message in m_txList.       *)
(* The requesters and the homes are as ChiCache and ChiHome describe them; *)
(* here they do only what a port can see.                                  *)
(***************************************************************************)
EXTENDS CcixFlit, SequencesExt

CONSTANTS Lines,         \* Lines of each home that the other chip uses
          NumIDs,        \* TxnIDs::NumIDs, also the credits of each kind
          ChipIDs,       \* IDs of m_ids, the pool of a chip
          MaxMsgCredits, \* Max_Msg_Credits
          Scenarios      \* What the requesters and the homes do

ASSUME CcixAssumption ==
    NumIDs \in Nat \ {0} /\ ChipIDs \in Nat \ {0} /\ MaxMsgCredits \in Nat \ {0}

VARIABLES rn,     \* The requesters: for each line, its copy and its transaction
          port,   \* The CCIXPort of each chip, with its CCIXLink
          chip,   \* m_ids and m_ongoingTxn of each interconnect
          home,   \* The transaction that each home performs on a line
          filter, \* SnoopFilter of the remote agent, at each port
          link,   \* Messages on their way to each chip
          plan    \* What is left of the scenario

ccixVars == <<rn, port, chip, home, filter, link, plan>>

Chips == {1, 2}
Other(p) == 3 - p
LineOf(a) == a \div CachelineSz
None == 0
IDs == 1..NumIDs
GetID(free) == Min(free)    \* Any free ID; the code takes them in turn

Credits == [req |-> 0, data |-> 0, snoop |-> 0, misc |-> 0]
AllCredits == [k \in DOMAIN Credits |-> NumIDs]

NoReq == [op |-> "None"]
Idle(copy) == [copy |-> copy, c |-> NoReq, wait |-> {}, todo |-> {}]
NoTxn == [phase |-> "Idle"]

Scenario(reqs, copies, locals) == [reqs |-> reqs, copies |-> copies, locals |-> locals]

CcixInit ==
    \E s \in Scenarios :
        /\ plan = [reqs |-> s.reqs, locals |-> s.locals,
                   atomics |-> [p \in Chips |-> Len(SelectSeq(s.reqs[p], LAMBDA c : c.op \in Atomics))]]
        /\ rn = [p \in Chips |-> [l \in Lines |-> Idle(s.copies[p][l])]]
        /\ filter = [p \in Chips |-> {l \in Lines : s.copies[Other(p)][l] # "I"}]
        /\ port = [p \in Chips |->
             [rnq |-> <<>>, ongoing |-> <<>>, credited |-> FALSE, hn |-> {}, snps |-> {},
              tx |-> <<>>, rx |-> Credits, give |-> AllCredits, reqIDs |-> IDs, snpIDs |-> IDs]]
        /\ chip = [p \in Chips |-> [ids |-> 1..ChipIDs, txn |-> {}]]
        /\ home = [p \in Chips |-> [l \in Lines |-> NoTxn]]
        /\ link = [p \in Chips |-> <<>>]

(***************************************************************************)
(* The messages.  A CCIX message carries at least 8 bytes of data.  The    *)
(* fields chi and resp do not travel: they say what the sender meant.      *)
(***************************************************************************)
DataLen(n, len) == IF n >= CachelineSz THEN CachelineSz ELSE IF len < 8 THEN 8 ELSE len
ReqMsg(p, e) ==
    LET x == chi2ccix(e.c, e.resp)
        n == IF e.c.op \in Writes \cup Atomics THEN DataLen(e.c.size, CopyData(e.c).len) ELSE 0
    IN
    [type |-> "Req", src |-> p, tgt |-> Other(p), txn |-> LineOf(e.c.addr),
     reqOp |-> x.reqOp, reqAttr |-> x.reqAttr, addr |-> x.addr, ns |-> x.ns,
     data |-> n,
     be |-> IF HasByteEnables(x.reqOp) /\ n = CachelineSz THEN CopyByteEnables(e.c) ELSE Eighths(n),
     chi |-> e.c, resp |-> e.resp]
RespMsg(p, txn, code, data, resp) ==
    [type |-> "Resp", src |-> p, tgt |-> Other(p), txn |-> txn, code |-> code, data |-> data,
     resp |-> resp]
SnpMsg(p, txn, op, l) ==
    [type |-> "SnpReq", src |-> p, tgt |-> Other(p), txn |-> txn, snpOp |-> toSnpOp(op),
     addr |-> l * CachelineSz, ns |-> FALSE, chi |-> op]
SnpRespMsg(p, txn, code, data, chi) ==
    [type |-> "SnpResp", src |-> p, tgt |-> Other(p), txn |-> txn, code |-> code,
     data |-> data, chi |-> chi]
MiscMsg(p, g) == [type |-> "MiscUnCredited", src |-> p, tgt |-> Other(p), grant |-> g]

\* TransmitTxn
Queue(r, m, after) == [r EXCEPT !.tx = Append(@, [m |-> m, after |-> after])]
NoAfter == [do |-> "Nothing"]

(***************************************************************************)
(* Ends of transactions.  CCIXReq_Done_HN returns the CHI ID with the      *)
(* credits, CCIXReq_Done_RN lets the next request go.                      *)
(***************************************************************************)
\* Mutant: the data credit of a write is not returned.
CCIXReq_Done_HN_NoData(r, e, hasData) ==
    [r EXCEPT !.hn = @ \ {e}, !.reqIDs = @ \cup {e.chi}, !.give.req = @ + 1]
CCIXReq_Done_HN(r, e, hasData) ==
    [r EXCEPT !.hn = @ \ {e}, !.reqIDs = @ \cup {e.chi}, !.give.req = @ + 1,
              !.give.data = IF hasData THEN @ + 1 ELSE @]
CCIXReq_Done_RN(r) == [r EXCEPT !.ongoing = <<>>, !.credited = FALSE]
CCIXSnpReq_Done_RN(r, s) ==
    [r EXCEPT !.snps = @ \ {s}, !.snpIDs = @ \cup {s.chi}, !.give.snoop = @ + 1]

Hn(p, chi) == CHOOSE e \in port[p].hn : e.chi = chi
HnByTxn(p, txn) == CHOOSE e \in port[p].hn : e.txn = txn
SnpByChi(p, chi) == CHOOSE s \in port[p].snps : s.chi = chi

(***************************************************************************)
(* RN side: ProcessReq, ProcessDat and ProcessResp for the requester.      *)
(***************************************************************************)
RnEntry(c, resp) == [c |-> c, resp |-> resp, ack |-> ExpCompAck(c.op), dbid |-> None]

ProcessReq(p) ==
    LET c == Head(plan.reqs[p])
        l == LineOf(c.addr)
        id == GetID(chip[p].ids)
        reads == c.op \in Reads \cup Dataless
    IN
    /\ plan.reqs[p] # <<>> /\ rn[p][l].c = NoReq
    /\ reads \/ chip[p].ids # {}
    /\ plan' = [plan EXCEPT !.reqs[p] = Tail(@)]
    /\ rn' = [rn EXCEPT ![p][l] =
         [copy |-> IF c.op = "Evict" THEN "I" ELSE @.copy, c |-> c,
          wait |-> CASE c.op \in Reads \cup (Atomics \ {"AtomicStore"}) -> {"CompData"}
                     [] c.op \in Dataless -> {"Comp"}
                     [] OTHER -> {},
          todo |-> IF reads THEN {}
                   ELSE {"data"} \cup (IF c.op \in WriteUniques /\ c.ack THEN {"ack"} ELSE {})]]
    /\ port' = IF reads THEN [port EXCEPT ![p].rnq = Append(@, RnEntry(c, "I"))] ELSE port
    /\ chip' = IF reads THEN chip
               ELSE [chip EXCEPT ![p] =
                      [ids |-> @.ids \ {id},
                       txn |-> @.txn \cup {[id |-> id, c |-> c,
                                            waiting |-> c.op \in WriteUniques /\ c.ack,
                                            acked |-> FALSE, written |-> FALSE]}]]
    /\ UNCHANGED <<home, filter, link>>

TxnOf(p, l) == CHOOSE x \in chip[p].txn : LineOf(x.c.addr) = l
ReturnID(k, x) == [k EXCEPT !.ids = @ \cup {x.id}, !.txn = @ \ {x}]
Finished(s) == IF s.wait = {} /\ s.todo = {} THEN Idle(s.copy) ELSE s

\* The response of the data and the copy that the requester keeps.
WrDataResp(c, copy) ==
    CASE c.op \in {"WriteBackFull", "WriteCleanFull"} /\ copy = "UD" -> "UD_PD"
      [] c.op \in {"WriteBackFull", "WriteCleanFull"} /\ copy = "SD" -> "SD_PD"
      [] c.op = "WriteBackPtl" /\ copy = "UDP"                      -> "UD_PD"
      [] c.op \in CopyBacks /\ copy \in {"UC", "SC"}                 -> copy
      [] OTHER                                                      -> "I"
CopyAfterWrite(c, copy) ==
    CASE c.op = "WriteCleanFull" /\ copy = "UD" -> "UC"
      [] c.op = "WriteCleanFull" /\ copy = "SD" -> "SC"
      [] c.op \in CopyBacks \ {"WriteCleanFull"} -> "I"
      [] OTHER -> copy
PassDirty(resp) == resp \in {"UD_PD", "SD_PD"}

\* ProcessDat: CopyBackWrData or NonCopyBackWrData.
Forwards(c, resp) == c.op \in CopyBacks => PassDirty(resp)
SendWrData(p, l) ==
    LET s == rn[p][l]
        x == TxnOf(p, l)
        resp == WrDataResp(s.c, s.copy)
    IN
    /\ "data" \in s.todo
    /\ rn' = [rn EXCEPT ![p][l] = Finished([s EXCEPT !.todo = @ \ {"data"},
                                                    !.copy = CopyAfterWrite(s.c, @)])]
    /\ port' = IF Forwards(s.c, resp)
               THEN [port EXCEPT ![p].rnq = Append(@, RnEntry(s.c, resp))] ELSE port
    /\ chip' = [chip EXCEPT ![p] =
         IF ~x.waiting \/ x.acked THEN ReturnID(@, x)
         ELSE [@ EXCEPT !.txn = (@ \ {x}) \cup {[x EXCEPT !.written = TRUE]}]]
    /\ UNCHANGED <<home, filter, link, plan>>

\* ProcessResp: CompAck.
SendCompAck(p, l) ==
    LET s == rn[p][l] IN
    /\ "ack" \in s.todo
    /\ rn' = [rn EXCEPT ![p][l] = Finished([s EXCEPT !.todo = @ \ {"ack"}])]
    /\ IF s.c.op \in WriteUniques
       THEN LET x == TxnOf(p, l) IN
            /\ chip' = [chip EXCEPT ![p] =
                 IF x.written THEN ReturnID(@, x)
                 ELSE [@ EXCEPT !.txn = (@ \ {x}) \cup {[x EXCEPT !.acked = TRUE]}]]
            /\ UNCHANGED port
       ELSE /\ port' = [port EXCEPT ![p] =
                 Queue(@, SnpRespMsg(p, l, CompAck, 0, [opcode |-> "CompAck", resp |-> "I"]),
                       [do |-> "Done_RN"])]
            /\ UNCHANGED chip
    /\ UNCHANGED <<home, filter, link, plan>>

(***************************************************************************)
(* req_ordering_thread and CCIXLink.                                       *)
(***************************************************************************)
\* Mutant: the next request is taken while one is under way.
OneAtATime_Not(r) == r.ongoing = <<>> \/ r.credited
OneAtATime(r) == r.ongoing = <<>>
req_ordering_thread(p) ==
    /\ OneAtATime(port[p]) /\ port[p].rnq # <<>>
    /\ port' = [port EXCEPT ![p].ongoing = <<Head(port[p].rnq)>>, ![p].rnq = Tail(@),
                            ![p].credited = FALSE]
    /\ UNCHANGED <<rn, chip, home, filter, link, plan>>

HasCredits(r, e) == r.rx.req > 0 /\ (IsWrite(e.c.op) => r.rx.data > 0)
TransmitReq(p) ==
    LET r == port[p]
        e == r.ongoing[1]
    IN
    /\ r.ongoing # <<>> /\ ~r.credited /\ HasCredits(r, e)
    /\ port' = [port EXCEPT ![p] =
         Queue([r EXCEPT !.credited = TRUE, !.rx.req = @ - 1,
                         !.rx.data = IF IsWrite(e.c.op) THEN @ - 1 ELSE @],
               ReqMsg(p, e), NoAfter)]
    /\ UNCHANGED <<rn, chip, home, filter, link, plan>>

\* SetupCredits
Grant(g) == [k \in DOMAIN g |-> IF g[k] > MaxMsgCredits THEN MaxMsgCredits ELSE g[k]]
SendCredits(p) ==
    LET g == port[p].give IN
    /\ g # Credits
    /\ port' = [port EXCEPT ![p].give = [k \in DOMAIN g |-> g[k] - Grant(g)[k]]]
    /\ link' = [link EXCEPT ![Other(p)] = Append(@, MiscMsg(p, Grant(g)))]
    /\ UNCHANGED <<rn, chip, home, filter, plan>>

\* What the thread that sent the message does after it.
Continue(p, r, after) ==
    CASE after.do = "Done_HN"  -> CCIXReq_Done_HN(r, Hn(p, after.chi), after.hasData)
      [] after.do = "Done_Snp" -> CCIXSnpReq_Done_RN(r, SnpByChi(p, after.chi))
      [] after.do = "Done_RN"  -> CCIXReq_Done_RN(r)
      [] OTHER                 -> r
tx_thread(p) ==
    LET r == port[p]
        t == Head(r.tx)
    IN
    /\ r.give = Credits /\ r.tx # <<>>
    /\ port' = [port EXCEPT ![p] = Continue(p, [r EXCEPT !.tx = Tail(@)], t.after)]
    /\ chip' = IF t.after.do = "Done_RN"
               THEN [chip EXCEPT ![p].ids = @ \cup {r.ongoing[1].dbid}] ELSE chip
    /\ link' = [link EXCEPT ![Other(p)] = Append(@, t.m)]
    /\ UNCHANGED <<rn, home, filter, plan>>

(***************************************************************************)
(* ReceiveCCIX.                                                            *)
(***************************************************************************)
Receive(p, type) ==
    /\ link[p] # <<>> /\ Head(link[p]).type = type
    /\ link' = [link EXCEPT ![p] = Tail(@)]
    /\ UNCHANGED plan

UpdateRxCredits(p) ==
    /\ Receive(p, "MiscUnCredited")
    /\ port' = [port EXCEPT ![p].rx = [k \in DOMAIN @ |-> @[k] + Head(link[p]).grant[k]]]
    \* m_rxCreditsEvent also wakes the snoops that found no credit.
    /\ home' = [home EXCEPT ![p] = [l \in Lines |->
                  IF @[l].phase = "Wait" THEN [@[l] EXCEPT !.phase = "Woken"] ELSE @[l]]]
    /\ UNCHANGED <<rn, chip, filter>>

Receive_CCIXReq(p) ==
    LET m == Head(link[p])
        id == GetID(port[p].reqIDs)
    IN
    /\ Receive(p, "Req") /\ port[p].reqIDs # {}
    /\ port' = [port EXCEPT ![p].reqIDs = @ \ {id},
                            ![p].hn = @ \cup {[chi |-> id, txn |-> m.txn, m |-> m, c |-> ccix2chi(m),
                                               started |-> FALSE, dbid |-> None]}]
    /\ UNCHANGED <<rn, chip, home, filter>>

CopyAfterRead(op, resp, copy) ==
    IF op \in CoherentReads
    THEN CASE resp = "UD_PD" -> "UD" [] resp = "SD_PD" -> "SD" [] OTHER -> resp
    ELSE copy
\* IsCompData.  The DBID is the ID of the CompAck, and returns after it.
Receive_CompData(p) ==
    LET m == Head(link[p])
        e == port[p].ongoing[1]
        id == GetID(chip[p].ids)
    IN
    /\ Receive(p, "Resp") /\ ~IsComp(m.code)
    /\ e.ack => chip[p].ids # {}
    /\ rn' = [rn EXCEPT ![p][m.txn] =
         Finished([@ EXCEPT !.wait = {}, !.todo = IF e.ack THEN {"ack"} ELSE {},
                            !.copy = CopyAfterRead(e.c.op, GetCHIResp(m.code), @)])]
    /\ port' = [port EXCEPT ![p] =
         IF e.ack THEN [@ EXCEPT !.ongoing[1].dbid = id] ELSE CCIXReq_Done_RN(@)]
    /\ chip' = IF e.ack THEN [chip EXCEPT ![p].ids = @ \ {id}] ELSE chip
    /\ UNCHANGED <<home, filter>>

CopyAfterComp(op, copy) ==
    CASE op = "MakeUnique" -> "UD"
      [] op = "CleanUnique" /\ copy = "SC" -> "UC"
      [] op = "CleanUnique" /\ copy = "SD" -> "UD"
      [] op \in {"CleanInvalid", "MakeInvalid", "Evict"} -> "I"
      [] OTHER -> copy
\* IsComp: a write and an AtomicStore end with it, the requester knows nothing.
Receive_Comp(p) ==
    LET m == Head(link[p])
        e == port[p].ongoing[1]
        id == GetID(chip[p].ids)
    IN
    /\ Receive(p, "Resp") /\ IsComp(m.code)
    /\ e.ack => chip[p].ids # {}
    /\ rn' = IF IsDataLess(e.c.op)
             THEN [rn EXCEPT ![p][m.txn] =
                    Finished([@ EXCEPT !.wait = {}, !.todo = IF e.ack THEN {"ack"} ELSE {},
                                       !.copy = CopyAfterComp(e.c.op, @)])]
             ELSE rn
    /\ port' = [port EXCEPT ![p] =
         IF e.ack THEN [@ EXCEPT !.ongoing[1].dbid = id] ELSE CCIXReq_Done_RN(@)]
    /\ chip' = IF e.ack THEN [chip EXCEPT ![p].ids = @ \ {id}] ELSE chip
    /\ UNCHANGED <<home, filter>>

Receive_CCIXSnpReq(p) ==
    LET m == Head(link[p])
        id == GetID(port[p].snpIDs)
    IN
    /\ Receive(p, "SnpReq") /\ port[p].snpIDs # {}
    /\ port' = [port EXCEPT ![p].snpIDs = @ \ {id},
                            ![p].snps = @ \cup {[chi |-> id, m |-> m, answered |-> FALSE]}]
    /\ UNCHANGED <<rn, chip, home, filter>>

\* The answers of a cache to a snoop, and the copy it keeps.
Answer(opcode, resp, keep) == [opcode |-> opcode, resp |-> resp, keep |-> keep]
SnpAnswers(op, copy) ==
    CASE copy = "I" -> {Answer("SnpResp", "I", "I")}
      [] op = "SnpMakeInvalid" -> {Answer("SnpResp", "I", "I")}
      [] op = "SnpUnique" /\ copy \in {"UC", "SC"} ->
            {Answer("SnpResp", "I", "I")} \cup (IF copy = "UC" THEN {Answer("SnpRespData", "I", "I")} ELSE {})
      [] op = "SnpUnique" /\ copy \in {"UD", "SD"} -> {Answer("SnpRespData", "I_PD", "I")}
      [] op \in {"SnpUnique", "SnpShared", "SnpCleanShared"} /\ copy = "UDP" ->
            {Answer("SnpRespDataPtl", "I_PD", "I")}
      [] op = "SnpOnce" /\ copy = "UDP" -> {Answer("SnpRespDataPtl", "UC_UD", "UDP")}
      [] op = "SnpOnce" /\ copy \in {"UC", "UD"} -> {Answer("SnpRespData", "UC_UD", copy)}
      [] op = "SnpOnce" /\ copy = "SD" -> {Answer("SnpRespData", "SD", "SD")}
      [] op = "SnpShared" /\ copy \in {"UD", "SD"} ->
            {Answer("SnpRespData", "SC_PD", "SC"), Answer("SnpRespData", "SD", "SD")}
      [] op = "SnpShared" /\ copy = "UC" ->
            {Answer("SnpResp", "SC", "SC"), Answer("SnpRespData", "SC", "SC")}
      [] op = "SnpCleanShared" /\ copy = "UD" -> {Answer("SnpRespData", "UC_PD", "UC")}
      [] op = "SnpCleanShared" /\ copy = "SD" -> {Answer("SnpRespData", "SC_PD", "SC")}
      [] op = "SnpCleanShared" /\ copy = "UC" -> {Answer("SnpResp", "UC_UD", "UC")}
      [] OTHER -> {Answer("SnpResp", "SC", "SC")}

\* The requester answers; ProcessDat and ProcessResp send the answer on.
AnswerSnoop(p, s, a) ==
    LET l == LineOf(s.m.addr)
        data == IF a.opcode = "SnpResp" THEN 0 ELSE CachelineSz
        code == IF data = 0 THEN SetSnpResp(a.resp) ELSE SetSnpRespData(a.opcode, a.resp)
    IN
    /\ ~s.answered
    /\ a \in SnpAnswers(toCHIOpcode(s.m.snpOp), rn[p][l].copy)
    /\ rn' = [rn EXCEPT ![p][l].copy = a.keep]
    /\ port' = [port EXCEPT ![p] =
         Queue([@ EXCEPT !.snps = (@ \ {s}) \cup {[s EXCEPT !.answered = TRUE]}],
               SnpRespMsg(p, s.m.txn, code, data, [opcode |-> a.opcode, resp |-> a.resp]),
               [do |-> "Done_Snp", chi |-> s.chi])]
    /\ UNCHANGED <<chip, home, filter, link, plan>>

(***************************************************************************)
(* The home of a line, for requests of the other chip and its own.         *)
(***************************************************************************)
\* Mutant: a line that is written clean counts as gone.
FilterAfterReq_NoClean(f, op, l) ==
    IF op \in CoherentReads \cup {"CleanUnique", "MakeUnique"} THEN f \cup {l} ELSE f \ {l}
FilterAfterReq(f, op, l) ==
    CASE op \in CoherentReads \cup {"CleanUnique", "MakeUnique"} -> f \cup {l}
      [] op \in {"CleanShared", "CleanSharedPersist", "WriteCleanFull"} -> f
      [] OTHER -> f \ {l}

Homed(chi, op, phase, id) == [chi |-> chi, op |-> op, phase |-> phase, id |-> id]
TakeID(k) == [k EXCEPT !.ids = @ \ {GetID(@)}]
GiveID(k, id) == [k EXCEPT !.ids = @ \cup {id}]

\* ProcessReq of the home, with the ProcessResp of the port that it calls: a
\* request without data is answered, data is asked for and comes at once.
Perform(p, l, e, k) ==
    LET op == e.c.op
        id == GetID(k.ids)
        end == [do |-> "Done_HN", chi |-> e.chi, hasData |-> ~IsDataLess(op)]
        comp == RespMsg(p, e.txn, Comp, 0, GetDataLessResp(op))
        r == [port[p] EXCEPT !.hn = (@ \ {e}) \cup {[e EXCEPT !.started = TRUE]}]
    IN
    /\ op \notin Reads => k.ids # {}
    /\ IF op \in Reads
       THEN /\ home' = [home EXCEPT ![p][l] = Homed(e.chi, op, "Read", None)]
            /\ port' = [port EXCEPT ![p] = r]
            /\ chip' = [chip EXCEPT ![p] = k]
            /\ UNCHANGED filter
       ELSE IF IsDataLess(op) /\ ~e.c.ack
       THEN /\ home' = [home EXCEPT ![p][l] = NoTxn]
            /\ port' = [port EXCEPT ![p] = Queue(r, comp, end)]
            /\ chip' = [chip EXCEPT ![p] = k]
            /\ filter' = [filter EXCEPT ![p] = FilterAfterReq(@, op, l)]
       ELSE IF IsDataLess(op)
       THEN /\ home' = [home EXCEPT ![p][l] = Homed(e.chi, op, "Ack", id)]
            /\ port' = [port EXCEPT ![p] =
                 Queue([r EXCEPT !.hn = (port[p].hn \ {e}) \cup {[e EXCEPT !.started = TRUE, !.dbid = id]}],
                       comp, NoAfter)]
            /\ chip' = [chip EXCEPT ![p] = TakeID(k)]
            /\ UNCHANGED filter
       ELSE /\ home' = [home EXCEPT ![p][l] = Homed(e.chi, op, "Write", id)]
            /\ port' = [port EXCEPT ![p] =
                 IF IsAtomicNonStore(e.m.reqOp) THEN r ELSE Queue(r, comp, end)]
            /\ chip' = [chip EXCEPT ![p] = TakeID(k)]
            /\ filter' = IF op \in CopyBacks
                         THEN [filter EXCEPT ![p] = FilterAfterReq(@, op, l)] ELSE filter

\* NeedsSnoop: the requester itself is snooped for an atomic with SnoopMe.
StartRemote(p, l, e) ==
    /\ home[p][l] = NoTxn /\ ~e.started /\ LineOf(e.c.addr) = l
    /\ IF e.c.snpMe /\ l \in filter[p]
       THEN /\ chip[p].ids # {}
            /\ home' = [home EXCEPT ![p][l] = Homed(e.chi, "SnpUnique", "Snoop", GetID(chip[p].ids))]
            /\ chip' = [chip EXCEPT ![p] = TakeID(@)]
            /\ port' = [port EXCEPT ![p].hn = (@ \ {e}) \cup {[e EXCEPT !.started = TRUE]}]
            /\ UNCHANGED filter
       ELSE Perform(p, l, e, chip[p])
    /\ UNCHANGED <<rn, link, plan>>

\* A request of the home's own chip.
StartLocal(p) ==
    LET q == Head(plan.locals[p]) IN
    /\ plan.locals[p] # <<>> /\ home[p][q.line] = NoTxn
    /\ plan' = [plan EXCEPT !.locals[p] = Tail(@)]
    /\ IF q.line \in filter[p]
       THEN /\ chip[p].ids # {}
            /\ home' = [home EXCEPT ![p][q.line] = Homed(None, q.snp, "Snoop", GetID(chip[p].ids))]
            /\ chip' = [chip EXCEPT ![p] = TakeID(@)]
       ELSE UNCHANGED <<home, chip>>
    /\ UNCHANGED <<rn, port, filter, link>>

\* Transmit(CCIXSnpReq): it waits for an event once, and does not look again.
TransmitSnoop(p, l) ==
    LET h == home[p][l] IN
    /\ h.phase \in {"Snoop", "Woken"}
    /\ IF h.phase = "Snoop" /\ port[p].rx.snoop = 0
       THEN home' = [home EXCEPT ![p][l].phase = "Wait"] /\ UNCHANGED port
       ELSE /\ home' = [home EXCEPT ![p][l].phase = "Snooped"]
            /\ port' = [port EXCEPT ![p] =
                 Queue([@ EXCEPT !.rx.snoop = @ - 1], SnpMsg(p, h.id, h.op, l), NoAfter)]
    /\ UNCHANGED <<rn, chip, filter, link, plan>>

\* Receive_CCIXSnpResp: an answer to a snoop, or the CompAck of a request.
HomeOf(p, id) == CHOOSE l \in Lines : home[p][l].phase = "Snooped" /\ home[p][l].id = id
\* UpdateSnoopFilter looks for the agent that sent the request, not the answer.
FilterAfterSnp(f, h, m, l) ==
    IF h.chi # None /\ snp2chi(m.code).resp \in {"I", "I_PD"} THEN f \ {l} ELSE f
Receive_SnpResp(p) ==
    LET m == Head(link[p])
        l == HomeOf(p, m.txn)
        h == home[p][l]
        k == GiveID(chip[p], h.id)
    IN
    /\ Receive(p, "SnpResp") /\ m.code # CompAck
    /\ IF h.chi = None
       THEN /\ home' = [home EXCEPT ![p][l] = NoTxn]
            /\ chip' = [chip EXCEPT ![p] = k]
            /\ UNCHANGED <<port, filter>>
       ELSE LET e == Hn(p, h.chi) IN
            /\ filter' = [filter EXCEPT ![p] = FilterAfterSnp(@, h, m, l)]
            /\ home' = [home EXCEPT ![p][l] = Homed(e.chi, e.c.op, "Write", h.id)]
            /\ port' = IF IsAtomicNonStore(e.m.reqOp) THEN port
                       ELSE [port EXCEPT ![p] =
                              Queue(@, RespMsg(p, e.txn, Comp, 0, "I"),
                                    [do |-> "Done_HN", chi |-> e.chi, hasData |-> TRUE])]
            /\ UNCHANGED chip
    /\ UNCHANGED rn

Receive_CompAck(p) ==
    LET e == HnByTxn(p, Head(link[p]).txn)
        l == CHOOSE l \in Lines : home[p][l].phase = "Ack" /\ home[p][l].id = e.dbid
    IN
    /\ Receive(p, "SnpResp") /\ Head(link[p]).code = CompAck
    /\ port' = [port EXCEPT ![p] = CCIXReq_Done_HN(@, e, FALSE)]
    /\ home' = [home EXCEPT ![p][l] = NoTxn]
    /\ chip' = [chip EXCEPT ![p] = GiveID(@, e.dbid)]
    /\ filter' = [filter EXCEPT ![p] = FilterAfterReq(@, e.c.op, l)]
    /\ UNCHANGED rn

ReadResps(op) ==
    CASE op = "ReadShared" -> {"SC", "UC", "SD_PD", "UD_PD"}
      [] op = "ReadUnique" -> {"UC", "UD_PD"}
      [] op = "ReadNotSharedDirty" -> {"SC", "UD_PD"}
      [] op = "ReadClean" -> {"SC", "UC"}
      [] OTHER -> {"I"}
RespLen(c) == DataLen(c.reqSize, GenerateCCIXData(c).len)
\* ProcessDat: CompData, of a read or of an atomic.
SendCompData(p, l, resp) ==
    LET h == home[p][l]
        e == Hn(p, h.chi)
        id == GetID(chip[p].ids)
        nonStore == IsAtomicNonStore(e.m.reqOp)
        m == RespMsg(p, e.txn, SetResp(resp, nonStore), RespLen(e.c), resp)
    IN
    /\ h.phase = "Read" \/ (h.phase = "Write" /\ h.op \in Atomics \ {"AtomicStore"})
    /\ resp \in ReadResps(h.op)
    /\ IF e.c.ack
       THEN /\ chip[p].ids # {}
            /\ home' = [home EXCEPT ![p][l].phase = "Ack", ![p][l].id = id]
            /\ port' = [port EXCEPT ![p] =
                 Queue([@ EXCEPT !.hn = (@ \ {e}) \cup {[e EXCEPT !.dbid = id]}], m, NoAfter)]
            /\ chip' = [chip EXCEPT ![p] = TakeID(@)]
       ELSE /\ home' = [home EXCEPT ![p][l] = NoTxn]
            /\ port' = [port EXCEPT ![p] = Queue(CCIXReq_Done_HN(@, e, nonStore), m, NoAfter)]
            /\ chip' = IF h.id = None THEN chip ELSE [chip EXCEPT ![p] = GiveID(@, h.id)]
    /\ UNCHANGED <<rn, filter, link, plan>>

\* The slave node has taken the data.
Written(p, l) ==
    LET h == home[p][l] IN
    /\ h.phase = "Write" /\ h.op \notin Atomics \ {"AtomicStore"}
    /\ home' = [home EXCEPT ![p][l] = NoTxn]
    /\ chip' = [chip EXCEPT ![p] = GiveID(@, h.id)]
    /\ UNCHANGED <<rn, port, filter, link, plan>>

CcixNext ==
    \E p \in Chips :
        \/ ProcessReq(p) \/ req_ordering_thread(p) \/ TransmitReq(p)
        \/ SendCredits(p) \/ tx_thread(p)
        \/ UpdateRxCredits(p) \/ Receive_CCIXReq(p) \/ Receive_CompData(p) \/ Receive_Comp(p)
        \/ Receive_CCIXSnpReq(p) \/ Receive_SnpResp(p) \/ Receive_CompAck(p)
        \/ StartLocal(p)
        \/ \E l \in Lines :
              \/ SendWrData(p, l) \/ SendCompAck(p, l)
              \/ TransmitSnoop(p, l) \/ Written(p, l)
              \/ \E e \in port[p].hn : StartRemote(p, l, e)
              \/ \E resp \in UNION {ReadResps(op) : op \in CoherentReads \cup {"ReadOnce"}} :
                    home[p][l] # NoTxn /\ SendCompData(p, l, resp)
        \/ \E s \in port[p].snps :
              \E a \in SnpAnswers(toCHIOpcode(s.m.snpOp), rn[p][LineOf(s.m.addr)].copy) :
                 AnswerSnoop(p, s, a)

CcixSpec == CcixInit /\ [][CcixNext]_ccixVars /\ WF_ccixVars(CcixNext)

(***************************************************************************)
(* Properties.                                                             *)
(***************************************************************************)
Sent(p) == [i \in DOMAIN port[p].tx |-> port[p].tx[i].m] \o link[Other(p)]
Count(s, Test(_)) == Len(SelectSeq(s, Test))
Granted(p, kind) ==
    FoldSeq(LAMBDA m, n : (IF m.type = "MiscUnCredited" THEN m.grant[kind] ELSE 0) + n, 0, link[p])

\* What a handler looks up is there, is the only one, and belongs to the same
\* transaction (the assertions of CCIXPort): the request under way for a response,
\* the request of the other chip for a CompAck and for the answers of the home,
\* the transaction of m_ongoingTxn for data, the snoop for its answer.
LookupsSucceed ==
    \A p \in Chips :
        /\ \A i \in DOMAIN link[p] :
             LET m == link[p][i] IN
             /\ m.type = "Resp" =>
                  /\ port[p].ongoing # <<>> /\ port[p].credited
                  /\ LineOf(port[p].ongoing[1].c.addr) = m.txn
                  /\ IsComp(m.code) <=> port[p].ongoing[1].c.op \in Writes \cup Dataless \cup {"AtomicStore"}
             /\ m.type = "SnpResp" /\ m.code = CompAck =>
                  \E e \in port[p].hn :
                     /\ {x \in port[p].hn : x.txn = m.txn} = {e}
                     /\ e.c.ack /\ \E l \in Lines : home[p][l].phase = "Ack" /\ home[p][l].id = e.dbid
             /\ m.type = "SnpResp" /\ m.code # CompAck =>
                  Cardinality({l \in Lines : home[p][l].phase = "Snooped" /\ home[p][l].id = m.txn}) = 1
        /\ \A l \in Lines :
             /\ home[p][l].phase \in {"Read", "Ack"} =>
                  Cardinality({e \in port[p].hn : e.chi = home[p][l].chi}) = 1
             /\ "data" \in rn[p][l].todo =>
                  Cardinality({x \in chip[p].txn : LineOf(x.c.addr) = l}) = 1
             /\ "ack" \in rn[p][l].todo /\ rn[p][l].c.op \notin WriteUniques =>
                  /\ port[p].ongoing # <<>> /\ LineOf(port[p].ongoing[1].c.addr) = l
                  /\ port[p].ongoing[1].dbid \notin {None} \cup {x.id : x \in chip[p].txn}

\* No credit and no ID is lost or handed out twice: the credits that a port has,
\* those its messages use, those the other port holds with its transactions and
\* those on their way back add up to what the other port offers, and an ID is
\* free or has one user (LinkCredits, TxnIDs).  Data credits may grow, by one for
\* each atomic, which returns one without having used it.  The counters are
\* unsigned: none goes below zero.
NothingLeaks ==
    \A p \in Chips :
        LET q == Other(p)
            total(kind) == port[p].rx[kind] + port[q].give[kind] + Granted(p, kind)
            used == {h \in {home[p][l] : l \in Lines} : h # NoTxn /\ h.id # None}
        IN
        /\ \A k \in DOMAIN Credits : port[p].rx[k] >= 0 /\ port[p].give[k] >= 0
        /\ total("req") + Count(Sent(p), LAMBDA m : m.type = "Req") + Cardinality(port[q].hn) = NumIDs
        /\ total("snoop") + Count(Sent(p), LAMBDA m : m.type = "SnpReq")
             + Cardinality(port[q].snps) = NumIDs
        /\ total("data") + Count(Sent(p), LAMBDA m : m.type = "Req" /\ IsWrite(toCHI(m.reqOp)))
             + Cardinality({e \in port[q].hn : IsWrite(e.c.op)}) \in NumIDs..(NumIDs + plan.atomics[p])
        /\ {e.chi : e \in port[p].hn} \cup port[p].reqIDs = IDs
        /\ {s.chi : s \in port[p].snps} \cup port[p].snpIDs = IDs
        /\ Cardinality(chip[p].ids) + Cardinality(chip[p].txn) + Cardinality(used)
             + Count(port[p].ongoing, LAMBDA e : e.dbid # None) = ChipIDs

\* A message means at one end what it meant at the other: it survives the flits
\* of the link; the request that the home performs is the requester's, with
\* its operation, place, attributes, size, data and CompAck; responses and answers to
\* snoops carry the same state; a snoop asks for the same change.  CompData_I
\* has no form of its own and arrives as UC.
SameMem(a, b) ==
    /\ a.device = b.device /\ a.cacheable = b.cacheable /\ a.allocate = b.allocate
    /\ a.device => a.endpoint = b.endpoint /\ a.ewa = b.ewa
SameSize(c, x) ==
    /\ x.reqSize = c.size
    /\ c.op \in Atomics => x.size = c.size
    /\ c.op \in Writes => x.size = CopyData(c).len
SameRequest(c, x) ==
    /\ x.op = c.op /\ x.sub = c.sub /\ x.snpMe = c.snpMe /\ x.addr = c.addr
    /\ x.ns = c.ns /\ SameMem(c.mem, x.mem) /\ SameSize(c, x)
    /\ c.op \notin WriteUniques => x.ack = c.ack
    /\ LET w == CopyData(c) g == GenerateCHIData(x) IN w.from = g.to /\ w.len = g.len /\ w.at = g.at
    /\ c.op \in Reads \cup (Atomics \ {"AtomicStore"}) =>
         LET w == GenerateCCIXData(x) g == GenerateCHIRespData(c) IN w.from = g.to /\ w.len = g.len
MeansTheSame(m) ==
    CASE m.type = "Req"     -> /\ SameRequest(m.chi, ccix2chi(m))
                               /\ m.chi.op \in CopyBacks =>
                                    /\ GetDatOpcode(m) = "CopyBackWrData"
                                    /\ m.chi.op # "WriteCleanFull" => toDatResp(m.reqOp) = m.resp
      [] m.type = "Resp"    -> IsComp(m.code) \/ GetCHIResp(m.code) = (IF m.resp = "I" THEN "UC" ELSE m.resp)
      [] m.type = "SnpResp" -> snp2chi(m.code) = m.chi
      [] m.type = "SnpReq"  -> toSnpOp(toCHIOpcode(m.snpOp)) = toSnpOp(m.chi)
      [] OTHER              -> TRUE
TranslationKeeps ==
    \A p \in Chips :
        link[p] # <<>> => SurvivesLink(Head(link[p])) /\ MeansTheSame(Head(link[p]))

\* The home knows of every copy that the other chip has, from the moment that
\* the transaction which gave it is over (SnoopFilter of a CCIXAgent): a snoop of
\* the line reaches it.
CopiesAreKnown ==
    \A p \in Chips : \A l \in Lines :
        rn[p][l].copy # "I" => l \in filter[Other(p)] \/ home[Other(p)][l].phase = "Ack"

\* Every request and every snoop comes to an end, and all lists are empty then:
\* tx_thread, req_ordering_thread and the threads of the interconnects run when
\* they can.
Quiet ==
    \A p \in Chips :
        /\ plan.reqs[p] = <<>> /\ plan.locals[p] = <<>> /\ link[p] = <<>>
        /\ \A l \in Lines : rn[p][l].c = NoReq /\ home[p][l] = NoTxn
        /\ port[p].rnq = <<>> /\ port[p].ongoing = <<>> /\ port[p].tx = <<>>
        /\ port[p].hn = {} /\ port[p].snps = {} /\ chip[p].txn = {}
CcixCompletes == <>[]Quiet
==============================================================================
