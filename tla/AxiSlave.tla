------------------------------- MODULE AxiSlave -------------------------------
(***************************************************************************)
(* axi2tlm_bridge: it collects the transactions that come in on AR, AW and *)
(* W into rtList and wtList, runs them at a TLM target, by one thread for  *)
(* each ID of a list, and answers on R and B.  The first transaction of    *)
(* rdDataFifo and wrRespFifo stands for the one that the thread which reads*)
(* the fifo has taken.                                                     *)
(***************************************************************************)
EXTENDS AxiMaster

CONSTANTS MaxTransactions,   \* m_maxReadTransactions, m_maxWriteTransactions
          MaxBarriers,       \* ACE::MaxBarriers
          Page,              \* bytes of a page, 4096
          MaxUnsigned        \* the range of unsigned int is 0..MaxUnsigned

ASSUME SlaveAssumption ==
    /\ MaxTransactions \in Nat \ {0} /\ MaxBarriers \in Nat \ {0} /\ Page \in Nat \ {0}
    /\ MaxUnsigned \in Nat /\ MaxTransactions <= MaxUnsigned
    /\ Page % Bus = 0

VARIABLE s
axiVars == <<scn, m, s>>

Lists == {"rd", "wr"}

\* An entry x of a list: what came on AR or AW, the beats and bytes received or
\* sent, the data, where its thread is ("queued" while another one is the
\* first of its ID), and whether a reset has scheduled its abort.
SlaveInit ==
    s = [list |-> [l \in Lists |-> <<>>], wrDataList |-> <<>>,
         out |-> [l \in Lists |-> <<>>], ack |-> [l \in Lists |-> FALSE],
         num |-> [l \in Lists |-> 0], barriers |-> [l \in Lists |-> 0],
         ran |-> <<>>, unexpected |-> FALSE]

Entry(x) ==
    [x |-> x, beat |-> IF HasSingleRdDataTransfer(x.kind) THEN x.beats ELSE 1,
     idx |-> 0, data |-> <<>>, at |-> "queued", abort |-> FALSE]

\* assert_arready and assert_awready; the subtraction is that of unsigned int.
ready(l) ==
    /\ (s.num[l] - s.barriers[l]) % (MaxUnsigned + 1) < MaxTransactions
    /\ scn.ace => s.barriers[l] < MaxBarriers

InList(q, id) == \E i \in DOMAIN q : q[i].x.id = id

\* Transactions join a list, in their order; one gets a thread if none before it
\* in the list has its ID.
\* Mutant: each transaction gets a thread.
Joined_Thread(q, new) == q \o [i \in DOMAIN new |-> [new[i] EXCEPT !.at = "wait"]]
Joined(q, new) ==
    LET all == q \o new
        at(i) == IF InList(SubSeq(all, 1, i - 1), all[i].x.id) THEN "queued" ELSE "wait"
    IN  [i \in DOMAIN all |-> IF i \in DOMAIN q THEN q[i] ELSE [all[i] EXCEPT !.at = at(i)]]

\* The next one with the ID of a transaction that has left the list.
NextWithID(q, id) ==
    LET i == SelectInSeq(q, LAMBDA e : e.x.id = id)
    IN  IF i = 0 THEN q ELSE [q EXCEPT ![i].at = "wait"]

(***************************************************************************)
(* The slave's part of the handshakes.                                     *)
(***************************************************************************)
ArReady == ready("rd")
ArTake(x) ==
    s' = [s EXCEPT !.list["rd"] = Joined(@, <<Entry(x)>>), !.num["rd"] = @ + 1,
                   !.barriers["rd"] = IF scn.ace /\ IsBarrier(x.kind) THEN @ + 1 ELSE @]

AwReady == ready("wr")
AwTake(x) ==
    LET direct == ~hasData(x.kind) /\ s.wrDataList = <<>> IN
    s' = [s EXCEPT !.list["wr"] = IF direct THEN Joined(@, <<Entry(x)>>) ELSE @,
                   !.wrDataList = IF direct THEN @ ELSE Append(@, Entry(x)),
                   !.num["wr"] = @ + 1,
                   !.barriers["wr"] = IF scn.ace /\ IsBarrier(x.kind) THEN @ + 1 ELSE @]

\* PreviousHaveData: the transactions before the first one with an ID have got data.
PreviousHaveData(q, id) ==
    \A i \in DOMAIN q : (\A j \in 1..i : q[j].x.id # id) => q[i].beat # 1

\* write_data_phase.  The transactions without data that follow one that is
\* complete join the list with it.
WReady == s.wrDataList # <<>>
WTarget(id) ==
    IF scn.axi3 THEN SelectInSeq(s.wrDataList, LAMBDA e : e.x.id = id) ELSE 1
WTake(id, lanes, last) ==
    LET q    == s.wrDataList
        i    == WTarget(id)
        e    == q[i]
        n    == Cardinality(FilledLanes(e.x, e.beat, e.idx))
        new  == [e EXCEPT !.beat = @ + 1, !.idx = @ + n,
                          !.data = @ \o FillData(e.x, e.beat, e.idx, lanes)]
        done == new.beat > e.x.beats
        rest == RemoveAt(q, i)
        with == {j \in DOMAIN rest : hasData(rest[j].x.kind)}
        k    == IF with = {} THEN Len(rest) ELSE Least(with) - 1
    IN  s' = IF ~done
             THEN [s EXCEPT !.wrDataList[i] = new,
                            !.unexpected = @ \/ (scn.axi3 /\ ~PreviousHaveData(q, id))]
             ELSE [s EXCEPT !.wrDataList = SubSeq(rest, k + 1, Len(rest)),
                            !.list["wr"] = Joined(@, <<new>> \o SubSeq(rest, 1, k)),
                            !.unexpected = @ \/ ~last \/ (scn.axi3 /\ ~PreviousHaveData(q, id))]

(***************************************************************************)
(* RunTLMTransaction.                                                      *)
(***************************************************************************)
OverlappingAddress(q, i) ==
    \E j \in 1..(i - 1) :
        SlavePayload(q[j].x).addr \div Page = SlavePayload(q[i].x).addr \div Page
is_after_barrier(q, i) == \E j \in 1..(i - 1) : IsBarrier(q[j].x.kind)

WaitForTransactions(q, i) ==
    \/ scn.ace /\ IsBarrier(q[i].x.kind) /\ i # 1
    \/ /\ scn.ace /\ ~IsBarrier(q[i].x.kind) /\ is_after_barrier(q, i)
       /\ q[i].x.kind \notin {"WriteBack", "Evict"}
    \/ OverlappingAddress(q, i)

\* b_transport is called at the target, ...
TlmStart(l, i) ==
    /\ s.list[l][i].at = "wait" /\ m.up
    /\ ~WaitForTransactions(s.list[l], i)
    /\ s' = [s EXCEPT !.list[l][i].at = "tlm",
                      !.ran = Append(@, [t |-> s.list[l][i].x.t, data |-> s.list[l][i].data])]
    /\ UNCHANGED masterVars

\* ... and returns.  In a reset, and after one, the transaction is dropped.
TlmEnd(l, i) ==
    LET e    == s.list[l][i]
        rest == RemoveAt(s.list[l], i)
    IN  /\ e.at = "tlm"
        /\ s' = [s EXCEPT !.list[l] = IF m.up THEN NextWithID(rest, e.x.id) ELSE rest,
                          !.out[l] = IF m.up /\ ~e.abort THEN Append(@, e) ELSE @]
        /\ UNCHANGED masterVars

(***************************************************************************)
(* read_data_phase and write_resp_phase.                                   *)
(***************************************************************************)
\* The response to what the target answered, and what the master makes of it.
Answer(e) == Txn(e.x.t).answer
AxiResp(answer) ==
    CASE answer = "ADDRESS_ERROR" -> "DECERR" [] answer = "GENERIC_ERROR" -> "SLVERR"
      [] answer = "EXCLUSIVE_OK" -> "EXOKAY" [] OTHER -> "OKAY"
tlm_gp_set_axi_resp(resp) ==
    CASE resp = "EXOKAY" -> "EXCLUSIVE_OK" [] resp = "OKAY" -> "OK"
      [] resp = "DECERR" -> "ADDRESS_ERROR" [] OTHER -> "GENERIC_ERROR"
Status(e) == tlm_gp_set_axi_resp(AxiResp(Answer(e)))

Valid(l) == m.up /\ s.out[l] # <<>> /\ ~s.ack[l]
Out(l) == Head(s.out[l])

\* The transaction that has been answered leaves; ACE waits for RACK or WACK.
\* Mutant: the counter of barriers is not decremented.
Answered_Keep(l) == [s EXCEPT !.out[l] = Tail(@), !.ack[l] = FALSE, !.num[l] = @ - 1]
Answered(l) ==
    [s EXCEPT !.out[l] = Tail(@), !.ack[l] = FALSE, !.num[l] = @ - 1,
              !.barriers[l] = IF scn.ace /\ IsBarrier(Out(l).x.kind) THEN @ - 1 ELSE @]

RBeat == GetData(Out("rd").x, Out("rd").beat, Out("rd").idx)
RLast == Out("rd").beat = Out("rd").x.beats
RSent ==
    LET e == Out("rd")
        next == [e EXCEPT !.beat = @ + 1, !.idx = @ + Cardinality(ReadLanes(e.x, e.beat))]
    IN  s' = IF ~RLast THEN [s EXCEPT !.out["rd"][1] = next]
             ELSE IF scn.ace THEN [s EXCEPT !.ack["rd"] = TRUE]
             ELSE Answered("rd")
BSent == s' = IF scn.ace THEN [s EXCEPT !.ack["wr"] = TRUE] ELSE Answered("wr")

\* Mutant: the counter of transactions survives a reset.
NumAfterReset_Keep(l) == s.num[l]
NumAfterReset(l) == 0

\* The transactions of a list that the target runs, in their order; a reset
\* schedules their aborts.
Ongoing(q) ==
    LET tlm == {i \in DOMAIN q : q[i].at = "tlm"}
        nth(n) == CHOOSE i \in tlm : Cardinality({j \in tlm : j <= i}) = n
    IN  [n \in 1..Cardinality(tlm) |-> [q[nth(n)] EXCEPT !.abort = TRUE]]

\* reset and what the threads do in it.  Of the counters of barriers nothing is
\* said: only a barrier that is being answered is taken off.
SlaveReset ==
    LET Leaving(l) == scn.ace /\ s.out[l] # <<>> /\ IsBarrier(Out(l).x.kind)
    IN  s' = [s EXCEPT
                !.list = [l \in Lists |-> Ongoing(@[l])], !.wrDataList = <<>>,
                !.out = [l \in Lists |-> <<>>], !.ack = [l \in Lists |-> FALSE],
                !.num = [l \in Lists |-> NumAfterReset(l)],
                !.barriers = [l \in Lists |-> IF Leaving(l) THEN @[l] - 1 ELSE @[l]]]
=============================================================================
