----------------------------- MODULE AxiChecker -----------------------------
(***************************************************************************)
(* The monitors of checker-axi.h and, in ACE mode, of checker-ace.h on the *)
(* wires between a tlm2axi_bridge and an axi2tlm_bridge: which responses   *)
(* may come, how many beats a burst has, which lanes are strobed, which    *)
(* addresses a burst may have, which IDs a barrier may use, its pair, and  *)
(* the acknowledges.  In both modes a write moves on to the responses with *)
(* its last beat.  The monitors that wait for a number of clock cycles, or *)
(* compare a signal with its last value, have no counterpart.              *)
(***************************************************************************)
EXTENDS AxiSlave

VARIABLE k
checkerVars == <<k>>

CheckerInit ==
    k = [rt |-> <<>>, wt |-> <<>>, resp |-> <<>>, expect |-> [l \in Lists |-> 0],
         unpaired |-> [l \in Lists |-> <<>>], errors |-> {}]

Check(kk, ok, what) == IF ok THEN kk ELSE [kk EXCEPT !.errors = @ \cup {what}]

\* check_ongoing_normal_tx_ids, check_ongoing_barrier_ids: barriers and other
\* transactions that are under way do not share an ID.
check_ongoing_ids(q, x) ==
    \A i \in DOMAIN q : q[i].x.id = x.id => (IsBarrier(q[i].x.kind) <=> IsBarrier(x.kind))
\* check_barrier_num_outstanding
check_barrier_num_outstanding(q, x) ==
    IsBarrier(x.kind) =>
        Cardinality({i \in DOMAIN q : IsBarrier(q[i].x.kind)}) < MaxBarriers

CheckAddress(kk, q, x) ==
    LET k1 == Check(kk, check_address_alignment(x, Page) /\ check_burst_length(x), "alignment")
    IN  Check(k1, scn.ace => check_ongoing_ids(q, x) /\ check_barrier_num_outstanding(q, x),
              "barrier")

\* checker_ace_barrier: the read and the write barriers come in the same sequence.
ace_barrier_check(kk, l, x) ==
    LET other == kk.unpaired[CHOOSE o \in Lists : o # l] IN
    IF ~(scn.ace /\ IsBarrier(x.kind)) THEN kk
    ELSE IF other = <<>> THEN [kk EXCEPT !.unpaired[l] = Append(@, x.id)]
    ELSE Check([kk EXCEPT !.unpaired[CHOOSE o \in Lists : o # l] = Tail(@)],
               Head(other) = x.id, "pair")

\* rd_check: AR, and a beat on R.
rd_check_AR(x) ==
    k' = ace_barrier_check([CheckAddress(k, k.rt, x) EXCEPT !.rt = Append(@, [x |-> x, left |-> x.beats])],
                           "rd", x)
rd_check_R(id, last) ==
    LET i    == SelectInSeq(k.rt, LAMBDA e : e.x.id = id)
        one  == scn.ace /\ HasSingleRdDataTransfer(k.rt[i].x.kind)
        left == k.rt[i].left - 1
    IN  k' = IF i = 0 THEN Check(k, FALSE, "read id")
             ELSE [Check(k, last <=> (one \/ left = 0), "read beats") EXCEPT
                      !.rt = IF last THEN RemoveAt(@, i) ELSE [@ EXCEPT ![i].left = left],
                      !.expect["rd"] = IF scn.ace /\ last THEN @ + 1 ELSE @]

\* wr_check: AW, a beat on W with the strobed lanes, and B.
HasData(e) == ~scn.ace \/ hasData(e.x.kind)
wr_check_AW(x) ==
    LET e == [x |-> x, beat |-> 1]
        k1 == ace_barrier_check(CheckAddress(k, k.wt \o k.resp, x), "wr", x)
    IN  k' = IF k.wt = <<>> /\ ~HasData(e) THEN [k1 EXCEPT !.resp = Append(@, e)]
             ELSE [k1 EXCEPT !.wt = Append(@, e)]
\* The first data of AXI3 is matched by its ID (process_aw_w_axi3).
wr_check_W(id, lanes, last) ==
    LET i    == IF scn.axi3 THEN SelectInSeq(k.wt, LAMBDA e : e.x.id = id) ELSE 1
        e    == k.wt[i]
        new  == [e EXCEPT !.beat = @ + 1]
        k1   == Check(k, CheckWstrb(e.x, e.beat, lanes), "wstrb")
        k2   == Check(k1, last <=> new.beat > e.x.beats, "write beats")
        rest == RemoveAt(k.wt, i)
        with == {j \in DOMAIN rest : HasData(rest[j])}
        n    == IF with = {} THEN Len(rest) ELSE Least(with) - 1
    IN  k' = IF k.wt = <<>> \/ i = 0 THEN Check(k, FALSE, "write data")
             ELSE IF ~last THEN [k2 EXCEPT !.wt[i] = new]
             ELSE [k2 EXCEPT !.wt = SubSeq(rest, n + 1, Len(rest)),
                             !.resp = (@ \o <<new>>) \o SubSeq(rest, 1, n)]
wr_check_B(id) ==
    LET i == SelectInSeq(k.resp, LAMBDA e : e.x.id = id) IN
    k' = IF i = 0 THEN Check(k, FALSE, "write id")
         ELSE [k EXCEPT !.resp = RemoveAt(@, i),
                        !.expect["wr"] = IF scn.ace THEN @ + 1 ELSE @]

\* AckCheck
AckCheck(l) ==
    k' = IF k.expect[l] = 0 THEN Check(k, FALSE, "ack") ELSE [k EXCEPT !.expect[l] = @ - 1]

CheckerReset ==
    k' = [k EXCEPT !.rt = <<>>, !.wt = <<>>, !.resp = <<>>, !.expect = [l \in Lists |-> 0],
                   !.unpaired = [l \in Lists |-> <<>>]]
=============================================================================
