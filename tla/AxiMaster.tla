------------------------------ MODULE AxiMaster ------------------------------
(***************************************************************************)
(* tlm2axi_bridge: b_transport hands a transaction to the threads of the   *)
(* AXI channels and waits until one of them notifies it.  The first        *)
(* transaction in a fifo stands for the one that the thread which reads    *)
(* the fifo has taken.  The clock is not modelled: the handshake of a      *)
(* channel is a step, taken with the other side, once both are ready.      *)
(* Snoop channels, DVM messages, exclusive and locked access, QoS and      *)
(* regions are left out.                                                   *)
(***************************************************************************)
EXTENDS AxiBurst, SequencesExt

CONSTANTS MaxBurst,   \* m_maxBurstLength of the bridges
          Scenarios   \* what the initiators ask for

\* A scenario: the ACE mode, the AXI version, the transactions and how many
\* resets there may be.  A transaction has a payload p, an AxID, a kind and the
\* response that the target gives to it.
VARIABLES scn, m
masterVars == <<scn, m>>

Txns == 1..Len(scn.txns)
Txn(t) == scn.txns[t]
NoTxn == 0
NoByte == -1         \* of a read: a byte that was not written
IsBarrier(k) == k \in {"ReadBarrier", "WriteBarrier"}
IsReadKind(k) == k \in {"Read", "Clean", "ReadBarrier"}
HasSingleRdDataTransfer(k) == k \in {"Clean", "ReadBarrier"}
hasData(k) == ~IsBarrier(k) /\ k # "Evict"

\* read_address_phase and write_address_phase: what AR and AW carry.
AxChannel(t) ==
    LET k == Txn(t).kind IN
    [t |-> t, id |-> Txn(t).id, kind |-> k, addr |-> Txn(t).p.addr, size |-> GetBurstWidth(Txn(t).p),
     beats |-> IF IsBarrier(k) THEN 1 ELSE NumBeats(Txn(t).p), burst |-> SetupBurstType(Txn(t).p)]

MasterInit ==
    /\ scn \in Scenarios
    /\ m = [rdTrans |-> <<>>, wrTrans |-> <<>>, wrData |-> <<>>, pos |-> 0, beat |-> 1,
            rdResponses |-> <<>>, wrResponses |-> <<>>,
            r |-> NoTxn, rpos |-> 0, rbeat |-> 1, rack |-> NoTxn, wack |-> NoTxn,
            up |-> TRUE, issued |-> <<>>,
            status |-> [t \in 1..Len(scn.txns) |-> "idle"],
            data |-> [t \in 1..Len(scn.txns) |-> <<>>]]

\* write_data_phase passes transactions without data on at once.
PassNoData(mm) ==
    LET with == {i \in DOMAIN mm.wrData : hasData(Txn(mm.wrData[i]).kind)}
        n    == IF with = {} THEN Len(mm.wrData) ELSE Least(with) - 1
    IN  [mm EXCEPT !.wrData = SubSeq(@, n + 1, Len(@)),
                   !.wrResponses = @ \o SubSeq(mm.wrData, 1, n)]

Validate(t) ==
    LET p == Txn(t).p IN
    p.len > 0 /\ p.sw > 0 /\ GetBurstWidth(p) \in {1, 2, 4, 8} /\ NumBeats(p) <= MaxBurst

\* b_transport.  The thread of AW also hands its transaction to that of W.
Request(t) ==
    /\ m.status[t] = "idle"
    /\ m' = IF ~m.up \/ ~Validate(t) THEN [m EXCEPT !.status[t] = "GENERIC_ERROR"]
            ELSE IF IsReadKind(Txn(t).kind)
            THEN [m EXCEPT !.status[t] = "pending", !.rdTrans = Append(@, t),
                           !.issued = Append(@, t)]
            ELSE PassNoData([m EXCEPT !.status[t] = "pending", !.wrTrans = Append(@, t),
                     !.issued = Append(@, t),
                     !.wrData = IF m.wrTrans = <<>> THEN Append(@, t) ELSE @])
    /\ UNCHANGED scn

(***************************************************************************)
(* The master's part of each handshake.                                    *)
(***************************************************************************)
ArValid == m.up /\ m.rdTrans # <<>>
ArDone == m' = [m EXCEPT !.rdTrans = Tail(@), !.rdResponses = Append(@, Head(m.rdTrans))]

AwValid == m.up /\ m.wrTrans # <<>>
AwDone ==
    LET rest == Tail(m.wrTrans)
    IN  m' = PassNoData([m EXCEPT !.wrTrans = rest,
                 !.wrData = IF rest = <<>> THEN @ ELSE Append(@, Head(rest))])

WValid == m.up /\ m.wrData # <<>>
WTxn == Head(m.wrData)
WBeat == prepare_wbeat(Txn(WTxn).p, m.pos, m.beat = 1)
\* Mutant: WLAST is constant.
WLast_Always == TRUE
WLast == m.beat = NumBeats(Txn(WTxn).p)
WDone ==
    LET p    == Txn(WTxn).p
        next == m.pos + BeatBytes(p, m.pos, m.beat = 1, TRUE)
    IN  m' = IF next < p.len THEN [m EXCEPT !.pos = next, !.beat = @ + 1]
             ELSE PassNoData([m EXCEPT !.pos = 0, !.beat = 1, !.wrData = Tail(@),
                                       !.wrResponses = Append(@, WTxn)])

\* LookupAxID: the first of the list with an ID.
\* Mutant: the last one.
LookupAxID_Last(list, id) == SelectLastInSeq(list, LAMBDA t : Txn(t).id = id)
LookupAxID(list, id) == SelectInSeq(list, LAMBDA t : Txn(t).id = id)
Taken(list, id) == list[LookupAxID(list, id)]

\* read_resp_phase, for a beat with a function of lanes to bytes.  IncBeat is
\* called by nobody: every beat is treated as the first one.
RReady == m.up /\ m.rack = NoTxn
RDone(id, lanes, resp) ==
    LET t    == IF m.r # NoTxn THEN m.r ELSE Taken(m.rdResponses, id)
        p    == Txn(t).p
        n    == BeatBytes(p, m.rpos, TRUE, FALSE)
        lane == FirstLane(p, m.rpos)
        got  == [k \in 1..n |-> IF lane + k - 1 \in DOMAIN lanes /\ m.rpos + k - 1 \notin p.disabled
                                THEN lanes[lane + k - 1] ELSE NoByte]
        single == HasSingleRdDataTransfer(Txn(t).kind)
        ends == single \/ m.rpos + n >= p.len
        list == IF m.r # NoTxn THEN m.rdResponses
                ELSE RemoveAt(m.rdResponses, LookupAxID(m.rdResponses, id))
    IN  m' = [m EXCEPT
                !.rdResponses = list,
                !.r = IF ends THEN NoTxn ELSE t,
                !.rpos = IF ends THEN 0 ELSE @ + n,
                !.data[t] = IF single THEN @ ELSE @ \o got,
                !.rack = IF ends /\ scn.ace THEN t ELSE NoTxn,
                !.status[t] = IF ends /\ ~scn.ace THEN resp ELSE @]
RackDone(resp) == m' = [m EXCEPT !.rack = NoTxn, !.status[m.rack] = resp]

BReady == m.up /\ m.wack = NoTxn
BDone(id, resp) ==
    LET t == Taken(m.wrResponses, id)
    IN  m' = [m EXCEPT !.wrResponses = RemoveAt(@, LookupAxID(@, id)),
                       !.wack = IF scn.ace THEN t ELSE NoTxn,
                       !.status[t] = IF scn.ace THEN @ ELSE resp]
WackDone(resp) == m' = [m EXCEPT !.wack = NoTxn, !.status[m.wack] = resp]

\* reset and the aborts of the threads: whatever is on its way ends with an error.
MasterReset ==
    m' = [m EXCEPT
            !.rdTrans = <<>>, !.wrTrans = <<>>, !.wrData = <<>>, !.pos = 0, !.beat = 1,
            !.rdResponses = <<>>, !.wrResponses = <<>>, !.r = NoTxn, !.rpos = 0,
            !.rack = NoTxn, !.wack = NoTxn, !.up = FALSE,
            !.status = [t \in Txns |-> IF @[t] = "pending" THEN "GENERIC_ERROR" ELSE @[t]]]
MasterRelease == m' = [m EXCEPT !.up = TRUE]
=============================================================================
