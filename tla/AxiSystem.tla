------------------------------ MODULE AxiSystem ------------------------------
(***************************************************************************)
(* A tlm2axi_bridge connected to an axi2tlm_bridge, watched by a protocol  *)
(* checker, between initiators and a target: initiators call b_transport   *)
(* in any order, the target takes any time, the reset comes at any time.   *)
(***************************************************************************)
EXTENDS AxiChecker

\* Payloads have natural addresses, lengths and widths, and the initiators ask only
\* for bursts that the bridge supports.
ASSUME ScenarioAssumption ==
    \A sc \in Scenarios : \A t \in 1..Len(sc.txns) :
        LET p == sc.txns[t].p IN
        p.addr \in Nat /\ p.len \in Nat /\ p.sw \in Nat /\ p.bw \in Nat
        /\ Supported(p)

\* The bursts of the writes come out even: a burst width divides the bus, and the
\* beats of a fixed one are not cut by the streaming width.  The beats that the
\* master makes of the payload are then those that AW has announced.
WholeBursts ==
    \A sc \in Scenarios : \A t \in 1..Len(sc.txns) :
        LET x == sc.txns[t]  w == GetBurstWidth(x.p) IN
        ~IsReadKind(x.kind) /\ hasData(x.kind) /\ w \in {1, 2, 4, 8} =>
            /\ Bus % w = 0
            /\ SetupBurstType(x.p) = "FIXED" => w <= x.p.sw

VARIABLE resets
sysVars == <<scn, m, s, k, resets>>

AxiInit == MasterInit /\ SlaveInit /\ CheckerInit /\ resets = 0

Ask == (\E t \in Txns : Request(t)) /\ UNCHANGED <<s, k, resets>>

Quiet == UNCHANGED <<scn, resets>>

ArHandshake ==
    /\ ArValid /\ ArReady
    /\ LET x == AxChannel(Head(m.rdTrans)) IN ArDone /\ ArTake(x) /\ rd_check_AR(x)
    /\ Quiet
AwHandshake ==
    /\ AwValid /\ AwReady
    /\ LET x == AxChannel(Head(m.wrTrans)) IN AwDone /\ AwTake(x) /\ wr_check_AW(x)
    /\ Quiet
WHandshake ==
    /\ WValid /\ WReady
    /\ LET id == Txn(WTxn).id IN
       WDone /\ WTake(id, WBeat, WLast) /\ wr_check_W(id, DOMAIN WBeat, WLast)
    /\ Quiet
RHandshake ==
    /\ RReady /\ Valid("rd")
    /\ LET e == Out("rd") IN
       RDone(e.x.id, RBeat, Status(e)) /\ RSent /\ rd_check_R(e.x.id, RLast)
    /\ Quiet
BHandshake ==
    /\ BReady /\ Valid("wr")
    /\ LET e == Out("wr") IN BDone(e.x.id, Status(e)) /\ BSent /\ wr_check_B(e.x.id)
    /\ Quiet
RackHandshake ==
    /\ m.rack # NoTxn /\ s.ack["rd"]
    /\ RackDone(Status(Out("rd"))) /\ s' = Answered("rd") /\ AckCheck("rd") /\ Quiet
WackHandshake ==
    /\ m.wack # NoTxn /\ s.ack["wr"]
    /\ WackDone(Status(Out("wr"))) /\ s' = Answered("wr") /\ AckCheck("wr") /\ Quiet

RunTarget ==
    /\ \E l \in Lists : \E i \in DOMAIN s.list[l] : TlmStart(l, i) \/ TlmEnd(l, i)
    /\ UNCHANGED <<k, resets>>

Reset ==
    /\ m.up /\ resets < scn.resets /\ resets' = resets + 1
    /\ MasterReset /\ SlaveReset /\ CheckerReset /\ UNCHANGED scn
Release == ~m.up /\ MasterRelease /\ UNCHANGED <<scn, s, k, resets>>

Progress ==
    \/ ArHandshake \/ AwHandshake \/ WHandshake \/ RHandshake \/ BHandshake
    \/ RackHandshake \/ WackHandshake \/ RunTarget \/ Release
AxiNext == Ask \/ Progress \/ Reset

\* The clock keeps ticking and the target answers; nobody has to ask or reset.
\* It is enough that some step is taken while one can be.
AxiFairness == WF_sysVars(Progress)

AxiSpec == AxiInit /\ [][AxiNext]_sysVars /\ AxiFairness

(***************************************************************************)
(* Properties.                                                             *)
(***************************************************************************)
\* The state is well formed: a transaction is in one place of the master and
\* the counters of the slave count what is under way.
AxiTypeOK ==
    /\ m.status \in [Txns -> {"idle", "pending", "OK", "EXCLUSIVE_OK", "ADDRESS_ERROR", "GENERIC_ERROR"}]
    /\ \A l \in Lists : s.num[l] = Cardinality({i \in DOMAIN s.list[l] : ~s.list[l][i].abort}) + Len(s.out[l])
                                   + (IF l = "wr" THEN Len(s.wrDataList) ELSE 0)
    /\ ~s.unexpected

Succeeded(t) == m.status[t] \in {"OK", "EXCLUSIVE_OK", "ADDRESS_ERROR"}
Runs(t) == SelectSeq(s.ran, LAMBDA e : e.t = t)

\* What a transaction carries from end to end: byte i of a write to its address,
\* the bytes at the addresses of a read in order, nothing of the others.
Expected(t) ==
    LET p == Txn(t).p
        Enabled(i) == i \notin p.disabled
    IN  CASE Txn(t).kind \in {"Write", "WriteBack"} ->
               [j \in 1..Cardinality({i \in 0..(p.len - 1) : Enabled(i)}) |->
                   LET i == CHOOSE i \in 0..(p.len - 1) :
                               Enabled(i) /\ Cardinality({h \in 0..i : Enabled(h)}) = j
                   IN  <<Address(p, i), i>>]
          [] Txn(t).kind = "Read" ->
               [j \in 1..p.len |-> IF Enabled(j - 1) THEN Address(p, j - 1) ELSE NoByte]
          [] OTHER -> <<>>

\* A transaction that returns without an error has run at the target once, with
\* the bytes of its payload at their addresses and in order, and returns the
\* target's response and data; no transaction runs twice.
PayloadsArrive ==
    \A t \in Txns :
        /\ Len(Runs(t)) <= 1
        /\ Succeeded(t) =>
              /\ Len(Runs(t)) = 1 /\ m.status[t] = Txn(t).answer
              /\ Expected(t) = IF Txn(t).kind = "Read" THEN m.data[t] ELSE Runs(t)[1].data

\* The order in which the target sees what one channel carries: transactions of
\* one ID or of one page run in the order they were issued and never together;
\* a barrier runs alone and in its place, only a WriteBack or Evict passes it.
Before(t, u) == \E i, j \in DOMAIN m.issued : i < j /\ m.issued[i] = t /\ m.issued[j] = u
Conflict(t, u) ==
    \/ Txn(t).id = Txn(u).id
    \/ Txn(t).p.addr \div Page = Txn(u).p.addr \div Page
    \/ scn.ace /\ IsBarrier(Txn(u).kind)
    \/ scn.ace /\ IsBarrier(Txn(t).kind) /\ Txn(u).kind \notin {"WriteBack", "Evict"}
TlmOrder ==
    \A i, j \in DOMAIN s.ran :
        LET t == s.ran[i].t  u == s.ran[j].t IN
        /\ i # j
        /\ IsReadKind(Txn(t).kind) <=> IsReadKind(Txn(u).kind)
        /\ Before(t, u) /\ Conflict(t, u)
        => /\ i < j
           /\ \A l \in Lists : \A e, f \in Range(s.list[l]) :
                 e.x.t = t /\ f.x.t = u => ~(e.at = "tlm" /\ f.at = "tlm")

\* The protocol checker on the wires reports nothing.
AxiCheckerIsSilent == k.errors = {}

\* Every transaction returns to its initiator, also across resets.
Pending == \E t \in Txns : m.status[t] = "pending"
AxiCompletes == Pending ~> ~Pending
=============================================================================
