------------------------------ MODULE ChiSystem ------------------------------
(***************************************************************************)
(* Caches, home node, slave node and memory together, as the CHI test      *)
(* bench connects them, with a monitor on the port of each requester.      *)
(* Every channel is in order; nothing is assumed of the speed of one       *)
(* against another.  A core thread whose transaction is complete runs      *)
(* before anything else happens: DoneEvent is notified immediately, and    *)
(* the next snoop is a delta cycle or a clock away.                        *)
(***************************************************************************)
EXTENDS ChiCache, ChiHome, ChiSlave, ChiChecker

VARIABLES left,      \* accesses a requester may still make
          latest,    \* history: the value of every word, by the stores so far
          seen       \* history: the values of the line since the access began

vars == <<mode, channels, rnVars, hnVars, snVars, chk, left, latest, seen>>

\* What the requesters do: a load miss reads; a cache makes loads, stores and
\* atomics, DVM operations and accesses of nonshareable regions, which hold no
\* line that it loads or stores (InNonShareableRegion); another requester
\* makes any request.
IsRequest(op) == IsRead(op) \/ IsDataLess(op) \/ IsWrite(op) \/ IsAtomic(op) \/ op = "DVMOp"
IsCached(o) == IsLoad(o) \/ IsStore(o)
ASSUME TrafficAssumption ==
    \A m \in Modes :
        /\ \A op \in m.reads : IsSnpRead(op)
        /\ \A r \in Requesters : \A o \in m.traffic[r] : o.line \in Lines
        /\ \A r \in Outside : \A o \in m.traffic[r] : IsRequest(o.kind) \/ o.kind = "WriteNoSnp"
        /\ \A c \in Caches : \A o \in m.traffic[c] :
              /\ IsCached(o) \/ IsAtomic(o.kind) \/ o.kind \in {"ReadNoSnp", "WriteNoSnp", "DVMOp"}
              /\ o.kind = "ReadNoSnp" =>
                    \A p \in m.traffic[c] : IsCached(p) => p.line # o.line

\* The address of a DVM operation, which holds its parameters, is not also that
\* of a line that a cache loads or stores: SnoopFilter::Update would take the
\* answers to its snoops, which are SnpResp_I, for answers about that line.
ASSUME DVMAssumption ==
    \A m \in Modes : \A r \in Requesters : \A o \in m.traffic[r] :
        o.kind = "DVMOp" =>
            \A c \in Caches : \A p \in m.traffic[c] : IsCached(p) => p.line # o.line

\* An access is of words of its line, and stores a value that a word can hold.
ASSUME WordsAssumption ==
    \A m \in Modes : \A r \in Requesters : \A o \in m.traffic[r] :
        o.ws \subseteq Words /\ o.val \in Values

ChiInit ==
    /\ up = [r \in Requesters |-> [req |-> <<>>, rsp |-> <<>>, dat |-> <<>>]]
    /\ down = [r \in Requesters |-> [rsp |-> <<>>, dat |-> <<>>, snp |-> <<>>]]
    /\ toSN = <<>> /\ snData = <<>>
    /\ fromSN = [rsp |-> <<>>, dat |-> <<>>]
    /\ RnInit /\ HnInit /\ SnInit /\ ChkInit
    /\ mode \in Modes /\ left = mode.ops
    /\ latest = [l \in Lines |-> ZeroData]
    /\ seen = [r \in Requesters |-> [w \in Words |-> {}]]

\* A store of data d to the words ws takes effect.
Stored(l, d, ws) ==
    /\ latest' = [latest EXCEPT ![l] = Merge(@, d, ws)]
    /\ seen' = [r \in Requesters |-> [w \in Words |->
          IF access[r].kind # "none" /\ access[r].line = l
          THEN seen[r][w] \cup {latest'[l][w]} ELSE seen[r][w]]]

Start(r) ==
    /\ left[r] > 0
    /\ \E o \in mode.traffic[r] :
        /\ Begin(r, o)
        /\ seen' = [seen EXCEPT ![r] = [w \in Words |-> {latest[o.line][w]}]]
    /\ left' = [left EXCEPT ![r] = @ - 1]
    /\ UNCHANGED <<mode, hnVars, snVars, chk, latest>>

Run(r) ==
    /\ \/ StoreHit(r) /\ Stored(access[r].line, StoreData(access[r]), access[r].ws)
       \/ (LoadHit(r) \/ LoadMiss(r) \/ StoreShared(r) \/ StoreMiss(r) \/ Direct(r)
              \/ EvictCleaned(r) \/ RoomMade(r) \/ Complete(r)) /\ UNCHANGED <<latest, seen>>
    /\ UNCHANGED <<mode, hnVars, snVars, chk, left>>

Receive(r) ==
    /\ \/ RxRsp(r) /\ SeeRxRsp(r, Head(down[r].rsp))
       \/ /\ down[r].dat # <<>>
          /\ RxDat(r, Arrived(Head(down[r].dat))) /\ SeeRxDat(r, Head(down[r].dat))
       \/ RxSnp(r) /\ SeeRxSnp(r, Head(down[r].snp))
    /\ UNCHANGED <<mode, hnVars, snVars, left, latest, seen>>

SendReq(r) ==
    /\ \E m \in {Head(up[r].req)} : TransmitReq(r, m) /\ RxReq(r, m) /\ SeeTxReq(r, m)
    /\ UNCHANGED <<mode, snVars, left, latest, seen>>

SendRsp(r) ==
    /\ \E m \in {Head(up[r].rsp)} : TransmitRsp(r, m) /\ HnRxRsp(r, m) /\ SeeTxRsp(r, m)
    /\ UNCHANGED <<mode, snVars, left, latest, seen>>

\* A write that is no copy-back takes effect when the home node has its data.
WriteEffect(m) ==
    LET old == latest[cur.line] IN
    IF m.t = "NonCopyBackWrData" /\ cur.op # "DVMOp"
    THEN Stored(cur.line, IF IsAtomic(cur.op)
                          THEN [w \in Words |-> AtomicResult(cur.op, old[w], m.data[w])]
                          ELSE m.data, m.be)
    ELSE UNCHANGED <<latest, seen>>
SendDat(r) ==
    /\ \E m \in {Sent(r, Head(up[r].dat))} :
        TransmitDat(r, m) /\ HnRxDat(r, Arrived(m)) /\ WriteEffect(m)
    /\ SeeTxDat(r, Head(up[r].dat))
    /\ UNCHANGED <<mode, snVars, left>>

Home ==
    /\ RouteReq \/ RxRspSN \/ RxDatSN
    /\ UNCHANGED <<mode, rnVars, snVars, chk, left, latest, seen>>
Slave ==
    /\ SnRxReq \/ SnRxDat
    /\ UNCHANGED <<mode, rnVars, hnVars, chk, left, latest, seen>>

Quiet == \A r \in Requesters : Running(r) => pulls[r] >= NumIDs

Terminating ==
    /\ \A r \in Requesters : left[r] = 0 /\ access[r].kind = "none"
    /\ UNCHANGED vars

ChiNext ==
    \/ \E r \in Requesters : Run(r)
    \/ Quiet /\ (\E r \in Requesters : Start(r))
    \/ Quiet /\ (\E r \in Requesters : Receive(r))
    \/ Quiet /\ (\E r \in Requesters : up[r].req # <<>> /\ SendReq(r))
    \/ Quiet /\ (\E r \in Requesters : up[r].rsp # <<>> /\ SendRsp(r))
    \/ Quiet /\ (\E r \in Requesters : up[r].dat # <<>> /\ SendDat(r))
    \/ Quiet /\ Home
    \/ Quiet /\ Slave
    \/ Terminating

ChiSpec == ChiInit /\ [][ChiNext]_vars

\* Every node keeps taking its steps: SystemC runs each thread that an event
\* has woken, and the channels deliver in the end.
ChiFairness ==
    /\ WF_vars(Quiet /\ Home) /\ WF_vars(Quiet /\ Slave)
    /\ \A r \in Requesters :
        /\ WF_vars(Run(r))
        /\ WF_vars(Quiet /\ Receive(r))
        /\ WF_vars(Quiet /\ up[r].req # <<>> /\ SendReq(r))
        /\ WF_vars(Quiet /\ up[r].rsp # <<>> /\ SendRsp(r))
        /\ WF_vars(Quiet /\ up[r].dat # <<>> /\ SendDat(r))
ChiFairSpec == ChiSpec /\ ChiFairness

(***************************************************************************)
(* Properties.                                                             *)
(***************************************************************************)
Status == {"I", "SC", "UC", "SD", "UD"}

\* Cachelines, transactions, the request in the home node and the memory are
\* of the types that cacheline.h, txns-rn.h, iconnect-chi.h and sn-chi.h give
\* them, and a partly valid line is always dirty, as GetStatus asserts.
ChiTypeOK ==
    /\ \A r \in Requesters :
        /\ line[r] \in [valid : BOOLEAN, tag : Lines, shared : BOOLEAN, dirty : BOOLEAN,
                        be : SUBSET Words, data : Data]
        /\ line[r].valid /\ ~line[r].shared =>
              (GetFillGrade(line[r]) = "Partial" => line[r].dirty)
              /\ (GetFillGrade(line[r]) = "Empty" => ~line[r].dirty)
        /\ stage[r] \in {"loop", "part2", "main", "after"}
        /\ txn[r].line \in Lines /\ txn[r].data \in Data /\ txn[r].be \subseteq Words
        /\ pulls[r] \in 0 .. NumIDs /\ filter[r] \subseteq Lines
    /\ cur.waiting \subseteq Requesters /\ cur.data \in Data /\ cur.snpResp \in Status
    /\ memory \in [Lines -> Data] /\ latest \in [Lines -> Data]

\* A cache that holds a line unique is the only one that holds it: what the
\* store path of cache_chi relies on when it writes a line without asking.
ChiUniqueIsAlone ==
    \A c, d \in Caches :
        c # d /\ line[c].valid /\ line[d].valid /\ line[c].tag = line[d].tag
            => line[c].shared /\ line[d].shared

\* The snoop filter of a port knows of every line the cache behind it holds,
\* except while the request that brings the line is still being acknowledged:
\* PointOfCoherence snoops no port whose filter does not list the line.
FilterCoversHolders ==
    \A c \in Caches :
        line[c].valid => \/ line[c].tag \in filter[c]
                        \/ (cur.src = c /\ cur.line = line[c].tag)

\* No message meets an assertion: a response or data finds a transaction that
\* waits for it, an acknowledgement a request that waits for it, a snoop
\* response its tracker, and the answers of the slave node their request.
MessagesAreExpected ==
    /\ \A r \in Requesters :
        /\ down[r].rsp # <<>> => AcceptsRsp(txn[r], Head(down[r].rsp))
        /\ down[r].dat # <<>> => AcceptsDat(txn[r], Head(down[r].dat))
        /\ \A i \in DOMAIN up[r].rsp :
              IF up[r].rsp[i].t = "CompAck" THEN cur.waitAck /\ cur.src = r
                                            ELSE r \in cur.waiting
        /\ \A i \in DOMAIN up[r].dat :
              CASE up[r].dat[i].t = "CompData" -> cur.waitAck /\ cur.src # r
                [] up[r].dat[i].t \in {"CopyBackWrData", "NonCopyBackWrData"} -> cur.src = r
                [] OTHER -> r \in cur.waiting
    /\ \A i \in DOMAIN fromSN.rsp :
          fromSN.rsp[i].t = "ReadReceipt" => cur.waitReceipt
    /\ fromSN.rsp # <<>> => cur.op # "none"

\* The monitor of checker-chi.h never reports an error: every request has the
\* attributes of its opcode, is sent again only as it was and for a credit, and
\* every flit completes something that the monitor waits for; and when a
\* requester has finished a transaction, so has its monitor.
CheckerIsSilent ==
    \A r \in Requesters :
        /\ chk[r].errors = {}
        /\ chk[r].txn.op # "none" => txn[r].op = chk[r].txn.op

\* The home node has at most one request out to the slave node, although it
\* never clears the flags of a retry: the slave node does not retry twice.
OneSlaveRequest == Len(toSN) <= 1 /\ (toSN # <<>> => cur.snReq.op # "none")

\* When nothing is on its way, the copies that are valid and full agree with
\* the stores made so far, and so does the memory unless some copy is dirty:
\* where no request overtakes the data of a write that the home node takes for
\* done, as it may with inOrder FALSE.
AtRest ==
    /\ cur = NoReq /\ reqList = <<>> /\ toSN = <<>> /\ snData = <<>>
    /\ \A r \in Requesters : access[r].kind = "none"
RestIsCoherent ==
    mode.inOrder /\ AtRest => \A l \in Lines :
        LET holders == {c \in Caches : line[c].valid /\ line[c].tag = l} IN
        /\ \A c \in holders : \A w \in line[c].be : line[c].data[w] = latest[l][w]
        /\ \A w \in Words : (\A c \in holders : line[c].dirty => w \notin line[c].be)
                => memory[l][w] = latest[l][w]

\* An access that reads (load, ReadOnce, ReadNoSnp, atomic) returns for each of
\* its words a value that the word had since the access began; inOrder as above.
Reads(o) == IsLoad(o) \/ IsRead(o.kind) \/ IsAtomicNonStore(o.kind)
LoadsAreCurrent ==
    [][\A r \in Requesters :
          mode.inOrder /\ Reads(access[r]) /\ access'[r].kind = "none"
              => \A w \in access[r].ws : Returned(r)[w] \in seen[r][w]]_vars

\* Every access ends, whatever is retried, snooped or evicted on the way.
ChiAccessCompletes == \A r \in Requesters : access[r].kind # "none" ~> access[r].kind = "none"
=============================================================================
