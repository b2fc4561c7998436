------------------------------ MODULE AceSystem ------------------------------
(***************************************************************************)
(* Caches (AceCache), ACE-Lite masters and interconnect (AceInterconnect)  *)
(* composed as tests/traffic-generators/ace/ace-tg-test.cc connects them.  *)
(*                                                                         *)
(* SystemC threads run one at a time and give way only in wait(): a step   *)
(* is what one thread does between two waits, and any runnable thread may  *)
(* be next.                                                                *)
(***************************************************************************)
EXTENDS AceCache, AceInterconnect, AceChecker

VARIABLE traffic    \* the load under which the system runs, one of Traffics

VARIABLES latest,   \* history: what the last store to take effect left in a word
          seen,     \* history: the values the words of a pending load held since
          reserved, \* history: the words a cache loaded exclusively and no other
                    \* master has stored to since
          event     \* history: what the last step returned to an initiator

history == <<latest, seen, reserved, event>>
vars == <<cacheVars, icnVars, checkerVars, traffic, history>>

NoEvent == [master |-> "none", data |-> Nothing, exokay |-> FALSE]

Init ==
    /\ CacheInit
    /\ IcnInit
    /\ CheckerInit
    /\ traffic \in Traffics
    /\ latest = [a \in Addr |-> InitValue]
    /\ seen = [m \in Masters |-> Nothing]
    /\ reserved = [c \in Caches |-> {}]
    /\ event = NoEvent

(***************************************************************************)
(* The payload of a transaction a cache issues: copybacks carry the line   *)
(* in the slot, unique and no-snoop writes the words of the access, the    *)
(* rest a whole line.                                                      *)
(***************************************************************************)
PayloadRange(o, r) ==
    IF r.req \in CopyBackKinds THEN LineAddr(r.ln.tag)
    ELSE IF r.req \in UniqueWriteKinds \cup NoSnoopKinds THEN o.rng
    ELSE LineAddr(LineOf(o))

PayloadData(o, r) ==
    [a \in PayloadRange(o, r) |->
        IF r.req \in {"WriteBack", "WriteClean"} THEN r.ln.data[a[2]]
        ELSE IF IsWriteTx(r.req) THEN o.val ELSE InitValue]

Exclusive(o, r) == IsExclusive(o) /\ r.req \in {"ReadShared", "ReadClean", "CleanUnique"}

NextTx(o, r) ==
    IF r.req = "none" THEN NoTx
    ELSE NewTx(r.req, PayloadRange(o, r), PayloadData(o, r), Exclusive(o, r))

(***************************************************************************)
(* The history variables.  A store into a unique line takes effect when    *)
(* the access finishes, any other one in the downstream memory.            *)
(***************************************************************************)
Stored(o) == [a \in Addr |-> IF a \in o.rng THEN o.val ELSE latest[a]]

\* Words o.rng are no longer reserved: by any other cache when m stores to
\* them, by m itself when that was its exclusive store.
Unreserved(m, o) ==
    [c \in Caches |-> IF c # m \/ IsExclusive(o) THEN reserved[c] \ o.rng
                                                 ELSE reserved[c]]

(***************************************************************************)
(* What the checker on every port sees of a step: a transaction put on AR  *)
(* or AW, the response taken from R or B, a snoop and its answer.          *)
(***************************************************************************)
Issued(m)    == tx'[m].phase = "req" /\ tx[m].phase # "req"
Responded(m) == tx[m].phase = "resp" /\ tx'[m].phase # "resp"
Snooped(c)   == {x \in Masters \X Lines : c \in snoop[x[1]][x[2]].sent
                                         /\ c \notin snoop'[x[1]][x[2]].sent}

SnoopOk(c, x) ==
    CheckSnoop(allocated[c], SnoopOf(tx[x[1]].kind), x[2], snoop'[x[1]][x[2]].ans[c])

Watch ==
    /\ alarms' = alarms
          \cup {m \in Masters : Issued(m) /\ ~CheckRequest(m, tx'[m])}
          \cup {m \in Masters : Responded(m) /\ ~CheckResponse(m, tx[m])}
          \cup {c \in Caches : \E x \in Snooped(c) : ~SnoopOk(c, x)}
    /\ allocated' = [c \in Caches |->
          IF Responded(c) THEN AfterResponse(allocated[c], tx[c])
          ELSE {l \in allocated[c] : \A x \in Snooped(c) :
                   l \in AfterSnoop(allocated[c], x[2], snoop'[x[1]][x[2]].ans[c])}]

\* What pending loads may return, once op' and latest' are known; the load
\* that the system is under stays.
Observe ==
    /\ Watch
    /\ traffic' = traffic
    /\ seen' = [m \in Masters |->
        IF op'[m].kind \notin LoadKinds THEN Nothing
        ELSE [a \in op'[m].rng |->
                 {latest'[a]} \cup IF op[m] = NoOp THEN {} ELSE seen[m][a]]]

NoEffect == UNCHANGED <<latest, reserved>> /\ event' = NoEvent /\ Observe

\* The outcome r of a step of cache c, serving o; d is uncached data.
CacheHistory(c, o, r, d) ==
    LET done == r.req = "none"
        stores == /\ done /\ o.kind \in StoreKinds
                  /\ c \in WriteBackCaches /\ LineOf(o) \notin NonShareable
                  /\ IsExclusive(o) => r.ok
    IN  /\ latest' = IF stores THEN Stored(o) ELSE latest
        /\ reserved' =
               IF stores THEN Unreserved(c, o)
               ELSE IF done /\ o.kind = "LoadEx"
               THEN [reserved EXCEPT ![c] = @ \cup o.rng] ELSE reserved
        /\ event' =
               IF done /\ (o.kind \in LoadKinds \/ IsExclusive(o))
               THEN [master |-> c, exokay |-> r.ok,
                     data |-> IF o.kind \notin LoadKinds THEN Nothing
                              ELSE IF LineOf(o) \in NonShareable THEN d
                              ELSE read_line(r.ln, o)]
               ELSE NoEvent
        /\ Observe

(***************************************************************************)
(* cache_ace::b_transport begins an access.                                *)
(***************************************************************************)
CacheStart(c) ==
    /\ op[c] = NoOp
    /\ UNCHANGED <<older, snoop, snoopDone, downstream, overlap, memory, posSet,
                   posLock>>
    /\ \E o \in traffic[c] :
          LET r == b_transport(c, o) IN
          /\ CacheStep(c, o, r)
          /\ tx' = [tx EXCEPT ![c] = NextTx(o, r)]
          /\ CacheHistory(c, o, r, Nothing)

\* The response of its transaction lets the cache go on.
CacheResume(c) ==
    /\ ResponseReady(c)
    /\ LET o == op[c]
           r == Response(c, tx[c])
       IN  /\ CacheStep(c, o, r)
           /\ Deliver(c, NextTx(o, r))
           /\ CacheHistory(c, o, r, tx[c].data)

(***************************************************************************)
(* ACELiteMaster: ReadOnce for a read, WriteUnique for a write.            *)
(***************************************************************************)
LiteTx(o) ==
    NewTx(IF o.kind \in StoreKinds THEN "WriteUnique" ELSE "ReadOnce", o.rng,
          [a \in o.rng |-> IF o.kind \in StoreKinds THEN o.val ELSE InitValue],
          FALSE)

LiteStart(m) ==
    /\ op[m] = NoOp
    /\ \E o \in traffic[m] :
          /\ op' = [op EXCEPT ![m] = o]
          /\ tx' = [tx EXCEPT ![m] = LiteTx(o)]
    /\ UNCHANGED <<cacheline, toggle, monitor, want, older, snoop, snoopDone,
                   downstream, overlap, memory, posSet, posLock>>
    /\ NoEffect

LiteResume(m) ==
    /\ ResponseReady(m)
    /\ Deliver(m, NoTx)
    /\ op' = [op EXCEPT ![m] = NoOp]
    /\ event' = IF op[m].kind \in LoadKinds
                THEN [master |-> m, data |-> tx[m].data, exokay |-> FALSE]
                ELSE NoEvent
    /\ UNCHANGED <<cacheline, toggle, monitor, want, latest, reserved>>
    /\ Observe

(***************************************************************************)
(* b_transport_snoop of cache c, for line l of the transaction of m.       *)
(***************************************************************************)
write_ongoing(c) == tx[c].kind \in CopyBackKinds

SnoopMaster(m, l, c) ==
    /\ SnoopReady(m, l, c)
    /\ ~write_ongoing(c)
    /\ LET kind == SnoopOf(tx[m].kind) IN
       /\ CacheSnoop(c, kind, l)
       /\ SnoopAnswered(m, l, c,
              IF in_cache(c, l) THEN SnoopAnswer(kind, get_line(c, l))
                                ELSE BlankAnswer)
    /\ NoEffect

(***************************************************************************)
(* The interconnect's own threads.                                         *)
(***************************************************************************)
AcceptTx(m)     == Accept(m) /\ UNCHANGED cacheVars /\ NoEffect
EngineThread(m) == (EngineFail(m) \/ EngineSnoop(m)) /\ UNCHANGED cacheVars /\ NoEffect
PortDoneThread(m, l, c) == PortDone(m, l, c) /\ UNCHANGED cacheVars /\ NoEffect
SnoopDoneThread == SnoopDone /\ UNCHANGED cacheVars /\ NoEffect

DownstreamThread ==
    /\ UNCHANGED cacheVars
    /\ DsOwn \/ DsSnoop
    /\ LET e == Head(downstream) IN
       IF e.own /\ tx[e.m].kind \in UniqueWriteKinds \cup {"WriteNoSnoop"}
       THEN /\ latest' = Stored(op[e.m])
            /\ reserved' = Unreserved(e.m, op[e.m])
            /\ event' = NoEvent
            /\ Observe
       ELSE NoEffect

Next ==
    \/ \E c \in Caches : CacheStart(c) \/ CacheResume(c)
    \/ \E m \in LiteMasters : LiteStart(m) \/ LiteResume(m)
    \/ \E m \in Masters : AcceptTx(m) \/ EngineThread(m)
    \/ \E m \in Masters, l \in Lines, c \in Caches :
          SnoopMaster(m, l, c) \/ PortDoneThread(m, l, c)
    \/ SnoopDoneThread
    \/ DownstreamThread

Spec == Init /\ [][Next]_vars

(***************************************************************************)
(* Fairness.  A runnable SystemC thread runs before simulated time         *)
(* advances, so no thread is left out for ever.  A snoop handler waits     *)
(* for m_write_done_event and is made runnable by each of its              *)
(* notifications: it gets to look each time a copyback ends, hence strong  *)
(* fairness.  Initiators need not make any access.                         *)
(***************************************************************************)
Fairness ==
    /\ \A c \in Caches : WF_vars(CacheResume(c))
    /\ \A m \in LiteMasters : WF_vars(LiteResume(m))
    /\ \A m \in Masters : WF_vars(AcceptTx(m)) /\ WF_vars(EngineThread(m))
    /\ \A m \in Masters, l \in Lines, c \in Caches :
          SF_vars(SnoopMaster(m, l, c)) /\ WF_vars(PortDoneThread(m, l, c))
    /\ WF_vars(SnoopDoneThread)
    /\ WF_vars(DownstreamThread)

FairSpec == Spec /\ Fairness

-----------------------------------------------------------------------------
(***************************************************************************)
(* Properties.                                                             *)
(***************************************************************************)

\* Every variable holds what the members it models can hold; a payload's data
\* covers exactly its address range.
TypeOK ==
    /\ CacheTypeOK
    /\ IcnTypeOK
    /\ latest \in [Addr -> Values]

\* A copy that b_transport may use: evict() marks an already invalidated line
\* valid again for the time its Evict is outstanding, when no access and (by
\* write_ongoing) no snoop looks at it.
HasCopy(c, l) == in_cache(c, l) /\ tx[c].kind # "Evict"

\* Single writer: when is_unique lets handle_store write a line in place, no
\* other cache holds a copy, whatever snoops and responses are under way.
UniqueIsAlone ==
    \A c, d \in Caches, l \in Lines :
        c # d /\ HasCopy(c, l) /\ ~get_line(c, l).shared => ~HasCopy(d, l)

\* Responsibility for writing a line back is never held twice: the snoop
\* handlers that pass dirty data clear or invalidate their own copy, and
\* those that keep it dirty do not report PassDirty.
OneOwner ==
    \A c, d \in Caches, l \in Lines :
        c # d /\ HasCopy(c, l) /\ HasCopy(d, l)
            => ~(get_line(c, l).dirty /\ get_line(d, l).dirty)

\* The masters whose store has taken effect downstream and whose response is
\* still on its way.
Applied == {m \in Masters : /\ op[m].kind \in StoreKinds
                            /\ tx[m].kind \in UniqueWriteKinds \cup {"WriteNoSnoop"}
                            /\ tx[m].phase = "resp"}

\* A hit returns the last value stored by anyone: every copy equals the last
\* store that took effect, but for a cache whose own write-through is done
\* downstream and not yet acknowledged.
CopiesAreCurrent ==
    \A c \in Caches \ Applied, l \in Lines :
        HasCopy(c, l) => get_line(c, l).data = ToLine(latest, l)

\* The ACE checkers of ace-tg-test.cc report nothing: every transaction fits its
\* domain and port, no response grants what its request excludes, and a snoop
\* is answered with data just when the responses and snoops before it have left
\* the line in the cache.
AceCheckerIsSilent == alarms = {}

(***************************************************************************)
(* Restrictions of the loads, which some properties rest on and the code   *)
(* does not see to.                                                        *)
(***************************************************************************)
Exclusively(t, c) == \E o \in t[c] : IsExclusive(o)

\* Exclusive accesses are used by one cache at most.
OneExclusiveUser ==
    \A t \in Traffics : \A c, d \in Caches :
        Exclusively(t, c) /\ Exclusively(t, d) => c = d

\* The accesses of m whose transaction covers just the words of the access.
Narrow(m, o) == m \in LiteMasters \/ (m \in WriteThroughCaches /\ o.kind \in StoreKinds)

\* Accesses of this kind by different masters meet in every line they share:
\* the interconnect orders transactions by the bytes they cover, though each
\* of them snoops, and may clean, whole lines.
LinesMeet ==
    \A t \in Traffics : \A m, n \in Masters : m # n =>
        \A o \in t[m], p \in t[n] :
            Narrow(m, o) /\ Narrow(n, p) /\ LinesOf(o.rng) \cap LinesOf(p.rng) # {}
                => o.rng \cap p.rng # {}

\* No maintenance throws away what has been stored: MakeInvalid is not used,
\* and CleanInvalid not by a cache that may hold the line dirty itself.
NothingDiscarded ==
    \A t \in Traffics : \A c \in Caches : \A o \in t[c] :
        /\ o.kind # "MakeInvalid"
        /\ o.kind = "CleanInvalid" => c \in WriteThroughCaches

\* ACE-Lite masters, which mark every transaction shareable, touch a shareable
\* line with each.
LiteShareable ==
    \A t \in Traffics : \A m \in LiteMasters : \A o \in t[m] :
        ~(LinesOf(o.rng) \subseteq NonShareable)

(***************************************************************************)
(* What OverlappingTxOrderer sees of the system: a transaction is its      *)
(* own from Accept to Complete.                                            *)
(***************************************************************************)
Place(m) == IF m \in Ongoing THEN "ongoing"
            ELSE IF m \in InPhase("stalled") THEN "stalled" ELSE "out"
Meet(r, q) == r \cap q # {}

Orderer == INSTANCE TxOrderer WITH
    Txs <- Masters, Ranges <- (SUBSET Addr) \ {{}}, NoRange <- {},
    Classes <- {"snoop", "plain"}, InRange <- Meet,
    place <- [m \in Masters |-> Place(m)],
    rng <- [m \in Masters |-> IF Place(m) = "out" THEN {} ELSE tx[m].rng],
    class <- [m \in Masters |->
                 IF Place(m) # "out" /\ IsSnoopingTransaction(tx[m].kind)
                 THEN "snoop" ELSE "plain"],
    older <- older \cap (InPhase("stalled") \X InPhase("stalled"))

\* The interconnect implements TxOrderer: whatever the engine, the ports and
\* the caches do, each transaction is stalled, restarted in the order of
\* m_overlapping_tx and done as process() has it, so no wake-up is lost and
\* snooping transactions for the same bytes never run together.
ImplementsOrderer == Orderer!OrdSpec

\* PosMonitor::m_lock is released: it is set only while the exclusive
\* CleanUnique that set it is under way.
LockHasOwner ==
    posLock => \E c \in Caches : tx[c].kind = "CleanUnique" /\ tx[c].exokay

\* The system implements one memory: stores take effect once, loads return
\* what memory held meanwhile, exclusive stores succeed only if undisturbed.
Abstract == INSTANCE CoherentMemory WITH mem <- latest, applied <- Applied
Linearizable == Abstract!MemSpec

\* Every access that begins returns: no thread waits for ever on another.
AccessCompletes == \A m \in Masters : op[m] # NoOp ~> op[m] = NoOp
=============================================================================
