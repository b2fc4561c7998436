------------------------------ MODULE AceCache ------------------------------
(***************************************************************************)
(* cache_ace (tlm-modules/cache-ace.h): a direct-mapped cache with one ACE *)
(* transaction outstanding at a time.                                      *)
(*                                                                         *)
(* b_transport holds m_mutex for the whole access, so a cache runs one     *)
(* access; its thread stops only inside do_tlm, where it waits for the     *)
(* response of the transaction it issued.  One step of this module is      *)
(* therefore everything the thread does between two waits: it takes the    *)
(* response, goes on through the load or store loop, and either finishes   *)
(* the access or issues the next transaction.  The operators below compute *)
(* that step as a record:                                                  *)
(*    ln, tog, mon   the cacheline, m_toggle and m_monitor after it        *)
(*    req            the transaction issued, or "none" at the end          *)
(*    want           the transaction still to come once an evicted line    *)
(*                   is out (the call stack of evict_line's callers)       *)
(*    data, ok       what the access returns: line data and EXOKAY         *)
(***************************************************************************)
EXTENDS AceProtocol

VARIABLES cacheline, \* m_cacheline of every cache
          toggle,    \* m_toggle
          monitor,   \* m_monitor.m_addr: the master exclusive monitor
          op,        \* the payload b_transport is serving (m_mutex held)
          want       \* the transaction that evict_line is making room for

cacheVars == <<cacheline, toggle, monitor, op, want>>

CacheLine == [valid : BOOLEAN, tag : Lines, shared : BOOLEAN, dirty : BOOLEAN,
              data : LineData]

CacheTypeOK ==
    /\ cacheline \in [Caches -> [Slots -> CacheLine]]
    /\ toggle \in [Caches -> BOOLEAN]
    /\ monitor \in [Caches -> SUBSET Addr]
    /\ op \in [Masters -> Op \cup {NoOp}]
    /\ want \in [Masters -> TxKinds \cup {"none"}]

CacheInit ==
    /\ cacheline = [c \in Caches |-> [i \in Slots |->
           [valid |-> FALSE, tag |-> CHOOSE l \in Lines : TRUE, shared |-> FALSE,
            dirty |-> FALSE, data |-> BlankLine]]]
    /\ toggle = [c \in Caches |-> FALSE]
    /\ monitor = [c \in Caches |-> {}]
    /\ op = [m \in Masters |-> NoOp]
    /\ want = [m \in Masters |-> "none"]

(***************************************************************************)
(* Lookup.                                                                 *)
(***************************************************************************)
get_line(c, l) == cacheline[c][Index[l]]
Holds(ln, l)   == ln.valid /\ ln.tag = l
in_cache(c, l) == Holds(get_line(c, l), l)

(***************************************************************************)
(* Snoops: what the line becomes and what the answer carries.  Only a hit  *)
(* changes or transfers anything.                                          *)
(***************************************************************************)
\* Variant: every read passes dirty data.
SnoopAnswer_PassDirty(kind, ln) ==
    [shared |-> kind \in (ReadKinds \ {"ReadUnique"}) \cup {"CleanShared"},
     dirty |-> ln.dirty, xfer |-> ln.dirty \/ kind \in ReadKinds, data |-> ln.data]

SnoopAnswer(kind, ln) ==
    LET xfer == \/ kind \in ReadKinds
                \/ kind \in {"CleanInvalid", "CleanShared"} /\ ln.dirty
    IN  [shared |-> kind \in (ReadKinds \ {"ReadUnique"}) \cup {"CleanShared"},
         dirty  |-> ln.dirty /\ kind \in {"ReadShared", "ReadUnique",
                                          "CleanInvalid", "CleanShared"},
         xfer   |-> xfer,
         data   |-> IF xfer THEN ln.data ELSE BlankLine]

SnoopedLine(kind, ln) ==
    IF kind \in {"ReadUnique", "CleanInvalid", "MakeInvalid"}
    THEN [ln EXCEPT !.valid = FALSE]
    ELSE [ln EXCEPT !.shared = TRUE,
                    !.dirty = @ /\ kind \notin {"ReadShared", "CleanShared"}]

\* m_monitor.reset(addr), with the cacheline address of the snoop
SnoopedMonitor(kind, l, mon) ==
    IF kind \in {"ReadUnique", "CleanInvalid", "MakeInvalid"}
    THEN mon \ {<<l, 0>>} ELSE mon

(***************************************************************************)
(* The outcomes of a step of the cache's thread.                           *)
(***************************************************************************)
Finish(ln, tog, mon, ok) ==
    [ln |-> ln, tog |-> tog, mon |-> mon, req |-> "none", want |-> "none",
     ok |-> ok]

Issue(ln, tog, mon, req, next) ==
    [ln |-> ln, tog |-> tog, mon |-> mon, req |-> req, want |-> next, ok |-> FALSE]

\* Variant: a dirty victim is evicted like a clean one.
Fetch_DropDirty(ln, tog, mon, kind) ==
    IF ln.valid THEN Issue(ln, tog, mon, "Evict", kind)
                ELSE Issue(ln, tog, mon, kind, "none")

\* "if (l->valid) evict_line(l, gp)" and then the transaction kind: a dirty
\* victim is written back, or first cleaned, on alternate values of m_toggle.
Fetch(ln, tog, mon, kind) ==
    CASE ~ln.valid              -> Issue(ln, tog, mon, kind, "none")
      [] ln.valid /\ ~ln.dirty  -> Issue(ln, tog, mon, "Evict", kind)
      [] ln.valid /\ ln.dirty /\ ~tog -> Issue(ln, ~tog, mon, "WriteClean", kind)
      [] ln.valid /\ ln.dirty /\ tog  -> Issue(ln, ~tog, mon, "WriteBack", kind)

\* read_line: what a hit returns
read_line(ln, o) == [a \in o.rng |-> ln.data[a[2]]]

\* write_line: the words of the access, and the dirty flag
write_line(ln, o, dirty) ==
    [ln EXCEPT !.data = [w \in Words |->
                            IF <<LineOf(o), w>> \in o.rng THEN o.val ELSE @[w]],
               !.dirty = dirty]

(***************************************************************************)
(* ACECacheWriteBack.                                                      *)
(***************************************************************************)
WB_handle_load(o, ln, tog, mon) ==
    IF Holds(ln, LineOf(o))
    THEN Finish(ln, tog, mon, IsExclusive(o))
    ELSE IF IsExclusive(o) THEN Fetch(ln, tog, mon, "ReadShared")
    ELSE IF ~tog THEN Fetch(ln, ~tog, mon, "ReadShared")
    ELSE Fetch(ln, ~tog, mon, "ReadNotSharedDirty")

WB_handle_store(o, ln, tog, mon) ==
    IF IsExclusive(o) /\ StartAddr(o) \notin mon
    THEN Finish(ln, tog, mon, FALSE)
    ELSE IF ~Holds(ln, LineOf(o))
    THEN Fetch(ln, tog, mon, IF FullLine(o) THEN "MakeUnique" ELSE "ReadUnique")
    ELSE IF ln.shared
    THEN Issue(ln, tog, mon, "CleanUnique", "none")
    ELSE Finish(write_line(ln, o, TRUE), tog,
                IF IsExclusive(o) THEN mon \ {StartAddr(o)} ELSE mon,
                IsExclusive(o))

(***************************************************************************)
(* ACECacheWriteThrough.                                                   *)
(***************************************************************************)
WT_handle_load(o, ln, tog, mon) ==
    IF Holds(ln, LineOf(o)) THEN Finish(ln, tog, mon, FALSE)
                            ELSE Fetch(ln, tog, mon, "ReadClean")

WT_handle_store(o, ln, tog, mon) ==
    Issue(ln, tog, mon, IF FullLine(o) THEN "WriteLineUnique" ELSE "WriteUnique",
          "none")

(***************************************************************************)
(* do_cache_maintenance, and the dispatch of b_transport.                  *)
(***************************************************************************)
\* Variant: a clean line is left in the cache.
do_cache_maintenance_Keep(o, ln, tog, mon) ==
    IF Holds(ln, LineOf(o)) /\ ln.dirty
    THEN Issue(ln, tog, mon, "WriteClean", o.kind)
    ELSE Issue(ln, tog, mon, o.kind, "none")

do_cache_maintenance(o, ln, tog, mon) ==
    IF Holds(ln, LineOf(o)) /\ o.kind = "CleanShared" /\ ln.dirty
    THEN Issue(ln, tog, mon, "WriteClean", o.kind)
    ELSE IF Holds(ln, LineOf(o)) /\ o.kind # "CleanShared"
    THEN Issue(ln, tog, mon, "Evict", o.kind)
    ELSE Issue(ln, tog, mon, o.kind, "none")

handle_access(c, o, ln, tog, mon) ==
    IF o.kind \in LoadKinds
    THEN IF c \in WriteBackCaches THEN WB_handle_load(o, ln, tog, mon)
                                  ELSE WT_handle_load(o, ln, tog, mon)
    ELSE IF c \in WriteBackCaches THEN WB_handle_store(o, ln, tog, mon)
                                  ELSE WT_handle_store(o, ln, tog, mon)

\* write_no_snoop and read_no_snoop: not cached
no_snoop(o, ln, tog, mon) ==
    Issue(ln, tog, mon,
          IF o.kind \in StoreKinds THEN "WriteNoSnoop" ELSE "ReadNoSnoop", "none")

b_transport(c, o) ==
    LET ln == get_line(c, LineOf(o)) IN
    IF o.kind \in CmoKinds
    THEN do_cache_maintenance(o, ln, toggle[c], monitor[c])
    ELSE IF LineOf(o) \in NonShareable
    THEN no_snoop(o, ln, toggle[c], monitor[c])
    ELSE handle_access(c, o, ln, toggle[c], monitor[c])

(***************************************************************************)
(* The response of the transaction t of cache c, and the rest of the step. *)
(***************************************************************************)
\* The line after read_shared, read_not_shared_dirty, read_unique, read_clean.
read_fill(ln, l, t) ==
    [ln EXCEPT !.valid = TRUE, !.tag = l, !.shared = t.shared,
               !.dirty = t.kind # "ReadClean" /\ t.dirty,
               !.data = ToLine(t.data, l)]

\* The line after make_unique, whose data is still to be written.
make_unique(ln, l) ==
    [ln EXCEPT !.valid = TRUE, !.tag = l, !.shared = FALSE, !.dirty = TRUE]

install(ln, l, t) == IF t.kind = "MakeUnique" THEN make_unique(ln, l)
                                              ELSE read_fill(ln, l, t)

\* The rest of writeclean: evict_line or do_cache_maintenance goes on.
WriteCleanResponse(c, ln) ==
    LET cleaned == [ln EXCEPT !.dirty = FALSE] IN
    IF want[c] \in CmoKinds
    THEN Issue(cleaned, toggle[c], monitor[c], want[c], "none")
    ELSE Issue(cleaned, toggle[c], monitor[c], "Evict", want[c])

\* The rest of writeback, from which evict_line returns.
WriteBackResponse(c, ln) ==
    Issue([ln EXCEPT !.valid = FALSE], toggle[c], monitor[c], want[c], "none")

\* The rest of evict, called by evict_line, do_cache_maintenance or, when its
\* line was invalidated meanwhile, clean_unique.
EvictResponse(c, ln) ==
    LET o == op[c]
        gone == [ln EXCEPT !.valid = FALSE]
    IN  IF want[c] # "none" THEN Issue(gone, toggle[c], monitor[c], want[c], "none")
        ELSE IF IsExclusive(o)
        THEN Finish(gone, toggle[c], monitor[c] \ {StartAddr(o)}, FALSE)
        ELSE handle_access(c, o, gone, toggle[c], monitor[c])

\* A response of clean_unique.
CleanUniqueResponse(c, t, ln) ==
    LET o == op[c]
        mine == [ln EXCEPT !.shared = FALSE]
    IN  IF ~ln.valid
        THEN Issue([ln EXCEPT !.valid = TRUE], toggle[c], monitor[c], "Evict", "none")
        ELSE IF IsExclusive(o) /\ ~t.exokay
        THEN Finish(mine, toggle[c], monitor[c] \ {StartAddr(o)}, FALSE)
        ELSE handle_access(c, o, mine, toggle[c], monitor[c])

\* Variant: the cache's own copy is not updated.
WriteUniqueResponse_KeepLine(c, ln) == Finish(ln, toggle[c], monitor[c], FALSE)

\* A response of write_unique or write_line_unique.
WriteUniqueResponse(c, ln) ==
    LET o == op[c] IN
    Finish(IF Holds(ln, LineOf(o))
           THEN [write_line(ln, o, FALSE) EXCEPT !.shared = TRUE] ELSE ln,
           toggle[c], monitor[c], FALSE)

Response(c, t) ==
    LET o  == op[c]
        l  == LineOf(o)
        ln == get_line(c, l)
    IN  CASE t.kind = "WriteClean"    -> WriteCleanResponse(c, ln)
          [] t.kind = "WriteBack"     -> WriteBackResponse(c, ln)
          [] t.kind = "Evict"         -> EvictResponse(c, ln)
          [] t.kind = "CleanUnique"   -> CleanUniqueResponse(c, t, ln)
          [] t.kind \in UniqueWriteKinds -> WriteUniqueResponse(c, ln)
          [] t.kind \in CmoKinds \cup NoSnoopKinds ->
                Finish(ln, toggle[c], monitor[c], FALSE)
          [] OTHER -> \* the line fills: read_*, make_unique
                LET r == handle_access(c, o, install(ln, l, t), toggle[c],
                                       IF o.kind = "LoadEx"
                                       THEN monitor[c] \cup {StartAddr(o)}
                                       ELSE monitor[c])
                IN  [r EXCEPT !.ok = @ /\ (o.kind = "LoadEx" => t.exokay)]

(***************************************************************************)
(* The cache's part of a step with outcome r, serving o.                   *)
(***************************************************************************)
CacheStep(c, o, r) ==
    /\ cacheline' = [cacheline EXCEPT ![c][Index[LineOf(o)]] = r.ln]
    /\ toggle' = [toggle EXCEPT ![c] = r.tog]
    /\ monitor' = [monitor EXCEPT ![c] = r.mon]
    /\ op' = [op EXCEPT ![c] = IF r.req = "none" THEN NoOp ELSE o]
    /\ want' = [want EXCEPT ![c] = r.want]

\* The cache's part of answering a snoop of the given kind for line l.
CacheSnoop(c, kind, l) ==
    /\ IF in_cache(c, l)
       THEN /\ cacheline' = [cacheline EXCEPT ![c][Index[l]] =
                                SnoopedLine(kind, get_line(c, l))]
            /\ monitor' = [monitor EXCEPT ![c] = SnoopedMonitor(kind, l, @)]
       ELSE UNCHANGED <<cacheline, monitor>>
    /\ UNCHANGED <<toggle, op, want>>

=============================================================================
