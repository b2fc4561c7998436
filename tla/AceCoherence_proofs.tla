------------------------- MODULE AceCoherence_proofs -------------------------
(***************************************************************************)
(* Proofs about AceSystem, part 1: for any caches, masters, lines, words   *)
(* and values, and any load,                                               *)
(*   - the members hold what they can hold, every master runs a            *)
(*     transaction its access asks for, and the fifos of the interconnect  *)
(*     hold exactly the work that is left to do;                           *)
(*   - the interconnect implements TxOrderer, so transactions that snoop   *)
(*     at the same time touch different bytes;                             *)
(*   - the overlap lists hold a snoop back exactly while a response is on  *)
(*     its way, and, as long as one cache alone uses exclusive accesses, a *)
(*     unique line is the only copy there is and one cache at most has to  *)
(*     write a line back;                                                  *)
(*   - the checkers on the ports have nothing to report.                   *)
(***************************************************************************)
EXTENDS AceSystem, SequenceTheorems, FiniteSetTheorems, NaturalsInduction,
        WellFoundedInduction, TLAPS

\* The transactions after which a cache has a line it did not have.
FillKinds == (ReadKinds \ {"ReadOnce"}) \cup {"MakeUnique"}

WantKinds == FillKinds \cup CmoKinds \cup {"none"}

\* The outcomes of a step of a cache's thread.
Result == [ln : CacheLine, tog : BOOLEAN, mon : SUBSET Addr,
           req : TxKinds \cup {"none"}, want : WantKinds, ok : BOOLEAN]

(***************************************************************************)
(* Accesses.                                                               *)
(***************************************************************************)

\* The words of a non-empty set of words have a least one.
LEMMA LeastWord ==
    ASSUME NEW W \in SUBSET Words, W # {}
    PROVE  \E w \in W : \A v \in W : w <= v
<1> DEFINE R == {p \in Nat \X Nat : p[1] < p[2]}
<1>1. W \subseteq Nat
  BY ProtocolAssumption DEF Words
<1>2. R = OpToRel(<, Nat)
  BY DEF OpToRel
<1>3. IsWellFoundedOn(R, Nat)
  BY <1>2, NatLessThanWellFounded
<1>4. PICK w \in W : \A v \in W : ~(<<v, w>> \in R)
  <2> HIDE DEF R
  <2>1. QED
    BY <1>1, <1>3, WFMin
<1>5. ASSUME NEW v \in W  PROVE  w <= v
  <2>1. v \in Nat /\ w \in Nat /\ <<v, w>> \notin R
    BY <1>1, <1>4
  <2>2. ~(v < w)
    BY <2>1
  <2>3. QED
    BY <2>1, <2>2
<1>6. QED
  BY <1>5

\* An access of a load has a first address, within its line.
LEMMA AccessFacts ==
    ASSUME NEW o \in Op
    PROVE  /\ LineOf(o) \in Lines
           /\ o.rng # {} /\ o.rng \subseteq Addr
           /\ o.kind \in OpKinds /\ o.val \in Values
           /\ o # NoOp
<1>1. o.rng # {} /\ o.rng \subseteq Addr /\ o.kind \in OpKinds /\ o.val \in Values
  BY DEF Op
<1>2. (CHOOSE a \in o.rng : TRUE) \in o.rng
  BY <1>1
<1>3. LineOf(o) \in Lines
  BY <1>1, <1>2 DEF LineOf, Addr
<1>4. o # NoOp
  BY <1>1 DEF NoOp
<1>5. QED
  BY <1>1, <1>3, <1>4

LEMMA StartAddrType ==
    ASSUME NEW o \in Op, o.rng \subseteq LineAddr(LineOf(o))
    PROVE  StartAddr(o) \in Addr
<1> DEFINE W == {w \in Words : <<LineOf(o), w>> \in o.rng}
<1>1. PICK a \in o.rng : TRUE
  BY DEF Op
<1>2. a \in LineAddr(LineOf(o))
  BY <1>1
<1>3. a[2] \in W
  BY <1>1, <1>2 DEF LineAddr
<1>4. PICK w \in W : \A v \in W : w <= v
  BY <1>3, LeastWord
<1>5. \A b \in o.rng : b[2] \in W
  BY DEF LineAddr
<1>6. \E x \in Words : /\ <<LineOf(o), x>> \in o.rng
                       /\ \A b \in o.rng : x <= b[2]
  BY <1>4, <1>5
<1>7. QED
  BY <1>6, AccessFacts DEF StartAddr, Addr

-----------------------------------------------------------------------------
(***************************************************************************)
(* Outcomes.                                                               *)
(***************************************************************************)

\* The transaction that an outcome issues, and the one it keeps for later.
WellAsked(r) ==
    /\ r.req # "ReadOnce"
    /\ r.req \in {"WriteBack", "WriteClean"} => r.want # "none"
    /\ r.req \notin CopyBackKinds => r.want = "none"

\* What the loops of cache_ace do to a line they have looked up: it stays the
\* line it is, is written in place only when it is unique, is upgraded only
\* when it is held, evicted only when it is valid, and replaced when it is not.
Looked(o, ln, r) ==
    /\ r \in Result
    /\ WellAsked(r)
    /\ r.ln.valid = ln.valid /\ r.ln.tag = ln.tag /\ r.ln.shared = ln.shared
    /\ r.ln.dirty # ln.dirty => Holds(ln, LineOf(o)) /\ ~ln.shared
    /\ r.req = "CleanUnique" => Holds(ln, LineOf(o))
    /\ r.req \in CopyBackKinds => ln.valid
    /\ r.req \in FillKinds => ~ln.valid

LEMMA IssueLooked ==
    ASSUME NEW o \in Op, NEW ln \in CacheLine, NEW tog \in BOOLEAN,
           NEW mon \in SUBSET Addr, NEW req \in TxKinds, NEW next \in WantKinds,
           req # "ReadOnce",
           req \in {"WriteBack", "WriteClean"} => next # "none",
           req \notin CopyBackKinds => next = "none",
           req = "CleanUnique" => Holds(ln, LineOf(o)),
           req \in CopyBackKinds => ln.valid,
           req \in FillKinds => ~ln.valid
    PROVE  Looked(o, ln, Issue(ln, tog, mon, req, next))
<1> DEFINE r == Issue(ln, tog, mon, req, next)
<1>1. r \in Result /\ r.ln = ln /\ r.req = req /\ r.want = next
  BY DEF Issue, Result
<1>2. r.ln.dirty # ln.dirty => Holds(ln, LineOf(o)) /\ ~ln.shared
  BY <1>1
<1> HIDE DEF r
<1>3. WellAsked(r)
  BY <1>1 DEF WellAsked
<1>4. Looked(o, ln, r)
  BY <1>1, <1>2, <1>3 DEF Looked
<1>5. QED
  BY <1>4 DEF r

LEMMA FinishLooked ==
    ASSUME NEW o \in Op, NEW ln \in CacheLine, NEW w \in CacheLine,
           NEW tog \in BOOLEAN, NEW mon \in SUBSET Addr, NEW ok \in BOOLEAN,
           w.valid = ln.valid, w.tag = ln.tag, w.shared = ln.shared,
           w.dirty # ln.dirty => Holds(ln, LineOf(o)) /\ ~ln.shared
    PROVE  Looked(o, ln, Finish(w, tog, mon, ok))
<1> DEFINE r == Finish(w, tog, mon, ok)
<1>1. r \in Result /\ r.ln = w /\ r.req = "none" /\ r.want = "none"
  BY DEF Finish, Result, WantKinds
<1> HIDE DEF r
<1>2. "none" \notin CopyBackKinds \cup FillKinds
  BY DEF CopyBackKinds, FillKinds, ReadKinds
<1>3. WellAsked(r)
  BY <1>1, <1>2 DEF WellAsked
<1>4. Looked(o, ln, r)
  BY <1>1, <1>2, <1>3 DEF Looked
<1>5. QED
  BY <1>4 DEF r

LEMMA FetchLooked ==
    ASSUME NEW o \in Op, NEW ln \in CacheLine, NEW tog \in BOOLEAN,
           NEW mon \in SUBSET Addr, NEW kind \in FillKinds
    PROVE  Looked(o, ln, Fetch(ln, tog, mon, kind))
<1>1. kind \in TxKinds /\ kind \in WantKinds /\ "none" \in WantKinds
      /\ "Evict" \in TxKinds /\ "WriteClean" \in TxKinds /\ "WriteBack" \in TxKinds
  BY DEF FillKinds, WantKinds, TxKinds, ReadKinds, CleanKinds, CopyBackKinds
<1>2. kind \notin CopyBackKinds \cup {"none", "ReadOnce", "CleanUnique"}
  BY DEF FillKinds, ReadKinds, CopyBackKinds
<1>3. CASE ~ln.valid
  <2>1. Fetch(ln, tog, mon, kind) = Issue(ln, tog, mon, kind, "none")
    BY <1>3 DEF Fetch
  <2>2. QED
    BY <1>1, <1>2, <1>3, <2>1, IssueLooked DEF CopyBackKinds
<1>4. ASSUME NEW t \in BOOLEAN, NEW req \in CopyBackKinds, ln.valid
      PROVE  Looked(o, ln, Issue(ln, t, mon, req, kind))
  <2>1. req \in TxKinds /\ req \notin FillKinds \cup {"ReadOnce", "CleanUnique"}
    BY DEF CopyBackKinds, TxKinds, FillKinds, ReadKinds
  <2>2. QED
    BY <1>1, <1>2, <1>4, <2>1, IssueLooked
<1>5. CASE ln.valid /\ ~ln.dirty
  <2>1. Fetch(ln, tog, mon, kind) = Issue(ln, tog, mon, "Evict", kind)
    BY <1>5 DEF Fetch
  <2>2. QED
    BY <1>4, <1>5, <2>1 DEF CopyBackKinds
<1>6. CASE ln.valid /\ ln.dirty /\ ~tog
  <2>1. Fetch(ln, tog, mon, kind) = Issue(ln, ~tog, mon, "WriteClean", kind)
    BY <1>6 DEF Fetch
  <2>2. QED
    BY <1>4, <1>6, <2>1 DEF CopyBackKinds
<1>7. CASE ln.valid /\ ln.dirty /\ tog
  <2>1. Fetch(ln, tog, mon, kind) = Issue(ln, ~tog, mon, "WriteBack", kind)
    BY <1>7 DEF Fetch
  <2>2. QED
    BY <1>4, <1>7, <2>1 DEF CopyBackKinds
<1>8. QED
  BY <1>3, <1>5, <1>6, <1>7 DEF CacheLine

\* write_line writes nothing but data and the dirty flag.
LEMMA WriteLineParts ==
    ASSUME NEW o \in Op, NEW ln \in CacheLine, NEW dirty \in BOOLEAN
    PROVE  /\ write_line(ln, o, dirty) \in CacheLine
           /\ write_line(ln, o, dirty).valid = ln.valid
           /\ write_line(ln, o, dirty).tag = ln.tag
           /\ write_line(ln, o, dirty).shared = ln.shared
           /\ write_line(ln, o, dirty).dirty = dirty
  BY DEF write_line, CacheLine, LineData, Op

\* handle_load and handle_store of both kinds of caches.
LEMMA AccessLooked ==
    ASSUME NEW c \in Caches, NEW o \in Op, NEW ln \in CacheLine, NEW tog \in BOOLEAN,
           NEW mon \in SUBSET Addr
    PROVE  Looked(o, ln, handle_access(c, o, ln, tog, mon))
<1>1. {"ReadShared", "ReadNotSharedDirty", "ReadClean", "ReadUnique", "MakeUnique"}
         \subseteq FillKinds
  BY DEF FillKinds, ReadKinds
<1>2. {"CleanUnique", "WriteUnique", "WriteLineUnique"} \subseteq TxKinds /\ "none" \in WantKinds
  BY DEF TxKinds, CleanKinds, UniqueWriteKinds, WantKinds
<1>3. \A k \in {"CleanUnique", "WriteUnique", "WriteLineUnique"} :
          k \notin FillKinds \cup CopyBackKinds \cup {"ReadOnce", "WriteBack", "WriteClean"}
  BY DEF FillKinds, ReadKinds, CopyBackKinds
<1>4. ASSUME NEW m \in SUBSET Addr, NEW ok \in BOOLEAN
      PROVE  Looked(o, ln, Finish(ln, tog, m, ok))
  BY <1>4, FinishLooked
<1>5. (~tog) \in BOOLEAN /\ IsExclusive(o) \in BOOLEAN
  BY DEF IsExclusive
<1>6. Looked(o, ln, WB_handle_load(o, ln, tog, mon))
  BY <1>1, <1>4, <1>5, FetchLooked DEF WB_handle_load
<1>7. Looked(o, ln, WT_handle_load(o, ln, tog, mon))
  BY <1>1, <1>4, <1>5, FetchLooked DEF WT_handle_load
<1>8. Looked(o, ln, WT_handle_store(o, ln, tog, mon))
  BY <1>2, <1>3, IssueLooked DEF WT_handle_store
<1>9. Looked(o, ln, WB_handle_store(o, ln, tog, mon))
  <2>1. CASE IsExclusive(o) /\ StartAddr(o) \notin mon
    BY <2>1, <1>4 DEF WB_handle_store
  <2>2. CASE ~(IsExclusive(o) /\ StartAddr(o) \notin mon) /\ ~Holds(ln, LineOf(o))
    BY <2>2, <1>1, FetchLooked DEF WB_handle_store
  <2>3. CASE ~(IsExclusive(o) /\ StartAddr(o) \notin mon) /\ Holds(ln, LineOf(o)) /\ ln.shared
    <3>1. WB_handle_store(o, ln, tog, mon) = Issue(ln, tog, mon, "CleanUnique", "none")
      BY <2>3 DEF WB_handle_store
    <3>2. QED
      BY <2>3, <3>1, <1>2, <1>3, IssueLooked
  <2>4. CASE ~(IsExclusive(o) /\ StartAddr(o) \notin mon) /\ Holds(ln, LineOf(o)) /\ ~ln.shared
    <3> DEFINE m == IF IsExclusive(o) THEN mon \ {StartAddr(o)} ELSE mon
               w == write_line(ln, o, TRUE)
    <3>1. WB_handle_store(o, ln, tog, mon) = Finish(w, tog, m, IsExclusive(o))
      BY <2>4 DEF WB_handle_store
    <3>2. m \in SUBSET Addr
      OBVIOUS
    <3>3. /\ w \in CacheLine
          /\ w.valid = ln.valid /\ w.tag = ln.tag /\ w.shared = ln.shared
      BY WriteLineParts
    <3> HIDE DEF m, w
    <3>4. Looked(o, ln, Finish(w, tog, m, IsExclusive(o)))
      BY <2>4, <3>2, <3>3, <1>5, FinishLooked
    <3>5. QED
      BY <3>1, <3>4
  <2>5. QED
    BY <2>1, <2>2, <2>3, <2>4
<1>10. QED
  BY <1>6, <1>7, <1>8, <1>9 DEF handle_access

\* b_transport begins an access: maintenance evicts or cleans a line that is
\* held, an access outside the shareable region goes past the cache.
LEMMA TransportLooked ==
    ASSUME NEW c \in Caches, NEW o \in Op, get_line(c, LineOf(o)) \in CacheLine,
           toggle[c] \in BOOLEAN, monitor[c] \in SUBSET Addr
    PROVE  Looked(o, get_line(c, LineOf(o)), b_transport(c, o))
<1> DEFINE ln == get_line(c, LineOf(o))
           tog == toggle[c]
           mon == monitor[c]
<1>0. ln \in CacheLine /\ tog \in BOOLEAN /\ mon \in SUBSET Addr
  OBVIOUS
<1>1. b_transport(c, o) = IF o.kind \in CmoKinds THEN do_cache_maintenance(o, ln, tog, mon)
                          ELSE IF LineOf(o) \in NonShareable THEN no_snoop(o, ln, tog, mon)
                          ELSE handle_access(c, o, ln, tog, mon)
  BY DEF b_transport
<1> HIDE DEF ln, tog, mon
<1>2. "none" \in WantKinds /\ CmoKinds \subseteq WantKinds \cap TxKinds
      /\ {"WriteClean", "Evict", "WriteNoSnoop", "ReadNoSnoop"} \subseteq TxKinds
  BY DEF WantKinds, TxKinds, CopyBackKinds, NoSnoopKinds
<1>3. \A k \in CmoKinds \cup {"WriteNoSnoop", "ReadNoSnoop"} :
         k \notin FillKinds \cup CopyBackKinds \cup {"ReadOnce", "WriteBack", "WriteClean", "CleanUnique", "none"}
  BY DEF CmoKinds, FillKinds, ReadKinds, CopyBackKinds
<1>4. "WriteClean" \in CopyBackKinds \ FillKinds /\ "Evict" \in CopyBackKinds \ FillKinds
  BY DEF CopyBackKinds, FillKinds, ReadKinds
<1>5. ASSUME o.kind \in CmoKinds
      PROVE  Looked(o, ln, do_cache_maintenance(o, ln, tog, mon))
  <2>1. CASE Holds(ln, LineOf(o)) /\ o.kind = "CleanShared" /\ ln.dirty
    <3>1. do_cache_maintenance(o, ln, tog, mon) = Issue(ln, tog, mon, "WriteClean", o.kind)
      BY <2>1 DEF do_cache_maintenance
    <3>2. QED
      BY <1>0, <1>2, <1>3, <1>4, <1>5, <2>1, <3>1, IssueLooked DEF Holds
  <2>2. CASE Holds(ln, LineOf(o)) /\ o.kind # "CleanShared"
    <3>1. do_cache_maintenance(o, ln, tog, mon) = Issue(ln, tog, mon, "Evict", o.kind)
      BY <2>2 DEF do_cache_maintenance
    <3>2. QED
      BY <1>0, <1>2, <1>3, <1>4, <1>5, <2>2, <3>1, IssueLooked DEF Holds
  <2>3. CASE ~(Holds(ln, LineOf(o)) /\ (o.kind = "CleanShared" => ln.dirty))
    <3>1. do_cache_maintenance(o, ln, tog, mon) = Issue(ln, tog, mon, o.kind, "none")
      BY <2>3 DEF do_cache_maintenance
    <3>2. QED
      BY <1>0, <1>2, <1>3, <1>5, <3>1, IssueLooked
  <2>4. QED
    BY <2>1, <2>2, <2>3
<1>6. Looked(o, ln, no_snoop(o, ln, tog, mon))
  BY <1>0, <1>2, <1>3, IssueLooked DEF no_snoop
<1>7. Looked(o, ln, handle_access(c, o, ln, tog, mon))
  BY <1>0, AccessLooked
<1>8. QED
  BY <1>1, <1>5, <1>6, <1>7 DEF ln

\* What the response of transaction t does to the line ln of the access o,
\* and what the cache asks for next.
Answered(o, ln, t, r) ==
    /\ r \in Result
    /\ WellAsked(r)
    /\ r.req = "CleanUnique" => r.ln.valid /\ r.ln.tag = LineOf(o)
    /\ r.req \in CopyBackKinds => r.ln.valid \/ t.kind = "WriteClean"
    /\ t.kind \notin FillKinds => r.ln.tag = ln.tag
    /\ t.kind = "WriteClean" =>
          r.ln.valid = ln.valid /\ r.ln.shared = ln.shared /\ ~r.ln.dirty
    /\ t.kind \in {"WriteBack", "Evict"} => ~r.ln.valid
    /\ t.kind = "CleanUnique" =>
          IF ln.valid THEN r.ln.valid /\ ~r.ln.shared ELSE r.req = "Evict"
    /\ t.kind \in UniqueWriteKinds =>
          \/ r.ln = ln
          \/ r.ln.valid = ln.valid /\ r.ln.shared /\ ~r.ln.dirty
    /\ t.kind \in CmoKinds \cup NoSnoopKinds => r.ln = ln
    /\ t.kind \in FillKinds =>
          /\ r.ln.valid /\ r.ln.tag = LineOf(o)
          /\ r.ln.shared = (t.kind # "MakeUnique" /\ t.shared)
          /\ r.ln.dirty => ~r.ln.shared \/ (t.kind # "ReadClean" /\ t.dirty)

\* The kinds are told apart by their classes.
LEMMA KindClasses ==
    /\ TxKinds = FillKinds \cup CmoKinds \cup UniqueWriteKinds \cup CopyBackKinds
                   \cup NoSnoopKinds \cup {"ReadOnce", "CleanUnique"}
    /\ CopyBackKinds = {"WriteBack", "WriteClean", "Evict"}
    /\ "none" \notin TxKinds
    /\ \A k \in FillKinds : k \notin CmoKinds \cup UniqueWriteKinds \cup CopyBackKinds
                              \cup NoSnoopKinds \cup {"ReadOnce", "CleanUnique"}
    /\ \A k \in CmoKinds : k \notin UniqueWriteKinds \cup CopyBackKinds
                              \cup NoSnoopKinds \cup {"ReadOnce", "CleanUnique"}
    /\ \A k \in UniqueWriteKinds : k \notin CopyBackKinds
                              \cup NoSnoopKinds \cup {"ReadOnce", "CleanUnique"}
    /\ \A k \in CopyBackKinds : k \notin NoSnoopKinds \cup {"ReadOnce", "CleanUnique"}
    /\ "ReadOnce" \notin NoSnoopKinds /\ "CleanUnique" \notin NoSnoopKinds
  BY DEF TxKinds, FillKinds, ReadKinds, CleanKinds, CmoKinds, UniqueWriteKinds,
         CopyBackKinds, NoSnoopKinds

\* The end of a copyback: the line is clean, or gone, and the access goes on.
LEMMA CopyBackAnswered ==
    ASSUME NEW c \in Caches, NEW t, NEW ln \in CacheLine, op[c] \in Op,
           toggle[c] \in BOOLEAN, monitor[c] \in SUBSET Addr, want[c] \in WantKinds,
           t.kind \in CopyBackKinds, t.kind # "Evict" => want[c] # "none"
    PROVE  /\ t.kind = "WriteClean" => Answered(op[c], ln, t, WriteCleanResponse(c, ln))
           /\ t.kind = "WriteBack" => Answered(op[c], ln, t, WriteBackResponse(c, ln))
           /\ t.kind = "Evict" => Answered(op[c], ln, t, EvictResponse(c, ln))
<1> DEFINE o == op[c]
           w == want[c]
           tog == toggle[c]
           mon == monitor[c]
           gone == [ln EXCEPT !.valid = FALSE]
           cleaned == [ln EXCEPT !.dirty = FALSE]
<1>0. o \in Op /\ w \in WantKinds /\ tog \in BOOLEAN /\ mon \in SUBSET Addr
  OBVIOUS
<1>1. /\ gone \in CacheLine /\ gone.tag = ln.tag /\ gone.valid = FALSE
      /\ gone.shared = ln.shared /\ gone.dirty = ln.dirty
  BY DEF CacheLine
<1>2. /\ cleaned \in CacheLine /\ cleaned.tag = ln.tag /\ cleaned.valid = ln.valid
      /\ cleaned.shared = ln.shared /\ cleaned.dirty = FALSE
  BY DEF CacheLine
<1>3. w # "none" => w \in FillKinds \cup CmoKinds /\ w \in TxKinds
                    /\ w \notin CopyBackKinds \cup {"ReadOnce", "CleanUnique"}
  BY <1>0, KindClasses DEF WantKinds
<1>4. "none" \in WantKinds /\ "Evict" \in TxKinds
  BY KindClasses DEF WantKinds
<1>5. ASSUME t.kind = "WriteClean"
      PROVE  Answered(o, ln, t, WriteCleanResponse(c, ln))
  <2>1. CASE w \in CmoKinds
    <3> DEFINE r == Issue(cleaned, tog, mon, w, "none")
    <3>1. WriteCleanResponse(c, ln) = r
      BY <2>1 DEF WriteCleanResponse
    <3> HIDE DEF cleaned, w, tog, mon, o
    <3>2. r \in Result /\ r.ln = cleaned /\ r.req = w /\ r.want = "none"
      BY <1>0, <1>2, <1>3, <1>4, <1>5, <2>1, KindClasses DEF Issue, Result
    <3> HIDE DEF r
    <3>3. QED
      BY <1>2, <1>3, <1>5, <2>1, <3>1, <3>2, KindClasses DEF Answered, WellAsked
  <2>2. CASE w \notin CmoKinds
    <3> DEFINE r == Issue(cleaned, tog, mon, "Evict", w)
    <3>1. WriteCleanResponse(c, ln) = r
      BY <2>2 DEF WriteCleanResponse
    <3> HIDE DEF cleaned, w, tog, mon, o
    <3>2. r \in Result /\ r.ln = cleaned /\ r.req = "Evict" /\ r.want = w
      BY <1>0, <1>2, <1>4 DEF Issue, Result
    <3> HIDE DEF r
    <3>3. QED
      BY <1>2, <1>5, <3>1, <3>2, KindClasses DEF Answered, WellAsked
  <2>3. QED
    BY <2>1, <2>2
<1>6. ASSUME w # "none", t.kind \in {"WriteBack", "Evict"}
      PROVE  Answered(o, ln, t, Issue(gone, tog, mon, w, "none"))
  <2> DEFINE r == Issue(gone, tog, mon, w, "none")
  <2> HIDE DEF gone, w, tog, mon, o
  <2>1. r \in Result /\ r.ln = gone /\ r.req = w /\ r.want = "none"
    BY <1>0, <1>1, <1>3, <1>4, <1>6 DEF Issue, Result
  <2> HIDE DEF r
  <2>2. Answered(o, ln, t, r)
    BY <1>1, <1>3, <1>6, <2>1, KindClasses DEF Answered, WellAsked
  <2>3. QED
    BY <2>2 DEF r
<1>7. ASSUME t.kind = "Evict"
      PROVE  Answered(o, ln, t, EvictResponse(c, ln))
  <2>1. CASE w # "none"
    BY <1>6, <1>7, <2>1 DEF EvictResponse
  <2>2. ASSUME NEW r, Looked(o, gone, r)
        PROVE  Answered(o, ln, t, r)
    <3> HIDE DEF gone, o
    <3>1. QED
      BY <1>1, <1>7, <2>2, KindClasses DEF Answered, Looked, Holds
  <2>3. CASE w = "none" /\ IsExclusive(o)
    <3> DEFINE m == mon \ {StartAddr(o)}
    <3>1. EvictResponse(c, ln) = Finish(gone, tog, m, FALSE)
      BY <2>3 DEF EvictResponse
    <3>2. m \in SUBSET Addr
      BY <1>0
    <3> HIDE DEF gone, o, tog, mon, m
    <3>3. Looked(o, gone, Finish(gone, tog, m, FALSE))
      BY <1>0, <1>1, <3>2, FinishLooked
    <3>4. QED
      BY <2>2, <3>1, <3>3
  <2>4. CASE w = "none" /\ ~IsExclusive(o)
    <3>1. EvictResponse(c, ln) = handle_access(c, o, gone, tog, mon)
      BY <2>4 DEF EvictResponse
    <3> HIDE DEF gone, o, tog, mon
    <3>2. Looked(o, gone, handle_access(c, o, gone, tog, mon))
      BY <1>0, <1>1, AccessLooked
    <3>3. QED
      BY <2>2, <3>1, <3>2
  <2>5. QED
    BY <2>1, <2>3, <2>4
<1>8. QED
  BY <1>5, <1>6, <1>7 DEF WriteBackResponse

\* clean_unique upgrades its line, unless a snoop invalidated it meanwhile.
LEMMA CleanUniqueAnswered ==
    ASSUME NEW c \in Caches, NEW t, NEW ln \in CacheLine, op[c] \in Op,
           toggle[c] \in BOOLEAN, monitor[c] \in SUBSET Addr, t.kind = "CleanUnique"
    PROVE  Answered(op[c], ln, t, CleanUniqueResponse(c, t, ln))
<1> DEFINE o == op[c]
           tog == toggle[c]
           mon == monitor[c]
           mine == [ln EXCEPT !.shared = FALSE]
           again == [ln EXCEPT !.valid = TRUE]
<1>0. o \in Op /\ tog \in BOOLEAN /\ mon \in SUBSET Addr
  OBVIOUS
<1>1. /\ mine \in CacheLine /\ mine.tag = ln.tag /\ mine.valid = ln.valid /\ ~mine.shared
      /\ again \in CacheLine /\ again.tag = ln.tag /\ again.valid = TRUE
  BY DEF CacheLine
<1>2. CASE ~ln.valid
  <2> DEFINE r == Issue(again, tog, mon, "Evict", "none")
  <2>1. CleanUniqueResponse(c, t, ln) = r
    BY <1>2 DEF CleanUniqueResponse
  <2> HIDE DEF o, tog, mon, again
  <2>2. r \in Result /\ r.ln = again /\ r.req = "Evict" /\ r.want = "none"
    BY <1>0, <1>1, KindClasses DEF Issue, Result, WantKinds
  <2> HIDE DEF r
  <2>3. QED
    BY <1>1, <1>2, <2>1, <2>2, KindClasses DEF Answered, WellAsked
<1>3. ASSUME NEW r, Looked(o, mine, r), ln.valid
      PROVE  Answered(o, ln, t, r)
  <2> HIDE DEF mine, o
  <2>1. QED
    BY <1>1, <1>3, KindClasses DEF Answered, Looked, Holds
<1>4. CASE ln.valid /\ IsExclusive(o) /\ ~t.exokay
  <2> DEFINE m == mon \ {StartAddr(o)}
  <2>1. CleanUniqueResponse(c, t, ln) = Finish(mine, tog, m, FALSE)
    BY <1>4 DEF CleanUniqueResponse
  <2>2. m \in SUBSET Addr
    BY <1>0
  <2> HIDE DEF mine, o, tog, mon, m
  <2>3. Looked(o, mine, Finish(mine, tog, m, FALSE))
    BY <1>0, <1>1, <2>2, FinishLooked
  <2>4. QED
    BY <1>3, <1>4, <2>1, <2>3 DEF o
<1>5. CASE ln.valid /\ ~(IsExclusive(o) /\ ~t.exokay)
  <2>1. CleanUniqueResponse(c, t, ln) = handle_access(c, o, mine, tog, mon)
    BY <1>5 DEF CleanUniqueResponse
  <2> HIDE DEF mine, o, tog, mon
  <2>2. Looked(o, mine, handle_access(c, o, mine, tog, mon))
    BY <1>0, <1>1, AccessLooked
  <2>3. QED
    BY <1>3, <1>5, <2>1, <2>2 DEF o
<1>6. QED
  BY <1>2, <1>4, <1>5

\* write_unique updates a copy of the line, which is shared from then on.
LEMMA WriteUniqueAnswered ==
    ASSUME NEW c \in Caches, NEW t, NEW ln \in CacheLine, op[c] \in Op,
           toggle[c] \in BOOLEAN, monitor[c] \in SUBSET Addr,
           t.kind \in UniqueWriteKinds
    PROVE  Answered(op[c], ln, t, WriteUniqueResponse(c, ln))
<1> DEFINE o == op[c]
           tog == toggle[c]
           mon == monitor[c]
           wl == write_line(ln, o, FALSE)
           w == IF Holds(ln, LineOf(o)) THEN [wl EXCEPT !.shared = TRUE] ELSE ln
           r == Finish(w, tog, mon, FALSE)
<1>0. o \in Op /\ tog \in BOOLEAN /\ mon \in SUBSET Addr
  OBVIOUS
<1>1. WriteUniqueResponse(c, ln) = r
  BY DEF WriteUniqueResponse
<1>2. wl \in CacheLine /\ wl.valid = ln.valid /\ wl.tag = ln.tag /\ wl.dirty = FALSE
  BY WriteLineParts
<1> HIDE DEF o, tog, mon, wl
<1>3. w \in CacheLine /\ w.tag = ln.tag /\ w.valid = ln.valid
      /\ (w = ln \/ (w.shared /\ ~w.dirty))
  <2>1. CASE Holds(ln, LineOf(o))
    <3>1. w = [wl EXCEPT !.shared = TRUE]
      BY <2>1
    <3>2. QED
      BY <1>2, <3>1 DEF CacheLine
  <2>2. CASE ~Holds(ln, LineOf(o))
    BY <2>2
  <2>3. QED
    BY <2>1, <2>2
<1> HIDE DEF w
<1>4. r \in Result /\ r.ln = w /\ r.req = "none" /\ r.want = "none"
  BY <1>0, <1>3 DEF Finish, Result, WantKinds
<1> HIDE DEF r
<1>5. Answered(o, ln, t, r)
  BY <1>3, <1>4, KindClasses DEF Answered, WellAsked
<1>6. QED
  BY <1>1, <1>5 DEF o

\* A line that fills is the line of the access, shared and dirty as the
\* response says; the access then goes on.
LEMMA FillAnswered ==
    ASSUME NEW c \in Caches, NEW t, NEW ln \in CacheLine, op[c] \in Op,
           toggle[c] \in BOOLEAN, NEW mon \in SUBSET Addr,
           t.kind \in FillKinds, t.shared \in BOOLEAN, t.dirty \in BOOLEAN,
           ToLine(t.data, LineOf(op[c])) \in LineData
    PROVE  Answered(op[c], ln, t,
                    handle_access(c, op[c], install(ln, LineOf(op[c]), t), toggle[c], mon))
<1> DEFINE o == op[c]
           l == LineOf(o)
           new == install(ln, l, t)
           r == handle_access(c, o, new, toggle[c], mon)
<1>1. l \in Lines
  BY AccessFacts
<1>2. /\ new \in CacheLine /\ new.valid /\ new.tag = l
      /\ new.shared = (t.kind # "MakeUnique" /\ t.shared)
      /\ new.dirty => t.kind = "MakeUnique" \/ (t.kind # "ReadClean" /\ t.dirty)
  <2>1. CASE t.kind = "MakeUnique"
    BY <1>1, <2>1 DEF install, make_unique, CacheLine
  <2>2. CASE t.kind # "MakeUnique"
    <3> DEFINE d == t.kind # "ReadClean" /\ t.dirty
               ld == ToLine(t.data, l)
    <3>1. d \in BOOLEAN /\ ld \in LineData /\ (d => t.kind # "ReadClean" /\ t.dirty)
      OBVIOUS
    <3>2. new = [ln EXCEPT !.valid = TRUE, !.tag = l, !.shared = t.shared,
                           !.dirty = d, !.data = ld]
      BY <2>2 DEF install, read_fill
    <3> HIDE DEF d, l, ld, new
    <3>3. QED
      BY <1>1, <2>2, <3>1, <3>2 DEF CacheLine
  <2>3. QED
    BY <2>1, <2>2
<1> HIDE DEF new
<1>3. Looked(o, new, r)
  BY <1>2, AccessLooked
<1> HIDE DEF r
<1>4. Answered(o, ln, t, r)
  <2> HIDE DEF o
  <2>1. QED
    BY <1>2, <1>3, KindClasses DEF Answered, Looked, Holds, l
<1>5. QED
  BY <1>4 DEF r, new

\* The response of the transaction of c, whatever it is.
LEMMA ResponseAnswered ==
    ASSUME NEW c \in Caches, NEW t, NEW ln \in CacheLine,
           ln = get_line(c, LineOf(op[c])),
           op[c] \in Op, op[c].rng \subseteq LineAddr(LineOf(op[c])),
           toggle[c] \in BOOLEAN, monitor[c] \in SUBSET Addr, want[c] \in WantKinds,
           t.kind \in TxKinds, t.kind # "ReadOnce",
           t.kind \in {"WriteBack", "WriteClean"} => want[c] # "none",
           t.shared \in BOOLEAN, t.dirty \in BOOLEAN, t.exokay \in BOOLEAN,
           t.kind \in FillKinds => ToLine(t.data, LineOf(op[c])) \in LineData
    PROVE  Answered(op[c], ln, t, Response(c, t))
<1>1. CASE t.kind \in CopyBackKinds
  <2>1. /\ t.kind = "WriteClean" => Response(c, t) = WriteCleanResponse(c, ln)
        /\ t.kind = "WriteBack" => Response(c, t) = WriteBackResponse(c, ln)
        /\ t.kind = "Evict" => Response(c, t) = EvictResponse(c, ln)
    BY <1>1, KindClasses DEF Response
  <2>2. QED
    BY <1>1, <2>1, CopyBackAnswered, KindClasses
<1>2. CASE t.kind = "CleanUnique"
  <2>1. Response(c, t) = CleanUniqueResponse(c, t, ln)
    BY <1>2, KindClasses DEF Response
  <2>2. QED
    BY <1>2, <2>1, CleanUniqueAnswered
<1>3. CASE t.kind \in UniqueWriteKinds
  <2>1. Response(c, t) = WriteUniqueResponse(c, ln)
    BY <1>3, KindClasses DEF Response
  <2>2. QED
    BY <1>3, <2>1, WriteUniqueAnswered
<1>4. CASE t.kind \in CmoKinds \cup NoSnoopKinds
  <2> DEFINE r == Finish(ln, toggle[c], monitor[c], FALSE)
  <2>1. Response(c, t) = r
    BY <1>4, KindClasses DEF Response
  <2>2. r \in Result /\ r.ln = ln /\ r.req = "none" /\ r.want = "none"
    BY DEF Finish, Result, WantKinds
  <2> HIDE DEF r
  <2>3. QED
    BY <1>4, <2>1, <2>2, KindClasses DEF Answered, WellAsked
<1>5. CASE t.kind \in FillKinds
  <2> DEFINE o == op[c]
             mon == IF o.kind = "LoadEx" THEN monitor[c] \cup {StartAddr(o)} ELSE monitor[c]
             r == handle_access(c, o, install(ln, LineOf(o), t), toggle[c], mon)
             ok == r.ok /\ (o.kind = "LoadEx" => t.exokay)
  <2>1. Response(c, t) = [r EXCEPT !.ok = ok]
    BY <1>5, KindClasses DEF Response
  <2>2. mon \in SUBSET Addr
    BY StartAddrType
  <2> HIDE DEF mon
  <2>3. Answered(o, ln, t, r)
    BY <1>5, <2>2, FillAnswered
  <2>4. r \in Result
    BY <2>3 DEF Answered
  <2>5. ok \in BOOLEAN
    BY <2>4 DEF Result
  <2> HIDE DEF r, ok
  <2>6. /\ Response(c, t) \in Result
        /\ Response(c, t).ln = r.ln /\ Response(c, t).req = r.req
        /\ Response(c, t).want = r.want
    BY <2>1, <2>4, <2>5 DEF Result
  <2>7. QED
    BY <2>3, <2>6 DEF Answered, WellAsked
<1>6. QED
  BY <1>1, <1>2, <1>3, <1>4, <1>5, KindClasses

-----------------------------------------------------------------------------
(***************************************************************************)
(* Transactions.                                                           *)
(***************************************************************************)

\* A transaction with data for the addresses it covers.
WellFormed(t) == t \in Tx /\ t.data \in [t.rng -> Values]

\* The interconnect moves a transaction along; it stays the transaction it was.
SameTx(a, b) ==
    /\ a.kind = b.kind /\ a.rng = b.rng /\ a.excl = b.excl
    /\ a.exokay \in {b.exokay, b.excl}
    /\ a.phase = "idle" <=> b.phase = "idle"

\* It is given no other answer than it has.
SameAnswer(a, b) ==
    a.exokay = b.exokay /\ a.shared = b.shared /\ a.dirty = b.dirty

LEMMA TxOf ==
    ASSUME IcnTypeOK, NEW m \in Masters
    PROVE  WellFormed(tx[m]) /\ LinesOf(tx[m].rng) \subseteq Lines
  BY DEF IcnTypeOK, WellFormed, Tx, LinesOf, Addr

LEMMA CachesAreMasters == Caches \subseteq Masters /\ LiteMasters \subseteq Masters
  BY DEF Masters

\* Data for a range is data that a payload can hold.
LEMMA DataOfRange ==
    ASSUME NEW rng \in SUBSET Addr, NEW d \in [rng -> Values]
    PROVE  d \in RangeData
  BY DEF RangeData

\* A payload in another phase, with other answers, or with other contents.
LEMMA PhasedTx ==
    ASSUME NEW t, WellFormed(t), NEW p \in Phases
    PROVE  WellFormed([t EXCEPT !.phase = p])
  BY DEF WellFormed, Tx

LEMMA FilledTx ==
    ASSUME NEW t, WellFormed(t), NEW d \in [t.rng -> Values]
    PROVE  WellFormed([t EXCEPT !.data = d])
  BY DataOfRange DEF WellFormed, Tx

LEMMA AnsweredTx ==
    ASSUME NEW t, WellFormed(t), NEW shared \in BOOLEAN, NEW dirty \in BOOLEAN,
           NEW ok \in BOOLEAN
    PROVE  WellFormed([t EXCEPT !.shared = shared, !.dirty = dirty, !.ok = ok])
  BY DEF WellFormed, Tx

\* One transaction changes, and stays the transaction it was.
MovesOn(m) ==
    \E u : WellFormed(u) /\ SameTx(u, tx[m]) /\ tx' = [tx EXCEPT ![m] = u]

LEMMA MovesOnTypes ==
    ASSUME IcnTypeOK, NEW m \in Masters, MovesOn(m)
    PROVE  /\ tx' \in [Masters -> Tx]
           /\ \A x \in Masters : tx'[x].data \in [tx'[x].rng -> Values]
           /\ \A x \in Masters : SameTx(tx'[x], tx[x])
<1>1. PICK u : WellFormed(u) /\ SameTx(u, tx[m]) /\ tx' = [tx EXCEPT ![m] = u]
  BY DEF MovesOn
<1>2. tx \in [Masters -> Tx] /\ \A x \in Masters : tx[x].data \in [tx[x].rng -> Values]
  BY DEF IcnTypeOK
<1>3. \A x \in Masters : tx'[x] = IF x = m THEN u ELSE tx[x]
  BY <1>1, <1>2
<1>4. u \in Tx /\ u.data \in [u.rng -> Values]
  BY <1>1 DEF WellFormed
<1>5. QED
  BY <1>1, <1>2, <1>3, <1>4 DEF SameTx

\* std::list::remove gives a list of what was listed.
LEMMA WithoutType ==
    ASSUME NEW S, NEW q \in Seq(S), NEW m
    PROVE  Without(q, m) \in Seq(S)
<1>1. CASE \E i \in 1..Len(q) : q[i] = m
  <2> DEFINE i == CHOOSE i \in 1..Len(q) : q[i] = m
  <2>1. i \in 1..Len(q) /\ Len(q) \in Nat
    BY <1>1
  <2>2. Without(q, m) = SubSeq(q, 1, i - 1) \o SubSeq(q, i + 1, Len(q))
    BY <1>1 DEF Without
  <2> HIDE DEF i
  <2>3. SubSeq(q, 1, i - 1) \in Seq(S)
    BY <2>1, SubSeqProperties
  <2>4. SubSeq(q, i + 1, Len(q)) \in Seq(S)
    BY <2>1, SubSeqProperties
  <2>5. QED
    BY <2>2, <2>3, <2>4, ConcatProperties
<1>2. CASE ~\E i \in 1..Len(q) : q[i] = m
  BY <1>2 DEF Without
<1>3. QED
  BY <1>1, <1>2

\* What DoneEvent sets off: m gets its response, stalled transactions go on.
Completed(m, t) ==
    /\ tx' \in [Masters -> Tx]
    /\ tx'[m] = [t EXCEPT !.phase = "resp"]
    /\ \A x \in Masters \ {m} :
          \/ tx'[x] = tx[x]
          \/ tx[x].phase = "stalled" /\ tx'[x] = [tx[x] EXCEPT !.phase = "engine"]

LEMMA CompleteParts ==
    ASSUME IcnTypeOK, NEW m \in Masters, NEW t, WellFormed(t), Complete(m, t)
    PROVE  /\ Completed(m, t)
           /\ \A x \in Masters : WellFormed(tx'[x])
           /\ older' \in SUBSET (Masters \X Masters)
           /\ overlap' \in [Caches -> [Lines -> Seq(Masters)]]
<1>1. PICK R \in SUBSET InPhase("stalled") :
        /\ tx' = [x \in Masters |->
                     IF x = m THEN [t EXCEPT !.phase = "resp"]
                     ELSE IF x \in R THEN [tx[x] EXCEPT !.phase = "engine"]
                     ELSE tx[x]]
        /\ older' = {p \in Forget({m}) : p[1] \in R <=> p[2] \in R}
                        \cup (InPhase("engine") \ {m}) \X R
        /\ overlap' = IF m \in Caches
                      THEN [overlap EXCEPT ![m] = [l \in Lines |->
                               IF l \in LinesOf(t.rng) THEN Append(@[l], m)
                                                       ELSE @[l]]]
                      ELSE overlap
  BY DEF Complete
<1>2. R \subseteq Masters /\ \A x \in R : tx[x].phase = "stalled"
  BY DEF InPhase
<1>3. tx'[m] = [t EXCEPT !.phase = "resp"]
  BY <1>1
<1>4. \A x \in Masters \ {m} :
          tx'[x] = IF x \in R THEN [tx[x] EXCEPT !.phase = "engine"] ELSE tx[x]
  BY <1>1
<1>5. "resp" \in Phases /\ "engine" \in Phases
  BY DEF Phases
<1>6. \A x \in Masters : WellFormed(tx'[x])
  <2>1. WellFormed(tx'[m])
    <3>1. WellFormed([t EXCEPT !.phase = "resp"])
      BY <1>5, PhasedTx
    <3>2. QED
      BY <1>3, <3>1
  <2>2. ASSUME NEW x \in Masters \ {m}  PROVE  WellFormed(tx'[x])
    <3>1. WellFormed(tx[x]) /\ WellFormed([tx[x] EXCEPT !.phase = "engine"])
      BY <1>5, TxOf, PhasedTx
    <3>2. QED
      BY <1>4, <3>1
  <2>3. QED
    BY <2>1, <2>2
<1>7. tx' \in [Masters -> Tx]
  BY <1>1, <1>6 DEF WellFormed
<1>8. older' \in SUBSET (Masters \X Masters)
  BY <1>1, <1>2 DEF Forget, InPhase, IcnTypeOK
<1>9. overlap' \in [Caches -> [Lines -> Seq(Masters)]]
  <2>1. CASE m \notin Caches
    BY <1>1, <2>1 DEF IcnTypeOK
  <2>2. CASE m \in Caches
    <3> DEFINE f == [l \in Lines |-> IF l \in LinesOf(t.rng) THEN Append(overlap[m][l], m)
                                                             ELSE overlap[m][l]]
    <3>1. overlap[m] \in [Lines -> Seq(Masters)]
      BY <2>2 DEF IcnTypeOK
    <3>2. f \in [Lines -> Seq(Masters)]
      BY <3>1, AppendProperties
    <3>3. overlap' = [overlap EXCEPT ![m] = f]
      BY <1>1, <2>2
    <3> HIDE DEF f
    <3>4. QED
      BY <2>2, <3>2, <3>3 DEF IcnTypeOK
  <2>3. QED
    BY <2>1, <2>2
<1>10. QED
  BY <1>2, <1>3, <1>4, <1>6, <1>7, <1>8, <1>9 DEF Completed

\* process() takes a transaction in, up to its wait.
LEMMA AcceptTypes ==
    ASSUME IcnTypeOK, NEW m \in Masters, Accept(m), tx[m].rng # {},
           tx[m].kind = "Evict" => m \in Caches
    PROVE  /\ IcnTypeOK'
           /\ \A x \in Masters : SameTx(tx'[x], tx[x])
<1> DEFINE l == CHOOSE x \in LinesOf(tx[m].rng) : TRUE
<1>1. l \in Lines /\ WellFormed(tx[m])
  <2>1. LinesOf(tx[m].rng) # {}
    BY DEF LinesOf
  <2>2. QED
    BY <2>1, TxOf
<1>2. tx[m].phase = "req" /\ tx[m] \in Tx /\ tx \in [Masters -> Tx]
  BY <1>1 DEF Accept, WellFormed, IcnTypeOK
<1>3. MovesOn(m)
  <2>1. ASSUME NEW p \in {"stalled", "engine", "ds"}, tx' = [tx EXCEPT ![m].phase = p]
        PROVE  MovesOn(m)
    <3> DEFINE u == [tx[m] EXCEPT !.phase = p]
    <3>1. WellFormed(u)
      BY <1>1, PhasedTx DEF Phases
    <3>2. SameTx(u, tx[m])
      BY <1>2 DEF SameTx, Tx
    <3>3. tx' = [tx EXCEPT ![m] = u]
      BY <2>1
    <3> HIDE DEF u
    <3>4. QED
      BY <3>1, <3>2, <3>3 DEF MovesOn
  <2>2. ASSUME tx' = [tx EXCEPT ![m].phase = "resp", ![m].ok = TRUE]
        PROVE  MovesOn(m)
    <3> DEFINE u == [tx[m] EXCEPT !.phase = "resp", !.ok = TRUE]
    <3>1. WellFormed(u)
      BY <1>1 DEF WellFormed, Tx, Phases
    <3>2. SameTx(u, tx[m])
      BY <1>2 DEF SameTx, Tx
    <3>3. tx' = [tx EXCEPT ![m] = u]
      BY <2>2
    <3> HIDE DEF u
    <3>4. QED
      BY <3>1, <3>2, <3>3 DEF MovesOn
  <2>3. QED
    BY <2>1, <2>2 DEF Accept
<1>4. older' \in SUBSET (Masters \X Masters)
  BY DEF Accept, Behind, InPhase, IcnTypeOK
<1>5. overlap' \in [Caches -> [Lines -> Seq(Masters)]]
  <2>1. overlap \in [Caches -> [Lines -> Seq(Masters)]]
    BY DEF IcnTypeOK
  <2>2. CASE UNCHANGED overlap
    BY <2>1, <2>2
  <2>3. CASE m \in Caches /\ overlap' = [overlap EXCEPT ![m][l] = Append(@, m)]
    <3> DEFINE q == Append(overlap[m][l], m)
    <3>1. q \in Seq(Masters)
      BY <1>1, <2>1, <2>3, AppendProperties
    <3>2. overlap' = [overlap EXCEPT ![m][l] = q]
      BY <2>3
    <3> HIDE DEF q, l
    <3>3. QED
      BY <1>1, <2>1, <2>3, <3>1, <3>2
  <2>4. QED
    BY <2>2, <2>3 DEF Accept
<1>6. downstream' \in Seq(DsEntry)
  <2> DEFINE e == [m |-> m, line |-> l, own |-> TRUE]
  <2>1. e \in DsEntry /\ downstream \in Seq(DsEntry)
    BY <1>1 DEF DsEntry, IcnTypeOK
  <2>2. UNCHANGED downstream \/ downstream' = Append(downstream, e)
    BY DEF Accept
  <2> HIDE DEF e
  <2>3. QED
    BY <2>1, <2>2, AppendProperties
<1>7. UNCHANGED <<snoop, snoopDone, memory, posSet, posLock>>
  BY DEF Accept
<1>8. QED
  BY <1>3, <1>4, <1>5, <1>6, <1>7, MovesOnTypes DEF IcnTypeOK

\* handle_exclusive touches only the monitor at the point of serialization.
LEMMA ExclusiveTypes ==
    ASSUME IcnTypeOK, NEW m \in Masters, handle_exclusive(m)
    PROVE  posSet' \in [Caches -> BOOLEAN] /\ posLock' \in BOOLEAN
<1>1. posSet \in [Caches -> BOOLEAN] /\ posLock \in BOOLEAN
  BY DEF IcnTypeOK
<1>2. [posSet EXCEPT ![m] = @ \/ ~posLock] \in [Caches -> BOOLEAN]
  BY <1>1
<1>3. [c \in Caches |-> c = m] \in [Caches -> BOOLEAN]
  OBVIOUS
<1>4. QED
  BY <1>1, <1>2, <1>3 DEF handle_exclusive

\* The engine answers a transaction that fails, or starts to snoop for it.
LEMMA EngineFailTypes ==
    ASSUME IcnTypeOK, NEW m \in Masters, EngineFail(m)
    PROVE  IcnTypeOK' /\ Completed(m, [tx[m] EXCEPT !.ok = TRUE])
<1> DEFINE t == [tx[m] EXCEPT !.ok = TRUE]
<1>1. WellFormed(t)
  BY TxOf DEF WellFormed, Tx
<1>2. Complete(m, t) /\ handle_exclusive(m)
      /\ UNCHANGED <<snoop, snoopDone, downstream, memory>>
  BY DEF EngineFail
<1> HIDE DEF t
<1>3. Completed(m, t) /\ (\A x \in Masters : WellFormed(tx'[x]))
      /\ older' \in SUBSET (Masters \X Masters)
      /\ overlap' \in [Caches -> [Lines -> Seq(Masters)]]
  BY <1>1, <1>2, CompleteParts
<1>4. IcnTypeOK'
  BY <1>2, <1>3, ExclusiveTypes DEF IcnTypeOK, WellFormed, Completed
<1>5. QED
  BY <1>3, <1>4 DEF t

LEMMA NoSnoopType == NoSnoop \in Snoop
<1>1. BlankLine \in LineData
  BY ProtocolAssumption DEF BlankLine, LineData
<1>2. BlankAnswer \in Answer
  BY <1>1 DEF BlankAnswer, Answer
<1>3. [c \in Caches |-> BlankAnswer] \in [Caches -> Answer]
  BY <1>2
<1>4. QED
  BY <1>1, <1>3 DEF NoSnoop, Snoop

LEMMA EngineSnoopTypes ==
    ASSUME IcnTypeOK, NEW m \in Masters, EngineSnoop(m), tx[m].rng # {}
    PROVE  IcnTypeOK' /\ \A x \in Masters : SameTx(tx'[x], tx[x])
<1> DEFINE ports == Caches \ {m}
           lines == LinesOf(tx[m].rng)
           start == [NoSnoop EXCEPT !.sent = ports, !.exec = tx[m].kind = "ReadOnce"]
           l0 == CHOOSE l \in lines : TRUE
<1>1. WellFormed(tx[m]) /\ tx[m].phase = "engine" /\ tx[m] \in Tx
  BY TxOf DEF EngineSnoop, EngineHead, InPhase, WellFormed
<1>2. l0 \in Lines
  <2>1. lines # {} /\ lines \subseteq Lines
    BY TxOf DEF LinesOf
  <2>2. QED
    BY <2>1
<1>3. /\ tx' = [tx EXCEPT ![m].phase = "snoop", ![m].exokay = tx[m].excl]
      /\ older' = Forget({m})
      /\ snoop' = [snoop EXCEPT ![m] = [l \in Lines |-> IF l \in lines THEN start ELSE @[l]]]
      /\ overlap' = [c \in Caches |-> [l \in Lines |->
                        IF c \in ports /\ l \in lines
                        THEN Append(overlap[c][l], m) ELSE overlap[c][l]]]
      /\ snoopDone' = IF ports = {} THEN Append(snoopDone, <<m, l0>>) ELSE snoopDone
      /\ handle_exclusive(m) /\ UNCHANGED <<downstream, memory>>
  BY DEF EngineSnoop
<1>4. start \in Snoop
  <2> DEFINE exec == tx[m].kind = "ReadOnce"
  <2>1. exec \in BOOLEAN
    OBVIOUS
  <2> HIDE DEF exec
  <2>2. [NoSnoop EXCEPT !.sent = ports, !.exec = exec] \in Snoop
    BY <2>1, NoSnoopType DEF Snoop
  <2>3. QED
    BY <2>2 DEF exec
<1>5. MovesOn(m)
  <2> DEFINE u == [tx[m] EXCEPT !.phase = "snoop", !.exokay = tx[m].excl]
  <2>1. WellFormed(u)
    BY <1>1 DEF WellFormed, Tx, Phases
  <2>2. SameTx(u, tx[m])
    BY <1>1 DEF SameTx, Tx
  <2>3. tx' = [tx EXCEPT ![m] = u]
    BY <1>3
  <2> HIDE DEF u
  <2>4. QED
    BY <2>1, <2>2, <2>3 DEF MovesOn
<1> HIDE DEF start, l0
<1>6. snoop' \in [Masters -> [Lines -> Snoop]]
  <2> DEFINE f == [l \in Lines |-> IF l \in lines THEN start ELSE snoop[m][l]]
  <2>1. snoop \in [Masters -> [Lines -> Snoop]]
    BY DEF IcnTypeOK
  <2>2. f \in [Lines -> Snoop]
    BY <1>4, <2>1
  <2>3. snoop' = [snoop EXCEPT ![m] = f]
    BY <1>3
  <2> HIDE DEF f
  <2>4. QED
    BY <2>1, <2>2, <2>3
<1>7. overlap' \in [Caches -> [Lines -> Seq(Masters)]]
  <2>1. \A c \in Caches, l \in Lines : overlap[c][l] \in Seq(Masters)
    BY DEF IcnTypeOK
  <2>2. \A c \in Caches, l \in Lines : Append(overlap[c][l], m) \in Seq(Masters)
    BY <2>1, AppendProperties
  <2>3. QED
    BY <1>3, <2>1, <2>2
<1>8. snoopDone' \in Seq(Masters \X Lines)
  BY <1>2, <1>3, AppendProperties DEF IcnTypeOK
<1>9. older' \in SUBSET (Masters \X Masters)
  BY <1>3 DEF Forget, IcnTypeOK
<1>10. tx' \in [Masters -> Tx] /\ (\A x \in Masters : tx'[x].data \in [tx'[x].rng -> Values])
       /\ \A x \in Masters : SameTx(tx'[x], tx[x])
  BY <1>5, MovesOnTypes
<1>11. posSet' \in [Caches -> BOOLEAN] /\ posLock' \in BOOLEAN
  BY <1>3, ExclusiveTypes
<1>12. QED
  BY <1>3, <1>6, <1>7, <1>8, <1>9, <1>10, <1>11 DEF IcnTypeOK

\* A snoop is answered, and the answer merged.
LEMMA SnoopAnsweredTypes ==
    ASSUME IcnTypeOK, NEW m \in Masters, NEW l \in Lines, NEW c \in Caches,
           NEW a \in Answer, SnoopAnswered(m, l, c, a)
    PROVE  IcnTypeOK' /\ UNCHANGED tx
<1> DEFINE s == snoop[m][l]
           s2 == [s EXCEPT !.sent = s.sent \ {c}, !.back = s.back \cup {c}, !.ans[c] = a]
<1>1. snoop \in [Masters -> [Lines -> Snoop]] /\ s \in Snoop
  BY DEF IcnTypeOK
<1>2. s2 \in Snoop
  BY <1>1 DEF Snoop
<1>3. snoop' = [snoop EXCEPT ![m][l] = s2]
  BY DEF SnoopAnswered
<1>4. UNCHANGED <<tx, older, snoopDone, downstream, overlap, memory, posSet, posLock>>
  BY DEF SnoopAnswered
<1> HIDE DEF s2, s
<1>5. snoop' \in [Masters -> [Lines -> Snoop]]
  BY <1>1, <1>2, <1>3
<1>6. QED
  BY <1>4, <1>5 DEF IcnTypeOK

\* snoop_master_thread merges an answer into the transaction it is for.
LEMMA PortDoneTypes ==
    ASSUME IcnTypeOK, NEW m \in Masters, NEW l \in Lines, NEW c \in Caches,
           PortDone(m, l, c)
    PROVE  /\ IcnTypeOK'
           /\ \A x \in Masters \ {m} : tx'[x] = tx[x]
           /\ SameTx(tx'[m], tx[m])
           /\ tx'[m].phase = tx[m].phase /\ tx'[m].segs = tx[m].segs
           /\ tx'[m].exokay = tx[m].exokay
           /\ tx'[m].shared = (tx[m].shared \/ snoop[m][l].ans[c].shared)
           /\ tx'[m].dirty = (tx[m].dirty \/
                  (/\ snoop[m][l].ans[c].xfer /\ snoop[m][l].ans[c].dirty
                   /\ AllowPassDirty(tx[m].kind)))
           /\ snoop'[m][l].sent = snoop[m][l].sent
           /\ snoop'[m][l].back = snoop[m][l].back \ {c}
           /\ \A d \in Caches \ {c} : snoop'[m][l].ans[d] = snoop[m][l].ans[d]
           /\ \A x \in Masters, k \in Lines :
                 x # m \/ k # l => snoop'[x][k] = snoop[x][k]
<1> DEFINE t == tx[m]
           s == snoop[m][l]
           a == s.ans[c]
           shared == t.shared \/ a.shared
           dirty == t.dirty \/ (a.xfer /\ a.dirty /\ AllowPassDirty(t.kind))
           ok == t.ok \/ AnsweredBySnoop(t.kind, a)
           merged == [t EXCEPT !.shared = shared, !.dirty = dirty, !.ok = ok]
           u == IF a.xfer /\ t.kind \in ReadKinds THEN CopyLine(merged, l, a.data)
                                                  ELSE merged
           exec == NeedsDownstream(s.exec, t.kind, a)
           data == IF MustClean(t.kind, a) THEN a.data ELSE s.data
           s2 == [s EXCEPT !.back = s.back \ {c}, !.ans[c] = BlankAnswer,
                           !.exec = exec, !.data = data]
<1>1. WellFormed(t) /\ t \in Tx /\ s \in Snoop /\ a \in Answer
      /\ tx \in [Masters -> Tx] /\ snoop \in [Masters -> [Lines -> Snoop]]
  BY TxOf DEF IcnTypeOK, WellFormed, Snoop
<1>2. /\ tx' = [tx EXCEPT ![m] = u]
      /\ snoop' = [snoop EXCEPT ![m][l] = s2]
      /\ snoopDone' = IF s.sent = {} /\ s.back = {c}
                      THEN Append(snoopDone, <<m, l>>) ELSE snoopDone
      /\ overlap' = [overlap EXCEPT ![c][l] = Without(@, m)]
      /\ UNCHANGED <<older, downstream, memory, posSet, posLock>>
  BY DEF PortDone
<1>3. shared \in BOOLEAN /\ dirty \in BOOLEAN /\ ok \in BOOLEAN /\ exec \in BOOLEAN
  BY <1>1 DEF Tx, Answer, Snoop, AllowPassDirty, AnsweredBySnoop, NeedsDownstream, MustClean
<1>4. data \in LineData
  BY <1>1 DEF Answer, Snoop
<1> HIDE DEF exec, data
<1>5. s2 \in Snoop
  <2>1. BlankAnswer \in Answer
    BY NoSnoopType DEF NoSnoop, Snoop
  <2>2. QED
    BY <1>1, <1>3, <1>4, <2>1 DEF Snoop
<1>6. /\ s2.sent = s.sent /\ s2.back = s.back \ {c}
      /\ \A d \in Caches \ {c} : s2.ans[d] = s.ans[d]
  BY <1>1 DEF Snoop
<1> HIDE DEF s2
<1>7. snoop' \in [Masters -> [Lines -> Snoop]] /\ snoop'[m][l] = s2
      /\ \A x \in Masters, k \in Lines : x # m \/ k # l => snoop'[x][k] = snoop[x][k]
  BY <1>1, <1>2, <1>5
<1> HIDE DEF shared, dirty, ok
<1>8. /\ WellFormed(merged)
      /\ merged = [t EXCEPT !.shared = shared, !.dirty = dirty, !.ok = ok]
  BY <1>1, <1>3, AnsweredTx
<1>9. /\ merged.kind = t.kind /\ merged.rng = t.rng /\ merged.excl = t.excl
      /\ merged.exokay = t.exokay /\ merged.phase = t.phase /\ merged.segs = t.segs
      /\ merged.shared = shared /\ merged.dirty = dirty
  BY <1>1 DEF Tx
<1> HIDE DEF merged
<1>10. /\ WellFormed(u)
       /\ u.kind = t.kind /\ u.rng = t.rng /\ u.excl = t.excl
       /\ u.exokay = t.exokay /\ u.phase = t.phase /\ u.segs = t.segs
       /\ u.shared = shared /\ u.dirty = dirty
  <2>1. CASE ~(a.xfer /\ t.kind \in ReadKinds)
    BY <1>8, <1>9, <2>1
  <2>2. CASE a.xfer /\ t.kind \in ReadKinds
    <3> DEFINE d == [x \in merged.rng |-> IF x[1] = l THEN a.data[x[2]] ELSE merged.data[x]]
    <3>1. u = [merged EXCEPT !.data = d]
      BY <2>2 DEF CopyLine
    <3>2. d \in [merged.rng -> Values]
      BY <1>1, <1>8 DEF WellFormed, Tx, Addr, Answer, LineData
    <3>3. merged \in Tx /\ merged.rng \in SUBSET Addr
      BY <1>8 DEF WellFormed, Tx
    <3> HIDE DEF d
    <3>4. d \in RangeData
      BY <3>2, <3>3, DataOfRange
    <3>5. u \in Tx /\ u.rng = merged.rng /\ u.data = d
      BY <3>1, <3>3, <3>4 DEF Tx
    <3>6. QED
      BY <1>9, <3>1, <3>2, <3>3, <3>5 DEF WellFormed, Tx
  <2>3. QED
    BY <2>1, <2>2
<1> HIDE DEF u
<1>11. SameTx(u, tx[m]) /\ tx'[m] = u /\ \A x \in Masters \ {m} : tx'[x] = tx[x]
  BY <1>1, <1>2, <1>10 DEF SameTx
<1>12. MovesOn(m)
  BY <1>2, <1>10, <1>11 DEF MovesOn
<1>13. snoopDone' \in Seq(Masters \X Lines)
  BY <1>2, AppendProperties DEF IcnTypeOK
<1>14. overlap' \in [Caches -> [Lines -> Seq(Masters)]]
  <2> DEFINE q == Without(overlap[c][l], m)
  <2>1. q \in Seq(Masters)
    BY WithoutType DEF IcnTypeOK
  <2>2. overlap' = [overlap EXCEPT ![c][l] = q]
    BY <1>2
  <2> HIDE DEF q
  <2>3. QED
    BY <2>1, <2>2 DEF IcnTypeOK
<1>15. IcnTypeOK'
  BY <1>2, <1>7, <1>12, <1>13, <1>14, MovesOnTypes DEF IcnTypeOK
<1>16. QED
  BY <1>6, <1>7, <1>10, <1>11, <1>15 DEF shared, dirty

\* What is done stays the transaction it was.
LEMMA CompletedSame ==
    ASSUME IcnTypeOK, NEW m \in Masters, NEW t, WellFormed(t), SameTx(t, tx[m]),
           tx[m].phase # "idle", Completed(m, t)
    PROVE  /\ \A x \in Masters : SameTx(tx'[x], tx[x])
           /\ tx'[m].phase = "resp" /\ tx'[m].segs = t.segs /\ SameAnswer(tx'[m], t)
           /\ \A x \in Masters \ {m} : tx'[x].segs = tx[x].segs /\ SameAnswer(tx'[x], tx[x])
<1>1. tx'[m].kind = t.kind /\ tx'[m].rng = t.rng /\ tx'[m].phase = "resp"
      /\ tx'[m].excl = t.excl /\ tx'[m].exokay = t.exokay /\ tx'[m].segs = t.segs
      /\ tx'[m].shared = t.shared /\ tx'[m].dirty = t.dirty
  BY DEF Completed, WellFormed, Tx
<1>2. SameTx(tx'[m], tx[m])
  BY <1>1 DEF SameTx
<1>3. ASSUME NEW x \in Masters \ {m}
      PROVE  /\ SameTx(tx'[x], tx[x])
             /\ tx'[x].segs = tx[x].segs /\ SameAnswer(tx'[x], tx[x])
  <2>1. tx[x] \in Tx
    BY DEF IcnTypeOK
  <2>2. CASE tx'[x] = tx[x]
    BY <2>2 DEF SameTx, SameAnswer
  <2>3. CASE tx[x].phase = "stalled" /\ tx'[x] = [tx[x] EXCEPT !.phase = "engine"]
    BY <2>1, <2>3 DEF SameTx, SameAnswer, Tx
  <2>4. QED
    BY <2>2, <2>3 DEF Completed
<1>4. QED
  BY <1>1, <1>2, <1>3 DEF SameAnswer

\* The lines that a transaction, t, still snoops for once line l is done.
Left(t, l) == IF Segmented(t.kind) THEN t.segs \ {l} ELSE {}

\* The ways in which finalize_snoop_tr ends.
Finalized(m, l, t, q) ==
    /\ SameTx(tx'[m], t) /\ SameAnswer(tx'[m], t) /\ tx'[m].segs = Left(t, l)
    /\ \/ /\ Left(t, l) # {}
          /\ tx'[m].phase = t.phase
          /\ \A x \in Masters \ {m} : tx'[x] = tx[x]
          /\ downstream' = q
          /\ UNCHANGED <<older, overlap>>
       \/ /\ Left(t, l) = {}
          /\ \E u : WellFormed(u) /\ SameTx(u, t) /\ SameAnswer(u, t) /\ Complete(m, u)
          /\ downstream' = q
       \/ /\ Left(t, l) = {}
          /\ tx'[m].phase = "ds"
          /\ \A x \in Masters \ {m} : tx'[x] = tx[x]
          /\ downstream' = Append(q, [m |-> m, line |-> l, own |-> TRUE])
          /\ UNCHANGED <<older, overlap>>

LEMMA FinalizeTypes ==
    ASSUME IcnTypeOK, NEW m \in Masters, NEW l \in Lines, NEW t, WellFormed(t),
           SameTx(t, tx[m]), tx[m].phase # "idle", NEW q \in Seq(DsEntry),
           finalize_snoop_tr(m, l, t, q)
    PROVE  /\ Finalized(m, l, t, q)
           /\ \A x \in Masters : SameTx(tx'[x], tx[x])
           /\ tx' \in [Masters -> Tx] /\ \A x \in Masters : WellFormed(tx'[x])
           /\ snoop' = [snoop EXCEPT ![m][l] = NoSnoop]
           /\ older' \in SUBSET (Masters \X Masters)
           /\ overlap' \in [Caches -> [Lines -> Seq(Masters)]]
           /\ downstream' \in Seq(DsEntry)
<1> DEFINE left == IF Segmented(t.kind) THEN t.segs \ {l} ELSE {}
           ok == t.ok \/ (t.kind = "ReadOnce" /\ left = {})
           t2 == [t EXCEPT !.segs = left, !.ok = ok]
           own == [m |-> m, line |-> l, own |-> TRUE]
<1>1. t \in Tx /\ t.data \in [t.rng -> Values]
  BY DEF WellFormed
<1>2. left \in SUBSET Lines /\ ok \in BOOLEAN /\ left = Left(t, l)
  BY <1>1 DEF Tx, Left
<1>3. /\ snoop' = [snoop EXCEPT ![m][l] = NoSnoop]
      /\ \/ /\ left # {}
            /\ tx' = [tx EXCEPT ![m] = t2]
            /\ downstream' = q
            /\ UNCHANGED <<older, overlap>>
         \/ /\ left = {} /\ t2.ok
            /\ Complete(m, t2)
            /\ downstream' = q
         \/ /\ left = {} /\ ~t2.ok
            /\ tx' = [tx EXCEPT ![m] = [t2 EXCEPT !.phase = "ds"]]
            /\ downstream' = Append(q, own)
            /\ UNCHANGED <<older, overlap>>
  BY DEF finalize_snoop_tr
<1> HIDE DEF left, ok
<1>4. /\ WellFormed(t2) /\ t2.segs = left
      /\ SameTx(t2, t) /\ SameAnswer(t2, t) /\ t2.phase = t.phase
  BY <1>1, <1>2 DEF WellFormed, Tx, SameTx, SameAnswer
<1> HIDE DEF t2
<1>5. SameTx(t2, tx[m])
  BY <1>4 DEF SameTx
<1>6. tx \in [Masters -> Tx] /\ own \in DsEntry
      /\ older \in SUBSET (Masters \X Masters)
      /\ overlap \in [Caches -> [Lines -> Seq(Masters)]]
      /\ \A x \in Masters : tx[x].data \in [tx[x].rng -> Values]
  BY DEF IcnTypeOK, DsEntry
<1>7. CASE left # {} /\ tx' = [tx EXCEPT ![m] = t2] /\ downstream' = q
           /\ UNCHANGED <<older, overlap>>
  <2>1. tx'[m] = t2 /\ \A x \in Masters \ {m} : tx'[x] = tx[x]
    BY <1>6, <1>7
  <2>2. Finalized(m, l, t, q)
    BY <1>2, <1>4, <1>7, <2>1 DEF Finalized
  <2>3. MovesOn(m)
    BY <1>4, <1>5, <1>7 DEF MovesOn
  <2>4. QED
    BY <1>3, <1>6, <1>7, <2>2, <2>3, MovesOnTypes DEF WellFormed
<1>8. CASE left = {} /\ Complete(m, t2) /\ downstream' = q
  <2>1. /\ Completed(m, t2) /\ \A x \in Masters : WellFormed(tx'[x])
        /\ older' \in SUBSET (Masters \X Masters)
        /\ overlap' \in [Caches -> [Lines -> Seq(Masters)]]
    BY <1>4, <1>8, CompleteParts
  <2>2. (\A x \in Masters : SameTx(tx'[x], tx[x]))
        /\ tx'[m].segs = left /\ SameAnswer(tx'[m], t2)
    BY <1>4, <1>5, <2>1, CompletedSame
  <2>3. SameTx(tx'[m], t)
    BY <2>1, <1>1, <1>4 DEF Completed, SameTx, WellFormed, Tx
  <2>4. SameAnswer(tx'[m], t)
    BY <1>4, <2>2 DEF SameAnswer
  <2>5. \E u : WellFormed(u) /\ SameTx(u, t) /\ SameAnswer(u, t) /\ Complete(m, u)
    BY <1>4, <1>8
  <2>6. Finalized(m, l, t, q)
    BY <1>2, <1>8, <2>2, <2>3, <2>4, <2>5 DEF Finalized
  <2>7. QED
    BY <1>3, <1>8, <2>1, <2>2, <2>6 DEF Completed
<1>9. CASE left = {} /\ tx' = [tx EXCEPT ![m] = [t2 EXCEPT !.phase = "ds"]]
           /\ downstream' = Append(q, own) /\ UNCHANGED <<older, overlap>>
  <2> DEFINE u == [t2 EXCEPT !.phase = "ds"]
  <2>1. WellFormed(u)
    BY <1>4, PhasedTx DEF Phases
  <2>2. /\ SameTx(u, t2) /\ SameAnswer(u, t2) /\ u.segs = left /\ u.phase = "ds"
    BY <1>4, <1>5 DEF WellFormed, Tx, SameTx, SameAnswer
  <2>3. tx' = [tx EXCEPT ![m] = u]
    BY <1>9
  <2> HIDE DEF u
  <2>4. tx'[m] = u /\ \A x \in Masters \ {m} : tx'[x] = tx[x]
    BY <1>6, <2>3
  <2>5. SameTx(u, t) /\ SameAnswer(u, t) /\ SameTx(u, tx[m])
    BY <1>4, <1>5, <2>2 DEF SameTx, SameAnswer
  <2>6. Finalized(m, l, t, q)
    BY <1>2, <1>9, <2>2, <2>4, <2>5 DEF Finalized
  <2>7. MovesOn(m)
    BY <2>1, <2>3, <2>5 DEF MovesOn
  <2>8. QED
    BY <1>3, <1>6, <1>9, <2>6, <2>7, MovesOnTypes, AppendProperties DEF WellFormed
<1>10. QED
  BY <1>3, <1>7, <1>8, <1>9

\* Another payload of the transaction: only its data and its ok differ.
Refilled(t, m) ==
    /\ WellFormed(t) /\ SameTx(t, tx[m]) /\ SameAnswer(t, tx[m])
    /\ t.phase = tx[m].phase /\ t.segs = tx[m].segs

LEMMA RefilledSelf ==
    ASSUME IcnTypeOK, NEW m \in Masters
    PROVE  Refilled(tx[m], m)
  BY TxOf DEF Refilled, SameTx, SameAnswer

LEMMA HeadIn ==
    ASSUME NEW S, NEW q \in Seq(S), q # <<>>
    PROVE  Head(q) \in S /\ Tail(q) \in Seq(S)
  BY HeadTailProperties

\* snoop_done_thread takes the head of its fifo.
LEMMA SnoopDoneTypes ==
    ASSUME IcnTypeOK, SnoopDone, tx[Head(snoopDone)[1]].phase # "idle"
    PROVE  /\ IcnTypeOK' /\ \A x \in Masters : SameTx(tx'[x], tx[x])
           /\ Head(snoopDone) \in Masters \X Lines
           /\ \/ /\ snoop[Head(snoopDone)[1]][Head(snoopDone)[2]].exec
                 /\ downstream' = Append(downstream, [m |-> Head(snoopDone)[1],
                                                      line |-> Head(snoopDone)[2],
                                                      own |-> FALSE])
                 /\ UNCHANGED <<tx, older, snoop, overlap>>
              \/ /\ Finalized(Head(snoopDone)[1], Head(snoopDone)[2],
                              tx[Head(snoopDone)[1]], downstream)
                 /\ snoop' = [snoop EXCEPT ![Head(snoopDone)[1]][Head(snoopDone)[2]] =
                                 NoSnoop]
<1> DEFINE m == Head(snoopDone)[1]
           l == Head(snoopDone)[2]
           e == [m |-> m, line |-> l, own |-> FALSE]
<1>1. /\ Head(snoopDone) \in Masters \X Lines
      /\ Tail(snoopDone) \in Seq(Masters \X Lines)
      /\ snoopDone' = Tail(snoopDone)
  BY HeadIn DEF SnoopDone, IcnTypeOK
<1>2. m \in Masters /\ l \in Lines
  BY <1>1
<1>3. /\ UNCHANGED <<memory, posSet, posLock>>
      /\ \/ /\ snoop[m][l].exec
            /\ downstream' = Append(downstream, e)
            /\ UNCHANGED <<tx, older, snoop, overlap>>
         \/ finalize_snoop_tr(m, l, tx[m], downstream)
  BY DEF SnoopDone
<1>4. e \in DsEntry /\ downstream \in Seq(DsEntry)
  BY <1>2 DEF DsEntry, IcnTypeOK
<1>5. CASE /\ snoop[m][l].exec
           /\ downstream' = Append(downstream, e)
           /\ UNCHANGED <<tx, older, snoop, overlap>>
  <2>1. downstream' \in Seq(DsEntry)
    BY <1>4, <1>5, AppendProperties
  <2>2. IcnTypeOK' /\ \A x \in Masters : SameTx(tx'[x], tx[x])
    BY <1>1, <1>3, <1>5, <2>1 DEF IcnTypeOK, SameTx
  <2>3. QED
    BY <1>1, <1>5, <2>2
<1>6. CASE finalize_snoop_tr(m, l, tx[m], downstream)
  <2>1. WellFormed(tx[m]) /\ SameTx(tx[m], tx[m]) /\ tx[m].phase # "idle"
    BY <1>2, RefilledSelf DEF Refilled
  <2> HIDE DEF m, l
  <2>2. /\ Finalized(m, l, tx[m], downstream)
        /\ \A x \in Masters : SameTx(tx'[x], tx[x])
        /\ tx' \in [Masters -> Tx] /\ \A x \in Masters : WellFormed(tx'[x])
        /\ snoop' = [snoop EXCEPT ![m][l] = NoSnoop]
        /\ older' \in SUBSET (Masters \X Masters)
        /\ overlap' \in [Caches -> [Lines -> Seq(Masters)]]
        /\ downstream' \in Seq(DsEntry)
    BY <1>2, <1>4, <1>6, <2>1, FinalizeTypes
  <2>3. snoop' \in [Masters -> [Lines -> Snoop]]
    BY <1>2, <2>2, NoSnoopType DEF IcnTypeOK
  <2>4. IcnTypeOK'
    BY <1>1, <1>3, <2>2, <2>3 DEF IcnTypeOK, WellFormed
  <2>5. QED
    BY <1>1, <2>2, <2>4 DEF m, l
<1>7. QED
  BY <1>3, <1>5, <1>6

\* downstream_port_thread runs the transaction at the head of its fifo, and
\* it is done.
LEMMA DsOwnTypes ==
    ASSUME IcnTypeOK, DsOwn, tx[Head(downstream).m].phase # "idle"
    PROVE  /\ IcnTypeOK' /\ \A x \in Masters : SameTx(tx'[x], tx[x])
           /\ Head(downstream) \in DsEntry
           /\ \E t : Refilled(t, Head(downstream).m) /\ Complete(Head(downstream).m, t)
<1> DEFINE m == Head(downstream).m
           data == IF IsReadTx(tx[m].kind) THEN ReadBySlave(tx[m]) ELSE tx[m].data
           t == [tx[m] EXCEPT !.ok = TRUE, !.data = data]
<1>1. Head(downstream) \in DsEntry /\ Tail(downstream) \in Seq(DsEntry)
      /\ downstream' = Tail(downstream)
  BY HeadIn DEF DsOwn, IcnTypeOK
<1>2. m \in Masters
  BY <1>1 DEF DsEntry
<1>3. /\ memory' = IF IsWriteTx(tx[m].kind)
                  THEN [a \in Addr |-> IF a \in tx[m].rng THEN tx[m].data[a]
                                                          ELSE memory[a]]
                  ELSE memory
      /\ Complete(m, t)
      /\ UNCHANGED <<snoop, snoopDone, posSet, posLock>>
  BY DEF DsOwn
<1>4. WellFormed(tx[m]) /\ tx[m] \in Tx /\ tx[m].data \in [tx[m].rng -> Values]
      /\ tx[m].rng \in SUBSET Addr /\ memory \in [Addr -> Values]
  BY <1>2, TxOf DEF IcnTypeOK, Tx, WellFormed
<1>5. data \in [tx[m].rng -> Values] /\ data \in RangeData
  <2>1. data \in [tx[m].rng -> Values]
    BY <1>4 DEF ReadBySlave
  <2> HIDE DEF data
  <2>2. QED
    BY <1>4, <2>1, DataOfRange
<1> HIDE DEF data
<1>6. Refilled(t, m)
  BY <1>2, <1>4, <1>5 DEF Refilled, WellFormed, Tx, SameTx, SameAnswer
<1>7. memory' \in [Addr -> Values]
  BY <1>3, <1>4
<1> HIDE DEF t
<1>8. WellFormed(t) /\ SameTx(t, tx[m]) /\ tx[m].phase # "idle"
  BY <1>6 DEF Refilled
<1> HIDE DEF m
<1>9. /\ Completed(m, t) /\ \A x \in Masters : WellFormed(tx'[x])
      /\ older' \in SUBSET (Masters \X Masters)
      /\ overlap' \in [Caches -> [Lines -> Seq(Masters)]]
  BY <1>2, <1>3, <1>8, CompleteParts
<1>10. \A x \in Masters : SameTx(tx'[x], tx[x])
  BY <1>2, <1>8, <1>9, CompletedSame
<1>11. IcnTypeOK'
  BY <1>1, <1>3, <1>7, <1>9 DEF IcnTypeOK, WellFormed, Completed
<1>12. QED
  BY <1>1, <1>3, <1>6, <1>10, <1>11 DEF m

\* exec_snoop_downstream_gp, run for one line of the transaction at the head.
LEMMA DsSnoopTypes ==
    ASSUME IcnTypeOK, DsSnoop, tx[Head(downstream).m].phase # "idle"
    PROVE  /\ IcnTypeOK' /\ \A x \in Masters : SameTx(tx'[x], tx[x])
           /\ Head(downstream) \in DsEntry
           /\ snoop' = [snoop EXCEPT ![Head(downstream).m][Head(downstream).line] = NoSnoop]
           /\ \E t : /\ Refilled(t, Head(downstream).m)
                     /\ Finalized(Head(downstream).m, Head(downstream).line, t,
                                  Tail(downstream))
<1> DEFINE m == Head(downstream).m
           l == Head(downstream).line
           d == [x \in tx[m].rng |-> IF x[1] = l THEN ToLine(memory, l)[x[2]]
                                                 ELSE tx[m].data[x]]
           cp == [tx[m] EXCEPT !.data = d]
           t == IF tx[m].kind = "ReadOnce" THEN cp ELSE tx[m]
<1>1. Head(downstream) \in DsEntry /\ Tail(downstream) \in Seq(DsEntry)
  BY HeadIn DEF DsSnoop, IcnTypeOK
<1>2. m \in Masters /\ l \in Lines
  BY <1>1 DEF DsEntry
<1>3. cp = CopyLine(tx[m], l, ToLine(memory, l))
  BY DEF CopyLine
<1>4. /\ finalize_snoop_tr(m, l, t, Tail(downstream))
      /\ memory' = IF tx[m].kind = "ReadOnce" THEN memory
                   ELSE [a \in Addr |-> IF a[1] = l THEN snoop[m][l].data[a[2]]
                                                    ELSE memory[a]]
      /\ UNCHANGED <<snoopDone, posSet, posLock>>
  BY <1>3 DEF DsSnoop
<1>5. WellFormed(tx[m]) /\ tx[m] \in Tx /\ tx[m].data \in [tx[m].rng -> Values]
      /\ tx[m].rng \in SUBSET Addr /\ memory \in [Addr -> Values]
      /\ snoop[m][l] \in Snoop
  BY <1>2, TxOf DEF IcnTypeOK, Tx, WellFormed
<1>6. d \in [tx[m].rng -> Values]
  BY <1>2, <1>5 DEF ToLine, Addr
<1>7. memory' \in [Addr -> Values]
  BY <1>4, <1>5 DEF Addr, Snoop, LineData
<1> HIDE DEF d
<1>8. d \in RangeData
  BY <1>5, <1>6, DataOfRange
<1>9. Refilled(cp, m)
  BY <1>5, <1>6, <1>8 DEF Refilled, WellFormed, Tx, SameTx, SameAnswer
<1> HIDE DEF cp
<1>10. Refilled(t, m)
  BY <1>2, <1>9, RefilledSelf
<1> HIDE DEF t
<1>11. WellFormed(t) /\ SameTx(t, tx[m]) /\ tx[m].phase # "idle"
  BY <1>10 DEF Refilled
<1> HIDE DEF m, l
<1>12. /\ Finalized(m, l, t, Tail(downstream))
       /\ \A x \in Masters : SameTx(tx'[x], tx[x])
       /\ tx' \in [Masters -> Tx] /\ \A x \in Masters : WellFormed(tx'[x])
       /\ snoop' = [snoop EXCEPT ![m][l] = NoSnoop]
       /\ older' \in SUBSET (Masters \X Masters)
       /\ overlap' \in [Caches -> [Lines -> Seq(Masters)]]
       /\ downstream' \in Seq(DsEntry)
  BY <1>1, <1>2, <1>4, <1>11, FinalizeTypes
<1>13. snoop' \in [Masters -> [Lines -> Snoop]]
  BY <1>2, <1>12, NoSnoopType DEF IcnTypeOK
<1>14. IcnTypeOK'
  BY <1>4, <1>7, <1>12, <1>13 DEF IcnTypeOK, WellFormed
<1>15. QED
  BY <1>1, <1>10, <1>12, <1>14 DEF m, l

\* A response is taken, and the master goes on with its next transaction.
LEMMA DeliverTypes ==
    ASSUME IcnTypeOK, NEW m \in Masters, NEW next, WellFormed(next), Deliver(m, next)
    PROVE  /\ IcnTypeOK'
           /\ tx'[m] = next /\ \A x \in Masters \ {m} : tx'[x] = tx[x]
<1>1. tx' = [tx EXCEPT ![m] = next] /\ tx \in [Masters -> Tx] /\ next \in Tx
  BY DEF Deliver, IcnTypeOK, WellFormed
<1>2. tx' \in [Masters -> Tx] /\ tx'[m] = next /\ \A x \in Masters \ {m} : tx'[x] = tx[x]
  BY <1>1
<1>3. \A x \in Masters : tx'[x].data \in [tx'[x].rng -> Values]
  BY <1>2 DEF IcnTypeOK, WellFormed
<1>4. overlap' \in [Caches -> [Lines -> Seq(Masters)]]
  <2>1. CASE m \notin Caches
    BY <2>1 DEF Deliver, IcnTypeOK
  <2>2. CASE m \in Caches
    <3> DEFINE f == [l \in Lines |-> IF l \in LinesOf(tx[m].rng)
                                     THEN Without(overlap[m][l], m) ELSE overlap[m][l]]
    <3>1. \A l \in Lines : overlap[m][l] \in Seq(Masters)
      BY <2>2 DEF IcnTypeOK
    <3>2. \A l \in Lines : Without(overlap[m][l], m) \in Seq(Masters)
      BY <3>1, WithoutType
    <3>3. f \in [Lines -> Seq(Masters)]
      BY <3>1, <3>2
    <3>4. overlap' = [overlap EXCEPT ![m] = f]
      BY <2>2 DEF Deliver
    <3> HIDE DEF f
    <3>5. QED
      BY <2>2, <3>3, <3>4 DEF IcnTypeOK
  <2>3. QED
    BY <2>1, <2>2
<1>5. QED
  BY <1>2, <1>3, <1>4 DEF Deliver, IcnTypeOK

(***************************************************************************)
(* The inductive invariant: what masters ask for.                          *)
(***************************************************************************)

\* The slot that the access of cache c works on.
LineIn(c) == get_line(c, LineOf(op[c]))

\* What cache c has issued fits its access, the line in the slot and what it
\* waits to do next.
AsksRight(c) ==
    /\ tx[c].kind # "ReadOnce"
    /\ tx[c].rng = PayloadRange(op[c], [req |-> tx[c].kind, ln |-> LineIn(c)])
    /\ tx[c].kind = "CleanUnique" => LineIn(c).tag = LineOf(op[c])
    /\ tx[c].kind \in CopyBackKinds => LineIn(c).valid
    /\ tx[c].kind \in {"WriteBack", "WriteClean"} => want[c] # "none"
    /\ tx[c].kind \notin CopyBackKinds => want[c] = "none"

Asks(m) ==
    /\ op[m] \in traffic[m]
    /\ tx[m].phase # "idle" /\ tx[m].kind \in TxKinds /\ tx[m].rng # {}
    /\ tx[m].exokay => tx[m].excl
    /\ m \in LiteMasters => tx[m].kind \in {"ReadOnce", "WriteUnique"}
    /\ m \in Caches => AsksRight(m)

\* A master has a transaction just when it serves an access.
AccessInv ==
    /\ traffic \in Traffics
    /\ \A m \in Masters :
          /\ want[m] \in WantKinds
          /\ op[m] = NoOp => tx[m].phase = "idle" /\ tx[m].kind = "none"
          /\ op[m] # NoOp => Asks(m)

\* A line is in the slot of its address.
SlotInv ==
    \A c \in Caches, i \in Slots :
        cacheline[c][i].valid => Index[cacheline[c][i].tag] = i

-----------------------------------------------------------------------------
\* An access keeps to what TrafficAssumption says of its master.
LEMMA OpFacts ==
    ASSUME NEW t \in Traffics, NEW m \in Masters, NEW o \in t[m]
    PROVE  /\ o \in Op /\ o # NoOp
           /\ m \in Caches => /\ o.rng \subseteq LineAddr(LineOf(o))
                              /\ o.kind \in CmoKinds => o.rng = LineAddr(LineOf(o))
                              /\ IsExclusive(o) => /\ m \in WriteBackCaches
                                                   /\ LineOf(o) \notin NonShareable
           /\ m \in LiteMasters => o.kind \in {"Load", "Store"}
<1>1. t \in [Masters -> SUBSET Op]
  BY TrafficAssumption
<1>2. o \in Op /\ o # NoOp
  BY <1>1, AccessFacts
<1>3. QED
  BY <1>2, TrafficAssumption DEF FullLine

LEMMA LineAddrFacts ==
    ASSUME NEW l \in Lines
    PROVE  LineAddr(l) # {} /\ LineAddr(l) \subseteq Addr /\ LinesOf(LineAddr(l)) = {l}
<1>1. 0 \in Words
  BY ProtocolAssumption DEF Words
<1>2. <<l, 0>> \in LineAddr(l) /\ LineAddr(l) \subseteq Addr
  BY <1>1 DEF LineAddr, Addr
<1>3. \A a \in LineAddr(l) : a[1] = l
  BY DEF LineAddr
<1>4. LinesOf(LineAddr(l)) = {l}
  BY <1>2, <1>3 DEF LinesOf
<1>5. QED
  BY <1>2, <1>4

\* Data for the addresses of a range.
DataFor(d, rng) == d \in [rng -> Values]

\* The transaction of an outcome.
LEMMA NextTxParts ==
    ASSUME NEW o \in Op, NEW r \in Result, r.req # "none"
    PROVE  /\ WellFormed(NextTx(o, r)) /\ NextTx(o, r).phase = "req"
           /\ NextTx(o, r).kind = r.req
           /\ NextTx(o, r).rng = PayloadRange(o, r) /\ NextTx(o, r).rng # {}
           /\ NextTx(o, r).excl = Exclusive(o, r)
           /\ ~NextTx(o, r).exokay /\ ~NextTx(o, r).dirty
           /\ NextTx(o, r).segs = LinesOf(PayloadRange(o, r))
<1> DEFINE rng == PayloadRange(o, r)
           d == PayloadData(o, r)
           excl == Exclusive(o, r)
<1>1. r.req \in TxKinds /\ r.ln \in CacheLine
  BY DEF Result
<1>2. rng \in SUBSET Addr /\ rng # {}
  BY <1>1, AccessFacts, LineAddrFacts DEF PayloadRange, CacheLine
<1>3. DataFor(d, rng)
  <2>1. d = [a \in rng |-> IF r.req \in {"WriteBack", "WriteClean"} THEN r.ln.data[a[2]]
                           ELSE IF IsWriteTx(r.req) THEN o.val ELSE InitValue]
    BY DEF PayloadData
  <2>2. o.val \in Values /\ InitValue \in Values
    BY AccessFacts, ProtocolAssumption
  <2>3. \A a \in Addr : r.ln.data[a[2]] \in Values
    BY <1>1 DEF CacheLine, LineData, Addr
  <2> HIDE DEF rng, d
  <2>4. QED
    BY <1>2, <2>1, <2>2, <2>3 DEF DataFor
<1>4. excl \in BOOLEAN
  BY DEF Exclusive, IsExclusive
<1>5. NextTx(o, r) = NewTx(r.req, rng, d, excl)
  BY DEF NextTx
<1> HIDE DEF rng, d, excl
<1>6. /\ WellFormed(NewTx(r.req, rng, d, excl))
      /\ NewTx(r.req, rng, d, excl).phase = "req"
      /\ NewTx(r.req, rng, d, excl).kind = r.req
      /\ NewTx(r.req, rng, d, excl).rng = rng
      /\ NewTx(r.req, rng, d, excl).excl = excl
      /\ NewTx(r.req, rng, d, excl).exokay = FALSE
      /\ NewTx(r.req, rng, d, excl).dirty = FALSE
      /\ NewTx(r.req, rng, d, excl).segs = LinesOf(rng)
  <2>1. LinesOf(rng) \in SUBSET Lines /\ d \in RangeData /\ "req" \in Phases
    BY <1>2, <1>3, DataOfRange DEF LinesOf, Addr, Phases, DataFor
  <2>2. QED
    BY <1>1, <1>2, <1>3, <1>4, <2>1 DEF NewTx, NoTx, WellFormed, Tx, DataFor
<1>7. QED
  BY <1>2, <1>5, <1>6 DEF rng, excl

LEMMA NoTxType == WellFormed(NoTx) /\ "none" \in WantKinds
<1>1. Nothing \in [{} -> Values] /\ {} \in SUBSET Addr
  BY DEF Nothing
<1>2. Nothing \in RangeData
  BY <1>1, DataOfRange
<1>3. NoTx \in Tx /\ NoTx.rng = {} /\ NoTx.data = Nothing
  BY <1>2 DEF NoTx, Tx, Phases
<1>4. QED
  BY <1>1, <1>3 DEF WellFormed, WantKinds

LEMMA SlotOf == ASSUME NEW l \in Lines PROVE Index[l] \in Slots
  BY DEF Slots

(***************************************************************************)
(* A step of the thread of cache c.                                        *)
(***************************************************************************)
LEMMA CacheStepAsks ==
    ASSUME CacheTypeOK, AccessInv, SlotInv, NEW c \in Caches, NEW o \in traffic[c],
           NEW r \in Result, WellAsked(r),
           r.req = "CleanUnique" => r.ln.tag = LineOf(o),
           r.req \in CopyBackKinds => r.ln.valid,
           r.ln.valid => Index[r.ln.tag] = Index[LineOf(o)],
           CacheStep(c, o, r), tx \in [Masters -> Tx],
           tx' = [tx EXCEPT ![c] = NextTx(o, r)], traffic' = traffic
    PROVE  CacheTypeOK' /\ AccessInv' /\ SlotInv'
<1> DEFINE i == Index[LineOf(o)]
           t == NextTx(o, r)
           p == IF r.req = "none" THEN NoOp ELSE o
<1>1. traffic \in Traffics /\ c \in Masters
  BY CachesAreMasters DEF AccessInv
<1>2. o \in Op /\ o # NoOp /\ i \in Slots /\ LineOf(o) \in Lines
  BY <1>1, OpFacts, AccessFacts, SlotOf
<1>3. /\ cacheline' = [cacheline EXCEPT ![c][i] = r.ln]
      /\ toggle' = [toggle EXCEPT ![c] = r.tog]
      /\ monitor' = [monitor EXCEPT ![c] = r.mon]
      /\ op' = [op EXCEPT ![c] = p]
      /\ want' = [want EXCEPT ![c] = r.want]
  BY DEF CacheStep
<1>4. /\ r.ln \in CacheLine /\ r.tog \in BOOLEAN /\ r.mon \in SUBSET Addr
      /\ r.want \in WantKinds /\ r.want \in TxKinds \cup {"none"}
      /\ r.req \in TxKinds \cup {"none"}
  BY KindClasses DEF Result, WantKinds
<1>5. p \in Op \cup {NoOp} /\ (p = NoOp <=> r.req = "none")
  BY <1>2
<1>6. /\ cacheline \in [Caches -> [Slots -> CacheLine]]
      /\ op \in [Masters -> Op \cup {NoOp}] /\ want \in [Masters -> TxKinds \cup {"none"}]
      /\ toggle \in [Caches -> BOOLEAN] /\ monitor \in [Caches -> SUBSET Addr]
  BY DEF CacheTypeOK
<1> HIDE DEF i, p
<1>7. CacheTypeOK'
  <2>1. cacheline' \in [Caches -> [Slots -> CacheLine]]
    BY <1>2, <1>3, <1>4, <1>6
  <2>2. toggle' \in [Caches -> BOOLEAN] /\ monitor' \in [Caches -> SUBSET Addr]
    BY <1>3, <1>4, <1>6
  <2>3. op' \in [Masters -> Op \cup {NoOp}] /\ want' \in [Masters -> TxKinds \cup {"none"}]
    BY <1>1, <1>3, <1>4, <1>5, <1>6
  <2>4. QED
    BY <2>1, <2>2, <2>3 DEF CacheTypeOK
<1>8. /\ cacheline'[c][i] = r.ln
      /\ \A d \in Caches, j \in Slots :
            d # c \/ j # i => cacheline'[d][j] = cacheline[d][j]
      /\ op'[c] = p /\ want'[c] = r.want /\ tx'[c] = t
      /\ \A x \in Masters \ {c} : op'[x] = op[x] /\ want'[x] = want[x] /\ tx'[x] = tx[x]
  BY <1>1, <1>2, <1>3, <1>6
<1>9. SlotInv'
  BY <1>8 DEF SlotInv, i
<1>10. ASSUME NEW x \in Masters \ {c}, op[x] # NoOp  PROVE Asks(x)'
  <2>1. Asks(x) /\ op'[x] = op[x] /\ want'[x] = want[x] /\ tx'[x] = tx[x]
    BY <1>8, <1>10 DEF AccessInv
  <2>2. CASE x \in Caches
    <3>1. op[x] \in Op
      BY <1>1, <2>1, OpFacts DEF Asks
    <3>2. Index[LineOf(op[x])] \in Slots
      BY <3>1, AccessFacts, SlotOf
    <3>3. cacheline'[x][Index[LineOf(op[x])]] = cacheline[x][Index[LineOf(op[x])]]
      BY <1>8, <2>2, <3>2
    <3>4. LineIn(x)' = LineIn(x)
      BY <2>1, <3>3 DEF LineIn, get_line
    <3>5. QED
      BY <2>1, <3>4 DEF Asks, AsksRight
  <2>3. CASE x \notin Caches
    BY <2>1, <2>3 DEF Asks
  <2>4. QED
    BY <2>2, <2>3
<1>11. op'[c] = NoOp => tx'[c].phase = "idle" /\ tx'[c].kind = "none"
  BY <1>5, <1>8 DEF NextTx, NoTx
<1>12. ASSUME op'[c] # NoOp  PROVE Asks(c)'
  <2>1. r.req # "none" /\ op'[c] = o /\ r.req \in TxKinds
    BY <1>4, <1>5, <1>8, <1>12 DEF p
  <2>2. /\ t.phase = "req" /\ t.kind = r.req /\ t.rng = PayloadRange(o, r)
        /\ t.rng # {} /\ ~t.exokay
    BY <1>2, <2>1, NextTxParts
  <2> HIDE DEF t
  <2>3. LineIn(c)' = r.ln
    BY <1>8, <2>1 DEF LineIn, get_line, i
  <2>4. PayloadRange(o, r) = PayloadRange(o, [req |-> r.req, ln |-> r.ln])
    BY DEF PayloadRange
  <2>5. AsksRight(c)'
    BY <1>8, <2>1, <2>2, <2>3, <2>4 DEF AsksRight, WellAsked
  <2>6. c \notin LiteMasters
    BY ProtocolAssumption
  <2>7. QED
    BY <1>8, <2>1, <2>2, <2>5, <2>6 DEF Asks
<1>13. AccessInv'
  BY <1>1, <1>4, <1>8, <1>10, <1>11, <1>12 DEF AccessInv
<1>14. QED
  BY <1>7, <1>9, <1>13

\* Which master has an access can be told from its transaction.
LEMMA AccessParts ==
    ASSUME AccessInv, NEW m \in Masters
    PROVE  /\ traffic \in Traffics
           /\ op[m] = NoOp <=> tx[m].phase = "idle"
           /\ op[m] = NoOp <=> tx[m].kind = "none"
           /\ op[m] # NoOp => /\ Asks(m) /\ op[m] \in Op /\ tx[m].rng # {}
                              /\ tx[m].kind \in TxKinds
                              /\ m \in Caches => AsksRight(m)
           /\ tx[m].kind \in CopyBackKinds => m \in Caches
<1>1. op[m] # NoOp => Asks(m) /\ op[m] \in Op
  BY OpFacts DEF AccessInv, Asks
<1>2. op[m] = NoOp => tx[m].phase = "idle" /\ tx[m].kind = "none"
  BY DEF AccessInv
<1>3. tx[m].kind \in CopyBackKinds => m \in Caches
  <2>1. ASSUME tx[m].kind \in CopyBackKinds, m \in LiteMasters  PROVE FALSE
    BY <1>1, <1>2, <2>1, KindClasses DEF Asks
  <2>2. QED
    BY <2>1 DEF Masters
<1>4. QED
  BY <1>1, <1>2, <1>3, KindClasses DEF AccessInv, Asks

(***************************************************************************)
(* Steps of the interconnect, and snoops, leave what was asked for alone.  *)
(***************************************************************************)
LEMMA AccessKept ==
    ASSUME AccessInv, UNCHANGED <<op, want, traffic>>,
           \A x \in Masters : SameTx(tx'[x], tx[x]),
           \A c \in Caches, i \in Slots :
               /\ cacheline'[c][i].tag = cacheline[c][i].tag
               /\ write_ongoing(c) => cacheline'[c][i].valid = cacheline[c][i].valid
    PROVE  AccessInv'
<1>1. ASSUME NEW m \in Masters, op[m] # NoOp  PROVE Asks(m)'
  <2>1. Asks(m) /\ op[m] \in Op /\ op'[m] = op[m] /\ want'[m] = want[m]
        /\ traffic' = traffic /\ (m \in Caches => AsksRight(m))
    BY <1>1, AccessParts
  <2>2. /\ tx'[m].kind = tx[m].kind /\ tx'[m].rng = tx[m].rng
        /\ tx'[m].excl = tx[m].excl /\ tx'[m].exokay \in {tx[m].exokay, tx[m].excl}
        /\ (tx'[m].phase = "idle" <=> tx[m].phase = "idle")
    BY DEF SameTx
  <2>3. ASSUME m \in Caches  PROVE AsksRight(m)'
    <3>1. Index[LineOf(op[m])] \in Slots
      BY <2>1, AccessFacts, SlotOf
    <3>2. /\ LineIn(m)'.tag = LineIn(m).tag
          /\ tx[m].kind \in CopyBackKinds => LineIn(m)'.valid = LineIn(m).valid
      BY <2>1, <2>3, <3>1 DEF LineIn, get_line, write_ongoing
    <3>3. PayloadRange(op[m], [req |-> tx[m].kind, ln |-> LineIn(m)'])
             = PayloadRange(op[m], [req |-> tx[m].kind, ln |-> LineIn(m)])
      BY <3>2 DEF PayloadRange
    <3>4. QED
      BY <2>1, <2>2, <2>3, <3>2, <3>3 DEF AsksRight
  <2>4. QED
    BY <2>1, <2>2, <2>3 DEF Asks
<1>2. ASSUME NEW m \in Masters, op[m] = NoOp
      PROVE  tx'[m].phase = "idle" /\ tx'[m].kind = "none"
  BY <1>2, AccessParts DEF SameTx, AccessInv
<1>3. QED
  BY <1>1, <1>2 DEF AccessInv

(***************************************************************************)
(* An ACE-Lite master issues its access as a transaction, and is done with *)
(* it when the response comes.                                             *)
(***************************************************************************)
LEMMA LiteTxParts ==
    ASSUME NEW o \in Op
    PROVE  /\ WellFormed(LiteTx(o)) /\ LiteTx(o).phase = "req"
           /\ LiteTx(o).kind \in {"ReadOnce", "WriteUnique"}
           /\ LiteTx(o).rng = o.rng /\ LiteTx(o).excl = FALSE
           /\ ~LiteTx(o).exokay /\ ~LiteTx(o).dirty /\ LiteTx(o).segs = LinesOf(o.rng)
<1> DEFINE kind == IF o.kind \in StoreKinds THEN "WriteUnique" ELSE "ReadOnce"
           d == [a \in o.rng |-> IF o.kind \in StoreKinds THEN o.val ELSE InitValue]
<1>1. kind \in TxKinds /\ kind \in {"ReadOnce", "WriteUnique"}
  BY KindClasses DEF UniqueWriteKinds
<1>2. o.rng \in SUBSET Addr /\ o.val \in Values /\ InitValue \in Values
  BY AccessFacts, ProtocolAssumption
<1>3. DataFor(d, o.rng)
  BY <1>2 DEF DataFor
<1>4. LiteTx(o) = [NoTx EXCEPT !.phase = "req", !.kind = kind, !.rng = o.rng, !.data = d,
                              !.excl = FALSE, !.segs = LinesOf(o.rng)]
  BY DEF LiteTx, NewTx
<1> HIDE DEF kind, d
<1>5. LinesOf(o.rng) \in SUBSET Lines /\ d \in RangeData /\ "req" \in Phases
  BY <1>2, <1>3, DataOfRange DEF LinesOf, Addr, Phases, DataFor
<1>6. /\ LiteTx(o).phase = "req" /\ LiteTx(o).kind = kind /\ LiteTx(o).rng = o.rng
      /\ LiteTx(o).data = d /\ LiteTx(o).excl = FALSE /\ LiteTx(o).exokay = FALSE
      /\ LiteTx(o).dirty = FALSE /\ LiteTx(o).segs = LinesOf(o.rng)
  BY <1>4 DEF NoTx
<1>7. LiteTx(o) \in Tx
  BY <1>1, <1>2, <1>4, <1>5 DEF NoTx, Tx
<1>8. QED
  BY <1>1, <1>3, <1>6, <1>7 DEF WellFormed, DataFor

LEMMA LiteAsks ==
    ASSUME CacheTypeOK, AccessInv, NEW m \in LiteMasters, tx \in [Masters -> Tx],
           UNCHANGED <<cacheline, toggle, monitor, want, traffic>>,
           \/ /\ op' = [op EXCEPT ![m] = NoOp]
              /\ tx' = [tx EXCEPT ![m] = NoTx]
           \/ \E o \in traffic[m] : /\ op' = [op EXCEPT ![m] = o]
                                    /\ tx' = [tx EXCEPT ![m] = LiteTx(o)]
    PROVE  CacheTypeOK' /\ AccessInv'
<1>1. m \in Masters /\ traffic \in Traffics /\ op \in [Masters -> Op \cup {NoOp}]
      /\ m \notin Caches
  BY CachesAreMasters, ProtocolAssumption DEF AccessInv, CacheTypeOK
<1>2. /\ op'[m] \in Op \cup {NoOp} /\ op' \in [Masters -> Op \cup {NoOp}]
      /\ \A x \in Masters \ {m} : op'[x] = op[x] /\ tx'[x] = tx[x]
  <2>1. \A o \in traffic[m] : o \in Op
    BY <1>1, OpFacts
  <2>2. QED
    BY <1>1, <2>1
<1>3. CacheTypeOK'
  BY <1>2 DEF CacheTypeOK
<1>5. ASSUME op'[m] # NoOp  PROVE Asks(m)'
  <2>1. PICK o \in traffic[m] : /\ op' = [op EXCEPT ![m] = o]
                                /\ tx' = [tx EXCEPT ![m] = LiteTx(o)]
    BY <1>1, <1>5
  <2>2. o \in Op /\ op'[m] = o /\ tx'[m] = LiteTx(o) /\ o.rng # {}
    BY <1>1, <2>1, OpFacts, AccessFacts
  <2>3. QED
    BY <1>1, <2>2, LiteTxParts, KindClasses DEF Asks, UniqueWriteKinds
<1>6. ASSUME op'[m] = NoOp  PROVE tx'[m].phase = "idle" /\ tx'[m].kind = "none"
  <2>1. \A o \in traffic[m] : o # NoOp
    BY <1>1, OpFacts
  <2>2. tx'[m] = NoTx
    BY <1>1, <1>6, <2>1
  <2>3. QED
    BY <2>2 DEF NoTx
<1>7. ASSUME NEW x \in Masters \ {m}, op[x] # NoOp  PROVE Asks(x)'
  BY <1>2, <1>7 DEF AccessInv, Asks, AsksRight, LineIn, get_line
<1>8. QED
  BY <1>1, <1>2, <1>3, <1>5, <1>6, <1>7 DEF AccessInv

(***************************************************************************)
(* A cache answers a snoop: the line keeps its tag, and a snoop for it     *)
(* waits while the cache writes back.                                      *)
(***************************************************************************)
LEMMA SnoopedParts ==
    ASSUME NEW ln \in CacheLine, NEW kind
    PROVE  /\ SnoopedLine(kind, ln) \in CacheLine /\ SnoopedLine(kind, ln).tag = ln.tag
           /\ SnoopedLine(kind, ln).valid => ln.valid /\ SnoopedLine(kind, ln).shared
           /\ kind \in {"ReadUnique", "CleanInvalid", "MakeInvalid"} =>
                  ~SnoopedLine(kind, ln).valid
           /\ SnoopedLine(kind, ln).valid /\ kind \in {"ReadShared", "CleanShared"} =>
                  ~SnoopedLine(kind, ln).dirty
           /\ SnoopedLine(kind, ln).dirty => ln.dirty
<1> DEFINE d == ln.dirty /\ kind \notin {"ReadShared", "CleanShared"}
<1>1. d \in BOOLEAN /\ (d => ln.dirty) /\ (kind \in {"ReadShared", "CleanShared"} => ~d)
  BY DEF CacheLine
<1>2. SnoopedLine(kind, ln) = IF kind \in {"ReadUnique", "CleanInvalid", "MakeInvalid"}
                              THEN [ln EXCEPT !.valid = FALSE]
                              ELSE [ln EXCEPT !.shared = TRUE, !.dirty = d]
  BY DEF SnoopedLine
<1> HIDE DEF d
<1>3. CASE kind \in {"ReadUnique", "CleanInvalid", "MakeInvalid"}
  BY <1>2, <1>3 DEF CacheLine
<1>4. CASE kind \notin {"ReadUnique", "CleanInvalid", "MakeInvalid"}
  BY <1>1, <1>2, <1>4 DEF CacheLine
<1>5. QED
  BY <1>3, <1>4

LEMMA AnswerType ==
    ASSUME NEW ln \in CacheLine, NEW kind
    PROVE  SnoopAnswer(kind, ln) \in Answer /\ BlankAnswer \in Answer
<1> DEFINE xfer == \/ kind \in ReadKinds
                   \/ kind \in {"CleanInvalid", "CleanShared"} /\ ln.dirty
           shared == kind \in (ReadKinds \ {"ReadUnique"}) \cup {"CleanShared"}
           dirty == ln.dirty /\ kind \in {"ReadShared", "ReadUnique",
                                          "CleanInvalid", "CleanShared"}
           data == IF xfer THEN ln.data ELSE BlankLine
<1>1. BlankLine \in LineData /\ BlankAnswer \in Answer
  BY ProtocolAssumption DEF BlankLine, LineData, BlankAnswer, Answer
<1>2. xfer \in BOOLEAN /\ shared \in BOOLEAN /\ dirty \in BOOLEAN /\ data \in LineData
  BY <1>1 DEF CacheLine
<1>3. SnoopAnswer(kind, ln) = [shared |-> shared, dirty |-> dirty, xfer |-> xfer,
                               data |-> data]
  BY DEF SnoopAnswer
<1> HIDE DEF xfer, shared, dirty, data
<1>4. QED
  BY <1>1, <1>2, <1>3 DEF Answer

-----------------------------------------------------------------------------
(***************************************************************************)
(* Fifos and lists of distinct elements.                                   *)
(***************************************************************************)
LEMMA RangeIs ==
    ASSUME NEW S, NEW q \in Seq(S)
    PROVE  /\ Range(q) = {q[i] : i \in 1..Len(q)} /\ Range(q) \subseteq S
           /\ DOMAIN q = 1..Len(q) /\ Len(q) \in Nat
           /\ q = <<>> <=> Range(q) = {}
           /\ q # <<>> => Head(q) \in Range(q) /\ Head(q) = q[1]
<1>1. Range(q) = {q[i] : i \in 1..Len(q)} /\ Range(q) \subseteq S
  BY RangeEquality, RangeOfSeq
<1>2. DOMAIN q = 1..Len(q) /\ Len(q) \in Nat
  BY LenProperties
<1>3. q # <<>> => Len(q) \in Nat \ {0} /\ 1 \in 1..Len(q)
  BY EmptySeq
<1>4. q = <<>> => Len(q) = 0
  BY EmptySeq
<1>5. Head(q) = q[1]
  OBVIOUS
<1>6. q = <<>> <=> Range(q) = {}
  BY <1>1, <1>2, <1>3, <1>4
<1>7. QED
  BY <1>1, <1>2, <1>3, <1>5, <1>6

LEMMA AppendRange ==
    ASSUME NEW S, NEW q \in Seq(S), NEW e \in S
    PROVE  /\ Append(q, e) \in Seq(S) /\ Append(q, e) # <<>>
           /\ Range(Append(q, e)) = Range(q) \cup {e}
           /\ IsInjective(q) /\ e \notin Range(q) => IsInjective(Append(q, e))
           /\ Head(Append(q, e)) = IF q = <<>> THEN e ELSE Head(q)
<1> DEFINE a == Append(q, e)
<1>1. /\ a \in Seq(S) /\ a # <<>> /\ Len(a) = Len(q) + 1
      /\ \A i \in 1..Len(q) : a[i] = q[i]
      /\ a[Len(q) + 1] = e
  BY AppendProperties
<1> HIDE DEF a
<1>2. Len(q) \in Nat /\ Range(q) = {q[i] : i \in 1..Len(q)} /\ DOMAIN q = 1..Len(q)
  BY RangeIs
<1>3. Range(a) = {a[i] : i \in 1..Len(a)} /\ DOMAIN a = 1..Len(a)
  BY <1>1, RangeIs
<1>4. Range(a) = Range(q) \cup {e}
  <2>1. ASSUME NEW x \in Range(a)  PROVE x \in Range(q) \cup {e}
    <3>1. PICK i \in 1..(Len(q) + 1) : x = a[i]
      BY <1>1, <1>3
    <3>2. i = Len(q) + 1 \/ i \in 1..Len(q)
      BY <1>2
    <3>3. QED
      BY <1>1, <1>2, <3>1, <3>2
  <2>2. Len(q) + 1 \in 1..Len(a) /\ \A i \in 1..Len(q) : i \in 1..Len(a)
    BY <1>1, <1>2
  <2>3. Range(q) \cup {e} \subseteq Range(a)
    BY <1>1, <1>2, <1>3, <2>2
  <2>4. QED
    BY <2>1, <2>3
<1>5. ASSUME IsInjective(q), e \notin Range(q)  PROVE IsInjective(a)
  <2>1. SUFFICES ASSUME NEW i \in 1..(Len(q) + 1), NEW j \in 1..(Len(q) + 1), a[i] = a[j]
                 PROVE  i = j
    BY <1>1, <1>3 DEF IsInjective
  <2>2. CASE i \in 1..Len(q) /\ j \in 1..Len(q)
    BY <1>1, <1>2, <1>5, <2>1, <2>2 DEF IsInjective
  <2>3. CASE i \in 1..Len(q) /\ j = Len(q) + 1
    BY <1>1, <1>2, <1>5, <2>1, <2>3
  <2>4. CASE i = Len(q) + 1 /\ j \in 1..Len(q)
    BY <1>1, <1>2, <1>5, <2>1, <2>4
  <2>5. QED
    BY <1>2, <2>2, <2>3, <2>4
<1>6. Head(a) = IF q = <<>> THEN e ELSE Head(q)
  <2>1. Head(a) = a[1]
    BY <1>1, RangeIs
  <2>2. CASE q = <<>>
    BY <1>1, <2>1, <2>2, EmptySeq
  <2>3. CASE q # <<>>
    <3>1. 1 \in 1..Len(q) /\ Head(q) = q[1]
      BY <2>3, EmptySeq, RangeIs
    <3>2. QED
      BY <1>1, <2>1, <2>3, <3>1
  <2>4. QED
    BY <2>2, <2>3
<1>7. QED
  BY <1>1, <1>4, <1>5, <1>6 DEF a

LEMMA TailRange ==
    ASSUME NEW S, NEW q \in Seq(S), q # <<>>, IsInjective(q)
    PROVE  /\ Tail(q) \in Seq(S) /\ IsInjective(Tail(q))
           /\ Range(Tail(q)) = Range(q) \ {Head(q)}
<1> DEFINE a == Tail(q)
<1>1. /\ a \in Seq(S) /\ Len(a) = Len(q) - 1
      /\ \A i \in 1..Len(a) : a[i] = q[i + 1]
  BY HeadTailProperties
<1> HIDE DEF a
<1>2. /\ Len(q) \in Nat /\ Len(q) # 0 /\ Range(q) = {q[i] : i \in 1..Len(q)}
      /\ DOMAIN q = 1..Len(q) /\ Head(q) = q[1]
  BY RangeIs, EmptySeq
<1>3. Range(a) = {a[i] : i \in 1..Len(a)} /\ DOMAIN a = 1..Len(a)
  BY <1>1, RangeIs
<1>4. \A i \in 1..Len(a) : i + 1 \in 1..Len(q) /\ i + 1 # 1
  BY <1>1, <1>2
<1>5. \A i \in 1..Len(q) : i = 1 \/ (i - 1 \in 1..Len(a) /\ (i - 1) + 1 = i)
  BY <1>1, <1>2
<1>6. \A i, j \in 1..Len(q) : q[i] = q[j] => i = j
  BY <1>2 DEF IsInjective
<1>7. IsInjective(a)
  <2>1. SUFFICES ASSUME NEW i \in 1..Len(a), NEW j \in 1..Len(a), a[i] = a[j]
                 PROVE  i = j
    BY <1>3 DEF IsInjective
  <2>2. i + 1 = j + 1
    BY <1>1, <1>4, <1>6, <2>1
  <2>3. QED
    BY <1>1, <1>2, <2>2
<1>8. Range(a) = Range(q) \ {Head(q)}
  <2>1. ASSUME NEW i \in 1..Len(a)  PROVE a[i] \in Range(q) /\ a[i] # Head(q)
    <3>1. a[i] = q[i + 1] /\ i + 1 \in 1..Len(q) /\ 1 \in 1..Len(q) /\ i + 1 # 1
      BY <1>1, <1>2, <1>4
    <3>2. QED
      BY <1>2, <1>6, <3>1
  <2>2. ASSUME NEW i \in 1..Len(q), q[i] # Head(q)  PROVE q[i] \in Range(a)
    <3>1. i - 1 \in 1..Len(a) /\ a[i - 1] = q[(i - 1) + 1] /\ (i - 1) + 1 = i
      BY <1>1, <1>2, <1>5, <2>2
    <3>2. QED
      BY <1>3, <3>1
  <2>3. QED
    BY <1>2, <1>3, <2>1, <2>2
<1>9. QED
  BY <1>1, <1>7, <1>8 DEF a

LEMMA WithoutRange ==
    ASSUME NEW S, NEW q \in Seq(S), NEW m, IsInjective(q)
    PROVE  /\ Without(q, m) \in Seq(S) /\ IsInjective(Without(q, m))
           /\ Range(Without(q, m)) = Range(q) \ {m}
           /\ q # <<>> /\ Head(q) # m =>
                 Without(q, m) # <<>> /\ Head(Without(q, m)) = Head(q)
<1>1. /\ Len(q) \in Nat /\ Range(q) = {q[i] : i \in 1..Len(q)} /\ Range(q) \subseteq S
      /\ DOMAIN q = 1..Len(q) /\ (q # <<>> => 1 \in 1..Len(q) /\ Head(q) = q[1])
  BY RangeIs, EmptySeq
<1>2. \A i, j \in 1..Len(q) : q[i] = q[j] => i = j
  BY <1>1 DEF IsInjective
<1>3. CASE ~\E i \in 1..Len(q) : q[i] = m
  <2>1. Without(q, m) = q /\ m \notin Range(q)
    BY <1>1, <1>3 DEF Without
  <2>2. QED
    BY <2>1
<1>4. CASE \E i \in 1..Len(q) : q[i] = m
  <2> DEFINE n == CHOOSE i \in 1..Len(q) : q[i] = m
             a == SubSeq(q, 1, n - 1)
             b == SubSeq(q, n + 1, Len(q))
             w == a \o b
  <2>1. n \in 1..Len(q) /\ q[n] = m
    BY <1>4
  <2>2. Without(q, m) = w
    BY <1>4 DEF Without
  <2> HIDE DEF n
  <2>3. /\ a \in Seq(S) /\ Len(a) = n - 1 /\ \A i \in 1..(n - 1) : a[i] = q[i]
    <3>1. n - 1 \in Int /\ \A i \in 1..(n - 1) : q[i] \in S
      BY <1>1, <2>1
    <3>2. /\ a \in Seq(S) /\ Len(a) = IF 1 <= n - 1 THEN (n - 1) - 1 + 1 ELSE 0
          /\ \A i \in 1..((n - 1) - 1 + 1) : a[i] = q[1 + i - 1]
      BY <3>1, SubSeqProperties
    <3>3. QED
      BY <1>1, <2>1, <3>2
  <2>4. /\ b \in Seq(S) /\ Len(b) = Len(q) - n
        /\ \A i \in 1..(Len(q) - n) : b[i] = q[n + i]
    <3>1. n + 1 \in Int /\ Len(q) \in Int /\ \A i \in (n + 1)..Len(q) : q[i] \in S
      BY <1>1, <2>1
    <3>2. /\ b \in Seq(S) /\ Len(b) = IF n + 1 <= Len(q) THEN Len(q) - (n + 1) + 1 ELSE 0
          /\ \A i \in 1..(Len(q) - (n + 1) + 1) : b[i] = q[(n + 1) + i - 1]
      BY <3>1, SubSeqProperties
    <3>3. n \in Nat /\ n <= Len(q) /\ Len(q) \in Nat
      BY <1>1, <2>1
    <3>4. Len(q) - (n + 1) + 1 = Len(q) - n
      BY <3>3
    <3>5. (IF n + 1 <= Len(q) THEN Len(q) - (n + 1) + 1 ELSE 0) = Len(q) - n
      BY <3>3
    <3>6. ASSUME NEW i \in 1..(Len(q) - n)  PROVE b[i] = q[n + i]
      <4>1. (n + 1) + i - 1 = n + i
        BY <3>3
      <4>2. QED
        BY <3>2, <3>4, <4>1
    <3>7. QED
      BY <3>2, <3>5, <3>6
  <2> HIDE DEF a, b
  <2>5. /\ w \in Seq(S) /\ Len(w) = Len(q) - 1
        /\ \A i \in 1..(Len(q) - 1) : w[i] = IF i <= n - 1 THEN q[i] ELSE q[i + 1]
    <3>1. /\ w \in Seq(S) /\ Len(w) = Len(a) + Len(b)
          /\ \A i \in 1..(Len(a) + Len(b)) :
                w[i] = IF i <= Len(a) THEN a[i] ELSE b[i - Len(a)]
      BY <2>3, <2>4, ConcatProperties
    <3>2. Len(a) + Len(b) = Len(q) - 1
      BY <1>1, <2>1, <2>3, <2>4
    <3>3. ASSUME NEW i \in 1..(Len(q) - 1)
          PROVE  w[i] = IF i <= n - 1 THEN q[i] ELSE q[i + 1]
      <4>1. CASE i <= n - 1
        BY <1>1, <2>1, <2>3, <3>1, <3>2, <4>1
      <4>2. CASE ~(i <= n - 1)
        <5>1. i - (n - 1) \in 1..(Len(q) - n) /\ n + (i - (n - 1)) = i + 1
          BY <1>1, <2>1, <4>2
        <5>2. QED
          BY <2>3, <2>4, <3>1, <3>2, <4>2, <5>1
      <4>3. QED
        BY <4>1, <4>2
    <3>4. QED
      BY <3>1, <3>2, <3>3
  <2> HIDE DEF w
  <2>6. /\ Range(w) = {w[i] : i \in 1..(Len(q) - 1)} /\ DOMAIN w = 1..(Len(q) - 1)
        /\ (w # <<>> => Head(w) = w[1]) /\ (w = <<>> <=> Range(w) = {})
    BY <2>5, RangeIs
  <2>7. IsInjective(w)
    <3>1. SUFFICES ASSUME NEW i \in 1..(Len(q) - 1), NEW j \in 1..(Len(q) - 1), w[i] = w[j]
                   PROVE  i = j
      BY <2>6 DEF IsInjective
    <3>2. /\ i \in 1..Len(q) /\ i + 1 \in 1..Len(q) /\ j \in 1..Len(q) /\ j + 1 \in 1..Len(q)
      BY <1>1
    <3>3. QED
      BY <1>1, <1>2, <2>1, <2>5, <3>1, <3>2
  <2>8. Range(w) = Range(q) \ {m}
    <3>1. ASSUME NEW i \in 1..(Len(q) - 1)  PROVE w[i] \in Range(q) \ {m}
      <4>1. i \in 1..Len(q) /\ i + 1 \in 1..Len(q)
        BY <1>1
      <4>2. QED
        BY <1>1, <1>2, <2>1, <2>5, <4>1
    <3>2. ASSUME NEW i \in 1..Len(q), q[i] # m  PROVE q[i] \in Range(w)
      <4>1. CASE i <= n - 1
        <5>1. i \in 1..(Len(q) - 1) /\ w[i] = q[i]
          BY <1>1, <2>1, <2>5, <4>1
        <5>2. QED
          BY <2>6, <5>1
      <4>2. CASE ~(i <= n - 1)
        <5>1. i # n
          BY <2>1, <3>2
        <5>2. i - 1 \in 1..(Len(q) - 1) /\ ~(i - 1 <= n - 1) /\ (i - 1) + 1 = i
          BY <1>1, <2>1, <4>2, <5>1
        <5>3. w[i - 1] = q[i]
          BY <2>5, <5>2
        <5>4. QED
          BY <2>6, <5>2, <5>3
      <4>3. QED
        BY <4>1, <4>2
    <3>3. QED
      BY <1>1, <2>6, <3>1, <3>2
  <2>9. ASSUME q # <<>>, Head(q) # m  PROVE w # <<>> /\ Head(w) = Head(q)
    <3>1. n # 1 /\ 1 \in 1..Len(q) /\ Head(q) = q[1]
      BY <1>1, <2>1, <2>9
    <3>2. Head(q) \in Range(w)
      BY <1>1, <2>8, <2>9, <3>1
    <3>3. 1 \in 1..(Len(q) - 1) /\ 1 <= n - 1
      BY <1>1, <2>1, <3>1
    <3>4. QED
      BY <2>5, <2>6, <3>1, <3>2, <3>3
  <2>10. QED
    BY <2>2, <2>5, <2>7, <2>8, <2>9
<1>5. QED
  BY <1>3, <1>4

-----------------------------------------------------------------------------
(***************************************************************************)
(* The inductive invariant: the work that is under way.                    *)
(***************************************************************************)

\* The transaction of m snoops for line l; all its answers have been merged.
Active(m, l) == tx[m].phase = "snoop" /\ l \in tx[m].segs
Quiet(m, l) == Active(m, l) /\ snoop[m][l].sent = {} /\ snoop[m][l].back = {}

\* Only snooping transactions reach the snoop engine, and SnoopTransactions
\* exist just while and where their transaction is active.
PhaseOk(m) ==
    /\ tx[m].phase \in {"stalled", "engine", "snoop"} => IsSnoopingTransaction(tx[m].kind)
    /\ tx[m].segs \subseteq LinesOf(tx[m].rng)
    /\ tx[m].phase \in {"req", "stalled", "engine"} =>
          tx[m].segs = LinesOf(tx[m].rng) /\ ~tx[m].dirty
    /\ \A l \in Lines :
          /\ ~Active(m, l) => snoop[m][l] = NoSnoop
          /\ snoop[m][l].sent \cap snoop[m][l].back = {}
          /\ m \notin snoop[m][l].sent \cup snoop[m][l].back

PhaseInv == \A m \in Masters : PhaseOk(m)

\* m_snoop_done_fifo lists every SnoopTransaction once, when it is quiet.
DoneFifo ==
    /\ IsInjective(snoopDone)
    /\ \A x \in Range(snoopDone) : Quiet(x[1], x[2])

\* What an entry of m_downstream_fifo is there for.
Queued(e) ==
    IF e.own THEN tx[e.m].phase = "ds"
    ELSE Quiet(e.m, e.line) /\ <<e.m, e.line>> \notin Range(snoopDone)

DsFifo ==
    /\ IsInjective(downstream)
    /\ \A e \in Range(downstream) : Queued(e)
    /\ \A e, f \in Range(downstream) : e.own /\ f.own /\ e.m = f.m => e = f

\* Only transactions that wait in the same list are ordered by older.
OlderInv ==
    \A p \in older : tx[p[1]].phase = tx[p[2]].phase
                       /\ tx[p[1]].phase \in {"stalled", "engine"}

WorkInv == PhaseInv /\ DoneFifo /\ DsFifo /\ OlderInv

-----------------------------------------------------------------------------
\* m has nothing in the fifos unless it snoops or runs downstream.
LEMMA NoWork ==
    ASSUME DoneFifo, DsFifo, NEW m \in Masters, tx[m].phase \notin {"snoop", "ds"}
    PROVE  /\ \A x \in Range(snoopDone) : x[1] # m
           /\ \A e \in Range(downstream) : e.m # m
  BY DEF DoneFifo, DsFifo, Queued, Quiet, Active

\* Nothing happens to transactions other than m's, except that stalled ones go on.
Elsewhere(m) ==
    \A x \in Masters \ {m} :
        /\ \/ tx'[x].phase = tx[x].phase
           \/ tx[x].phase = "stalled" /\ tx'[x].phase = "engine"
        /\ tx'[x].kind = tx[x].kind /\ tx'[x].rng = tx[x].rng
        /\ tx'[x].segs = tx[x].segs /\ tx'[x].dirty = tx[x].dirty
        /\ \A l \in Lines : snoop'[x][l] = snoop[x][l]

LEMMA SameElsewhere ==
    ASSUME NEW m, \A x \in Masters \ {m} : tx'[x] = tx[x],
           \A x \in Masters \ {m}, l \in Lines : snoop'[x][l] = snoop[x][l]
    PROVE  Elsewhere(m)
  BY DEF Elsewhere

LEMMA PhaseElsewhere ==
    ASSUME PhaseInv, NEW m \in Masters, Elsewhere(m), PhaseOk(m)'
    PROVE  PhaseInv'
<1>1. ASSUME NEW x \in Masters \ {m}  PROVE PhaseOk(x)'
  <2>1. \A l \in Lines : Active(x, l)' <=> Active(x, l)
    BY DEF Elsewhere, Active
  <2>2. PhaseOk(x)
    BY DEF PhaseInv
  <2>3. \A l \in Lines : /\ ~Active(x, l)' => snoop'[x][l] = NoSnoop
                         /\ snoop'[x][l].sent \cap snoop'[x][l].back = {}
                         /\ x \notin snoop'[x][l].sent \cup snoop'[x][l].back
    BY <2>1, <2>2 DEF Elsewhere, PhaseOk
  <2>4. /\ tx'[x].phase \in {"stalled", "engine", "snoop"} => IsSnoopingTransaction(tx'[x].kind)
        /\ tx'[x].segs \subseteq LinesOf(tx'[x].rng)
        /\ tx'[x].phase \in {"req", "stalled", "engine"} =>
              tx'[x].segs = LinesOf(tx'[x].rng) /\ ~tx'[x].dirty
    BY <2>2 DEF Elsewhere, PhaseOk
  <2>5. QED
    BY <2>3, <2>4 DEF PhaseOk
<1>2. QED
  BY <1>1 DEF PhaseInv

\* The entries of other masters keep their meaning.
LEMMA WorkElsewhere ==
    ASSUME IcnTypeOK, DoneFifo, DsFifo, NEW m \in Masters, Elsewhere(m),
           snoopDone' \in Seq(Masters \X Lines), downstream' \in Seq(DsEntry),
           IsInjective(snoopDone'), IsInjective(downstream'),
           \A x \in Range(snoopDone') :
               IF x[1] = m THEN Quiet(m, x[2])' ELSE x \in Range(snoopDone),
           \A e \in Range(downstream') :
               IF e.m = m THEN Queued(e)' ELSE e \in Range(downstream),
           \A e, f \in Range(downstream') :
               e.m = m /\ f.m = m /\ e.own /\ f.own => e = f
    PROVE  DoneFifo' /\ DsFifo'
<1>1. \A x \in Masters \ {m}, l \in Lines : Quiet(x, l) => Quiet(x, l)'
  BY DEF Elsewhere, Quiet, Active
<1>2. \A x \in Masters \ {m} : tx[x].phase = "ds" => tx'[x].phase = "ds"
  BY DEF Elsewhere
<1>3. Range(snoopDone') \subseteq Masters \X Lines /\ Range(downstream') \subseteq DsEntry
  BY RangeIs
<1>4. ASSUME NEW x \in Range(snoopDone')  PROVE Quiet(x[1], x[2])'
  <2>1. x[1] \in Masters /\ x[2] \in Lines
    BY <1>3
  <2>2. CASE x[1] = m
    BY <2>2
  <2>3. CASE x[1] # m
    BY <1>1, <2>1, <2>3 DEF DoneFifo
  <2>4. QED
    BY <2>2, <2>3
<1>5. ASSUME NEW e \in Range(downstream')  PROVE Queued(e)'
  <2>1. e.m \in Masters /\ e.line \in Lines
    BY <1>3 DEF DsEntry
  <2>2. CASE e.m = m
    BY <2>2
  <2>3. CASE e.m # m
    <3>1. Queued(e)
      BY <2>3 DEF DsFifo
    <3>2. CASE e.own
      BY <1>2, <2>1, <2>3, <3>1, <3>2 DEF Queued
    <3>3. CASE ~e.own
      <4>1. Quiet(e.m, e.line)' /\ <<e.m, e.line>> \notin Range(snoopDone)
        BY <1>1, <2>1, <2>3, <3>1, <3>3 DEF Queued
      <4>2. <<e.m, e.line>> \notin Range(snoopDone')
        <5>1. <<e.m, e.line>>[1] = e.m
          OBVIOUS
        <5>2. QED
          BY <2>3, <4>1, <5>1
      <4>3. QED
        BY <3>3, <4>1, <4>2 DEF Queued
    <3>4. QED
      BY <3>2, <3>3
  <2>4. QED
    BY <2>2, <2>3
<1>6. ASSUME NEW e \in Range(downstream'), NEW f \in Range(downstream'),
             e.own, f.own, e.m = f.m
      PROVE  e = f
  BY <1>6 DEF DsFifo
<1>7. QED
  BY <1>4, <1>5, <1>6 DEF DoneFifo, DsFifo

\* The order of a list is not touched, nor who waits in it.
LEMMA OlderKept ==
    ASSUME IcnTypeOK, OlderInv, UNCHANGED older,
           \A x \in Masters : tx[x].phase \in {"stalled", "engine"} =>
                                 tx'[x].phase = tx[x].phase
    PROVE  OlderInv'
<1>1. \A p \in older : p[1] \in Masters /\ p[2] \in Masters
  BY DEF IcnTypeOK
<1>2. QED
  BY <1>1 DEF OlderInv

(***************************************************************************)
(* What DoneEvent sets off.                                                *)
(***************************************************************************)
LEMMA CompleteElsewhere ==
    ASSUME IcnTypeOK, NEW m \in Masters, NEW t, WellFormed(t), Completed(m, t),
           \A x \in Masters \ {m}, l \in Lines : snoop'[x][l] = snoop[x][l]
    PROVE  Elsewhere(m)
<1>1. ASSUME NEW x \in Masters \ {m}
      PROVE  /\ \/ tx'[x].phase = tx[x].phase
                \/ tx[x].phase = "stalled" /\ tx'[x].phase = "engine"
             /\ tx'[x].kind = tx[x].kind /\ tx'[x].rng = tx[x].rng
             /\ tx'[x].segs = tx[x].segs /\ tx'[x].dirty = tx[x].dirty
  <2>1. tx[x] \in Tx
    BY DEF IcnTypeOK
  <2>2. CASE tx'[x] = tx[x]
    BY <2>2
  <2>3. CASE tx[x].phase = "stalled" /\ tx'[x] = [tx[x] EXCEPT !.phase = "engine"]
    BY <2>1, <2>3 DEF Tx
  <2>4. QED
    BY <2>2, <2>3 DEF Completed
<1>2. QED
  BY <1>1 DEF Elsewhere

\* The lists of the orderer and of the snoop engine after a completion.
LEMMA CompleteLists ==
    ASSUME IcnTypeOK, NEW m \in Masters, NEW t, WellFormed(t), Complete(m, t)
    PROVE  \E R \in SUBSET InPhase("stalled") :
             /\ Restartable(m, R)
             /\ tx'[m].phase = "resp"
             /\ \A x \in Masters \ {m} :
                   IF x \in R THEN tx'[x] = [tx[x] EXCEPT !.phase = "engine"]
                                   /\ tx[x].phase = "stalled" /\ tx'[x].phase = "engine"
                   ELSE tx'[x] = tx[x]
             /\ older' = {p \in Forget({m}) : p[1] \in R <=> p[2] \in R}
                            \cup (InPhase("engine") \ {m}) \X R
<1>1. PICK R \in SUBSET InPhase("stalled") :
        /\ Restartable(m, R)
        /\ tx' = [x \in Masters |->
                     IF x = m THEN [t EXCEPT !.phase = "resp"]
                     ELSE IF x \in R THEN [tx[x] EXCEPT !.phase = "engine"]
                     ELSE tx[x]]
        /\ older' = {p \in Forget({m}) : p[1] \in R <=> p[2] \in R}
                        \cup (InPhase("engine") \ {m}) \X R
  BY DEF Complete
<1>2. tx'[m].phase = "resp"
  BY <1>1 DEF WellFormed, Tx
<1>3. ASSUME NEW x \in Masters \ {m}
      PROVE  IF x \in R THEN tx'[x] = [tx[x] EXCEPT !.phase = "engine"]
                             /\ tx[x].phase = "stalled" /\ tx'[x].phase = "engine"
             ELSE tx'[x] = tx[x]
  <2>1. tx[x] \in Tx
    BY DEF IcnTypeOK
  <2>2. tx'[x] = IF x \in R THEN [tx[x] EXCEPT !.phase = "engine"] ELSE tx[x]
    BY <1>1
  <2>3. QED
    BY <2>1, <2>2 DEF InPhase, Tx
<1>4. QED
  BY <1>1, <1>2, <1>3

LEMMA CompleteOlder ==
    ASSUME IcnTypeOK, OlderInv, NEW m \in Masters, NEW t, WellFormed(t), Complete(m, t),
           tx[m].phase # "stalled"
    PROVE  OlderInv'
<1>1. PICK R \in SUBSET InPhase("stalled") :
             /\ \A x \in Masters \ {m} :
                   IF x \in R THEN tx'[x] = [tx[x] EXCEPT !.phase = "engine"]
                                   /\ tx[x].phase = "stalled" /\ tx'[x].phase = "engine"
                   ELSE tx'[x] = tx[x]
             /\ older' = {p \in Forget({m}) : p[1] \in R <=> p[2] \in R}
                            \cup (InPhase("engine") \ {m}) \X R
  BY CompleteLists
<1>2. ASSUME NEW p \in older, p[1] # m, p[2] # m, p[1] \in R <=> p[2] \in R
      PROVE  tx'[p[1]].phase = tx'[p[2]].phase /\ tx'[p[1]].phase \in {"stalled", "engine"}
  <2>1. p[1] \in Masters \ {m} /\ p[2] \in Masters \ {m}
    BY <1>2 DEF IcnTypeOK
  <2>2. tx[p[1]].phase = tx[p[2]].phase /\ tx[p[1]].phase \in {"stalled", "engine"}
    BY DEF OlderInv
  <2>3. QED
    BY <1>1, <1>2, <2>1, <2>2
<1>3. ASSUME NEW a \in InPhase("engine") \ {m}, NEW b \in R
      PROVE  tx'[a].phase = "engine" /\ (b # m => tx'[b].phase = "engine")
  <2>1. a \in Masters \ {m} /\ tx[a].phase = "engine" /\ b \in Masters
    BY DEF InPhase
  <2>2. QED
    BY <1>1, <2>1
<1>4. m \notin R
  BY DEF InPhase
<1>5. ASSUME NEW p \in older'
      PROVE  tx'[p[1]].phase = tx'[p[2]].phase /\ tx'[p[1]].phase \in {"stalled", "engine"}
  <2>1. CASE p \in Forget({m}) /\ (p[1] \in R <=> p[2] \in R)
    BY <1>2, <2>1 DEF Forget
  <2>2. CASE p \in (InPhase("engine") \ {m}) \X R
    BY <1>3, <1>4, <2>2
  <2>3. QED
    BY <1>1, <1>5, <2>1, <2>2
<1>6. QED
  BY <1>5 DEF OlderInv

(***************************************************************************)
(* A master takes a response or begins an access.                          *)
(***************************************************************************)
LEMMA TurnWork ==
    ASSUME IcnTypeOK, WorkInv, NEW m \in Masters, tx[m].phase \in {"idle", "resp"},
           NEW t, tx' = [tx EXCEPT ![m] = t], t.phase \in {"idle", "req"},
           t.segs = LinesOf(t.rng), ~t.dirty,
           UNCHANGED <<snoop, snoopDone, downstream, older>>
    PROVE  WorkInv'
<1>1. tx'[m] = t /\ (\A x \in Masters \ {m} : tx'[x] = tx[x]) /\ Elsewhere(m)
  BY SameElsewhere DEF IcnTypeOK
<1>2. PhaseOk(m)'
  <2>1. \A l \in Lines : ~Active(m, l) /\ ~Active(m, l)'
    BY <1>1 DEF Active
  <2>2. \A l \in Lines : /\ snoop'[m][l] = NoSnoop
                         /\ snoop'[m][l].sent \cap snoop'[m][l].back = {}
                         /\ m \notin snoop'[m][l].sent \cup snoop'[m][l].back
    BY <2>1 DEF WorkInv, PhaseInv, PhaseOk
  <2>3. QED
    BY <1>1, <2>1, <2>2 DEF PhaseOk
<1>3. (\A x \in Range(snoopDone) : x[1] # m) /\ \A e \in Range(downstream) : e.m # m
  BY NoWork DEF WorkInv
<1>4. snoopDone \in Seq(Masters \X Lines) /\ downstream \in Seq(DsEntry)
  BY DEF IcnTypeOK
<1>5. DoneFifo' /\ DsFifo'
  BY <1>1, <1>3, <1>4, WorkElsewhere DEF WorkInv, DoneFifo, DsFifo
<1>6. OlderInv'
  BY <1>1, OlderKept DEF WorkInv
<1>7. QED
  BY <1>1, <1>2, <1>5, <1>6, PhaseElsewhere DEF WorkInv

(***************************************************************************)
(* process(), and the snoop engine.                                        *)
(***************************************************************************)
LEMMA AcceptWork ==
    ASSUME IcnTypeOK, WorkInv, NEW m \in Masters, Accept(m), tx[m].rng # {}
    PROVE  WorkInv'
<1> DEFINE l == CHOOSE x \in LinesOf(tx[m].rng) : TRUE
           e == [m |-> m, line |-> l, own |-> TRUE]
<1>1. tx[m].phase = "req" /\ tx[m] \in Tx /\ tx \in [Masters -> Tx]
      /\ snoopDone \in Seq(Masters \X Lines) /\ downstream \in Seq(DsEntry)
      /\ UNCHANGED <<snoop, snoopDone>>
  BY DEF Accept, IcnTypeOK
<1>2. /\ \A x \in Masters \ {m} : tx'[x] = tx[x]
      /\ tx'[m].kind = tx[m].kind /\ tx'[m].rng = tx[m].rng /\ tx'[m].segs = tx[m].segs
      /\ tx'[m].dirty = tx[m].dirty
      /\ tx'[m].phase \in {"stalled", "engine", "ds", "resp"}
  BY <1>1 DEF Accept, Tx
<1>3. /\ tx'[m].phase \in {"stalled", "engine"} => IsSnoopingTransaction(tx[m].kind)
      /\ \/ UNCHANGED downstream
         \/ tx'[m].phase = "ds" /\ downstream' = Append(downstream, e)
      /\ \/ UNCHANGED older /\ tx'[m].phase \in {"ds", "resp"}
         \/ tx'[m].phase = "stalled" /\ older' = older \cup (InPhase("stalled") \X {m})
         \/ tx'[m].phase = "engine" /\ older' = older \cup (InPhase("engine") \X {m})
  BY <1>1 DEF Accept, Behind, Tx
<1>4. e \in DsEntry
  <2>1. LinesOf(tx[m].rng) # {} /\ LinesOf(tx[m].rng) \subseteq Lines
    BY TxOf DEF LinesOf
  <2>2. QED
    BY <2>1 DEF DsEntry
<1> HIDE DEF l
<1>5. Elsewhere(m)
  BY <1>1, <1>2, SameElsewhere
<1>6. PhaseOk(m)'
  <2>1. \A k \in Lines : ~Active(m, k) /\ ~Active(m, k)'
    BY <1>1, <1>2 DEF Active
  <2>2. PhaseOk(m)
    BY DEF WorkInv, PhaseInv
  <2>3. QED
    BY <1>1, <1>2, <1>3, <2>1, <2>2 DEF PhaseOk
<1>7. (\A x \in Range(snoopDone) : x[1] # m) /\ \A f \in Range(downstream) : f.m # m
  BY <1>1, NoWork DEF WorkInv
<1>8. /\ downstream' \in Seq(DsEntry) /\ IsInjective(downstream')
      /\ \A f \in Range(downstream') : IF f.m = m THEN f = e /\ tx'[m].phase = "ds"
                                                  ELSE f \in Range(downstream)
  <2>1. CASE UNCHANGED downstream
    BY <1>1, <1>7, <2>1 DEF WorkInv, DsFifo
  <2>2. CASE tx'[m].phase = "ds" /\ downstream' = Append(downstream, e)
    <3>1. e \notin Range(downstream)
      BY <1>7
    <3> HIDE DEF e
    <3>2. /\ downstream' \in Seq(DsEntry) /\ IsInjective(downstream')
          /\ Range(downstream') = Range(downstream) \cup {e}
      BY <1>1, <1>4, <2>2, <3>1, AppendRange DEF WorkInv, DsFifo
    <3>3. e.m = m
      BY DEF e
    <3>4. QED
      BY <1>7, <2>2, <3>2, <3>3
  <2>3. QED
    BY <1>3, <2>1, <2>2
<1>9. \A f \in Range(downstream') : IF f.m = m THEN Queued(f)' ELSE f \in Range(downstream)
  BY <1>8 DEF Queued
<1>10. DoneFifo' /\ DsFifo'
  BY <1>1, <1>5, <1>7, <1>8, <1>9, WorkElsewhere DEF WorkInv, DoneFifo, DsFifo
<1>11. OlderInv'
  <2>1. ASSUME NEW p \in older
        PROVE  tx'[p[1]].phase = tx'[p[2]].phase /\ tx'[p[1]].phase \in {"stalled", "engine"}
    <3>1. /\ tx[p[1]].phase = tx[p[2]].phase /\ tx[p[1]].phase \in {"stalled", "engine"}
          /\ p[1] \in Masters /\ p[2] \in Masters
      BY DEF WorkInv, OlderInv, IcnTypeOK
    <3>2. p[1] # m /\ p[2] # m
      BY <1>1, <3>1
    <3>3. QED
      BY <1>2, <3>1, <3>2
  <2>2. ASSUME NEW q \in {"stalled", "engine"}, NEW p \in InPhase(q) \X {m},
               tx'[m].phase = q
        PROVE  tx'[p[1]].phase = tx'[p[2]].phase /\ tx'[p[1]].phase \in {"stalled", "engine"}
    <3>1. p[1] \in Masters \ {m} /\ tx[p[1]].phase = q /\ p[2] = m
      BY <1>1 DEF InPhase
    <3>2. QED
      BY <1>2, <2>2, <3>1
  <2>3. CASE UNCHANGED older
    BY <2>1, <2>3 DEF OlderInv
  <2>4. CASE tx'[m].phase = "stalled" /\ older' = older \cup (InPhase("stalled") \X {m})
    BY <2>1, <2>2, <2>4 DEF OlderInv
  <2>5. CASE tx'[m].phase = "engine" /\ older' = older \cup (InPhase("engine") \X {m})
    BY <2>1, <2>2, <2>5 DEF OlderInv
  <2>6. QED
    BY <1>3, <2>3, <2>4, <2>5
<1>12. QED
  BY <1>5, <1>6, <1>10, <1>11, PhaseElsewhere DEF WorkInv

\* A transaction that is done while nothing works for it.
LEMMA EngineFailWork ==
    ASSUME IcnTypeOK, WorkInv, NEW m \in Masters, EngineFail(m)
    PROVE  WorkInv'
<1> DEFINE t == [tx[m] EXCEPT !.ok = TRUE]
<1>1. tx[m].phase = "engine" /\ tx[m] \in Tx /\ WellFormed(t) /\ Complete(m, t)
      /\ t.kind = tx[m].kind /\ t.rng = tx[m].rng /\ t.segs = tx[m].segs
      /\ UNCHANGED <<snoop, snoopDone, downstream>>
  BY TxOf DEF EngineFail, EngineHead, InPhase, WellFormed, Tx
<1>2. Completed(m, t)
  BY EngineFailTypes
<1>3. tx'[m].phase = "resp" /\ tx'[m].kind = tx[m].kind /\ tx'[m].rng = tx[m].rng
      /\ tx'[m].segs = tx[m].segs
  BY <1>1, <1>2 DEF Completed, Tx
<1> HIDE DEF t
<1>4. Elsewhere(m)
  BY <1>1, <1>2, CompleteElsewhere
<1>5. PhaseOk(m)'
  <2>1. \A k \in Lines : ~Active(m, k) /\ ~Active(m, k)'
    BY <1>1, <1>3 DEF Active
  <2>2. PhaseOk(m)
    BY DEF WorkInv, PhaseInv
  <2>3. QED
    BY <1>1, <1>3, <2>1, <2>2 DEF PhaseOk
<1>6. (\A x \in Range(snoopDone) : x[1] # m) /\ \A f \in Range(downstream) : f.m # m
  BY <1>1, NoWork DEF WorkInv
<1>7. snoopDone \in Seq(Masters \X Lines) /\ downstream \in Seq(DsEntry)
  BY DEF IcnTypeOK
<1>8. DoneFifo' /\ DsFifo'
  BY <1>1, <1>4, <1>6, <1>7, WorkElsewhere DEF WorkInv, DoneFifo, DsFifo
<1>9. OlderInv'
  BY <1>1, CompleteOlder DEF WorkInv
<1>10. QED
  BY <1>4, <1>5, <1>8, <1>9, PhaseElsewhere DEF WorkInv

LEMMA FifoTypes ==
    ASSUME IcnTypeOK
    PROVE  /\ snoopDone \in Seq(Masters \X Lines) /\ downstream \in Seq(DsEntry)
           /\ \A x \in Range(snoopDone) : x[1] \in Masters /\ x[2] \in Lines
           /\ \A e \in Range(downstream) : e.m \in Masters /\ e.line \in Lines
<1>1. snoopDone \in Seq(Masters \X Lines) /\ downstream \in Seq(DsEntry)
  BY DEF IcnTypeOK
<1>2. Range(snoopDone) \subseteq Masters \X Lines /\ Range(downstream) \subseteq DsEntry
  BY <1>1, RangeIs
<1>3. QED
  BY <1>1, <1>2 DEF DsEntry

\* One SnoopTransaction per line begins.
LEMMA EngineSnoopWork ==
    ASSUME IcnTypeOK, WorkInv, NEW m \in Masters, EngineSnoop(m), tx[m].rng # {}
    PROVE  WorkInv'
<1> DEFINE ports == Caches \ {m}
           lines == LinesOf(tx[m].rng)
           new == [NoSnoop EXCEPT !.sent = ports, !.exec = tx[m].kind = "ReadOnce"]
           f == [l \in Lines |-> IF l \in lines THEN new ELSE snoop[m][l]]
<1>1. /\ tx[m].phase = "engine" /\ tx[m] \in Tx /\ tx \in [Masters -> Tx]
      /\ snoop \in [Masters -> [Lines -> Snoop]]
      /\ tx' = [tx EXCEPT ![m].phase = "snoop", ![m].exokay = tx[m].excl]
      /\ snoop' = [snoop EXCEPT ![m] = f]
      /\ older' = Forget({m})
      /\ snoopDone' = IF ports = {} THEN Append(snoopDone, <<m, CHOOSE l \in lines : TRUE>>) ELSE snoopDone
      /\ UNCHANGED downstream
      /\ snoopDone \in Seq(Masters \X Lines) /\ downstream \in Seq(DsEntry)
  BY DEF EngineSnoop, EngineHead, InPhase, IcnTypeOK
<1>2. lines \subseteq Lines /\ lines # {}
  BY TxOf DEF LinesOf
<1>3. PhaseOk(m) /\ tx[m].segs = lines /\ ~tx[m].dirty /\ IsSnoopingTransaction(tx[m].kind)
      /\ \A k \in Lines : snoop[m][k] = NoSnoop
  BY <1>1 DEF WorkInv, PhaseInv, PhaseOk, Active
<1>4. new.sent = ports /\ new.back = {}
  BY DEF NoSnoop
<1>5. PICK l0 \in lines : l0 = CHOOSE l \in lines : TRUE
  BY <1>2
<1> HIDE DEF new
<1>6. /\ \A x \in Masters \ {m} : tx'[x] = tx[x] /\ snoop'[x] = snoop[x]
      /\ tx'[m].phase = "snoop" /\ tx'[m].kind = tx[m].kind /\ tx'[m].rng = tx[m].rng
      /\ tx'[m].segs = tx[m].segs
      /\ \A k \in Lines : snoop'[m][k] = IF k \in lines THEN new ELSE snoop[m][k]
  BY <1>1 DEF Tx
<1>7. Elsewhere(m)
  BY <1>6, SameElsewhere
<1> HIDE DEF lines
<1>8. PhaseOk(m)'
  <2>1. \A k \in Lines : Active(m, k)' <=> k \in lines
    BY <1>3, <1>6 DEF Active
  <2>2. \A k \in Lines : /\ ~Active(m, k)' => snoop'[m][k] = NoSnoop
                         /\ snoop'[m][k].sent \cap snoop'[m][k].back = {}
                         /\ m \notin snoop'[m][k].sent \cup snoop'[m][k].back
    <3>1. NoSnoop.sent = {} /\ NoSnoop.back = {} /\ m \notin ports
      BY DEF NoSnoop
    <3>2. QED
      BY <1>3, <1>4, <1>6, <2>1, <3>1
  <2>3. QED
    BY <1>3, <1>6, <2>2 DEF PhaseOk, lines
<1>9. (\A x \in Range(snoopDone) : x[1] # m) /\ \A e \in Range(downstream) : e.m # m
  BY <1>1, NoWork DEF WorkInv
<1>10. /\ snoopDone' \in Seq(Masters \X Lines) /\ IsInjective(snoopDone')
       /\ \A x \in Range(snoopDone') :
             IF x[1] = m THEN Quiet(m, x[2])' ELSE x \in Range(snoopDone)
  <2>1. CASE ports = {}
    <3>1. <<m, l0>> \in Masters \X Lines /\ <<m, l0>>[1] = m /\ <<m, l0>>[2] = l0
      BY <1>2, <1>5
    <3>2. snoopDone' = Append(snoopDone, <<m, l0>>)
      BY <1>1, <1>5, <2>1
    <3>3. /\ snoopDone' \in Seq(Masters \X Lines) /\ IsInjective(snoopDone')
          /\ Range(snoopDone') = Range(snoopDone) \cup {<<m, l0>>}
      <4>1. <<m, l0>> \notin Range(snoopDone) /\ IsInjective(snoopDone)
        BY <1>9, <3>1 DEF WorkInv, DoneFifo
      <4>2. PICK x \in Masters \X Lines : x = <<m, l0>>
        BY <3>1
      <4>3. /\ Append(snoopDone, x) \in Seq(Masters \X Lines)
            /\ IsInjective(Append(snoopDone, x))
            /\ Range(Append(snoopDone, x)) = Range(snoopDone) \cup {x}
        <5>1. x \notin Range(snoopDone) /\ snoopDone \in Seq(Masters \X Lines)
          BY <1>1, <4>1, <4>2
        <5>2. QED
          BY ONLY <4>1, <5>1, AppendRange
      <4>4. QED
        BY <3>2, <4>2, <4>3
    <3>4. snoop'[m][l0] = new
      BY <1>2, <1>5, <1>6
    <3>5. Quiet(m, l0)'
      BY <1>3, <1>4, <1>5, <1>6, <2>1, <3>4 DEF Quiet, Active
    <3>6. QED
      BY <1>9, <3>1, <3>3, <3>5
  <2>2. CASE ports # {}
    BY <1>1, <1>9, <2>2 DEF WorkInv, DoneFifo
  <2>3. QED
    BY <2>1, <2>2
<1>11. DoneFifo' /\ DsFifo'
  BY <1>1, <1>7, <1>9, <1>10, WorkElsewhere DEF WorkInv, DsFifo
<1>12. OlderInv'
  <2>1. ASSUME NEW p \in older, p[1] # m, p[2] # m
        PROVE  tx'[p[1]].phase = tx'[p[2]].phase /\ tx'[p[1]].phase \in {"stalled", "engine"}
    BY <1>6, <2>1 DEF WorkInv, OlderInv, IcnTypeOK
  <2>2. QED
    BY <1>1, <2>1 DEF OlderInv, Forget
<1>13. QED
  BY <1>7, <1>8, <1>11, <1>12, PhaseElsewhere DEF WorkInv

\* A line is being snooped as long as a port has an answer to give or to merge.
LEMMA BusyActive ==
    ASSUME WorkInv, NEW m \in Masters, NEW l \in Lines,
           snoop[m][l].sent # {} \/ snoop[m][l].back # {}
    PROVE  Active(m, l) /\ ~Quiet(m, l) /\ <<m, l>> \notin Range(snoopDone)
<1>1. Active(m, l) /\ ~Quiet(m, l)
  BY DEF WorkInv, PhaseInv, PhaseOk, NoSnoop, Quiet
<1>2. <<m, l>>[1] = m /\ <<m, l>>[2] = l
  OBVIOUS
<1>3. QED
  BY <1>1, <1>2 DEF WorkInv, DoneFifo

\* An answer comes back, and then PortDone merges it.
LEMMA SnoopAnsweredWork ==
    ASSUME IcnTypeOK, WorkInv, NEW m \in Masters, NEW l \in Lines, NEW c \in Caches,
           NEW a, SnoopAnswered(m, l, c, a), c \in snoop[m][l].sent
    PROVE  WorkInv'
<1> DEFINE s == snoop[m][l]
<1>1. Active(m, l) /\ ~Quiet(m, l)
  BY BusyActive
<1>2. /\ snoop' = [snoop EXCEPT ![m][l] = [s EXCEPT !.sent = s.sent \ {c},
                              !.back = s.back \cup {c}, !.ans[c] = a]]
      /\ UNCHANGED <<tx, older, snoopDone, downstream>>
      /\ snoop \in [Masters -> [Lines -> Snoop]] /\ s \in Snoop
  BY DEF SnoopAnswered, IcnTypeOK
<1>3. /\ \A x \in Masters, k \in Lines : x # m \/ k # l => snoop'[x][k] = snoop[x][k]
      /\ snoop'[m][l].sent = s.sent \ {c} /\ snoop'[m][l].back = s.back \cup {c}
  BY <1>2 DEF Snoop
<1>4. Elsewhere(m)
  BY <1>2, <1>3, SameElsewhere
<1> HIDE DEF s
<1>5. PhaseOk(m)'
  <2>1. PhaseOk(m)
    BY DEF WorkInv, PhaseInv
  <2>2. \A k \in Lines : /\ ~Active(m, k)' => snoop'[m][k] = NoSnoop
                         /\ snoop'[m][k].sent \cap snoop'[m][k].back = {}
                         /\ m \notin snoop'[m][k].sent \cup snoop'[m][k].back
    BY <1>1, <1>2, <1>3, <2>1 DEF PhaseOk, Active, s
  <2>3. QED
    BY <1>2, <2>1, <2>2 DEF PhaseOk
<1>6. \A k \in Lines : Quiet(m, k) => Quiet(m, k)'
  BY <1>1, <1>2, <1>3 DEF Quiet, Active
<1>7. /\ snoopDone \in Seq(Masters \X Lines) /\ downstream \in Seq(DsEntry)
      /\ \A x \in Range(snoopDone) : x[2] \in Lines
      /\ \A e \in Range(downstream) : e.line \in Lines
  BY FifoTypes
<1>8. /\ \A x \in Range(snoopDone') :
             IF x[1] = m THEN Quiet(m, x[2])' ELSE x \in Range(snoopDone)
      /\ \A e \in Range(downstream') :
             IF e.m = m THEN Queued(e)' ELSE e \in Range(downstream)
  BY <1>2, <1>6, <1>7 DEF WorkInv, DoneFifo, DsFifo, Queued
<1>9. DoneFifo' /\ DsFifo'
  BY <1>2, <1>4, <1>7, <1>8, WorkElsewhere DEF WorkInv, DoneFifo, DsFifo
<1>10. OlderInv'
  BY <1>2, OlderKept DEF WorkInv
<1>11. QED
  BY <1>4, <1>5, <1>9, <1>10, PhaseElsewhere DEF WorkInv

LEMMA PortDoneWork ==
    ASSUME IcnTypeOK, WorkInv, NEW m \in Masters, NEW l \in Lines, NEW c \in Caches,
           PortDone(m, l, c)
    PROVE  WorkInv'
<1>1. /\ c \in snoop[m][l].back
      /\ snoopDone' = IF snoop[m][l].sent = {} /\ snoop[m][l].back = {c}
                      THEN Append(snoopDone, <<m, l>>) ELSE snoopDone
      /\ UNCHANGED <<older, downstream>>
  BY DEF PortDone
<1>2. Active(m, l) /\ ~Quiet(m, l) /\ <<m, l>> \notin Range(snoopDone)
  BY <1>1, BusyActive
<1>3. /\ \A x \in Masters \ {m} : tx'[x] = tx[x]
      /\ tx'[m].kind = tx[m].kind /\ tx'[m].rng = tx[m].rng
      /\ tx'[m].phase = tx[m].phase /\ tx'[m].segs = tx[m].segs
      /\ snoop'[m][l].sent = snoop[m][l].sent
      /\ snoop'[m][l].back = snoop[m][l].back \ {c}
      /\ \A x \in Masters, k \in Lines : x # m \/ k # l => snoop'[x][k] = snoop[x][k]
  BY PortDoneTypes DEF SameTx
<1>4. Elsewhere(m)
  BY <1>3, SameElsewhere
<1>5. PhaseOk(m)'
  <2>1. PhaseOk(m)
    BY DEF WorkInv, PhaseInv
  <2>2. \A k \in Lines : /\ ~Active(m, k)' => snoop'[m][k] = NoSnoop
                         /\ snoop'[m][k].sent \cap snoop'[m][k].back = {}
                         /\ m \notin snoop'[m][k].sent \cup snoop'[m][k].back
    BY <1>2, <1>3, <2>1 DEF PhaseOk, Active
  <2>3. QED
    BY <1>2, <1>3, <2>1, <2>2 DEF PhaseOk, Active
<1>6. \A k \in Lines : Quiet(m, k) => Quiet(m, k)' /\ k # l
  BY <1>2, <1>3 DEF Quiet, Active
<1>7. /\ snoopDone \in Seq(Masters \X Lines) /\ downstream \in Seq(DsEntry)
      /\ \A x \in Range(snoopDone) : x[2] \in Lines
      /\ \A e \in Range(downstream) : e.line \in Lines
  BY FifoTypes
<1>8. /\ snoopDone' \in Seq(Masters \X Lines) /\ IsInjective(snoopDone')
      /\ \/ Range(snoopDone') = Range(snoopDone)
         \/ Range(snoopDone') = Range(snoopDone) \cup {<<m, l>>} /\ Quiet(m, l)'
  <2>1. CASE snoop[m][l].sent = {} /\ snoop[m][l].back = {c}
    <3>1. Quiet(m, l)'
      BY <1>2, <1>3, <2>1 DEF Quiet, Active
    <3>2. <<m, l>> \in Masters \X Lines
      OBVIOUS
    <3>3. QED
      BY <1>1, <1>2, <1>7, <2>1, <3>1, <3>2, AppendRange DEF WorkInv, DoneFifo
  <2>2. CASE ~(snoop[m][l].sent = {} /\ snoop[m][l].back = {c})
    BY <1>1, <1>7, <2>2 DEF WorkInv, DoneFifo
  <2>3. QED
    BY <2>1, <2>2
<1>9. \A x \in Range(snoopDone') :
          IF x[1] = m THEN Quiet(m, x[2])' ELSE x \in Range(snoopDone)
  BY <1>6, <1>7, <1>8 DEF WorkInv, DoneFifo
<1>10. ASSUME NEW e \in Range(downstream'), e.m = m  PROVE Queued(e)'
  <2>1. e.line \in Lines /\ Queued(e) /\ ~e.own
    BY <1>1, <1>2, <1>7, <1>10 DEF WorkInv, DsFifo, Queued, Active
  <2>2. <<m, e.line>> # <<m, l>>
    BY <1>6, <1>10, <2>1 DEF Queued
  <2>3. QED
    BY <1>6, <1>8, <1>10, <2>1, <2>2 DEF Queued
<1>11. DoneFifo' /\ DsFifo'
  BY <1>1, <1>4, <1>7, <1>8, <1>9, <1>10, WorkElsewhere DEF WorkInv, DsFifo
<1>12. OlderInv'
  BY <1>1, <1>3, OlderKept DEF WorkInv
<1>13. QED
  BY <1>4, <1>5, <1>11, <1>12, PhaseElsewhere DEF WorkInv

(***************************************************************************)
(* finalize_snoop_tr: a line is done, and with the last line the           *)
(* transaction is done or goes downstream.                                 *)
(***************************************************************************)

\* A cache's transactions keep to one line; those of an ACE-Lite master are
\* snooped line by line.
LEMMA OneLine ==
    ASSUME AccessInv, NEW m \in Masters, tx[m].kind \notin CopyBackKinds, op[m] # NoOp
    PROVE  /\ m \in Caches => LinesOf(tx[m].rng) = {LineOf(op[m])}
           /\ ~Segmented(tx[m].kind) => LinesOf(tx[m].rng) = {LineOf(op[m])}
<1>1. Asks(m) /\ op[m] \in Op /\ tx[m].rng # {}
  BY AccessParts
<1>2. LineOf(op[m]) \in Lines /\ op[m].rng # {}
  BY <1>1, AccessFacts
<1>3. ASSUME m \in Caches  PROVE LinesOf(tx[m].rng) = {LineOf(op[m])}
  <2>1. op[m].rng \subseteq LineAddr(LineOf(op[m]))
    BY <1>1, <1>3, OpFacts DEF AccessInv, Asks
  <2>2. tx[m].rng = op[m].rng \/ tx[m].rng = LineAddr(LineOf(op[m]))
    BY <1>1, <1>3 DEF Asks, AsksRight, PayloadRange
  <2>3. \A a \in tx[m].rng : a[1] = LineOf(op[m])
    BY <2>1, <2>2 DEF LineAddr
  <2>4. QED
    BY <1>1, <2>3 DEF LinesOf
<1>4. m \notin Caches => Segmented(tx[m].kind)
  BY <1>1 DEF Asks, Masters, Segmented
<1>5. QED
  BY <1>3, <1>4

LEMMA FinalizedWork ==
    ASSUME IcnTypeOK, AccessInv, WorkInv, NEW m \in Masters, NEW l \in Lines, Quiet(m, l),
           NEW t, Refilled(t, m), NEW q \in Seq(DsEntry), Finalized(m, l, t, q),
           snoop' = [snoop EXCEPT ![m][l] = NoSnoop],
           IsInjective(snoopDone'), snoopDone' \in Seq(Masters \X Lines),
           Range(snoopDone') \subseteq Range(snoopDone), <<m, l>> \notin Range(snoopDone'),
           IsInjective(q), Range(q) \subseteq Range(downstream),
           [m |-> m, line |-> l, own |-> FALSE] \notin Range(q)
    PROVE  WorkInv'
<1> DEFINE left == Left(t, l)
           own == [m |-> m, line |-> l, own |-> TRUE]
<1>1. /\ tx[m].phase = "snoop" /\ l \in tx[m].segs /\ WellFormed(t)
      /\ t.phase = tx[m].phase /\ t.segs = tx[m].segs
      /\ SameTx(t, tx[m]) /\ SameAnswer(t, tx[m]) /\ PhaseOk(m)
      /\ tx[m].segs \subseteq LinesOf(tx[m].rng)
  BY DEF Refilled, Quiet, Active, WorkInv, PhaseInv, PhaseOk
<1>2. /\ tx'[m].kind = tx[m].kind /\ tx'[m].rng = tx[m].rng /\ tx'[m].segs = left
      /\ tx'[m].dirty = tx[m].dirty
  BY <1>1 DEF Finalized, SameTx, SameAnswer
<1>3. left = {} => tx[m].segs = {l}
  <2>1. CASE Segmented(t.kind)
    BY <1>1, <2>1 DEF Left
  <2>2. CASE ~Segmented(t.kind)
    <3>1. op[m] # NoOp /\ tx[m].kind = t.kind
      BY <1>1, AccessParts DEF SameTx
    <3>2. tx[m].kind \notin CopyBackKinds
      BY <1>1, KindClasses DEF PhaseOk, IsSnoopingTransaction, ReadKinds, CleanKinds,
                               CmoKinds, UniqueWriteKinds, CopyBackKinds
    <3>3. LinesOf(tx[m].rng) = {LineOf(op[m])}
      BY <2>2, <3>1, <3>2, OneLine
    <3>4. QED
      BY <1>1, <3>3
  <2>3. QED
    BY <2>1, <2>2
<1>4. left # {} => left = tx[m].segs \ {l}
  BY <1>1 DEF Left
<1> HIDE DEF left
<1>5. /\ \A x \in Masters, k \in Lines : x # m \/ k # l => snoop'[x][k] = snoop[x][k]
      /\ snoop'[m][l] = NoSnoop
  BY DEF IcnTypeOK
<1>6. \/ /\ left # {} /\ tx'[m].phase = "snoop"
         /\ \A x \in Masters \ {m} : tx'[x] = tx[x]
         /\ downstream' = q /\ UNCHANGED older
      \/ /\ left = {}
         /\ \E u : WellFormed(u) /\ SameTx(u, t) /\ SameAnswer(u, t) /\ Complete(m, u)
         /\ downstream' = q
      \/ /\ left = {} /\ tx'[m].phase = "ds"
         /\ \A x \in Masters \ {m} : tx'[x] = tx[x]
         /\ downstream' = Append(q, own) /\ UNCHANGED older
  BY <1>1 DEF Finalized, left
<1>7. Elsewhere(m) /\ OlderInv' /\ tx'[m].phase \in {"snoop", "ds", "resp"}
      /\ (left # {} => tx'[m].phase = "snoop")
      /\ (tx'[m].phase = "snoop" => left # {})
  <2>1. CASE \E u : WellFormed(u) /\ SameTx(u, t) /\ SameAnswer(u, t) /\ Complete(m, u)
    <3>1. PICK u : WellFormed(u) /\ Complete(m, u)
      BY <2>1
    <3>2. Completed(m, u) /\ OlderInv'
      BY <1>1, <3>1, CompleteParts, CompleteOlder DEF WorkInv
    <3>3. tx'[m].phase = "resp"
      BY <3>1, <3>2 DEF Completed, WellFormed, Tx
    <3>4. Elsewhere(m)
      BY <1>5, <3>1, <3>2, CompleteElsewhere
    <3>5. QED
      BY <1>6, <3>2, <3>3, <3>4
  <2>2. CASE ~\E u : WellFormed(u) /\ SameTx(u, t) /\ SameAnswer(u, t) /\ Complete(m, u)
    <3>1. /\ \A x \in Masters \ {m} : tx'[x] = tx[x]
          /\ UNCHANGED older
          /\ (left # {} /\ tx'[m].phase = "snoop") \/ (left = {} /\ tx'[m].phase = "ds")
      BY <1>6, <2>2
    <3>2. Elsewhere(m)
      BY <1>5, <3>1, SameElsewhere
    <3>3. OlderInv'
      BY <1>1, <3>1, OlderKept DEF WorkInv
    <3>4. QED
      BY <3>1, <3>2, <3>3
  <2>3. QED
    BY <2>1, <2>2
<1>8. \A k \in Lines : Active(m, k)' <=> Active(m, k) /\ k # l
  BY <1>1, <1>2, <1>3, <1>4, <1>7 DEF Active
<1>9. \A k \in Lines : Quiet(m, k) /\ k # l => Quiet(m, k)'
  BY <1>5, <1>8 DEF Quiet
<1>10. PhaseOk(m)'
  <2>1. \A k \in Lines : /\ ~Active(m, k)' => snoop'[m][k] = NoSnoop
                         /\ snoop'[m][k].sent \cap snoop'[m][k].back = {}
                         /\ m \notin snoop'[m][k].sent \cup snoop'[m][k].back
    <3>1. NoSnoop.sent = {} /\ NoSnoop.back = {}
      BY DEF NoSnoop
    <3>2. QED
      BY <1>1, <1>5, <1>8, <3>1 DEF PhaseOk
  <2>2. tx'[m].segs \subseteq LinesOf(tx'[m].rng)
    BY <1>1, <1>2, <1>4
  <2>3. tx'[m].phase \in {"snoop", "ds", "resp"} /\ IsSnoopingTransaction(tx'[m].kind)
    BY <1>1, <1>2, <1>7 DEF PhaseOk
  <2>4. QED
    BY <2>1, <2>2, <2>3 DEF PhaseOk
<1>11. \A x \in Range(snoopDone') : IF x[1] = m THEN Quiet(m, x[2])'
                                    ELSE x \in Range(snoopDone)
  <2>1. ASSUME NEW x \in Range(snoopDone'), x[1] = m  PROVE Quiet(m, x[2])'
    <3>1. x \in Range(snoopDone) /\ x \in Masters \X Lines
      BY FifoTypes, RangeIs
    <3>2. x[2] # l /\ x[2] \in Lines
      BY <2>1, <3>1
    <3>3. QED
      BY <1>9, <2>1, <3>1, <3>2 DEF WorkInv, DoneFifo
  <2>2. QED
    BY <2>1
<1>12. ASSUME NEW e \in Range(q), e.m = m  PROVE Queued(e)' /\ ~e.own
  <2>1. e \in Range(downstream) /\ e \in DsEntry /\ e.line \in Lines
    BY FifoTypes, RangeIs
  <2>2. Queued(e)
    BY <2>1 DEF WorkInv, DsFifo
  <2>3. ~e.own
    BY <1>1, <1>12, <2>2 DEF Queued
  <2>4. e.line # l
    <3>1. ASSUME e.line = l  PROVE e = [m |-> m, line |-> l, own |-> FALSE]
      BY <1>12, <2>1, <2>3, <3>1 DEF DsEntry
    <3>2. QED
      BY <3>1
  <2>5. QED
    BY <1>9, <1>12, <2>1, <2>2, <2>3, <2>4 DEF Queued
<1>13. /\ downstream' \in Seq(DsEntry) /\ IsInjective(downstream')
       /\ \/ Range(downstream') = Range(q)
          \/ tx'[m].phase = "ds" /\ Range(downstream') = Range(q) \cup {own}
  <2>1. CASE downstream' = q
    BY <2>1
  <2>2. CASE tx'[m].phase = "ds" /\ downstream' = Append(q, own)
    <3>1. own \in DsEntry /\ own.m = m /\ own.own
      BY DEF DsEntry
    <3>2. own \notin Range(q)
      BY <1>12, <3>1
    <3> HIDE DEF own
    <3>3. QED
      BY <2>2, <3>1, <3>2, AppendRange
  <2>3. QED
    BY <1>6, <2>1, <2>2
<1>14. own.m = m /\ own.own
  OBVIOUS
<1> HIDE DEF own
<1>15. \A e \in Range(downstream') :
          IF e.m = m THEN Queued(e)' ELSE e \in Range(downstream)
  <2>1. ASSUME NEW e \in Range(downstream')
        PROVE  IF e.m = m THEN Queued(e)' ELSE e \in Range(downstream)
    <3>1. CASE e \in Range(q)
      BY <1>12, <3>1
    <3>2. CASE e \notin Range(q)
      BY <1>13, <1>14, <3>2 DEF Queued
    <3>3. QED
      BY <3>1, <3>2
  <2>2. QED
    BY <2>1
<1>16. \A e, f \in Range(downstream') : e.m = m /\ f.m = m /\ e.own /\ f.own => e = f
  BY <1>12, <1>13
<1>17. DoneFifo' /\ DsFifo'
  BY <1>7, <1>11, <1>13, <1>15, <1>16, WorkElsewhere DEF WorkInv
<1>18. QED
  BY <1>7, <1>10, <1>17, PhaseElsewhere DEF WorkInv

LEMMA SnoopDoneWork ==
    ASSUME IcnTypeOK, AccessInv, WorkInv, SnoopDone
    PROVE  WorkInv' /\ IcnTypeOK' /\ \A x \in Masters : SameTx(tx'[x], tx[x])
<1>1. /\ snoopDone # <<>> /\ snoopDone' = Tail(snoopDone) /\ IsInjective(snoopDone)
      /\ snoopDone \in Seq(Masters \X Lines)
      /\ downstream \in Seq(DsEntry) /\ IsInjective(downstream)
  BY FifoTypes DEF SnoopDone, WorkInv, DoneFifo, DsFifo
<1>2. Head(snoopDone) \in Range(snoopDone) /\ Head(snoopDone) \in Masters \X Lines
  BY <1>1, RangeIs, HeadIn
<1>3. PICK m \in Masters, l \in Lines : Head(snoopDone) = <<m, l>>
  BY <1>2
<1> DEFINE e == [m |-> m, line |-> l, own |-> FALSE]
<1>4. Quiet(m, l) /\ <<m, l>> \in Range(snoopDone)
  BY <1>2, <1>3 DEF WorkInv, DoneFifo
<1>5. /\ snoopDone' \in Seq(Masters \X Lines) /\ IsInjective(snoopDone')
      /\ Range(snoopDone') = Range(snoopDone) \ {<<m, l>>}
  BY <1>1, <1>3, TailRange
<1>6. e \in DsEntry /\ e.m = m /\ e.line = l /\ ~e.own
  BY DEF DsEntry
<1>7. Head(snoopDone)[1] = m /\ Head(snoopDone)[2] = l /\ tx[m].phase = "snoop"
  BY <1>3, <1>4 DEF Quiet, Active
<1>8. /\ IcnTypeOK' /\ \A x \in Masters : SameTx(tx'[x], tx[x])
      /\ \/ /\ downstream' = Append(downstream, e)
            /\ UNCHANGED <<tx, older, snoop, overlap>>
         \/ /\ Finalized(m, l, tx[m], downstream)
            /\ snoop' = [snoop EXCEPT ![m][l] = NoSnoop]
  BY <1>7, SnoopDoneTypes
<1> HIDE DEF e
<1>9. e \notin Range(downstream)
  <2>1. ~Queued(e)
    BY <1>4, <1>6 DEF Queued
  <2>2. QED
    BY <2>1 DEF WorkInv, DsFifo
<1>10. CASE /\ downstream' = Append(downstream, e)
            /\ UNCHANGED <<tx, older, snoop, overlap>>
  <2>1. /\ downstream' \in Seq(DsEntry) /\ IsInjective(downstream')
        /\ Range(downstream') = Range(downstream) \cup {e}
    BY <1>1, <1>6, <1>9, <1>10, AppendRange
  <2>2. \A x, k : Quiet(x, k)' <=> Quiet(x, k)
    BY <1>10 DEF Quiet, Active
  <2>3. DoneFifo'
    BY <1>5, <2>2 DEF WorkInv, DoneFifo
  <2>4. Queued(e)'
    BY <1>4, <1>5, <1>6, <2>2 DEF Queued
  <2>5. \A f \in Range(downstream) : Queued(f)'
    BY <1>5, <1>10, <2>2 DEF WorkInv, DsFifo, Queued
  <2>6. DsFifo'
    BY <1>6, <2>1, <2>4, <2>5 DEF WorkInv, DsFifo
  <2>7. PhaseInv' /\ OlderInv'
    BY <1>10 DEF WorkInv, PhaseInv, PhaseOk, Active, OlderInv
  <2>8. QED
    BY <1>8, <2>3, <2>6, <2>7 DEF WorkInv
<1>11. CASE /\ Finalized(m, l, tx[m], downstream)
            /\ snoop' = [snoop EXCEPT ![m][l] = NoSnoop]
  <2>1. Refilled(tx[m], m)
    BY RefilledSelf
  <2>2. <<m, l>> \notin Range(snoopDone') /\ Range(snoopDone') \subseteq Range(snoopDone)
    BY <1>5
  <2>3. QED
    BY <1>1, <1>4, <1>5, <1>8, <1>9, <1>11, <2>1, <2>2, FinalizedWork DEF e
<1>12. QED
  BY <1>8, <1>10, <1>11

(***************************************************************************)
(* downstream_port_thread takes the head of its fifo.                      *)
(***************************************************************************)
LEMMA DsSnoopWork ==
    ASSUME IcnTypeOK, AccessInv, WorkInv, DsSnoop
    PROVE  WorkInv' /\ IcnTypeOK' /\ \A x \in Masters : SameTx(tx'[x], tx[x])
<1>1. /\ downstream # <<>> /\ ~Head(downstream).own /\ IsInjective(downstream)
      /\ downstream \in Seq(DsEntry) /\ UNCHANGED snoopDone
      /\ snoopDone \in Seq(Masters \X Lines) /\ IsInjective(snoopDone)
  BY FifoTypes DEF DsSnoop, WorkInv, DoneFifo, DsFifo
<1>2. Head(downstream) \in Range(downstream) /\ Head(downstream) \in DsEntry
  BY <1>1, RangeIs, HeadIn
<1>3. PICK m \in Masters, l \in Lines : Head(downstream) = [m |-> m, line |-> l, own |-> FALSE]
  BY <1>1, <1>2 DEF DsEntry
<1>4. Head(downstream).m = m /\ Head(downstream).line = l
  BY <1>3
<1>5. Quiet(m, l) /\ <<m, l>> \notin Range(snoopDone)
  <2>1. Queued(Head(downstream))
    BY <1>2 DEF WorkInv, DsFifo
  <2>2. QED
    BY <1>1, <1>4, <2>1 DEF Queued
<1>6. /\ Tail(downstream) \in Seq(DsEntry) /\ IsInjective(Tail(downstream))
      /\ Range(Tail(downstream)) = Range(downstream) \ {[m |-> m, line |-> l, own |-> FALSE]}
  BY <1>1, <1>3, TailRange
<1>7. /\ IcnTypeOK' /\ \A x \in Masters : SameTx(tx'[x], tx[x])
      /\ snoop' = [snoop EXCEPT ![m][l] = NoSnoop]
      /\ \E t : Refilled(t, m) /\ Finalized(m, l, t, Tail(downstream))
  BY <1>4, <1>5, DsSnoopTypes DEF Quiet, Active
<1>8. PICK t : Refilled(t, m) /\ Finalized(m, l, t, Tail(downstream))
  BY <1>7
<1>9. WorkInv'
  <2> DEFINE q == Tail(downstream)
  <2>1. /\ [m |-> m, line |-> l, own |-> FALSE] \notin Range(q)
        /\ Range(q) \subseteq Range(downstream) /\ q \in Seq(DsEntry) /\ IsInjective(q)
        /\ Finalized(m, l, t, q)
    BY <1>6, <1>8
  <2> HIDE DEF q
  <2>2. QED
    BY <1>1, <1>5, <1>7, <1>8, <2>1, FinalizedWork
<1>10. QED
  BY <1>7, <1>9

LEMMA DsOwnWork ==
    ASSUME IcnTypeOK, AccessInv, WorkInv, DsOwn
    PROVE  WorkInv' /\ IcnTypeOK' /\ \A x \in Masters : SameTx(tx'[x], tx[x])
<1>1. /\ downstream # <<>> /\ Head(downstream).own /\ IsInjective(downstream)
      /\ downstream \in Seq(DsEntry) /\ UNCHANGED <<snoop, snoopDone>>
      /\ downstream' = Tail(downstream)
      /\ snoopDone \in Seq(Masters \X Lines) /\ IsInjective(snoopDone)
  BY FifoTypes DEF DsOwn, WorkInv, DoneFifo, DsFifo
<1>2. Head(downstream) \in Range(downstream) /\ Head(downstream) \in DsEntry
  BY <1>1, RangeIs, HeadIn
<1>3. PICK m \in Masters : Head(downstream).m = m
  BY <1>2 DEF DsEntry
<1>4. tx[m].phase = "ds"
  <2>1. Queued(Head(downstream))
    BY <1>2 DEF WorkInv, DsFifo
  <2>2. QED
    BY <1>1, <1>3, <2>1 DEF Queued
<1>5. /\ downstream' \in Seq(DsEntry) /\ IsInjective(downstream')
      /\ Range(downstream') = Range(downstream) \ {Head(downstream)}
  BY <1>1, TailRange
<1>6. /\ IcnTypeOK' /\ \A x \in Masters : SameTx(tx'[x], tx[x])
      /\ \E t : Refilled(t, m) /\ Complete(m, t)
  BY <1>3, <1>4, DsOwnTypes
<1>7. PICK t : Refilled(t, m) /\ Complete(m, t)
  BY <1>6
<1>8. Completed(m, t) /\ WellFormed(t) /\ OlderInv'
  BY <1>4, <1>7, CompleteParts, CompleteOlder DEF Refilled, WorkInv
<1>9. Elsewhere(m)
  BY <1>1, <1>8, CompleteElsewhere
<1>10. tx'[m].phase = "resp" /\ tx'[m].kind = tx[m].kind /\ tx'[m].rng = tx[m].rng
       /\ tx'[m].segs = tx[m].segs
  BY <1>7, <1>8 DEF Completed, Refilled, WellFormed, SameTx, Tx
<1>11. PhaseOk(m)'
  <2>1. PhaseOk(m) /\ \A k \in Lines : ~Active(m, k) /\ ~Active(m, k)'
    BY <1>4, <1>10 DEF Active, WorkInv, PhaseInv
  <2>2. QED
    BY <1>1, <1>10, <2>1 DEF PhaseOk
<1>12. \A x \in Range(snoopDone) : x[1] # m
  BY <1>4 DEF WorkInv, DoneFifo, Quiet, Active
<1>13. \A e \in Range(downstream) : e.m = m => e = Head(downstream)
  BY <1>1, <1>2, <1>3, <1>4 DEF WorkInv, DsFifo, Queued, Quiet, Active
<1>14. DoneFifo' /\ DsFifo'
  <2>1. \A e \in Range(downstream') : e.m # m /\ e \in Range(downstream)
    BY <1>5, <1>13
  <2>2. QED
    BY <1>1, <1>5, <1>9, <1>12, <2>1, WorkElsewhere DEF WorkInv
<1>15. QED
  BY <1>6, <1>8, <1>9, <1>11, <1>14, PhaseElsewhere DEF WorkInv

-----------------------------------------------------------------------------
(***************************************************************************)
(* The inductive invariant and its steps.                                  *)
(***************************************************************************)
BaseInv == TypeOK /\ AccessInv /\ SlotInv /\ WorkInv

LEMMA BaseInit == Init => BaseInv
<1> SUFFICES ASSUME Init  PROVE BaseInv
  OBVIOUS
<1>1. BlankLine \in LineData /\ InitValue \in Values
  BY ProtocolAssumption DEF BlankLine, LineData
<1>2. ASSUME NEW i \in Slots
      PROVE  [valid |-> FALSE, tag |-> CHOOSE l \in Lines : TRUE, shared |-> FALSE,
              dirty |-> FALSE, data |-> BlankLine] \in CacheLine
  BY <1>1 DEF CacheLine, Slots
<1>3. CacheTypeOK
  <2>1. cacheline \in [Caches -> [Slots -> CacheLine]]
    BY <1>2 DEF Init, CacheInit
  <2>2. QED
    BY <2>1 DEF CacheTypeOK, Init, CacheInit
<1>4. IcnTypeOK
  <2>1. /\ tx \in [Masters -> Tx]
        /\ \A m \in Masters : tx[m].data \in [tx[m].rng -> Values]
    BY NoTxType DEF Init, IcnInit, WellFormed
  <2>2. snoop \in [Masters -> [Lines -> Snoop]]
    BY NoSnoopType DEF Init, IcnInit
  <2>3. overlap \in [Caches -> [Lines -> Seq(Masters)]]
    BY DEF Init, IcnInit
  <2>4. snoopDone \in Seq(Masters \X Lines) /\ downstream \in Seq(DsEntry)
    BY DEF Init, IcnInit
  <2>5. /\ older \in SUBSET (Masters \X Masters) /\ memory \in [Addr -> Values]
        /\ posSet \in [Caches -> BOOLEAN] /\ posLock \in BOOLEAN
    BY <1>1 DEF Init, IcnInit
  <2>6. QED
    BY <2>1, <2>2, <2>3, <2>4, <2>5 DEF IcnTypeOK
<1>5. latest \in [Addr -> Values]
  BY <1>1 DEF Init
<1>6. AccessInv
  <2>1. \A m \in Masters : tx[m].phase = "idle" /\ tx[m].kind = "none"
    BY DEF Init, IcnInit, NoTx
  <2>2. \A m \in Masters : op[m] = NoOp /\ want[m] \in WantKinds
    BY NoTxType DEF Init, CacheInit
  <2>3. QED
    BY <2>1, <2>2 DEF AccessInv, Init
<1>7. SlotInv
  BY DEF SlotInv, Init, CacheInit
<1>8. PhaseInv
  <2>1. \A m \in Masters : tx[m].phase = "idle" /\ tx[m].segs = {} /\ tx[m].rng = {}
    BY DEF Init, IcnInit, NoTx
  <2>2. \A m \in Masters, l \in Lines : snoop[m][l] = NoSnoop
    BY DEF Init, IcnInit
  <2>3. NoSnoop.sent = {} /\ NoSnoop.back = {}
    BY DEF NoSnoop
  <2>4. QED
    BY <2>1, <2>2, <2>3 DEF PhaseInv, PhaseOk
<1>9. DoneFifo /\ DsFifo /\ OlderInv
  <2>1. snoopDone = <<>> /\ downstream = <<>> /\ older = {}
    BY DEF Init, IcnInit
  <2>2. Range(<<>>) = {} /\ IsInjective(<<>>)
    BY DEF Range, IsInjective
  <2>3. QED
    BY <2>1, <2>2 DEF DoneFifo, DsFifo, OlderInv
<1>10. QED
  BY <1>3, <1>4, <1>5, <1>6, <1>7, <1>8, <1>9 DEF BaseInv, TypeOK, WorkInv

\* The transaction that follows an outcome.
LEMMA NextTxTurn ==
    ASSUME NEW o \in Op, NEW r \in Result
    PROVE  /\ WellFormed(NextTx(o, r)) /\ NextTx(o, r).phase \in {"idle", "req"}
           /\ NextTx(o, r).segs = LinesOf(NextTx(o, r).rng)
           /\ NextTx(o, r).dirty = FALSE
<1>1. CASE r.req = "none"
  BY <1>1, NoTxType DEF NextTx, NoTx, LinesOf
<1>2. CASE r.req # "none"
  <2>1. NextTx(o, r).dirty \in BOOLEAN
    BY <1>2, NextTxParts DEF WellFormed, Tx
  <2>2. QED
    BY <1>2, <2>1, NextTxParts
<1>3. QED
  BY <1>1, <1>2

\* A step of the thread of cache c, with outcome r.
LEMMA CacheTurn ==
    ASSUME BaseInv, IcnTypeOK', NEW c \in Caches, tx[c].phase \in {"idle", "resp"},
           NEW o \in traffic[c], NEW r \in Result, WellAsked(r),
           r.req = "CleanUnique" => r.ln.tag = LineOf(o),
           r.req \in CopyBackKinds => r.ln.valid,
           r.ln.valid => Index[r.ln.tag] = Index[LineOf(o)],
           CacheStep(c, o, r), tx' = [tx EXCEPT ![c] = NextTx(o, r)],
           UNCHANGED <<snoop, snoopDone, downstream, older>>,
           NEW d, CacheHistory(c, o, r, d)
    PROVE  BaseInv'
<1>1. /\ IcnTypeOK /\ CacheTypeOK /\ AccessInv /\ SlotInv /\ WorkInv
      /\ latest \in [Addr -> Values] /\ tx \in [Masters -> Tx] /\ c \in Masters
  BY CachesAreMasters DEF BaseInv, TypeOK, IcnTypeOK
<1>2. traffic' = traffic
  BY DEF CacheHistory, Observe
<1>3. CacheTypeOK' /\ AccessInv' /\ SlotInv'
  BY <1>1, <1>2, CacheStepAsks
<1>4. o \in Op
  BY <1>1, OpFacts DEF AccessInv
<1>5. PICK t : t = NextTx(o, r)
  OBVIOUS
<1>6. t.phase \in {"idle", "req"} /\ t.segs = LinesOf(t.rng) /\ ~t.dirty
  BY <1>4, <1>5, NextTxTurn
<1>7. WorkInv'
  BY <1>1, <1>5, <1>6, TurnWork
<1>8. latest' \in [Addr -> Values]
  <2>1. o.val \in Values
    BY <1>4, AccessFacts
  <2>2. Stored(o) \in [Addr -> Values]
    BY <1>1, <2>1 DEF Stored
  <2>3. latest' = Stored(o) \/ latest' = latest
    BY DEF CacheHistory
  <2>4. QED
    BY <1>1, <2>2, <2>3
<1>9. QED
  BY <1>3, <1>7, <1>8 DEF BaseInv, TypeOK

LEMMA CacheStartBase ==
    ASSUME BaseInv, NEW c \in Caches, CacheStart(c)
    PROVE  BaseInv' /\ \E o \in traffic[c] : o \in Op /\
              Looked(o, get_line(c, LineOf(o)), b_transport(c, o))
<1>1. PICK o \in traffic[c] :
        /\ CacheStep(c, o, b_transport(c, o))
        /\ tx' = [tx EXCEPT ![c] = NextTx(o, b_transport(c, o))]
        /\ CacheHistory(c, o, b_transport(c, o), Nothing)
  BY DEF CacheStart
<1>2. /\ op[c] = NoOp
      /\ UNCHANGED <<older, snoop, snoopDone, downstream, overlap, memory, posSet, posLock>>
  BY DEF CacheStart
<1>3. /\ IcnTypeOK /\ CacheTypeOK /\ AccessInv /\ SlotInv /\ c \in Masters
      /\ tx[c].phase = "idle"
  BY <1>2, CachesAreMasters DEF BaseInv, TypeOK, AccessInv
<1>4. o \in Op
  BY <1>3, OpFacts DEF AccessInv
<1> DEFINE ln == get_line(c, LineOf(o))
<1>5. Index[LineOf(o)] \in Slots /\ LineOf(o) \in Lines
  BY <1>4, AccessFacts, SlotOf
<1>6. ln \in CacheLine /\ toggle[c] \in BOOLEAN /\ monitor[c] \in SUBSET Addr
      /\ (ln.valid => Index[ln.tag] = Index[LineOf(o)])
  BY <1>3, <1>5 DEF CacheTypeOK, get_line, SlotInv
<1> HIDE DEF ln
<1>7. PICK r : r = b_transport(c, o)
  OBVIOUS
<1>8. Looked(o, ln, r)
  BY <1>4, <1>6, <1>7, TransportLooked DEF ln
<1>9. /\ r \in Result /\ WellAsked(r)
      /\ r.req = "CleanUnique" => r.ln.tag = LineOf(o)
      /\ r.req \in CopyBackKinds => r.ln.valid
      /\ r.ln.valid => Index[r.ln.tag] = Index[LineOf(o)]
  BY <1>6, <1>8 DEF Looked, Holds
<1>10. IcnTypeOK'
  <2>1. WellFormed(NextTx(o, r))
    BY <1>4, <1>9, NextTxTurn
  <2>2. PICK t : t = NextTx(o, r)
    OBVIOUS
  <2>3. /\ tx' = [tx EXCEPT ![c] = t] /\ t \in Tx /\ t.data \in [t.rng -> Values]
        /\ tx \in [Masters -> Tx] /\ \A x \in Masters : tx[x].data \in [tx[x].rng -> Values]
    BY <1>1, <1>3, <1>7, <2>1, <2>2 DEF WellFormed, IcnTypeOK
  <2>4. tx' \in [Masters -> Tx] /\ \A x \in Masters : tx'[x].data \in [tx'[x].rng -> Values]
    BY <1>3, <2>3
  <2>5. QED
    BY <1>2, <1>3, <2>4 DEF IcnTypeOK
<1>11. BaseInv'
  BY <1>1, <1>2, <1>3, <1>7, <1>9, <1>10, CacheTurn
<1>12. QED
  BY <1>4, <1>7, <1>8, <1>11 DEF ln

\* The response that cache c takes, and what follows from it.
LEMMA ResponseFacts ==
    ASSUME BaseInv, NEW c \in Caches, tx[c].phase = "resp"
    PROVE  /\ op[c] \in Op /\ op[c] \in traffic[c] /\ AsksRight(c)
           /\ tx[c].kind \in TxKinds /\ LineOf(op[c]) \in Lines
           /\ Index[LineOf(op[c])] \in Slots /\ LineIn(c) \in CacheLine
           /\ LineIn(c).valid => Index[LineIn(c).tag] = Index[LineOf(op[c])]
           /\ Answered(op[c], LineIn(c), tx[c], Response(c, tx[c]))
<1>1. IcnTypeOK /\ CacheTypeOK /\ AccessInv /\ SlotInv /\ c \in Masters
  BY CachesAreMasters DEF BaseInv, TypeOK
<1>2. /\ op[c] \in Op /\ Asks(c) /\ tx[c].kind \in TxKinds /\ AsksRight(c)
      /\ op[c] \in traffic[c]
  BY <1>1, AccessParts DEF Asks
<1>3. op[c].rng \subseteq LineAddr(LineOf(op[c]))
  BY <1>1, <1>2, OpFacts DEF AccessInv
<1>4. LineOf(op[c]) \in Lines /\ Index[LineOf(op[c])] \in Slots
  BY <1>2, AccessFacts, SlotOf
<1>5. LineIn(c) \in CacheLine /\ (LineIn(c).valid => Index[LineIn(c).tag] = Index[LineOf(op[c])])
  BY <1>1, <1>4 DEF CacheTypeOK, LineIn, get_line, SlotInv
<1>6. /\ toggle[c] \in BOOLEAN /\ monitor[c] \in SUBSET Addr /\ want[c] \in WantKinds
      /\ tx[c].shared \in BOOLEAN /\ tx[c].dirty \in BOOLEAN /\ tx[c].exokay \in BOOLEAN
      /\ tx[c].data \in [tx[c].rng -> Values]
  BY <1>1 DEF CacheTypeOK, IcnTypeOK, AccessInv, Tx
<1>7. tx[c].kind \in FillKinds => ToLine(tx[c].data, LineOf(op[c])) \in LineData
  <2>1. ASSUME tx[c].kind \in FillKinds  PROVE tx[c].rng = LineAddr(LineOf(op[c]))
    BY <1>2, <2>1, KindClasses DEF AsksRight, PayloadRange
  <2>2. QED
    BY <1>4, <1>6, <2>1 DEF ToLine, LineData, LineAddr
<1>8. Answered(op[c], LineIn(c), tx[c], Response(c, tx[c]))
  BY <1>2, <1>3, <1>5, <1>6, <1>7, ResponseAnswered DEF AsksRight, LineIn
<1>9. QED
  BY <1>2, <1>4, <1>5, <1>8

LEMMA CacheResumeBase ==
    ASSUME BaseInv, NEW c \in Caches, CacheResume(c)
    PROVE  BaseInv'
<1>1. PICK o, r : o = op[c] /\ r = Response(c, tx[c])
  OBVIOUS
<1>2. /\ tx[c].phase = "resp" /\ CacheStep(c, o, r) /\ Deliver(c, NextTx(o, r))
      /\ CacheHistory(c, o, r, tx[c].data)
  BY <1>1 DEF CacheResume, ResponseReady
<1>3. /\ IcnTypeOK /\ c \in Masters
  BY CachesAreMasters DEF BaseInv, TypeOK
<1>4. PICK ln : ln = LineIn(c)
  OBVIOUS
<1>5. /\ o \in Op /\ o \in traffic[c] /\ AsksRight(c)
      /\ ln \in CacheLine /\ (ln.valid => Index[ln.tag] = Index[LineOf(o)])
      /\ Answered(o, ln, tx[c], r) /\ tx[c].kind \in TxKinds
  BY <1>1, <1>2, <1>4, ResponseFacts
<1>6. r \in Result /\ WellAsked(r) /\ (r.req = "CleanUnique" => r.ln.tag = LineOf(o))
  BY <1>5 DEF Answered
<1>7. r.req \in CopyBackKinds => r.ln.valid
  <2>1. tx[c].kind = "WriteClean" => ln.valid
    BY <1>4, <1>5, KindClasses DEF AsksRight
  <2>2. QED
    BY <1>5, <2>1 DEF Answered
<1>8. r.ln.valid => Index[r.ln.tag] = Index[LineOf(o)]
  <2>1. CASE tx[c].kind \in FillKinds
    BY <1>5, <2>1 DEF Answered
  <2>2. CASE tx[c].kind = "CleanUnique"
    BY <1>1, <1>4, <1>5, <2>2, KindClasses DEF Answered, AsksRight
  <2>3. CASE tx[c].kind \in CopyBackKinds
    BY <1>5, <2>3, KindClasses DEF Answered
  <2>4. CASE tx[c].kind \in UniqueWriteKinds \cup CmoKinds \cup NoSnoopKinds
    BY <1>5, <2>4 DEF Answered
  <2>5. QED
    BY <1>5, <2>1, <2>2, <2>3, <2>4, KindClasses DEF AsksRight
<1>9. IcnTypeOK'
  BY <1>2, <1>3, <1>5, <1>6, NextTxTurn, DeliverTypes
<1>10. /\ tx' = [tx EXCEPT ![c] = NextTx(o, r)]
       /\ UNCHANGED <<snoop, snoopDone, downstream, older>>
  BY <1>2 DEF Deliver
<1>11. QED
  BY <1>2, <1>5, <1>6, <1>7, <1>8, <1>9, <1>10, CacheTurn

LEMMA LiteBase ==
    ASSUME BaseInv, NEW m \in LiteMasters, LiteStart(m) \/ LiteResume(m)
    PROVE  BaseInv'
<1>1. /\ IcnTypeOK /\ CacheTypeOK /\ AccessInv /\ SlotInv /\ WorkInv
      /\ latest \in [Addr -> Values] /\ tx \in [Masters -> Tx] /\ m \in Masters
  BY CachesAreMasters DEF BaseInv, TypeOK, IcnTypeOK
<1>2. /\ UNCHANGED <<cacheline, toggle, monitor, want, traffic, latest>>
      /\ UNCHANGED <<snoop, snoopDone, downstream, older>>
  BY DEF LiteStart, LiteResume, Deliver, NoEffect, Observe
<1>3. PICK t : /\ tx' = [tx EXCEPT ![m] = t]
               /\ WellFormed(t) /\ t.phase \in {"idle", "req"} /\ t.segs = LinesOf(t.rng)
               /\ t.dirty = FALSE /\ tx[m].phase \in {"idle", "resp"} /\ IcnTypeOK'
               /\ \/ op' = [op EXCEPT ![m] = NoOp] /\ t = NoTx
                  \/ \E o \in traffic[m] : op' = [op EXCEPT ![m] = o] /\ t = LiteTx(o)
  <2>1. CASE LiteStart(m)
    <3>1. PICK o \in traffic[m] : op' = [op EXCEPT ![m] = o] /\ tx' = [tx EXCEPT ![m] = LiteTx(o)]
      BY <2>1 DEF LiteStart
    <3>2. o \in Op
      BY <1>1, OpFacts DEF AccessInv
    <3>3. PICK t : t = LiteTx(o)
      OBVIOUS
    <3>4. /\ WellFormed(t) /\ t.phase = "req" /\ t.segs = LinesOf(t.rng) /\ ~t.dirty
          /\ t \in Tx
      BY <3>2, <3>3, LiteTxParts DEF WellFormed
    <3>5. tx[m].phase = "idle"
      BY <1>1, <2>1 DEF LiteStart, AccessInv
    <3>6. tx' \in [Masters -> Tx] /\ \A x \in Masters : tx'[x].data \in [tx'[x].rng -> Values]
      BY <1>1, <3>1, <3>3, <3>4 DEF WellFormed, IcnTypeOK
    <3>7. IcnTypeOK'
      BY <1>1, <2>1, <3>6 DEF LiteStart, IcnTypeOK
    <3>8. t.dirty = FALSE
      BY <3>4 DEF Tx
    <3>9. QED
      BY <3>1, <3>3, <3>4, <3>5, <3>7, <3>8
  <2>2. CASE LiteResume(m)
    <3>1. /\ op' = [op EXCEPT ![m] = NoOp] /\ tx' = [tx EXCEPT ![m] = NoTx]
          /\ Deliver(m, NoTx) /\ tx[m].phase = "resp"
      BY <2>2 DEF LiteResume, Deliver, ResponseReady
    <3>2. WellFormed(NoTx) /\ NoTx.phase = "idle" /\ NoTx.segs = LinesOf(NoTx.rng)
          /\ NoTx.dirty = FALSE
      BY NoTxType DEF NoTx, LinesOf
    <3>3. IcnTypeOK'
      BY <1>1, <3>1, <3>2, DeliverTypes
    <3>4. QED
      BY <3>1, <3>2, <3>3
  <2>3. QED
    BY <2>1, <2>2
<1>4. CacheTypeOK' /\ AccessInv'
  BY <1>1, <1>2, <1>3, LiteAsks
<1>5. WorkInv'
  BY <1>1, <1>2, <1>3, TurnWork
<1>6. SlotInv'
  BY <1>1, <1>2 DEF SlotInv
<1>7. QED
  BY <1>1, <1>2, <1>3, <1>4, <1>5, <1>6 DEF BaseInv, TypeOK

\* A snoop is answered: what the line becomes, and that nothing else changes.
LEMMA SnoopSteps ==
    ASSUME CacheTypeOK, NEW c \in Caches, NEW l \in Lines, NEW kind, CacheSnoop(c, kind, l)
    PROVE  /\ CacheTypeOK' /\ UNCHANGED <<op, want>>
           /\ \A d \in Caches, i \in Slots :
                 /\ cacheline'[d][i].tag = cacheline[d][i].tag
                 /\ cacheline'[d][i].valid => cacheline[d][i].valid
                 /\ d # c \/ i # Index[l] => cacheline'[d][i] = cacheline[d][i]
           /\ get_line(c, l)' = IF in_cache(c, l) THEN SnoopedLine(kind, get_line(c, l))
                                                  ELSE get_line(c, l)
           /\ \A d \in Caches \ {c} : monitor'[d] = monitor[d]
           /\ monitor'[c] \subseteq monitor[c]
<1> DEFINE i0 == Index[l]
           ln == SnoopedLine(kind, get_line(c, l))
           mon == SnoopedMonitor(kind, l, monitor[c])
<1>1. i0 \in Slots
  BY SlotOf
<1>2. cacheline \in [Caches -> [Slots -> CacheLine]] /\ monitor \in [Caches -> SUBSET Addr]
      /\ UNCHANGED <<toggle, op, want>>
  BY DEF CacheTypeOK, CacheSnoop
<1>3. get_line(c, l) = cacheline[c][i0] /\ cacheline[c][i0] \in CacheLine
      /\ get_line(c, l)' = cacheline'[c][i0]
  BY <1>1, <1>2 DEF get_line
<1>4. CASE in_cache(c, l)
  <2>1. cacheline' = [cacheline EXCEPT ![c][i0] = ln] /\ monitor' = [monitor EXCEPT ![c] = mon]
    BY <1>4 DEF CacheSnoop
  <2>2. ln \in CacheLine /\ ln.tag = cacheline[c][i0].tag
        /\ (ln.valid => cacheline[c][i0].valid)
    BY <1>3, SnoopedParts
  <2>3. mon \subseteq monitor[c] /\ mon \in SUBSET Addr
    BY <1>2 DEF SnoopedMonitor
  <2> HIDE DEF ln, mon, i0
  <2>4. cacheline' \in [Caches -> [Slots -> CacheLine]] /\ monitor' \in [Caches -> SUBSET Addr]
    BY <1>1, <1>2, <2>1, <2>2, <2>3
  <2>5. \A d \in Caches, i \in Slots :
           cacheline'[d][i] = IF d = c /\ i = i0 THEN ln ELSE cacheline[d][i]
    BY <1>1, <1>2, <2>1
  <2>6. CacheTypeOK'
    BY <1>2, <2>4 DEF CacheTypeOK
  <2>7. /\ \A d \in Caches \ {c} : monitor'[d] = monitor[d]
        /\ monitor'[c] \subseteq monitor[c]
    BY <1>2, <2>1, <2>3
  <2>8. get_line(c, l)' = ln
    BY <1>1, <1>3, <2>5
  <2>9. QED
    BY <1>2, <1>4, <2>2, <2>5, <2>6, <2>7, <2>8 DEF ln, i0
<1>5. CASE ~in_cache(c, l)
  <2>1. UNCHANGED <<cacheline, monitor>>
    BY <1>5 DEF CacheSnoop
  <2>2. CacheTypeOK' /\ get_line(c, l)' = get_line(c, l)
    BY <1>2, <2>1 DEF CacheTypeOK, get_line
  <2>3. QED
    BY <1>2, <1>5, <2>1, <2>2
<1>6. QED
  BY <1>4, <1>5

LEMMA SnoopMasterBase ==
    ASSUME BaseInv, NEW m \in Masters, NEW l \in Lines, NEW c \in Caches,
           SnoopMaster(m, l, c)
    PROVE  BaseInv'
<1>1. /\ IcnTypeOK /\ CacheTypeOK /\ AccessInv /\ SlotInv /\ WorkInv
      /\ latest \in [Addr -> Values]
  BY DEF BaseInv, TypeOK
<1>2. PICK kind, a : /\ CacheSnoop(c, kind, l) /\ SnoopAnswered(m, l, c, a)
                     /\ a = IF in_cache(c, l) THEN SnoopAnswer(kind, get_line(c, l))
                                              ELSE BlankAnswer
  BY DEF SnoopMaster
<1>3. ~write_ongoing(c) /\ c \in snoop[m][l].sent /\ UNCHANGED <<traffic, latest>>
  BY DEF SnoopMaster, SnoopReady, NoEffect, Observe
<1>4. a \in Answer
  <2>1. get_line(c, l) \in CacheLine
    BY <1>1, SlotOf DEF CacheTypeOK, get_line
  <2>2. QED
    BY <1>2, <2>1, AnswerType
<1>5. IcnTypeOK' /\ UNCHANGED tx /\ WorkInv'
  BY <1>1, <1>2, <1>3, <1>4, SnoopAnsweredTypes, SnoopAnsweredWork
<1>6. /\ CacheTypeOK' /\ UNCHANGED <<op, want>>
      /\ \A d \in Caches, i \in Slots :
            /\ cacheline'[d][i].tag = cacheline[d][i].tag
            /\ cacheline'[d][i].valid => cacheline[d][i].valid
            /\ d # c => cacheline'[d][i] = cacheline[d][i]
  BY <1>1, <1>2, SnoopSteps
<1>7. \A x \in Masters : SameTx(tx'[x], tx[x])
  BY <1>5 DEF SameTx
<1>8. AccessInv'
  BY <1>1, <1>3, <1>6, <1>7, AccessKept
<1>9. SlotInv'
  BY <1>1, <1>6 DEF SlotInv
<1>10. QED
  BY <1>1, <1>3, <1>5, <1>6, <1>8, <1>9 DEF BaseInv, TypeOK

\* A thread of the interconnect has moved transactions along.
LEMMA IcnBase ==
    ASSUME BaseInv, IcnTypeOK', WorkInv', UNCHANGED cacheVars, traffic' = traffic,
           \A x \in Masters : SameTx(tx'[x], tx[x]), latest' \in [Addr -> Values]
    PROVE  BaseInv'
<1>1. CacheTypeOK' /\ SlotInv'
  BY DEF BaseInv, TypeOK, CacheTypeOK, SlotInv, cacheVars
<1>2. AccessInv'
  BY AccessKept DEF BaseInv, cacheVars
<1>3. QED
  BY <1>1, <1>2 DEF BaseInv, TypeOK

\* What a thread may do to the transactions: only what is on the way is moved.
LEMMA IcnSteps ==
    ASSUME BaseInv, NEW m \in Masters, NEW l \in Lines, NEW c \in Caches,
           \/ Accept(m) \/ EngineFail(m) \/ EngineSnoop(m) \/ PortDone(m, l, c)
           \/ SnoopDone \/ DsOwn \/ DsSnoop
    PROVE  IcnTypeOK' /\ WorkInv' /\ \A x \in Masters : SameTx(tx'[x], tx[x])
<1>1. IcnTypeOK /\ CacheTypeOK /\ AccessInv /\ WorkInv
  BY DEF BaseInv, TypeOK
<1>2. \A x \in Masters : tx[x].phase # "idle" => tx[x].rng # {}
  BY <1>1, AccessParts
<1>3. CASE Accept(m)
  <2>1. tx[m].rng # {} /\ (tx[m].kind = "Evict" => m \in Caches)
    BY <1>1, <1>2, <1>3, AccessParts, KindClasses DEF Accept
  <2>2. QED
    BY <1>1, <1>3, <2>1, AcceptTypes, AcceptWork
<1>4. CASE EngineFail(m)
  <2> DEFINE t == [tx[m] EXCEPT !.ok = TRUE]
  <2>1. IcnTypeOK' /\ Completed(m, t) /\ WorkInv'
    BY <1>1, <1>4, EngineFailTypes, EngineFailWork
  <2>2. tx[m].phase = "engine" /\ WellFormed(t) /\ SameTx(t, tx[m])
    BY <1>1, <1>4, TxOf DEF EngineFail, EngineHead, InPhase, WellFormed, SameTx, Tx
  <2> HIDE DEF t
  <2>3. QED
    BY <1>1, <2>1, <2>2, CompletedSame
<1>5. CASE EngineSnoop(m)
  <2>1. tx[m].rng # {}
    BY <1>2, <1>5 DEF EngineSnoop, EngineHead, InPhase
  <2>2. QED
    BY <1>1, <1>5, <2>1, EngineSnoopTypes, EngineSnoopWork
<1>6. CASE PortDone(m, l, c)
  <2>1. /\ IcnTypeOK' /\ \A x \in Masters \ {m} : tx'[x] = tx[x]
        /\ SameTx(tx'[m], tx[m])
    BY <1>1, <1>6, PortDoneTypes
  <2>2. WorkInv'
    BY <1>1, <1>6, PortDoneWork
  <2>3. QED
    BY <2>1, <2>2 DEF SameTx
<1>7. CASE SnoopDone
  BY <1>1, <1>7, SnoopDoneWork
<1>8. CASE DsOwn
  BY <1>1, <1>8, DsOwnWork
<1>9. CASE DsSnoop
  BY <1>1, <1>9, DsSnoopWork
<1>10. QED
  BY <1>3, <1>4, <1>5, <1>6, <1>7, <1>8, <1>9

\* The step of the downstream port that a unique write takes effect in.
LEMMA DownstreamLatest ==
    ASSUME BaseInv, DownstreamThread
    PROVE  /\ latest' \in [Addr -> Values] /\ traffic' = traffic /\ UNCHANGED cacheVars
           /\ DsOwn \/ DsSnoop
<1>1. latest \in [Addr -> Values] /\ \A m \in Masters : op[m].val \in Values
  <2>1. \A m \in Masters : op[m] \in Op \cup {NoOp}
    BY DEF BaseInv, TypeOK, CacheTypeOK
  <2>2. NoOp.val \in Values
    BY ProtocolAssumption DEF NoOp
  <2>3. QED
    BY <2>1, <2>2, AccessFacts DEF BaseInv, TypeOK
<1>2. Head(downstream).m \in Masters
  <2>1. downstream # <<>> /\ downstream \in Seq(DsEntry)
    BY DEF DownstreamThread, DsOwn, DsSnoop, BaseInv, TypeOK, IcnTypeOK
  <2>2. Head(downstream) \in DsEntry
    BY <2>1, HeadIn
  <2>3. QED
    BY <2>2 DEF DsEntry
<1>3. Stored(op[Head(downstream).m]) \in [Addr -> Values]
  BY <1>1, <1>2 DEF Stored
<1>4. latest' = latest \/ latest' = Stored(op[Head(downstream).m])
  BY DEF DownstreamThread, NoEffect
<1>5. QED
  BY <1>1, <1>3, <1>4 DEF DownstreamThread, NoEffect, Observe

LEMMA BaseStep == BaseInv /\ [Next]_vars => BaseInv'
<1> SUFFICES ASSUME BaseInv, [Next]_vars  PROVE BaseInv'
  OBVIOUS
<1>1. PICK m0 \in Masters, c0 \in Caches : TRUE
  BY ProtocolAssumption DEF Masters
<1>2. ASSUME NEW c \in Caches, CacheStart(c) \/ CacheResume(c)  PROVE BaseInv'
  BY <1>2, CacheStartBase, CacheResumeBase
<1>3. ASSUME NEW m \in LiteMasters, LiteStart(m) \/ LiteResume(m)  PROVE BaseInv'
  BY <1>3, LiteBase
<1>4. ASSUME NEW m \in Masters, AcceptTx(m) \/ EngineThread(m)  PROVE BaseInv'
  <2>1. /\ Accept(m) \/ EngineFail(m) \/ EngineSnoop(m)
        /\ UNCHANGED cacheVars /\ traffic' = traffic /\ latest' = latest
    BY <1>4 DEF AcceptTx, EngineThread, NoEffect, Observe
  <2>2. PICK l0 \in Lines : TRUE
    <3>1. tx[m].rng # {} /\ tx[m].rng \subseteq Addr
      <4>1. tx[m].phase # "idle" /\ IcnTypeOK /\ AccessInv
        BY <2>1 DEF Accept, EngineFail, EngineSnoop, EngineHead, InPhase, BaseInv, TypeOK
      <4>2. QED
        BY <4>1, AccessParts, TxOf DEF WellFormed, Tx
    <3>2. QED
      BY <3>1 DEF Addr
  <2>3. IcnTypeOK' /\ WorkInv' /\ \A x \in Masters : SameTx(tx'[x], tx[x])
    BY <1>1, <2>1, <2>2, IcnSteps
  <2>4. QED
    BY <2>1, <2>3, IcnBase DEF BaseInv, TypeOK
<1>5. ASSUME NEW m \in Masters, NEW l \in Lines, NEW c \in Caches, SnoopMaster(m, l, c)
      PROVE  BaseInv'
  BY <1>5, SnoopMasterBase
<1>6. ASSUME NEW m \in Masters, NEW l \in Lines, NEW c \in Caches, PortDoneThread(m, l, c)
      PROVE  BaseInv'
  <2>1. PortDone(m, l, c) /\ UNCHANGED cacheVars /\ traffic' = traffic /\ latest' = latest
    BY <1>6 DEF PortDoneThread, NoEffect, Observe
  <2>2. QED
    BY <2>1, IcnSteps, IcnBase DEF BaseInv, TypeOK
<1>7. ASSUME SnoopDoneThread  PROVE BaseInv'
  <2>1. SnoopDone /\ UNCHANGED cacheVars /\ traffic' = traffic /\ latest' = latest
    BY <1>7 DEF SnoopDoneThread, NoEffect, Observe
  <2>2. IcnTypeOK' /\ WorkInv' /\ \A x \in Masters : SameTx(tx'[x], tx[x])
    BY <2>1, SnoopDoneWork DEF BaseInv, TypeOK
  <2>3. QED
    BY <2>1, <2>2, IcnBase DEF BaseInv, TypeOK
<1>8. ASSUME DownstreamThread  PROVE BaseInv'
  <2>1. /\ latest' \in [Addr -> Values] /\ traffic' = traffic /\ UNCHANGED cacheVars
        /\ DsOwn \/ DsSnoop
    BY <1>8, DownstreamLatest
  <2>2. IcnTypeOK' /\ WorkInv' /\ \A x \in Masters : SameTx(tx'[x], tx[x])
    BY <2>1, DsOwnWork, DsSnoopWork DEF BaseInv, TypeOK
  <2>3. QED
    BY <2>1, <2>2, IcnBase
<1>9. CASE UNCHANGED vars
  <2>1. UNCHANGED <<cacheVars, icnVars, traffic, latest>>
    BY <1>9 DEF vars, history
  <2>2. TypeOK'
    BY <2>1 DEF BaseInv, TypeOK, CacheTypeOK, IcnTypeOK, cacheVars, icnVars
  <2>3. SlotInv' /\ AccessInv'
    <3>1. \A x \in Masters : SameTx(tx'[x], tx[x])
      BY <2>1 DEF icnVars, SameTx
    <3>2. QED
      BY <2>1, <3>1, AccessKept DEF BaseInv, cacheVars, SlotInv
  <2>4. WorkInv'
    BY <2>1 DEF BaseInv, WorkInv, PhaseInv, PhaseOk, DoneFifo, DsFifo, OlderInv, Queued,
                Quiet, Active, icnVars
  <2>5. QED
    BY <2>2, <2>3, <2>4 DEF BaseInv
<1>10. QED
  BY <1>2, <1>3, <1>4, <1>5, <1>6, <1>7, <1>8, <1>9 DEF Next

\* The members are well formed; what a master has issued fits its access and the
\* slot it works on; lines are in the slots of their addresses; and the fifos of
\* the interconnect list exactly the transactions and lines there is work for.
THEOREM SpecBase == Spec => []BaseInv
  BY BaseInit, BaseStep, PTL DEF Spec

\* Every variable of the coherent system keeps its type, whatever the number of
\* caches, ACE-Lite masters, lines and words, and whatever they access.
THEOREM SpecTypeOK == Spec => []TypeOK
<1>1. BaseInv => TypeOK
  BY DEF BaseInv
<1>2. QED
  BY <1>1, SpecBase, PTL

-----------------------------------------------------------------------------
(***************************************************************************)
(* The lock of the PoS monitor.                                            *)
(***************************************************************************)

\* A step is a turn of an initiator, or leaves every transaction the
\* transaction that it was.
LEMMA StepKinds ==
    ASSUME BaseInv, Next
    PROVE  \/ \E c \in Caches : CacheStart(c) \/ CacheResume(c)
           \/ \E m \in LiteMasters : LiteStart(m) \/ LiteResume(m)
           \/ /\ \A x \in Masters : SameTx(tx'[x], tx[x])
              /\ \/ \E m \in Masters : EngineFail(m) \/ EngineSnoop(m)
                 \/ UNCHANGED <<posSet, posLock>>
<1>1. IcnTypeOK /\ AccessInv /\ WorkInv
  BY DEF BaseInv, TypeOK
<1>2. ASSUME NEW m \in Masters, Accept(m)
      PROVE  \A x \in Masters : SameTx(tx'[x], tx[x])
  <2>1. tx[m].rng # {} /\ (tx[m].kind = "Evict" => m \in Caches)
    BY <1>1, <1>2, AccessParts, KindClasses DEF Accept
  <2>2. QED
    BY <1>1, <1>2, <2>1, AcceptTypes
<1>3. ASSUME NEW m \in Masters, EngineFail(m) \/ EngineSnoop(m)
      PROVE  \A x \in Masters : SameTx(tx'[x], tx[x])
  <2>1. tx[m].phase = "engine" /\ tx[m].rng # {}
    BY <1>1, <1>3, AccessParts DEF EngineFail, EngineSnoop, EngineHead, InPhase
  <2>2. PICK l \in Lines, c \in Caches : TRUE
    BY <1>1, <2>1, TxOf, ProtocolAssumption DEF LinesOf
  <2>3. QED
    BY <1>3, <2>2, IcnSteps
<1>4. ASSUME NEW m \in Masters, NEW l \in Lines, NEW c \in Caches, PortDone(m, l, c)
      PROVE  \A x \in Masters : SameTx(tx'[x], tx[x])
  BY <1>4, IcnSteps
<1>5. ASSUME SnoopDone \/ DsOwn \/ DsSnoop  PROVE \A x \in Masters : SameTx(tx'[x], tx[x])
  BY <1>1, <1>5, SnoopDoneWork, DsOwnWork, DsSnoopWork
<1>6. CASE \E m \in Masters : AcceptTx(m)
  BY <1>2, <1>6 DEF AcceptTx, Accept
<1>7. CASE \E m \in Masters : EngineThread(m)
  BY <1>3, <1>7 DEF EngineThread
<1>8. CASE \E m \in Masters, l \in Lines, c \in Caches :
              SnoopMaster(m, l, c) \/ PortDoneThread(m, l, c)
  <2>1. PICK m \in Masters, l \in Lines, c \in Caches :
              SnoopMaster(m, l, c) \/ PortDoneThread(m, l, c)
    BY <1>8
  <2>2. CASE SnoopMaster(m, l, c)
    BY <2>2 DEF SnoopMaster, SnoopAnswered, SameTx
  <2>3. CASE PortDoneThread(m, l, c)
    BY <1>4, <2>3 DEF PortDoneThread, PortDone
  <2>4. QED
    BY <2>1, <2>2, <2>3
<1>9. CASE SnoopDoneThread
  BY <1>5, <1>9 DEF SnoopDoneThread, SnoopDone
<1>10. CASE DownstreamThread
  BY <1>5, <1>10 DEF DownstreamThread, DsOwn, DsSnoop
<1>11. QED
  BY <1>6, <1>7, <1>8, <1>9, <1>10 DEF Next

\* Who holds the lock: an exclusive CleanUnique that passed.
Owns(c) == tx[c].kind = "CleanUnique" /\ tx[c].exokay

LEMMA LockStep == BaseInv /\ LockHasOwner /\ [Next]_vars => LockHasOwner'
<1> SUFFICES ASSUME BaseInv, LockHasOwner, [Next]_vars, posLock'
             PROVE  \E c \in Caches : Owns(c)'
  BY DEF LockHasOwner, Owns
<1>1. IcnTypeOK /\ AccessInv /\ tx \in [Masters -> Tx]
  BY DEF BaseInv, TypeOK, IcnTypeOK
<1>2. posLock => \E c \in Caches : Owns(c)
  BY DEF LockHasOwner, Owns
<1>3. ASSUME NEW c \in Caches, Owns(c), SameTx(tx'[c], tx[c])  PROVE Owns(c)'
  <2>1. tx[c].excl /\ tx[c].exokay
    BY <1>1, <1>3, AccessParts, CachesAreMasters DEF Owns, Asks
  <2>2. QED
    BY <1>3, <2>1 DEF Owns, SameTx
<1>4. CASE \E m \in Masters : /\ EngineFail(m) \/ EngineSnoop(m)
                              /\ \A x \in Masters : SameTx(tx'[x], tx[x])
  <2>1. PICK m \in Masters : /\ EngineFail(m) \/ EngineSnoop(m)
                             /\ \A x \in Masters : SameTx(tx'[x], tx[x])
    BY <1>4
  <2>2. handle_exclusive(m)
    BY <2>1 DEF EngineFail, EngineSnoop
  <2>3. CASE posLock
    BY <1>2, <1>3, <2>1, <2>3, CachesAreMasters
  <2>4. CASE ~posLock
    <3>1. tx[m].excl /\ tx[m].kind = "CleanUnique" /\ posSet[m]
      BY <2>2, <2>4 DEF handle_exclusive
    <3>2. EngineSnoop(m)
      BY <2>1, <3>1 DEF EngineFail, Proceeds
    <3>3. tx'[m].exokay /\ tx'[m].kind = "CleanUnique"
      BY <1>1, <3>1, <3>2 DEF EngineSnoop, Tx
    <3>4. m \in Caches
      BY <1>1, <3>1, AccessParts, KindClasses DEF Asks, Masters
    <3>5. QED
      BY <3>3, <3>4 DEF Owns
  <2>5. QED
    BY <2>3, <2>4
<1>5. CASE UNCHANGED posLock /\ \A x \in Masters : SameTx(tx'[x], tx[x])
  BY <1>2, <1>3, <1>5, CachesAreMasters
<1>6. ASSUME NEW c \in Caches, CacheStart(c)  PROVE \E d \in Caches : Owns(d)'
  <2>1. posLock /\ tx[c].kind = "none" /\ tx' = [tx EXCEPT ![c] = tx'[c]]
    BY <1>1, <1>6, CachesAreMasters DEF CacheStart, AccessInv
  <2>2. PICK d \in Caches : Owns(d)
    BY <1>2, <2>1
  <2>3. d # c /\ tx'[d] = tx[d]
    BY <1>1, <2>1, <2>2, CachesAreMasters DEF Owns
  <2>4. QED
    BY <2>2, <2>3 DEF Owns
<1>7. ASSUME NEW m \in Masters, NEW next, Deliver(m, next)  PROVE \E d \in Caches : Owns(d)'
  <2>1. posLock /\ ~ReleasesLock(m)
    BY <1>7 DEF Deliver
  <2>2. PICK d \in Caches : Owns(d)
    BY <1>2, <2>1
  <2>3. d # m /\ tx'[d] = tx[d]
    BY <1>1, <1>7, <2>1, <2>2, CachesAreMasters DEF Owns, ReleasesLock, Deliver
  <2>4. QED
    BY <2>2, <2>3 DEF Owns
<1>8. ASSUME NEW m \in LiteMasters, LiteStart(m)  PROVE \E d \in Caches : Owns(d)'
  <2>1. posLock /\ tx' = [tx EXCEPT ![m] = tx'[m]]
    BY <1>1, <1>8, CachesAreMasters DEF LiteStart
  <2>2. PICK d \in Caches : Owns(d)
    BY <1>2, <2>1
  <2>3. tx'[d] = tx[d]
    BY <1>1, <2>1, <2>2, CachesAreMasters, ProtocolAssumption
  <2>4. QED
    BY <2>2, <2>3 DEF Owns
<1>9. CASE UNCHANGED vars
  BY <1>2, <1>9 DEF vars, icnVars, Owns
<1>10. QED
  BY <1>4, <1>5, <1>6, <1>7, <1>8, <1>9, StepKinds, CachesAreMasters
     DEF CacheResume, LiteResume

\* m_lock of the PoS monitor is never left set: while it is, the exclusive
\* CleanUnique that set it is under way and will release it.
THEOREM SpecLockHasOwner == Spec => []LockHasOwner
<1>1. Init => LockHasOwner
  BY DEF Init, IcnInit, LockHasOwner
<1>2. QED
  BY <1>1, LockStep, SpecBase, PTL DEF Spec

-----------------------------------------------------------------------------
(***************************************************************************)
(* The interconnect implements TxOrderer.                                  *)
(***************************************************************************)

\* What the orderer sees of master m.
RngSeen(m) == IF Place(m) = "out" THEN {} ELSE tx[m].rng
ClassSeen(m) ==
    IF Place(m) # "out" /\ IsSnoopingTransaction(tx[m].kind) THEN "snoop" ELSE "plain"
OlderSeen == older \cap (InPhase("stalled") \X InPhase("stalled"))

LEMMA PlaceIs ==
    ASSUME NEW m \in Masters
    PROVE  /\ Place(m) = IF tx[m].phase \in {"engine", "snoop", "ds"} THEN "ongoing"
                         ELSE IF tx[m].phase = "stalled" THEN "stalled" ELSE "out"
           /\ Place(m)' = IF tx'[m].phase \in {"engine", "snoop", "ds"} THEN "ongoing"
                          ELSE IF tx'[m].phase = "stalled" THEN "stalled" ELSE "out"
  BY DEF Place, Ongoing, InPhase

LEMMA SeenLists ==
    /\ Orderer!Stalled = InPhase("stalled")
    /\ Orderer!Running = Ongoing
  BY PlaceIs DEF Orderer!Stalled, Orderer!Running, InPhase, Ongoing

\* The orderer sees nothing of a step.
LEMMA UnseenStep ==
    ASSUME \A m \in Masters : /\ Place(m)' = Place(m)
                              /\ Place(m) # "out" => /\ tx'[m].rng = tx[m].rng
                                                     /\ tx'[m].kind = tx[m].kind,
           OlderSeen' = OlderSeen
    PROVE  UNCHANGED Orderer!ordVars
<1>1. \A m \in Masters : RngSeen(m)' = RngSeen(m) /\ ClassSeen(m)' = ClassSeen(m)
  BY DEF RngSeen, ClassSeen
<1>2. QED
  BY <1>1 DEF Orderer!ordVars, RngSeen, ClassSeen, OlderSeen

\* The orderer takes in transaction m.
LEMMA ProcessSeen ==
    ASSUME NEW m \in Masters, Place(m) = "out", tx[m].rng \in SUBSET Addr, tx[m].rng # {},
           tx'[m].rng = tx[m].rng, tx'[m].kind = tx[m].kind,
           \A x \in Masters \ {m} : tx'[x] = tx[x],
           \/ /\ IsSnoopingTransaction(tx[m].kind) /\ is_overlapping(m, Ongoing)
              /\ Place(m)' = "stalled"
              /\ OlderSeen' = OlderSeen \cup (InPhase("stalled") \X {m})
           \/ /\ IsSnoopingTransaction(tx[m].kind) => ~is_overlapping(m, Ongoing)
              /\ Place(m)' = "ongoing"
              /\ OlderSeen' = OlderSeen
    PROVE  Orderer!OrdNext
<1>0. PICK r \in (SUBSET Addr) \ {{}}, c \in {"snoop", "plain"} :
        /\ r = tx[m].rng
        /\ c = IF IsSnoopingTransaction(tx[m].kind) THEN "snoop" ELSE "plain"
  OBVIOUS
<1> DEFINE place == [x \in Masters |-> Place(x)]
           rng == [x \in Masters |-> RngSeen(x)]
           class == [x \in Masters |-> ClassSeen(x)]
<1>1. \A x \in Masters \ {m} : Place(x)' = Place(x) /\ RngSeen(x)' = RngSeen(x)
                               /\ ClassSeen(x)' = ClassSeen(x)
  BY PlaceIs DEF RngSeen, ClassSeen
<1>2. RngSeen(m)' = r /\ ClassSeen(m)' = c
  BY <1>0 DEF RngSeen, ClassSeen
<1>3. rng' = [rng EXCEPT ![m] = r] /\ class' = [class EXCEPT ![m] = c]
  BY <1>1, <1>2
<1>4. Orderer!Stalls(r, c) <=> IsSnoopingTransaction(tx[m].kind) /\ is_overlapping(m, Ongoing)
  <2>1. \A x \in Ongoing : rng[x] = tx[x].rng
    BY PlaceIs DEF RngSeen, Ongoing
  <2>2. Orderer!overlapping(r, Ongoing) <=> is_overlapping(m, Ongoing)
    BY <1>0, <2>1 DEF Orderer!overlapping, is_overlapping, Overlapping, Meet, RngSeen
  <2>3. QED
    BY <1>0, <2>2, SeenLists DEF Orderer!Stalls
<1>5. Orderer!Process(m, r, c)
  <2>1. CASE Orderer!Stalls(r, c)
    <3>1. place' = [place EXCEPT ![m] = "stalled"]
      BY <1>1, <1>4, <2>1
    <3>2. QED
      BY <1>3, <1>4, <2>1, <3>1, SeenLists DEF Orderer!Process, RngSeen, ClassSeen, OlderSeen
  <2>2. CASE ~Orderer!Stalls(r, c)
    <3>1. place' = [place EXCEPT ![m] = "ongoing"]
      BY <1>1, <1>4, <2>2
    <3>2. QED
      BY <1>3, <1>4, <2>2, <3>1 DEF Orderer!Process, RngSeen, ClassSeen, OlderSeen
  <2>3. QED
    BY <2>1, <2>2
<1>6. QED
  BY <1>5 DEF Orderer!OrdNext

\* What a completion does to the lists that the orderer keeps.
LEMMA CompleteSeen ==
    ASSUME BaseInv, NEW m \in Masters, tx[m].phase \in {"engine", "snoop", "ds"},
           NEW t, WellFormed(t), Complete(m, t)
    PROVE  Orderer!OrdNext
<1> DEFINE place == [x \in Masters |-> Place(x)]
           rng == [x \in Masters |-> RngSeen(x)]
           class == [x \in Masters |-> ClassSeen(x)]
<1>1. IcnTypeOK /\ OlderInv
  BY DEF BaseInv, TypeOK, WorkInv
<1>2. PICK R \in SUBSET InPhase("stalled") :
             /\ Restartable(m, R)
             /\ tx'[m].phase = "resp"
             /\ \A x \in Masters \ {m} :
                   IF x \in R THEN tx'[x] = [tx[x] EXCEPT !.phase = "engine"]
                                   /\ tx[x].phase = "stalled" /\ tx'[x].phase = "engine"
                   ELSE tx'[x] = tx[x]
             /\ older' = {p \in Forget({m}) : p[1] \in R <=> p[2] \in R}
                            \cup (InPhase("engine") \ {m}) \X R
  BY <1>1, CompleteLists
<1>3. m \notin R /\ Place(m) = "ongoing" /\ Place(m)' = "out"
      /\ m \notin InPhase("stalled")
  BY <1>2, PlaceIs DEF InPhase
<1>4. ASSUME NEW x \in Masters \ {m}
      PROVE  /\ tx'[x].rng = tx[x].rng /\ tx'[x].kind = tx[x].kind
             /\ Place(x)' = IF x \in R THEN "ongoing" ELSE Place(x)
             /\ Place(x)' = "out" <=> Place(x) = "out"
  <2>1. tx[x] \in Tx
    BY <1>1 DEF IcnTypeOK
  <2>2. tx'[x].rng = tx[x].rng /\ tx'[x].kind = tx[x].kind
    BY <1>2, <2>1 DEF Tx
  <2>3. CASE x \in R
    BY <1>2, <2>2, <2>3, PlaceIs
  <2>4. CASE x \notin R
    BY <1>2, <2>2, <2>4, PlaceIs
  <2>5. QED
    BY <2>2, <2>3, <2>4
<1>5. /\ \A x \in Masters \ {m} : RngSeen(x)' = RngSeen(x) /\ ClassSeen(x)' = ClassSeen(x)
      /\ RngSeen(m)' = {} /\ ClassSeen(m)' = "plain"
  BY <1>3, <1>4 DEF RngSeen, ClassSeen
<1>6. /\ place' = [x \in Masters |-> IF x = m THEN "out"
                                     ELSE IF x \in R THEN "ongoing" ELSE place[x]]
      /\ rng' = [rng EXCEPT ![m] = {}] /\ class' = [class EXCEPT ![m] = "plain"]
  BY <1>3, <1>4, <1>5
<1>7. OlderSeen' = {p \in OlderSeen : p[1] \notin R /\ p[2] \notin R}
  <2>1. InPhase("stalled")' = InPhase("stalled") \ R
    <3>1. \A x \in Masters : tx'[x].phase = "stalled" <=> tx[x].phase = "stalled" /\ x \notin R
      BY <1>2, <1>3 DEF InPhase
    <3>2. QED
      BY <3>1 DEF InPhase
  <2>2. R \subseteq InPhase("stalled")
    OBVIOUS
  <2>3. ASSUME NEW p \in OlderSeen'  PROVE p \in OlderSeen /\ p[1] \notin R /\ p[2] \notin R
    <3>1. p \in older' /\ p[1] \in InPhase("stalled") \ R /\ p[2] \in InPhase("stalled") \ R
          /\ p \in InPhase("stalled") \X InPhase("stalled")
      BY <2>1 DEF OlderSeen
    <3>2. p \in older
      BY <1>2, <3>1 DEF Forget
    <3>3. QED
      BY <3>1, <3>2 DEF OlderSeen
  <2>4. ASSUME NEW p \in OlderSeen, p[1] \notin R, p[2] \notin R  PROVE p \in OlderSeen'
    <3>1. p \in older /\ p[1] \in InPhase("stalled") /\ p[2] \in InPhase("stalled")
          /\ p = <<p[1], p[2]>>
      BY DEF OlderSeen
    <3>2. p \in older'
      BY <1>2, <1>3, <2>4, <3>1 DEF Forget
    <3>3. p \in (InPhase("stalled") \ R) \X (InPhase("stalled") \ R)
      BY <2>4, <3>1
    <3>4. QED
      BY <2>1, <3>2, <3>3 DEF OlderSeen
  <2>5. QED
    BY <2>3, <2>4
<1>8. Orderer!Restarts(m, R)
  <2>1. ASSUME NEW s \in InPhase("stalled")
        PROVE  s \in R <=> /\ Meet(rng[m], rng[s])
                           /\ ~Orderer!overlapping(rng[s], Ongoing \ {m})
                           /\ ~Orderer!overlapping(rng[s], {r \in R : <<r, s>> \in OlderSeen})
    <3>1. /\ s \in Masters /\ tx[s].phase = "stalled" /\ R \subseteq Masters
          /\ \A r \in R : tx[r].phase = "stalled"
      BY DEF InPhase
    <3>2. /\ rng[m] = tx[m].rng /\ rng[s] = tx[s].rng
          /\ \A x \in Ongoing : x \in Masters /\ rng[x] = tx[x].rng
          /\ \A r \in R : rng[r] = tx[r].rng
      BY <1>3, <3>1, PlaceIs DEF RngSeen, Ongoing
    <3> HIDE DEF rng
    <3>3. s \in R <=> /\ Overlapping(s, m)
                      /\ ~is_overlapping(s, Ongoing \ {m})
                      /\ \A r \in R : <<r, s>> \in older => ~Overlapping(r, s)
      BY <1>2 DEF Restartable
    <3>4. Overlapping(s, m) <=> Meet(rng[m], rng[s])
      BY <3>2 DEF Overlapping, Meet
    <3>5. is_overlapping(s, Ongoing \ {m})
             <=> \E q \in Ongoing \ {m} : Meet(rng[s], rng[q])
      BY <3>2 DEF is_overlapping, Overlapping, Meet
    <3>6. \A r \in R : <<r, s>> \in older <=> <<r, s>> \in OlderSeen
      BY DEF OlderSeen
    <3>7. (\A r \in R : <<r, s>> \in older => ~Overlapping(r, s))
             <=> ~\E q \in {r \in R : <<r, s>> \in OlderSeen} : Meet(rng[s], rng[q])
      BY <3>2, <3>6 DEF Overlapping, Meet
    <3>8. QED
      BY <3>3, <3>4, <3>5, <3>7 DEF Orderer!overlapping, rng, RngSeen
  <2>2. QED
    BY <2>1, SeenLists DEF Orderer!Restarts, RngSeen, OlderSeen
<1>9. Orderer!Done(m)
  <2>1. place[m] = "ongoing" /\ R \in SUBSET Orderer!Stalled
    BY <1>3, SeenLists
  <2>2. QED
    BY <1>6, <1>7, <1>8, <2>1 DEF Orderer!Done, RngSeen, ClassSeen, OlderSeen
<1>10. QED
  BY <1>9 DEF Orderer!OrdNext

\* A turn of an initiator is none of the orderer's business.
LEMMA TurnSeen ==
    ASSUME BaseInv, NEW m \in Masters, tx[m].phase \in {"idle", "resp"},
           NEW t, tx' = [tx EXCEPT ![m] = t], t.phase \in {"idle", "req"}, UNCHANGED older
    PROVE  UNCHANGED Orderer!ordVars
<1>1. tx'[m] = t /\ \A x \in Masters \ {m} : tx'[x] = tx[x]
  BY DEF BaseInv, TypeOK, IcnTypeOK
<1>2. \A x \in Masters : /\ Place(x)' = Place(x)
                         /\ Place(x) # "out" => tx'[x] = tx[x]
  BY <1>1, PlaceIs
<1>3. InPhase("stalled")' = InPhase("stalled")
  BY <1>1 DEF InPhase
<1>4. OlderSeen' = OlderSeen
  BY <1>3 DEF OlderSeen
<1>5. QED
  BY <1>2, <1>4, UnseenStep

\* A transaction of the interconnect goes on without leaving its list.
LEMMA MovedSeen ==
    ASSUME BaseInv, NEW m \in Masters, Place(m)' = Place(m), SameTx(tx'[m], tx[m]),
           \A x \in Masters \ {m} : tx'[x] = tx[x],
           UNCHANGED older \/ (older' = Forget({m}) /\ tx[m].phase # "stalled")
    PROVE  UNCHANGED Orderer!ordVars
<1>1. \A x \in Masters : /\ Place(x)' = Place(x)
                         /\ tx'[x].rng = tx[x].rng /\ tx'[x].kind = tx[x].kind
  BY PlaceIs DEF SameTx
<1>2. InPhase("stalled")' = InPhase("stalled")
  <2>1. \A x \in Masters : tx'[x].phase = "stalled" <=> tx[x].phase = "stalled"
    BY PlaceIs
  <2>2. QED
    BY <2>1 DEF InPhase
<1>3. OlderSeen' = OlderSeen
  <2>1. CASE UNCHANGED older
    BY <1>2, <2>1 DEF OlderSeen
  <2>2. CASE older' = Forget({m}) /\ tx[m].phase # "stalled"
    <3>1. m \notin InPhase("stalled")
      BY <2>2 DEF InPhase
    <3>2. \A p \in InPhase("stalled") \X InPhase("stalled") : p \in Forget({m}) <=> p \in older
      BY <3>1 DEF Forget
    <3>3. QED
      BY <1>2, <2>2, <3>2 DEF OlderSeen
  <2>3. QED
    BY <2>1, <2>2
<1>4. QED
  BY <1>1, <1>3, UnseenStep

LEMMA AcceptSeen ==
    ASSUME BaseInv, NEW m \in Masters, Accept(m)
    PROVE  Orderer!OrdNext \/ UNCHANGED Orderer!ordVars
<1>1. IcnTypeOK /\ AccessInv /\ tx[m].phase = "req" /\ tx[m] \in Tx /\ tx \in [Masters -> Tx]
  BY DEF BaseInv, TypeOK, IcnTypeOK, Accept
<1>2. /\ \A x \in Masters \ {m} : tx'[x] = tx[x]
      /\ tx'[m].kind = tx[m].kind /\ tx'[m].rng = tx[m].rng
  BY <1>1 DEF Accept, Tx
<1>3. tx[m].rng \in SUBSET Addr /\ tx[m].rng # {}
  BY <1>1, AccessParts DEF Tx
<1>4. Place(m) = "out" /\ m \notin InPhase("stalled")
  BY <1>1, PlaceIs DEF InPhase
<1>5. CASE tx[m].kind = "Evict"
  <2>1. tx'[m].phase = "resp" /\ UNCHANGED older
    BY <1>1, <1>5 DEF Accept, IsSnoopingTransaction, ReadKinds, CleanKinds, CmoKinds,
                      UniqueWriteKinds, Tx
  <2>2. Place(m)' = Place(m) /\ tx'[m].excl = tx[m].excl /\ tx'[m].exokay = tx[m].exokay
    BY <1>1, <1>4, <1>5, <2>1, PlaceIs DEF Accept, Tx
  <2>3. \A x \in Masters : /\ Place(x)' = Place(x)
                           /\ tx'[x].rng = tx[x].rng /\ tx'[x].kind = tx[x].kind
    BY <1>2, <2>2, PlaceIs
  <2>4. InPhase("stalled")' = InPhase("stalled")
    <3>1. \A x \in Masters : tx'[x].phase = "stalled" <=> tx[x].phase = "stalled"
      BY <2>3, PlaceIs
    <3>2. QED
      BY <3>1 DEF InPhase
  <2>5. OlderSeen' = OlderSeen
    BY <2>1, <2>4 DEF OlderSeen
  <2>6. QED
    BY <2>3, <2>5, UnseenStep
<1>6. CASE IsSnoopingTransaction(tx[m].kind) /\ is_overlapping(m, Ongoing)
  <2>1. tx'[m].phase = "stalled" /\ older' = older \cup (InPhase("stalled") \X {m})
    BY <1>1, <1>6 DEF Accept, Behind, IsSnoopingTransaction, ReadKinds, CleanKinds,
                      CmoKinds, UniqueWriteKinds, Tx
  <2>2. Place(m)' = "stalled"
    BY <2>1, PlaceIs
  <2>3. InPhase("stalled")' = InPhase("stalled") \cup {m}
    BY <1>2, <2>1 DEF InPhase
  <2>4. OlderSeen' = OlderSeen \cup (InPhase("stalled") \X {m})
    <3>1. ASSUME NEW p \in older, p[1] = m \/ p[2] = m  PROVE FALSE
      <4>1. p[1] \in Masters /\ p[2] \in Masters
        BY <1>1 DEF IcnTypeOK
      <4>2. QED
        BY <1>1, <3>1, <4>1 DEF BaseInv, WorkInv, OlderInv
    <3>2. \A p \in OlderSeen' : p \in OlderSeen \/ p \in InPhase("stalled") \X {m}
      BY <2>1, <2>3, <3>1 DEF OlderSeen
    <3>3. OlderSeen \cup (InPhase("stalled") \X {m}) \subseteq OlderSeen'
      BY <2>1, <2>3 DEF OlderSeen
    <3>4. QED
      BY <3>2, <3>3 DEF OlderSeen
  <2>5. QED
    BY <1>2, <1>3, <1>4, <1>6, <2>2, <2>4, ProcessSeen
<1>7. CASE /\ tx[m].kind # "Evict"
           /\ IsSnoopingTransaction(tx[m].kind) => ~is_overlapping(m, Ongoing)
  <2>1. /\ tx'[m].phase \in {"engine", "ds"}
        /\ UNCHANGED older \/ older' = older \cup (InPhase("engine") \X {m})
    BY <1>1, <1>7 DEF Accept, Behind, Tx
  <2>2. Place(m)' = "ongoing"
    BY <2>1, PlaceIs
  <2>3. InPhase("stalled")' = InPhase("stalled")
    BY <1>1, <1>2, <2>1 DEF InPhase
  <2>4. OlderSeen' = OlderSeen
    <3>1. \A p \in InPhase("engine") \X {m} : p \notin InPhase("stalled") \X InPhase("stalled")
      BY <1>4
    <3>2. QED
      BY <2>1, <2>3, <3>1 DEF OlderSeen
  <2>5. QED
    BY <1>2, <1>3, <1>4, <1>7, <2>2, <2>4, ProcessSeen
<1>8. QED
  BY <1>5, <1>6, <1>7

LEMMA FinalizedSeen ==
    ASSUME BaseInv, NEW m \in Masters, NEW l \in Lines, tx[m].phase = "snoop",
           NEW t, Refilled(t, m), NEW q, Finalized(m, l, t, q)
    PROVE  Orderer!OrdNext \/ UNCHANGED Orderer!ordVars
<1>1. CASE \E u : WellFormed(u) /\ Complete(m, u)
  BY <1>1, CompleteSeen
<1>2. CASE ~\E u : WellFormed(u) /\ Complete(m, u)
  <2>1. /\ \A x \in Masters \ {m} : tx'[x] = tx[x]
        /\ tx'[m].phase \in {"snoop", "ds"} /\ UNCHANGED older
        /\ SameTx(tx'[m], t) /\ SameTx(t, tx[m])
    BY <1>2 DEF Finalized, Refilled
  <2>2. \A x \in Masters : /\ Place(x)' = Place(x)
                           /\ tx'[x].rng = tx[x].rng /\ tx'[x].kind = tx[x].kind
    BY <2>1, PlaceIs DEF SameTx
  <2>3. InPhase("stalled")' = InPhase("stalled")
    <3>1. \A x \in Masters : tx'[x].phase = "stalled" <=> tx[x].phase = "stalled"
      BY <2>2, PlaceIs
    <3>2. QED
      BY <3>1 DEF InPhase
  <2>4. OlderSeen' = OlderSeen
    BY <2>1, <2>3 DEF OlderSeen
  <2>5. QED
    BY <2>2, <2>4, UnseenStep
<1>3. QED
  BY <1>1, <1>2

LEMMA OrdererStep ==
    ASSUME BaseInv, [Next]_vars
    PROVE  Orderer!OrdNext \/ UNCHANGED Orderer!ordVars
<1>1. IcnTypeOK /\ AccessInv /\ WorkInv /\ PhaseInv /\ DoneFifo /\ DsFifo
      /\ tx \in [Masters -> Tx]
  BY DEF BaseInv, TypeOK, WorkInv, IcnTypeOK
<1>2. ASSUME NEW c \in Caches, CacheStart(c)
      PROVE  UNCHANGED Orderer!ordVars
  <2>1. PICK o \in traffic[c] : o \in Op /\
              Looked(o, get_line(c, LineOf(o)), b_transport(c, o))
            /\ tx' = [tx EXCEPT ![c] = NextTx(o, b_transport(c, o))]
    <3>1. PICK o \in traffic[c] : tx' = [tx EXCEPT ![c] = NextTx(o, b_transport(c, o))]
      BY <1>2 DEF CacheStart
    <3>2. o \in Op
      BY <1>1, OpFacts, CachesAreMasters DEF AccessInv
    <3>3. /\ get_line(c, LineOf(o)) \in CacheLine /\ toggle[c] \in BOOLEAN
          /\ monitor[c] \in SUBSET Addr
      BY <3>2, AccessFacts, SlotOf DEF BaseInv, TypeOK, CacheTypeOK, get_line
    <3>4. QED
      BY <3>1, <3>2, <3>3, TransportLooked
  <2>2. PICK t : t = NextTx(o, b_transport(c, o))
    OBVIOUS
  <2>3. t.phase \in {"idle", "req"} /\ tx[c].phase = "idle" /\ UNCHANGED older
    BY <1>1, <1>2, <2>1, <2>2, NextTxTurn, CachesAreMasters
       DEF Looked, CacheStart, AccessInv
  <2>4. QED
    BY <2>1, <2>2, <2>3, TurnSeen, CachesAreMasters
<1>3. ASSUME NEW c \in Caches, CacheResume(c)
      PROVE  UNCHANGED Orderer!ordVars
  <2>1. PICK t : t = NextTx(op[c], Response(c, tx[c]))
    OBVIOUS
  <2>2. tx' = [tx EXCEPT ![c] = t] /\ UNCHANGED older /\ tx[c].phase = "resp"
    BY <1>3, <2>1 DEF CacheResume, Deliver, ResponseReady
  <2>3. t.phase \in {"idle", "req"}
    BY <2>1, <2>2, ResponseFacts, NextTxTurn DEF Answered
  <2>4. QED
    BY <2>2, <2>3, TurnSeen, CachesAreMasters
<1>4. ASSUME NEW m \in LiteMasters, LiteStart(m) \/ LiteResume(m)
      PROVE  UNCHANGED Orderer!ordVars
  <2>1. m \in Masters
    BY CachesAreMasters
  <2>2. PICK t : /\ tx' = [tx EXCEPT ![m] = t] /\ UNCHANGED older
                 /\ t.phase \in {"idle", "req"} /\ tx[m].phase \in {"idle", "resp"}
    <3>1. CASE LiteStart(m)
      <4>1. PICK o \in traffic[m] : tx' = [tx EXCEPT ![m] = LiteTx(o)]
        BY <3>1 DEF LiteStart
      <4>2. LiteTx(o).phase = "req"
        BY <1>1, <2>1, OpFacts, LiteTxParts DEF AccessInv
      <4>3. QED
        BY <1>1, <2>1, <3>1, <4>1, <4>2 DEF LiteStart, AccessInv
    <3>2. CASE LiteResume(m)
      BY <3>2 DEF LiteResume, Deliver, ResponseReady, NoTx
    <3>3. QED
      BY <1>4, <3>1, <3>2
  <2>3. QED
    BY <2>1, <2>2, TurnSeen
<1>5. ASSUME NEW m \in Masters, EngineFail(m)  PROVE Orderer!OrdNext
  <2> DEFINE t == [tx[m] EXCEPT !.ok = TRUE]
  <2>1. tx[m].phase = "engine" /\ WellFormed(t) /\ Complete(m, t)
    BY <1>1, <1>5, TxOf DEF EngineFail, EngineHead, InPhase, WellFormed, Tx
  <2> HIDE DEF t
  <2>2. QED
    BY <2>1, CompleteSeen
<1>6. ASSUME NEW m \in Masters, EngineSnoop(m)  PROVE UNCHANGED Orderer!ordVars
  <2>1. /\ tx[m].phase = "engine" /\ tx[m] \in Tx
        /\ tx' = [tx EXCEPT ![m].phase = "snoop", ![m].exokay = tx[m].excl]
        /\ older' = Forget({m})
    BY <1>1, <1>6 DEF EngineSnoop, EngineHead, InPhase
  <2>2. /\ tx'[m].phase = "snoop" /\ SameTx(tx'[m], tx[m])
        /\ \A x \in Masters \ {m} : tx'[x] = tx[x]
    BY <1>1, <2>1 DEF SameTx, Tx
  <2>3. Place(m)' = Place(m)
    BY <2>1, <2>2, PlaceIs
  <2>4. QED
    BY <2>1, <2>2, <2>3, MovedSeen
<1>7. ASSUME NEW m \in Masters, NEW l \in Lines, NEW c \in Caches,
             SnoopMaster(m, l, c) \/ PortDoneThread(m, l, c)
      PROVE  UNCHANGED Orderer!ordVars
  <2>1. CASE SnoopMaster(m, l, c)
    <3>1. UNCHANGED <<tx, older>>
      BY <2>1 DEF SnoopMaster, SnoopAnswered
    <3>2. SameTx(tx'[m], tx[m]) /\ Place(m)' = Place(m)
      BY <3>1, PlaceIs DEF SameTx
    <3>3. QED
      BY <3>1, <3>2, MovedSeen
  <2>2. CASE PortDoneThread(m, l, c)
    <3>1. PortDone(m, l, c) /\ UNCHANGED older
      BY <2>2 DEF PortDoneThread, PortDone
    <3>2. /\ \A x \in Masters \ {m} : tx'[x] = tx[x]
          /\ SameTx(tx'[m], tx[m]) /\ tx'[m].phase = tx[m].phase
      BY <1>1, <3>1, PortDoneTypes
    <3>3. Place(m)' = Place(m)
      BY <3>2, PlaceIs
    <3>4. QED
      BY <3>1, <3>2, <3>3, MovedSeen
  <2>3. QED
    BY <1>7, <2>1, <2>2
<1>8. ASSUME SnoopDone  PROVE Orderer!OrdNext \/ UNCHANGED Orderer!ordVars
  <2>1. Head(snoopDone) \in Range(snoopDone) /\ Head(snoopDone) \in Masters \X Lines
    BY <1>1, <1>8, FifoTypes, RangeIs, HeadIn DEF SnoopDone
  <2>2. PICK m \in Masters, l \in Lines : Head(snoopDone) = <<m, l>>
    BY <2>1
  <2>3. Head(snoopDone)[1] = m /\ Head(snoopDone)[2] = l /\ tx[m].phase = "snoop"
    BY <1>1, <2>1, <2>2 DEF DoneFifo, Quiet, Active
  <2>4. \/ UNCHANGED <<tx, older>>
        \/ Finalized(m, l, tx[m], downstream)
    BY <1>1, <1>8, <2>3, SnoopDoneTypes
  <2>5. CASE UNCHANGED <<tx, older>>
    <3>1. SameTx(tx'[m], tx[m]) /\ Place(m)' = Place(m)
      BY <2>5, PlaceIs DEF SameTx
    <3>2. QED
      BY <2>5, <3>1, MovedSeen
  <2>6. CASE Finalized(m, l, tx[m], downstream)
    <3>1. PICK t : t = tx[m]
      OBVIOUS
    <3>2. Refilled(t, m) /\ Finalized(m, l, t, downstream)
      BY <1>1, <2>6, <3>1, RefilledSelf
    <3>3. QED
      BY <2>3, <3>2, FinalizedSeen
  <2>7. QED
    BY <2>4, <2>5, <2>6
<1>9. ASSUME DsOwn \/ DsSnoop  PROVE Orderer!OrdNext \/ UNCHANGED Orderer!ordVars
  <2>1. Head(downstream) \in Range(downstream) /\ Head(downstream) \in DsEntry
    BY <1>1, <1>9, FifoTypes, RangeIs, HeadIn DEF DsOwn, DsSnoop
  <2>2. PICK m \in Masters, l \in Lines : Head(downstream).m = m /\ Head(downstream).line = l
    BY <2>1 DEF DsEntry
  <2>3. Queued(Head(downstream))
    BY <1>1, <2>1 DEF DsFifo
  <2>4. CASE DsOwn
    <3>1. tx[m].phase = "ds"
      BY <2>2, <2>3, <2>4 DEF DsOwn, Queued
    <3>2. PICK t : Refilled(t, m) /\ Complete(m, t)
      BY <1>1, <2>2, <2>4, <3>1, DsOwnTypes
    <3>3. QED
      BY <3>1, <3>2, CompleteSeen DEF Refilled
  <2>5. CASE DsSnoop
    <3>1. tx[m].phase = "snoop"
      BY <2>2, <2>3, <2>5 DEF DsSnoop, Queued, Quiet, Active
    <3>2. PICK t : Refilled(t, m) /\ Finalized(m, l, t, Tail(downstream))
      BY <1>1, <2>2, <2>5, <3>1, DsSnoopTypes
    <3>3. QED
      BY <3>1, <3>2, FinalizedSeen
  <2>6. QED
    BY <1>9, <2>4, <2>5
<1>10. CASE UNCHANGED vars
  BY <1>10 DEF vars, icnVars, Orderer!ordVars, Place, Ongoing, InPhase
<1>11. QED
  BY <1>2, <1>3, <1>4, <1>5, <1>6, <1>7, <1>8, <1>9, <1>10, AcceptSeen
     DEF Next, AcceptTx, EngineThread, SnoopDoneThread, DownstreamThread

\* Every behaviour of the coherent system is one of OverlappingTxOrderer:
\* what the engine, the ports and the caches do never makes the interconnect
\* stall, restart or end a transaction in a way that process() would not.
THEOREM SpecImplementsOrderer == Spec => ImplementsOrderer
<1>1. Init => Orderer!OrdInit
  <2>1. SUFFICES ASSUME Init  PROVE Orderer!OrdInit
    OBVIOUS
  <2>2. \A m \in Masters : Place(m) = "out"
    BY <2>1 DEF Init, IcnInit, NoTx, Place, Ongoing, InPhase
  <2>3. older = {}
    BY <2>1 DEF Init, IcnInit
  <2>4. QED
    BY <2>2, <2>3 DEF Orderer!OrdInit
<1>2. BaseInv /\ [Next]_vars => [Orderer!OrdNext]_(Orderer!ordVars)
  BY OrdererStep
<1>3. QED
  BY <1>1, <1>2, SpecBase, PTL DEF Spec, ImplementsOrderer, Orderer!OrdSpec

(***************************************************************************)
(* Transactions that snoop at the same time: what TxOrderer guarantees.    *)
(***************************************************************************)
OrdererProofs == INSTANCE TxOrderer_proofs WITH
    Txs <- Masters, Ranges <- (SUBSET Addr) \ {{}}, NoRange <- {},
    Classes <- {"snoop", "plain"}, InRange <- Meet,
    place <- [m \in Masters |-> Place(m)],
    rng <- [m \in Masters |-> IF Place(m) = "out" THEN {} ELSE tx[m].rng],
    class <- [m \in Masters |->
                 IF Place(m) # "out" /\ IsSnoopingTransaction(tx[m].kind)
                 THEN "snoop" ELSE "plain"],
    older <- older \cap (InPhase("stalled") \X InPhase("stalled"))

OngoingDisjoint ==
    \A a, b \in Ongoing :
        a # b /\ IsSnoopingTransaction(tx[a].kind) /\ IsSnoopingTransaction(tx[b].kind)
            => ~Overlapping(a, b)

\* The overlap test of the system is symmetric, as TxOrderer assumes.
LEMMA MeetSymmetric == OrdererProofs!OrdererAssumption
  BY DEF OrdererProofs!OrdererAssumption, OrdererProofs!AllClasses, Meet

LEMMA SameOrderer == Orderer!OrdSpec => OrdererProofs!OrdSpec
<1>1. Orderer!OrdInit => OrdererProofs!OrdInit
  BY DEF Orderer!OrdInit, OrdererProofs!OrdInit
<1>2. [Orderer!OrdNext]_(Orderer!ordVars) => [OrdererProofs!OrdNext]_(OrdererProofs!ordVars)
  BY DEF Orderer!OrdNext, OrdererProofs!OrdNext, Orderer!ordVars, OrdererProofs!ordVars,
         Orderer!Process, OrdererProofs!Process, Orderer!Done, OrdererProofs!Done,
         Orderer!Restarts, OrdererProofs!Restarts, Orderer!Stalls, OrdererProofs!Stalls,
         Orderer!overlapping, OrdererProofs!overlapping, Orderer!Stalled,
         OrdererProofs!Stalled, Orderer!Running, OrdererProofs!Running
<1>3. QED
  BY <1>1, <1>2, PTL DEF Orderer!OrdSpec, OrdererProofs!OrdSpec

\* Two snooping transactions that m_ongoing_tx lists never touch the same
\* bytes, so that a line is never granted to two masters at a time.
THEOREM SpecOngoingDisjoint == Spec => []OngoingDisjoint
<1>1. OrdererProofs!SnoopingDisjoint => OngoingDisjoint
  <2>1. SUFFICES ASSUME OrdererProofs!SnoopingDisjoint, NEW a \in Ongoing, NEW b \in Ongoing,
                        a # b, IsSnoopingTransaction(tx[a].kind),
                        IsSnoopingTransaction(tx[b].kind)
                 PROVE  ~Overlapping(a, b)
    BY DEF OngoingDisjoint
  <2>2. a \in Masters /\ b \in Masters /\ Place(a) = "ongoing" /\ Place(b) = "ongoing"
    BY DEF Place, Ongoing
  <2>3. QED
    BY <2>1, <2>2 DEF OrdererProofs!SnoopingDisjoint, OrdererProofs!Running, Meet, Overlapping
<1>2. OrdererProofs!OrdSpec => []OrdererProofs!SnoopingDisjoint
  BY MeetSymmetric, OrdererProofs!SnoopingApart, PTL DEF OrdererProofs!SnoopingApart
<1>3. Spec => Orderer!OrdSpec
  BY SpecImplementsOrderer DEF ImplementsOrderer
<1>4. QED
  BY <1>1, <1>2, <1>3, SameOrderer, PTL

-----------------------------------------------------------------------------
(***************************************************************************)
(* What a step of the interconnect does to transactions and snoops, as far *)
(* as coherence depends on it.                                             *)
(***************************************************************************)

\* No port has an answer to give or to merge for the transaction of m.
Idle(m) == \A l \in Lines : snoop[m][l].sent = {} /\ snoop[m][l].back = {}

\* The ports of x are where they were, with the same answers.
SameSnoops(x) ==
    \A l \in Lines :
        /\ snoop'[x][l].sent = snoop[x][l].sent /\ snoop'[x][l].back = snoop[x][l].back
        /\ \A e \in snoop[x][l].back : snoop'[x][l].ans[e] = snoop[x][l].ans[e]

\* The transaction of m goes on: to its next line, or downstream.
Continues(m) ==
    /\ tx[m].phase = "snoop" /\ tx'[m].phase \in {"snoop", "ds"}
    /\ SameTx(tx'[m], tx[m]) /\ SameAnswer(tx'[m], tx[m])
    /\ \A x \in Masters \ {m} : tx'[x] = tx[x]
    /\ \A x \in Masters : SameSnoops(x)
    /\ UNCHANGED overlap

\* It is done, with no snoop left.
Ends(m) ==
    /\ tx[m].phase \in {"engine", "snoop", "ds"} /\ Idle(m)
    /\ \E t : WellFormed(t) /\ SameTx(t, tx[m]) /\ SameAnswer(t, tx[m]) /\ Complete(m, t)
    /\ \A x \in Masters : SameSnoops(x)

LEMMA FinalizedKinds ==
    ASSUME BaseInv, NEW m \in Masters, NEW l \in Lines, Quiet(m, l),
           NEW t, Refilled(t, m), NEW q, Finalized(m, l, t, q),
           snoop' = [snoop EXCEPT ![m][l] = NoSnoop]
    PROVE  Continues(m) \/ Ends(m)
<1>1. /\ IcnTypeOK /\ AccessInv /\ WorkInv /\ PhaseOk(m)
      /\ snoop \in [Masters -> [Lines -> Snoop]]
  BY DEF BaseInv, TypeOK, WorkInv, PhaseInv, IcnTypeOK
<1>2. /\ tx[m].phase = "snoop" /\ l \in tx[m].segs
      /\ snoop[m][l].sent = {} /\ snoop[m][l].back = {}
  BY DEF Quiet, Active
<1>3. NoSnoop.sent = {} /\ NoSnoop.back = {}
  BY DEF NoSnoop
<1>4. \A x \in Masters : SameSnoops(x)
  <2>1. \A x \in Masters, k \in Lines :
           snoop'[x][k] = IF x = m /\ k = l THEN NoSnoop ELSE snoop[x][k]
    BY <1>1
  <2>2. QED
    BY <1>2, <1>3, <2>1 DEF SameSnoops
<1>5. /\ SameTx(t, tx[m]) /\ SameAnswer(t, tx[m]) /\ t.segs = tx[m].segs
      /\ t.kind = tx[m].kind /\ t.phase = tx[m].phase
  BY DEF Refilled, SameTx
<1>6. SameTx(tx'[m], tx[m]) /\ SameAnswer(tx'[m], tx[m])
  BY <1>5 DEF Finalized, SameTx, SameAnswer
<1>7. CASE \E u : WellFormed(u) /\ SameTx(u, t) /\ SameAnswer(u, t) /\ Complete(m, u)
               /\ Left(t, l) = {}
  <2>1. PICK u : WellFormed(u) /\ SameTx(u, t) /\ SameAnswer(u, t) /\ Complete(m, u)
    BY <1>7
  <2>2. SameTx(u, tx[m]) /\ SameAnswer(u, tx[m])
    BY <1>5, <2>1 DEF SameTx, SameAnswer
  <2>3. tx[m].segs \subseteq {l}
    <3>1. CASE Segmented(t.kind)
      BY <1>5, <1>7, <3>1 DEF Left
    <3>2. CASE ~Segmented(t.kind)
      <4>1. op[m] # NoOp
        BY <1>1, <1>2, AccessParts
      <4>2. tx[m].kind \notin CopyBackKinds
        BY <1>1, <1>2, KindClasses
           DEF PhaseOk, IsSnoopingTransaction, ReadKinds, CleanKinds, CmoKinds,
               UniqueWriteKinds
      <4>3. LinesOf(tx[m].rng) = {LineOf(op[m])}
        BY <1>1, <1>5, <3>2, <4>1, <4>2, OneLine
      <4>4. QED
        BY <1>1, <1>2, <4>3 DEF PhaseOk
    <3>3. QED
      BY <3>1, <3>2
  <2>4. Idle(m)
    BY <1>1, <1>2, <1>3, <2>3 DEF PhaseOk, Active, Idle
  <2>5. QED
    BY <1>2, <1>4, <2>1, <2>2, <2>4 DEF Ends
<1>8. CASE ~\E u : WellFormed(u) /\ SameTx(u, t) /\ SameAnswer(u, t) /\ Complete(m, u)
                /\ Left(t, l) = {}
  <2>1. /\ \A x \in Masters \ {m} : tx'[x] = tx[x]
        /\ tx'[m].phase \in {"snoop", "ds"} /\ UNCHANGED overlap
    BY <1>2, <1>5, <1>8 DEF Finalized
  <2>2. QED
    BY <1>2, <1>4, <1>6, <2>1 DEF Continues
<1>9. QED
  BY <1>7, <1>8

LEMMA IcnKinds ==
    ASSUME BaseInv, SnoopDone \/ DsOwn \/ DsSnoop
    PROVE  \/ UNCHANGED <<tx, snoop, overlap>>
           \/ \E m \in Masters : Continues(m) \/ (Ends(m) /\ tx[m].phase # "engine")
<1>1. IcnTypeOK /\ AccessInv /\ WorkInv /\ PhaseInv /\ DoneFifo /\ DsFifo
  BY DEF BaseInv, TypeOK, WorkInv
<1>2. CASE SnoopDone
  <2>1. Head(snoopDone) \in Range(snoopDone) /\ Head(snoopDone) \in Masters \X Lines
    BY <1>1, <1>2, FifoTypes, RangeIs, HeadIn DEF SnoopDone
  <2>2. PICK m \in Masters, l \in Lines : Head(snoopDone) = <<m, l>>
    BY <2>1
  <2>3. Head(snoopDone)[1] = m /\ Head(snoopDone)[2] = l /\ Quiet(m, l)
    BY <1>1, <2>1, <2>2 DEF DoneFifo
  <2>4. tx[m].phase = "snoop"
    BY <2>3 DEF Quiet, Active
  <2>5. \/ UNCHANGED <<tx, snoop, overlap>>
        \/ /\ Finalized(m, l, tx[m], downstream)
           /\ snoop' = [snoop EXCEPT ![m][l] = NoSnoop]
    BY <1>1, <1>2, <2>3, <2>4, SnoopDoneTypes
  <2>6. PICK t, q : t = tx[m] /\ q = downstream
    OBVIOUS
  <2>7. CASE Finalized(m, l, t, q) /\ snoop' = [snoop EXCEPT ![m][l] = NoSnoop]
    <3>1. Refilled(t, m)
      BY <1>1, <2>6, RefilledSelf
    <3>2. QED
      BY <2>3, <2>4, <2>7, <3>1, FinalizedKinds
  <2>8. QED
    BY <2>5, <2>6, <2>7
<1>3. CASE DsOwn \/ DsSnoop
  <2>1. Head(downstream) \in Range(downstream) /\ Head(downstream) \in DsEntry
    BY <1>1, <1>3, FifoTypes, RangeIs, HeadIn DEF DsOwn, DsSnoop
  <2>2. PICK m \in Masters, l \in Lines : Head(downstream).m = m /\ Head(downstream).line = l
    BY <2>1 DEF DsEntry
  <2>3. Queued(Head(downstream))
    BY <1>1, <2>1 DEF DsFifo
  <2>4. CASE DsOwn
    <3>1. tx[m].phase = "ds" /\ UNCHANGED snoop
      BY <2>2, <2>3, <2>4 DEF DsOwn, Queued
    <3>2. PICK t : Refilled(t, m) /\ Complete(m, t)
      BY <1>1, <2>2, <2>4, <3>1, DsOwnTypes
    <3>3. NoSnoop.sent = {} /\ NoSnoop.back = {}
      BY DEF NoSnoop
    <3>4. Idle(m)
      BY <1>1, <3>1, <3>3 DEF Idle, PhaseInv, PhaseOk, Active
    <3>5. \A x \in Masters : SameSnoops(x)
      BY <3>1 DEF SameSnoops
    <3>6. Ends(m)
      BY <3>1, <3>2, <3>4, <3>5 DEF Ends, Refilled
    <3>7. QED
      BY <3>1, <3>6
  <2>5. CASE DsSnoop
    <3>1. Quiet(m, l) /\ tx[m].phase = "snoop"
      BY <2>2, <2>3, <2>5 DEF DsSnoop, Queued, Quiet, Active
    <3>2. PICK t : Refilled(t, m) /\ Finalized(m, l, t, Tail(downstream))
      BY <1>1, <2>2, <2>5, <3>1, DsSnoopTypes
    <3>3. snoop' = [snoop EXCEPT ![m][l] = NoSnoop]
      BY <1>1, <2>2, <2>5, <3>1, DsSnoopTypes
    <3>4. QED
      BY <3>1, <3>2, <3>3, FinalizedKinds
  <2>6. QED
    BY <1>3, <2>4, <2>5
<1>4. QED
  BY <1>2, <1>3

-----------------------------------------------------------------------------
(***************************************************************************)
(* m_overlapList: an entry is a snoop that the port works on or the        *)
(* response on its way to the port's master; a snooping transaction that   *)
(* covers the line is in front, because no other one overlaps it.          *)
(***************************************************************************)
Incoming(c, l) ==
    /\ tx[c].phase = "resp" /\ IsSnoopingTransaction(tx[c].kind)
    /\ tx[c].rng = LineAddr(l)

OverlapOk(c, l) ==
    /\ IsInjective(overlap[c][l])
    /\ \A m \in Range(overlap[c][l]) :
          IF m = c THEN tx[c].phase = "resp" /\ l \in LinesOf(tx[c].rng)
                   ELSE c \in snoop[m][l].sent \cup snoop[m][l].back
    /\ Incoming(c, l) => overlap[c][l] # <<>> /\ Head(overlap[c][l]) = c

OverlapInv == \A c \in Caches, l \in Lines : OverlapOk(c, l)

\* The response of c stays on its way, or there is none before and after.
OwnKept(c) == tx'[c] = tx[c] \/ (tx[c].phase # "resp" /\ tx'[c].phase # "resp")

\* Port c still works on what it worked on for line l.
PortKept(c, l) ==
    \A m \in Masters : c \in snoop[m][l].sent \cup snoop[m][l].back =>
                          c \in snoop'[m][l].sent \cup snoop'[m][l].back

LEMMA OverlapKept ==
    ASSUME IcnTypeOK, NEW c \in Caches, NEW l \in Lines, OverlapOk(c, l),
           overlap'[c][l] = overlap[c][l], OwnKept(c), PortKept(c, l)
    PROVE  OverlapOk(c, l)'
<1>1. Range(overlap[c][l]) \subseteq Masters
  BY RangeIs DEF IcnTypeOK
<1>2. Range(overlap[c][l])' = Range(overlap[c][l])
  BY DEF Range
<1>3. IsInjective(overlap'[c][l])
  BY DEF OverlapOk
<1>4. \A m \in Range(overlap'[c][l]) :
          IF m = c THEN tx'[c].phase = "resp" /\ l \in LinesOf(tx'[c].rng)
                   ELSE c \in snoop'[m][l].sent \cup snoop'[m][l].back
  BY <1>1, <1>2 DEF OverlapOk, OwnKept, PortKept
<1>5. Incoming(c, l)' => Incoming(c, l)
  BY DEF Incoming, OwnKept
<1>6. QED
  BY <1>3, <1>4, <1>5 DEF OverlapOk

\* A line with no entry of c itself, or with none at all.
LEMMA OverlapAppended ==
    ASSUME IcnTypeOK, NEW c \in Caches, NEW l \in Lines, OverlapOk(c, l),
           NEW m \in Masters, overlap'[c][l] = Append(overlap[c][l], m),
           m = c => tx[c].phase # "resp" /\ tx'[c].phase = "resp" /\ l \in LinesOf(tx'[c].rng),
           m # c => /\ OwnKept(c) /\ c \notin snoop[m][l].sent \cup snoop[m][l].back
                    /\ c \in snoop'[m][l].sent \cup snoop'[m][l].back,
           m = c /\ Incoming(c, l)' => overlap[c][l] = <<>>,
           PortKept(c, l)
    PROVE  OverlapOk(c, l)'
<1>1. overlap[c][l] \in Seq(Masters)
  BY DEF IcnTypeOK
<1>2. Range(overlap[c][l]) \subseteq Masters /\ m \notin Range(overlap[c][l])
  BY <1>1, RangeIs DEF OverlapOk
<1>3. /\ overlap'[c][l] # <<>> /\ IsInjective(overlap'[c][l])
      /\ Range(overlap'[c][l]) = Range(overlap[c][l]) \cup {m}
      /\ Head(overlap'[c][l]) = IF overlap[c][l] = <<>> THEN m ELSE Head(overlap[c][l])
  BY <1>1, <1>2, AppendRange DEF OverlapOk
<1>4. \A x \in Range(overlap'[c][l]) :
          IF x = c THEN tx'[c].phase = "resp" /\ l \in LinesOf(tx'[c].rng)
                   ELSE c \in snoop'[x][l].sent \cup snoop'[x][l].back
  <2>1. SUFFICES ASSUME NEW x \in Range(overlap[c][l]) \cup {m}
                 PROVE  IF x = c THEN tx'[c].phase = "resp" /\ l \in LinesOf(tx'[c].rng)
                        ELSE c \in snoop'[x][l].sent \cup snoop'[x][l].back
    BY <1>3
  <2>2. CASE x = m
    BY <2>2
  <2>3. CASE x # m /\ x = c
    BY <2>1, <2>3 DEF OverlapOk, OwnKept
  <2>4. CASE x # m /\ x # c
    BY <1>2, <2>1, <2>4 DEF OverlapOk, PortKept
  <2>5. QED
    BY <2>2, <2>3, <2>4
<1>5. Incoming(c, l)' => Head(overlap'[c][l]) = c
  <2>1. m # c => (Incoming(c, l)' => Incoming(c, l))
    BY DEF Incoming, OwnKept
  <2>2. QED
    BY <1>3, <2>1 DEF OverlapOk
<1>6. QED
  BY <1>3, <1>4, <1>5 DEF OverlapOk

\* The entry of m is removed: c has taken its response, or is done with a snoop.
LEMMA OverlapRemoved ==
    ASSUME IcnTypeOK, NEW c \in Caches, NEW l \in Lines, OverlapOk(c, l),
           NEW m \in Masters, overlap'[c][l] = Without(overlap[c][l], m),
           m = c => tx'[c].phase # "resp",
           m # c => OwnKept(c),
           \A x \in Masters \ {m} : c \in snoop[x][l].sent \cup snoop[x][l].back =>
                                       c \in snoop'[x][l].sent \cup snoop'[x][l].back
    PROVE  OverlapOk(c, l)'
<1>1. overlap[c][l] \in Seq(Masters)
  BY DEF IcnTypeOK
<1>2. Range(overlap[c][l]) \subseteq Masters
  BY <1>1, RangeIs
<1>3. /\ IsInjective(overlap'[c][l])
      /\ Range(overlap'[c][l]) = Range(overlap[c][l]) \ {m}
      /\ overlap[c][l] # <<>> /\ Head(overlap[c][l]) # m =>
            overlap'[c][l] # <<>> /\ Head(overlap'[c][l]) = Head(overlap[c][l])
  BY <1>1, WithoutRange DEF OverlapOk
<1>4. \A x \in Range(overlap'[c][l]) :
          IF x = c THEN tx'[c].phase = "resp" /\ l \in LinesOf(tx'[c].rng)
                   ELSE c \in snoop'[x][l].sent \cup snoop'[x][l].back
  <2>1. SUFFICES ASSUME NEW x \in Range(overlap[c][l]), x # m
                 PROVE  IF x = c THEN tx'[c].phase = "resp" /\ l \in LinesOf(tx'[c].rng)
                        ELSE c \in snoop'[x][l].sent \cup snoop'[x][l].back
    BY <1>3
  <2>2. CASE x = c
    BY <2>1, <2>2 DEF OverlapOk, OwnKept
  <2>3. CASE x # c
    BY <1>2, <2>1, <2>3 DEF OverlapOk
  <2>4. QED
    BY <2>2, <2>3
<1>5. Incoming(c, l)' => overlap'[c][l] # <<>> /\ Head(overlap'[c][l]) = c
  <2>1. CASE m # c
    <3>1. Incoming(c, l)' => Incoming(c, l)
      BY <2>1 DEF Incoming, OwnKept
    <3>2. QED
      BY <1>3, <2>1, <3>1 DEF OverlapOk
  <2>2. CASE m = c
    BY <2>2 DEF Incoming
  <2>3. QED
    BY <2>1, <2>2
<1>6. QED
  BY <1>3, <1>4, <1>5 DEF OverlapOk

\* Where a port works, the line is one of a transaction under way.
LEMMA PortsBusy ==
    ASSUME BaseInv, NEW x \in Masters, NEW l \in Lines,
           snoop[x][l].sent # {} \/ snoop[x][l].back # {}
    PROVE  /\ tx[x].phase = "snoop" /\ IsSnoopingTransaction(tx[x].kind)
           /\ l \in LinesOf(tx[x].rng) /\ x \notin snoop[x][l].sent \cup snoop[x][l].back
<1>1. WorkInv /\ PhaseOk(x)
  BY DEF BaseInv, WorkInv, PhaseInv
<1>2. Active(x, l)
  BY <1>1, BusyActive
<1>3. QED
  BY <1>1, <1>2 DEF PhaseOk, Active

\* A transaction that covers line l meets every other one that touches it.
LEMMA LineMeets ==
    ASSUME IcnTypeOK, NEW x \in Masters, NEW m \in Masters, NEW l \in Lines,
           l \in LinesOf(tx[x].rng), tx[m].rng = LineAddr(l)
    PROVE  Overlapping(x, m)
<1>1. PICK a \in tx[x].rng : a[1] = l
  BY DEF LinesOf
<1>2. a \in Addr
  BY DEF IcnTypeOK, Tx
<1>3. a \in LineAddr(l)
  BY <1>1, <1>2 DEF Addr, LineAddr
<1>4. QED
  BY <1>1, <1>3 DEF Overlapping

LEMMA OverlapEnds ==
    ASSUME BaseInv, OngoingDisjoint, OverlapInv, NEW m \in Masters, Ends(m)
    PROVE  OverlapInv'
<1>1. IcnTypeOK /\ tx[m].phase \in {"engine", "snoop", "ds"}
  BY DEF BaseInv, TypeOK, Ends
<1>2. PICK t : WellFormed(t) /\ SameTx(t, tx[m]) /\ SameAnswer(t, tx[m]) /\ Complete(m, t)
  BY DEF Ends
<1>3. /\ \A x \in Masters : SameTx(tx'[x], tx[x])
      /\ tx'[m].phase = "resp" /\ tx'[m].rng = tx[m].rng /\ tx'[m].kind = tx[m].kind
      /\ \A x \in Masters \ {m} : OwnKept(x)
  <2>1. Completed(m, t)
    BY <1>1, <1>2, CompleteParts
  <2>2. /\ \A x \in Masters : SameTx(tx'[x], tx[x])
        /\ tx'[m].phase = "resp"
    BY <1>1, <1>2, <2>1, CompletedSame
  <2>3. \A x \in Masters \ {m} : OwnKept(x)
    BY <1>1, <2>1 DEF Completed, OwnKept, IcnTypeOK, Tx
  <2>4. QED
    BY <2>2, <2>3 DEF SameTx
<1>4. \A c \in Caches, l \in Lines : PortKept(c, l)
  BY DEF Ends, SameSnoops, PortKept
<1>5. \A c \in Caches, l \in Lines :
         overlap'[c][l] = IF c = m /\ l \in LinesOf(tx[m].rng)
                          THEN Append(overlap[c][l], m) ELSE overlap[c][l]
  BY <1>1, <1>2 DEF Complete, IcnTypeOK, SameTx
<1>6. ASSUME NEW c \in Caches, NEW l \in Lines, c # m
      PROVE  OverlapOk(c, l)'
  <2>1. OwnKept(c) /\ overlap'[c][l] = overlap[c][l] /\ PortKept(c, l) /\ OverlapOk(c, l)
    BY <1>3, <1>4, <1>5, <1>6, CachesAreMasters DEF OverlapInv
  <2>2. QED
    BY <1>1, <2>1, OverlapKept
<1>7. ASSUME NEW l \in Lines, m \in Caches
      PROVE  OverlapOk(m, l)'
  <2>1. OverlapOk(m, l) /\ PortKept(m, l)
    BY <1>4, <1>7 DEF OverlapInv
  <2>2. CASE l \in LinesOf(tx[m].rng)
    <3>1. overlap'[m][l] = Append(overlap[m][l], m) /\ overlap[m][l] \in Seq(Masters)
      BY <1>1, <1>5, <1>7, <2>2 DEF IcnTypeOK
    <3>2. Incoming(m, l)' => overlap[m][l] = <<>>
      <4>1. SUFFICES ASSUME Incoming(m, l)', NEW x \in Range(overlap[m][l])  PROVE FALSE
        BY <3>1, RangeIs
      <4>2. x \in Masters /\ x # m /\ m \in snoop[x][l].sent \cup snoop[x][l].back
        BY <1>1, <2>1, <3>1, <4>1, RangeIs DEF OverlapOk
      <4>3. /\ tx[x].phase = "snoop" /\ IsSnoopingTransaction(tx[x].kind)
            /\ l \in LinesOf(tx[x].rng)
        BY <4>2, PortsBusy
      <4>4. IsSnoopingTransaction(tx[m].kind) /\ tx[m].rng = LineAddr(l)
        BY <1>3, <4>1 DEF Incoming
      <4>5. Overlapping(x, m)
        BY <1>1, <4>2, <4>3, <4>4, LineMeets
      <4>6. x \in Ongoing /\ m \in Ongoing
        BY <1>1, <4>2, <4>3 DEF Ongoing
      <4>7. QED
        BY <4>2, <4>3, <4>4, <4>5, <4>6 DEF OngoingDisjoint
    <3>3. QED
      BY <1>1, <1>3, <1>7, <2>1, <2>2, <3>1, <3>2, OverlapAppended
  <2>3. CASE l \notin LinesOf(tx[m].rng)
    <3>1. overlap'[m][l] = overlap[m][l]
      BY <1>5, <1>7, <2>3
    <3>2. \A x \in Range(overlap[m][l]) : x # m
      BY <1>1, <2>1 DEF OverlapOk
    <3>3. ~Incoming(m, l)'
      <4>1. LinesOf(LineAddr(l)) = {l}
        BY LineAddrFacts
      <4>2. QED
        BY <1>3, <2>3, <4>1 DEF Incoming
    <3>4. Range(overlap'[m][l]) = Range(overlap[m][l]) /\ Range(overlap[m][l]) \subseteq Masters
      BY <1>1, <1>7, <3>1, RangeIs DEF IcnTypeOK
    <3>5. QED
      BY <1>7, <2>1, <3>1, <3>2, <3>3, <3>4 DEF OverlapOk, PortKept
  <2>4. QED
    BY <2>2, <2>3
<1>8. QED
  BY <1>6, <1>7 DEF OverlapInv

LEMMA OverlapAccept ==
    ASSUME BaseInv, OverlapInv, NEW m \in Masters, Accept(m)
    PROVE  OverlapInv'
<1>1. /\ IcnTypeOK /\ tx[m].phase = "req" /\ UNCHANGED snoop
      /\ tx \in [Masters -> Tx]
      /\ \A c \in Caches, l \in Lines : PortKept(c, l) /\ OverlapOk(c, l)
  BY DEF BaseInv, TypeOK, IcnTypeOK, Accept, PortKept, OverlapInv
<1>2. CASE UNCHANGED overlap /\ tx'[m].phase # "resp" /\ \A x \in Masters \ {m} : tx'[x] = tx[x]
  <2>1. \A c \in Caches : OwnKept(c)
    BY <1>1, <1>2, CachesAreMasters DEF OwnKept
  <2>2. QED
    BY <1>1, <1>2, <2>1, OverlapKept DEF OverlapInv
<1>3. CASE tx[m].kind = "Evict"
  <2>1. m \in Caches
    BY <1>3, AccessParts, KindClasses DEF BaseInv
  <2>2. tx[m].rng # {} /\ LinesOf(tx[m].rng) # {} /\ LinesOf(tx[m].rng) \subseteq Lines
    <3>1. tx[m].rng # {}
      BY <1>1, AccessParts DEF BaseInv
    <3>2. QED
      BY <1>1, <3>1, TxOf DEF LinesOf
  <2>3. PICK k \in LinesOf(tx[m].rng) :
          /\ tx' = [tx EXCEPT ![m].phase = "resp", ![m].ok = TRUE]
          /\ overlap' = [overlap EXCEPT ![m][k] = Append(@, m)]
    BY <1>3, <2>2 DEF Accept, IsSnoopingTransaction, ReadKinds, CleanKinds, CmoKinds,
                      UniqueWriteKinds
  <2>4. /\ tx'[m].phase = "resp" /\ tx'[m].kind = "Evict" /\ tx'[m].rng = tx[m].rng
        /\ \A x \in Masters \ {m} : tx'[x] = tx[x]
    BY <1>1, <1>3, <2>3 DEF Tx
  <2>5. \A c \in Caches, l \in Lines :
           overlap'[c][l] = IF c = m /\ l = k THEN Append(overlap[c][l], m) ELSE overlap[c][l]
    BY <1>1, <2>1, <2>2, <2>3 DEF IcnTypeOK
  <2>6. ~IsSnoopingTransaction("Evict")
    BY DEF IsSnoopingTransaction, ReadKinds, CleanKinds, CmoKinds, UniqueWriteKinds
  <2>7. ASSUME NEW c \in Caches, NEW l \in Lines, c # m  PROVE OverlapOk(c, l)'
    BY <1>1, <2>4, <2>5, <2>7, OverlapKept, CachesAreMasters DEF OwnKept
  <2>8. OverlapOk(m, k)'
    BY <1>1, <2>1, <2>2, <2>4, <2>5, <2>6, OverlapAppended DEF Incoming
  <2>9. ASSUME NEW l \in Lines, l # k  PROVE OverlapOk(m, l)'
    <3>1. overlap'[m][l] = overlap[m][l] /\ \A x \in Range(overlap[m][l]) : x # m
      BY <1>1, <2>1, <2>5, <2>9 DEF OverlapOk
    <3>2. ~Incoming(m, l)'
      BY <2>4, <2>6 DEF Incoming
    <3>3. Range(overlap'[m][l]) = Range(overlap[m][l])
      BY <3>1
    <3>4. QED
      BY <1>1, <2>1, <3>1, <3>2, <3>3 DEF OverlapOk
  <2>10. QED
    BY <2>1, <2>7, <2>8, <2>9 DEF OverlapInv
<1>4. CASE tx[m].kind # "Evict"
  <2>1. PICK p \in {"stalled", "engine", "ds"} : tx' = [tx EXCEPT ![m].phase = p]
    BY <1>4 DEF Accept
  <2>2. tx'[m].phase # "resp" /\ \A x \in Masters \ {m} : tx'[x] = tx[x]
    BY <1>1, <2>1 DEF Tx
  <2>3. UNCHANGED overlap
    BY <1>4 DEF Accept
  <2>4. QED
    BY <1>2, <2>2, <2>3
<1>5. QED
  BY <1>3, <1>4

\* What EngineSnoop does, seen from the ports.
LEMMA EngineSnoopParts ==
    ASSUME BaseInv, NEW m \in Masters, EngineSnoop(m)
    PROVE  /\ tx[m].phase = "engine" /\ tx'[m].phase = "snoop" /\ SameTx(tx'[m], tx[m])
           /\ tx'[m].shared = tx[m].shared /\ tx'[m].dirty = tx[m].dirty
           /\ \A x \in Masters \ {m} : tx'[x] = tx[x]
           /\ Idle(m)
           /\ \A l \in LinesOf(tx[m].rng) : snoop'[m][l].sent = Caches \ {m}
                                             /\ snoop'[m][l].back = {}
           /\ \A l \in Lines \ LinesOf(tx[m].rng) : snoop'[m][l] = snoop[m][l]
           /\ \A x \in Masters \ {m}, l \in Lines : snoop'[x][l] = snoop[x][l]
           /\ \A c \in Caches, l \in Lines :
                 overlap'[c][l] = IF c # m /\ l \in LinesOf(tx[m].rng)
                                  THEN Append(overlap[c][l], m) ELSE overlap[c][l]
<1>1. /\ IcnTypeOK /\ PhaseOk(m) /\ tx[m].phase = "engine" /\ tx[m] \in Tx
      /\ tx \in [Masters -> Tx] /\ snoop \in [Masters -> [Lines -> Snoop]]
      /\ LinesOf(tx[m].rng) \subseteq Lines
  BY TxOf DEF BaseInv, TypeOK, WorkInv, PhaseInv, EngineSnoop, EngineHead, InPhase, IcnTypeOK
<1>2. tx' = [tx EXCEPT ![m].phase = "snoop", ![m].exokay = tx[m].excl]
  BY DEF EngineSnoop
<1>3. /\ tx'[m].phase = "snoop" /\ SameTx(tx'[m], tx[m])
      /\ tx'[m].shared = tx[m].shared /\ tx'[m].dirty = tx[m].dirty
      /\ \A x \in Masters \ {m} : tx'[x] = tx[x]
  BY <1>1, <1>2 DEF Tx, SameTx
<1>4. NoSnoop.sent = {} /\ NoSnoop.back = {}
  BY DEF NoSnoop
<1>5. Idle(m)
  BY <1>1, <1>4 DEF PhaseOk, Active, Idle
<1>6. snoop' = [snoop EXCEPT ![m] = [l \in Lines |->
                            IF l \in LinesOf(tx[m].rng)
                            THEN [NoSnoop EXCEPT !.sent = Caches \ {m},
                                                 !.exec = tx[m].kind = "ReadOnce"]
                            ELSE snoop[m][l]]]
  BY <1>1 DEF EngineSnoop
<1>7. PICK e : e = (tx[m].kind = "ReadOnce")
  OBVIOUS
<1>8. PICK s : s = [NoSnoop EXCEPT !.sent = Caches \ {m}, !.exec = e]
  OBVIOUS
<1>9. s.sent = Caches \ {m} /\ s.back = {}
  BY <1>8 DEF NoSnoop
<1>10. snoop' = [snoop EXCEPT ![m] = [l \in Lines |->
                            IF l \in LinesOf(tx[m].rng) THEN s ELSE snoop[m][l]]]
  BY <1>6, <1>7, <1>8
<1>11. /\ \A l \in LinesOf(tx[m].rng) : snoop'[m][l].sent = Caches \ {m}
                                         /\ snoop'[m][l].back = {}
       /\ \A l \in Lines \ LinesOf(tx[m].rng) : snoop'[m][l] = snoop[m][l]
       /\ \A x \in Masters \ {m}, l \in Lines : snoop'[x][l] = snoop[x][l]
  BY <1>1, <1>9, <1>10
<1>12. \A c \in Caches, l \in Lines :
          overlap'[c][l] = IF c # m /\ l \in LinesOf(tx[m].rng)
                           THEN Append(overlap[c][l], m) ELSE overlap[c][l]
  BY DEF EngineSnoop
<1>13. QED
  BY <1>1, <1>3, <1>5, <1>11, <1>12

LEMMA OverlapEngineSnoop ==
    ASSUME BaseInv, OverlapInv, NEW m \in Masters, EngineSnoop(m)
    PROVE  OverlapInv'
<1>1. IcnTypeOK /\ LinesOf(tx[m].rng) \subseteq Lines
  BY TxOf DEF BaseInv, TypeOK
<1>2. /\ tx[m].phase = "engine" /\ tx'[m].phase = "snoop"
      /\ \A x \in Masters \ {m} : tx'[x] = tx[x]
      /\ Idle(m)
      /\ \A l \in LinesOf(tx[m].rng) : snoop'[m][l].sent = Caches \ {m}
      /\ \A x \in Masters \ {m}, l \in Lines : snoop'[x][l] = snoop[x][l]
      /\ \A c \in Caches, l \in Lines :
            overlap'[c][l] = IF c # m /\ l \in LinesOf(tx[m].rng)
                             THEN Append(overlap[c][l], m) ELSE overlap[c][l]
  BY EngineSnoopParts
<1>3. SUFFICES ASSUME NEW c \in Caches, NEW l \in Lines  PROVE OverlapOk(c, l)'
  BY DEF OverlapInv
<1>4. OverlapOk(c, l) /\ OwnKept(c) /\ PortKept(c, l) /\ c \in Masters
  BY <1>2, CachesAreMasters DEF OverlapInv, OwnKept, PortKept, Idle
<1>5. CASE c # m /\ l \in LinesOf(tx[m].rng)
  <2>1. /\ overlap'[c][l] = Append(overlap[c][l], m)
        /\ c \notin snoop[m][l].sent \cup snoop[m][l].back
        /\ c \in snoop'[m][l].sent \cup snoop'[m][l].back
    BY <1>2, <1>5 DEF Idle
  <2>2. QED
    BY <1>1, <1>4, <1>5, <2>1, OverlapAppended
<1>6. CASE ~(c # m /\ l \in LinesOf(tx[m].rng))
  BY <1>1, <1>2, <1>4, <1>6, OverlapKept
<1>7. QED
  BY <1>5, <1>6

\* What an answer to a snoop leaves of the SnoopTransaction.
LEMMA SnoopMasterParts ==
    ASSUME BaseInv, OverlapInv, NEW m \in Masters, NEW l \in Lines, NEW c \in Caches,
           SnoopMaster(m, l, c)
    PROVE  /\ UNCHANGED <<tx, overlap, want, op>> /\ m # c
           /\ tx[m].phase = "snoop" /\ IsSnoopingTransaction(tx[m].kind)
           /\ l \in LinesOf(tx[m].rng)
           /\ ~write_ongoing(c) /\ ~Incoming(c, l)
           /\ c \in snoop[m][l].sent /\ c \notin snoop[m][l].back
           /\ snoop'[m][l].sent = snoop[m][l].sent \ {c}
           /\ snoop'[m][l].back = snoop[m][l].back \cup {c}
           /\ snoop'[m][l].ans[c] = IF in_cache(c, l)
                                    THEN SnoopAnswer(SnoopOf(tx[m].kind), get_line(c, l))
                                    ELSE BlankAnswer
           /\ \A d \in Caches \ {c} : snoop'[m][l].ans[d] = snoop[m][l].ans[d]
           /\ \A x \in Masters, k \in Lines : x # m \/ k # l => snoop'[x][k] = snoop[x][k]
<1>1. IcnTypeOK /\ snoop[m][l] \in Snoop /\ snoop \in [Masters -> [Lines -> Snoop]]
  BY DEF BaseInv, TypeOK, IcnTypeOK
<1>2. PICK a : /\ SnoopAnswered(m, l, c, a)
               /\ a = IF in_cache(c, l)
                      THEN SnoopAnswer(SnoopOf(tx[m].kind), get_line(c, l)) ELSE BlankAnswer
  BY DEF SnoopMaster
<1>3. PICK s : s = [snoop[m][l] EXCEPT !.sent = snoop[m][l].sent \ {c},
                                       !.back = snoop[m][l].back \cup {c}, !.ans[c] = a]
  OBVIOUS
<1>4. /\ s.sent = snoop[m][l].sent \ {c} /\ s.back = snoop[m][l].back \cup {c}
      /\ s.ans[c] = a /\ \A d \in Caches \ {c} : s.ans[d] = snoop[m][l].ans[d]
  BY <1>1, <1>3 DEF Snoop
<1>5. snoop' = [snoop EXCEPT ![m][l] = s] /\ UNCHANGED <<tx, overlap>>
  BY <1>2, <1>3 DEF SnoopAnswered
<1>6. /\ snoop'[m][l] = s
      /\ \A x \in Masters, k \in Lines : x # m \/ k # l => snoop'[x][k] = snoop[x][k]
  BY <1>1, <1>5
<1>7. /\ c \in snoop[m][l].sent /\ Head(overlap[c][l]) = m /\ ~write_ongoing(c)
      /\ UNCHANGED <<want, op>>
  BY DEF SnoopMaster, SnoopReady, CacheSnoop
<1>8. /\ tx[m].phase = "snoop" /\ IsSnoopingTransaction(tx[m].kind)
      /\ l \in LinesOf(tx[m].rng) /\ m # c
  BY <1>7, PortsBusy
<1>9. c \notin snoop[m][l].back
  BY <1>7 DEF BaseInv, WorkInv, PhaseInv, PhaseOk
<1>10. ~Incoming(c, l)
  BY <1>7, <1>8 DEF OverlapInv, OverlapOk
<1>11. QED
  BY <1>2, <1>4, <1>5, <1>6, <1>7, <1>8, <1>9, <1>10

LEMMA OverlapPorts ==
    ASSUME BaseInv, OverlapInv, NEW m \in Masters, NEW l \in Lines, NEW c \in Caches,
           SnoopMaster(m, l, c) \/ PortDone(m, l, c)
    PROVE  OverlapInv'
<1>1. IcnTypeOK /\ overlap \in [Caches -> [Lines -> Seq(Masters)]]
  BY DEF BaseInv, TypeOK, IcnTypeOK
<1>2. CASE SnoopMaster(m, l, c)
  <2>1. /\ UNCHANGED <<tx, overlap>>
        /\ snoop'[m][l].sent = snoop[m][l].sent \ {c}
        /\ snoop'[m][l].back = snoop[m][l].back \cup {c}
        /\ \A x \in Masters, k \in Lines : x # m \/ k # l => snoop'[x][k] = snoop[x][k]
    BY <1>2, SnoopMasterParts
  <2>2. SUFFICES ASSUME NEW d \in Caches, NEW k \in Lines  PROVE OverlapOk(d, k)'
    BY DEF OverlapInv
  <2>3. OwnKept(d) /\ PortKept(d, k) /\ OverlapOk(d, k)
    BY <2>1 DEF OwnKept, PortKept, OverlapInv
  <2>4. QED
    BY <1>1, <2>1, <2>3, OverlapKept
<1>3. CASE PortDone(m, l, c)
  <2>1. /\ c \in snoop[m][l].back /\ overlap' = [overlap EXCEPT ![c][l] = Without(@, m)]
        /\ \A x \in Masters \ {m} : tx'[x] = tx[x]
        /\ tx'[m].phase = tx[m].phase
        /\ snoop'[m][l].sent = snoop[m][l].sent
        /\ snoop'[m][l].back = snoop[m][l].back \ {c}
        /\ \A x \in Masters, k \in Lines : x # m \/ k # l => snoop'[x][k] = snoop[x][k]
    <3>1. c \in snoop[m][l].back /\ overlap' = [overlap EXCEPT ![c][l] = Without(@, m)]
      BY <1>3 DEF PortDone
    <3>2. QED
      BY <1>1, <1>3, <3>1, PortDoneTypes
  <2>2. tx[m].phase = "snoop" /\ m # c
    BY <2>1, PortsBusy
  <2>3. \A d \in Caches, k \in Lines :
           overlap'[d][k] = IF d = c /\ k = l THEN Without(overlap[d][k], m)
                                              ELSE overlap[d][k]
    BY <1>1, <2>1
  <2>4. SUFFICES ASSUME NEW d \in Caches, NEW k \in Lines  PROVE OverlapOk(d, k)'
    BY DEF OverlapInv
  <2>5. OverlapOk(d, k) /\ OwnKept(d)
    BY <2>1, <2>2, CachesAreMasters DEF OverlapInv, OwnKept
  <2>6. CASE d = c /\ k = l
    <3>1. \A x \in Masters \ {m} : c \in snoop[x][l].sent \cup snoop[x][l].back =>
                                       c \in snoop'[x][l].sent \cup snoop'[x][l].back
      BY <2>1
    <3>2. QED
      BY <1>1, <2>2, <2>3, <2>5, <2>6, <3>1, OverlapRemoved
  <2>7. CASE ~(d = c /\ k = l)
    <3>1. PortKept(d, k)
      BY <2>1, <2>7 DEF PortKept
    <3>2. QED
      BY <1>1, <2>3, <2>5, <2>7, <3>1, OverlapKept
  <2>8. QED
    BY <2>6, <2>7
<1>4. QED
  BY <1>2, <1>3

\* A master takes its response, or begins an access.
LEMMA OverlapTurn ==
    ASSUME BaseInv, OverlapInv, NEW m \in Masters,
           NEW t, tx' = [tx EXCEPT ![m] = t], t.phase \in {"idle", "req"}, UNCHANGED snoop,
           \/ UNCHANGED overlap /\ (m \notin Caches \/ tx[m].phase # "resp")
           \/ /\ m \in Caches
              /\ overlap' = [overlap EXCEPT ![m] = [l \in Lines |->
                                IF l \in LinesOf(tx[m].rng) THEN Without(@[l], m) ELSE @[l]]]
    PROVE  OverlapInv'
<1>1. /\ IcnTypeOK /\ tx \in [Masters -> Tx]
      /\ overlap \in [Caches -> [Lines -> Seq(Masters)]]
  BY DEF BaseInv, TypeOK, IcnTypeOK
<1>2. /\ tx'[m].phase # "resp" /\ \A x \in Masters \ {m} : tx'[x] = tx[x]
      /\ \A c \in Caches, l \in Lines : PortKept(c, l) /\ OverlapOk(c, l)
  BY <1>1 DEF PortKept, OverlapInv
<1>3. SUFFICES ASSUME NEW c \in Caches, NEW l \in Lines  PROVE OverlapOk(c, l)'
  BY DEF OverlapInv
<1>4. CASE c # m \/ tx[m].phase # "resp"
  <2>1. OwnKept(c)
    BY <1>2, <1>4, CachesAreMasters DEF OwnKept
  <2>2. CASE overlap'[c][l] = overlap[c][l]
    BY <1>1, <1>2, <2>1, <2>2, OverlapKept
  <2>3. CASE overlap'[c][l] # overlap[c][l]
    <3>1. /\ m \in Caches
          /\ overlap' = [overlap EXCEPT ![m] = [k \in Lines |->
                            IF k \in LinesOf(tx[m].rng) THEN Without(@[k], m) ELSE @[k]]]
      BY <2>3
    <3>2. m = c /\ overlap'[c][l] = Without(overlap[c][l], m)
      BY <1>1, <2>3, <3>1
    <3>3. QED
      BY <1>1, <1>2, <2>1, <3>2, OverlapRemoved DEF PortKept
  <2>4. QED
    BY <2>2, <2>3
<1>5. CASE c = m /\ tx[m].phase = "resp"
  <2>1. overlap'[c][l] = IF l \in LinesOf(tx[m].rng) THEN Without(overlap[c][l], m)
                                                     ELSE overlap[c][l]
    BY <1>1, <1>5
  <2>2. CASE l \in LinesOf(tx[m].rng)
    BY <1>1, <1>2, <1>5, <2>1, <2>2, OverlapRemoved DEF PortKept
  <2>3. CASE l \notin LinesOf(tx[m].rng)
    <3>1. overlap'[c][l] = overlap[c][l] /\ \A x \in Range(overlap[c][l]) : x # c
      BY <1>2, <1>5, <2>1, <2>3 DEF OverlapOk
    <3>2. ~Incoming(c, l)'
      BY <1>2, <1>5 DEF Incoming
    <3>3. Range(overlap'[c][l]) = Range(overlap[c][l]) /\ Range(overlap[c][l]) \subseteq Masters
      BY <1>1, <3>1, RangeIs
    <3>4. QED
      BY <1>2, <3>1, <3>2, <3>3 DEF OverlapOk, PortKept
  <2>4. QED
    BY <2>2, <2>3
<1>6. QED
  BY <1>4, <1>5

\* The step of a cache's thread, from b_transport or from a response on.
CacheTurns(c, o, r) ==
    /\ o \in Op /\ o \in traffic[c] /\ r \in Result
    /\ CacheStep(c, o, r) /\ UNCHANGED snoop
    /\ tx' = [tx EXCEPT ![c] = NextTx(o, r)]
    /\ NextTx(o, r).phase \in {"idle", "req"}
    /\ \/ /\ tx[c].phase = "idle" /\ tx[c].kind = "none"
          /\ Looked(o, get_line(c, LineOf(o)), r) /\ r = b_transport(c, o)
          /\ UNCHANGED overlap
       \/ /\ tx[c].phase = "resp" /\ o = op[c] /\ r = Response(c, tx[c])
          /\ AsksRight(c) /\ tx[c].kind \in TxKinds
          /\ Answered(o, get_line(c, LineOf(o)), tx[c], r)
          /\ overlap' = [overlap EXCEPT ![c] = [l \in Lines |->
                            IF l \in LinesOf(tx[c].rng) THEN Without(@[l], c) ELSE @[l]]]

LEMMA CacheTurnKinds ==
    ASSUME BaseInv, NEW c \in Caches, CacheStart(c) \/ CacheResume(c)
    PROVE  \E o, r : CacheTurns(c, o, r)
<1>1. c \in Masters /\ IcnTypeOK /\ CacheTypeOK /\ AccessInv
  BY CachesAreMasters DEF BaseInv, TypeOK
<1>2. CASE CacheStart(c)
  <2>1. PICK o \in traffic[c] : /\ CacheStep(c, o, b_transport(c, o))
                                /\ tx' = [tx EXCEPT ![c] = NextTx(o, b_transport(c, o))]
    BY <1>2 DEF CacheStart
  <2>2. PICK r : r = b_transport(c, o)
    OBVIOUS
  <2>3. o \in Op
    BY <1>1, OpFacts DEF AccessInv
  <2>4. /\ get_line(c, LineOf(o)) \in CacheLine /\ toggle[c] \in BOOLEAN
        /\ monitor[c] \in SUBSET Addr
    BY <1>1, <2>3, AccessFacts, SlotOf DEF CacheTypeOK, get_line
  <2>5. Looked(o, get_line(c, LineOf(o)), r)
    BY <2>2, <2>3, <2>4, TransportLooked
  <2>6. r \in Result
    BY <2>5 DEF Looked
  <2>7. NextTx(o, r).phase \in {"idle", "req"}
    BY <2>3, <2>6, NextTxTurn
  <2>8. UNCHANGED <<snoop, overlap>> /\ op[c] = NoOp
    BY <1>2 DEF CacheStart
  <2>9. tx[c].phase = "idle" /\ tx[c].kind = "none"
    BY <1>1, <2>8, AccessParts
  <2>10. QED
    BY <2>1, <2>2, <2>3, <2>5, <2>6, <2>7, <2>8, <2>9 DEF CacheTurns
<1>3. CASE CacheResume(c)
  <2>1. PICK o, r : o = op[c] /\ r = Response(c, tx[c])
    OBVIOUS
  <2>2. tx[c].phase = "resp" /\ CacheStep(c, o, r) /\ Deliver(c, NextTx(o, r))
    BY <1>3, <2>1 DEF CacheResume, ResponseReady
  <2>3. /\ o \in Op /\ o \in traffic[c] /\ AsksRight(c) /\ tx[c].kind \in TxKinds
        /\ Answered(o, get_line(c, LineOf(o)), tx[c], r)
    BY <2>1, <2>2, ResponseFacts DEF LineIn
  <2>4. r \in Result
    BY <2>3 DEF Answered
  <2>5. NextTx(o, r).phase \in {"idle", "req"}
    BY <2>3, <2>4, NextTxTurn
  <2>6. /\ UNCHANGED snoop /\ tx' = [tx EXCEPT ![c] = NextTx(o, r)]
        /\ overlap' = [overlap EXCEPT ![c] = [l \in Lines |->
                            IF l \in LinesOf(tx[c].rng) THEN Without(@[l], c) ELSE @[l]]]
    BY <2>2 DEF Deliver
  <2>7. QED
    BY <2>1, <2>2, <2>3, <2>4, <2>5, <2>6 DEF CacheTurns
<1>4. QED
  BY <1>2, <1>3

\* An ACE-Lite master issues its transaction, or takes the response.
LiteTurns(m) ==
    /\ UNCHANGED <<snoop, overlap, cacheline, monitor, want, posSet>>
    /\ \A c \in Caches : op'[c] = op[c]
    /\ \E t : t.phase \in {"idle", "req"} /\ ~t.excl /\ tx' = [tx EXCEPT ![m] = t]

LEMMA LiteKinds ==
    ASSUME BaseInv, NEW m \in LiteMasters, LiteStart(m) \/ LiteResume(m)
    PROVE  LiteTurns(m) /\ m \in Masters /\ m \notin Caches
<1>1. m \in Masters /\ m \notin Caches /\ AccessInv
  BY CachesAreMasters, ProtocolAssumption DEF BaseInv
<1> \A p : op' = [op EXCEPT ![m] = p] => \A c \in Caches : op'[c] = op[c]
  BY <1>1, CachesAreMasters DEF BaseInv, TypeOK, CacheTypeOK
<1>2. CASE LiteStart(m)
  <2>1. PICK o \in traffic[m] : tx' = [tx EXCEPT ![m] = LiteTx(o)]
    BY <1>2 DEF LiteStart
  <2>2. LiteTx(o).phase = "req" /\ ~LiteTx(o).excl
    BY <1>1, OpFacts, LiteTxParts DEF AccessInv
  <2>3. QED
    BY <1>1, <1>2, <2>1, <2>2 DEF LiteStart, LiteTurns
<1>3. CASE LiteResume(m)
  <2>1. /\ tx' = [tx EXCEPT ![m] = NoTx]
        /\ UNCHANGED <<snoop, overlap, cacheline, monitor, want, posSet>>
        /\ op' = [op EXCEPT ![m] = NoOp]
    BY <1>1, <1>3 DEF LiteResume, Deliver
  <2>2. NoTx.phase = "idle" /\ ~NoTx.excl
    BY DEF NoTx
  <2>3. QED
    BY <1>1, <2>1, <2>2 DEF LiteTurns
<1>4. QED
  BY <1>2, <1>3

\* The steps of the system, by what they do to transactions and snoops.
LEMMA NextKinds ==
    ASSUME BaseInv, Next
    PROVE  \/ \E c \in Caches : (\E o, r : CacheTurns(c, o, r)) /\ UNCHANGED posSet
           \/ \E m \in Masters \ Caches : LiteTurns(m)
           \/ \E m \in Masters : EngineFail(m) \/ (EngineSnoop(m) /\ UNCHANGED cacheVars)
           \/ /\ UNCHANGED posSet
              /\ \/ \E m \in Masters, l \in Lines, c \in Caches : SnoopMaster(m, l, c)
                 \/ /\ UNCHANGED cacheVars
                    /\ \/ \E m \in Masters : Accept(m) \/ Continues(m)
                       \/ \E m \in Masters : Ends(m) /\ tx[m].phase # "engine"
                       \/ \E m \in Masters, l \in Lines, c \in Caches : PortDone(m, l, c)
                       \/ UNCHANGED <<tx, snoop, overlap>>
<1>1. ASSUME NEW c \in Caches, CacheStart(c) \/ CacheResume(c)
      PROVE  (\E o, r : CacheTurns(c, o, r)) /\ UNCHANGED posSet
  BY <1>1, CacheTurnKinds DEF CacheStart, CacheResume, Deliver
<1>2. ASSUME NEW m \in LiteMasters, LiteStart(m) \/ LiteResume(m)
      PROVE  \E x \in Masters \ Caches : LiteTurns(x)
  BY <1>2, LiteKinds
<1>3. ASSUME NEW m \in Masters, AcceptTx(m)
      PROVE  Accept(m) /\ UNCHANGED cacheVars /\ UNCHANGED posSet
  BY <1>3 DEF AcceptTx, Accept
<1>4. ASSUME NEW m \in Masters, EngineThread(m)
      PROVE  EngineFail(m) \/ (EngineSnoop(m) /\ UNCHANGED cacheVars)
  BY <1>4 DEF EngineThread
<1>5. ASSUME NEW m \in Masters, NEW l \in Lines, NEW c \in Caches, SnoopMaster(m, l, c)
      PROVE  UNCHANGED posSet
  BY <1>5 DEF SnoopMaster, SnoopAnswered
<1>6. ASSUME NEW m \in Masters, NEW l \in Lines, NEW c \in Caches, PortDoneThread(m, l, c)
      PROVE  PortDone(m, l, c) /\ UNCHANGED cacheVars /\ UNCHANGED posSet
  BY <1>6 DEF PortDoneThread, PortDone
<1>7. ASSUME SnoopDoneThread \/ DownstreamThread
      PROVE  /\ SnoopDone \/ DsOwn \/ DsSnoop
             /\ UNCHANGED cacheVars /\ UNCHANGED posSet
  BY <1>7 DEF SnoopDoneThread, DownstreamThread, SnoopDone, DsOwn, DsSnoop
<1>8. ASSUME SnoopDoneThread \/ DownstreamThread
      PROVE  \/ UNCHANGED <<tx, snoop, overlap>>
             \/ \E m \in Masters : Continues(m) \/ (Ends(m) /\ tx[m].phase # "engine")
  BY <1>7, <1>8, IcnKinds
<1>9. QED
  BY <1>1, <1>2, <1>3, <1>4, <1>5, <1>6, <1>7, <1>8 DEF Next

\* A transaction that fails in the engine is done like any other.
LEMMA EngineFailEnds ==
    ASSUME BaseInv, NEW m \in Masters, EngineFail(m)
    PROVE  Ends(m)
<1>1. IcnTypeOK /\ PhaseOk(m) /\ tx[m].phase = "engine" /\ UNCHANGED snoop
  BY DEF BaseInv, TypeOK, WorkInv, PhaseInv, EngineFail, EngineHead, InPhase
<1>2. PICK t : t = [tx[m] EXCEPT !.ok = TRUE]
  OBVIOUS
<1>3. WellFormed(t) /\ SameTx(t, tx[m]) /\ SameAnswer(t, tx[m]) /\ Complete(m, t)
  BY <1>1, <1>2, TxOf DEF EngineFail, WellFormed, SameTx, SameAnswer, Tx
<1>4. NoSnoop.sent = {} /\ NoSnoop.back = {}
  BY DEF NoSnoop
<1>5. Idle(m)
  BY <1>1, <1>4 DEF Idle, PhaseOk, Active
<1>6. QED
  BY <1>1, <1>3, <1>5 DEF Ends, SameSnoops

LEMMA OverlapStep ==
    ASSUME BaseInv, OngoingDisjoint, OverlapInv, [Next]_vars
    PROVE  OverlapInv'
<1>1. IcnTypeOK /\ tx \in [Masters -> Tx]
  BY DEF BaseInv, TypeOK, IcnTypeOK
<1>2. CASE UNCHANGED <<tx, snoop, overlap>>
  BY <1>1, <1>2, OverlapKept DEF OverlapInv, OwnKept, PortKept
<1>3. ASSUME NEW c \in Caches, NEW o, NEW r, CacheTurns(c, o, r)  PROVE OverlapInv'
  <2>1. PICK t : t = NextTx(o, r)
    OBVIOUS
  <2>2. /\ tx' = [tx EXCEPT ![c] = t] /\ t.phase \in {"idle", "req"} /\ UNCHANGED snoop
        /\ c \in Masters
    BY <1>3, <2>1, CachesAreMasters DEF CacheTurns
  <2>3. CASE tx[c].phase = "idle" /\ UNCHANGED overlap
    BY <2>2, <2>3, OverlapTurn
  <2>4. CASE overlap' = [overlap EXCEPT ![c] = [l \in Lines |->
                            IF l \in LinesOf(tx[c].rng) THEN Without(@[l], c) ELSE @[l]]]
    BY <2>2, <2>4, OverlapTurn
  <2>5. QED
    BY <1>3, <2>3, <2>4 DEF CacheTurns
<1>4. ASSUME NEW m \in Masters \ Caches, LiteTurns(m)  PROVE OverlapInv'
  BY <1>4, OverlapTurn DEF LiteTurns
<1>5. ASSUME NEW m \in Masters, EngineFail(m) \/ EngineSnoop(m)  PROVE OverlapInv'
  BY <1>5, EngineFailEnds, OverlapEnds, OverlapEngineSnoop
<1>6. ASSUME NEW m \in Masters, Continues(m)  PROVE OverlapInv'
  <2>1. \A c \in Caches : OwnKept(c)
    BY <1>6, CachesAreMasters DEF Continues, OwnKept
  <2>2. \A c \in Caches, l \in Lines : PortKept(c, l)
    BY <1>6 DEF Continues, SameSnoops, PortKept
  <2>3. QED
    BY <1>1, <1>6, <2>1, <2>2, OverlapKept DEF Continues, OverlapInv
<1>7. CASE UNCHANGED vars
  BY <1>2, <1>7 DEF vars, icnVars
<1>8. QED
  BY <1>2, <1>3, <1>4, <1>5, <1>6, <1>7, NextKinds, OverlapAccept, OverlapEnds, OverlapPorts

LEMMA OverlapInit == Init => OverlapInv
<1>1. SUFFICES ASSUME Init, NEW c \in Caches, NEW l \in Lines  PROVE OverlapOk(c, l)
  BY DEF OverlapInv
<1>2. overlap[c][l] = <<>> /\ tx[c].phase # "resp"
  BY <1>1, CachesAreMasters DEF Init, IcnInit, NoTx
<1>3. QED
  BY <1>2 DEF OverlapOk, Incoming, IsInjective, Range

\* m_overlapList of a port's bridge holds the snoops the port works on and the
\* response on its way to the master; a response that fills or upgrades a line
\* is in front, so every snoop for the line waits until it has arrived.
THEOREM SpecOverlap == Spec => []OverlapInv
  BY OverlapInit, OverlapStep, SpecBase, SpecOngoingDisjoint, PTL DEF Spec

-----------------------------------------------------------------------------
(***************************************************************************)
(* The exclusive monitors.  m_monitor of a cache is armed only while its   *)
(* port is marked in the PosMonitor, and an exclusive CleanUnique is sent  *)
(* only when m_monitor is armed.                                           *)
(***************************************************************************)

\* What an outcome does with m_monitor, which held mon.
ArmedBy(o, r, mon) ==
    /\ r.mon \subseteq mon
    /\ r.req = "CleanUnique" /\ IsExclusive(o) => mon # {}
    /\ o.kind = "LoadEx" => /\ r.want \in {"none", "ReadShared"}
                            /\ r.req \notin FillKinds \ {"ReadShared"}

LEMMA IssueArmed ==
    ASSUME NEW o, NEW ln, NEW tog, NEW mon, NEW req, NEW next,
           req = "CleanUnique" /\ IsExclusive(o) => mon # {},
           o.kind = "LoadEx" => next \in {"none", "ReadShared"} /\ req \notin FillKinds \ {"ReadShared"}
    PROVE  ArmedBy(o, Issue(ln, tog, mon, req, next), mon)
  BY DEF ArmedBy, Issue

LEMMA FinishArmed ==
    ASSUME NEW o, NEW ln, NEW tog, NEW mon, NEW less, less \subseteq mon, NEW ok
    PROVE  ArmedBy(o, Finish(ln, tog, less, ok), mon)
<1>1. "none" \notin FillKinds /\ Finish(ln, tog, less, ok).req # "CleanUnique"
  BY DEF FillKinds, ReadKinds, Finish
<1>2. QED
  BY <1>1 DEF ArmedBy, Finish

LEMMA FetchArmed ==
    ASSUME NEW o \in Op, NEW ln \in CacheLine, NEW tog \in BOOLEAN, NEW mon,
           NEW kind \in FillKinds, o.kind = "LoadEx" => kind = "ReadShared"
    PROVE  ArmedBy(o, Fetch(ln, tog, mon, kind), mon)
<1>1. \A k \in CopyBackKinds : k \notin FillKinds /\ k # "CleanUnique"
  BY KindClasses
<1>2. kind # "CleanUnique"
  BY KindClasses
<1>3. CASE ~ln.valid
  <2>1. Fetch(ln, tog, mon, kind) = Issue(ln, tog, mon, kind, "none")
    BY <1>3 DEF Fetch
  <2>2. QED
    BY <1>2, <2>1, IssueArmed
<1>4. ASSUME NEW t, NEW req \in CopyBackKinds
      PROVE  ArmedBy(o, Issue(ln, t, mon, req, kind), mon)
  BY <1>1, <1>4, IssueArmed
<1>5. CASE ln.valid /\ ~ln.dirty
  <2>1. Fetch(ln, tog, mon, kind) = Issue(ln, tog, mon, "Evict", kind)
    BY <1>5 DEF Fetch
  <2>2. QED
    BY <1>4, <2>1 DEF CopyBackKinds
<1>6. CASE ln.valid /\ ln.dirty /\ ~tog
  <2>1. Fetch(ln, tog, mon, kind) = Issue(ln, ~tog, mon, "WriteClean", kind)
    BY <1>6 DEF Fetch
  <2>2. QED
    BY <1>4, <2>1 DEF CopyBackKinds
<1>7. CASE ln.valid /\ ln.dirty /\ tog
  <2>1. Fetch(ln, tog, mon, kind) = Issue(ln, ~tog, mon, "WriteBack", kind)
    BY <1>7 DEF Fetch
  <2>2. QED
    BY <1>4, <2>1 DEF CopyBackKinds
<1>8. QED
  BY <1>3, <1>5, <1>6, <1>7 DEF CacheLine

LEMMA AccessArmed ==
    ASSUME NEW c \in Caches, NEW o \in Op, NEW ln \in CacheLine, NEW tog \in BOOLEAN,
           NEW mon, IsExclusive(o) => c \in WriteBackCaches
    PROVE  ArmedBy(o, handle_access(c, o, ln, tog, mon), mon)
<1>1. {"ReadShared", "ReadNotSharedDirty", "ReadClean", "ReadUnique", "MakeUnique"}
         \subseteq FillKinds
  BY DEF FillKinds, ReadKinds
<1>2. \A k \in {"CleanUnique", "WriteUnique", "WriteLineUnique"} : k \notin FillKinds
  BY KindClasses DEF UniqueWriteKinds
<1>3. (~tog) \in BOOLEAN /\ (o.kind = "LoadEx" => IsExclusive(o))
  BY DEF IsExclusive
<1>4. ASSUME o.kind \in LoadKinds
      PROVE  ArmedBy(o, WB_handle_load(o, ln, tog, mon), mon)
  BY <1>1, <1>3, FetchArmed, FinishArmed DEF WB_handle_load
<1>5. ASSUME ~IsExclusive(o)
      PROVE  ArmedBy(o, WT_handle_load(o, ln, tog, mon), mon)
  BY <1>1, <1>3, <1>5, FetchArmed, FinishArmed DEF WT_handle_load
<1>6. ASSUME ~IsExclusive(o)
      PROVE  ArmedBy(o, WT_handle_store(o, ln, tog, mon), mon)
  BY <1>2, <1>3, <1>6, IssueArmed DEF WT_handle_store
<1>7. ASSUME o.kind \notin LoadKinds
      PROVE  ArmedBy(o, WB_handle_store(o, ln, tog, mon), mon)
  <2>0. o.kind # "LoadEx"
    BY <1>7 DEF LoadKinds
  <2>1. CASE IsExclusive(o) /\ StartAddr(o) \notin mon
    BY <2>1, FinishArmed DEF WB_handle_store
  <2>2. CASE ~(IsExclusive(o) /\ StartAddr(o) \notin mon) /\ ~Holds(ln, LineOf(o))
    BY <1>1, <2>0, <2>2, FetchArmed DEF WB_handle_store
  <2>3. CASE ~(IsExclusive(o) /\ StartAddr(o) \notin mon) /\ Holds(ln, LineOf(o)) /\ ln.shared
    <3>1. WB_handle_store(o, ln, tog, mon) = Issue(ln, tog, mon, "CleanUnique", "none")
      BY <2>3 DEF WB_handle_store
    <3>2. IsExclusive(o) => mon # {}
      BY <2>3
    <3>3. QED
      BY <1>2, <2>0, <3>1, <3>2, IssueArmed
  <2>4. CASE ~(IsExclusive(o) /\ StartAddr(o) \notin mon) /\ Holds(ln, LineOf(o)) /\ ~ln.shared
    <3> DEFINE m == IF IsExclusive(o) THEN mon \ {StartAddr(o)} ELSE mon
    <3>1. WB_handle_store(o, ln, tog, mon) =
             Finish(write_line(ln, o, TRUE), tog, m, IsExclusive(o))
      BY <2>4 DEF WB_handle_store
    <3>2. m \subseteq mon
      OBVIOUS
    <3> HIDE DEF m
    <3>3. PICK ok : ok = IsExclusive(o)
      OBVIOUS
    <3>4. QED
      BY <3>1, <3>2, <3>3, FinishArmed
  <2>5. QED
    BY <2>1, <2>2, <2>3, <2>4
<1>8. QED
  BY <1>4, <1>5, <1>6, <1>7, ProtocolAssumption DEF handle_access, Caches

LEMMA TransportArmed ==
    ASSUME NEW c \in Caches, NEW o \in Op, get_line(c, LineOf(o)) \in CacheLine,
           toggle[c] \in BOOLEAN,
           IsExclusive(o) => c \in WriteBackCaches /\ LineOf(o) \notin NonShareable
    PROVE  ArmedBy(o, b_transport(c, o), monitor[c])
<1> DEFINE ln == get_line(c, LineOf(o))
           tog == toggle[c]
           mon == monitor[c]
<1>0. ln \in CacheLine /\ tog \in BOOLEAN
  OBVIOUS
<1>1. b_transport(c, o) = IF o.kind \in CmoKinds THEN do_cache_maintenance(o, ln, tog, mon)
                          ELSE IF LineOf(o) \in NonShareable THEN no_snoop(o, ln, tog, mon)
                          ELSE handle_access(c, o, ln, tog, mon)
  BY DEF b_transport
<1> HIDE DEF ln, tog, mon
<1>2. o.kind \in CmoKinds => ~IsExclusive(o) /\ o.kind # "LoadEx"
  BY DEF CmoKinds, IsExclusive
<1>3. ASSUME ~IsExclusive(o), NEW x, NEW req, NEW next
      PROVE  ArmedBy(o, Issue(ln, x, mon, req, next), mon)
  BY <1>3, IssueArmed DEF IsExclusive
<1>4. ASSUME ~IsExclusive(o)
      PROVE  ArmedBy(o, do_cache_maintenance(o, ln, tog, mon), mon)
  BY <1>3, <1>4 DEF do_cache_maintenance
<1>5. ASSUME ~IsExclusive(o)
      PROVE  ArmedBy(o, no_snoop(o, ln, tog, mon), mon)
  BY <1>3, <1>5 DEF no_snoop
<1>6. ArmedBy(o, handle_access(c, o, ln, tog, mon), mon)
  BY <1>0, AccessArmed
<1>7. QED
  BY <1>1, <1>2, <1>4, <1>5, <1>6 DEF mon

\* What a response leaves of m_monitor: a LoadEx that fills arms it.
ResponseMon(c, t, mon) ==
    mon = monitor[c] \/ (op[c].kind = "LoadEx" /\ t.kind \in FillKinds)

LEMMA ResponseArmed ==
    ASSUME NEW c \in Caches, NEW t, NEW ln \in CacheLine,
           ln = get_line(c, LineOf(op[c])),
           op[c] \in Op, toggle[c] \in BOOLEAN, monitor[c] \in SUBSET Addr,
           want[c] \in WantKinds, t.kind \in TxKinds, t.kind # "ReadOnce",
           t.shared \in BOOLEAN, t.dirty \in BOOLEAN,
           t.kind \in FillKinds => ToLine(t.data, LineOf(op[c])) \in LineData,
           IsExclusive(op[c]) => c \in WriteBackCaches,
           op[c].kind = "LoadEx" => want[c] \in {"none", "ReadShared"}
    PROVE  \E mon : ArmedBy(op[c], Response(c, t), mon) /\ ResponseMon(c, t, mon)
<1> DEFINE o == op[c]
           w == want[c]
           tog == toggle[c]
           mon == monitor[c]
           gone == [ln EXCEPT !.valid = FALSE]
           mine == [ln EXCEPT !.shared = FALSE]
<1>0. /\ o \in Op /\ w \in WantKinds /\ tog \in BOOLEAN
      /\ gone \in CacheLine /\ mine \in CacheLine
      /\ mon \ {StartAddr(o)} \subseteq mon
  BY DEF CacheLine
<1>1. ASSUME ArmedBy(o, Response(c, t), mon)
      PROVE  \E x : ArmedBy(o, Response(c, t), x) /\ ResponseMon(c, t, x)
  BY <1>1 DEF ResponseMon
<1>2. /\ w # "CleanUnique" /\ "Evict" # "CleanUnique"
      /\ "Evict" \notin FillKinds /\ "none" \notin FillKinds
  BY <1>0, KindClasses DEF WantKinds, FillKinds, ReadKinds
<1>3. ASSUME NEW new, NEW x, o.kind = "LoadEx" => w \in {"none", "ReadShared"}
      PROVE  ArmedBy(o, Issue(new, x, mon, w, "none"), mon)
  <2>1. o.kind = "LoadEx" => w \notin FillKinds \ {"ReadShared"}
    BY <1>2, <1>3
  <2> HIDE DEF o, w, mon
  <2>2. QED
    BY <1>2, <2>1, IssueArmed
<1>4. ASSUME NEW new, NEW x, NEW next, o.kind = "LoadEx" => next \in {"none", "ReadShared"}
      PROVE  ArmedBy(o, Issue(new, x, mon, "Evict", next), mon)
  <2> HIDE DEF o, mon
  <2>1. QED
    BY <1>2, <1>4, IssueArmed
<1>5. ASSUME NEW new \in CacheLine
      PROVE  ArmedBy(o, handle_access(c, o, new, tog, mon), mon)
  BY <1>0, AccessArmed
<1>6. CASE t.kind = "WriteClean"
  <2>1. Response(c, t) = WriteCleanResponse(c, ln)
    BY <1>6, KindClasses DEF Response
  <2>2. ArmedBy(o, WriteCleanResponse(c, ln), mon)
    BY <1>3, <1>4 DEF WriteCleanResponse
  <2>3. QED
    BY <1>1, <2>1, <2>2
<1>7. CASE t.kind = "WriteBack"
  <2>1. Response(c, t) = WriteBackResponse(c, ln)
    BY <1>7, KindClasses DEF Response
  <2>2. ArmedBy(o, WriteBackResponse(c, ln), mon)
    BY <1>3 DEF WriteBackResponse
  <2>3. QED
    BY <1>1, <2>1, <2>2
<1>8. CASE t.kind = "Evict"
  <2>1. Response(c, t) = EvictResponse(c, ln)
    BY <1>8, KindClasses DEF Response
  <2>2. w # "none" => ArmedBy(o, EvictResponse(c, ln), mon)
    BY <1>3 DEF EvictResponse
  <2>3. w = "none" /\ IsExclusive(o) => ArmedBy(o, EvictResponse(c, ln), mon)
    BY <1>0, FinishArmed DEF EvictResponse
  <2>4. w = "none" /\ ~IsExclusive(o) => ArmedBy(o, EvictResponse(c, ln), mon)
    BY <1>0, <1>5 DEF EvictResponse
  <2>5. QED
    BY <1>1, <2>1, <2>2, <2>3, <2>4
<1>9. CASE t.kind = "CleanUnique"
  <2>1. Response(c, t) = CleanUniqueResponse(c, t, ln)
    BY <1>9, KindClasses DEF Response
  <2>2. ~ln.valid => ArmedBy(o, CleanUniqueResponse(c, t, ln), mon)
    BY <1>4 DEF CleanUniqueResponse
  <2>3. ln.valid /\ IsExclusive(o) /\ ~t.exokay
           => ArmedBy(o, CleanUniqueResponse(c, t, ln), mon)
    BY <1>0, FinishArmed DEF CleanUniqueResponse
  <2>4. ln.valid /\ ~(IsExclusive(o) /\ ~t.exokay)
           => ArmedBy(o, CleanUniqueResponse(c, t, ln), mon)
    BY <1>0, <1>5 DEF CleanUniqueResponse
  <2>5. QED
    BY <1>1, <2>1, <2>2, <2>3, <2>4
<1>10. CASE t.kind \in UniqueWriteKinds \cup CmoKinds \cup NoSnoopKinds
  <2>1. \E new : Response(c, t) = Finish(new, tog, mon, FALSE)
    BY <1>10, KindClasses DEF Response, WriteUniqueResponse
  <2>2. QED
    BY <1>1, <2>1, FinishArmed
<1>11. CASE t.kind \in FillKinds
  <2> DEFINE l == LineOf(o)
             new == install(ln, l, t)
             arm == IF o.kind = "LoadEx" THEN monitor[c] \cup {StartAddr(o)} ELSE monitor[c]
             r == handle_access(c, o, new, tog, arm)
             ok == r.ok /\ (o.kind = "LoadEx" => t.exokay)
  <2>1. Response(c, t) = [r EXCEPT !.ok = ok]
    BY <1>11, KindClasses DEF Response
  <2>2. new \in CacheLine
    <3>1. l \in Lines
      BY <1>0, AccessFacts
    <3>2. CASE t.kind = "MakeUnique"
      BY <3>1, <3>2 DEF install, make_unique, CacheLine
    <3>3. CASE t.kind # "MakeUnique"
      <4> DEFINE d == t.kind # "ReadClean" /\ t.dirty
                 ld == ToLine(t.data, l)
      <4>1. d \in BOOLEAN /\ ld \in LineData
        BY <1>11
      <4>2. new = [ln EXCEPT !.valid = TRUE, !.tag = l, !.shared = t.shared,
                             !.dirty = d, !.data = ld]
        BY <3>3 DEF install, read_fill
      <4> HIDE DEF d, l, ld, new
      <4>3. QED
        BY <3>1, <4>1, <4>2 DEF CacheLine
    <3>4. QED
      BY <3>2, <3>3
  <2>3. ArmedBy(o, r, arm) /\ ResponseMon(c, t, arm)
    <3>1. ResponseMon(c, t, arm)
      BY <1>11 DEF ResponseMon
    <3> HIDE DEF arm, new
    <3>2. QED
      BY <1>0, <2>2, <3>1, AccessArmed
  <2> HIDE DEF r, ok, arm
  <2>4. /\ Response(c, t).mon = r.mon /\ Response(c, t).req = r.req
        /\ Response(c, t).want = r.want
    BY <2>1
  <2>5. ArmedBy(o, Response(c, t), arm)
    BY <2>3, <2>4 DEF ArmedBy
  <2>6. QED
    BY <2>3, <2>5
<1>12. QED
  BY <1>6, <1>7, <1>8, <1>9, <1>10, <1>11, KindClasses

\* The load a system is under stays the same.
LEMMA TrafficKept == [Next]_vars => traffic' = traffic
<1>1. Observe => traffic' = traffic
  BY DEF Observe
<1>2. NoEffect => traffic' = traffic
  BY <1>1 DEF NoEffect
<1>3. ASSUME NEW c \in Caches, CacheStart(c) \/ CacheResume(c)  PROVE traffic' = traffic
  BY <1>1, <1>3 DEF CacheStart, CacheResume, CacheHistory
<1>4. ASSUME NEW m \in LiteMasters, LiteStart(m) \/ LiteResume(m)  PROVE traffic' = traffic
  BY <1>1, <1>2, <1>4 DEF LiteStart, LiteResume
<1>5. ASSUME NEW m \in Masters, AcceptTx(m) \/ EngineThread(m)  PROVE traffic' = traffic
  BY <1>2, <1>5 DEF AcceptTx, EngineThread
<1>6. ASSUME NEW m \in Masters, NEW l \in Lines, NEW c \in Caches,
             SnoopMaster(m, l, c) \/ PortDoneThread(m, l, c)
      PROVE  traffic' = traffic
  BY <1>2, <1>6 DEF SnoopMaster, PortDoneThread
<1>7. ASSUME SnoopDoneThread \/ DownstreamThread  PROVE traffic' = traffic
  BY <1>1, <1>2, <1>7 DEF SnoopDoneThread, DownstreamThread
<1>8. UNCHANGED vars => traffic' = traffic
  BY DEF vars
<1>9. QED
  BY <1>3, <1>4, <1>5, <1>6, <1>7, <1>8 DEF Next

\* The exclusive part of a step of cache c.
LEMMA CacheTurnArmed ==
    ASSUME BaseInv, NEW c \in Caches, NEW o, NEW r, CacheTurns(c, o, r),
           op[c].kind = "LoadEx" => want[c] \in {"none", "ReadShared"}
    PROVE  \E mon :
             /\ ArmedBy(o, r, mon)
             /\ \/ mon = monitor[c]
                \/ /\ o = op[c] /\ o.kind = "LoadEx"
                   /\ tx[c].kind \in FillKinds /\ tx[c].phase = "resp"
<1>1. IcnTypeOK /\ CacheTypeOK /\ AccessInv /\ c \in Masters /\ o \in Op /\ o \in traffic[c]
  BY CachesAreMasters DEF BaseInv, TypeOK, CacheTurns
<1>2. /\ IsExclusive(o) => c \in WriteBackCaches /\ LineOf(o) \notin NonShareable
      /\ LineOf(o) \in Lines /\ Index[LineOf(o)] \in Slots
  BY <1>1, OpFacts, AccessFacts, SlotOf DEF AccessInv
<1>3. /\ get_line(c, LineOf(o)) \in CacheLine /\ toggle[c] \in BOOLEAN
      /\ monitor[c] \in SUBSET Addr /\ want[c] \in WantKinds
  BY <1>1, <1>2 DEF CacheTypeOK, AccessInv, get_line
<1>4. CASE r = b_transport(c, o)
  BY <1>1, <1>2, <1>3, <1>4, TransportArmed
<1>5. CASE /\ tx[c].phase = "resp" /\ o = op[c] /\ r = Response(c, tx[c])
           /\ AsksRight(c) /\ tx[c].kind \in TxKinds
  <2>1. /\ tx[c].shared \in BOOLEAN /\ tx[c].dirty \in BOOLEAN
        /\ tx[c].data \in [tx[c].rng -> Values]
    BY <1>1 DEF IcnTypeOK, Tx
  <2>2. tx[c].kind \in FillKinds => ToLine(tx[c].data, LineOf(op[c])) \in LineData
    <3>1. ASSUME tx[c].kind \in FillKinds  PROVE tx[c].rng = LineAddr(LineOf(op[c]))
      BY <1>5, <3>1, KindClasses DEF AsksRight, PayloadRange
    <3>2. QED
      BY <1>2, <1>5, <2>1, <3>1 DEF ToLine, LineData, LineAddr
  <2>3. tx[c].kind # "ReadOnce"
    BY <1>5 DEF AsksRight
  <2>4. PICK mon : ArmedBy(op[c], Response(c, tx[c]), mon) /\ ResponseMon(c, tx[c], mon)
    BY <1>1, <1>2, <1>3, <1>5, <2>1, <2>2, <2>3, ResponseArmed
  <2>5. QED
    BY <1>5, <2>4 DEF ResponseMon
<1>6. QED
  BY <1>4, <1>5 DEF CacheTurns

(***************************************************************************)
(* A failed exclusive CleanUnique is answered without a snoop, and         *)
(* clean_unique then marks its line as unique all the same (the run        *)
(* exclusive_failed).  With one user of exclusive accesses none fails.     *)
(***************************************************************************)
\* The phases that follow handle_exclusive.
Passed(c) == tx[c].phase \in {"snoop", "ds", "resp"}

ExclusiveOk(c) ==
    /\ tx[c].excl => /\ IsExclusive(op[c])
                     /\ tx[c].kind \in {"ReadShared", "ReadClean", "CleanUnique"}
                     /\ Passed(c) \/ tx[c].kind = "CleanUnique" => posSet[c]
    /\ monitor[c] # {} => posSet[c] /\ Exclusively(traffic, c)
    /\ op[c].kind = "LoadEx" => /\ want[c] \in {"none", "ReadShared"}
                                /\ tx[c].kind \in FillKinds => tx[c].excl

ExclusiveInv ==
    /\ \A c \in Caches : ExclusiveOk(c)
    /\ \A m \in Masters \ Caches : ~tx[m].excl

\* A step that leaves the access and its transaction what they are, and marks
\* the port before the transaction passes.
LEMMA ExclusiveMoves ==
    ASSUME ExclusiveInv, UNCHANGED <<op, want, traffic>>,
           \A x \in Masters : SameTx(tx'[x], tx[x]),
           \A c \in Caches :
              /\ monitor'[c] \subseteq monitor[c]
              /\ monitor[c] # {} => posSet'[c]
              /\ tx[c].excl /\ posSet[c] => posSet'[c]
              /\ tx[c].excl /\ Passed(c)' => posSet'[c]
    PROVE  ExclusiveInv'
<1>1. ASSUME NEW c \in Caches  PROVE ExclusiveOk(c)'
  <2>1. /\ tx'[c].excl = tx[c].excl /\ tx'[c].kind = tx[c].kind /\ ExclusiveOk(c)
    BY CachesAreMasters DEF SameTx, ExclusiveInv
  <2>2. /\ monitor'[c] \subseteq monitor[c] /\ (monitor[c] # {} => posSet'[c])
        /\ (tx[c].excl /\ posSet[c] => posSet'[c])
        /\ (tx[c].excl /\ Passed(c)' => posSet'[c])
    OBVIOUS
  <2>3. QED
    BY <2>1, <2>2 DEF ExclusiveOk, Exclusively
<1>2. ASSUME NEW m \in Masters \ Caches  PROVE ~tx'[m].excl
  BY DEF SameTx, ExclusiveInv
<1>3. QED
  BY <1>1, <1>2 DEF ExclusiveInv

\* The master of an exclusive transaction is the one user.
LEMMA OneUser ==
    ASSUME BaseInv, ExclusiveInv, OneExclusiveUser, NEW m \in Masters, tx[m].excl,
           NEW d \in Caches, tx[d].excl \/ monitor[d] # {}
    PROVE  m = d /\ m \in Caches
<1>1. m \in Caches /\ AccessInv /\ traffic \in Traffics
  BY DEF ExclusiveInv, BaseInv, AccessInv
<1>2. ASSUME NEW c \in Caches, tx[c].excl  PROVE Exclusively(traffic, c)
  <2>1. IsExclusive(op[c]) /\ c \in Masters
    BY <1>2, CachesAreMasters DEF ExclusiveInv, ExclusiveOk
  <2>2. op[c] # NoOp
    BY <2>1 DEF NoOp, IsExclusive
  <2>3. QED
    BY <1>1, <2>1, <2>2 DEF AccessInv, Asks, Exclusively
<1>3. Exclusively(traffic, m) /\ Exclusively(traffic, d)
  BY <1>1, <1>2 DEF ExclusiveInv, ExclusiveOk
<1>4. QED
  BY <1>1, <1>3 DEF OneExclusiveUser

\* The one user is marked when its exclusive CleanUnique gets to the engine.
LEMMA NoEngineFail ==
    ASSUME ExclusiveInv, NEW m \in Masters
    PROVE  ~EngineFail(m)
<1>1. ~Proceeds(m) => m \in Caches /\ tx[m].excl /\ tx[m].kind = "CleanUnique" /\ ~posSet[m]
  BY DEF Proceeds, ExclusiveInv
<1>2. QED
  BY <1>1 DEF EngineFail, ExclusiveInv, ExclusiveOk

LEMMA ExclusiveEngine ==
    ASSUME BaseInv, ExclusiveInv, LockHasOwner, OneExclusiveUser,
           NEW m \in Masters, EngineSnoop(m)
    PROVE  \A c \in Caches :
              /\ monitor[c] # {} => posSet'[c]
              /\ tx[c].excl /\ posSet[c] => posSet'[c]
              /\ tx[c].excl /\ Passed(c)' => posSet'[c]
<1>1. /\ handle_exclusive(m) /\ posSet \in [Caches -> BOOLEAN]
      /\ \A x \in Masters \ {m} : tx'[x] = tx[x]
      /\ AccessInv
  BY EngineSnoopParts DEF EngineSnoop, BaseInv, TypeOK, IcnTypeOK
<1>2. ASSUME NEW c \in Caches  PROVE ExclusiveOk(c)
  BY DEF ExclusiveInv
<1>3. ASSUME NEW c \in Caches, posSet'[c] = posSet[c], c # m
      PROVE  /\ monitor[c] # {} => posSet'[c]
             /\ tx[c].excl /\ posSet[c] => posSet'[c]
             /\ tx[c].excl /\ Passed(c)' => posSet'[c]
  <2>1. tx'[c] = tx[c]
    BY <1>1, <1>3, CachesAreMasters
  <2>2. QED
    BY <1>2, <1>3, <2>1 DEF ExclusiveOk, Passed
<1>4. CASE ~tx[m].excl
  <2>1. posSet' = posSet
    BY <1>1, <1>4 DEF handle_exclusive
  <2>2. \A c \in Caches : monitor[c] # {} => posSet'[c]
    BY <1>2, <2>1 DEF ExclusiveOk
  <2>3. ASSUME NEW c \in Caches, tx[c].excl  PROVE c # m
    BY <1>4, <2>3
  <2>4. QED
    BY <1>3, <2>1, <2>2, <2>3
<1>5. CASE tx[m].excl /\ tx[m].kind = "CleanUnique" /\ posSet[m]
  <2>1. posSet' = [c \in Caches |-> c = m]
    BY <1>1, <1>5 DEF handle_exclusive
  <2>2. \A c \in Caches : tx[c].excl \/ monitor[c] # {} => c = m
    BY <1>5, OneUser
  <2>3. QED
    BY <2>1, <2>2
<1>6. CASE tx[m].excl /\ ~(tx[m].kind = "CleanUnique" /\ posSet[m])
  <2>1. m \in Caches /\ posSet' = [posSet EXCEPT ![m] = posSet[m] \/ ~posLock]
    BY <1>1, <1>6, OneUser DEF handle_exclusive, ExclusiveInv
  <2>2. ~posLock
    <3>1. ASSUME posLock  PROVE FALSE
      <4>1. PICK c \in Caches : tx[c].kind = "CleanUnique" /\ tx[c].exokay
        BY <3>1 DEF LockHasOwner
      <4>2. c \in Masters /\ op[c] # NoOp
        BY <1>1, <4>1, CachesAreMasters, AccessParts
      <4>3. tx[c].excl
        BY <1>1, <4>1, <4>2 DEF AccessInv, Asks
      <4>4. c = m
        BY <1>6, <4>3, OneUser
      <4>5. QED
        BY <1>2, <1>6, <4>1, <4>3, <4>4 DEF ExclusiveOk
    <3>2. QED
      BY <3>1
  <2>3. posSet'[m] /\ \A c \in Caches \ {m} : posSet'[c] = posSet[c]
    BY <1>1, <2>1, <2>2
  <2>4. QED
    BY <1>3, <2>3
<1>7. QED
  BY <1>4, <1>5, <1>6

LEMMA ExclusiveCache ==
    ASSUME BaseInv, ExclusiveInv, NEW c \in Caches, NEW o, NEW r, CacheTurns(c, o, r),
           UNCHANGED <<posSet, traffic>>
    PROVE  ExclusiveInv'
<1>1. /\ c \in Masters /\ tx \in [Masters -> Tx] /\ op \in [Masters -> Op \cup {NoOp}]
      /\ want \in [Masters -> TxKinds \cup {"none"}] /\ monitor \in [Caches -> SUBSET Addr]
      /\ tx[c].excl \in BOOLEAN
  BY CachesAreMasters DEF BaseInv, TypeOK, IcnTypeOK, CacheTypeOK, Tx
<1>2. /\ tx' = [tx EXCEPT ![c] = NextTx(o, r)] /\ o \in Op /\ r \in Result
      /\ monitor' = [monitor EXCEPT ![c] = r.mon] /\ want' = [want EXCEPT ![c] = r.want]
      /\ op' = [op EXCEPT ![c] = IF r.req = "none" THEN NoOp ELSE o] /\ o \in traffic[c]
  BY DEF CacheTurns, CacheStep
<1>3. ExclusiveOk(c)
  BY DEF ExclusiveInv
<1>4. PICK mon : /\ ArmedBy(o, r, mon)
                 /\ \/ mon = monitor[c]
                    \/ /\ o = op[c] /\ o.kind = "LoadEx"
                       /\ tx[c].kind \in FillKinds /\ tx[c].phase = "resp"
  BY <1>3, CacheTurnArmed DEF ExclusiveOk
<1>5. mon # {} => posSet[c] /\ Exclusively(traffic, c)
  <2>1. CASE mon = monitor[c]
    BY <1>3, <2>1 DEF ExclusiveOk
  <2>2. CASE /\ o = op[c] /\ o.kind = "LoadEx"
             /\ tx[c].kind \in FillKinds /\ tx[c].phase = "resp"
    BY <1>2, <1>3, <2>2 DEF ExclusiveOk, Passed, Exclusively, IsExclusive
  <2>3. QED
    BY <1>4, <2>1, <2>2
<1>6. /\ monitor'[c] = r.mon /\ want'[c] = r.want /\ tx'[c] = NextTx(o, r)
      /\ op'[c] = IF r.req = "none" THEN NoOp ELSE o
  BY <1>1, <1>2
<1>7. ExclusiveOk(c)'
  <2>1. CASE r.req = "none"
    <3>1. ~tx'[c].excl /\ op'[c].kind = "None"
      BY <1>6, <2>1 DEF NextTx, NoTx, NoOp
    <3>2. QED
      BY <1>4, <1>5, <1>6, <3>1 DEF ExclusiveOk, ArmedBy, Exclusively
  <2>2. CASE r.req # "none"
    <3>1. /\ tx'[c].excl = Exclusive(o, r) /\ tx'[c].kind = r.req /\ tx'[c].phase = "req"
          /\ op'[c] = o
      BY <1>2, <1>6, <2>2, NextTxParts
    <3>2. Exclusive(o, r) => /\ IsExclusive(o) /\ r.req \in {"ReadShared", "ReadClean", "CleanUnique"}
                             /\ r.req = "CleanUnique" => mon # {}
      BY <1>4 DEF Exclusive, ArmedBy
    <3>3. o.kind = "LoadEx" => /\ r.want \in {"none", "ReadShared"}
                               /\ r.req \in FillKinds => Exclusive(o, r)
      BY <1>4 DEF ArmedBy, Exclusive, IsExclusive
    <3>4. ~Passed(c)'
      BY <3>1 DEF Passed
    <3>5. r.mon \subseteq mon
      BY <1>4 DEF ArmedBy
    <3>6. QED
      BY <1>5, <1>6, <3>1, <3>2, <3>3, <3>4, <3>5 DEF ExclusiveOk, Exclusively
  <2>3. QED
    BY <2>1, <2>2
<1>8. ASSUME NEW d \in Caches \ {c}  PROVE ExclusiveOk(d)'
  <2>1. /\ tx'[d] = tx[d] /\ op'[d] = op[d] /\ want'[d] = want[d]
        /\ monitor'[d] = monitor[d] /\ ExclusiveOk(d)
    BY <1>1, <1>2, CachesAreMasters DEF ExclusiveInv
  <2>2. QED
    BY <2>1 DEF ExclusiveOk, Exclusively, Passed
<1>9. \A m \in Masters \ Caches : ~tx'[m].excl
  BY <1>1, <1>2 DEF ExclusiveInv
<1>10. QED
  BY <1>7, <1>8, <1>9 DEF ExclusiveInv

\* A transaction is done, with the answer it has; the others go on or stay.
LEMMA EndsParts ==
    ASSUME BaseInv, NEW m \in Masters, Ends(m)
    PROVE  /\ tx'[m].phase = "resp"
           /\ \A x \in Masters : SameTx(tx'[x], tx[x]) /\ SameAnswer(tx'[x], tx[x])
           /\ \A x \in Masters \ {m} :
                 \/ tx'[x].phase = tx[x].phase
                 \/ tx[x].phase = "stalled" /\ tx'[x].phase = "engine"
<1>1. IcnTypeOK /\ tx[m].phase # "idle" /\ tx \in [Masters -> Tx]
  BY DEF BaseInv, TypeOK, IcnTypeOK, Ends
<1>2. PICK t : WellFormed(t) /\ SameTx(t, tx[m]) /\ SameAnswer(t, tx[m]) /\ Complete(m, t)
  BY DEF Ends
<1>3. Completed(m, t)
  BY <1>1, <1>2, CompleteParts
<1>4. /\ \A x \in Masters : SameTx(tx'[x], tx[x])
      /\ tx'[m].phase = "resp" /\ SameAnswer(tx'[m], t)
      /\ \A x \in Masters \ {m} : SameAnswer(tx'[x], tx[x])
  BY <1>1, <1>2, <1>3, CompletedSame
<1>5. \A x \in Masters \ {m} : \/ tx'[x].phase = tx[x].phase
                               \/ tx[x].phase = "stalled" /\ tx'[x].phase = "engine"
  <2>1. SUFFICES ASSUME NEW x \in Masters \ {m},
                        tx'[x] = [tx[x] EXCEPT !.phase = "engine"]
                 PROVE  tx'[x].phase = "engine"
    BY <1>3 DEF Completed
  <2>2. QED
    BY <1>1, <2>1 DEF Tx
<1>6. QED
  BY <1>2, <1>4, <1>5 DEF SameAnswer

LEMMA AcceptParts ==
    ASSUME BaseInv, NEW m \in Masters, Accept(m)
    PROVE  /\ tx[m].phase = "req" /\ \A x \in Masters : SameTx(tx'[x], tx[x])
           /\ tx'[m].phase \in {"stalled", "engine", "ds", "resp"}
           /\ IsSnoopingTransaction(tx[m].kind) => tx'[m].phase \in {"stalled", "engine"}
           /\ tx'[m].shared = tx[m].shared /\ tx'[m].dirty = tx[m].dirty
           /\ \A x \in Masters \ {m} : tx'[x] = tx[x]
           /\ UNCHANGED snoop
<1>1. IcnTypeOK /\ AccessInv /\ tx \in [Masters -> Tx] /\ tx[m].phase = "req" /\ UNCHANGED snoop
  BY DEF BaseInv, TypeOK, IcnTypeOK, Accept
<1>2. tx[m].rng # {} /\ (tx[m].kind = "Evict" => m \in Caches)
  BY <1>1, AccessParts, KindClasses
<1>3. \A x \in Masters : SameTx(tx'[x], tx[x])
  BY <1>1, <1>2, AcceptTypes
<1>4. PICK p \in {"stalled", "engine", "ds", "resp"}, ok \in BOOLEAN :
          /\ tx' = [tx EXCEPT ![m].phase = p, ![m].ok = ok]
          /\ IsSnoopingTransaction(tx[m].kind) => p \in {"stalled", "engine"}
  <2>1. tx[m].ok \in BOOLEAN /\ \A p : [tx EXCEPT ![m].phase = p, ![m].ok = tx[m].ok]
                                        = [tx EXCEPT ![m].phase = p]
    BY <1>1 DEF Tx
  <2>2. tx[m].kind = "Evict" => ~IsSnoopingTransaction(tx[m].kind)
    BY DEF IsSnoopingTransaction, ReadKinds, CleanKinds, CmoKinds, UniqueWriteKinds
  <2>3. CASE tx' = [tx EXCEPT ![m].phase = "resp", ![m].ok = TRUE]
               /\ tx[m].kind = "Evict"
    BY <2>2, <2>3
  <2>4. CASE tx' = [tx EXCEPT ![m].phase = "stalled"]
               \/ tx' = [tx EXCEPT ![m].phase = "engine"]
               \/ (tx' = [tx EXCEPT ![m].phase = "ds"] /\ ~IsSnoopingTransaction(tx[m].kind))
    BY <2>1, <2>4
  <2>5. QED
    BY <2>3, <2>4 DEF Accept
<1>5. QED
  BY <1>1, <1>3, <1>4 DEF Tx

LEMMA ExclusiveStep ==
    ASSUME BaseInv, OverlapInv, LockHasOwner, OneExclusiveUser, ExclusiveInv, [Next]_vars
    PROVE  ExclusiveInv'
<1>1. traffic' = traffic /\ IcnTypeOK /\ CacheTypeOK
  BY TrafficKept DEF BaseInv, TypeOK
<1>2. \A c \in Caches : ExclusiveOk(c)
  BY DEF ExclusiveInv
<1>3. ASSUME NEW c \in Caches, NEW o, NEW r, CacheTurns(c, o, r), UNCHANGED posSet
      PROVE  ExclusiveInv'
  BY <1>1, <1>3, ExclusiveCache
<1>4. ASSUME NEW m \in Masters \ Caches, LiteTurns(m)  PROVE ExclusiveInv'
  <2>1. PICK t : ~t.excl /\ tx' = [tx EXCEPT ![m] = t]
    BY <1>4 DEF LiteTurns
  <2>2. ~tx'[m].excl /\ \A x \in Masters \ {m} : tx'[x] = tx[x]
    BY <1>1, <2>1 DEF IcnTypeOK
  <2>3. UNCHANGED <<monitor, want, posSet>> /\ \A c \in Caches : op'[c] = op[c]
    BY <1>4 DEF LiteTurns
  <2>4. \A c \in Caches : ExclusiveOk(c)'
    BY <1>1, <1>2, <2>2, <2>3, CachesAreMasters DEF ExclusiveOk, Exclusively, Passed
  <2>5. QED
    BY <2>2, <2>4 DEF ExclusiveInv
<1>5. ASSUME NEW m \in Masters, EngineSnoop(m), UNCHANGED cacheVars  PROVE ExclusiveInv'
  <2>1. \A x \in Masters : SameTx(tx'[x], tx[x])
    BY <1>5, EngineSnoopParts DEF SameTx
  <2>2. UNCHANGED <<op, want, monitor>>
    BY <1>5 DEF cacheVars
  <2>3. QED
    BY <1>1, <1>5, <2>1, <2>2, ExclusiveEngine, ExclusiveMoves
<1>6. ASSUME NEW m \in Masters, NEW l \in Lines, NEW c \in Caches, SnoopMaster(m, l, c),
             UNCHANGED posSet
      PROVE  ExclusiveInv'
  <2>1. UNCHANGED <<tx, op, want>>
    BY <1>6, SnoopMasterParts
  <2>2. \A d \in Caches : monitor'[d] \subseteq monitor[d]
    BY <1>1, <1>6 DEF SnoopMaster, CacheSnoop, SnoopedMonitor, CacheTypeOK
  <2>3. \A x \in Masters : SameTx(tx'[x], tx[x])
    BY <2>1 DEF SameTx
  <2>4. QED
    BY <1>1, <1>2, <1>6, <2>1, <2>2, <2>3, ExclusiveMoves DEF ExclusiveOk, Passed
<1>7. ASSUME UNCHANGED <<cacheVars, posSet>>, \A x \in Masters : SameTx(tx'[x], tx[x]),
             \A c \in Caches : tx[c].excl /\ Passed(c)' => Passed(c)
      PROVE  ExclusiveInv'
  <2>1. UNCHANGED <<op, want, monitor>>
    BY <1>7 DEF cacheVars
  <2>2. QED
    BY <1>1, <1>2, <1>7, <2>1, ExclusiveMoves DEF ExclusiveOk
<1>8. ASSUME NEW m \in Masters, Accept(m), UNCHANGED <<cacheVars, posSet>>
      PROVE  ExclusiveInv'
  <2>1. \A c \in Caches : tx[c].excl => IsSnoopingTransaction(tx[c].kind)
    BY <1>2 DEF ExclusiveOk, IsSnoopingTransaction, ReadKinds, CleanKinds
  <2>2. \A c \in Caches : tx[c].excl /\ Passed(c)' => Passed(c)
    BY <1>8, <2>1, AcceptParts, CachesAreMasters DEF Passed
  <2>3. QED
    BY <1>7, <1>8, <2>2, AcceptParts
<1>9. ASSUME NEW m \in Masters, Continues(m), UNCHANGED <<cacheVars, posSet>>
      PROVE  ExclusiveInv'
  <2>1. \A x \in Masters : SameTx(tx'[x], tx[x])
    BY <1>9 DEF Continues, SameTx
  <2>2. \A c \in Caches : Passed(c)' => Passed(c)
    BY <1>9, CachesAreMasters DEF Continues, Passed
  <2>3. QED
    BY <1>7, <1>9, <2>1, <2>2
<1>10. ASSUME NEW m \in Masters, Ends(m), tx[m].phase # "engine", UNCHANGED <<cacheVars, posSet>>
       PROVE  ExclusiveInv'
  <2>1. Passed(m)
    BY <1>10 DEF Ends, Passed
  <2>2. \A c \in Caches : Passed(c)' => Passed(c)
    BY <1>10, <2>1, EndsParts, CachesAreMasters DEF Passed
  <2>3. QED
    BY <1>7, <1>10, <2>2, EndsParts
<1>11. ASSUME NEW m \in Masters, NEW l \in Lines, NEW c \in Caches, PortDone(m, l, c),
              UNCHANGED <<cacheVars, posSet>>
       PROVE  ExclusiveInv'
  <2>1. /\ \A x \in Masters \ {m} : tx'[x] = tx[x]
        /\ SameTx(tx'[m], tx[m]) /\ tx'[m].phase = tx[m].phase
    BY <1>1, <1>11, PortDoneTypes
  <2>2. \A x \in Masters : SameTx(tx'[x], tx[x])
    BY <2>1 DEF SameTx
  <2>3. \A c0 \in Caches : Passed(c0)' => Passed(c0)
    BY <2>1, CachesAreMasters DEF Passed
  <2>4. QED
    BY <1>7, <1>11, <2>2, <2>3
<1>12. ASSUME UNCHANGED <<cacheVars, posSet, tx>>  PROVE ExclusiveInv'
  BY <1>7, <1>12 DEF SameTx, Passed
<1>13. CASE UNCHANGED vars
  BY <1>12, <1>13 DEF vars, icnVars
<1>14. QED
  BY <1>3, <1>4, <1>5, <1>6, <1>8, <1>9, <1>10, <1>11, <1>12, <1>13, NextKinds, NoEngineFail

LEMMA ExclusiveInit == Init => ExclusiveInv
  BY CachesAreMasters DEF Init, CacheInit, IcnInit, ExclusiveInv, ExclusiveOk, NoTx, NoOp

-----------------------------------------------------------------------------
(***************************************************************************)
(* Coherence.  What counts of a cache is what it will have once the        *)
(* response on its way has arrived: a snoop for the line waits for that.   *)
(* A line whose Evict is on its way is no longer had.                      *)
(***************************************************************************)
Copy(c, l)     == in_cache(c, l) /\ ~(tx[c].kind = "Evict" /\ l \in LinesOf(tx[c].rng))
Fills(c, l)    == Incoming(c, l) /\ tx[c].kind \in FillKinds
Upgrades(c, l) == Incoming(c, l) /\ tx[c].kind = "CleanUnique"

WillHave(c, l) == Fills(c, l) \/ Copy(c, l)

WillBeUnique(c, l) ==
    \/ Fills(c, l) /\ (tx[c].kind = "MakeUnique" \/ ~tx[c].shared)
    \/ Copy(c, l) /\ (Upgrades(c, l) \/ ~get_line(c, l).shared)

WillBeDirty(c, l) ==
    \/ Fills(c, l) /\ (\/ tx[c].kind = "MakeUnique"
                       \/ tx[c].kind # "ReadClean" /\ tx[c].dirty)
    \/ Copy(c, l) /\ get_line(c, l).dirty

CopiesInv ==
    \A c, d \in Caches, l \in Lines : c # d =>
        /\ WillBeUnique(c, l) => ~WillHave(d, l)
        /\ WillBeDirty(c, l) => ~WillBeDirty(d, l)

(***************************************************************************)
(* A transaction under way that will give its cache the line l, and what   *)
(* its snoops have found so far, merged into it or not.                    *)
(***************************************************************************)
Grants(m, l) ==
    /\ m \in Caches /\ tx[m].kind \in FillKinds \cup {"CleanUnique"}
    /\ tx[m].phase \in {"snoop", "ds"} /\ l \in LinesOf(tx[m].rng)

SharedSeen(m, l) ==
    tx[m].shared \/ \E e \in snoop[m][l].back : snoop[m][l].ans[e].shared

DirtySeen(m, l) ==
    /\ AllowPassDirty(tx[m].kind)
    /\ \/ tx[m].dirty
       \/ \E e \in snoop[m][l].back : snoop[m][l].ans[e].xfer /\ snoop[m][l].ans[e].dirty

\* A cache d that has answered has the line only if the transaction shares it,
\* and does not own it if another cache has passed it on dirty.
GrantOk(m, l, d) ==
    /\ d \notin snoop[m][l].sent /\ WillHave(d, l) =>
          /\ tx[m].kind \notin {"ReadUnique", "MakeUnique", "CleanUnique"}
          /\ ~WillBeUnique(d, l) /\ SharedSeen(m, l)
    /\ DirtySeen(m, l) /\ WillHave(d, l) => ~WillBeUnique(d, l) /\ ~WillBeDirty(d, l)

GrantInv ==
    \A m \in Masters, l \in Lines : Grants(m, l) =>
        /\ tx[m].dirty => AllowPassDirty(tx[m].kind)
        /\ \A d \in Caches \ {m} : GrantOk(m, l, d)

\* A step gives c no more of line l than it had: a unique line may get dirty.
Degrades(c, l) ==
    /\ WillHave(c, l)' => WillHave(c, l)
    /\ WillBeUnique(c, l)' => WillBeUnique(c, l)
    /\ WillBeDirty(c, l)' => WillBeDirty(c, l) \/ WillBeUnique(c, l)

LEMMA WillParts ==
    ASSUME NEW c, NEW l
    PROVE  (WillBeUnique(c, l) => WillHave(c, l)) /\ (WillBeDirty(c, l) => WillHave(c, l))
  BY DEF WillBeUnique, WillBeDirty, WillHave

LEMMA CopiesDegrade ==
    ASSUME CopiesInv, \A c \in Caches, l \in Lines : Degrades(c, l)
    PROVE  CopiesInv'
<1>1. SUFFICES ASSUME NEW c \in Caches, NEW d \in Caches, NEW l \in Lines, c # d
               PROVE  /\ WillBeUnique(c, l)' => ~WillHave(d, l)'
                      /\ WillBeDirty(c, l)' => ~WillBeDirty(d, l)'
  BY DEF CopiesInv
<1>2. /\ WillBeUnique(c, l) => ~WillHave(d, l)
      /\ WillBeUnique(d, l) => ~WillHave(c, l)
      /\ WillBeDirty(c, l) => ~WillBeDirty(d, l)
  BY <1>1 DEF CopiesInv
<1>3. /\ WillHave(d, l)' => WillHave(d, l)
      /\ WillBeUnique(c, l)' => WillBeUnique(c, l)
      /\ WillBeDirty(c, l)' => WillBeDirty(c, l) \/ WillBeUnique(c, l)
      /\ WillBeDirty(d, l)' => WillBeDirty(d, l) \/ WillBeUnique(d, l)
  BY DEF Degrades
<1>4. QED
  BY <1>2, <1>3, WillParts

\* No port has anything new to tell about the line.
LEMMA GrantKept ==
    ASSUME NEW m, NEW l, NEW d, GrantOk(m, l, d), Degrades(d, l),
           tx'[m].kind = tx[m].kind,
           d \in snoop[m][l].sent => d \in snoop'[m][l].sent,
           SharedSeen(m, l) => SharedSeen(m, l)', DirtySeen(m, l)' => DirtySeen(m, l)
    PROVE  GrantOk(m, l, d)'
<1>1. /\ WillHave(d, l)' => WillHave(d, l)
      /\ WillBeUnique(d, l)' => WillBeUnique(d, l)
      /\ WillBeDirty(d, l)' => WillBeDirty(d, l) \/ WillBeUnique(d, l)
  BY DEF Degrades
<1>2. QED
  BY <1>1 DEF GrantOk

\* A cache whose lines stay, while no response to it is sent or taken.
LEMMA ViewKept ==
    ASSUME NEW c \in Caches, NEW l \in Lines, cacheline'[c] = cacheline[c],
           tx'[c].kind = tx[c].kind, tx'[c].rng = tx[c].rng,
           \/ tx'[c] = tx[c]
           \/ ~Incoming(c, l) /\ ~Incoming(c, l)'
    PROVE  Degrades(c, l)
<1>1. Copy(c, l)' = Copy(c, l) /\ get_line(c, l)' = get_line(c, l)
  BY DEF Copy, in_cache, Holds, get_line
<1>2. CASE tx'[c] = tx[c]
  <2>1. Incoming(c, l)' = Incoming(c, l)
    BY <1>2 DEF Incoming
  <2>2. QED
    BY <1>1, <1>2, <2>1 DEF Degrades, WillHave, WillBeUnique, WillBeDirty, Fills, Upgrades
<1>3. CASE ~Incoming(c, l) /\ ~Incoming(c, l)'
  BY <1>1, <1>3 DEF Degrades, WillHave, WillBeUnique, WillBeDirty, Fills, Upgrades
<1>4. QED
  BY <1>2, <1>3

\* The thread of cache c goes on: it loses lines, and gains none but the one
\* that the response brings.
LEMMA CacheTurnDegrades ==
    ASSUME BaseInv, NEW c \in Caches, NEW o, NEW r, CacheTurns(c, o, r), NEW l \in Lines
    PROVE  Degrades(c, l)
<1> DEFINE i == Index[LineOf(o)]
           ln == get_line(c, LineOf(o))
           t == NextTx(o, r)
<1>1. /\ c \in Masters /\ tx \in [Masters -> Tx] /\ SlotInv
      /\ cacheline \in [Caches -> [Slots -> CacheLine]]
  BY CachesAreMasters DEF BaseInv, TypeOK, IcnTypeOK, CacheTypeOK
<1>2. /\ o \in Op /\ r \in Result /\ LineOf(o) \in Lines /\ i \in Slots
      /\ Index[l] \in Slots
  BY AccessFacts, SlotOf DEF CacheTurns
<1>3. /\ cacheline' = [cacheline EXCEPT ![c][i] = r.ln]
      /\ tx'[c] = t /\ t.phase \in {"idle", "req"}
  BY <1>1 DEF CacheTurns, CacheStep
<1>4. /\ ~Incoming(c, l)'
      /\ get_line(c, l)' = IF Index[l] = i THEN r.ln ELSE get_line(c, l)
  BY <1>1, <1>2, <1>3 DEF Incoming, get_line
<1>5. /\ WillHave(c, l)' => Copy(c, l)'
      /\ WillBeUnique(c, l)' => Copy(c, l)' /\ ~get_line(c, l)'.shared
      /\ WillBeDirty(c, l)' => Copy(c, l)' /\ get_line(c, l)'.dirty
  BY <1>4 DEF WillHave, WillBeUnique, WillBeDirty, Fills, Upgrades
<1>6. Copy(c, l)' => in_cache(c, l)' /\ get_line(c, l)'.valid /\ get_line(c, l)'.tag = l
  BY DEF Copy, in_cache, Holds
<1>7. ln \in CacheLine /\ r.ln \in CacheLine
  BY <1>1, <1>2 DEF get_line, Result
<1>8. CASE Index[l] # i
  <2>1. get_line(c, l)' = get_line(c, l)
    BY <1>4, <1>8
  <2>2. in_cache(c, l)' = in_cache(c, l)
    BY <2>1 DEF in_cache, Holds
  <2>3. tx[c].kind = "Evict" => l \notin LinesOf(tx[c].rng)
    <3>1. SUFFICES ASSUME tx[c].kind = "Evict"  PROVE l \notin LinesOf(tx[c].rng)
      OBVIOUS
    <3>2. o = op[c] /\ AsksRight(c)
      BY <3>1 DEF CacheTurns
    <3>3. LineIn(c) = ln /\ ln.valid /\ tx[c].rng = LineAddr(ln.tag)
      BY <3>1, <3>2 DEF AsksRight, LineIn, PayloadRange, CopyBackKinds
    <3>4. Index[ln.tag] = i
      BY <1>1, <1>2, <3>3 DEF SlotInv, get_line
    <3>5. LinesOf(tx[c].rng) = {ln.tag}
      BY <1>7, <3>3, LineAddrFacts DEF CacheLine
    <3>6. QED
      BY <1>8, <3>4, <3>5
  <2>4. in_cache(c, l) => Copy(c, l)
    BY <2>3 DEF Copy
  <2>5. QED
    BY <1>5, <1>6, <2>1, <2>2, <2>4 DEF Degrades, WillHave, WillBeUnique, WillBeDirty
<1>9. CASE Index[l] = i
  <2>1. get_line(c, l) = ln /\ get_line(c, l)' = r.ln
    BY <1>4, <1>9 DEF get_line
  <2>2. SUFFICES ASSUME Copy(c, l)'
                 PROVE  /\ WillHave(c, l)
                        /\ ~r.ln.shared => WillBeUnique(c, l)
                        /\ r.ln.dirty => WillBeDirty(c, l) \/ WillBeUnique(c, l)
    BY <1>5, <2>1 DEF Degrades
  <2>3. r.ln.valid /\ r.ln.tag = l
    BY <1>6, <2>1, <2>2
  <2>4. r.req # "Evict"
    <3>1. SUFFICES ASSUME r.req = "Evict"  PROVE FALSE
      OBVIOUS
    <3>2. t.kind = "Evict" /\ t.rng = LineAddr(l)
      BY <1>2, <2>3, <3>1, NextTxParts DEF PayloadRange, CopyBackKinds
    <3>3. QED
      BY <1>3, <2>2, <3>2, LineAddrFacts DEF Copy
  <2>5. ASSUME tx[c].kind # "Evict", ln.valid, ln.tag = l
        PROVE  /\ Copy(c, l) /\ WillHave(c, l)
               /\ ~ln.shared => WillBeUnique(c, l)
               /\ ln.dirty => WillBeDirty(c, l)
               /\ Upgrades(c, l) => WillBeUnique(c, l)
    <3>1. Copy(c, l)
      BY <2>1, <2>5 DEF Copy, in_cache, Holds
    <3>2. QED
      BY <2>1, <3>1 DEF WillHave, WillBeUnique, WillBeDirty
  <2>6. CASE tx[c].kind = "none" /\ Looked(o, ln, r)
    <3>1. /\ ln.valid /\ ln.tag = l /\ r.ln.shared = ln.shared
          /\ r.ln.dirty # ln.dirty => ~ln.shared
      BY <2>3, <2>6 DEF Looked
    <3>2. QED
      BY <2>5, <2>6, <3>1
  <2>7. CASE /\ tx[c].phase = "resp" /\ o = op[c] /\ AsksRight(c)
             /\ tx[c].kind \in TxKinds /\ Answered(o, ln, tx[c], r)
    <3>1. tx[c].kind \notin FillKinds => r.ln.tag = ln.tag
      BY <2>7 DEF Answered
    <3>2. CASE tx[c].kind = "WriteClean"
      <4>1. ln.valid /\ ln.tag = l /\ r.ln.shared = ln.shared /\ ~r.ln.dirty
        BY <2>3, <2>7, <3>1, <3>2, KindClasses DEF Answered
      <4>2. QED
        BY <2>5, <3>2, <4>1
    <3>3. CASE tx[c].kind \in {"WriteBack", "Evict"}
      BY <2>3, <2>7, <3>3 DEF Answered
    <3>4. CASE tx[c].kind = "CleanUnique"
      <4>1. ln.valid /\ ln.tag = l
        BY <2>3, <2>4, <2>7, <3>1, <3>4, KindClasses DEF Answered
      <4>2. LineOf(o) = l
        BY <2>7, <3>4, <4>1 DEF AsksRight, LineIn
      <4>3. tx[c].rng = LineAddr(l)
        BY <2>7, <3>4, <4>2, KindClasses DEF AsksRight, PayloadRange
      <4>4. Upgrades(c, l)
        BY <2>7, <3>4, <4>3 DEF Upgrades, Incoming, IsSnoopingTransaction, CleanKinds
      <4>5. QED
        BY <2>5, <3>4, <4>1, <4>4
    <3>5. CASE tx[c].kind \in UniqueWriteKinds
      <4>1. /\ ln.valid /\ ln.tag = l
            /\ r.ln = ln \/ (r.ln.shared /\ ~r.ln.dirty)
        BY <2>3, <2>7, <3>1, <3>5, KindClasses DEF Answered
      <4>2. QED
        BY <2>5, <3>5, <4>1, KindClasses
    <3>6. CASE tx[c].kind \in CmoKinds \cup NoSnoopKinds
      <4>1. r.ln = ln /\ tx[c].kind # "Evict"
        BY <2>7, <3>6, KindClasses DEF Answered
      <4>2. QED
        BY <2>3, <2>5, <4>1
    <3>7. CASE tx[c].kind \in FillKinds
      <4>1. /\ LineOf(o) = l
            /\ r.ln.shared = (tx[c].kind # "MakeUnique" /\ tx[c].shared)
            /\ r.ln.dirty => ~r.ln.shared \/ (tx[c].kind # "ReadClean" /\ tx[c].dirty)
        BY <2>3, <2>7, <3>7 DEF Answered
      <4>2. tx[c].rng = LineAddr(l)
        BY <2>7, <3>7, <4>1, KindClasses DEF AsksRight, PayloadRange
      <4>3. IsSnoopingTransaction(tx[c].kind)
        BY <3>7 DEF FillKinds, IsSnoopingTransaction, CleanKinds
      <4>4. Fills(c, l)
        BY <2>7, <3>7, <4>2, <4>3 DEF Fills, Incoming
      <4>5. QED
        BY <4>1, <4>4 DEF WillHave, WillBeUnique, WillBeDirty
    <3>8. QED
      BY <2>7, <3>2, <3>3, <3>4, <3>5, <3>6, <3>7, KindClasses DEF AsksRight
  <2>8. QED
    BY <2>6, <2>7 DEF CacheTurns
<1>10. QED
  BY <1>8, <1>9

\* A snoop invalidates the line of cache c, or makes it shared.
LEMMA SnoopDegrades ==
    ASSUME BaseInv, OverlapInv, NEW m \in Masters, NEW l \in Lines, NEW c \in Caches,
           SnoopMaster(m, l, c)
    PROVE  /\ \A d \in Caches, k \in Lines : Degrades(d, k)
           /\ WillHave(c, l)' => /\ WillHave(c, l) /\ in_cache(c, l)
                                 /\ ~WillBeUnique(c, l)'
                                 /\ SnoopOf(tx[m].kind) \notin
                                       {"ReadUnique", "CleanInvalid", "MakeInvalid"}
                                 /\ SnoopOf(tx[m].kind) \in {"ReadShared", "CleanShared"} =>
                                       ~WillBeDirty(c, l)'
<1> DEFINE kind == SnoopOf(tx[m].kind)
           ln == get_line(c, l)
<1>1. /\ cacheline \in [Caches -> [Slots -> CacheLine]]
      /\ UNCHANGED tx /\ ~write_ongoing(c) /\ ~Incoming(c, l) /\ Index[l] \in Slots
      /\ CacheSnoop(c, kind, l)
  BY SnoopMasterParts, SlotOf DEF BaseInv, TypeOK, CacheTypeOK, SnoopMaster
<1>2. ~Incoming(c, l)'
  BY <1>1 DEF Incoming
<1>3. ASSUME NEW d \in Caches, cacheline'[d] = cacheline[d]  PROVE \A k \in Lines : Degrades(d, k)
  BY <1>1, <1>3, ViewKept
<1>4. ln \in CacheLine
  BY <1>1 DEF get_line
<1>5. CASE ~in_cache(c, l)
  <2>1. cacheline' = cacheline
    BY <1>1, <1>5 DEF CacheSnoop
  <2>2. ~WillHave(c, l)'
    BY <1>2, <1>5, <2>1 DEF WillHave, Fills, Copy, in_cache, get_line
  <2>3. QED
    BY <1>3, <2>1, <2>2
<1>6. CASE in_cache(c, l)
  <2>1. PICK new : new = SnoopedLine(kind, ln)
    OBVIOUS
  <2>2. cacheline' = [cacheline EXCEPT ![c][Index[l]] = new]
    BY <1>1, <1>6, <2>1 DEF CacheSnoop
  <2>3. /\ new.tag = ln.tag /\ (new.valid => ln.valid /\ new.shared)
        /\ kind \in {"ReadUnique", "CleanInvalid", "MakeInvalid"} => ~new.valid
        /\ new.valid /\ kind \in {"ReadShared", "CleanShared"} => ~new.dirty
        /\ new.dirty => ln.dirty
    BY <1>4, <2>1, SnoopedParts
  <2>4. \A k \in Lines : get_line(c, k)' = IF Index[k] = Index[l] THEN new ELSE get_line(c, k)
    BY <1>1, <2>2, SlotOf DEF get_line
  <2>5. \A d \in Caches \ {c} : cacheline'[d] = cacheline[d]
    BY <1>1, <2>2
  <2>6. ASSUME NEW k \in Lines  PROVE Degrades(c, k)
    <3>1. /\ Incoming(c, k)' = Incoming(c, k) /\ Fills(c, k)' = Fills(c, k)
          /\ Upgrades(c, k)' = Upgrades(c, k)
      BY <1>1 DEF Incoming, Fills, Upgrades
    <3>2. CASE Index[k] # Index[l]
      <4>1. get_line(c, k)' = get_line(c, k) /\ Copy(c, k)' = Copy(c, k)
        BY <1>1, <2>4, <3>2 DEF Copy, in_cache, Holds
      <4>2. QED
        BY <1>1, <3>1, <4>1 DEF Degrades, WillHave, WillBeUnique, WillBeDirty
    <3>3. CASE Index[k] = Index[l]
      <4>1. get_line(c, k) = ln /\ get_line(c, k)' = new
        BY <2>4, <3>3 DEF get_line
      <4>2. Copy(c, k)' => Copy(c, k) /\ new.shared
        BY <1>1, <2>3, <4>1 DEF Copy, in_cache, Holds
      <4>3. Upgrades(c, k)' /\ Copy(c, k)' => WillBeUnique(c, k)
        BY <3>1, <4>2 DEF WillBeUnique
      <4>4. WillHave(c, k)' => WillHave(c, k)
        BY <3>1, <4>2 DEF WillHave
      <4>5. WillBeUnique(c, k)' => WillBeUnique(c, k)
        BY <1>1, <3>1, <4>1, <4>2, <4>3 DEF WillBeUnique
      <4>6. WillBeDirty(c, k)' => WillBeDirty(c, k)
        BY <1>1, <2>3, <3>1, <4>1, <4>2 DEF WillBeDirty
      <4>7. QED
        BY <4>4, <4>5, <4>6 DEF Degrades
    <3>4. QED
      BY <3>2, <3>3
  <2>7. ASSUME WillHave(c, l)'
        PROVE  /\ WillHave(c, l) /\ ~WillBeUnique(c, l)'
               /\ kind \notin {"ReadUnique", "CleanInvalid", "MakeInvalid"}
               /\ kind \in {"ReadShared", "CleanShared"} => ~WillBeDirty(c, l)'
    <3>1. get_line(c, l)' = new /\ Copy(c, l)'
      BY <1>2, <2>4, <2>7 DEF WillHave, Fills
    <3>2. new.valid
      BY <3>1 DEF Copy, in_cache, Holds
    <3>3. WillHave(c, l)
      BY <2>6, <2>7 DEF Degrades
    <3>4. ~WillBeUnique(c, l)'
      BY <1>2, <2>3, <3>1, <3>2 DEF WillBeUnique, Fills, Upgrades
    <3>5. kind \in {"ReadShared", "CleanShared"} => ~WillBeDirty(c, l)'
      BY <1>2, <2>3, <3>1, <3>2 DEF WillBeDirty, Fills
    <3>6. QED
      BY <2>3, <3>2, <3>3, <3>4, <3>5
  <2>8. \A d \in Caches, k \in Lines : Degrades(d, k)
    BY <1>3, <2>5, <2>6
  <2>9. QED
    BY <1>6, <2>7, <2>8
<1>7. QED
  BY <1>5, <1>6

\* The answers of the ports other than those that a step is about stay.
LEMMA OthersKept ==
    ASSUME GrantInv, NEW x \in Masters, NEW k \in Lines, Grants(x, k),
           \A d \in Caches : Degrades(d, k),
           tx'[x].kind = tx[x].kind, SameAnswer(tx'[x], tx[x]),
           snoop'[x][k].sent = snoop[x][k].sent, snoop'[x][k].back = snoop[x][k].back,
           \A e \in snoop[x][k].back : snoop'[x][k].ans[e] = snoop[x][k].ans[e]
    PROVE  /\ tx'[x].dirty => AllowPassDirty(tx'[x].kind)
           /\ \A d \in Caches \ {x} : GrantOk(x, k, d)'
<1>1. tx'[x].shared = tx[x].shared /\ tx'[x].dirty = tx[x].dirty
  BY DEF SameAnswer
<1>2. SharedSeen(x, k)' = SharedSeen(x, k)
  BY <1>1 DEF SharedSeen
<1>3. DirtySeen(x, k)' = DirtySeen(x, k)
  BY <1>1 DEF DirtySeen
<1>4. \A d \in Caches \ {x} : GrantOk(x, k, d)
  BY DEF GrantInv
<1>5. \A d \in Caches \ {x} : GrantOk(x, k, d)'
  BY <1>2, <1>3, <1>4, GrantKept
<1>6. tx'[x].dirty => AllowPassDirty(tx'[x].kind)
  BY <1>1 DEF GrantInv
<1>7. QED
  BY <1>5, <1>6

\* What an answer to a snoop says of the line.
LEMMA AnswerParts ==
    ASSUME NEW ln \in CacheLine, NEW kind
    PROVE  /\ SnoopAnswer(kind, ln).shared <=>
                  kind \in (ReadKinds \ {"ReadUnique"}) \cup {"CleanShared"}
           /\ SnoopAnswer(kind, ln).dirty =>
                  /\ ln.dirty
                  /\ kind \in {"ReadShared", "ReadUnique", "CleanInvalid", "CleanShared"}
<1> DEFINE shared == kind \in (ReadKinds \ {"ReadUnique"}) \cup {"CleanShared"}
           dirty == ln.dirty /\ kind \in {"ReadShared", "ReadUnique",
                                          "CleanInvalid", "CleanShared"}
<1>1. \E x, d : SnoopAnswer(kind, ln) = [shared |-> shared, dirty |-> dirty, xfer |-> x,
                                        data |-> d]
  BY DEF SnoopAnswer
<1> HIDE DEF shared, dirty
<1>2. SnoopAnswer(kind, ln).shared = shared /\ SnoopAnswer(kind, ln).dirty = dirty
  BY <1>1
<1>3. QED
  BY <1>2 DEF shared, dirty

\* Port c answers a snoop for line l of m.
LEMMA GrantSnoop ==
    ASSUME BaseInv, OverlapInv, CopiesInv, GrantInv,
           NEW m \in Masters, NEW l \in Lines, NEW c \in Caches, SnoopMaster(m, l, c)
    PROVE  GrantInv'
<1> DEFINE kind == SnoopOf(tx[m].kind)
<1>0. get_line(c, l) \in CacheLine
  BY SlotOf DEF BaseInv, TypeOK, CacheTypeOK, get_line
<1>1. /\ UNCHANGED tx /\ m # c /\ ~write_ongoing(c) /\ ~Incoming(c, l)
      /\ c \in snoop[m][l].sent /\ c \notin snoop[m][l].back
      /\ snoop'[m][l].sent = snoop[m][l].sent \ {c}
      /\ snoop'[m][l].back = snoop[m][l].back \cup {c}
      /\ snoop'[m][l].ans[c] = IF in_cache(c, l) THEN SnoopAnswer(kind, get_line(c, l))
                                                 ELSE BlankAnswer
      /\ \A d \in Caches \ {c} : snoop'[m][l].ans[d] = snoop[m][l].ans[d]
      /\ \A x \in Masters, k \in Lines : x # m \/ k # l => snoop'[x][k] = snoop[x][k]
  BY SnoopMasterParts
<1>2. /\ \A d \in Caches, k \in Lines : Degrades(d, k)
      /\ WillHave(c, l)' => /\ WillHave(c, l) /\ in_cache(c, l)
                            /\ ~WillBeUnique(c, l)'
                            /\ kind \notin {"ReadUnique", "CleanInvalid", "MakeInvalid"}
                            /\ kind \in {"ReadShared", "CleanShared"} => ~WillBeDirty(c, l)'
  BY SnoopDegrades
<1>3. snoop[m][l].back \subseteq Caches
  BY DEF BaseInv, TypeOK, IcnTypeOK, Snoop
<1>4. SUFFICES ASSUME NEW x \in Masters, NEW k \in Lines, Grants(x, k)'
               PROVE  /\ tx'[x].dirty => AllowPassDirty(tx'[x].kind)
                      /\ \A d \in Caches \ {x} : GrantOk(x, k, d)'
  BY DEF GrantInv
<1>5. Grants(x, k)
  BY <1>1, <1>4 DEF Grants
<1>6. CASE x # m \/ k # l
  BY <1>1, <1>2, <1>5, <1>6, OthersKept DEF SameAnswer
<1>7. CASE x = m /\ k = l
  <2>1. /\ tx[m].kind \in FillKinds \cup {"CleanUnique"}
        /\ tx[m].dirty => AllowPassDirty(tx[m].kind)
        /\ \A d \in Caches \ {m} : GrantOk(m, l, d)
    BY <1>5, <1>7 DEF GrantInv, Grants
  <2>2. /\ tx[m].kind = "ReadUnique" => kind = "ReadUnique"
        /\ tx[m].kind = "MakeUnique" => kind = "MakeInvalid"
        /\ tx[m].kind = "CleanUnique" => kind = "CleanInvalid"
        /\ tx[m].kind \in {"ReadShared", "ReadClean", "ReadNotSharedDirty"} => kind = tx[m].kind
    BY DEF SnoopOf, ReadKinds
  <2>3. tx[m].kind \in {"ReadUnique", "MakeUnique", "CleanUnique", "ReadShared", "ReadClean",
                        "ReadNotSharedDirty"}
    BY <2>1 DEF FillKinds, ReadKinds
  <2>4. \A e \in snoop[m][l].back : snoop'[m][l].ans[e] = snoop[m][l].ans[e]
    BY <1>1, <1>3
  <2>5. SharedSeen(m, l) => SharedSeen(m, l)'
    BY <1>1, <2>4 DEF SharedSeen
  <2>6. CASE ~(snoop'[m][l].ans[c].xfer /\ snoop'[m][l].ans[c].dirty)
    <3>1. DirtySeen(m, l)' => DirtySeen(m, l)
      BY <1>1, <2>4, <2>6 DEF DirtySeen
    <3>2. \A d \in Caches \ {m} : d # c => GrantOk(m, l, d)'
      BY <1>1, <1>2, <2>1, <2>5, <3>1, GrantKept
    <3>3. GrantOk(m, l, c)'
      <4>1. ASSUME WillHave(c, l)'
            PROVE  /\ tx'[m].kind \notin {"ReadUnique", "MakeUnique", "CleanUnique"}
                   /\ ~WillBeUnique(c, l)' /\ SharedSeen(m, l)'
        <5>1. tx[m].kind \notin {"ReadUnique", "MakeUnique", "CleanUnique"}
          BY <1>2, <2>2, <4>1
        <5>2. snoop'[m][l].ans[c].shared
          BY <1>1, <1>2, <2>2, <2>3, <4>1, <1>0, <5>1, AnswerParts DEF ReadKinds
        <5>3. SharedSeen(m, l)'
          BY <1>1, <5>2 DEF SharedSeen
        <5>4. QED
          BY <1>1, <1>2, <4>1, <5>1, <5>3
      <4>2. DirtySeen(m, l)' /\ WillHave(c, l)' => ~WillBeUnique(c, l)' /\ ~WillBeDirty(c, l)'
        <5>1. GrantOk(m, l, c) /\ Degrades(c, l)
          BY <1>1, <1>2, <2>1
        <5>2. QED
          BY <3>1, <5>1 DEF GrantOk, Degrades
      <4>3. QED
        BY <4>1, <4>2 DEF GrantOk
    <3>4. QED
      BY <1>1, <1>7, <2>1, <3>2, <3>3
  <2>7. CASE snoop'[m][l].ans[c].xfer /\ snoop'[m][l].ans[c].dirty
    <3>1. /\ in_cache(c, l) /\ get_line(c, l).dirty
          /\ kind \in {"ReadShared", "ReadUnique", "CleanInvalid", "CleanShared"}
      BY <1>1, <1>0, <2>7, AnswerParts DEF BlankAnswer
    <3>2. WillBeDirty(c, l) /\ WillHave(c, l)
      BY <1>1, <3>1 DEF WillBeDirty, WillHave, Copy, write_ongoing, CopyBackKinds
    <3>3. ASSUME NEW d \in Caches \ {m}, d # c  PROVE GrantOk(m, l, d)'
      <4>1. ~WillBeUnique(d, l) /\ ~WillBeDirty(d, l)
        BY <3>2, <3>3 DEF CopiesInv
      <4>2. ~WillBeUnique(d, l)' /\ ~WillBeDirty(d, l)' /\ (WillHave(d, l)' => WillHave(d, l))
        BY <1>2, <4>1 DEF Degrades
      <4>3. d \in snoop[m][l].sent => d \in snoop'[m][l].sent
        BY <1>1, <3>3
      <4>4. GrantOk(m, l, d) /\ tx'[m].kind = tx[m].kind
        BY <1>1, <2>1
      <4>5. QED
        BY <2>5, <4>2, <4>3, <4>4 DEF GrantOk
    <3>4. GrantOk(m, l, c)'
      <4>1. ASSUME WillHave(c, l)'
            PROVE  /\ tx'[m].kind \notin {"ReadUnique", "MakeUnique", "CleanUnique"}
                   /\ ~WillBeUnique(c, l)' /\ SharedSeen(m, l)' /\ ~WillBeDirty(c, l)'
        <5>1. tx[m].kind \notin {"ReadUnique", "MakeUnique", "CleanUnique"}
          BY <1>2, <2>2, <4>1
        <5>2. snoop'[m][l].ans[c].shared
          BY <1>1, <1>2, <2>2, <2>3, <4>1, <1>0, <5>1, AnswerParts DEF ReadKinds
        <5>3. SharedSeen(m, l)'
          BY <1>1, <5>2 DEF SharedSeen
        <5>4. kind \in {"ReadShared", "CleanShared"}
          BY <1>2, <3>1, <4>1
        <5>5. QED
          BY <1>1, <1>2, <4>1, <5>1, <5>3, <5>4
      <4>2. QED
        BY <4>1 DEF GrantOk
    <3>5. QED
      BY <1>1, <1>7, <2>1, <3>3, <3>4
  <2>8. QED
    BY <2>6, <2>7
<1>8. QED
  BY <1>6, <1>7

\* PortDone merges the answer of port c.
LEMMA GrantPortDone ==
    ASSUME BaseInv, GrantInv, NEW m \in Masters, NEW l \in Lines, NEW c \in Caches,
           PortDone(m, l, c), UNCHANGED cacheVars
    PROVE  (\A d \in Caches, k \in Lines : Degrades(d, k)) /\ GrantInv'
<1>1. IcnTypeOK /\ AccessInv /\ c \in snoop[m][l].back
  BY DEF BaseInv, TypeOK, PortDone
<1>2. /\ \A x \in Masters \ {m} : tx'[x] = tx[x]
      /\ SameTx(tx'[m], tx[m]) /\ tx'[m].phase = tx[m].phase
      /\ tx'[m].shared = (tx[m].shared \/ snoop[m][l].ans[c].shared)
      /\ tx'[m].dirty = (tx[m].dirty \/
             (/\ snoop[m][l].ans[c].xfer /\ snoop[m][l].ans[c].dirty
              /\ AllowPassDirty(tx[m].kind)))
      /\ snoop'[m][l].sent = snoop[m][l].sent
      /\ snoop'[m][l].back = snoop[m][l].back \ {c}
      /\ \A d \in Caches \ {c} : snoop'[m][l].ans[d] = snoop[m][l].ans[d]
      /\ \A x \in Masters, k \in Lines : x # m \/ k # l => snoop'[x][k] = snoop[x][k]
  BY <1>1, PortDoneTypes
<1>3. /\ tx[m].phase = "snoop" /\ IsSnoopingTransaction(tx[m].kind)
      /\ l \in LinesOf(tx[m].rng)
  BY <1>1, PortsBusy
<1>4. tx'[m].kind = tx[m].kind /\ tx'[m].rng = tx[m].rng
  BY <1>2 DEF SameTx
<1>5. ASSUME NEW d \in Caches, NEW k \in Lines  PROVE Degrades(d, k)
  <2>1. d \in Masters /\ cacheline' = cacheline
    BY CachesAreMasters DEF cacheVars
  <2>2. CASE d = m
    BY <1>2, <1>3, <1>4, <2>1, <2>2, ViewKept DEF Incoming
  <2>3. CASE d # m
    BY <1>2, <2>1, <2>3, ViewKept
  <2>4. QED
    BY <2>2, <2>3
<1>6. SUFFICES ASSUME NEW x \in Masters, NEW k \in Lines, Grants(x, k)'
               PROVE  /\ tx'[x].dirty => AllowPassDirty(tx'[x].kind)
                      /\ \A d \in Caches \ {x} : GrantOk(x, k, d)'
  BY <1>5 DEF GrantInv
<1>7. Grants(x, k)
  BY <1>2, <1>4, <1>6 DEF Grants
<1>8. CASE x # m
  BY <1>2, <1>5, <1>7, <1>8, OthersKept DEF SameAnswer
<1>9. CASE x = m
  <2>1. k = l
    <3>1. m \in Caches /\ k \in LinesOf(tx[m].rng) /\ op[m] # NoOp
      BY <1>1, <1>3, <1>7, <1>9, AccessParts DEF Grants
    <3>2. tx[m].kind \notin CopyBackKinds
      BY <1>7, <1>9, KindClasses DEF Grants
    <3>3. QED
      BY <1>1, <1>3, <3>1, <3>2, OneLine
  <2>2. snoop[m][l].back \subseteq Caches
    BY <1>1 DEF IcnTypeOK, Snoop
  <2>3. SharedSeen(m, l) => SharedSeen(m, l)'
    <3>1. ASSUME NEW e \in snoop[m][l].back, snoop[m][l].ans[e].shared
          PROVE  SharedSeen(m, l)'
      <4>1. CASE e = c
        BY <1>2, <3>1, <4>1 DEF SharedSeen
      <4>2. CASE e # c
        BY <1>2, <2>2, <3>1, <4>2 DEF SharedSeen
      <4>3. QED
        BY <4>1, <4>2
    <3>2. tx[m].shared => SharedSeen(m, l)'
      BY <1>2 DEF SharedSeen
    <3>3. QED
      BY <3>1, <3>2 DEF SharedSeen
  <2>4. DirtySeen(m, l)' => DirtySeen(m, l)
    <3>1. SUFFICES ASSUME AllowPassDirty(tx[m].kind),
                          \/ tx'[m].dirty
                          \/ \E e \in snoop'[m][l].back :
                                snoop'[m][l].ans[e].xfer /\ snoop'[m][l].ans[e].dirty
                   PROVE  DirtySeen(m, l)
      BY <1>4 DEF DirtySeen
    <3>2. CASE tx'[m].dirty
      BY <1>1, <1>2, <3>1, <3>2 DEF DirtySeen
    <3>3. ASSUME NEW e \in snoop'[m][l].back,
                 snoop'[m][l].ans[e].xfer /\ snoop'[m][l].ans[e].dirty
          PROVE  DirtySeen(m, l)
      <4>1. e \in snoop[m][l].back /\ snoop'[m][l].ans[e] = snoop[m][l].ans[e]
        BY <1>2, <2>2
      <4>2. QED
        BY <3>1, <3>3, <4>1 DEF DirtySeen
    <3>4. QED
      BY <3>1, <3>2, <3>3
  <2>5. \A d \in Caches \ {m} : GrantOk(m, l, d)
    BY <1>7, <1>9, <2>1 DEF GrantInv
  <2>6. \A d \in Caches \ {m} : GrantOk(m, l, d)'
    BY <1>2, <1>4, <1>5, <2>3, <2>4, <2>5, GrantKept
  <2>7. tx'[m].dirty => AllowPassDirty(tx'[m].kind)
    BY <1>2, <1>4, <1>7, <1>9 DEF GrantInv
  <2>8. QED
    BY <1>9, <2>1, <2>6, <2>7
<1>10. QED
  BY <1>8, <1>9

\* The engine sends the snoops of m to every other port: none has answered yet.
LEMMA GrantEngine ==
    ASSUME BaseInv, GrantInv, NEW m \in Masters, EngineSnoop(m), UNCHANGED cacheVars
    PROVE  (\A d \in Caches, k \in Lines : Degrades(d, k)) /\ GrantInv'
<1>1. /\ tx[m].phase = "engine" /\ tx'[m].phase = "snoop" /\ SameTx(tx'[m], tx[m])
      /\ tx'[m].shared = tx[m].shared /\ tx'[m].dirty = tx[m].dirty
      /\ \A x \in Masters \ {m} : tx'[x] = tx[x]
      /\ \A l \in LinesOf(tx[m].rng) : snoop'[m][l].sent = Caches \ {m}
                                        /\ snoop'[m][l].back = {}
      /\ \A x \in Masters \ {m}, l \in Lines : snoop'[x][l] = snoop[x][l]
  BY EngineSnoopParts
<1>2. ~tx[m].dirty
  BY <1>1 DEF BaseInv, WorkInv, PhaseInv, PhaseOk
<1>3. ASSUME NEW d \in Caches, NEW k \in Lines  PROVE Degrades(d, k)
  <2>1. d \in Masters /\ cacheline' = cacheline
    BY CachesAreMasters DEF cacheVars
  <2>2. CASE d = m
    BY <1>1, <2>1, <2>2, ViewKept DEF Incoming, SameTx
  <2>3. CASE d # m
    BY <1>1, <2>1, <2>3, ViewKept
  <2>4. QED
    BY <2>2, <2>3
<1>4. SUFFICES ASSUME NEW x \in Masters, NEW k \in Lines, Grants(x, k)'
               PROVE  /\ tx'[x].dirty => AllowPassDirty(tx'[x].kind)
                      /\ \A d \in Caches \ {x} : GrantOk(x, k, d)'
  BY <1>3 DEF GrantInv
<1>5. CASE x # m
  <2>1. Grants(x, k)
    BY <1>1, <1>4, <1>5 DEF Grants
  <2>2. QED
    BY <1>1, <1>3, <1>5, <2>1, OthersKept DEF SameAnswer
<1>6. CASE x = m
  <2>1. k \in LinesOf(tx[m].rng)
    BY <1>1, <1>4, <1>6 DEF Grants, SameTx
  <2>2. snoop'[m][k].sent = Caches \ {m} /\ snoop'[m][k].back = {} /\ ~tx'[m].dirty
    BY <1>1, <1>2, <2>1
  <2>3. ~DirtySeen(m, k)'
    BY <2>2 DEF DirtySeen
  <2>4. QED
    BY <1>6, <2>2, <2>3 DEF GrantOk
<1>7. QED
  BY <1>5, <1>6

\* process() lists a transaction, or the bridge answers an Evict.
LEMMA GrantAccept ==
    ASSUME BaseInv, GrantInv, NEW m \in Masters, Accept(m), UNCHANGED cacheVars
    PROVE  (\A d \in Caches, k \in Lines : Degrades(d, k)) /\ GrantInv'
<1>1. /\ tx[m].phase = "req" /\ SameTx(tx'[m], tx[m])
      /\ IsSnoopingTransaction(tx[m].kind) => tx'[m].phase \in {"stalled", "engine"}
      /\ \A x \in Masters \ {m} : tx'[x] = tx[x]
      /\ UNCHANGED snoop
  BY AcceptParts
<1>2. tx'[m].kind = tx[m].kind /\ tx'[m].rng = tx[m].rng
  BY <1>1 DEF SameTx
<1>3. \A k \in Lines : ~Incoming(m, k) /\ ~Incoming(m, k)'
  BY <1>1, <1>2 DEF Incoming
<1>4. ASSUME NEW d \in Caches, NEW k \in Lines  PROVE Degrades(d, k)
  <2>1. d \in Masters /\ cacheline' = cacheline
    BY CachesAreMasters DEF cacheVars
  <2>2. CASE d = m
    BY <1>2, <1>3, <2>1, <2>2, ViewKept
  <2>3. CASE d # m
    BY <1>1, <2>1, <2>3, ViewKept
  <2>4. QED
    BY <2>2, <2>3
<1>5. ASSUME NEW x \in Masters, NEW k \in Lines, Grants(x, k)'
      PROVE  x # m
  <2>1. \A kind \in FillKinds \cup {"CleanUnique"} : IsSnoopingTransaction(kind)
    BY DEF FillKinds, IsSnoopingTransaction, CleanKinds
  <2>2. QED
    BY <1>1, <1>2, <1>5, <2>1 DEF Grants
<1>6. ASSUME NEW x \in Masters, NEW k \in Lines, Grants(x, k)'
      PROVE  /\ tx'[x].dirty => AllowPassDirty(tx'[x].kind)
             /\ \A d \in Caches \ {x} : GrantOk(x, k, d)'
  <2>1. tx'[x] = tx[x] /\ Grants(x, k)
    BY <1>1, <1>5, <1>6 DEF Grants
  <2>2. QED
    BY <1>1, <1>4, <2>1, OthersKept DEF SameAnswer
<1>7. QED
  BY <1>4, <1>6 DEF GrantInv

\* A transaction goes on to its next line, or downstream.
LEMMA GrantContinues ==
    ASSUME BaseInv, GrantInv, NEW m \in Masters, Continues(m), UNCHANGED cacheVars
    PROVE  (\A d \in Caches, k \in Lines : Degrades(d, k)) /\ GrantInv'
<1>1. /\ tx[m].phase = "snoop" /\ tx'[m].phase \in {"snoop", "ds"}
      /\ SameTx(tx'[m], tx[m]) /\ SameAnswer(tx'[m], tx[m])
      /\ \A x \in Masters \ {m} : tx'[x] = tx[x]
      /\ \A x \in Masters : SameSnoops(x)
  BY DEF Continues
<1>2. ASSUME NEW d \in Caches, NEW k \in Lines  PROVE Degrades(d, k)
  <2>1. d \in Masters /\ cacheline' = cacheline
    BY CachesAreMasters DEF cacheVars
  <2>2. CASE d = m
    BY <1>1, <2>1, <2>2, ViewKept DEF Incoming, SameTx
  <2>3. CASE d # m
    BY <1>1, <2>1, <2>3, ViewKept
  <2>4. QED
    BY <2>2, <2>3
<1>3. ASSUME NEW x \in Masters, NEW k \in Lines, Grants(x, k)'
      PROVE  /\ tx'[x].dirty => AllowPassDirty(tx'[x].kind)
             /\ \A d \in Caches \ {x} : GrantOk(x, k, d)'
  <2>1. tx'[x].kind = tx[x].kind /\ tx'[x].rng = tx[x].rng /\ SameAnswer(tx'[x], tx[x])
    BY <1>1 DEF SameTx, SameAnswer
  <2>2. Grants(x, k)
    BY <1>1, <1>3, <2>1 DEF Grants
  <2>3. QED
    BY <1>1, <1>2, <2>1, <2>2, OthersKept DEF SameSnoops
<1>4. QED
  BY <1>2, <1>3 DEF GrantInv

\* The transaction of m is done, and m will have the line it was granted.
LEMMA GrantEnds ==
    ASSUME BaseInv, OngoingDisjoint, CopiesInv, GrantInv, NEW m \in Masters,
           Ends(m), tx[m].phase # "engine", UNCHANGED cacheVars
    PROVE  CopiesInv' /\ GrantInv'
<1>1. /\ IcnTypeOK /\ tx[m].phase \in {"snoop", "ds"} /\ tx'[m].phase = "resp"
      /\ cacheline' = cacheline /\ Idle(m)
      /\ \A x \in Masters : SameTx(tx'[x], tx[x]) /\ SameAnswer(tx'[x], tx[x]) /\ SameSnoops(x)
      /\ \A x \in Masters \ {m} : \/ tx'[x].phase = tx[x].phase
                                  \/ tx[x].phase = "stalled" /\ tx'[x].phase = "engine"
  BY EndsParts DEF BaseInv, TypeOK, Ends, cacheVars
<1>2. \A x \in Masters :
         /\ tx'[x].kind = tx[x].kind /\ tx'[x].rng = tx[x].rng
         /\ tx'[x].shared = tx[x].shared /\ tx'[x].dirty = tx[x].dirty
  BY <1>1 DEF SameTx, SameAnswer
<1>3. ASSUME NEW c \in Caches, NEW l \in Lines
      PROVE  /\ get_line(c, l)' = get_line(c, l) /\ Copy(c, l)' = Copy(c, l)
             /\ c # m => Degrades(c, l)
  <2>1. c \in Masters /\ get_line(c, l)' = get_line(c, l)
    BY <1>1, CachesAreMasters DEF get_line
  <2>2. Copy(c, l)' = Copy(c, l)
    BY <1>2, <2>1 DEF Copy, in_cache, Holds
  <2>3. ASSUME c # m  PROVE Degrades(c, l)
    <3>1. /\ Incoming(c, l)' = Incoming(c, l) /\ Fills(c, l)' = Fills(c, l)
          /\ Upgrades(c, l)' = Upgrades(c, l)
      BY <1>1, <1>2, <2>1, <2>3 DEF Incoming, Fills, Upgrades
    <3>2. QED
      BY <1>2, <2>1, <2>2, <3>1 DEF Degrades, WillHave, WillBeUnique, WillBeDirty
  <2>4. QED
    BY <2>1, <2>2, <2>3
<1>4. ASSUME NEW l \in Lines, m \in Caches,
             ~(Incoming(m, l)' /\ tx[m].kind \in FillKinds \cup {"CleanUnique"})
      PROVE  Degrades(m, l)
  <2>1. ~Fills(m, l)' /\ ~Upgrades(m, l)'
    BY <1>2, <1>4 DEF Fills, Upgrades
  <2>2. QED
    BY <1>3, <1>4, <2>1 DEF Degrades, WillHave, WillBeUnique, WillBeDirty
\* Another cache against m, which gets the line.
<1>5. ASSUME NEW l \in Lines, NEW d \in Caches \ {m}, m \in Caches,
             Incoming(m, l)', tx[m].kind \in FillKinds \cup {"CleanUnique"}
      PROVE  /\ WillBeUnique(m, l)' => ~WillHave(d, l)
             /\ ~WillBeUnique(d, l)
             /\ WillBeDirty(m, l)' => ~WillBeDirty(d, l)
  <2>1. Grants(m, l)
    <3>1. l \in LinesOf(tx[m].rng)
      BY <1>2, <1>5, LineAddrFacts DEF Incoming
    <3>2. QED
      BY <1>1, <1>5, <3>1 DEF Grants
  <2>2. snoop[m][l].sent = {} /\ snoop[m][l].back = {}
    BY <1>1 DEF Idle
  <2>3. GrantOk(m, l, d) /\ (tx[m].dirty => AllowPassDirty(tx[m].kind))
    BY <2>1 DEF GrantInv
  <2>4. SharedSeen(m, l) <=> tx[m].shared
    BY <2>2 DEF SharedSeen
  <2>5. tx[m].dirty => DirtySeen(m, l)
    BY <2>3 DEF DirtySeen
  <2>6. WillHave(d, l) => /\ tx[m].kind \notin {"ReadUnique", "MakeUnique", "CleanUnique"}
                          /\ ~WillBeUnique(d, l) /\ tx[m].shared
                          /\ tx[m].dirty => ~WillBeDirty(d, l)
    BY <2>2, <2>3, <2>4, <2>5 DEF GrantOk
  <2>7. /\ Copy(m, l) /\ ~get_line(m, l).shared => ~WillHave(d, l)
        /\ Copy(m, l) /\ get_line(m, l).dirty => ~WillBeDirty(d, l)
    BY <1>5 DEF CopiesInv, WillBeUnique, WillBeDirty
  <2>8. WillHave(d, l) => ~WillBeUnique(m, l)'
    BY <1>2, <1>3, <1>5, <2>6, <2>7 DEF WillBeUnique, Upgrades
  <2>9. WillBeDirty(d, l) => ~WillBeDirty(m, l)'
    BY <1>2, <1>3, <1>5, <2>6, <2>7, WillParts DEF WillBeDirty
  <2>10. QED
    BY <2>6, <2>8, <2>9, WillParts
<1>6. CopiesInv'
  <2>1. SUFFICES ASSUME NEW c \in Caches, NEW d \in Caches, NEW l \in Lines, c # d
                 PROVE  /\ WillBeUnique(c, l)' => ~WillHave(d, l)'
                        /\ WillBeDirty(c, l)' => ~WillBeDirty(d, l)'
    BY DEF CopiesInv
  <2>2. /\ WillBeUnique(c, l) => ~WillHave(d, l)
        /\ WillBeUnique(d, l) => ~WillHave(c, l)
        /\ WillBeDirty(c, l) => ~WillBeDirty(d, l)
    BY <2>1 DEF CopiesInv
  <2>3. CASE Degrades(c, l) /\ Degrades(d, l)
    BY <2>2, <2>3, WillParts DEF Degrades
  <2>4. CASE ~(Degrades(c, l) /\ Degrades(d, l))
    <3>1. /\ m \in {c, d} /\ m \in Caches /\ Incoming(m, l)'
          /\ tx[m].kind \in FillKinds \cup {"CleanUnique"}
      BY <1>3, <1>4, <2>4
    <3>2. CASE c = m
      <4>1. /\ WillBeUnique(m, l)' => ~WillHave(d, l)
            /\ ~WillBeUnique(d, l)
            /\ WillBeDirty(m, l)' => ~WillBeDirty(d, l)
        BY <1>5, <2>1, <3>1, <3>2
      <4>2. Degrades(d, l)
        BY <1>3, <2>1, <3>2
      <4>3. QED
        BY <3>2, <4>1, <4>2 DEF Degrades
    <3>3. CASE d = m
      <4>1. /\ ~WillBeUnique(c, l)
            /\ WillBeDirty(m, l)' => ~WillBeDirty(c, l)
        BY <1>5, <2>1, <3>1, <3>3
      <4>2. Degrades(c, l)
        BY <1>3, <2>1, <3>3
      <4>3. QED
        BY <3>3, <4>1, <4>2 DEF Degrades
    <3>4. QED
      BY <3>1, <3>2, <3>3
  <2>5. QED
    BY <2>3, <2>4
\* A transaction that overlaps that of m was stalled all the time.
<1>7. ASSUME NEW x \in Masters, NEW l \in Lines, Grants(x, l)'
      PROVE  /\ tx'[x].dirty => AllowPassDirty(tx'[x].kind)
             /\ \A d \in Caches \ {x} : GrantOk(x, l, d)'
  <2>1. x # m /\ Grants(x, l)
    BY <1>1, <1>2, <1>7 DEF Grants
  <2>2. ASSUME m \in Caches  PROVE Degrades(m, l)
    <3>1. SUFFICES ASSUME Incoming(m, l)'  PROVE FALSE
      BY <1>4, <2>2
    <3>2. /\ IsSnoopingTransaction(tx[m].kind) /\ tx[m].rng = LineAddr(l)
          /\ IsSnoopingTransaction(tx[x].kind) /\ l \in LinesOf(tx[x].rng)
          /\ x \in Ongoing /\ m \in Ongoing
      BY <1>1, <1>2, <2>1, <3>1
         DEF Incoming, Grants, Ongoing, FillKinds, IsSnoopingTransaction, CleanKinds
    <3>3. Overlapping(x, m)
      BY <1>1, <3>2, LineMeets
    <3>4. QED
      BY <2>1, <3>2, <3>3 DEF OngoingDisjoint
  <2>3. \A d \in Caches : Degrades(d, l)
    BY <1>3, <2>2
  <2>4. QED
    BY <1>1, <1>2, <2>1, <2>3, OthersKept DEF SameSnoops
<1>8. QED
  BY <1>6, <1>7 DEF GrantInv

LEMMA CoherenceStep ==
    ASSUME BaseInv, OngoingDisjoint, OverlapInv, ExclusiveInv, CopiesInv, GrantInv, [Next]_vars
    PROVE  CopiesInv' /\ GrantInv'
<1>1. IcnTypeOK /\ CacheTypeOK
  BY DEF BaseInv, TypeOK
\* One master takes its turn, and nothing else moves.
<1>2. ASSUME NEW m \in Masters, tx'[m].phase \in {"idle", "req"},
             \A x \in Masters \ {m} : tx'[x] = tx[x], UNCHANGED snoop,
             \A c \in Caches, l \in Lines : Degrades(c, l)
      PROVE  CopiesInv' /\ GrantInv'
  <2>1. ASSUME NEW x \in Masters, NEW l \in Lines, Grants(x, l)'
        PROVE  /\ tx'[x].dirty => AllowPassDirty(tx'[x].kind)
               /\ \A d \in Caches \ {x} : GrantOk(x, l, d)'
    <3>1. tx'[x] = tx[x] /\ Grants(x, l)
      BY <1>2, <2>1 DEF Grants
    <3>2. QED
      BY <1>2, <3>1, OthersKept DEF SameAnswer
  <2>2. QED
    BY <1>2, <2>1, CopiesDegrade DEF GrantInv
<1>3. ASSUME NEW c \in Caches, NEW o, NEW r, CacheTurns(c, o, r)
      PROVE  CopiesInv' /\ GrantInv'
  <2>1. PICK t : t = NextTx(o, r)
    OBVIOUS
  <2>2. /\ tx'[c] = t /\ t.phase \in {"idle", "req"} /\ UNCHANGED snoop
        /\ \A x \in Masters \ {c} : tx'[x] = tx[x]
        /\ c \in Masters
    BY <1>1, <1>3, <2>1, CachesAreMasters DEF CacheTurns, IcnTypeOK
  <2>3. ASSUME NEW d \in Caches, NEW l \in Lines  PROVE Degrades(d, l)
    <3>1. CASE d = c
      BY <1>3, <3>1, CacheTurnDegrades
    <3>2. CASE d # c
      <4>1. cacheline'[d] = cacheline[d] /\ tx'[d] = tx[d]
        BY <1>1, <1>3, <2>2, <3>2, CachesAreMasters DEF CacheTurns, CacheStep, CacheTypeOK
      <4>2. QED
        BY <4>1, ViewKept
    <3>3. QED
      BY <3>1, <3>2
  <2>4. QED
    BY <1>2, <2>2, <2>3
<1>4. ASSUME NEW m \in Masters \ Caches, LiteTurns(m)
      PROVE  CopiesInv' /\ GrantInv'
  <2>1. PICK t : t.phase \in {"idle", "req"} /\ ~t.excl /\ tx' = [tx EXCEPT ![m] = t]
    BY <1>4 DEF LiteTurns
  <2>2. /\ tx'[m] = t /\ \A x \in Masters \ {m} : tx'[x] = tx[x]
        /\ UNCHANGED <<snoop, cacheline>>
    BY <1>1, <1>4, <2>1 DEF LiteTurns, IcnTypeOK
  <2>3. \A d \in Caches, l \in Lines : Degrades(d, l)
    BY <2>2, CachesAreMasters, ViewKept
  <2>4. QED
    BY <1>2, <2>1, <2>2, <2>3
<1>5. ASSUME NEW m \in Masters, EngineSnoop(m), UNCHANGED cacheVars
      PROVE  CopiesInv' /\ GrantInv'
  BY <1>5, GrantEngine, CopiesDegrade
<1>6. ASSUME NEW m \in Masters, NEW l \in Lines, NEW c \in Caches, SnoopMaster(m, l, c)
      PROVE  CopiesInv' /\ GrantInv'
  BY <1>6, GrantSnoop, SnoopDegrades, CopiesDegrade
<1>7. ASSUME NEW m \in Masters, Accept(m) \/ Continues(m), UNCHANGED cacheVars
      PROVE  CopiesInv' /\ GrantInv'
  BY <1>7, GrantAccept, GrantContinues, CopiesDegrade
<1>8. ASSUME NEW m \in Masters, Ends(m), tx[m].phase # "engine", UNCHANGED cacheVars
      PROVE  CopiesInv' /\ GrantInv'
  BY <1>8, GrantEnds
<1>9. ASSUME NEW m \in Masters, NEW l \in Lines, NEW c \in Caches, PortDone(m, l, c),
             UNCHANGED cacheVars
      PROVE  CopiesInv' /\ GrantInv'
  BY <1>9, GrantPortDone, CopiesDegrade
<1>10. ASSUME UNCHANGED cacheVars, UNCHANGED <<tx, snoop, overlap>>
       PROVE  CopiesInv' /\ GrantInv'
  <2>1. \A c \in Caches, l \in Lines : Degrades(c, l)
    BY <1>10, ViewKept DEF cacheVars
  <2>2. \A x \in Masters, l \in Lines : Grants(x, l)' => Grants(x, l)
    BY <1>10 DEF Grants
  <2>3. QED
    BY <1>10, <2>1, <2>2, CopiesDegrade, OthersKept DEF GrantInv, SameAnswer
<1>11. CASE UNCHANGED vars
  BY <1>10, <1>11 DEF vars, icnVars
<1>12. QED
  BY <1>3, <1>4, <1>5, <1>6, <1>7, <1>8, <1>9, <1>10, <1>11, NextKinds, NoEngineFail

LEMMA CoherenceInit == Init => CopiesInv /\ GrantInv
<1>1. SUFFICES ASSUME Init  PROVE CopiesInv /\ GrantInv
  OBVIOUS
<1>2. \A m \in Masters : tx[m].phase = "idle"
  BY <1>1 DEF Init, IcnInit, NoTx
<1>3. \A c \in Caches, l \in Lines : ~in_cache(c, l)
  <2>1. /\ \A l \in Lines : Index[l] \in Slots
        /\ \A c \in Caches, i \in Slots : ~cacheline[c][i].valid
    BY <1>1 DEF Slots, Init, CacheInit
  <2>2. QED
    BY <2>1 DEF in_cache, Holds, get_line
<1>4. \A c \in Caches, l \in Lines : ~WillHave(c, l)
  BY <1>2, <1>3, CachesAreMasters DEF WillHave, Fills, Incoming, Copy
<1>5. CopiesInv
  BY <1>4, WillParts DEF CopiesInv
<1>6. GrantInv
  BY <1>2 DEF GrantInv, Grants
<1>7. QED
  BY <1>5, <1>6

\* The coherence that snoops and responses keep between them: what one cache
\* will have once its response has arrived excludes what another one will have,
\* and so does what a transaction is going to grant.  It needs that exclusive
\* accesses are used by one cache at most: handle_load_store takes a failed
\* exclusive CleanUnique for one that went through.
THEOREM SpecCoherence ==
    ASSUME OneExclusiveUser
    PROVE  Spec => [](CopiesInv /\ GrantInv)
<1>1. Init => ExclusiveInv /\ CopiesInv /\ GrantInv
  BY ExclusiveInit, CoherenceInit
<1>2. /\ BaseInv /\ OngoingDisjoint /\ OverlapInv /\ LockHasOwner
      /\ ExclusiveInv /\ CopiesInv /\ GrantInv /\ [Next]_vars
      => ExclusiveInv' /\ CopiesInv' /\ GrantInv'
  BY OneExclusiveUser, ExclusiveStep, CoherenceStep
<1>3. QED
  BY <1>1, <1>2, SpecBase, SpecOngoingDisjoint, SpecOverlap, SpecLockHasOwner, PTL DEF Spec

\* A copy of a line that is not marked shared is the only one there is, so that
\* is_unique lets handle_store write it in place, at any moment of any number
\* of transactions, snoops and responses.
THEOREM SpecUniqueIsAlone ==
    ASSUME OneExclusiveUser
    PROVE  Spec => []UniqueIsAlone
<1>1. CopiesInv /\ GrantInv => UniqueIsAlone
  BY DEF CopiesInv, UniqueIsAlone, WillBeUnique, WillHave, Copy, HasCopy
<1>2. QED
  BY <1>1, SpecCoherence, PTL

\* The duty of writing a line back lies with one cache at most: the snoop
\* handlers pass it on or keep it, and a response that takes it over finds no
\* other cache with it.
THEOREM SpecOneOwner ==
    ASSUME OneExclusiveUser
    PROVE  Spec => []OneOwner
<1>1. CopiesInv /\ GrantInv => OneOwner
  BY DEF CopiesInv, OneOwner, WillBeDirty, Copy, HasCopy
<1>2. QED
  BY <1>1, SpecCoherence, PTL

-----------------------------------------------------------------------------
(***************************************************************************)
(* The checkers on the ports.  They follow the responses and the snoops    *)
(* and so know which lines a cache holds; a cache asks for what fits the   *)
(* domain of its access and the line in the slot, and no response or       *)
(* answer to a snoop carries more than its transaction allows.             *)
(***************************************************************************)
\* Maintenance after which the checker takes the line to be gone.
DropKinds == {"CleanInvalid", "MakeInvalid"}

\* The transaction req, and the one that is to follow it, fit the access o and
\* the line ln in its slot.
Suits(o, ln, req, next) ==
    /\ req \in FillKinds \cup UniqueWriteKinds \cup {"CleanUnique"} => LineOf(o) \notin NonShareable
    /\ next \in FillKinds => LineOf(o) \notin NonShareable
    /\ req = "Evict" /\ next = "none" => LineOf(o) \notin NonShareable
    /\ req \in NoSnoopKinds => LineOf(o) \in NonShareable
    /\ req = "WriteLineUnique" => FullLine(o)
    /\ req \in FillKinds => ~ln.valid
    /\ req \in DropKinds => ~Holds(ln, LineOf(o))
    /\ next \in DropKinds => req = "Evict"

\* The transactions whose response may be marked shared, and those, and the
\* snoops, that may bring dirty data.
SharingKinds == (ReadKinds \ {"ReadUnique"}) \cup {"CleanShared"}
PassingKinds == {"ReadShared", "ReadUnique"}
PassingSnoops == PassingKinds \cup {"CleanInvalid", "CleanShared"}

\* No more is granted than the transaction t allows.
Modest(t) ==
    /\ t.excl => t.kind \in {"ReadShared", "ReadClean", "CleanUnique"}
    /\ t.shared => t.kind \in SharingKinds
    /\ t.dirty => t.kind \in PassingKinds

ModestAnswer(kind, a) ==
    /\ a.shared => SnoopOf(kind) \in SharingKinds
    /\ a.dirty => SnoopOf(kind) \in PassingSnoops

Tracked(c) == allocated[c] = {l \in Lines : in_cache(c, l)}

CheckedCache(c) ==
    /\ Tracked(c)
    /\ \A i \in Slots : cacheline[c][i].valid => cacheline[c][i].tag \notin NonShareable
    /\ op[c] # NoOp => Suits(op[c], LineIn(c), tx[c].kind, want[c])

CheckedTx(m) ==
    /\ Modest(tx[m])
    /\ \A l \in Lines : \A e \in snoop[m][l].back : ModestAnswer(tx[m].kind, snoop[m][l].ans[e])

CheckerInv ==
    /\ alarms = {}
    /\ \A c \in Caches : CheckedCache(c)
    /\ \A m \in Masters : CheckedTx(m)

\* An outcome asks for what suits the access.
Fit(o, r) == Suits(o, r.ln, r.req, r.want)

LEMMA IssueFit ==
    ASSUME NEW o, NEW ln, NEW tog, NEW mon, NEW req, NEW next, Suits(o, ln, req, next)
    PROVE  Fit(o, Issue(ln, tog, mon, req, next))
  BY DEF Fit, Issue

LEMMA FinishFit ==
    ASSUME NEW o, NEW ln, NEW tog, NEW mon, NEW ok
    PROVE  Fit(o, Finish(ln, tog, mon, ok))
<1>1. "none" \notin FillKinds \cup UniqueWriteKinds \cup NoSnoopKinds \cup DropKinds
  BY DEF FillKinds, ReadKinds, UniqueWriteKinds, NoSnoopKinds, DropKinds
<1>2. Suits(o, ln, "none", "none")
  BY <1>1 DEF Suits
<1>3. QED
  BY <1>2 DEF Fit, Finish

\* How the kinds that an access is told by lie in the classes.
LEMMA SuitsKinds ==
    /\ \A k \in FillKinds : k \notin NoSnoopKinds \cup DropKinds
                              \cup {"WriteLineUnique", "Evict", "none"}
    /\ \A k \in CopyBackKinds : k \notin FillKinds \cup UniqueWriteKinds \cup NoSnoopKinds
                              \cup DropKinds \cup {"CleanUnique"}
    /\ CmoKinds = DropKinds \cup {"CleanShared"}
    /\ \A k \in CmoKinds : k \notin FillKinds \cup UniqueWriteKinds \cup NoSnoopKinds
                              \cup {"CleanUnique", "Evict", "none"}
    /\ \A k \in NoSnoopKinds : k \notin FillKinds \cup UniqueWriteKinds \cup DropKinds
                              \cup {"CleanUnique", "Evict"}
    /\ \A k \in UniqueWriteKinds \cup {"CleanUnique"} :
          k \notin FillKinds \cup NoSnoopKinds \cup DropKinds \cup {"Evict"}
    /\ "none" \notin FillKinds \cup DropKinds
  BY DEF FillKinds, ReadKinds, UniqueWriteKinds, NoSnoopKinds, DropKinds, CopyBackKinds, CmoKinds

LEMMA FetchFit ==
    ASSUME NEW o, LineOf(o) \notin NonShareable, NEW ln \in CacheLine, NEW tog, NEW mon,
           NEW kind \in FillKinds
    PROVE  Fit(o, Fetch(ln, tog, mon, kind))
<1>1. CASE ~ln.valid
  <2>1. Suits(o, ln, kind, "none")
    BY <1>1, SuitsKinds DEF Suits
  <2>2. Fetch(ln, tog, mon, kind) = Issue(ln, tog, mon, kind, "none")
    BY <1>1 DEF Fetch
  <2>3. QED
    BY <2>1, <2>2, IssueFit
<1>2. ASSUME NEW x, NEW req \in CopyBackKinds
      PROVE  Fit(o, Issue(ln, x, mon, req, kind))
  <2>1. Suits(o, ln, req, kind)
    BY SuitsKinds DEF Suits, CopyBackKinds, UniqueWriteKinds
  <2>2. QED
    BY <2>1, IssueFit
<1>3. CASE ln.valid /\ ~ln.dirty
  <2>1. Fetch(ln, tog, mon, kind) = Issue(ln, tog, mon, "Evict", kind)
    BY <1>3 DEF Fetch
  <2>2. QED
    BY <1>2, <2>1 DEF CopyBackKinds
<1>4. CASE ln.valid /\ ln.dirty /\ ~tog
  <2>1. Fetch(ln, tog, mon, kind) = Issue(ln, ~tog, mon, "WriteClean", kind)
    BY <1>4 DEF Fetch
  <2>2. QED
    BY <1>2, <2>1 DEF CopyBackKinds
<1>5. CASE ln.valid /\ ln.dirty /\ tog
  <2>1. Fetch(ln, tog, mon, kind) = Issue(ln, ~tog, mon, "WriteBack", kind)
    BY <1>5 DEF Fetch
  <2>2. QED
    BY <1>2, <2>1 DEF CopyBackKinds
<1>6. QED
  BY <1>1, <1>3, <1>4, <1>5 DEF CacheLine

\* A shareable line is loaded and stored to by shareable transactions.
LEMMA AccessFit ==
    ASSUME NEW c, NEW o, LineOf(o) \notin NonShareable, NEW ln \in CacheLine, NEW tog, NEW mon
    PROVE  Fit(o, handle_access(c, o, ln, tog, mon))
<1>1. {"ReadShared", "ReadNotSharedDirty", "ReadClean", "ReadUnique", "MakeUnique"}
         \subseteq FillKinds
  BY DEF FillKinds, ReadKinds
<1>2. ASSUME NEW req \in {"CleanUnique", "WriteUnique", "WriteLineUnique"},
             req = "WriteLineUnique" => FullLine(o)
      PROVE  Fit(o, Issue(ln, tog, mon, req, "none"))
  <2>1. req \notin FillKinds \cup NoSnoopKinds \cup DropKinds
    BY SuitsKinds DEF UniqueWriteKinds
  <2>2. Suits(o, ln, req, "none")
    BY <1>2, <2>1, SuitsKinds DEF Suits
  <2>3. QED
    BY <2>2, IssueFit
<1>3. ASSUME NEW x, NEW y, NEW z, NEW ok  PROVE Fit(o, Finish(x, y, z, ok))
  BY FinishFit
<1>4. ASSUME NEW x, NEW kind \in FillKinds  PROVE Fit(o, Fetch(ln, x, mon, kind))
  BY FetchFit
<1>5. Fit(o, WB_handle_load(o, ln, tog, mon))
  BY <1>1, <1>3, <1>4 DEF WB_handle_load
<1>6. Fit(o, WT_handle_load(o, ln, tog, mon))
  BY <1>1, <1>3, <1>4 DEF WT_handle_load
<1>7. Fit(o, WB_handle_store(o, ln, tog, mon))
  BY <1>1, <1>2, <1>3, <1>4 DEF WB_handle_store
<1>8. Fit(o, WT_handle_store(o, ln, tog, mon))
  BY <1>2 DEF WT_handle_store
<1>9. QED
  BY <1>5, <1>6, <1>7, <1>8 DEF handle_access

\* Maintenance drops a line that is held before it asks for it to be dropped.
LEMMA TransportFit ==
    ASSUME NEW c \in Caches, NEW o, get_line(c, LineOf(o)) \in CacheLine
    PROVE  Fit(o, b_transport(c, o))
<1> DEFINE ln == get_line(c, LineOf(o))
           tog == toggle[c]
           mon == monitor[c]
<1>0. ln \in CacheLine
  OBVIOUS
<1>1. b_transport(c, o) = IF o.kind \in CmoKinds THEN do_cache_maintenance(o, ln, tog, mon)
                          ELSE IF LineOf(o) \in NonShareable THEN no_snoop(o, ln, tog, mon)
                          ELSE handle_access(c, o, ln, tog, mon)
  BY DEF b_transport
<1> HIDE DEF ln, tog, mon
<1>2. ASSUME o.kind \in CmoKinds
      PROVE  Fit(o, do_cache_maintenance(o, ln, tog, mon))
  <2>1. CASE Holds(ln, LineOf(o)) /\ o.kind = "CleanShared" /\ ln.dirty
    <3>1. do_cache_maintenance(o, ln, tog, mon) = Issue(ln, tog, mon, "WriteClean", o.kind)
      BY <2>1 DEF do_cache_maintenance
    <3>2. Suits(o, ln, "WriteClean", o.kind)
      BY <1>2, <2>1, SuitsKinds DEF Suits, CopyBackKinds, DropKinds
    <3>3. QED
      BY <3>1, <3>2, IssueFit
  <2>2. CASE Holds(ln, LineOf(o)) /\ o.kind # "CleanShared"
    <3>1. do_cache_maintenance(o, ln, tog, mon) = Issue(ln, tog, mon, "Evict", o.kind)
      BY <2>2 DEF do_cache_maintenance
    <3>2. Suits(o, ln, "Evict", o.kind)
      BY <1>2, SuitsKinds DEF Suits, CopyBackKinds
    <3>3. QED
      BY <3>1, <3>2, IssueFit
  <2>3. CASE ~(Holds(ln, LineOf(o)) /\ (o.kind = "CleanShared" => ln.dirty))
    <3>1. do_cache_maintenance(o, ln, tog, mon) = Issue(ln, tog, mon, o.kind, "none")
      BY <2>3 DEF do_cache_maintenance
    <3>2. o.kind \in DropKinds => ~Holds(ln, LineOf(o))
      BY <2>3 DEF DropKinds
    <3>3. o.kind # "WriteLineUnique"
      BY <1>2 DEF CmoKinds
    <3>4. Suits(o, ln, o.kind, "none")
      BY <1>2, <3>2, <3>3, SuitsKinds DEF Suits
    <3>5. QED
      BY <3>1, <3>4, IssueFit
  <2>4. QED
    BY <2>1, <2>2, <2>3
<1>3. ASSUME LineOf(o) \in NonShareable
      PROVE  Fit(o, no_snoop(o, ln, tog, mon))
  <2>1. PICK req \in NoSnoopKinds : no_snoop(o, ln, tog, mon) = Issue(ln, tog, mon, req, "none")
    BY DEF no_snoop, NoSnoopKinds
  <2>2. req # "WriteLineUnique"
    BY DEF NoSnoopKinds
  <2>3. Suits(o, ln, req, "none")
    BY <1>3, <2>2, SuitsKinds DEF Suits
  <2>4. QED
    BY <2>1, <2>3, IssueFit
<1>4. LineOf(o) \notin NonShareable => Fit(o, handle_access(c, o, ln, tog, mon))
  BY <1>0, AccessFit
<1>5. QED
  BY <1>1, <1>2, <1>3, <1>4

\* A response lets the access go on with what suits it and the line then.
LEMMA ResponseFit ==
    ASSUME NEW c \in Caches, NEW t, NEW ln \in CacheLine,
           ln = get_line(c, LineOf(op[c])), op[c] \in Op, want[c] \in WantKinds,
           t.kind \in TxKinds, t.kind # "ReadOnce",
           t.kind \in {"WriteBack", "WriteClean"} => want[c] # "none",
           t.shared \in BOOLEAN, t.dirty \in BOOLEAN,
           t.kind \in FillKinds => ToLine(t.data, LineOf(op[c])) \in LineData,
           Suits(op[c], ln, t.kind, want[c])
    PROVE  Fit(op[c], Response(c, t))
<1> DEFINE o == op[c]
           w == want[c]
           tog == toggle[c]
           mon == monitor[c]
           gone == [ln EXCEPT !.valid = FALSE]
           mine == [ln EXCEPT !.shared = FALSE]
           cleaned == [ln EXCEPT !.dirty = FALSE]
           here == [ln EXCEPT !.valid = TRUE]
<1>0. /\ gone \in CacheLine /\ mine \in CacheLine /\ ~gone.valid /\ w \in WantKinds
      /\ LineOf(o) \in Lines
  BY AccessFacts DEF CacheLine
<1>1. ASSUME NEW x, NEW y, NEW z, NEW ok  PROVE Fit(o, Finish(x, y, z, ok))
  BY FinishFit
<1>2. ASSUME NEW x \in CacheLine, NEW z, LineOf(o) \notin NonShareable
      PROVE  Fit(o, handle_access(c, o, x, tog, z))
  BY <1>2, AccessFit
<1>3. CASE t.kind = "WriteClean"
  <2>1. Response(c, t) = WriteCleanResponse(c, ln)
    BY <1>3, KindClasses DEF Response
  <2>2. CASE w \in CmoKinds
    <3>1. w = "CleanShared"
      BY <1>3, <2>2, SuitsKinds DEF Suits
    <3>2. Suits(o, cleaned, w, "none")
      BY <2>2, <3>1, SuitsKinds DEF Suits, DropKinds
    <3>3. WriteCleanResponse(c, ln) = Issue(cleaned, tog, mon, w, "none")
      BY <2>2 DEF WriteCleanResponse
    <3>4. QED
      BY <2>1, <3>2, <3>3, IssueFit
  <2>3. CASE w \notin CmoKinds
    <3>1. w \in FillKinds /\ LineOf(o) \notin NonShareable
      BY <1>0, <1>3, <2>3 DEF WantKinds, Suits
    <3>2. Suits(o, cleaned, "Evict", w)
      BY <3>1, SuitsKinds DEF Suits, CopyBackKinds
    <3>3. WriteCleanResponse(c, ln) = Issue(cleaned, tog, mon, "Evict", w)
      BY <2>3 DEF WriteCleanResponse
    <3>4. QED
      BY <2>1, <3>2, <3>3, IssueFit
  <2>4. QED
    BY <2>2, <2>3
<1>4. ASSUME t.kind \in {"WriteBack", "Evict"}, w # "none"
      PROVE  Fit(o, Issue(gone, tog, mon, w, "none"))
  <2>1. w \in FillKinds \cup CmoKinds
    BY <1>0, <1>4 DEF WantKinds
  <2>2. w \in FillKinds => LineOf(o) \notin NonShareable
    BY DEF Suits
  <2>3. /\ w \notin UniqueWriteKinds \cup NoSnoopKinds \cup {"CleanUnique", "Evict", "WriteLineUnique"}
        /\ "none" \notin FillKinds \cup DropKinds
    BY <2>1, SuitsKinds, KindClasses DEF CopyBackKinds, CmoKinds
  <2>4. Suits(o, gone, w, "none")
    BY <1>0, <2>2, <2>3 DEF Suits, Holds
  <2> HIDE DEF w, gone, tog, mon, o
  <2>5. QED
    BY <2>4, IssueFit
<1>5. CASE t.kind = "WriteBack"
  <2>1. Response(c, t) = WriteBackResponse(c, ln)
    BY <1>5, KindClasses DEF Response
  <2>2. QED
    BY <1>4, <1>5, <2>1 DEF WriteBackResponse
<1>6. CASE t.kind = "Evict"
  <2>1. Response(c, t) = EvictResponse(c, ln)
    BY <1>6, KindClasses DEF Response
  <2>2. w = "none" => LineOf(o) \notin NonShareable
    BY <1>6 DEF Suits
  <2>3. QED
    BY <1>0, <1>1, <1>2, <1>4, <1>6, <2>1, <2>2 DEF EvictResponse
<1>7. CASE t.kind = "CleanUnique"
  <2>1. Response(c, t) = CleanUniqueResponse(c, t, ln)
    BY <1>7, KindClasses DEF Response
  <2>2. LineOf(o) \notin NonShareable
    BY <1>7 DEF Suits
  <2>3. Suits(o, here, "Evict", "none")
    BY <2>2, SuitsKinds DEF Suits, CopyBackKinds
  <2>4. Fit(o, Issue(here, tog, mon, "Evict", "none"))
    BY <2>3, IssueFit
  <2>5. QED
    BY <1>0, <1>1, <1>2, <2>1, <2>2, <2>4 DEF CleanUniqueResponse
<1>8. CASE t.kind \in UniqueWriteKinds \cup CmoKinds \cup NoSnoopKinds
  <2>1. \E new : Response(c, t) = Finish(new, tog, mon, FALSE)
    BY <1>8, KindClasses DEF Response, WriteUniqueResponse
  <2>2. QED
    BY <1>1, <2>1
<1>9. CASE t.kind \in FillKinds
  <2> DEFINE l == LineOf(o)
             new == install(ln, l, t)
             arm == IF o.kind = "LoadEx" THEN monitor[c] \cup {StartAddr(o)} ELSE monitor[c]
             r == handle_access(c, o, new, tog, arm)
             ok == r.ok /\ (o.kind = "LoadEx" => t.exokay)
  <2>1. Response(c, t) = [r EXCEPT !.ok = ok]
    BY <1>9, KindClasses DEF Response
  <2>2. new \in CacheLine
    <3>1. CASE t.kind = "MakeUnique"
      BY <1>0, <3>1 DEF install, make_unique, CacheLine
    <3>2. CASE t.kind # "MakeUnique"
      <4> DEFINE d == t.kind # "ReadClean" /\ t.dirty
                 ld == ToLine(t.data, l)
      <4>1. d \in BOOLEAN /\ ld \in LineData
        BY <1>9
      <4>2. new = [ln EXCEPT !.valid = TRUE, !.tag = l, !.shared = t.shared,
                             !.dirty = d, !.data = ld]
        BY <3>2 DEF install, read_fill
      <4> HIDE DEF d, l, ld, new
      <4>3. QED
        BY <1>0, <4>1, <4>2 DEF CacheLine, l
    <3>3. QED
      BY <3>1, <3>2
  <2>3. LineOf(o) \notin NonShareable
    BY <1>9 DEF Suits
  <2> HIDE DEF arm, new
  <2>4. Fit(o, r)
    BY <1>2, <2>2, <2>3
  <2> HIDE DEF r, ok
  <2>5. /\ Response(c, t).ln = r.ln /\ Response(c, t).req = r.req
        /\ Response(c, t).want = r.want
    BY <2>1
  <2>6. QED
    BY <2>4, <2>5 DEF Fit
<1>10. QED
  BY <1>3, <1>5, <1>6, <1>7, <1>8, <1>9, KindClasses

-----------------------------------------------------------------------------
(***************************************************************************)
(* Requests and responses.                                                 *)
(***************************************************************************)
\* An access of a cache touches one line.
LEMMA RangeLine ==
    ASSUME NEW o \in Op, o.rng \subseteq LineAddr(LineOf(o))
    PROVE  LinesOf(o.rng) = {LineOf(o)}
<1>1. o.rng # {} /\ \A a \in o.rng : a[1] = LineOf(o)
  BY AccessFacts DEF LineAddr
<1>2. QED
  BY <1>1 DEF LinesOf

\* A new transaction carries no answer.
LEMMA NextTxModest ==
    ASSUME NEW o \in Op, NEW r \in Result
    PROVE  Modest(NextTx(o, r))
<1> DEFINE rng == PayloadRange(o, r)
           d == PayloadData(o, r)
           e == Exclusive(o, r)
<1>1. CASE r.req = "none"
  BY <1>1 DEF NextTx, NoTx, Modest
<1>2. CASE r.req # "none"
  <2>1. NextTx(o, r) = NewTx(r.req, rng, d, e)
    BY <1>2 DEF NextTx
  <2>2. e => r.req \in {"ReadShared", "ReadClean", "CleanUnique"}
    BY DEF Exclusive
  <2> HIDE DEF rng, d, e
  <2>3. /\ NextTx(o, r).excl = e /\ NextTx(o, r).kind = r.req
        /\ NextTx(o, r).shared = FALSE /\ NextTx(o, r).dirty = FALSE
    BY <2>1 DEF NewTx, NoTx
  <2>4. QED
    BY <2>2, <2>3 DEF Modest
<1>3. QED
  BY <1>1, <1>2

\* The transactions of a cache pass the checks of AR and AW.
LEMMA RequestChecked ==
    ASSUME NEW c \in Caches, NEW o \in Op, o.rng \subseteq LineAddr(LineOf(o)),
           NEW r \in Result, r.req # "none", r.req # "ReadOnce", Fit(o, r),
           r.req \in CopyBackKinds => r.ln.tag \notin NonShareable
    PROVE  CheckRequest(c, NextTx(o, r))
<1> DEFINE t == NextTx(o, r)
<1>1. t.kind = r.req /\ t.rng = PayloadRange(o, r) /\ r.req \in TxKinds /\ Modest(t)
  BY NextTxParts, NextTxModest DEF Result
<1>2. r.ln.tag \in Lines /\ LineOf(o) \in Lines /\ c \notin LiteMasters
  BY AccessFacts, ProtocolAssumption DEF Result, CacheLine
<1>3. /\ r.req \in CopyBackKinds => t.rng = LineAddr(r.ln.tag)
      /\ r.req \in UniqueWriteKinds \cup NoSnoopKinds => t.rng = o.rng
      /\ r.req \notin CopyBackKinds \cup UniqueWriteKinds \cup NoSnoopKinds =>
            t.rng = LineAddr(LineOf(o))
  BY <1>1, KindClasses DEF PayloadRange
<1>4. LinesOf(t.rng) = {IF r.req \in CopyBackKinds THEN r.ln.tag ELSE LineOf(o)}
  BY <1>2, <1>3, LineAddrFacts, RangeLine
<1> HIDE DEF t
<1>5. /\ r.req \in CopyBackKinds \cup UniqueWriteKinds \cup FillKinds \cup {"CleanUnique"}
            => Shareable(t)
      /\ r.req \in NoSnoopKinds => ~Shareable(t)
  BY <1>4, KindClasses DEF Fit, Suits, Shareable
<1>6. CheckARSnoop(c, t)
  BY <1>1, <1>2, <1>5 DEF CheckARSnoop, FillKinds, NoSnoopKinds, CleanKinds
<1>7. CheckAWSnoop(c, t)
  BY <1>1, <1>2, <1>5 DEF CheckAWSnoop, NoSnoopKinds, CopyBackKinds
<1>8. CheckSize(t)
  <2>1. SUFFICES ASSUME CachelineSized(r.req)  PROVE WholeLineOf(t)
    BY <1>1 DEF CheckSize
  <2>2. r.req = "WriteLineUnique" \/ r.req \in CopyBackKinds
        \/ r.req \notin CopyBackKinds \cup UniqueWriteKinds \cup NoSnoopKinds
    BY <2>1 DEF CachelineSized, ReadKinds, CleanKinds, CmoKinds, CopyBackKinds,
                UniqueWriteKinds, NoSnoopKinds
  <2>3. r.req = "WriteLineUnique" => t.rng = LineAddr(LineOf(o))
    BY <1>3 DEF Fit, Suits, FullLine, UniqueWriteKinds
  <2>4. QED
    BY <1>2, <1>3, <2>2, <2>3 DEF WholeLineOf
<1>9. CheckCopyBack(t)
  <2>1. Cardinality(LinesOf(t.rng)) = 1
    BY <1>4, FS_Singleton
  <2>2. QED
    BY <1>1, <2>1 DEF CheckCopyBack, Modest
<1>10. CheckWriteUnique(t)
  BY <1>1 DEF CheckWriteUnique, Modest, UniqueWriteKinds
<1>11. CheckRequest(c, t)
  BY <1>6, <1>7, <1>8, <1>9, <1>10 DEF CheckRequest
<1>12. QED
  BY <1>11 DEF t

\* So do those of an ACE-Lite master, which are marked shareable.
LEMMA LiteChecked ==
    ASSUME LiteShareable, NEW t \in Traffics, NEW m \in LiteMasters, NEW o \in t[m]
    PROVE  CheckRequest(m, LiteTx(o)) /\ Modest(LiteTx(o))
<1>1. o \in Op
  BY OpFacts, CachesAreMasters
<1>2. /\ LiteTx(o).kind \in {"ReadOnce", "WriteUnique"} /\ LiteTx(o).rng = o.rng
      /\ LiteTx(o).excl = FALSE /\ LiteTx(o).dirty = FALSE
  BY <1>1, LiteTxParts DEF WellFormed, Tx
<1>3. LiteTx(o).shared = FALSE
  <2>1. \A k, rng, d : NewTx(k, rng, d, FALSE).shared = FALSE
    BY DEF NewTx, NoTx
  <2>2. QED
    BY <2>1 DEF LiteTx
<1>4. Shareable(LiteTx(o))
  BY <1>2 DEF LiteShareable, Shareable
<1>5. Modest(LiteTx(o))
  BY <1>2, <1>3 DEF Modest
<1> DEFINE x == LiteTx(o)
<1>6. x.kind \in {"ReadOnce", "WriteUnique"} /\ x.excl = FALSE /\ Shareable(x)
  BY <1>2, <1>4
<1> HIDE DEF x
<1>7. CheckARSnoop(m, x) \/ x.kind = "WriteUnique"
  BY <1>6 DEF CheckARSnoop
<1>8. CheckAWSnoop(m, x) \/ x.kind = "ReadOnce"
  BY <1>6 DEF CheckAWSnoop, CopyBackKinds
<1>9. ~CachelineSized(x.kind) /\ CheckCopyBack(x) /\ CheckWriteUnique(x)
  BY <1>6 DEF CachelineSized, ReadKinds, CleanKinds, CmoKinds, CheckCopyBack,
              CheckWriteUnique
<1>10. "WriteUnique" \in WriteChannel /\ "ReadOnce" \notin WriteChannel
  BY DEF WriteChannel, UniqueWriteKinds, CopyBackKinds
<1>11. CheckRequest(m, x)
  BY <1>6, <1>7, <1>8, <1>9, <1>10 DEF CheckRequest, CheckSize
<1>12. QED
  BY <1>5, <1>11 DEF x

\* A response that grants no more than its transaction allows passes R or B.
LEMMA ResponseChecked ==
    ASSUME NEW m, NEW t, t.kind \in TxKinds, Modest(t), t.exokay => t.excl
    PROVE  CheckResponse(m, t)
<1>1. t.kind \in WriteChannel => ~t.excl
  BY DEF Modest, WriteChannel, UniqueWriteKinds, CopyBackKinds
<1>2. t.excl => AllowsExclusive(t.kind)
  BY DEF Modest, AllowsExclusive
<1>3. t.shared => ReadAllowsIsShared(t.kind)
  BY DEF Modest, ReadAllowsIsShared, SharingKinds, ReadKinds
<1>4. t.dirty => AllowPassDirty(t.kind) /\ t.kind # "ReadNotSharedDirty"
  BY DEF Modest, AllowPassDirty, PassingKinds
<1>5. QED
  BY <1>1, <1>2, <1>3, <1>4 DEF CheckResponse, CheckBresp, CheckRresp

-----------------------------------------------------------------------------
(***************************************************************************)
(* Every step is watched.                                                  *)
(***************************************************************************)
LEMMA StepWatched == Next => Watch
<1>1. Observe => Watch
  BY DEF Observe
<1>2. NoEffect => Watch
  BY <1>1 DEF NoEffect
<1>3. ASSUME NEW c \in Caches, CacheStart(c) \/ CacheResume(c)  PROVE Watch
  BY <1>1, <1>3 DEF CacheStart, CacheResume, CacheHistory
<1>4. ASSUME NEW m \in LiteMasters, LiteStart(m) \/ LiteResume(m)  PROVE Watch
  BY <1>1, <1>2, <1>4 DEF LiteStart, LiteResume
<1>5. ASSUME NEW m \in Masters, AcceptTx(m) \/ EngineThread(m)  PROVE Watch
  BY <1>2, <1>5 DEF AcceptTx, EngineThread
<1>6. ASSUME NEW m \in Masters, NEW l \in Lines, NEW c \in Caches,
             SnoopMaster(m, l, c) \/ PortDoneThread(m, l, c)
      PROVE  Watch
  BY <1>2, <1>6 DEF SnoopMaster, PortDoneThread
<1>7. ASSUME SnoopDoneThread \/ DownstreamThread  PROVE Watch
  BY <1>1, <1>2, <1>7 DEF SnoopDoneThread, DownstreamThread
<1>8. QED
  BY <1>3, <1>4, <1>5, <1>6, <1>7 DEF Next

\* Nothing is reported of a step whose requests, responses and answers are right.
LEMMA NothingReported ==
    ASSUME Watch, alarms = {},
           \A m \in Masters : Issued(m) => CheckRequest(m, tx'[m]),
           \A m \in Masters : Responded(m) => CheckResponse(m, tx[m]),
           \A c \in Caches : \A x \in Snooped(c) : SnoopOk(c, x)
    PROVE  alarms' = {}
  BY DEF Watch

\* A response under way passes.
LEMMA OwnResponse ==
    ASSUME BaseInv, NEW m \in Masters, Modest(tx[m]), Responded(m)
    PROVE  CheckResponse(m, tx[m])
<1>1. tx[m].kind \in TxKinds /\ (tx[m].exokay => tx[m].excl)
  BY AccessParts DEF BaseInv, Responded, Asks
<1>2. QED
  BY <1>1, ResponseChecked

\* What the checker takes to be cached after a step without a snoop for c.
LEMMA AllocatedAfter ==
    ASSUME Watch, NEW c \in Caches, Snooped(c) = {}
    PROVE  allocated'[c] = IF Responded(c) THEN AfterResponse(allocated[c], tx[c])
                                           ELSE allocated[c]
  BY DEF Watch

-----------------------------------------------------------------------------
(***************************************************************************)
(* A step of a cache's thread.                                             *)
(***************************************************************************)
\* The outcome suits the access, and its line, if it is valid, is shareable.
LEMMA CacheTurnFit ==
    ASSUME BaseInv, NEW c \in Caches, CheckedCache(c), NEW o, NEW r, CacheTurns(c, o, r)
    PROVE  /\ Fit(o, r) /\ o.rng \subseteq LineAddr(LineOf(o)) /\ r.req # "ReadOnce"
           /\ r.ln.valid => r.ln.tag \notin NonShareable
           /\ r.req \in CopyBackKinds => r.ln.valid
<1> DEFINE ln == get_line(c, LineOf(o))
<1>1. IcnTypeOK /\ CacheTypeOK /\ AccessInv /\ c \in Masters /\ o \in Op /\ o \in traffic[c]
  BY CachesAreMasters DEF BaseInv, TypeOK, CacheTurns
<1>2. /\ o.rng \subseteq LineAddr(LineOf(o)) /\ LineOf(o) \in Lines /\ Index[LineOf(o)] \in Slots
  BY <1>1, OpFacts, AccessFacts, SlotOf DEF AccessInv
<1>3. ln \in CacheLine /\ want[c] \in WantKinds /\ (ln.valid => ln.tag \notin NonShareable)
  BY <1>1, <1>2 DEF CacheTypeOK, AccessInv, get_line, CheckedCache
<1>4. CASE Looked(o, ln, r) /\ r = b_transport(c, o)
  <2>1. Fit(o, r)
    BY <1>3, <1>4, TransportFit
  <2>2. /\ r.req # "ReadOnce" /\ r.ln.valid = ln.valid /\ r.ln.tag = ln.tag
        /\ r.req \in CopyBackKinds => ln.valid
    BY <1>4 DEF Looked, WellAsked
  <2>3. QED
    BY <1>2, <1>3, <2>1, <2>2
<1>5. CASE /\ tx[c].phase = "resp" /\ o = op[c] /\ r = Response(c, tx[c])
           /\ AsksRight(c) /\ tx[c].kind \in TxKinds /\ Answered(o, ln, tx[c], r)
  <2>1. /\ tx[c].shared \in BOOLEAN /\ tx[c].dirty \in BOOLEAN
        /\ tx[c].data \in [tx[c].rng -> Values]
    BY <1>1 DEF IcnTypeOK, Tx
  <2>2. tx[c].kind \in FillKinds => ToLine(tx[c].data, LineOf(op[c])) \in LineData
    <3>1. ASSUME tx[c].kind \in FillKinds  PROVE tx[c].rng = LineAddr(LineOf(op[c]))
      BY <1>5, <3>1, KindClasses DEF AsksRight, PayloadRange
    <3>2. QED
      BY <1>2, <1>5, <2>1, <3>1 DEF ToLine, LineData, LineAddr
  <2>3. Suits(o, ln, tx[c].kind, want[c]) /\ LineIn(c) = ln
    <3>1. op[c] # NoOp
      BY <1>1, <1>5, AccessFacts
    <3>2. QED
      BY <1>5, <3>1 DEF CheckedCache, LineIn
  <2>4. /\ tx[c].kind # "ReadOnce"
        /\ tx[c].kind \in {"WriteBack", "WriteClean"} => want[c] # "none"
        /\ tx[c].kind = "CleanUnique" => ln.tag = LineOf(o)
        /\ tx[c].kind \in CopyBackKinds => ln.valid
    BY <1>5, <2>3 DEF AsksRight
  <2>5. Fit(o, r)
    BY <1>1, <1>3, <1>5, <2>1, <2>2, <2>3, <2>4, ResponseFit
  <2>6. /\ r.req # "ReadOnce"
        /\ r.req \in CopyBackKinds => r.ln.valid
    BY <1>5, <2>4, KindClasses DEF Answered, WellAsked
  <2>7. ASSUME r.ln.valid  PROVE r.ln.tag \notin NonShareable
    <3>1. CASE tx[c].kind \in FillKinds \cup {"CleanUnique"}
      <4>1. r.ln.tag = LineOf(o)
        BY <1>5, <2>4, <3>1, KindClasses DEF Answered
      <4>2. QED
        BY <2>3, <3>1, <4>1 DEF Suits
    <3>2. CASE tx[c].kind \notin FillKinds \cup {"CleanUnique"}
      <4>1. r.ln.tag = ln.tag /\ ln.valid
        BY <1>5, <2>4, <2>7, <3>2, KindClasses DEF Answered
      <4>2. QED
        BY <1>3, <4>1
    <3>3. QED
      BY <3>1, <3>2
  <2>8. QED
    BY <1>2, <2>5, <2>6, <2>7
<1>6. QED
  BY <1>4, <1>5 DEF CacheTurns

\* The checker follows a response: it drops and adds just the line that the
\* cache drops and adds.
LEMMA TurnTracked ==
    ASSUME BaseInv, NEW c \in Caches, CheckedCache(c), NEW o, NEW r, CacheTurns(c, o, r),
           Responded(c) => allocated'[c] = AfterResponse(allocated[c], tx[c]),
           ~Responded(c) => allocated'[c] = allocated[c]
    PROVE  Tracked(c)'
<1> DEFINE i == Index[LineOf(o)]
           ln == get_line(c, LineOf(o))
<1>1. /\ c \in Masters /\ tx \in [Masters -> Tx] /\ SlotInv
      /\ cacheline \in [Caches -> [Slots -> CacheLine]]
  BY CachesAreMasters DEF BaseInv, TypeOK, IcnTypeOK, CacheTypeOK
<1>2. /\ o \in Op /\ r \in Result /\ LineOf(o) \in Lines /\ i \in Slots
  BY AccessFacts, SlotOf DEF CacheTurns
<1>3. /\ cacheline' = [cacheline EXCEPT ![c][i] = r.ln]
      /\ tx'[c].phase \in {"idle", "req"}
  BY <1>1 DEF CacheTurns, CacheStep
<1>4. \A l \in Lines : get_line(c, l)' = IF Index[l] = i THEN r.ln ELSE get_line(c, l)
  BY <1>1, <1>2, <1>3, SlotOf DEF get_line
<1>5. ln \in CacheLine /\ r.ln \in CacheLine /\ (ln.valid => Index[ln.tag] = i)
  BY <1>1, <1>2 DEF get_line, Result, SlotInv
<1>6. \A l \in Lines : /\ Index[l] # i => in_cache(c, l)' = in_cache(c, l)
                       /\ Index[l] = i => /\ in_cache(c, l) <=> ln.valid /\ ln.tag = l
                                          /\ in_cache(c, l)' <=> r.ln.valid /\ r.ln.tag = l
  BY <1>4 DEF in_cache, Holds, get_line
<1>7. allocated[c] = {l \in Lines : in_cache(c, l)}
  BY DEF CheckedCache, Tracked
<1> HIDE DEF ln, i
<1>8. CASE tx[c].phase = "idle" /\ Looked(o, ln, r)
  <2>1. allocated'[c] = allocated[c]
    BY <1>8 DEF Responded
  <2>2. r.ln.valid = ln.valid /\ r.ln.tag = ln.tag
    BY <1>8 DEF Looked
  <2>3. \A l \in Lines : in_cache(c, l)' <=> in_cache(c, l)
    BY <1>6, <2>2
  <2>4. QED
    BY <1>7, <2>1, <2>3 DEF Tracked
<1>9. CASE /\ tx[c].phase = "resp" /\ o = op[c] /\ AsksRight(c)
           /\ tx[c].kind \in TxKinds /\ Answered(o, ln, tx[c], r)
  <2> DEFINE k == tx[c].kind
             at == IF k \in CopyBackKinds THEN ln.tag ELSE LineOf(o)
  <2>1. allocated'[c] = AfterResponse(allocated[c], tx[c])
    BY <1>3, <1>9 DEF Responded
  <2>2. LineIn(c) = ln /\ op[c] # NoOp /\ Suits(o, ln, k, want[c])
    BY <1>2, <1>9, AccessFacts DEF LineIn, ln, CheckedCache
  <2>3. at \in Lines /\ Index[at] = i
    <3>1. k \in CopyBackKinds => ln.valid
      BY <1>9, <2>2 DEF AsksRight
    <3>2. QED
      BY <1>2, <1>5, <3>1 DEF CacheLine, i
  <2>4. LinesOf(tx[c].rng) = {at}
    <3>1. CASE k \in CopyBackKinds
      <4>1. tx[c].rng = LineAddr(ln.tag)
        BY <1>9, <2>2, <3>1 DEF AsksRight, PayloadRange
      <4>2. QED
        BY <2>3, <3>1, <4>1, LineAddrFacts
    <3>2. CASE k \notin CopyBackKinds
      BY <1>1, <1>9, <2>2, <3>2, OneLine DEF BaseInv
    <3>3. QED
      BY <3>1, <3>2
  <2>5. k \in FillKinds \cup {"CleanUnique"} <=> AllocateCacheline(k)
    BY <1>9 DEF FillKinds, AllocateCacheline, CleanKinds
  <2>6. k \in {"WriteBack", "Evict"} \cup DropKinds <=> EvictCacheline(k)
    BY DEF DropKinds, EvictCacheline
  <2> HIDE DEF k, at
  <2>7. CASE k \in FillKinds
    <3>1. at = LineOf(o) /\ ~ln.valid /\ r.ln.valid /\ r.ln.tag = LineOf(o)
      BY <1>9, <2>2, <2>7, KindClasses DEF Answered, Suits, at, k
    <3>2. allocated'[c] = allocated[c] \cup {at}
      BY <2>1, <2>4, <2>5, <2>7 DEF AfterResponse, k
    <3>3. QED
      BY <1>6, <1>7, <2>3, <3>1, <3>2 DEF Tracked
  <2>8. CASE k = "CleanUnique"
    <3>1. at = LineOf(o) /\ ln.tag = LineOf(o)
      BY <1>9, <2>2, <2>8, KindClasses DEF AsksRight, at, k
    <3>2. r.ln.valid /\ r.ln.tag = LineOf(o)
      BY <1>9, <2>8, <3>1, KindClasses DEF Answered, k
    <3>3. allocated'[c] = allocated[c] \cup {at}
      BY <2>1, <2>4, <2>5, <2>8 DEF AfterResponse, k
    <3>4. QED
      BY <1>6, <1>7, <2>3, <3>1, <3>2, <3>3 DEF Tracked
  <2>9. CASE k \in {"WriteBack", "Evict"}
    <3>1. at = ln.tag /\ ~r.ln.valid
      BY <1>9, <2>9, KindClasses DEF Answered, at, k
    <3>2. allocated'[c] = allocated[c] \ {at}
      BY <2>1, <2>4, <2>5, <2>6, <2>9, KindClasses DEF AfterResponse, k
    <3>3. QED
      BY <1>6, <1>7, <2>3, <3>1, <3>2 DEF Tracked
  <2>10. CASE k \in DropKinds
    <3>1. at = LineOf(o) /\ ~Holds(ln, LineOf(o)) /\ r.ln = ln
      BY <1>9, <2>2, <2>10, KindClasses, SuitsKinds DEF Answered, Suits, at, k
    <3>2. allocated'[c] = allocated[c] \ {at}
      BY <2>1, <2>4, <2>5, <2>6, <2>10, KindClasses, SuitsKinds DEF AfterResponse, k
    <3>3. QED
      BY <1>6, <1>7, <2>3, <3>1, <3>2 DEF Tracked, Holds
  <2>11. CASE k \notin FillKinds \cup {"CleanUnique", "WriteBack", "Evict"} \cup DropKinds
    <3>1. r.ln.tag = ln.tag /\ r.ln.valid = ln.valid
      BY <1>9, <2>11, KindClasses, SuitsKinds DEF Answered, AsksRight, k
    <3>2. allocated'[c] = allocated[c]
      BY <2>1, <2>5, <2>6, <2>11 DEF AfterResponse, k
    <3>3. QED
      BY <1>6, <1>7, <3>1, <3>2 DEF Tracked
  <2>12. QED
    BY <2>7, <2>8, <2>9, <2>10, <2>11
<1>10. QED
  BY <1>8, <1>9 DEF CacheTurns, ln

\* What a step does not touch stays as it should be.
LEMMA CacheUntouched ==
    ASSUME NEW c \in Caches, CheckedCache(c), cacheline'[c] = cacheline[c],
           op'[c] = op[c], want'[c] = want[c], tx'[c].kind = tx[c].kind,
           allocated'[c] = allocated[c]
    PROVE  CheckedCache(c)'
<1>1. \A l \in Lines : in_cache(c, l)' = in_cache(c, l)
  BY DEF in_cache, get_line, Holds
<1>2. Tracked(c)'
  BY <1>1 DEF CheckedCache, Tracked
<1>3. LineIn(c)' = LineIn(c)
  BY DEF LineIn, get_line
<1>4. op[c] # NoOp => Suits(op[c], LineIn(c), tx[c].kind, want[c])'
  BY <1>3 DEF CheckedCache, Suits, Holds, LineOf, FullLine
<1>5. QED
  BY <1>2, <1>4 DEF CheckedCache

LEMMA TxUntouched ==
    ASSUME NEW m \in Masters, CheckedTx(m),
           tx'[m].kind = tx[m].kind, tx'[m].excl = tx[m].excl,
           tx'[m].shared = tx[m].shared, tx'[m].dirty = tx[m].dirty,
           \A l \in Lines : \A e \in snoop'[m][l].back :
              e \in snoop[m][l].back /\ snoop'[m][l].ans[e] = snoop[m][l].ans[e]
    PROVE  CheckedTx(m)'
<1>1. Modest(tx[m])'
  BY DEF CheckedTx, Modest
<1>2. \A l \in Lines : \A e \in snoop'[m][l].back :
         ModestAnswer(tx'[m].kind, snoop'[m][l].ans[e])
  BY DEF CheckedTx
<1>3. QED
  BY <1>1, <1>2 DEF CheckedTx

\* A master whose transaction is over, or only begins, has no snoop.
LEMMA NoSnoopBack ==
    ASSUME BaseInv, NEW m \in Masters, tx[m].phase # "snoop", NEW l \in Lines
    PROVE  snoop[m][l].back = {}
  BY PortsBusy

LEMMA CacheTurnChecked ==
    ASSUME BaseInv, CheckerInv, Watch, NEW c \in Caches, NEW o, NEW r, CacheTurns(c, o, r)
    PROVE  CheckerInv'
<1>1. /\ c \in Masters /\ tx \in [Masters -> Tx] /\ CheckedCache(c)
      /\ o \in Op /\ r \in Result /\ CacheStep(c, o, r) /\ UNCHANGED snoop
      /\ tx' = [tx EXCEPT ![c] = NextTx(o, r)] /\ NextTx(o, r).phase \in {"idle", "req"}
      /\ tx[c].phase \in {"idle", "resp"}
      /\ cacheline \in [Caches -> [Slots -> CacheLine]]
      /\ op \in [Masters -> Op \cup {NoOp}] /\ want \in [Masters -> TxKinds \cup {"none"}]
  BY CachesAreMasters DEF BaseInv, TypeOK, IcnTypeOK, CacheTypeOK, CacheTurns, CheckerInv
<1>2. /\ Fit(o, r) /\ o.rng \subseteq LineAddr(LineOf(o)) /\ r.req # "ReadOnce"
      /\ r.ln.valid => r.ln.tag \notin NonShareable
      /\ r.req \in CopyBackKinds => r.ln.valid
  BY <1>1, CacheTurnFit
<1>3. \A x \in Masters \ {c} : tx'[x] = tx[x]
  BY <1>1
<1>4. tx'[c] = NextTx(o, r)
  BY <1>1
<1>5. \A d \in Caches : Snooped(d) = {}
  BY <1>1 DEF Snooped
<1>6. \A m \in Masters : Responded(m) => CheckResponse(m, tx[m])
  BY OwnResponse DEF CheckerInv, CheckedTx
<1>7. ASSUME NEW m \in Masters, Issued(m)  PROVE CheckRequest(m, tx'[m])
  <2>1. m = c
    BY <1>3, <1>7 DEF Issued
  <2>2. r.req # "none"
    BY <1>4, <1>7, <2>1 DEF Issued, NextTx, NoTx
  <2>3. QED
    BY <1>1, <1>2, <1>4, <2>1, <2>2, RequestChecked
<1>8. alarms' = {}
  BY <1>5, <1>6, <1>7, NothingReported DEF CheckerInv
<1>9. ASSUME NEW d \in Caches \ {c}  PROVE CheckedCache(d)'
  <2>1. d \in Masters /\ tx'[d] = tx[d] /\ CheckedCache(d)
    BY <1>3, CachesAreMasters DEF CheckerInv
  <2>2. ~Responded(d)
    BY <2>1 DEF Responded
  <2>3. allocated'[d] = allocated[d]
    BY <1>5, <2>2, AllocatedAfter
  <2>4. cacheline'[d] = cacheline[d] /\ op'[d] = op[d] /\ want'[d] = want[d]
    BY <1>1, <2>1 DEF CacheStep
  <2>5. QED
    BY <2>1, <2>3, <2>4, CacheUntouched
<1>10. CheckedCache(c)'
  <2> DEFINE i == Index[LineOf(o)]
  <2>0. i \in Slots
    BY <1>1, AccessFacts, SlotOf
  <2>1. Tracked(c)'
    BY <1>1, <1>5, AllocatedAfter, TurnTracked
  <2>2. \A j \in Slots : cacheline'[c][j] = IF j = i THEN r.ln ELSE cacheline[c][j]
    BY <1>1, <2>0 DEF CacheStep
  <2>3. \A j \in Slots : cacheline'[c][j].valid => cacheline'[c][j].tag \notin NonShareable
    BY <1>1, <1>2, <2>2 DEF CheckedCache
  <2>4. ASSUME op'[c] # NoOp  PROVE Suits(op'[c], LineIn(c)', tx'[c].kind, want'[c])
    <3>1. r.req # "none" /\ op'[c] = o /\ want'[c] = r.want
      BY <1>1, <2>4 DEF CacheStep
    <3>2. tx'[c].kind = r.req
      BY <1>1, <1>4, <3>1, NextTxParts
    <3>3. LineIn(c)' = cacheline'[c][Index[LineOf(op'[c])]]
      BY DEF LineIn, get_line, LineOf
    <3>4. LineIn(c)' = r.ln
      BY <2>0, <2>2, <3>1, <3>3
    <3>5. QED
      BY <1>2, <3>1, <3>2, <3>4 DEF Fit
  <2>5. op'[c] # NoOp => Suits(op[c], LineIn(c), tx[c].kind, want[c])'
    BY <2>4 DEF Suits, LineOf, FullLine, Holds
  <2>6. QED
    BY <2>1, <2>3, <2>5 DEF CheckedCache
<1>11. ASSUME NEW m \in Masters  PROVE CheckedTx(m)'
  <2>1. CASE m = c
    <3>1. Modest(tx'[c])
      BY <1>1, <1>4, NextTxModest
    <3>2. \A l \in Lines : snoop'[c][l].back = {}
      BY <1>1, NoSnoopBack
    <3>3. QED
      BY <2>1, <3>1, <3>2 DEF CheckedTx, Modest
  <2>2. CASE m # c
    BY <1>1, <1>3, <2>2, TxUntouched DEF CheckerInv
  <2>3. QED
    BY <2>1, <2>2
<1>12. QED
  BY <1>8, <1>9, <1>10, <1>11 DEF CheckerInv

-----------------------------------------------------------------------------
(***************************************************************************)
(* A step of an ACE-Lite master, which has no checked cache.               *)
(***************************************************************************)
LEMMA LiteTurnChecked ==
    ASSUME LiteShareable, BaseInv, CheckerInv, Watch,
           NEW m \in LiteMasters, LiteStart(m) \/ LiteResume(m)
    PROVE  CheckerInv'
<1>1. /\ m \in Masters /\ m \notin Caches /\ tx \in [Masters -> Tx] /\ traffic \in Traffics
      /\ UNCHANGED <<snoop, cacheline, want>> /\ \A c \in Caches : op'[c] = op[c]
  BY LiteKinds DEF BaseInv, TypeOK, IcnTypeOK, AccessInv, LiteTurns
<1>2. PICK t : /\ tx' = [tx EXCEPT ![m] = t] /\ Modest(t) /\ t.phase \in {"idle", "req"}
               /\ t.phase = "req" => CheckRequest(m, t)
  <2>1. CASE LiteStart(m)
    <3>1. PICK o \in traffic[m] : tx' = [tx EXCEPT ![m] = LiteTx(o)]
      BY <2>1 DEF LiteStart
    <3>2. LiteTx(o).phase = "req"
      BY <1>1, OpFacts, LiteTxParts
    <3>3. QED
      BY <1>1, <3>1, <3>2, LiteChecked
  <2>2. CASE LiteResume(m)
    <3>1. tx' = [tx EXCEPT ![m] = NoTx]
      BY <2>2 DEF LiteResume, Deliver
    <3>2. NoTx.phase = "idle" /\ Modest(NoTx)
      BY DEF NoTx, Modest
    <3>3. QED
      BY <3>1, <3>2
  <2>3. QED
    BY <2>1, <2>2
<1>3. tx'[m] = t /\ \A x \in Masters \ {m} : tx'[x] = tx[x]
  BY <1>1, <1>2
<1>4. \A d \in Caches : Snooped(d) = {}
  BY <1>1 DEF Snooped
<1>5. \A x \in Masters : Responded(x) => CheckResponse(x, tx[x])
  BY OwnResponse DEF CheckerInv, CheckedTx
<1>6. \A x \in Masters : Issued(x) => CheckRequest(x, tx'[x])
  BY <1>2, <1>3 DEF Issued
<1>7. alarms' = {}
  BY <1>4, <1>5, <1>6, NothingReported DEF CheckerInv
<1>8. ASSUME NEW d \in Caches  PROVE CheckedCache(d)'
  <2>1. d \in Masters /\ tx'[d] = tx[d] /\ CheckedCache(d)
    BY <1>1, <1>3, CachesAreMasters DEF CheckerInv
  <2>2. ~Responded(d)
    BY <2>1 DEF Responded
  <2>3. allocated'[d] = allocated[d]
    BY <1>4, <2>2, AllocatedAfter
  <2>4. QED
    BY <1>1, <2>1, <2>3, CacheUntouched
<1>9. ASSUME NEW x \in Masters  PROVE CheckedTx(x)'
  <2>1. CASE x = m
    <3>1. tx[m].phase # "snoop"
      <4>1. CASE LiteStart(m)
        BY <1>1, <4>1, AccessParts DEF LiteStart, BaseInv
      <4>2. CASE LiteResume(m)
        BY <4>2 DEF LiteResume, ResponseReady
      <4>3. QED
        BY <4>1, <4>2
    <3>2. \A l \in Lines : snoop'[m][l].back = {}
      BY <1>1, <3>1, NoSnoopBack
    <3>3. QED
      BY <1>2, <1>3, <2>1, <3>2 DEF CheckedTx, Modest
  <2>2. CASE x # m
    BY <1>1, <1>3, <2>2, TxUntouched DEF CheckerInv
  <2>3. QED
    BY <2>1, <2>2
<1>10. QED
  BY <1>7, <1>8, <1>9 DEF CheckerInv

-----------------------------------------------------------------------------
(***************************************************************************)
(* A cache answers a snoop.                                                *)
(***************************************************************************)
LEMMA SnoopOfKinds ==
    ASSUME NEW kind
    PROVE  /\ SnoopOf(kind) \in ReadKinds \cup {"CleanShared", "CleanInvalid", "MakeInvalid"}
           /\ SnoopOf(kind) \in SharingKinds \cup PassingKinds => kind = SnoopOf(kind)
           /\ AllowPassDirty(kind) => SnoopOf(kind) = kind
<1>1. CASE kind \in ReadKinds \cup {"CleanShared"}
  BY <1>1 DEF SnoopOf, ReadKinds, AllowPassDirty
<1>2. CASE kind \in {"CleanUnique", "CleanInvalid", "WriteUnique"}
  BY <1>2 DEF SnoopOf, ReadKinds, SharingKinds, PassingKinds, AllowPassDirty
<1>3. CASE kind \notin ReadKinds \cup {"CleanShared", "CleanUnique", "CleanInvalid", "WriteUnique"}
  BY <1>3 DEF SnoopOf, ReadKinds, SharingKinds, PassingKinds, AllowPassDirty
<1>4. QED
  BY <1>1, <1>2, <1>3

\* The answer for a line that is held passes CR, and leaves the line in the
\* cache just when it is marked shared.
LEMMA AnswerChecked ==
    ASSUME NEW ln \in CacheLine, NEW kind
    PROVE  /\ SnoopAnswer(SnoopOf(kind), ln).shared <=> SnoopOf(kind) \in SharingKinds
           /\ ModestAnswer(kind, SnoopAnswer(SnoopOf(kind), ln))
           /\ CheckCRSignals(SnoopOf(kind), SnoopAnswer(SnoopOf(kind), ln))
           /\ SnoopOf(kind) \in ReadKinds => SnoopAnswer(SnoopOf(kind), ln).xfer
           /\ ln.valid =>
                 (SnoopedLine(SnoopOf(kind), ln).valid <=> SnoopOf(kind) \in SharingKinds)
<1> DEFINE k == SnoopOf(kind)
           shared == k \in SharingKinds
           dirty == ln.dirty /\ k \in {"ReadShared", "ReadUnique", "CleanInvalid", "CleanShared"}
           xfer == \/ k \in ReadKinds
                   \/ k \in {"CleanInvalid", "CleanShared"} /\ ln.dirty
           a == SnoopAnswer(k, ln)
<1>1. \E x : a = [shared |-> shared, dirty |-> dirty, xfer |-> xfer, data |-> x]
  BY DEF SnoopAnswer, SharingKinds
<1>2. k \in ReadKinds \cup {"CleanShared", "CleanInvalid", "MakeInvalid"}
  BY SnoopOfKinds
<1>3. dirty => xfer /\ k \in PassingSnoops
  BY DEF ReadKinds, PassingSnoops, PassingKinds
<1>4. k \in SharingKinds <=> k \notin {"ReadUnique", "CleanInvalid", "MakeInvalid"}
  BY <1>2 DEF SharingKinds, ReadKinds
<1>5. ln.valid => (SnoopedLine(k, ln).valid <=> k \in SharingKinds)
  BY <1>4 DEF SnoopedLine, CacheLine
<1> HIDE DEF k, shared, dirty, xfer, a
<1>6. a.shared = shared /\ a.dirty = dirty /\ a.xfer = xfer
  BY <1>1
<1>7. ModestAnswer(kind, a) /\ CheckCRSignals(k, a)
  BY <1>3, <1>4, <1>6 DEF ModestAnswer, CheckCRSignals, SnoopAllowsIsShared, k, shared
<1>8. k \in ReadKinds => a.xfer
  BY <1>6 DEF xfer
<1>9. QED
  BY <1>5, <1>6, <1>7, <1>8 DEF k, a, shared

LEMMA SnoopChecked ==
    ASSUME BaseInv, OverlapInv, CheckerInv, Watch,
           NEW m \in Masters, NEW l \in Lines, NEW c \in Caches, SnoopMaster(m, l, c)
    PROVE  CheckerInv'
<1> DEFINE kind == SnoopOf(tx[m].kind)
           ln == get_line(c, l)
           a == snoop'[m][l].ans[c]
<1>1. /\ UNCHANGED <<tx, want, op>> /\ c \in snoop[m][l].sent
      /\ snoop'[m][l].sent = snoop[m][l].sent \ {c}
      /\ snoop'[m][l].back = snoop[m][l].back \cup {c}
      /\ a = IF in_cache(c, l) THEN SnoopAnswer(kind, ln) ELSE BlankAnswer
      /\ \A d \in Caches \ {c} : snoop'[m][l].ans[d] = snoop[m][l].ans[d]
      /\ \A x \in Masters, k \in Lines : x # m \/ k # l => snoop'[x][k] = snoop[x][k]
  BY SnoopMasterParts
<1>2. /\ CacheTypeOK /\ CheckedCache(c) /\ Index[l] \in Slots
      /\ cacheline \in [Caches -> [Slots -> CacheLine]] /\ CacheSnoop(c, kind, l)
      /\ snoop \in [Masters -> [Lines -> Snoop]]
  BY SlotOf DEF BaseInv, TypeOK, CacheTypeOK, IcnTypeOK, CheckerInv, SnoopMaster
<1>3. /\ \A d \in Caches, i \in Slots :
            /\ cacheline'[d][i].tag = cacheline[d][i].tag
            /\ cacheline'[d][i].valid => cacheline[d][i].valid
            /\ d # c \/ i # Index[l] => cacheline'[d][i] = cacheline[d][i]
      /\ get_line(c, l)' = IF in_cache(c, l) THEN SnoopedLine(kind, ln) ELSE ln
  BY <1>2, SnoopSteps
<1>4. ln \in CacheLine
  BY <1>2 DEF get_line
<1>5. Snooped(c) = {<<m, l>>} /\ \A d \in Caches \ {c} : Snooped(d) = {}
  <2>1. ASSUME NEW d \in Caches, NEW x \in Masters, NEW k \in Lines
        PROVE  <<x, k>> \in Snooped(d) <=> d = c /\ x = m /\ k = l
    BY <1>1 DEF Snooped
  <2>2. QED
    BY <2>1 DEF Snooped
<1>6. /\ in_cache(c, l) =>
            /\ a.shared <=> kind \in SharingKinds
            /\ ModestAnswer(tx[m].kind, a) /\ CheckCRSignals(kind, a)
            /\ kind \in ReadKinds => a.xfer
            /\ SnoopedLine(kind, ln).valid <=> kind \in SharingKinds
      /\ ~in_cache(c, l) =>
            /\ ~a.shared /\ ~a.xfer
            /\ ModestAnswer(tx[m].kind, a) /\ CheckCRSignals(kind, a)
  <2>1. CASE in_cache(c, l)
    BY <1>1, <1>4, <2>1, AnswerChecked DEF in_cache, Holds
  <2>2. CASE ~in_cache(c, l)
    <3>1. ~a.shared /\ ~a.xfer /\ ~a.dirty
      BY <1>1, <2>2 DEF BlankAnswer
    <3>2. QED
      BY <2>2, <3>1 DEF ModestAnswer, CheckCRSignals
  <2>3. QED
    BY <2>1, <2>2
<1>7. allocated[c] = {k \in Lines : in_cache(c, k)}
  BY <1>2 DEF CheckedCache, Tracked
<1> HIDE DEF a, kind, ln
<1>8. CheckSnoop(allocated[c], kind, l, a)
  BY <1>6, <1>7 DEF CheckSnoop, CheckCrresp
<1>9. alarms' = {}
  <2>1. \A x \in Masters : ~Issued(x) /\ ~Responded(x)
    BY <1>1 DEF Issued, Responded
  <2>2. \A d \in Caches : \A x \in Snooped(d) : SnoopOk(d, x)
    BY <1>5, <1>8 DEF SnoopOk, kind, a
  <2>3. QED
    BY <2>1, <2>2, NothingReported DEF CheckerInv
<1>10. Tracked(c)'
  <2>1. allocated'[c] = AfterSnoop(allocated[c], l, a)
    <3>1. ~Responded(c)
      BY <1>1 DEF Responded
    <3>2. allocated'[c] = {k \in allocated[c] : \A x \in Snooped(c) :
               k \in AfterSnoop(allocated[c], x[2], snoop'[x[1]][x[2]].ans[c])}
      BY <3>1 DEF Watch
    <3>3. allocated'[c] = {k \in allocated[c] : k \in AfterSnoop(allocated[c], l, a)}
      BY <1>5, <3>2 DEF a
    <3>4. QED
      BY <3>3 DEF AfterSnoop
  <2>2. ASSUME NEW k \in Lines
        PROVE  in_cache(c, k)' <=> in_cache(c, k) /\ (k = l => kind \in SharingKinds)
    <3>1. CASE Index[k] # Index[l]
      <4>1. get_line(c, k)' = get_line(c, k)
        BY <1>3, <3>1, SlotOf DEF get_line
      <4>2. QED
        BY <3>1, <4>1 DEF in_cache, Holds
    <3>2. CASE Index[k] = Index[l]
      <4>1. get_line(c, k) = ln /\ get_line(c, k)' = get_line(c, l)'
        BY <3>2 DEF get_line, ln
      <4>2. get_line(c, l)'.tag = ln.tag
        BY <1>2, <1>3 DEF get_line, ln
      <4>3. CASE in_cache(c, l)
        <5>1. ln.valid /\ ln.tag = l /\ (get_line(c, l)'.valid <=> kind \in SharingKinds)
          BY <1>3, <1>6, <4>3 DEF in_cache, Holds, ln
        <5>2. QED
          BY <4>1, <4>2, <5>1 DEF in_cache, Holds
      <4>4. CASE ~in_cache(c, l)
        <5>1. get_line(c, l)' = ln
          BY <1>3, <4>4
        <5>2. ~(ln.valid /\ ln.tag = l)
          BY <4>4 DEF in_cache, Holds, ln
        <5>3. QED
          BY <4>1, <5>1, <5>2 DEF in_cache, Holds
      <4>5. QED
        BY <4>3, <4>4
    <3>3. QED
      BY <3>1, <3>2
  <2>3. QED
    BY <1>6, <1>7, <2>1, <2>2 DEF AfterSnoop, Tracked
<1>11. ASSUME NEW d \in Caches \ {c}  PROVE CheckedCache(d)'
  <2>1. CheckedCache(d) /\ d \in Masters /\ ~Responded(d)
    BY <1>1, CachesAreMasters DEF CheckerInv, Responded
  <2>2. allocated'[d] = allocated[d]
    BY <1>5, <2>1, AllocatedAfter
  <2>3. \A i \in Slots : cacheline'[d][i] = cacheline[d][i]
    BY <1>3
  <2>4. \A k \in Lines : in_cache(d, k)' = in_cache(d, k)
    BY <2>3, SlotOf DEF in_cache, get_line, Holds
  <2>5. op[d] # NoOp => LineIn(d)' = LineIn(d)
    <3>1. op[d] \in Op \cup {NoOp} /\ op' = op
      BY <1>1, <1>2, <2>1 DEF CacheTypeOK
    <3>2. op[d] # NoOp => Index[LineOf(op[d])] \in Slots
      BY <3>1, AccessFacts, SlotOf
    <3>3. QED
      BY <2>3, <3>1, <3>2 DEF LineIn, get_line, LineOf
  <2>6. op'[d] # NoOp => Suits(op[d], LineIn(d), tx[d].kind, want[d])'
    BY <1>1, <2>1, <2>5 DEF CheckedCache, Suits, Holds, LineOf, FullLine
  <2>7. QED
    BY <2>1, <2>2, <2>3, <2>4, <2>6 DEF CheckedCache, Tracked
<1>12. CheckedCache(c)'
  <2>1. \A i \in Slots : cacheline'[c][i].valid => cacheline'[c][i].tag \notin NonShareable
    BY <1>2, <1>3 DEF CheckedCache
  <2>2. ASSUME op[c] # NoOp  PROVE Suits(op[c], LineIn(c), tx[c].kind, want[c])'
    <3>1. op[c] \in Op /\ op' = op
      BY <1>1, <1>2, <2>2, CachesAreMasters DEF CacheTypeOK
    <3>2. Index[LineOf(op[c])] \in Slots
      BY <3>1, AccessFacts, SlotOf
    <3>3. (LineIn(c)'.valid => LineIn(c).valid) /\ LineIn(c)'.tag = LineIn(c).tag
      BY <1>3, <3>1, <3>2 DEF LineIn, get_line, LineOf
    <3>4. Suits(op[c], LineIn(c), tx[c].kind, want[c])
      BY <1>2, <2>2 DEF CheckedCache
    <3>5. QED
      BY <1>1, <3>1, <3>3, <3>4 DEF Suits, Holds, LineOf, FullLine
  <2>3. QED
    BY <1>1, <1>10, <2>1, <2>2 DEF CheckedCache
<1>13. ASSUME NEW x \in Masters  PROVE CheckedTx(x)'
  <2>1. CheckedTx(x)
    BY DEF CheckerInv
  <2>2. ASSUME NEW k \in Lines, NEW e \in snoop'[x][k].back
        PROVE  ModestAnswer(tx'[x].kind, snoop'[x][k].ans[e])
    <3>1. CASE x = m /\ k = l /\ e = c
      BY <1>1, <1>6, <3>1 DEF a
    <3>2. CASE x = m /\ k = l /\ e # c
      <4>1. e \in snoop[m][l].back /\ e \in Caches
        BY <1>1, <1>2, <2>2, <3>2 DEF Snoop
      <4>2. QED
        BY <1>1, <2>1, <3>2, <4>1 DEF CheckedTx
    <3>3. CASE x # m \/ k # l
      BY <1>1, <2>1, <2>2, <3>3 DEF CheckedTx
    <3>4. QED
      BY <3>1, <3>2, <3>3
  <2>3. QED
    BY <1>1, <2>1, <2>2 DEF CheckedTx, Modest
<1>14. QED
  BY <1>9, <1>11, <1>12, <1>13 DEF CheckerInv

-----------------------------------------------------------------------------
(***************************************************************************)
(* A step of the interconnect's threads.                                   *)
(***************************************************************************)
\* The transaction of x issues nothing, loses no response and no snoop.
Onward(x) ==
    /\ SameTx(tx'[x], tx[x])
    /\ tx'[x].phase = "req" => tx[x].phase = "req"
    /\ tx[x].phase = "resp" => tx'[x].phase = "resp"
    /\ \A l \in Lines : snoop[x][l].sent \subseteq snoop'[x][l].sent

LEMMA OnwardChecked ==
    ASSUME CheckerInv, Watch, UNCHANGED cacheVars,
           \A x \in Masters : Onward(x) /\ CheckedTx(x)'
    PROVE  CheckerInv'
<1>1. \A m \in Masters : ~Issued(m) /\ ~Responded(m)
  BY DEF Onward, Issued, Responded
<1>2. \A c \in Caches : Snooped(c) = {}
  BY DEF Onward, Snooped
<1>3. alarms' = {}
  BY <1>1, <1>2, NothingReported DEF CheckerInv
<1>4. ASSUME NEW c \in Caches  PROVE CheckedCache(c)'
  <2>1. c \in Masters /\ CheckedCache(c)
    BY CachesAreMasters DEF CheckerInv
  <2>2. allocated'[c] = allocated[c]
    BY <1>1, <1>2, <2>1, AllocatedAfter
  <2>3. tx'[c].kind = tx[c].kind
    BY <2>1 DEF Onward, SameTx
  <2>4. QED
    BY <2>1, <2>2, <2>3, CacheUntouched DEF cacheVars
<1>5. QED
  BY <1>3, <1>4 DEF CheckerInv

LEMMA SameSnoopsChecked ==
    ASSUME NEW x \in Masters, CheckedTx(x), SameSnoops(x), SameTx(tx'[x], tx[x]),
           tx'[x].shared = tx[x].shared, tx'[x].dirty = tx[x].dirty
    PROVE  CheckedTx(x)'
  BY TxUntouched DEF SameSnoops, SameTx

LEMMA AcceptChecked ==
    ASSUME BaseInv, CheckerInv, Watch, UNCHANGED cacheVars, NEW m \in Masters, Accept(m)
    PROVE  CheckerInv'
<1>1. /\ tx[m].phase = "req" /\ \A x \in Masters : SameTx(tx'[x], tx[x])
      /\ tx'[m].phase \in {"stalled", "engine", "ds", "resp"}
      /\ tx'[m].shared = tx[m].shared /\ tx'[m].dirty = tx[m].dirty
      /\ \A x \in Masters \ {m} : tx'[x] = tx[x]
      /\ UNCHANGED snoop
  BY AcceptParts
<1>2. \A x \in Masters : Onward(x)
  BY <1>1 DEF Onward
<1>3. \A x \in Masters : CheckedTx(x)'
  BY <1>1, SameSnoopsChecked DEF SameSnoops, CheckerInv
<1>4. QED
  BY <1>2, <1>3, OnwardChecked

LEMMA EngineChecked ==
    ASSUME BaseInv, CheckerInv, Watch, UNCHANGED cacheVars, NEW m \in Masters, EngineSnoop(m)
    PROVE  CheckerInv'
<1>1. /\ tx[m].phase = "engine" /\ tx'[m].phase = "snoop" /\ SameTx(tx'[m], tx[m])
      /\ tx'[m].shared = tx[m].shared /\ tx'[m].dirty = tx[m].dirty
      /\ \A x \in Masters \ {m} : tx'[x] = tx[x]
      /\ Idle(m)
      /\ \A l \in LinesOf(tx[m].rng) : snoop'[m][l].sent = Caches \ {m}
                                        /\ snoop'[m][l].back = {}
      /\ \A l \in Lines \ LinesOf(tx[m].rng) : snoop'[m][l] = snoop[m][l]
      /\ \A x \in Masters \ {m}, l \in Lines : snoop'[x][l] = snoop[x][l]
  BY EngineSnoopParts
<1>2. ASSUME NEW x \in Masters  PROVE Onward(x) /\ CheckedTx(x)'
  <2>1. CASE x = m
    <3>1. Onward(m)
      BY <1>1 DEF Onward, Idle
    <3>2. \A l \in Lines : snoop'[m][l].back = {}
      BY <1>1 DEF Idle
    <3>3. CheckedTx(m)'
      BY <1>1, <3>2, TxUntouched DEF CheckerInv, SameTx
    <3>4. QED
      BY <2>1, <3>1, <3>3
  <2>2. CASE x # m
    <3>1. SameTx(tx'[x], tx[x]) /\ tx'[x] = tx[x]
      BY <1>1, <2>2 DEF SameTx
    <3>2. QED
      BY <1>1, <2>2, <3>1, TxUntouched DEF Onward, CheckerInv
  <2>3. QED
    BY <2>1, <2>2
<1>3. QED
  BY <1>2, OnwardChecked

LEMMA ContinuesChecked ==
    ASSUME CheckerInv, Watch, UNCHANGED cacheVars, NEW m \in Masters, Continues(m)
    PROVE  CheckerInv'
<1>1. ASSUME NEW x \in Masters  PROVE SameTx(tx'[x], tx[x]) /\ SameAnswer(tx'[x], tx[x])
  <2>1. x # m => tx'[x] = tx[x]
    BY DEF Continues
  <2>2. QED
    BY <2>1 DEF Continues, SameTx, SameAnswer
<1>2. \A x \in Masters : Onward(x)
  BY <1>1 DEF Continues, Onward, SameSnoops
<1>3. \A x \in Masters : CheckedTx(x)'
  BY <1>1, SameSnoopsChecked DEF Continues, SameAnswer, CheckerInv
<1>4. QED
  BY <1>2, <1>3, OnwardChecked

LEMMA EndsChecked ==
    ASSUME BaseInv, CheckerInv, Watch, UNCHANGED cacheVars, NEW m \in Masters, Ends(m)
    PROVE  CheckerInv'
<1>1. /\ tx'[m].phase = "resp"
      /\ \A x \in Masters : SameTx(tx'[x], tx[x]) /\ SameAnswer(tx'[x], tx[x])
      /\ \A x \in Masters \ {m} :
            \/ tx'[x].phase = tx[x].phase
            \/ tx[x].phase = "stalled" /\ tx'[x].phase = "engine"
  BY EndsParts
<1>2. \A x \in Masters : Onward(x)
  BY <1>1 DEF Ends, Onward, SameSnoops
<1>3. \A x \in Masters : CheckedTx(x)'
  BY <1>1, SameSnoopsChecked DEF Ends, SameAnswer, CheckerInv
<1>4. QED
  BY <1>2, <1>3, OnwardChecked

\* An answer is merged: what it grants, the transaction allows.
LEMMA PortDoneChecked ==
    ASSUME BaseInv, CheckerInv, Watch, UNCHANGED cacheVars,
           NEW m \in Masters, NEW l \in Lines, NEW c \in Caches, PortDone(m, l, c)
    PROVE  CheckerInv'
<1> DEFINE a == snoop[m][l].ans[c]
           kind == tx[m].kind
<1>1. IcnTypeOK /\ snoop \in [Masters -> [Lines -> Snoop]] /\ c \in snoop[m][l].back
  BY DEF BaseInv, TypeOK, IcnTypeOK, PortDone
<1>2. /\ \A x \in Masters \ {m} : tx'[x] = tx[x]
      /\ SameTx(tx'[m], tx[m]) /\ tx'[m].phase = tx[m].phase
      /\ tx'[m].shared = (tx[m].shared \/ a.shared)
      /\ tx'[m].dirty = (tx[m].dirty \/ (a.xfer /\ a.dirty /\ AllowPassDirty(kind)))
      /\ snoop'[m][l].sent = snoop[m][l].sent
      /\ snoop'[m][l].back = snoop[m][l].back \ {c}
      /\ \A d \in Caches \ {c} : snoop'[m][l].ans[d] = snoop[m][l].ans[d]
      /\ \A x \in Masters, k \in Lines : x # m \/ k # l => snoop'[x][k] = snoop[x][k]
  BY <1>1, PortDoneTypes
<1>3. ModestAnswer(kind, a) /\ Modest(tx[m])
  BY <1>1 DEF CheckerInv, CheckedTx
<1> HIDE DEF a
<1>4. a.shared => kind \in SharingKinds
  BY <1>3, SnoopOfKinds DEF ModestAnswer
<1>5. a.dirty /\ AllowPassDirty(kind) => kind \in PassingKinds
  <2>1. AllowPassDirty(kind) => kind \notin {"CleanInvalid", "CleanShared"}
    BY DEF AllowPassDirty
  <2>2. QED
    BY <1>3, <2>1, SnoopOfKinds DEF ModestAnswer, PassingSnoops
<1>6. tx'[m].kind = kind /\ tx'[m].excl = tx[m].excl
  BY <1>2 DEF SameTx
<1>7. Modest(tx'[m])
  BY <1>2, <1>3, <1>4, <1>5, <1>6 DEF Modest
<1>8. ASSUME NEW k \in Lines, NEW e \in snoop'[m][k].back
      PROVE  ModestAnswer(kind, snoop'[m][k].ans[e])
  <2>1. CheckedTx(m)
    BY DEF CheckerInv
  <2>2. CASE k = l
    <3>1. e \in snoop[m][l].back /\ e # c /\ e \in Caches
      BY <1>1, <1>2, <1>8, <2>2 DEF Snoop
    <3>2. QED
      BY <1>2, <2>1, <2>2, <3>1 DEF CheckedTx
  <2>3. CASE k # l
    BY <1>2, <1>8, <2>1, <2>3 DEF CheckedTx
  <2>4. QED
    BY <2>2, <2>3
<1>9. CheckedTx(m)'
  BY <1>6, <1>7, <1>8 DEF CheckedTx, Modest
<1>10. ASSUME NEW x \in Masters \ {m}  PROVE CheckedTx(x)'
  BY <1>2, <1>10, TxUntouched DEF CheckerInv
<1>11. \A x \in Masters : Onward(x)
  <2>1. \A x \in Masters \ {m} : SameTx(tx'[x], tx[x])
    BY <1>2 DEF SameTx
  <2>2. QED
    BY <1>2, <2>1 DEF Onward
<1>12. QED
  BY <1>9, <1>10, <1>11, OnwardChecked

LEMMA StillChecked ==
    ASSUME CheckerInv, Watch, UNCHANGED cacheVars, UNCHANGED <<tx, snoop>>
    PROVE  CheckerInv'
<1>1. \A x \in Masters : SameTx(tx'[x], tx[x])
  BY DEF SameTx
<1>2. \A x \in Masters : Onward(x)
  BY <1>1 DEF Onward
<1>3. \A x \in Masters : CheckedTx(x)'
  BY TxUntouched DEF CheckerInv
<1>4. QED
  BY <1>2, <1>3, OnwardChecked

-----------------------------------------------------------------------------
LEMMA CheckerStep ==
    LiteShareable /\ BaseInv /\ OverlapInv /\ CheckerInv /\ [Next]_vars => CheckerInv'
<1> SUFFICES ASSUME LiteShareable, BaseInv, OverlapInv, CheckerInv, [Next]_vars
             PROVE  CheckerInv'
  OBVIOUS
<1>1. CASE UNCHANGED vars
  <2>1. UNCHANGED <<cacheline, op, want, tx, snoop, allocated, alarms>>
    BY <1>1 DEF vars, cacheVars, icnVars, checkerVars
  <2>2. \A c \in Caches : CheckedCache(c)'
    BY <2>1, CacheUntouched DEF CheckerInv
  <2>3. \A m \in Masters : CheckedTx(m)'
    BY <2>1, TxUntouched DEF CheckerInv
  <2>4. QED
    BY <2>1, <2>2, <2>3 DEF CheckerInv
<1>2. CASE Next
  <2>0. Watch
    BY <1>2, StepWatched
  <2>1. ASSUME NEW c \in Caches, CacheStart(c) \/ CacheResume(c)  PROVE CheckerInv'
    BY <2>0, <2>1, CacheTurnKinds, CacheTurnChecked
  <2>2. ASSUME NEW m \in LiteMasters, LiteStart(m) \/ LiteResume(m)  PROVE CheckerInv'
    BY <2>0, <2>2, LiteTurnChecked
  <2>3. ASSUME NEW m \in Masters, AcceptTx(m)  PROVE CheckerInv'
    BY <2>0, <2>3, AcceptChecked DEF AcceptTx
  <2>4. ASSUME NEW m \in Masters, EngineThread(m)  PROVE CheckerInv'
    BY <2>0, <2>4, EngineChecked, EngineFailEnds, EndsChecked DEF EngineThread
  <2>5. ASSUME NEW m \in Masters, NEW l \in Lines, NEW c \in Caches, SnoopMaster(m, l, c)
        PROVE  CheckerInv'
    BY <2>0, <2>5, SnoopChecked
  <2>6. ASSUME NEW m \in Masters, NEW l \in Lines, NEW c \in Caches, PortDoneThread(m, l, c)
        PROVE  CheckerInv'
    BY <2>0, <2>6, PortDoneChecked DEF PortDoneThread
  <2>7. ASSUME SnoopDoneThread \/ DownstreamThread  PROVE CheckerInv'
    <3>1. (SnoopDone \/ DsOwn \/ DsSnoop) /\ UNCHANGED cacheVars
      BY <2>7 DEF SnoopDoneThread, DownstreamThread
    <3>2. \/ UNCHANGED <<tx, snoop, overlap>>
          \/ \E m \in Masters : Continues(m) \/ Ends(m)
      BY <3>1, IcnKinds
    <3>3. QED
      BY <2>0, <3>1, <3>2, StillChecked, ContinuesChecked, EndsChecked
  <2>8. QED
    BY <1>2, <2>1, <2>2, <2>3, <2>4, <2>5, <2>6, <2>7 DEF Next
<1>3. QED
  BY <1>1, <1>2

LEMMA CheckerInvInit == Init => CheckerInv
<1> SUFFICES ASSUME Init  PROVE CheckerInv
  OBVIOUS
<1>1. /\ \A c \in Caches : allocated[c] = {} /\ \A i \in Slots : ~cacheline[c][i].valid
      /\ \A m \in Masters : op[m] = NoOp /\ tx[m] = NoTx
      /\ \A m \in Masters, l \in Lines : snoop[m][l] = NoSnoop
      /\ alarms = {}
  BY DEF Init, CacheInit, IcnInit, CheckerInit
<1>2. \A c \in Caches, l \in Lines : ~in_cache(c, l)
  BY <1>1, SlotOf DEF in_cache, get_line, Holds
<1>3. \A c \in Caches : CheckedCache(c)
  BY <1>1, <1>2, CachesAreMasters DEF CheckedCache, Tracked
<1>4. Modest(NoTx) /\ NoSnoop.back = {}
  BY DEF Modest, NoTx, NoSnoop
<1>5. \A m \in Masters : CheckedTx(m)
  BY <1>1, <1>4 DEF CheckedTx
<1>6. QED
  BY <1>1, <1>3, <1>5 DEF CheckerInv

\* The checkers of ace-tg-test.cc have nothing to report: every request fits
\* its domain, size and port, no response grants what its transaction excludes,
\* and CD data comes with the answer to a snoop just when the responses and
\* snoops before it have left the line in the cache.  This holds for all
\* loads in which ACE-Lite masters touch shareable lines, exclusive accesses
\* by any number of caches included.
THEOREM SpecAceCheckerIsSilent ==
    ASSUME LiteShareable
    PROVE  Spec => []AceCheckerIsSilent
<1>1. CheckerInv => AceCheckerIsSilent
  BY DEF CheckerInv, AceCheckerIsSilent
<1>2. BaseInv /\ OverlapInv /\ CheckerInv /\ [Next]_vars => CheckerInv'
  BY CheckerStep
<1>3. QED
  BY <1>1, <1>2, CheckerInvInit, SpecBase, SpecOverlap, PTL DEF Spec
=============================================================================
