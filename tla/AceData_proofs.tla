---------------------------- MODULE AceData_proofs ----------------------------
(***************************************************************************)
(* Proofs about AceSystem, part 2: where the value of a word is.  As long  *)
(* as one cache alone uses exclusive accesses, transactions that snoop the *)
(* same line are ordered, and no cache discards a line it has to write     *)
(* back, every valid copy holds the last value stored, a request carries   *)
(* the value its access stores, a reader is given the last value, and the  *)
(* memory has it whenever no cache and no write on its way does.           *)
(***************************************************************************)
EXTENDS AceCoherence_proofs

(***************************************************************************)
(* Accesses and the requests made for them.                                *)
(***************************************************************************)

\* Loads and stores, as against maintenance.
AccessKinds == LoadKinds \cup StoreKinds

\* Transaction kind is one that cache c may use for access o, with the
\* monitor mon.
Fits(c, o, mon, kind) ==
    /\ kind \in FillKinds \cup {"CleanUnique"} =>
          LineOf(o) \notin NonShareable /\ o.kind \in AccessKinds
    /\ kind \in FillKinds /\ c \in WriteThroughCaches => kind = "ReadClean"
    /\ kind = "MakeUnique" => /\ o.kind \in StoreKinds /\ FullLine(o)
                              /\ IsExclusive(o) => StartAddr(o) \in mon
    /\ kind = "CleanUnique" => o.kind \in StoreKinds
    /\ kind \in UniqueWriteKinds =>
          /\ LineOf(o) \notin NonShareable /\ o.kind \in StoreKinds
          /\ c \in WriteThroughCaches
          /\ kind = "WriteLineUnique" => FullLine(o)
    /\ kind \in CmoKinds => o.kind \in CmoKinds /\ kind # "MakeInvalid"
    /\ kind \in NoSnoopKinds => LineOf(o) \in NonShareable
    /\ kind = "WriteNoSnoop" => o.kind \in StoreKinds

\* What outcome r of cache c asks for: the transaction issued and the one to
\* come; an Evict after which none is to come ends a failed clean_unique.
Fitting(c, o, r) ==
    /\ Fits(c, o, r.mon, r.req) /\ Fits(c, o, r.mon, r.want)
    /\ r.req \in FillKinds => ~r.ln.valid
    /\ r.req = "Evict" /\ r.want = "none" =>
          LineOf(o) \notin NonShareable /\ o.kind \in StoreKinds

\* The store o takes effect in the cache with outcome r (CacheHistory).
Takes(c, o, r) ==
    /\ r.req = "none" /\ o.kind \in StoreKinds
    /\ c \in WriteBackCaches /\ LineOf(o) \notin NonShareable
    /\ IsExclusive(o) => r.ok

\* write_line of a store that makes the line dirty.
StoredLine(ln, o) == write_line(ln, o, TRUE)

\* The line after the access has gone on with line ln: a store that takes
\* effect finds it unique.
Serves(c, o, ln, r) ==
    IF Takes(c, o, r)
    THEN Holds(ln, LineOf(o)) /\ ~ln.shared /\ r.ln = StoredLine(ln, o)
    ELSE r.ln = ln

\* Issuing nothing fits any access.
LEMMA NoneFits == \A c, o, mon : Fits(c, o, mon, "none")
<1>1. "none" \notin FillKinds \cup UniqueWriteKinds \cup CmoKinds \cup NoSnoopKinds
  BY DEF FillKinds, ReadKinds, UniqueWriteKinds, CmoKinds, NoSnoopKinds
<1>2. QED
  BY <1>1 DEF Fits

\* So does a copyback, which any access may need to make room.
LEMMA CopyBackFits ==
    ASSUME NEW c, NEW o, NEW mon, NEW kind \in CopyBackKinds
    PROVE  Fits(c, o, mon, kind)
<1>1. kind \notin FillKinds \cup UniqueWriteKinds \cup CmoKinds \cup NoSnoopKinds \cup {"CleanUnique"}
  BY KindClasses
<1>2. kind # "MakeUnique" /\ kind # "WriteNoSnoop"
  BY DEF CopyBackKinds
<1>3. QED
  BY <1>1, <1>2 DEF Fits

\* An outcome that issues a transaction leaves the line as it is.
LEMMA IssueServes ==
    ASSUME NEW c, NEW o, NEW ln, NEW tog, NEW mon, NEW req, NEW next, req # "none",
           Fits(c, o, mon, req), Fits(c, o, mon, next),
           req \in FillKinds => ~ln.valid,
           req = "Evict" => next # "none"
    PROVE  /\ Fitting(c, o, Issue(ln, tog, mon, req, next))
           /\ Serves(c, o, ln, Issue(ln, tog, mon, req, next))
           /\ Issue(ln, tog, mon, req, next).req = req
  BY DEF Fitting, Serves, Takes, Issue

\* So does one that ends an access other than a store that succeeds.
LEMMA FinishServes ==
    ASSUME NEW c, NEW o, NEW ln, NEW tog, NEW mon, NEW ok,
           o.kind \in StoreKinds /\ c \in WriteBackCaches /\ LineOf(o) \notin NonShareable
              => IsExclusive(o) /\ ~ok
    PROVE  /\ Fitting(c, o, Finish(ln, tog, mon, ok))
           /\ Serves(c, o, ln, Finish(ln, tog, mon, ok))
           /\ Finish(ln, tog, mon, ok).req = "none"
<1> DEFINE r == Finish(ln, tog, mon, ok)
<1>1. r.ln = ln /\ r.mon = mon /\ r.req = "none" /\ r.want = "none" /\ r.ok = ok
  BY DEF Finish
<1>2. "none" \notin FillKinds
  BY DEF FillKinds, ReadKinds
<1> HIDE DEF r
<1>3. QED
  BY <1>1, <1>2, NoneFits DEF Fitting, Serves, Takes, r

\* A fetch asks for the line, or for what must be evicted first.
LEMMA FetchServes ==
    ASSUME NEW c, NEW o, NEW ln \in CacheLine, NEW tog \in BOOLEAN, NEW mon, NEW kind \in FillKinds,
           Fits(c, o, mon, kind)
    PROVE  /\ Fitting(c, o, Fetch(ln, tog, mon, kind))
           /\ Serves(c, o, ln, Fetch(ln, tog, mon, kind))
           /\ Fetch(ln, tog, mon, kind).req # "none"
           /\ Fetch(ln, tog, mon, kind).req = "Evict" => ~ln.dirty
<1>1. /\ kind # "none" /\ kind # "Evict"
      /\ {"Evict", "WriteClean", "WriteBack"} = CopyBackKinds
      /\ "none" \notin CopyBackKinds /\ CopyBackKinds \cap FillKinds = {}
  BY DEF CopyBackKinds, FillKinds, ReadKinds
<1>2. \A k \in CopyBackKinds : Fits(c, o, mon, k)
  BY CopyBackFits
<1>3. ln.valid \in BOOLEAN /\ ln.dirty \in BOOLEAN
  BY DEF CacheLine
<1>4. CASE ~ln.valid
  <2>1. Fetch(ln, tog, mon, kind) = Issue(ln, tog, mon, kind, "none")
    BY <1>4 DEF Fetch
  <2>2. QED
    BY <1>1, <1>4, <2>1, NoneFits, IssueServes
<1>5. CASE ln.valid /\ ~ln.dirty
  <2>1. Fetch(ln, tog, mon, kind) = Issue(ln, tog, mon, "Evict", kind)
    BY <1>5 DEF Fetch
  <2>2. QED
    BY <1>1, <1>2, <1>5, <2>1, IssueServes
<1>6. CASE ln.valid /\ ln.dirty /\ ~tog
  <2>1. Fetch(ln, tog, mon, kind) = Issue(ln, ~tog, mon, "WriteClean", kind)
    BY <1>6 DEF Fetch
  <2>2. QED
    BY <1>1, <1>2, <2>1, IssueServes
<1>7. CASE ln.valid /\ ln.dirty /\ tog
  <2>1. Fetch(ln, tog, mon, kind) = Issue(ln, ~tog, mon, "WriteBack", kind)
    BY <1>7 DEF Fetch
  <2>2. QED
    BY <1>1, <1>2, <2>1, IssueServes
<1>8. QED
  BY <1>3, <1>4, <1>5, <1>6, <1>7

\* handle_load and handle_store.
LEMMA AccessServes ==
    ASSUME NEW c \in Caches, NEW o \in Op, NEW ln \in CacheLine, NEW tog \in BOOLEAN,
           NEW mon \in SUBSET Addr, o.kind \in AccessKinds, LineOf(o) \notin NonShareable,
           IsExclusive(o) => c \in WriteBackCaches
    PROVE  /\ Fitting(c, o, handle_access(c, o, ln, tog, mon))
           /\ Serves(c, o, ln, handle_access(c, o, ln, tog, mon))
           /\ handle_access(c, o, ln, tog, mon).req = "Evict" => ~ln.dirty
<1>0. c \in WriteBackCaches <=> c \notin WriteThroughCaches
  BY ProtocolAssumption DEF Caches
<1>1. /\ {"ReadShared", "ReadNotSharedDirty", "ReadClean", "ReadUnique", "MakeUnique"}
             \subseteq FillKinds
      /\ \A k \in LoadKinds : k \notin StoreKinds
      /\ "Evict" # "none"
  BY DEF FillKinds, ReadKinds, LoadKinds, StoreKinds
<1>2. \A k \in FillKinds : k \notin CmoKinds \cup UniqueWriteKinds \cup NoSnoopKinds \cup {"CleanUnique"}
  BY KindClasses
<1>3. \A k \in FillKinds :
         /\ c \in WriteThroughCaches => k = "ReadClean"
         /\ k = "MakeUnique" => /\ o.kind \in StoreKinds /\ FullLine(o)
                                /\ IsExclusive(o) => StartAddr(o) \in mon
         => Fits(c, o, mon, k)
  BY <1>2 DEF Fits, NoSnoopKinds
<1>4. (~tog) \in BOOLEAN
  OBVIOUS
<1> DEFINE Good(r) == /\ Fitting(c, o, r) /\ Serves(c, o, ln, r)
                      /\ r.req = "Evict" => ~ln.dirty
<1>5. \A g \in BOOLEAN : \A k \in FillKinds : Fits(c, o, mon, k) => Good(Fetch(ln, g, mon, k))
  BY FetchServes
<1>6. ASSUME NEW m \in SUBSET Addr, NEW ok,
             o.kind \in StoreKinds /\ c \in WriteBackCaches => IsExclusive(o) /\ ~ok
      PROVE  Good(Finish(ln, tog, m, ok))
  BY <1>1, <1>6, FinishServes
<1> HIDE DEF Good
<1>7. CASE o.kind \in LoadKinds /\ c \in WriteBackCaches
  <2>1. o.kind \notin StoreKinds
    BY <1>1, <1>7
  <2>2. \A k \in {"ReadShared", "ReadNotSharedDirty"} : Fits(c, o, mon, k)
    BY <1>0, <1>1, <1>3, <1>7
  <2>3. Good(WB_handle_load(o, ln, tog, mon))
    BY <1>1, <1>4, <1>5, <1>6, <2>1, <2>2 DEF WB_handle_load
  <2>4. QED
    BY <1>7, <2>3 DEF handle_access, Good
<1>8. CASE o.kind \in LoadKinds /\ c \notin WriteBackCaches
  <2>1. o.kind \notin StoreKinds
    BY <1>1, <1>8
  <2>2. Fits(c, o, mon, "ReadClean")
    BY <1>1, <1>3
  <2>3. Good(WT_handle_load(o, ln, tog, mon))
    BY <1>1, <1>5, <1>6, <2>1, <2>2 DEF WT_handle_load
  <2>4. QED
    BY <1>8, <2>3 DEF handle_access, Good
<1>9. CASE o.kind \notin LoadKinds /\ c \notin WriteBackCaches
  <2>1. o.kind \in StoreKinds /\ c \in WriteThroughCaches
    BY <1>0, <1>9 DEF AccessKinds
  <2>2. PICK k : k = IF FullLine(o) THEN "WriteLineUnique" ELSE "WriteUnique"
    OBVIOUS
  <2>3. k \in UniqueWriteKinds /\ k # "none" /\ k # "Evict" /\ k # "MakeUnique"
        /\ k # "WriteNoSnoop" /\ (k = "WriteLineUnique" => FullLine(o))
    BY <2>2 DEF UniqueWriteKinds
  <2>4. k \notin FillKinds \cup CmoKinds \cup NoSnoopKinds \cup {"CleanUnique"}
    BY <2>3, KindClasses
  <2>5. Fits(c, o, mon, k)
    BY <2>1, <2>3, <2>4 DEF Fits
  <2>6. WT_handle_store(o, ln, tog, mon) = Issue(ln, tog, mon, k, "none")
    BY <2>2 DEF WT_handle_store
  <2>7. Good(WT_handle_store(o, ln, tog, mon))
    BY <2>3, <2>4, <2>5, <2>6, NoneFits, IssueServes DEF Good
  <2>8. QED
    BY <1>9, <2>7 DEF handle_access, Good
<1>10. CASE o.kind \notin LoadKinds /\ c \in WriteBackCaches
  <2>1. o.kind \in StoreKinds /\ c \notin WriteThroughCaches
    BY <1>0, <1>10 DEF AccessKinds
  <2>2. CASE IsExclusive(o) /\ StartAddr(o) \notin mon
    <3>1. WB_handle_store(o, ln, tog, mon) = Finish(ln, tog, mon, FALSE)
      BY <2>2 DEF WB_handle_store
    <3>2. Good(Finish(ln, tog, mon, FALSE))
      BY <1>6, <2>2
    <3>3. QED
      BY <1>10, <3>1, <3>2 DEF handle_access, Good
  <2>3. CASE ~(IsExclusive(o) /\ StartAddr(o) \notin mon) /\ ~Holds(ln, LineOf(o))
    <3>1. PICK k : k = IF FullLine(o) THEN "MakeUnique" ELSE "ReadUnique"
      OBVIOUS
    <3>2. k \in FillKinds /\ Fits(c, o, mon, k)
      BY <1>1, <1>3, <2>1, <2>3, <3>1
    <3>3. WB_handle_store(o, ln, tog, mon) = Fetch(ln, tog, mon, k)
      BY <2>3, <3>1 DEF WB_handle_store
    <3>4. QED
      BY <1>5, <1>10, <3>2, <3>3 DEF handle_access, Good
  <2>4. CASE ~(IsExclusive(o) /\ StartAddr(o) \notin mon) /\ Holds(ln, LineOf(o)) /\ ln.shared
    <3>1. WB_handle_store(o, ln, tog, mon) = Issue(ln, tog, mon, "CleanUnique", "none")
      BY <2>4 DEF WB_handle_store
    <3>2. Fits(c, o, mon, "CleanUnique") /\ "CleanUnique" \notin FillKinds
      BY <2>1, KindClasses DEF Fits
    <3>3. Good(Issue(ln, tog, mon, "CleanUnique", "none"))
      BY <3>2, NoneFits, IssueServes DEF Good
    <3>4. QED
      BY <1>10, <3>1, <3>3 DEF handle_access, Good
  <2>5. CASE ~(IsExclusive(o) /\ StartAddr(o) \notin mon) /\ Holds(ln, LineOf(o)) /\ ~ln.shared
    <3> DEFINE m == IF IsExclusive(o) THEN mon \ {StartAddr(o)} ELSE mon
               w == StoredLine(ln, o)
               r == Finish(w, tog, m, IsExclusive(o))
    <3>1. WB_handle_store(o, ln, tog, mon) = r
      BY <2>5 DEF WB_handle_store, StoredLine
    <3>2. r.ln = w /\ r.mon = m /\ r.req = "none" /\ r.want = "none" /\ r.ok = IsExclusive(o)
      BY DEF Finish
    <3>3. "none" \notin FillKinds
      BY DEF FillKinds, ReadKinds
    <3> HIDE DEF r, m
    <3>4. Takes(c, o, r)
      BY <1>10, <2>1, <3>2 DEF Takes
    <3>5. Good(r)
      BY <2>5, <3>2, <3>3, <3>4, NoneFits DEF Good, Fitting, Serves
    <3>6. QED
      BY <1>10, <3>1, <3>5 DEF handle_access, Good
  <2>6. QED
    BY <2>2, <2>3, <2>4, <2>5
<1>11. QED
  BY <1>7, <1>8, <1>9, <1>10

\* b_transport begins access o.
LEMMA TransportServes ==
    ASSUME NothingDiscarded, NEW t \in Traffics, NEW c \in Caches, NEW o \in t[c],
           get_line(c, LineOf(o)) \in CacheLine, toggle[c] \in BOOLEAN,
           monitor[c] \in SUBSET Addr, c \in WriteThroughCaches => ~get_line(c, LineOf(o)).dirty
    PROVE  /\ Fitting(c, o, b_transport(c, o))
           /\ Serves(c, o, get_line(c, LineOf(o)), b_transport(c, o))
           /\ b_transport(c, o).req = "Evict" => ~get_line(c, LineOf(o)).dirty
<1> DEFINE ln == get_line(c, LineOf(o))
           tog == toggle[c]
           mon == monitor[c]
           Good(r) == /\ Fitting(c, o, r) /\ Serves(c, o, ln, r)
                      /\ r.req = "Evict" => ~ln.dirty
<1>0. /\ ln \in CacheLine /\ tog \in BOOLEAN /\ mon \in SUBSET Addr
      /\ c \in WriteThroughCaches => ~ln.dirty
  OBVIOUS
<1>1. b_transport(c, o) = IF o.kind \in CmoKinds THEN do_cache_maintenance(o, ln, tog, mon)
                          ELSE IF LineOf(o) \in NonShareable THEN no_snoop(o, ln, tog, mon)
                          ELSE handle_access(c, o, ln, tog, mon)
  BY DEF b_transport
<1> HIDE DEF ln, tog, mon
<1>2. /\ c \in Masters /\ o \in Op /\ o.kind \in OpKinds
      /\ IsExclusive(o) => c \in WriteBackCaches /\ LineOf(o) \notin NonShareable
  BY OpFacts, AccessFacts, CachesAreMasters
<1>3. o.kind # "MakeInvalid" /\ (o.kind = "CleanInvalid" => c \in WriteThroughCaches)
  BY DEF NothingDiscarded
<1>4. ASSUME o.kind \in CmoKinds
      PROVE  Good(do_cache_maintenance(o, ln, tog, mon))
  <2>1. /\ o.kind \notin FillKinds \cup UniqueWriteKinds \cup NoSnoopKinds \cup {"CleanUnique"}
        /\ o.kind # "none" /\ o.kind # "Evict"
    BY <1>4, KindClasses DEF CmoKinds
  <2>2. Fits(c, o, mon, o.kind)
    <3>1. o.kind # "MakeUnique" /\ o.kind # "WriteNoSnoop"
      BY <1>4 DEF CmoKinds
    <3>2. QED
      BY <1>3, <1>4, <2>1, <3>1 DEF Fits
  <2>3. \A k \in {"WriteClean", "Evict"} : k # "none" /\ k \notin FillKinds /\ Fits(c, o, mon, k)
    BY CopyBackFits DEF CopyBackKinds, FillKinds, ReadKinds
  <2>4. CASE Holds(ln, LineOf(o)) /\ o.kind = "CleanShared" /\ ln.dirty
    <3>1. do_cache_maintenance(o, ln, tog, mon) = Issue(ln, tog, mon, "WriteClean", o.kind)
      BY <2>4 DEF do_cache_maintenance
    <3>2. QED
      BY <2>1, <2>2, <2>3, <3>1, IssueServes
  <2>5. CASE Holds(ln, LineOf(o)) /\ o.kind # "CleanShared"
    <3>1. do_cache_maintenance(o, ln, tog, mon) = Issue(ln, tog, mon, "Evict", o.kind)
      BY <2>5 DEF do_cache_maintenance
    <3>2. ~ln.dirty
      BY <1>0, <1>3, <1>4, <2>5 DEF CmoKinds
    <3>3. QED
      BY <2>1, <2>2, <2>3, <3>1, <3>2, IssueServes
  <2>6. CASE ~(Holds(ln, LineOf(o)) /\ (o.kind = "CleanShared" => ln.dirty))
    <3>1. do_cache_maintenance(o, ln, tog, mon) = Issue(ln, tog, mon, o.kind, "none")
      BY <2>6 DEF do_cache_maintenance
    <3>2. QED
      BY <2>1, <2>2, <3>1, IssueServes, NoneFits
  <2>7. QED
    BY <2>4, <2>5, <2>6
<1>5. ASSUME LineOf(o) \in NonShareable
      PROVE  Good(no_snoop(o, ln, tog, mon))
  <2>1. PICK k : k = IF o.kind \in StoreKinds THEN "WriteNoSnoop" ELSE "ReadNoSnoop"
    OBVIOUS
  <2>2. k \in NoSnoopKinds /\ k # "none" /\ k # "Evict" /\ k # "MakeUnique"
        /\ (k = "WriteNoSnoop" => o.kind \in StoreKinds)
    BY <2>1 DEF NoSnoopKinds
  <2>3. k \notin FillKinds \cup CmoKinds \cup UniqueWriteKinds \cup {"CleanUnique"}
    BY <2>2, KindClasses
  <2>4. Fits(c, o, mon, k)
    BY <1>5, <2>2, <2>3 DEF Fits
  <2>5. no_snoop(o, ln, tog, mon) = Issue(ln, tog, mon, k, "none")
    BY <2>1 DEF no_snoop
  <2>6. QED
    BY <2>2, <2>3, <2>4, <2>5, IssueServes, NoneFits
<1>6. ASSUME o.kind \notin CmoKinds, LineOf(o) \notin NonShareable
      PROVE  Good(handle_access(c, o, ln, tog, mon))
  <2>1. o.kind \in AccessKinds
    BY <1>2, <1>6 DEF OpKinds, AccessKinds
  <2>2. QED
    BY <1>0, <1>2, <1>6, <2>1, AccessServes
<1> HIDE DEF Good
<1>7. Good(b_transport(c, o))
  BY <1>1, <1>4, <1>5, <1>6
<1>8. QED
  BY <1>7 DEF Good, ln

\* The line of a write_unique that hit.
KeptLine(ln, o) == [write_line(ln, o, FALSE) EXCEPT !.shared = TRUE]

\* The line that the access goes on with after response t, and that a plain
\* end leaves.
BaseLine(o, t, ln) ==
    CASE t.kind = "WriteClean"         -> [ln EXCEPT !.dirty = FALSE]
      [] t.kind \in {"WriteBack", "Evict"} -> [ln EXCEPT !.valid = FALSE]
      [] t.kind = "CleanUnique" /\ ln.valid  -> [ln EXCEPT !.shared = FALSE]
      [] t.kind = "CleanUnique" /\ ~ln.valid -> [ln EXCEPT !.valid = TRUE]
      [] t.kind \in UniqueWriteKinds -> IF Holds(ln, LineOf(o))
                                        THEN KeptLine(ln, o) ELSE ln
      [] t.kind \in FillKinds -> install(ln, LineOf(o), t)
      [] OTHER -> ln

\* What r is to be like after response t: no line is evicted dirty but the one
\* of a failed clean_unique, and make_unique is followed by its store.
Resumes(c, o, t, ln, r) ==
    /\ Fitting(c, o, r) /\ Serves(c, o, BaseLine(o, t, ln), r)
    /\ r.req = "Evict" /\ r.want # "none" => ~BaseLine(o, t, ln).dirty
    /\ r.req = "Evict" /\ r.want = "none" => t.kind = "CleanUnique" /\ ~ln.valid
    /\ t.kind = "MakeUnique" => Takes(c, o, r)

\* After a copyback the thread goes on: it fetches, or evict_line is done.
LEMMA CopyBackResumes ==
    ASSUME NEW c \in Caches, NEW t, NEW ln \in CacheLine, op[c] \in Op,
           toggle[c] \in BOOLEAN, monitor[c] \in SUBSET Addr, want[c] \in WantKinds,
           t.kind \in CopyBackKinds, t.kind # "Evict" => want[c] # "none",
           IsExclusive(op[c]) => c \in WriteBackCaches,
           Fits(c, op[c], monitor[c], want[c]),
           t.kind = "Evict" /\ want[c] = "none" =>
               LineOf(op[c]) \notin NonShareable /\ op[c].kind \in StoreKinds
    PROVE  /\ t.kind = "WriteClean" => Resumes(c, op[c], t, ln, WriteCleanResponse(c, ln))
           /\ t.kind = "WriteBack" => Resumes(c, op[c], t, ln, WriteBackResponse(c, ln))
           /\ t.kind = "Evict" => Resumes(c, op[c], t, ln, EvictResponse(c, ln))
<1> DEFINE o == op[c]
           w == want[c]
           tog == toggle[c]
           mon == monitor[c]
           gone == [ln EXCEPT !.valid = FALSE]
           cleaned == [ln EXCEPT !.dirty = FALSE]
<1>0. o \in Op /\ w \in WantKinds /\ tog \in BOOLEAN /\ mon \in SUBSET Addr
  OBVIOUS
<1>1. /\ gone \in CacheLine /\ gone.valid = FALSE
      /\ cleaned \in CacheLine /\ cleaned.dirty = FALSE
  BY DEF CacheLine
<1>2. /\ t.kind = "WriteClean" => BaseLine(o, t, ln) = cleaned
      /\ t.kind \in {"WriteBack", "Evict"} => BaseLine(o, t, ln) = gone
  <2>1. t.kind # "CleanUnique" /\ t.kind \notin UniqueWriteKinds /\ t.kind \notin FillKinds
    BY KindClasses
  <2>2. QED
    BY <2>1 DEF BaseLine
<1>3. /\ w # "none" => w \in FillKinds \cup CmoKinds
      /\ t.kind # "MakeUnique" /\ w # "Evict"
      /\ "Evict" \notin FillKinds /\ "none" \notin CmoKinds /\ CmoKinds \cap FillKinds = {}
  BY <1>0 DEF WantKinds, CopyBackKinds, FillKinds, ReadKinds, CmoKinds
<1>4. Fits(c, o, mon, "none") /\ Fits(c, o, mon, "Evict") /\ Fits(c, o, mon, w)
  BY NoneFits, CopyBackFits DEF CopyBackKinds
<1> HIDE DEF gone, cleaned, o, w, tog, mon
<1>5. ASSUME t.kind = "WriteClean"
      PROVE  Resumes(c, o, t, ln, WriteCleanResponse(c, ln))
  <2>1. CASE w \in CmoKinds
    <3>1. WriteCleanResponse(c, ln) = Issue(cleaned, tog, mon, w, "none")
      BY <2>1 DEF WriteCleanResponse, cleaned, w, tog, mon
    <3>2. Fitting(c, o, Issue(cleaned, tog, mon, w, "none"))
          /\ Serves(c, o, cleaned, Issue(cleaned, tog, mon, w, "none"))
          /\ Issue(cleaned, tog, mon, w, "none").req = w
      <4>1. w # "none" /\ w # "Evict" /\ (w \in FillKinds => ~cleaned.valid)
        BY <1>3, <2>1
      <4>2. QED
        BY <1>4, <4>1, IssueServes
    <3>3. QED
      BY <1>2, <1>3, <1>5, <3>1, <3>2 DEF Resumes
  <2>2. CASE w \notin CmoKinds
    <3>1. WriteCleanResponse(c, ln) = Issue(cleaned, tog, mon, "Evict", w)
      BY <2>2 DEF WriteCleanResponse, cleaned, w, tog, mon
    <3>2. w # "none"
      BY <1>5 DEF w
    <3>3. Fitting(c, o, Issue(cleaned, tog, mon, "Evict", w))
          /\ Serves(c, o, cleaned, Issue(cleaned, tog, mon, "Evict", w))
          /\ Issue(cleaned, tog, mon, "Evict", w).want = w
      <4>1. Issue(cleaned, tog, mon, "Evict", w).want = w
        BY DEF Issue
      <4>2. QED
        BY <1>3, <1>4, <3>2, <4>1, IssueServes
    <3>4. QED
      BY <1>1, <1>2, <1>3, <3>1, <3>2, <3>3, <1>5 DEF Resumes
  <2>3. QED
    BY <2>1, <2>2
<1>6. ASSUME w # "none", t.kind \in {"WriteBack", "Evict"}
      PROVE  Resumes(c, o, t, ln, Issue(gone, tog, mon, w, "none"))
  <2>1. Fitting(c, o, Issue(gone, tog, mon, w, "none"))
        /\ Serves(c, o, gone, Issue(gone, tog, mon, w, "none"))
        /\ Issue(gone, tog, mon, w, "none").req = w
    BY <1>1, <1>3, <1>4, <1>6, IssueServes
  <2>2. QED
    BY <1>2, <1>3, <1>6, <2>1 DEF Resumes
<1>7. ASSUME t.kind = "Evict"
      PROVE  Resumes(c, o, t, ln, EvictResponse(c, ln))
  <2>1. CASE w # "none"
    <3>1. EvictResponse(c, ln) = Issue(gone, tog, mon, w, "none")
      BY <2>1 DEF EvictResponse, gone, w, tog, mon
    <3>2. QED
      BY <1>6, <1>7, <2>1, <3>1
  <2>2. CASE w = "none" /\ IsExclusive(o)
    <3> DEFINE m == mon \ {StartAddr(o)}
    <3>1. EvictResponse(c, ln) = Finish(gone, tog, m, FALSE)
      BY <2>2 DEF EvictResponse, gone, w, tog, mon, o
    <3> HIDE DEF m
    <3>2. Fitting(c, o, Finish(gone, tog, m, FALSE)) /\ Serves(c, o, gone, Finish(gone, tog, m, FALSE))
          /\ Finish(gone, tog, m, FALSE).req = "none"
      BY <2>2, FinishServes
    <3>3. QED
      BY <1>2, <1>3, <1>7, <3>1, <3>2 DEF Resumes
  <2>3. CASE w = "none" /\ ~IsExclusive(o)
    <3> DEFINE r == handle_access(c, o, gone, tog, mon)
    <3>1. EvictResponse(c, ln) = r
      BY <2>3 DEF EvictResponse, gone, w, tog, mon, o
    <3>2. LineOf(o) \notin NonShareable /\ o.kind \in AccessKinds
      BY <1>7, <2>3 DEF o, w, AccessKinds
    <3>3. Fitting(c, o, r) /\ Serves(c, o, gone, r) /\ (r.req = "Evict" => ~gone.dirty)
      BY <1>0, <1>1, <2>3, <3>2, AccessServes
    <3>4. Looked(o, gone, r)
      BY <1>0, <1>1, AccessLooked
    <3>5. r.req # "Evict"
      BY <1>1, <3>4 DEF Looked, CopyBackKinds
    <3> HIDE DEF r
    <3>6. QED
      BY <1>2, <1>3, <1>7, <3>1, <3>3, <3>5 DEF Resumes
  <2>4. QED
    BY <2>1, <2>2, <2>3
<1>8. ASSUME t.kind = "WriteBack"
      PROVE  Resumes(c, o, t, ln, WriteBackResponse(c, ln))
  <2>1. WriteBackResponse(c, ln) = Issue(gone, tog, mon, w, "none") /\ w # "none"
    BY <1>8 DEF WriteBackResponse, gone, w, tog, mon
  <2>2. QED
    BY <1>6, <1>8, <2>1
<1>9. QED
  BY <1>5, <1>7, <1>8 DEF o

\* A line kept through a write-through is clean and has the word written.
LEMMA KeptLineParts ==
    ASSUME NEW o \in Op, NEW ln \in CacheLine
    PROVE  /\ KeptLine(ln, o) \in CacheLine
           /\ KeptLine(ln, o).valid = ln.valid /\ KeptLine(ln, o).tag = ln.tag
           /\ KeptLine(ln, o).shared /\ ~KeptLine(ln, o).dirty
           /\ \A w \in Words : KeptLine(ln, o).data[w] =
                 IF <<LineOf(o), w>> \in o.rng THEN o.val ELSE ln.data[w]
<1>1. o.val \in Values
  BY DEF Op
<1>2. PICK d : d = [w \in Words |-> IF <<LineOf(o), w>> \in o.rng THEN o.val ELSE ln.data[w]]
  OBVIOUS
<1>3. d \in LineData
  BY <1>1, <1>2 DEF CacheLine, LineData
<1>4. PICK k : k = [ln EXCEPT !.data = d, !.dirty = FALSE, !.shared = TRUE]
  OBVIOUS
<1>5. KeptLine(ln, o) = k
  BY <1>2, <1>4 DEF KeptLine, write_line, CacheLine
<1>6. k \in CacheLine /\ k.valid = ln.valid /\ k.tag = ln.tag /\ k.shared /\ ~k.dirty /\ k.data = d
  BY <1>3, <1>4 DEF CacheLine
<1>7. QED
  BY <1>2, <1>5, <1>6

\* write_line of a store that makes the line dirty.
LEMMA StoredLineParts ==
    ASSUME NEW o \in Op, NEW ln \in CacheLine
    PROVE  /\ StoredLine(ln, o) \in CacheLine
           /\ StoredLine(ln, o).valid = ln.valid /\ StoredLine(ln, o).tag = ln.tag
           /\ StoredLine(ln, o).shared = ln.shared /\ StoredLine(ln, o).dirty
           /\ \A w \in Words : StoredLine(ln, o).data[w] =
                 IF <<LineOf(o), w>> \in o.rng THEN o.val ELSE ln.data[w]
<1>1. o.val \in Values
  BY DEF Op
<1>2. PICK d : d = [w \in Words |-> IF <<LineOf(o), w>> \in o.rng THEN o.val ELSE ln.data[w]]
  OBVIOUS
<1>3. d \in LineData
  BY <1>1, <1>2 DEF CacheLine, LineData
<1>4. PICK k : k = [ln EXCEPT !.data = d, !.dirty = TRUE]
  OBVIOUS
<1>5. StoredLine(ln, o) = k
  BY <1>2, <1>4 DEF StoredLine, write_line, CacheLine
<1>6. k \in CacheLine /\ k.valid = ln.valid /\ k.tag = ln.tag /\ k.shared = ln.shared /\ k.dirty /\ k.data = d
  BY <1>3, <1>4 DEF CacheLine
<1>7. QED
  BY <1>2, <1>5, <1>6

\* A hit evicts nothing.
LEMMA HitStays ==
    ASSUME NEW c, NEW o, NEW ln, NEW tog, NEW mon, Holds(ln, LineOf(o))
    PROVE  handle_access(c, o, ln, tog, mon).req # "Evict"
<1>1. \A w, m, ok : Finish(w, tog, m, ok).req = "none"
  BY DEF Finish
<1>2. \A k : Issue(ln, tog, mon, k, "none").req = k
  BY DEF Issue
<1>3. WB_handle_load(o, ln, tog, mon).req # "Evict"
  BY <1>1 DEF WB_handle_load
<1>4. WT_handle_load(o, ln, tog, mon).req # "Evict"
  BY <1>1 DEF WT_handle_load
<1>5. WT_handle_store(o, ln, tog, mon).req # "Evict"
  <2>1. PICK k : k = (IF FullLine(o) THEN "WriteLineUnique" ELSE "WriteUnique")
    OBVIOUS
  <2>2. WT_handle_store(o, ln, tog, mon) = Issue(ln, tog, mon, k, "none") /\ k # "Evict"
    BY <2>1 DEF WT_handle_store
  <2>3. QED
    BY <1>2, <2>2
<1>6. WB_handle_store(o, ln, tog, mon).req # "Evict"
  BY <1>1, <1>2 DEF WB_handle_store
<1>7. QED
  BY <1>3, <1>4, <1>5, <1>6 DEF handle_access

\* After CleanUnique the store is done in the line, if it is still there.
LEMMA CleanUniqueResumes ==
    ASSUME NEW c \in Caches, NEW t, NEW ln \in CacheLine, op[c] \in Op,
           toggle[c] \in BOOLEAN, monitor[c] \in SUBSET Addr, t.kind = "CleanUnique",
           IsExclusive(op[c]) => c \in WriteBackCaches,
           LineOf(op[c]) \notin NonShareable, op[c].kind \in StoreKinds,
           ln.valid => ln.tag = LineOf(op[c])
    PROVE  Resumes(c, op[c], t, ln, CleanUniqueResponse(c, t, ln))
<1> DEFINE o == op[c]
           tog == toggle[c]
           mon == monitor[c]
           mine == [ln EXCEPT !.shared = FALSE]
           again == [ln EXCEPT !.valid = TRUE]
<1>0. /\ o \in Op /\ tog \in BOOLEAN /\ mon \in SUBSET Addr /\ t.kind # "MakeUnique"
      /\ "Evict" \notin FillKinds /\ ln.valid \in BOOLEAN
  BY DEF FillKinds, ReadKinds, CacheLine
<1>1. /\ mine \in CacheLine /\ mine.valid = ln.valid
      /\ again \in CacheLine /\ mine.tag = ln.tag
  BY DEF CacheLine
<1>2. /\ ln.valid => BaseLine(o, t, ln) = mine
      /\ ~ln.valid => BaseLine(o, t, ln) = again
  <2>1. t.kind \notin UniqueWriteKinds \cup FillKinds
    BY KindClasses
  <2>2. QED
    BY <1>0, <2>1 DEF BaseLine
<1>3. CASE ~ln.valid
  <2> DEFINE r == Issue(again, tog, mon, "Evict", "none")
  <2>1. CleanUniqueResponse(c, t, ln) = r
    BY <1>3 DEF CleanUniqueResponse
  <2> HIDE DEF tog, mon, again
  <2>2. r.ln = again /\ r.req = "Evict" /\ r.want = "none" /\ r.mon = mon
    BY DEF Issue
  <2>3. Fits(c, o, mon, "Evict") /\ Fits(c, o, mon, "none")
    BY NoneFits, CopyBackFits DEF CopyBackKinds
  <2> HIDE DEF r
  <2>4. ~Takes(c, o, r)
    BY <2>2 DEF Takes
  <2>5. QED
    BY <1>0, <1>2, <1>3, <2>1, <2>2, <2>3, <2>4 DEF Resumes, Fitting, Serves
<1>4. CASE ln.valid /\ IsExclusive(o) /\ ~t.exokay
  <2> DEFINE m == mon \ {StartAddr(o)}
  <2>1. CleanUniqueResponse(c, t, ln) = Finish(mine, tog, m, FALSE)
    BY <1>4 DEF CleanUniqueResponse
  <2> HIDE DEF mine, o, tog, mon, m
  <2>2. Fitting(c, o, Finish(mine, tog, m, FALSE)) /\ Serves(c, o, mine, Finish(mine, tog, m, FALSE))
        /\ Finish(mine, tog, m, FALSE).req = "none"
    BY <1>4, FinishServes
  <2>3. Resumes(c, o, t, ln, Finish(mine, tog, m, FALSE))
    BY <1>0, <1>2, <1>4, <2>2 DEF Resumes
  <2>4. QED
    BY <2>1, <2>3 DEF o
<1>5. CASE ln.valid /\ ~(IsExclusive(o) /\ ~t.exokay)
  <2> DEFINE r == handle_access(c, o, mine, tog, mon)
  <2>1. CleanUniqueResponse(c, t, ln) = r
    BY <1>5 DEF CleanUniqueResponse
  <2>2. o.kind \in AccessKinds /\ LineOf(o) \notin NonShareable
        /\ (IsExclusive(o) => c \in WriteBackCaches)
    BY DEF AccessKinds
  <2> HIDE DEF mine, o, tog, mon
  <2>3. Fitting(c, o, r) /\ Serves(c, o, mine, r) /\ (r.req = "Evict" => ~mine.dirty)
    BY <1>0, <1>1, <2>2, AccessServes
  <2>4. Looked(o, mine, r)
    BY <1>0, <1>1, AccessLooked
  <2>5. r.req = "Evict" => r.want # "none"
    <3>1. o.kind \in StoreKinds /\ (ln.valid => ln.tag = LineOf(o))
      BY DEF o
    <3>2. Holds(mine, LineOf(o))
      BY <1>1, <1>5, <3>1 DEF Holds
    <3>3. QED
      BY <3>2, HitStays
  <2> HIDE DEF r
  <2>6. Resumes(c, o, t, ln, r)
    BY <1>0, <1>2, <1>5, <2>3, <2>5 DEF Resumes
  <2>7. QED
    BY <2>1, <2>6 DEF o
<1>6. QED
  BY <1>0, <1>3, <1>4, <1>5

\* After a write-through the access is over.
LEMMA WriteUniqueResumes ==
    ASSUME NEW c \in Caches, NEW t, NEW ln \in CacheLine,
           t.kind \in UniqueWriteKinds, c \in WriteThroughCaches
    PROVE  Resumes(c, op[c], t, ln, WriteUniqueResponse(c, ln))
<1> DEFINE o == op[c]
           w == IF Holds(ln, LineOf(o)) THEN KeptLine(ln, o) ELSE ln
           r == Finish(w, toggle[c], monitor[c], FALSE)
<1>1. WriteUniqueResponse(c, ln) = r
  BY DEF WriteUniqueResponse, KeptLine
<1>2. BaseLine(o, t, ln) = w /\ t.kind # "MakeUnique"
  <2>1. t.kind \notin CopyBackKinds /\ t.kind # "CleanUnique" /\ t.kind # "MakeUnique"
    BY KindClasses DEF UniqueWriteKinds
  <2>2. QED
    BY <2>1, KindClasses DEF BaseLine
<1>3. c \notin WriteBackCaches
  BY ProtocolAssumption
<1> HIDE DEF w, o
<1>4. Fitting(c, o, r) /\ Serves(c, o, w, r) /\ r.req = "none"
  BY <1>3, FinishServes
<1> HIDE DEF r
<1>5. Resumes(c, o, t, ln, r)
  BY <1>2, <1>4 DEF Resumes
<1>6. QED
  BY <1>1, <1>5 DEF o

\* After a fill the access goes on with the line installed.
LEMMA FillResumes ==
    ASSUME NEW c \in Caches, NEW t, NEW ln \in CacheLine, op[c] \in Op,
           toggle[c] \in BOOLEAN, monitor[c] \in SUBSET Addr, NEW mon \in SUBSET Addr,
           mon = IF op[c].kind = "LoadEx" THEN monitor[c] \cup {StartAddr(op[c])} ELSE monitor[c],
           t.kind \in FillKinds, Fits(c, op[c], monitor[c], t.kind),
           IsExclusive(op[c]) => c \in WriteBackCaches,
           t.shared \in BOOLEAN, t.dirty \in BOOLEAN, t.exokay \in BOOLEAN,
           ToLine(t.data, LineOf(op[c])) \in LineData, NEW r,
           r = handle_access(c, op[c], install(ln, LineOf(op[c]), t), toggle[c], mon)
    PROVE  Resumes(c, op[c], t, ln, [r EXCEPT !.ok = @ /\ (op[c].kind = "LoadEx" => t.exokay)])
<1> DEFINE o == op[c]
           l == LineOf(o)
           new == install(ln, l, t)
           ok == r.ok /\ (o.kind = "LoadEx" => t.exokay)
           r2 == [r EXCEPT !.ok = ok]
<1>1. l \in Lines
  BY AccessFacts
<1>2. new \in CacheLine /\ new.valid /\ new.tag = l /\ (t.kind = "MakeUnique" => ~new.shared)
  <2>1. CASE t.kind = "MakeUnique"
    BY <1>1, <2>1 DEF install, make_unique, CacheLine
  <2>2. CASE t.kind # "MakeUnique"
    <3> DEFINE d == t.kind # "ReadClean" /\ t.dirty
               ld == ToLine(t.data, l)
    <3>1. d \in BOOLEAN /\ ld \in LineData
      OBVIOUS
    <3>2. new = [ln EXCEPT !.valid = TRUE, !.tag = l, !.shared = t.shared,
                           !.dirty = d, !.data = ld]
      BY <2>2 DEF install, read_fill
    <3> HIDE DEF d, l, ld, new
    <3>3. QED
      BY <1>1, <2>2, <3>1, <3>2 DEF CacheLine
  <2>3. QED
    BY <2>1, <2>2
<1>3. BaseLine(o, t, ln) = new
  <2>1. t.kind \notin CopyBackKinds /\ t.kind # "CleanUnique" /\ t.kind \notin UniqueWriteKinds
    BY KindClasses
  <2>2. QED
    BY <2>1, KindClasses DEF BaseLine
<1>4. o.kind \in AccessKinds /\ LineOf(o) \notin NonShareable
      /\ (IsExclusive(o) => c \in WriteBackCaches)
  BY DEF Fits
<1> HIDE DEF new, ok
<1>5. r = handle_access(c, o, new, toggle[c], mon)
  BY DEF new
<1>6. Fitting(c, o, r) /\ Serves(c, o, new, r) /\ (r.req = "Evict" => ~new.dirty) /\ Looked(o, new, r)
  <2> HIDE DEF l, o
  <2>1. o \in Op /\ toggle[c] \in BOOLEAN
    BY DEF o
  <2>2. QED
    BY <1>2, <1>4, <1>5, <2>1, AccessServes, AccessLooked
<1>7. Holds(new, LineOf(o))
  BY <1>2 DEF Holds
<1>8. r.req # "Evict"
  BY <1>5, <1>7, HitStays
<1>9. r \in Result
  BY <1>6 DEF Looked
<1>10. /\ r2.ln = r.ln /\ r2.req = r.req /\ r2.want = r.want /\ r2.mon = r.mon
       /\ r2.ok = ok
  BY <1>9 DEF Result
<1>11. o.kind \in StoreKinds => ok = r.ok
  BY <1>9 DEF ok, StoreKinds, Result
<1> HIDE DEF r2, l
<1>12. Fitting(c, o, r2) /\ Takes(c, o, r2) = Takes(c, o, r)
  BY <1>6, <1>10, <1>11 DEF Fitting, Takes
<1>13. Serves(c, o, new, r2)
  BY <1>6, <1>10, <1>12 DEF Serves
<1>14. t.kind = "MakeUnique" => Takes(c, o, r)
  <2>1. SUFFICES ASSUME t.kind = "MakeUnique"  PROVE Takes(c, o, r)
    OBVIOUS
  <2>2. /\ o.kind \in StoreKinds /\ (IsExclusive(o) => StartAddr(o) \in monitor[c])
        /\ c \notin WriteThroughCaches /\ c \in WriteBackCaches
    BY <2>1 DEF Fits, Caches
  <2>3. mon = monitor[c] /\ o.kind \notin LoadKinds
    BY <2>2 DEF StoreKinds, LoadKinds
  <2>4. \E m : r = Finish(write_line(new, o, TRUE), toggle[c], m, IsExclusive(o))
    BY <1>2, <1>5, <1>7, <2>1, <2>2, <2>3 DEF handle_access, WB_handle_store
  <2>5. r.req = "none" /\ r.ok = IsExclusive(o)
    BY <2>4 DEF Finish
  <2>6. QED
    BY <1>4, <2>2, <2>5 DEF Takes
<1>15. Resumes(c, o, t, ln, r2)
  BY <1>3, <1>8, <1>10, <1>12, <1>13, <1>14 DEF Resumes
<1>16. QED
  BY <1>15 DEF r2, ok, o

\* The transaction of m writes what its access stores.
Writes(m) ==
    /\ op[m].kind \in StoreKinds /\ tx[m].rng = op[m].rng
    /\ tx[m].data = [a \in op[m].rng |-> op[m].val]

\* What cache c has issued, and what it waits to issue next, fits its access.
RequestOk(c) ==
    /\ Fits(c, op[c], monitor[c], tx[c].kind) /\ Fits(c, op[c], monitor[c], want[c])
    /\ tx[c].kind \in FillKinds => ~LineIn(c).valid
    /\ tx[c].kind = "Evict" /\ want[c] = "none" =>
          LineOf(op[c]) \notin NonShareable /\ op[c].kind \in StoreKinds
    /\ tx[c].kind \in UniqueWriteKinds \cup {"WriteNoSnoop"} => Writes(c)

\* The transaction of an ACE-Lite master covers its access.
LiteRequestOk(m) ==
    /\ tx[m].rng = op[m].rng
    /\ tx[m].kind = "WriteUnique" => Writes(m)

\* Every master asks for what its access needs.
RequestInv ==
    /\ \A c \in Caches : op[c] # NoOp => RequestOk(c)
    /\ \A m \in LiteMasters : op[m] # NoOp => LiteRequestOk(m)

\* Lines outside the shareable region are not cached, and a write-through
\* cache has nothing to write back.
LinesInv ==
    \A c \in Caches, i \in Slots :
        /\ cacheline[c][i].valid => cacheline[c][i].tag \notin NonShareable
        /\ c \in WriteThroughCaches => ~cacheline[c][i].dirty

\* The response of its transaction, whatever it is.
LEMMA ResponseResumes ==
    ASSUME BaseInv, NEW c \in Caches, tx[c].phase = "resp", RequestOk(c)
    PROVE  Resumes(c, op[c], tx[c], LineIn(c), Response(c, tx[c]))
<1> DEFINE o == op[c]
           t == tx[c]
           ln == LineIn(c)
<1>1. /\ IcnTypeOK /\ CacheTypeOK /\ AccessInv /\ c \in Masters /\ traffic \in Traffics
  BY CachesAreMasters DEF BaseInv, TypeOK, AccessInv
<1>2. /\ o \in Op /\ o \in traffic[c] /\ AsksRight(c) /\ t.kind \in TxKinds
      /\ LineOf(o) \in Lines /\ ln \in CacheLine
  BY ResponseFacts
<1>3. /\ toggle[c] \in BOOLEAN /\ monitor[c] \in SUBSET Addr /\ want[c] \in WantKinds
      /\ t \in Tx
  BY <1>1 DEF CacheTypeOK, AccessInv, IcnTypeOK
<1>4. /\ o.rng \subseteq LineAddr(LineOf(o))
      /\ IsExclusive(o) => c \in WriteBackCaches
  BY <1>1, <1>2, OpFacts
<1>5. /\ t.shared \in BOOLEAN /\ t.dirty \in BOOLEAN /\ t.exokay \in BOOLEAN
  BY <1>3 DEF Tx
<1>6. /\ t.kind # "ReadOnce"
      /\ t.kind \in {"WriteBack", "WriteClean"} => want[c] # "none"
      /\ t.kind = "CleanUnique" => ln.tag = LineOf(o)
  BY <1>2 DEF AsksRight
<1>7. /\ Fits(c, o, monitor[c], t.kind) /\ Fits(c, o, monitor[c], want[c])
      /\ t.kind = "Evict" /\ want[c] = "none" =>
             LineOf(o) \notin NonShareable /\ o.kind \in StoreKinds
  BY DEF RequestOk
<1>8. ln = get_line(c, LineOf(o))
  BY DEF LineIn
<1>9. CASE t.kind \in CopyBackKinds
  <2>1. /\ t.kind = "WriteClean" => Response(c, t) = WriteCleanResponse(c, ln)
        /\ t.kind = "WriteBack" => Response(c, t) = WriteBackResponse(c, ln)
        /\ t.kind = "Evict" => Response(c, t) = EvictResponse(c, ln)
    BY <1>8, <1>9, KindClasses DEF Response
  <2>2. t.kind # "Evict" => want[c] # "none"
    BY <1>6, <1>9 DEF CopyBackKinds
  <2> HIDE DEF t, ln
  <2>3. /\ t.kind = "WriteClean" => Resumes(c, op[c], t, ln, WriteCleanResponse(c, ln))
        /\ t.kind = "WriteBack" => Resumes(c, op[c], t, ln, WriteBackResponse(c, ln))
        /\ t.kind = "Evict" => Resumes(c, op[c], t, ln, EvictResponse(c, ln))
    BY <1>2, <1>3, <1>4, <1>7, <1>9, <2>2, CopyBackResumes
  <2>4. Resumes(c, o, t, ln, Response(c, t))
    BY <1>9, <2>1, <2>3, KindClasses
  <2>5. QED
    BY <2>4 DEF t, ln
<1>10. CASE t.kind = "CleanUnique"
  <2>1. Response(c, t) = CleanUniqueResponse(c, t, ln)
    BY <1>8, <1>10, KindClasses DEF Response
  <2>2. LineOf(o) \notin NonShareable /\ o.kind \in StoreKinds
    BY <1>7, <1>10 DEF Fits
  <2> HIDE DEF t, ln
  <2>3. Resumes(c, op[c], t, ln, CleanUniqueResponse(c, t, ln))
    BY <1>2, <1>3, <1>4, <1>6, <1>10, <2>2, CleanUniqueResumes
  <2>4. QED
    BY <2>1, <2>3 DEF t, ln
<1>11. CASE t.kind \in UniqueWriteKinds
  <2>1. Response(c, t) = WriteUniqueResponse(c, ln)
    BY <1>8, <1>11, KindClasses DEF Response
  <2>2. c \in WriteThroughCaches
    BY <1>7, <1>11 DEF Fits
  <2> HIDE DEF t, ln
  <2>3. Resumes(c, op[c], t, ln, WriteUniqueResponse(c, ln))
    BY <1>2, <1>11, <2>2, WriteUniqueResumes
  <2>4. QED
    BY <2>1, <2>3 DEF t, ln
<1>12. CASE t.kind \in CmoKinds \cup NoSnoopKinds
  <2>1. Response(c, t) = Finish(ln, toggle[c], monitor[c], FALSE)
    BY <1>8, <1>12, KindClasses DEF Response
  <2>2. BaseLine(o, t, ln) = ln /\ t.kind # "MakeUnique"
    <3>1. /\ t.kind \notin {"WriteClean", "WriteBack", "Evict", "CleanUnique"}
          /\ t.kind \notin UniqueWriteKinds /\ t.kind \notin FillKinds
      BY <1>12, KindClasses
    <3>2. "MakeUnique" \in FillKinds
      BY DEF FillKinds
    <3>3. QED
      BY <3>1, <3>2 DEF BaseLine
  <2>3. ~(o.kind \in StoreKinds /\ LineOf(o) \notin NonShareable)
    <3>1. \A k \in CmoKinds : k \notin StoreKinds
      BY DEF CmoKinds, StoreKinds
    <3>2. QED
      BY <1>7, <1>12, <3>1 DEF Fits
  <2> HIDE DEF t, ln, o
  <2>4. Fitting(c, o, Finish(ln, toggle[c], monitor[c], FALSE))
        /\ Serves(c, o, ln, Finish(ln, toggle[c], monitor[c], FALSE))
        /\ Finish(ln, toggle[c], monitor[c], FALSE).req = "none"
    <3>1. PICK no : no = FALSE
      OBVIOUS
    <3>2. Fitting(c, o, Finish(ln, toggle[c], monitor[c], no))
          /\ Serves(c, o, ln, Finish(ln, toggle[c], monitor[c], no))
          /\ Finish(ln, toggle[c], monitor[c], no).req = "none"
      BY <2>3, FinishServes
    <3>3. QED
      BY <3>1, <3>2
  <2>5. Resumes(c, o, t, ln, Response(c, t))
    BY <2>1, <2>2, <2>4 DEF Resumes
  <2>6. QED
    BY <2>5 DEF t, ln, o
<1>13. CASE t.kind \in FillKinds
  <2> DEFINE mon == IF o.kind = "LoadEx" THEN monitor[c] \cup {StartAddr(o)} ELSE monitor[c]
             r == handle_access(c, o, install(ln, LineOf(o), t), toggle[c], mon)
  <2>1. Response(c, t) = [r EXCEPT !.ok = @ /\ (o.kind = "LoadEx" => t.exokay)]
    BY <1>8, <1>13, KindClasses DEF Response
  <2>2. mon \in SUBSET Addr
    BY <1>2, <1>3, <1>4, StartAddrType
  <2>3. ToLine(t.data, LineOf(o)) \in LineData
    <3>1. t.rng = LineAddr(LineOf(o))
      BY <1>2, <1>13, KindClasses DEF AsksRight, PayloadRange
    <3>2. t.data \in [t.rng -> Values]
      BY <1>1 DEF IcnTypeOK
    <3>3. QED
      BY <3>1, <3>2 DEF ToLine, LineData, LineAddr
  <2> HIDE DEF t, ln, r
  <2>4. r = handle_access(c, op[c], install(ln, LineOf(op[c]), t), toggle[c], mon)
    BY DEF r
  <2>5. mon = IF op[c].kind = "LoadEx" THEN monitor[c] \cup {StartAddr(op[c])} ELSE monitor[c]
    OBVIOUS
  <2> HIDE DEF mon
  <2>6. Resumes(c, op[c], t, ln, [r EXCEPT !.ok = @ /\ (op[c].kind = "LoadEx" => t.exokay)])
    BY <1>2, <1>3, <1>4, <1>5, <1>7, <1>13, <2>2, <2>3, <2>4, <2>5, FillResumes
  <2>7. QED
    BY <2>1, <2>6 DEF t, ln
<1>14. QED
  BY <1>2, <1>6, <1>9, <1>10, <1>11, <1>12, <1>13, KindClasses

-----------------------------------------------------------------------------
\* A step of cache c with all it does to the data of the system.
CacheData(c, o, r) ==
    /\ CacheTurns(c, o, r) /\ Fitting(c, o, r)
    /\ latest' = IF Takes(c, o, r) THEN Stored(o) ELSE latest
    /\ UNCHANGED <<memory, downstream>> /\ traffic' = traffic
    /\ LET ln == get_line(c, LineOf(o)) IN
       \/ /\ tx[c].phase = "idle" /\ tx[c].kind = "none"
          /\ Looked(o, ln, r) /\ Serves(c, o, ln, r)
          /\ r.req = "Evict" => ~ln.dirty
       \/ /\ tx[c].phase = "resp" /\ o = op[c] /\ AsksRight(c)
          /\ tx[c].kind \in TxKinds
          /\ Answered(o, ln, tx[c], r) /\ Resumes(c, o, tx[c], ln, r)

\* The history of a turn: a store is the last value stored, if it takes effect.
LEMMA HistoryTakes ==
    ASSUME NEW c, NEW o, NEW r, NEW d, CacheHistory(c, o, r, d)
    PROVE  latest' = (IF Takes(c, o, r) THEN Stored(o) ELSE latest) /\ traffic' = traffic
  BY DEF CacheHistory, Takes, Observe

\* Both actions of a cache's thread are turns in the sense of CacheData.
LEMMA CacheDataKinds ==
    ASSUME BaseInv, RequestInv, LinesInv, NothingDiscarded,
           NEW c \in Caches, CacheStart(c) \/ CacheResume(c)
    PROVE  \E o, r : CacheData(c, o, r)
<1>1. c \in Masters /\ IcnTypeOK /\ CacheTypeOK /\ AccessInv
  BY CachesAreMasters DEF BaseInv, TypeOK
<1>2. CASE CacheStart(c)
  <2>1. PICK o \in traffic[c] : /\ CacheStep(c, o, b_transport(c, o))
                                /\ tx' = [tx EXCEPT ![c] = NextTx(o, b_transport(c, o))]
                                /\ CacheHistory(c, o, b_transport(c, o), Nothing)
    BY <1>2 DEF CacheStart
  <2>2. PICK r : r = b_transport(c, o)
    OBVIOUS
  <2>3. o \in Op
    BY <1>1, OpFacts DEF AccessInv
  <2>4. /\ get_line(c, LineOf(o)) \in CacheLine /\ toggle[c] \in BOOLEAN
        /\ monitor[c] \in SUBSET Addr
        /\ c \in WriteThroughCaches => ~get_line(c, LineOf(o)).dirty
    BY <1>1, <2>3, AccessFacts, SlotOf DEF CacheTypeOK, get_line, LinesInv
  <2>5. Looked(o, get_line(c, LineOf(o)), r)
    BY <2>2, <2>3, <2>4, TransportLooked
  <2>6. r \in Result
    BY <2>5 DEF Looked
  <2>7. NextTx(o, r).phase \in {"idle", "req"}
    BY <2>3, <2>6, NextTxTurn
  <2>8. UNCHANGED <<snoop, overlap, memory, downstream>> /\ op[c] = NoOp
    BY <1>2 DEF CacheStart
  <2>9. tx[c].phase = "idle" /\ tx[c].kind = "none"
    BY <1>1, <2>8, AccessParts
  <2>10. CacheTurns(c, o, r)
    BY <2>1, <2>2, <2>3, <2>5, <2>6, <2>7, <2>8, <2>9 DEF CacheTurns
  <2>11. /\ Fitting(c, o, r) /\ Serves(c, o, get_line(c, LineOf(o)), r)
         /\ r.req = "Evict" => ~get_line(c, LineOf(o)).dirty
    BY <1>1, <2>2, <2>4, TransportServes DEF AccessInv
  <2>12. latest' = (IF Takes(c, o, r) THEN Stored(o) ELSE latest) /\ traffic' = traffic
    BY <2>1, <2>2, HistoryTakes
  <2>13. QED
    BY <2>5, <2>8, <2>9, <2>10, <2>11, <2>12 DEF CacheData
<1>3. CASE CacheResume(c)
  <2>1. PICK o, r : o = op[c] /\ r = Response(c, tx[c])
    OBVIOUS
  <2>2. /\ tx[c].phase = "resp" /\ CacheStep(c, o, r) /\ Deliver(c, NextTx(o, r))
        /\ CacheHistory(c, o, r, tx[c].data)
    BY <1>3, <2>1 DEF CacheResume, ResponseReady
  <2>3. /\ o \in Op /\ o \in traffic[c] /\ AsksRight(c) /\ tx[c].kind \in TxKinds
        /\ Answered(o, get_line(c, LineOf(o)), tx[c], r)
    BY <2>1, <2>2, ResponseFacts DEF LineIn
  <2>4. r \in Result /\ o # NoOp
    BY <2>3, AccessFacts DEF Answered
  <2>5. NextTx(o, r).phase \in {"idle", "req"}
    BY <2>3, <2>4, NextTxTurn
  <2>6. /\ UNCHANGED <<snoop, memory, downstream>> /\ tx' = [tx EXCEPT ![c] = NextTx(o, r)]
        /\ overlap' = [overlap EXCEPT ![c] = [l \in Lines |->
                            IF l \in LinesOf(tx[c].rng) THEN Without(@[l], c) ELSE @[l]]]
    BY <2>2 DEF Deliver
  <2>7. CacheTurns(c, o, r)
    BY <2>1, <2>2, <2>3, <2>4, <2>5, <2>6 DEF CacheTurns
  <2>8. Resumes(c, o, tx[c], get_line(c, LineOf(o)), r)
    <3>1. RequestOk(c)
      BY <2>1, <2>4 DEF RequestInv
    <3>2. QED
      BY <2>1, <2>2, <3>1, ResponseResumes DEF LineIn
  <2>9. Fitting(c, o, r)
    BY <2>8 DEF Resumes
  <2>10. latest' = (IF Takes(c, o, r) THEN Stored(o) ELSE latest) /\ traffic' = traffic
    BY <2>2, HistoryTakes
  <2>11. QED
    BY <2>1, <2>2, <2>3, <2>6, <2>7, <2>8, <2>9, <2>10 DEF CacheData
<1>4. QED
  BY <1>2, <1>3

-----------------------------------------------------------------------------
(***************************************************************************)
(* What the steps of the interconnect do to payloads, snooped data and     *)
(* memory.                                                                 *)
(***************************************************************************)
SamePayload(a, b) ==
    /\ a.kind = b.kind /\ a.rng = b.rng /\ a.data = b.data
    /\ a.ok = b.ok /\ a.shared = b.shared /\ a.dirty = b.dirty /\ a.segs = b.segs

\* The transaction of x is as it was, but for a restart.
Stays(x) ==
    /\ SamePayload(tx'[x], tx[x])
    /\ \/ tx'[x].phase = tx[x].phase
       \/ tx[x].phase = "stalled" /\ tx'[x].phase = "engine"

\* Only m's transaction moves.
OthersStay(m) == \A x \in Masters \ {m} : Stays(x)

\* A transaction that is as it was stays.
LEMMA SameStays == ASSUME NEW x, tx'[x] = tx[x] PROVE Stays(x)
  BY DEF Stays, SamePayload

\* Completing one transaction changes no other but for restarts.
LEMMA CompletedStays ==
    ASSUME IcnTypeOK, NEW m \in Masters, NEW t, Completed(m, t)
    PROVE  OthersStay(m)
<1> SUFFICES ASSUME NEW x \in Masters \ {m} PROVE Stays(x)
  BY DEF OthersStay
<1>1. CASE tx'[x] = tx[x]
  BY <1>1, SameStays
<1>2. CASE tx[x].phase = "stalled" /\ tx'[x] = [tx[x] EXCEPT !.phase = "engine"]
  <2>1. tx[x] \in Tx
    BY DEF IcnTypeOK
  <2>2. QED
    BY <1>2, <2>1 DEF Tx, Stays, SamePayload
<1>3. QED
  BY <1>1, <1>2 DEF Completed

\* The bridge of m lists the response.
OverlapDone(m) ==
    overlap' = IF m \in Caches
               THEN [overlap EXCEPT ![m] = [l \in Lines |->
                        IF l \in LinesOf(tx[m].rng) THEN Append(@[l], m) ELSE @[l]]]
               ELSE overlap

\* b_transport: only the phase changes, or an Evict is answered at once.
LEMMA AcceptData ==
    ASSUME BaseInv, NEW m \in Masters, Accept(m)
    PROVE  /\ tx[m].phase = "req" /\ OthersStay(m) /\ UNCHANGED <<snoop, memory>>
           /\ tx'[m].kind = tx[m].kind /\ tx'[m].rng = tx[m].rng
           /\ tx'[m].data = tx[m].data /\ tx'[m].shared = tx[m].shared
           /\ tx'[m].dirty = tx[m].dirty
           /\ tx'[m].phase = "resp" => tx[m].kind = "Evict"
           /\ tx'[m].phase # "resp" => /\ tx'[m].phase \in {"stalled", "engine", "ds"}
                                       /\ tx'[m].ok = tx[m].ok /\ UNCHANGED overlap
           /\ \A c \in Caches, l \in Lines :
                 c # m => overlap'[c][l] = overlap[c][l]
<1>1. IcnTypeOK /\ tx[m] \in Tx /\ tx \in [Masters -> Tx]
  BY DEF BaseInv, TypeOK, IcnTypeOK
<1>2. tx[m].phase = "req" /\ UNCHANGED <<snoop, memory>>
  BY DEF Accept
<1>3. overlap \in [Caches -> [Lines -> Seq(Masters)]]
  BY <1>1 DEF IcnTypeOK
<1>4. CASE /\ tx[m].kind = "Evict" /\ tx' = [tx EXCEPT ![m].phase = "resp", ![m].ok = TRUE]
           /\ \E l : overlap' = [overlap EXCEPT ![m][l] = Append(@, m)]
  <2>1. tx'[m] = [tx[m] EXCEPT !.phase = "resp", !.ok = TRUE]
        /\ \A x \in Masters \ {m} : tx'[x] = tx[x]
    BY <1>1, <1>4
  <2>2. OthersStay(m)
    BY <2>1, SameStays DEF OthersStay
  <2>3. \A c \in Caches : c # m => overlap'[c] = overlap[c]
    BY <1>3, <1>4
  <2>4. QED
    BY <1>1, <1>2, <1>4, <2>1, <2>2, <2>3 DEF Tx
<1>5. CASE \E p \in {"stalled", "engine", "ds"} : tx' = [tx EXCEPT ![m].phase = p] /\ UNCHANGED overlap
  <2>1. PICK p \in {"stalled", "engine", "ds"} : tx' = [tx EXCEPT ![m].phase = p] /\ UNCHANGED overlap
    BY <1>5
  <2>2. tx'[m] = [tx[m] EXCEPT !.phase = p] /\ \A x \in Masters \ {m} : tx'[x] = tx[x]
    BY <1>1, <2>1
  <2>3. OthersStay(m)
    BY <2>2, SameStays DEF OthersStay
  <2>4. QED
    BY <1>1, <1>2, <2>1, <2>2, <2>3 DEF Tx
<1>6. QED
  BY <1>4, <1>5 DEF Accept

\* snoop_engine_thread: the SnoopTransactions begin; each but one of a
\* ReadOnce starts without a downstream access.
LEMMA EngineData ==
    ASSUME BaseInv, NEW m \in Masters, EngineSnoop(m)
    PROVE  /\ SamePayload(tx'[m], tx[m]) /\ UNCHANGED <<memory, downstream>>
           /\ tx[m].phase = "engine" /\ tx'[m].phase = "snoop"
           /\ OthersStay(m)
           /\ \A l \in LinesOf(tx[m].rng) :
                 /\ snoop'[m][l].sent = Caches \ {m} /\ snoop'[m][l].back = {}
                 /\ snoop'[m][l].exec <=> tx[m].kind = "ReadOnce"
<1>1. IcnTypeOK /\ tx[m] \in Tx /\ tx \in [Masters -> Tx] /\ LinesOf(tx[m].rng) \subseteq Lines
      /\ snoop \in [Masters -> [Lines -> Snoop]]
  BY TxOf DEF BaseInv, TypeOK, IcnTypeOK
<1>2. /\ tx' = [tx EXCEPT ![m].phase = "snoop", ![m].exokay = tx[m].excl]
      /\ tx[m].phase = "engine" /\ UNCHANGED <<memory, downstream>>
  BY EngineSnoopParts DEF EngineSnoop
<1>3. /\ tx'[m] = [tx[m] EXCEPT !.phase = "snoop", !.exokay = tx[m].excl]
      /\ \A x \in Masters \ {m} : tx'[x] = tx[x]
  BY <1>1, <1>2
<1>4. SamePayload(tx'[m], tx[m]) /\ tx'[m].phase = "snoop"
  BY <1>1, <1>3 DEF Tx, SamePayload
<1>5. \A l \in LinesOf(tx[m].rng) :
         snoop'[m][l] = [NoSnoop EXCEPT !.sent = Caches \ {m}, !.exec = tx[m].kind = "ReadOnce"]
  BY <1>1 DEF EngineSnoop
<1>6. OthersStay(m)
  BY <1>3, SameStays DEF OthersStay
<1>7. QED
  BY <1>2, <1>4, <1>5, <1>6 DEF NoSnoop

\* snoop_master_thread merges an answer.
LEMMA PortData ==
    ASSUME BaseInv, NEW m \in Masters, NEW l \in Lines, NEW c \in Caches, PortDone(m, l, c)
    PROVE  LET a == snoop[m][l].ans[c] IN
           /\ OthersStay(m) /\ UNCHANGED <<memory, downstream>>
           /\ c \in snoop[m][l].back /\ c # m
           /\ tx[m].phase = "snoop" /\ tx'[m].phase = "snoop"
           /\ tx'[m].kind = tx[m].kind /\ tx'[m].rng = tx[m].rng /\ tx'[m].segs = tx[m].segs
           /\ tx'[m].ok <=> (tx[m].ok \/ AnsweredBySnoop(tx[m].kind, a))
           /\ tx'[m].shared <=> (tx[m].shared \/ a.shared)
           /\ tx'[m].dirty <=> (tx[m].dirty \/ (a.xfer /\ a.dirty /\ AllowPassDirty(tx[m].kind)))
           /\ tx'[m].data = IF a.xfer /\ tx[m].kind \in ReadKinds
                            THEN [x \in tx[m].rng |-> IF x[1] = l THEN a.data[x[2]] ELSE tx[m].data[x]]
                            ELSE tx[m].data
           /\ snoop'[m][l].exec <=> NeedsDownstream(snoop[m][l].exec, tx[m].kind, a)
           /\ snoop'[m][l].data = IF MustClean(tx[m].kind, a) THEN a.data ELSE snoop[m][l].data
           /\ overlap' = [overlap EXCEPT ![c][l] = Without(@, m)]
<1> DEFINE t == tx[m]
           s == snoop[m][l]
           a == s.ans[c]
           shared == t.shared \/ a.shared
           dirty == t.dirty \/ (a.xfer /\ a.dirty /\ AllowPassDirty(t.kind))
           ok == t.ok \/ AnsweredBySnoop(t.kind, a)
           merged == [t EXCEPT !.shared = shared, !.dirty = dirty, !.ok = ok]
           d == [x \in t.rng |-> IF x[1] = l THEN a.data[x[2]] ELSE t.data[x]]
           u == IF a.xfer /\ t.kind \in ReadKinds THEN [merged EXCEPT !.data = d] ELSE merged
           exec == NeedsDownstream(s.exec, t.kind, a)
           data == IF MustClean(t.kind, a) THEN a.data ELSE s.data
           s2 == [s EXCEPT !.back = s.back \ {c}, !.ans[c] = BlankAnswer,
                           !.exec = exec, !.data = data]
<1>1. /\ IcnTypeOK /\ t \in Tx /\ tx \in [Masters -> Tx] /\ s \in Snoop
      /\ snoop \in [Masters -> [Lines -> Snoop]]
  BY DEF BaseInv, TypeOK, IcnTypeOK
<1>2. c \in s.back /\ UNCHANGED <<memory, downstream>>
      /\ overlap' = [overlap EXCEPT ![c][l] = Without(@, m)]
  BY DEF PortDone
<1>3. t.phase = "snoop" /\ c # m
  BY <1>2, PortsBusy
<1>4. shared \in BOOLEAN /\ dirty \in BOOLEAN /\ ok \in BOOLEAN /\ exec \in BOOLEAN
  BY <1>1 DEF Tx, Snoop, Answer, AllowPassDirty, AnsweredBySnoop, NeedsDownstream, MustClean
<1>5. merged.rng = t.rng /\ merged.data = t.data
  BY <1>1 DEF Tx
<1>6. tx' = [tx EXCEPT ![m] = u] /\ snoop' = [snoop EXCEPT ![m][l] = s2]
  BY <1>5 DEF PortDone, CopyLine
<1> HIDE DEF shared, dirty, ok, d, exec, data
<1>7. /\ u.kind = t.kind /\ u.rng = t.rng /\ u.phase = t.phase /\ u.segs = t.segs
      /\ u.shared = shared /\ u.dirty = dirty /\ u.ok = ok
      /\ u.data = IF a.xfer /\ t.kind \in ReadKinds THEN d ELSE t.data
  BY <1>1 DEF Tx
<1>8. s2.exec = exec /\ s2.data = data
  BY <1>1 DEF Snoop
<1> HIDE DEF u, s2
<1>9. tx'[m] = u /\ snoop'[m][l] = s2 /\ \A x \in Masters \ {m} : tx'[x] = tx[x]
  BY <1>1, <1>6
<1>10. OthersStay(m)
  BY <1>9, SameStays DEF OthersStay
<1>11. QED
  BY <1>2, <1>3, <1>7, <1>8, <1>9, <1>10 DEF shared, dirty, ok, d, exec, data

\* finalize_snoop_tr ends the work on line l of m: snoop_done_thread, or the
\* downstream port after the access it made for the line.
LineDone(m, l) ==
    /\ Quiet(m, l) /\ snoop' = [snoop EXCEPT ![m][l] = NoSnoop] /\ OthersStay(m)
    /\ tx'[m].kind = tx[m].kind /\ tx'[m].rng = tx[m].rng
    /\ tx'[m].shared = tx[m].shared /\ tx'[m].dirty = tx[m].dirty
    /\ tx[m].kind # "ReadOnce" => tx'[m].data = tx[m].data
    /\ tx'[m].segs = Left(tx[m], l)
    /\ \/ /\ Left(tx[m], l) # {} /\ tx'[m].phase = "snoop" /\ UNCHANGED overlap
          /\ tx[m].kind # "ReadOnce" => tx'[m].ok = tx[m].ok
       \/ /\ Left(tx[m], l) = {} /\ tx'[m].phase = "ds" /\ UNCHANGED overlap
          /\ ~tx'[m].ok /\ (tx[m].kind # "ReadOnce" => ~tx[m].ok)
       \/ /\ Left(tx[m], l) = {} /\ tx'[m].phase = "resp" /\ OverlapDone(m)
          /\ tx[m].kind # "ReadOnce" => tx[m].ok
    /\ \/ memory' = memory /\ (tx[m].kind = "ReadOnce" \/ ~snoop[m][l].exec)
       \/ /\ tx[m].kind # "ReadOnce"
          /\ memory' = [a \in Addr |-> IF a[1] = l THEN snoop[m][l].data[a[2]] ELSE memory[a]]

\* The access of the transaction itself.
OwnDone(m) ==
    /\ tx[m].phase = "ds" /\ tx'[m].phase = "resp" /\ UNCHANGED snoop /\ OthersStay(m)
    /\ tx'[m].kind = tx[m].kind /\ tx'[m].rng = tx[m].rng
    /\ tx'[m].shared = tx[m].shared /\ tx'[m].dirty = tx[m].dirty
    /\ tx'[m].data = IF IsReadTx(tx[m].kind) THEN [a \in tx[m].rng |-> memory[a]]
                                             ELSE tx[m].data
    /\ OverlapDone(m)
    /\ memory' = IF IsWriteTx(tx[m].kind)
                 THEN [a \in Addr |-> IF a \in tx[m].rng THEN tx[m].data[a] ELSE memory[a]]
                 ELSE memory

\* Completing a transaction takes it to the overlap list of its own port.
LEMMA CompleteOverlap ==
    ASSUME IcnTypeOK, NEW m \in Masters, NEW t, t.rng = tx[m].rng, Complete(m, t)
    PROVE  OverlapDone(m)
  BY DEF Complete, OverlapDone

\* finalize_snoop_tr merges the answers for a line as LineDone says.
LEMMA FinalizeData ==
    ASSUME BaseInv, NEW m \in Masters, NEW l \in Lines, Quiet(m, l),
           NEW t, NEW d \in [tx[m].rng -> Values], t = [tx[m] EXCEPT !.data = d],
           tx[m].kind # "ReadOnce" => d = tx[m].data,
           NEW q, finalize_snoop_tr(m, l, t, q),
           \/ memory' = memory /\ (tx[m].kind = "ReadOnce" \/ ~snoop[m][l].exec)
           \/ /\ tx[m].kind # "ReadOnce"
              /\ memory' = [a \in Addr |-> IF a[1] = l THEN snoop[m][l].data[a[2]] ELSE memory[a]]
    PROVE  LineDone(m, l)
<1> DEFINE left == IF Segmented(t.kind) THEN t.segs \ {l} ELSE {}
           ok == t.ok \/ (t.kind = "ReadOnce" /\ left = {})
           t2 == [t EXCEPT !.segs = left, !.ok = ok]
           t3 == [t2 EXCEPT !.phase = "ds"]
           t4 == [t2 EXCEPT !.phase = "resp"]
<1>1. /\ IcnTypeOK /\ tx[m] \in Tx /\ WellFormed(tx[m]) /\ tx \in [Masters -> Tx]
      /\ tx[m].phase = "snoop"
  BY TxOf DEF BaseInv, TypeOK, IcnTypeOK, Quiet, Active
<1>2. WellFormed(t)
  BY <1>1, FilledTx
<1>3. /\ t.kind = tx[m].kind /\ t.rng = tx[m].rng /\ t.segs = tx[m].segs /\ t.ok = tx[m].ok
      /\ t.shared = tx[m].shared /\ t.dirty = tx[m].dirty /\ t.phase = "snoop" /\ t.data = d
  BY <1>1 DEF Tx
<1>4. /\ snoop' = [snoop EXCEPT ![m][l] = NoSnoop]
      /\ \/ left # {} /\ tx' = [tx EXCEPT ![m] = t2] /\ UNCHANGED overlap
         \/ left = {} /\ t2.ok /\ Complete(m, t2)
         \/ left = {} /\ ~t2.ok /\ tx' = [tx EXCEPT ![m] = t3] /\ UNCHANGED overlap
  BY DEF finalize_snoop_tr
<1>5. left = Left(tx[m], l) /\ left \in SUBSET Lines
  BY <1>1, <1>3 DEF Left, Tx
<1>6. ok \in BOOLEAN /\ (tx[m].kind # "ReadOnce" => ok = tx[m].ok)
  BY <1>1, <1>2, <1>3 DEF WellFormed, Tx
<1> HIDE DEF left, ok
<1> DEFINE Like(u, p) == /\ u.kind = tx[m].kind /\ u.rng = tx[m].rng /\ u.segs = left
                         /\ u.shared = tx[m].shared /\ u.dirty = tx[m].dirty
                         /\ u.data = d /\ u.ok = ok /\ u.phase = p
<1>7. Like(t2, "snoop") /\ Like(t3, "ds") /\ Like(t4, "resp")
  <2>1. t \in Tx
    BY <1>2 DEF WellFormed
  <2>2. /\ t2.kind = t.kind /\ t2.rng = t.rng /\ t2.segs = left /\ t2.shared = t.shared
        /\ t2.dirty = t.dirty /\ t2.data = t.data /\ t2.ok = ok /\ t2.phase = t.phase
    BY <2>1 DEF Tx
  <2>3. /\ t3.kind = t.kind /\ t3.rng = t.rng /\ t3.segs = left /\ t3.shared = t.shared
        /\ t3.dirty = t.dirty /\ t3.data = t.data /\ t3.ok = ok /\ t3.phase = "ds"
    BY <2>1 DEF Tx
  <2>4. /\ t4.kind = t.kind /\ t4.rng = t.rng /\ t4.segs = left /\ t4.shared = t.shared
        /\ t4.dirty = t.dirty /\ t4.data = t.data /\ t4.ok = ok /\ t4.phase = "resp"
    BY <2>1 DEF Tx
  <2> HIDE DEF t2, t3, t4
  <2>5. QED
    BY <1>3, <2>2, <2>3, <2>4
<1>8. WellFormed(t2)
  BY <1>2, <1>5, <1>6 DEF WellFormed, Tx
<1>9. t4 = [t2 EXCEPT !.phase = "resp"] /\ t2.ok = ok /\ t2.phase = "snoop"
      /\ t3.phase = "ds" /\ t4.phase = "resp" /\ t2.rng = tx[m].rng
  BY <1>1, <1>2, <1>3, <1>7, <1>8 DEF WellFormed, Tx
<1> HIDE DEF t2, t3, t4
<1>10. CASE left # {} /\ tx' = [tx EXCEPT ![m] = t2] /\ UNCHANGED overlap
  <2>1. tx'[m] = t2 /\ \A x \in Masters \ {m} : tx'[x] = tx[x]
    BY <1>1, <1>10
  <2>2. OthersStay(m)
    BY <2>1, SameStays DEF OthersStay
  <2>3. /\ tx'[m].kind = tx[m].kind /\ tx'[m].rng = tx[m].rng /\ tx'[m].segs = left
        /\ tx'[m].shared = tx[m].shared /\ tx'[m].dirty = tx[m].dirty
        /\ tx'[m].data = d /\ tx'[m].ok = ok /\ tx'[m].phase = "snoop"
    BY <1>7, <1>9, <2>1
  <2>4. QED
    BY <1>4, <1>5, <1>6, <1>10, <2>2, <2>3 DEF LineDone
<1>11. CASE left = {} /\ ~t2.ok /\ tx' = [tx EXCEPT ![m] = t3] /\ UNCHANGED overlap
  <2>1. tx'[m] = t3 /\ \A x \in Masters \ {m} : tx'[x] = tx[x]
    BY <1>1, <1>11
  <2>2. OthersStay(m)
    BY <2>1, SameStays DEF OthersStay
  <2>3. /\ tx'[m].kind = tx[m].kind /\ tx'[m].rng = tx[m].rng /\ tx'[m].segs = left
        /\ tx'[m].shared = tx[m].shared /\ tx'[m].dirty = tx[m].dirty
        /\ tx'[m].data = d /\ tx'[m].ok = ok /\ tx'[m].phase = "ds"
    BY <1>7, <1>9, <2>1
  <2>4. QED
    BY <1>4, <1>5, <1>6, <1>9, <1>11, <2>2, <2>3 DEF LineDone
<1>12. CASE left = {} /\ t2.ok /\ Complete(m, t2)
  <2>1. Completed(m, t2)
    BY <1>1, <1>8, <1>12, CompleteParts
  <2>2. OthersStay(m)
    BY <1>1, <2>1, CompletedStays
  <2>3. tx'[m] = t4
    BY <1>9, <2>1 DEF Completed
  <2>4. /\ tx'[m].kind = tx[m].kind /\ tx'[m].rng = tx[m].rng /\ tx'[m].segs = left
        /\ tx'[m].shared = tx[m].shared /\ tx'[m].dirty = tx[m].dirty
        /\ tx'[m].data = d /\ tx'[m].phase = "resp"
    BY <1>7, <1>9, <2>3
  <2>5. OverlapDone(m)
    BY <1>1, <1>9, <1>12, CompleteOverlap
  <2>6. QED
    BY <1>4, <1>5, <1>6, <1>9, <1>12, <2>2, <2>4, <2>5 DEF LineDone
<1>13. QED
  BY <1>4, <1>10, <1>11, <1>12

\* A cleaning access of a SnoopTransaction is in m_downstream_fifo with data.
ExecFifo == \A e \in Range(downstream) : ~e.own => snoop[e.m][e.line].exec

\* SnoopDone finishes the snoops of one line, or changes no data.
LEMMA SnoopDoneData ==
    ASSUME BaseInv, SnoopDone
    PROVE  \/ UNCHANGED <<tx, snoop, overlap, memory>>
           \/ \E m \in Masters, l \in Lines : LineDone(m, l)
<1>1. IcnTypeOK /\ DoneFifo
  BY DEF BaseInv, TypeOK, WorkInv
<1>2. Head(snoopDone) \in Range(snoopDone) /\ Head(snoopDone) \in Masters \X Lines
  BY <1>1, FifoTypes, RangeIs, HeadIn DEF SnoopDone
<1>3. PICK m \in Masters, l \in Lines : Head(snoopDone) = <<m, l>>
  BY <1>2
<1>4. Quiet(m, l) /\ Head(snoopDone)[1] = m /\ Head(snoopDone)[2] = l
  BY <1>1, <1>2, <1>3 DEF DoneFifo
<1>5. memory' = memory
  BY DEF SnoopDone
<1>6. CASE snoop[m][l].exec
  BY <1>4, <1>5, <1>6 DEF SnoopDone
<1>7. CASE ~snoop[m][l].exec
  <2>1. finalize_snoop_tr(m, l, tx[m], downstream)
    BY <1>4, <1>7 DEF SnoopDone
  <2>2. WellFormed(tx[m])
    BY <1>1, TxOf
  <2>3. PICK d : d = tx[m].data
    OBVIOUS
  <2>4. tx[m] = [tx[m] EXCEPT !.data = d] /\ d \in [tx[m].rng -> Values]
    BY <2>2, <2>3 DEF WellFormed, Tx
  <2>5. LineDone(m, l)
    BY <1>4, <1>5, <1>7, <2>1, <2>3, <2>4, FinalizeData
  <2>6. QED
    BY <2>5
<1>8. QED
  BY <1>6, <1>7

\* The downstream thread writes back one line that snoops have brought.
LEMMA DsSnoopData ==
    ASSUME BaseInv, DsSnoop
    PROVE  \E m \in Masters, l \in Lines :
              LineDone(m, l) /\ [m |-> m, line |-> l, own |-> FALSE] \in Range(downstream)
<1>1. IcnTypeOK /\ DsFifo
  BY DEF BaseInv, TypeOK, WorkInv
<1>2. Head(downstream) \in Range(downstream) /\ Head(downstream) \in DsEntry
  BY <1>1, FifoTypes, RangeIs, HeadIn DEF DsSnoop
<1>3. PICK m \in Masters, l \in Lines : Head(downstream).m = m /\ Head(downstream).line = l
  BY <1>2 DEF DsEntry
<1>4. ~Head(downstream).own
  BY DEF DsSnoop
<1>5. Head(downstream) = [m |-> m, line |-> l, own |-> FALSE]
  BY <1>2, <1>3, <1>4 DEF DsEntry
<1>6. Quiet(m, l)
  BY <1>1, <1>2, <1>3, <1>4 DEF DsFifo, Queued
<1>7. WellFormed(tx[m]) /\ tx[m].rng \in SUBSET Addr /\ memory \in [Addr -> Values]
  BY <1>1, TxOf DEF WellFormed, Tx, IcnTypeOK
<1> DEFINE cp == [x \in tx[m].rng |-> IF x[1] = l THEN ToLine(memory, l)[x[2]] ELSE tx[m].data[x]]
<1>8. CASE tx[m].kind = "ReadOnce"
  <2>1. finalize_snoop_tr(m, l, CopyLine(tx[m], l, ToLine(memory, l)), Tail(downstream))
        /\ memory' = memory
    BY <1>3, <1>8 DEF DsSnoop
  <2>2. CopyLine(tx[m], l, ToLine(memory, l)) = [tx[m] EXCEPT !.data = cp]
    BY DEF CopyLine
  <2>3. cp \in [tx[m].rng -> Values]
    BY <1>7 DEF WellFormed, ToLine, Addr
  <2> HIDE DEF cp
  <2>4. PICK t, q : t = [tx[m] EXCEPT !.data = cp] /\ q = Tail(downstream)
    OBVIOUS
  <2>5. finalize_snoop_tr(m, l, t, q)
    BY <2>1, <2>2, <2>4
  <2>6. LineDone(m, l)
    BY <1>6, <1>8, <2>1, <2>3, <2>4, <2>5, FinalizeData
  <2>7. QED
    BY <1>2, <1>5, <2>6
<1>9. CASE tx[m].kind # "ReadOnce"
  <2>1. finalize_snoop_tr(m, l, tx[m], Tail(downstream))
        /\ memory' = [a \in Addr |-> IF a[1] = l THEN snoop[m][l].data[a[2]] ELSE memory[a]]
    BY <1>3, <1>9 DEF DsSnoop
  <2>2. PICK d, q : d = tx[m].data /\ q = Tail(downstream)
    OBVIOUS
  <2>3. tx[m] = [tx[m] EXCEPT !.data = d] /\ d \in [tx[m].rng -> Values]
    BY <1>7, <2>2 DEF WellFormed, Tx
  <2>4. finalize_snoop_tr(m, l, tx[m], q)
    BY <2>1, <2>2
  <2>5. LineDone(m, l)
    BY <1>6, <1>9, <2>1, <2>2, <2>3, <2>4, FinalizeData
  <2>6. QED
    BY <1>2, <1>5, <2>5
<1>10. QED
  BY <1>8, <1>9

\* The downstream thread runs one master's own transaction.
LEMMA DsOwnData ==
    ASSUME BaseInv, DsOwn
    PROVE  \E m \in Masters : m = Head(downstream).m /\ OwnDone(m)
<1>1. IcnTypeOK /\ DsFifo
  BY DEF BaseInv, TypeOK, WorkInv
<1>2. Head(downstream) \in Range(downstream) /\ Head(downstream) \in DsEntry
  BY <1>1, FifoTypes, RangeIs, HeadIn DEF DsOwn
<1>3. PICK m \in Masters : Head(downstream).m = m
  BY <1>2 DEF DsEntry
<1>4. tx[m].phase = "ds" /\ UNCHANGED snoop
  BY <1>1, <1>2, <1>3 DEF DsFifo, Queued, DsOwn
<1> DEFINE data == IF IsReadTx(tx[m].kind) THEN [a \in tx[m].rng |-> memory[a]] ELSE tx[m].data
           t == [tx[m] EXCEPT !.ok = TRUE, !.data = data]
           u == [t EXCEPT !.phase = "resp"]
<1>5. WellFormed(tx[m]) /\ tx[m] \in Tx /\ tx[m].data \in [tx[m].rng -> Values]
      /\ tx[m].rng \in SUBSET Addr /\ memory \in [Addr -> Values]
  BY <1>1, TxOf DEF IcnTypeOK, Tx, WellFormed
<1>6. Complete(m, t)
      /\ memory' = IF IsWriteTx(tx[m].kind)
                   THEN [a \in Addr |-> IF a \in tx[m].rng THEN tx[m].data[a] ELSE memory[a]]
                   ELSE memory
  BY <1>3 DEF DsOwn, ReadBySlave
<1>7. data \in [tx[m].rng -> Values]
  BY <1>5
<1> HIDE DEF data
<1>8. data \in RangeData
  BY <1>5, <1>7, DataOfRange
<1>9. WellFormed(t) /\ t.rng = tx[m].rng
  BY <1>5, <1>7, <1>8 DEF WellFormed, Tx
<1>10. /\ u.phase = "resp" /\ u.kind = tx[m].kind /\ u.rng = tx[m].rng
       /\ u.shared = tx[m].shared /\ u.dirty = tx[m].dirty /\ u.data = data
  BY <1>5, <1>8 DEF Tx
<1> HIDE DEF t
<1>11. Completed(m, t) /\ OverlapDone(m)
  BY <1>1, <1>6, <1>9, CompleteParts, CompleteOverlap
<1>12. OthersStay(m) /\ tx'[m] = u
  BY <1>1, <1>11, CompletedStays DEF Completed
<1> HIDE DEF u
<1>13. OwnDone(m)
  BY <1>4, <1>6, <1>10, <1>11, <1>12 DEF OwnDone, data
<1>14. QED
  BY <1>3, <1>13

\* A step of an ACE-Lite master.
LiteData(m) ==
    /\ UNCHANGED <<cacheline, monitor, want, snoop, overlap, memory, latest, downstream>>
    /\ tx[m].phase \in {"idle", "resp"}
    /\ \A x \in Masters \ {m} : op'[x] = op[x] /\ tx'[x] = tx[x]
    /\ \/ op'[m] = NoOp /\ tx'[m] = NoTx
       \/ \E o \in traffic[m] : o \in Op /\ op'[m] = o /\ tx'[m] = LiteTx(o)

\* The transactions that store a word downstream.
StoreTx(kind) == kind \in UniqueWriteKinds \cup {"WriteNoSnoop"}

\* Both actions of an ACE-Lite master leave caches and memory alone.
LEMMA LiteDataKinds ==
    ASSUME BaseInv, NEW m \in LiteMasters, LiteStart(m) \/ LiteResume(m)
    PROVE  LiteData(m) /\ m \in Masters /\ m \notin Caches
<1>1. /\ m \in Masters /\ m \notin Caches /\ AccessInv
      /\ op \in [Masters -> Op \cup {NoOp}] /\ tx \in [Masters -> Tx]
  BY CachesAreMasters, ProtocolAssumption DEF BaseInv, TypeOK, CacheTypeOK, IcnTypeOK
<1>2. CASE LiteStart(m)
  <2>1. PICK o \in traffic[m] : op' = [op EXCEPT ![m] = o] /\ tx' = [tx EXCEPT ![m] = LiteTx(o)]
    BY <1>2 DEF LiteStart
  <2>2. o \in Op
    BY <1>1, OpFacts DEF AccessInv
  <2>3. tx[m].phase = "idle"
    BY <1>1, <1>2, AccessParts DEF LiteStart
  <2>4. UNCHANGED <<cacheline, monitor, want, snoop, overlap, memory, latest, downstream>>
    BY <1>2 DEF LiteStart, NoEffect
  <2>5. /\ op'[m] = o /\ tx'[m] = LiteTx(o)
        /\ \A x \in Masters \ {m} : op'[x] = op[x] /\ tx'[x] = tx[x]
    BY <1>1, <2>1
  <2>6. QED
    BY <1>1, <2>2, <2>3, <2>4, <2>5 DEF LiteData
<1>3. CASE LiteResume(m)
  <2>1. /\ tx' = [tx EXCEPT ![m] = NoTx]
        /\ UNCHANGED <<snoop, overlap, cacheline, monitor, want, memory, latest, downstream>>
        /\ op' = [op EXCEPT ![m] = NoOp] /\ tx[m].phase = "resp"
    BY <1>1, <1>3 DEF LiteResume, Deliver, ResponseReady
  <2>2. /\ op'[m] = NoOp /\ tx'[m] = NoTx
        /\ \A x \in Masters \ {m} : op'[x] = op[x] /\ tx'[x] = tx[x]
    BY <1>1, <2>1
  <2>3. QED
    BY <1>1, <2>1, <2>2 DEF LiteData
<1>4. QED
  BY <1>2, <1>3

\* The steps of the system, by what they do to data.
IcnData ==
    /\ UNCHANGED cacheVars
    /\ \/ /\ latest' = latest
          /\ \/ \E m \in Masters : Accept(m) \/ EngineSnoop(m)
             \/ \E m \in Masters, l \in Lines, c \in Caches : PortDone(m, l, c)
             \/ \E m \in Masters, l \in Lines :
                   /\ LineDone(m, l)
                   /\ memory' = memory \/ snoop[m][l].exec
             \/ \E m \in Masters : OwnDone(m) /\ ~StoreTx(tx[m].kind)
             \/ UNCHANGED <<tx, snoop, overlap, memory>>
       \/ \E m \in Masters : OwnDone(m) /\ StoreTx(tx[m].kind) /\ latest' = Stored(op[m])

\* What the downstream thread does is one of the steps of IcnData.
LEMMA DownstreamKinds ==
    ASSUME BaseInv, ExecFifo, DownstreamThread
    PROVE  IcnData
<1>1. UNCHANGED cacheVars
  BY DEF DownstreamThread
<1>2. CASE DsOwn
  <2>1. PICK m \in Masters : m = Head(downstream).m /\ OwnDone(m)
    BY <1>2, DsOwnData
  <2>2. Head(downstream).own
    BY <1>2 DEF DsOwn
  <2>3. latest' = IF StoreTx(tx[m].kind) THEN Stored(op[m]) ELSE latest
    BY <2>1, <2>2 DEF DownstreamThread, NoEffect, StoreTx
  <2>4. QED
    BY <1>1, <2>1, <2>3 DEF IcnData
<1>3. CASE DsSnoop
  <2>1. PICK m \in Masters, l \in Lines :
           LineDone(m, l) /\ [m |-> m, line |-> l, own |-> FALSE] \in Range(downstream)
    BY <1>3, DsSnoopData
  <2>2. snoop[m][l].exec
    BY <2>1 DEF ExecFifo
  <2>3. ~Head(downstream).own
    BY <1>3 DEF DsSnoop
  <2>4. latest' = latest
    BY <2>3 DEF DownstreamThread, NoEffect
  <2>5. QED
    BY <1>1, <2>1, <2>2, <2>4 DEF IcnData
<1>4. QED
  BY <1>2, <1>3 DEF DownstreamThread

\* Every step is a cache's turn, a master's, a snoop, or the interconnect's.
LEMMA DataKinds ==
    ASSUME BaseInv, ExclusiveInv, RequestInv, LinesInv, ExecFifo, NothingDiscarded, [Next]_vars
    PROVE  /\ traffic' = traffic
           /\ \/ \E c \in Caches : \E o, r : CacheData(c, o, r)
              \/ \E m \in Masters \ Caches : LiteData(m)
              \/ \E m \in Masters, l \in Lines, c \in Caches :
                    SnoopMaster(m, l, c) /\ UNCHANGED <<latest, memory, toggle, downstream>>
              \/ IcnData
<1>0. traffic' = traffic
  BY TrafficKept
<1>1. CASE UNCHANGED vars
  <2>1. UNCHANGED <<tx, snoop, overlap, memory, latest>> /\ UNCHANGED cacheVars
    BY <1>1 DEF vars, icnVars, history
  <2>2. QED
    BY <1>0, <2>1 DEF IcnData
<1>2. ASSUME NEW c \in Caches, CacheStart(c) \/ CacheResume(c)
      PROVE  \E d \in Caches : \E o, r : CacheData(d, o, r)
  BY <1>2, CacheDataKinds
<1>3. ASSUME NEW m \in LiteMasters, LiteStart(m) \/ LiteResume(m)
      PROVE  \E x \in Masters \ Caches : LiteData(x)
  BY <1>3, LiteDataKinds
<1>4. ASSUME NEW m \in Masters, AcceptTx(m)
      PROVE  IcnData
  BY <1>4 DEF AcceptTx, NoEffect, IcnData
<1>5. ASSUME NEW m \in Masters, EngineThread(m)
      PROVE  IcnData
  BY <1>5, NoEngineFail DEF EngineThread, NoEffect, IcnData
<1>6. ASSUME NEW m \in Masters, NEW l \in Lines, NEW c \in Caches, SnoopMaster(m, l, c)
      PROVE  UNCHANGED <<latest, memory, toggle, downstream>>
  BY <1>6 DEF SnoopMaster, SnoopAnswered, NoEffect, CacheSnoop
<1>7. ASSUME NEW m \in Masters, NEW l \in Lines, NEW c \in Caches, PortDoneThread(m, l, c)
      PROVE  IcnData
  BY <1>7 DEF PortDoneThread, NoEffect, IcnData
<1>8. ASSUME SnoopDoneThread
      PROVE  IcnData
  <2>1. SnoopDone /\ UNCHANGED cacheVars /\ latest' = latest
    BY <1>8 DEF SnoopDoneThread, NoEffect
  <2>2. memory' = memory
    BY <2>1 DEF SnoopDone
  <2>3. QED
    BY <2>1, <2>2, SnoopDoneData DEF IcnData
<1>9. ASSUME DownstreamThread
      PROVE  IcnData
  BY <1>9, DownstreamKinds
<1>10. QED
  BY <1>0, <1>1, <1>2, <1>3, <1>4, <1>5, <1>6, <1>7, <1>8, <1>9 DEF Next

-----------------------------------------------------------------------------
\* What a cache asks for next.
LEMMA NextTxData ==
    ASSUME NEW o \in Op, NEW r \in Result
    PROVE  /\ NextTx(o, r).ok = FALSE /\ NextTx(o, r).shared = FALSE /\ NextTx(o, r).dirty = FALSE
           /\ NextTx(o, r).phase \in {"idle", "req"} /\ NextTx(o, r).kind = r.req
           /\ r.req # "none" => NextTx(o, r).rng = PayloadRange(o, r)
           /\ r.req \in {"WriteBack", "WriteClean"} =>
                 NextTx(o, r).data = [a \in LineAddr(r.ln.tag) |-> r.ln.data[a[2]]]
           /\ r.req \in UniqueWriteKinds \cup {"WriteNoSnoop"} =>
                 NextTx(o, r).rng = o.rng /\ NextTx(o, r).data = [a \in o.rng |-> o.val]
<1>1. CASE r.req = "none"
  <2>1. NextTx(o, r) = NoTx
    BY <1>1 DEF NextTx
  <2>2. "none" \notin UniqueWriteKinds
    BY DEF UniqueWriteKinds
  <2>3. QED
    BY <1>1, <2>1, <2>2 DEF NoTx
<1>2. CASE r.req # "none"
  <2>1. NextTx(o, r) = NewTx(r.req, PayloadRange(o, r), PayloadData(o, r), Exclusive(o, r))
    BY <1>2 DEF NextTx
  <2>2. /\ NextTx(o, r).ok = FALSE /\ NextTx(o, r).shared = FALSE /\ NextTx(o, r).dirty = FALSE
        /\ NextTx(o, r).phase = "req" /\ NextTx(o, r).kind = r.req
        /\ NextTx(o, r).rng = PayloadRange(o, r) /\ NextTx(o, r).data = PayloadData(o, r)
    BY <2>1 DEF NewTx, NoTx
  <2>3. r.req \in {"WriteBack", "WriteClean"} =>
           PayloadData(o, r) = [a \in LineAddr(r.ln.tag) |-> r.ln.data[a[2]]]
    BY DEF PayloadData, PayloadRange, CopyBackKinds
  <2>4. ASSUME r.req \in UniqueWriteKinds \cup {"WriteNoSnoop"}
        PROVE  PayloadRange(o, r) = o.rng /\ PayloadData(o, r) = [a \in o.rng |-> o.val]
    <3>1. /\ r.req \notin CopyBackKinds /\ r.req \notin {"WriteBack", "WriteClean"}
          /\ IsWriteTx(r.req) /\ r.req \in UniqueWriteKinds \cup NoSnoopKinds
      BY <2>4 DEF UniqueWriteKinds, CopyBackKinds, IsWriteTx, NoSnoopKinds
    <3>2. PayloadRange(o, r) = o.rng
      BY <3>1 DEF PayloadRange
    <3>3. QED
      BY <3>1, <3>2 DEF PayloadData
  <2>5. QED
    BY <2>2, <2>3, <2>4
<1>3. QED
  BY <1>1, <1>2

\* What an ACE-Lite master issues.
LEMMA LiteTxData ==
    ASSUME NEW o
    PROVE  /\ LiteTx(o).ok = FALSE /\ LiteTx(o).shared = FALSE /\ LiteTx(o).dirty = FALSE
           /\ LiteTx(o).phase = "req" /\ LiteTx(o).rng = o.rng
           /\ LiteTx(o).kind = IF o.kind \in StoreKinds THEN "WriteUnique" ELSE "ReadOnce"
           /\ LiteTx(o).data = [a \in o.rng |-> IF o.kind \in StoreKinds THEN o.val ELSE InitValue]
  BY DEF LiteTx, NewTx, NoTx

-----------------------------------------------------------------------------
\* What a step of cache c leaves of everything.
LEMMA TurnParts ==
    ASSUME BaseInv, NEW c \in Caches, NEW o, NEW r, CacheData(c, o, r)
    PROVE  /\ o \in Op /\ o \in traffic[c] /\ r \in Result /\ LineOf(o) \in Lines
           /\ o.rng \subseteq LineAddr(LineOf(o)) /\ c \in Masters
           /\ get_line(c, LineOf(o)) \in CacheLine /\ r.ln \in CacheLine
           /\ \A i \in Slots : cacheline'[c][i] = IF i = Index[LineOf(o)] THEN r.ln
                                                                        ELSE cacheline[c][i]
           /\ \A d \in Caches \ {c} : cacheline'[d] = cacheline[d] /\ monitor'[d] = monitor[d]
           /\ op'[c] = IF r.req = "none" THEN NoOp ELSE o
           /\ want'[c] = r.want /\ monitor'[c] = r.mon /\ tx'[c] = NextTx(o, r)
           /\ \A x \in Masters \ {c} : op'[x] = op[x] /\ want'[x] = want[x] /\ tx'[x] = tx[x]
           /\ UNCHANGED <<snoop, memory, downstream>>
<1>1. /\ c \in Masters /\ IcnTypeOK /\ CacheTypeOK /\ traffic \in Traffics
      /\ cacheline \in [Caches -> [Slots -> CacheLine]] /\ monitor \in [Caches -> SUBSET Addr]
      /\ op \in [Masters -> Op \cup {NoOp}] /\ want \in [Masters -> TxKinds \cup {"none"}]
      /\ tx \in [Masters -> Tx]
  BY CachesAreMasters DEF BaseInv, TypeOK, AccessInv, CacheTypeOK, IcnTypeOK
<1>2. CacheTurns(c, o, r) /\ UNCHANGED <<memory, downstream>>
  BY DEF CacheData
<1>3. /\ o \in Op /\ o \in traffic[c] /\ r \in Result /\ CacheStep(c, o, r)
      /\ UNCHANGED snoop /\ tx' = [tx EXCEPT ![c] = NextTx(o, r)]
  BY <1>2 DEF CacheTurns
<1>4. LineOf(o) \in Lines /\ o.rng \subseteq LineAddr(LineOf(o)) /\ Index[LineOf(o)] \in Slots
  BY <1>1, <1>3, OpFacts, AccessFacts, SlotOf
<1>5. r.ln \in CacheLine /\ get_line(c, LineOf(o)) \in CacheLine
  BY <1>1, <1>3, <1>4 DEF Result, get_line
<1>6. /\ cacheline' = [cacheline EXCEPT ![c][Index[LineOf(o)]] = r.ln]
      /\ monitor' = [monitor EXCEPT ![c] = r.mon]
      /\ op' = [op EXCEPT ![c] = IF r.req = "none" THEN NoOp ELSE o]
      /\ want' = [want EXCEPT ![c] = r.want]
  BY <1>3 DEF CacheStep
<1>7. PICK i0 : i0 = Index[LineOf(o)]
  OBVIOUS
<1>8. /\ \A i \in Slots : cacheline'[c][i] = IF i = i0 THEN r.ln ELSE cacheline[c][i]
      /\ \A d \in Caches \ {c} : cacheline'[d] = cacheline[d]
  BY <1>1, <1>4, <1>6, <1>7
<1>9. /\ op'[c] = IF r.req = "none" THEN NoOp ELSE o
      /\ want'[c] = r.want /\ monitor'[c] = r.mon /\ tx'[c] = NextTx(o, r)
      /\ \A x \in Masters \ {c} : op'[x] = op[x] /\ want'[x] = want[x] /\ tx'[x] = tx[x]
      /\ \A d \in Caches \ {c} : monitor'[d] = monitor[d]
  BY <1>1, <1>3, <1>6
<1>10. QED
  BY <1>1, <1>2, <1>3, <1>4, <1>5, <1>7, <1>8, <1>9

-----------------------------------------------------------------------------
(***************************************************************************)
(* The requests fit their accesses.                                        *)
(***************************************************************************)
\* The request of m stays what it was.
RequestStays(m) ==
    /\ op'[m] = op[m] /\ tx'[m].kind = tx[m].kind /\ tx'[m].rng = tx[m].rng
    /\ StoreTx(tx[m].kind) => tx'[m].data = tx[m].data

\* The transactions that store downstream are writes.
LEMMA StoreTxIsWrite == \A k : StoreTx(k) => IsWriteTx(k) /\ k \notin ReadKinds /\ ~IsReadTx(k)
  BY DEF StoreTx, IsWriteTx, IsReadTx, UniqueWriteKinds, ReadKinds

\* A write under way keeps the words its access stores.
LEMMA WritesKept ==
    ASSUME NEW m, RequestStays(m), StoreTx(tx[m].kind), Writes(m)
    PROVE  Writes(m)'
  BY DEF RequestStays, Writes

\* What fits an access fits it when other monitors are cleared.
LEMMA FitsKept ==
    ASSUME NEW c, NEW o, NEW mon, NEW less, NEW kind, Fits(c, o, mon, kind),
           kind = "MakeUnique" /\ StartAddr(o) \in mon => StartAddr(o) \in less
    PROVE  Fits(c, o, less, kind)
  BY DEF Fits

\* A request stays right while nothing it rests on changes.
LEMMA RequestKept ==
    ASSUME NEW c \in Caches, op[c] # NoOp => RequestOk(c), RequestStays(c), want'[c] = want[c],
           "MakeUnique" \in {tx[c].kind, want[c]} /\ StartAddr(op[c]) \in monitor[c]
               => StartAddr(op[c]) \in monitor'[c],
           LineIn(c)'.valid => LineIn(c).valid
    PROVE  (op[c] # NoOp => RequestOk(c))'
<1> SUFFICES ASSUME op[c] # NoOp PROVE RequestOk(c)'
  BY DEF RequestStays
<1>1. op'[c] = op[c] /\ tx'[c].kind = tx[c].kind
  BY DEF RequestStays
<1>2. Fits(c, op[c], monitor'[c], tx[c].kind) /\ Fits(c, op[c], monitor'[c], want[c])
  BY FitsKept DEF RequestOk
<1>3. tx[c].kind \in UniqueWriteKinds \cup {"WriteNoSnoop"} => Writes(c)'
  BY WritesKept DEF RequestOk, StoreTx
<1>4. QED
  BY <1>1, <1>2, <1>3 DEF RequestOk

\* The same for an ACE-Lite master.
LEMMA LiteRequestKept ==
    ASSUME NEW m, op[m] # NoOp => LiteRequestOk(m), RequestStays(m)
    PROVE  (op[m] # NoOp => LiteRequestOk(m))'
<1>1. "WriteUnique" \in UniqueWriteKinds
  BY DEF UniqueWriteKinds
<1>2. QED
  BY <1>1, WritesKept DEF LiteRequestOk, StoreTx, RequestStays

\* The interconnect keeps RequestInv,
LEMMA RequestIcn ==
    ASSUME BaseInv, RequestInv, IcnData
    PROVE  RequestInv'
<1>0. IcnTypeOK /\ UNCHANGED cacheVars
  BY DEF BaseInv, TypeOK, IcnData
<1>1. ASSUME NEW m, OthersStay(m), tx'[m].kind = tx[m].kind, tx'[m].rng = tx[m].rng,
             StoreTx(tx[m].kind) => tx'[m].data = tx[m].data
      PROVE  \A x \in Masters : RequestStays(x)
  BY <1>0, <1>1 DEF OthersStay, Stays, SamePayload, RequestStays, cacheVars
<1>2. \A x \in Masters : RequestStays(x)
  <2>1. ASSUME NEW m \in Masters, Accept(m) PROVE \A x \in Masters : RequestStays(x)
    BY <1>1, <2>1, AcceptData
  <2>2. ASSUME NEW m \in Masters, EngineSnoop(m) PROVE \A x \in Masters : RequestStays(x)
    BY <1>1, <2>2, EngineData DEF SamePayload
  <2>3. ASSUME NEW m \in Masters, NEW l \in Lines, NEW c \in Caches, PortDone(m, l, c)
        PROVE \A x \in Masters : RequestStays(x)
    BY <1>1, <2>3, PortData, StoreTxIsWrite
  <2>4. ASSUME NEW m \in Masters, NEW l \in Lines, LineDone(m, l)
        PROVE \A x \in Masters : RequestStays(x)
    BY <1>1, <2>4, StoreTxIsWrite DEF LineDone, ReadKinds
  <2>5. ASSUME NEW m \in Masters, OwnDone(m) PROVE \A x \in Masters : RequestStays(x)
    BY <1>1, <2>5, StoreTxIsWrite DEF OwnDone
  <2>6. CASE UNCHANGED <<tx, snoop, overlap, memory>>
    BY <1>0, <2>6 DEF RequestStays, cacheVars
  <2>7. QED
    BY <2>1, <2>2, <2>3, <2>4, <2>5, <2>6 DEF IcnData
<1>3. \A c \in Caches : /\ want'[c] = want[c] /\ monitor'[c] = monitor[c]
                        /\ LineIn(c)' = LineIn(c)
  BY <1>0 DEF cacheVars, LineIn, get_line
<1>4. \A c \in Caches : (op[c] # NoOp => RequestOk(c))'
  BY <1>2, <1>3, CachesAreMasters, RequestKept DEF RequestInv
<1>5. \A m \in LiteMasters : (op[m] # NoOp => LiteRequestOk(m))'
  BY <1>2, CachesAreMasters, LiteRequestKept DEF RequestInv
<1>6. QED
  BY <1>4, <1>5 DEF RequestInv

\* so does a snoop, which leaves the line an access works on or takes it away,
LEMMA RequestSnoop ==
    ASSUME BaseInv, OverlapInv, RequestInv, NEW m \in Masters, NEW l \in Lines, NEW c \in Caches,
           SnoopMaster(m, l, c)
    PROVE  RequestInv'
<1>1. /\ CacheTypeOK /\ AccessInv /\ c \in Masters
      /\ UNCHANGED <<tx, want, op>> /\ ~write_ongoing(c)
  BY CachesAreMasters, SnoopMasterParts DEF BaseInv, TypeOK
<1>2. PICK kind : CacheSnoop(c, kind, l)
  BY DEF SnoopMaster
<1>3. /\ \A d \in Caches, i \in Slots :
            /\ cacheline'[d][i].tag = cacheline[d][i].tag
            /\ cacheline'[d][i].valid => cacheline[d][i].valid
      /\ \A d \in Caches \ {c} : monitor'[d] = monitor[d]
  BY <1>1, <1>2, SnoopSteps
<1>4. \A x \in Masters : RequestStays(x)
  BY <1>1 DEF RequestStays
<1>5. ASSUME NEW d \in Caches, op[d] # NoOp
      PROVE  RequestOk(d)'
  <2>1. op[d] \in Op /\ LineOf(op[d]) \in Lines /\ AsksRight(d) /\ RequestOk(d)
    BY <1>1, <1>5, CachesAreMasters, AccessParts, AccessFacts DEF RequestInv
  <2>2. LineIn(d)'.valid => LineIn(d).valid
    BY <1>1, <1>3, <2>1, SlotOf DEF LineIn, get_line
  <2>3. ASSUME "MakeUnique" \in {tx[d].kind, want[d]}, StartAddr(op[d]) \in monitor[d]
        PROVE  StartAddr(op[d]) \in monitor'[d]
    <3>1. CASE d # c
      BY <1>3, <2>3, <3>1
    <3>2. CASE d = c
      <4>1. tx[c].kind = "MakeUnique"
        <5>1. tx[c].kind \notin CopyBackKinds
          BY <1>1 DEF write_ongoing
        <5>2. want[c] = "none"
          BY <2>1, <3>2, <5>1 DEF AsksRight
        <5>3. QED
          BY <2>3, <3>2, <5>2
      <4>2. ~LineIn(c).valid
        BY <2>1, <3>2, <4>1 DEF RequestOk, FillKinds
      <4>3. CASE ~in_cache(c, l)
        BY <1>2, <2>3, <3>2, <4>3 DEF CacheSnoop
      <4>4. CASE in_cache(c, l)
        <5>1. l # LineOf(op[c])
          BY <4>2, <4>4 DEF in_cache, Holds, LineIn
        <5>2. StartAddr(op[c]) # <<l, 0>>
          BY <5>1 DEF StartAddr
        <5>3. monitor' = [monitor EXCEPT ![c] = SnoopedMonitor(kind, l, @)]
          BY <1>2, <4>4 DEF CacheSnoop
        <5>4. monitor'[c] = SnoopedMonitor(kind, l, monitor[c])
          BY <1>1, <5>3 DEF CacheTypeOK
        <5>5. QED
          BY <2>3, <3>2, <5>2, <5>4 DEF SnoopedMonitor
      <4>5. QED
        BY <4>3, <4>4
    <3>3. QED
      BY <3>1, <3>2
  <2>4. RequestStays(d) /\ want'[d] = want[d] /\ (op[d] # NoOp)'
    BY <1>1, <1>4, <1>5, CachesAreMasters
  <2>5. QED
    BY <2>1, <2>2, <2>3, <2>4, RequestKept
<1>6. \A x \in LiteMasters : (op[x] # NoOp => LiteRequestOk(x))'
  BY <1>4, CachesAreMasters, LiteRequestKept DEF RequestInv
<1>7. QED
  BY <1>1, <1>5, <1>6 DEF RequestInv

\* so does a turn of a cache's thread,
LEMMA RequestTurn ==
    ASSUME BaseInv, RequestInv, NEW c \in Caches, NEW o, NEW r, CacheData(c, o, r)
    PROVE  RequestInv'
<1>1. /\ o \in Op /\ r \in Result /\ LineOf(o) \in Lines /\ c \in Masters
      /\ \A i \in Slots : cacheline'[c][i] = IF i = Index[LineOf(o)] THEN r.ln
                                                                   ELSE cacheline[c][i]
      /\ \A d \in Caches \ {c} : cacheline'[d] = cacheline[d] /\ monitor'[d] = monitor[d]
      /\ op'[c] = IF r.req = "none" THEN NoOp ELSE o
      /\ want'[c] = r.want /\ monitor'[c] = r.mon /\ tx'[c] = NextTx(o, r)
      /\ \A x \in Masters \ {c} : op'[x] = op[x] /\ want'[x] = want[x] /\ tx'[x] = tx[x]
  BY TurnParts
<1>2. Fitting(c, o, r)
  BY DEF CacheData
<1>3. ASSUME op'[c] # NoOp PROVE RequestOk(c)'
  <2>1. r.req # "none" /\ op'[c] = o /\ tx'[c].kind = r.req
    <3>1. r.req # "none" /\ op'[c] = o
      BY <1>1, <1>3
    <3>2. NextTx(o, r).kind = r.req
      BY <1>1, NextTxData
    <3>3. QED
      BY <1>1, <3>1, <3>2
  <2>2. LineIn(c)' = r.ln
    BY <1>1, <2>1, SlotOf DEF LineIn, get_line
  <2>3. ASSUME r.req \in UniqueWriteKinds \cup {"WriteNoSnoop"} PROVE Writes(c)'
    <3>1. o.kind \in StoreKinds
      BY <1>2, <2>3 DEF Fitting, Fits
    <3>2. NextTx(o, r).rng = o.rng /\ NextTx(o, r).data = [a \in o.rng |-> o.val]
      BY <1>1, <2>3, NextTxData
    <3>3. QED
      BY <1>1, <2>1, <3>1, <3>2 DEF Writes
  <2>4. QED
    BY <1>1, <1>2, <2>1, <2>2, <2>3 DEF RequestOk, Fitting
<1>4. ASSUME NEW d \in Caches \ {c} PROVE (op[d] # NoOp => RequestOk(d))'
  <2>1. d \in Masters /\ d \in Caches /\ RequestStays(d) /\ want'[d] = want[d] /\ monitor'[d] = monitor[d]
    BY <1>1, CachesAreMasters DEF RequestStays
  <2>2. LineIn(d)' = LineIn(d)
    BY <1>1, <2>1 DEF LineIn, get_line, RequestStays
  <2>3. QED
    BY <2>1, <2>2, RequestKept DEF RequestInv
<1>5. ASSUME NEW m \in LiteMasters PROVE (op[m] # NoOp => LiteRequestOk(m))'
  <2>1. m # c /\ m \in Masters
    BY ProtocolAssumption, CachesAreMasters
  <2>2. RequestStays(m)
    BY <1>1, <2>1 DEF RequestStays
  <2>3. QED
    BY <2>2, LiteRequestKept DEF RequestInv
<1>6. QED
  BY <1>3, <1>4, <1>5 DEF RequestInv

\* so does an ACE-Lite master,
LEMMA RequestLite ==
    ASSUME BaseInv, RequestInv, NEW m \in Masters \ Caches, LiteData(m)
    PROVE  RequestInv'
<1>1. /\ \A x \in Masters \ {m} : op'[x] = op[x] /\ tx'[x] = tx[x]
      /\ UNCHANGED <<cacheline, monitor, want>>
  BY DEF LiteData
<1>2. \A x \in Masters \ {m} : RequestStays(x)
  BY <1>1 DEF RequestStays
<1>3. ASSUME NEW c \in Caches PROVE (op[c] # NoOp => RequestOk(c))'
  <2>1. c # m /\ c \in Masters
    BY CachesAreMasters
  <2>2. LineIn(c)' = LineIn(c)
    BY <1>1, <2>1 DEF LineIn, get_line
  <2>3. QED
    BY <1>1, <1>2, <2>1, <2>2, RequestKept DEF RequestInv
<1>4. ASSUME NEW x \in LiteMasters PROVE (op[x] # NoOp => LiteRequestOk(x))'
  <2>1. CASE x # m
    BY <1>2, <2>1, CachesAreMasters, LiteRequestKept DEF RequestInv
  <2>2. CASE x = m
    <3>1. CASE op'[m] = NoOp
      BY <2>2, <3>1
    <3>2. CASE \E o \in traffic[m] : op'[m] = o /\ tx'[m] = LiteTx(o)
      <4>1. PICK o : op'[m] = o /\ tx'[m] = LiteTx(o)
        BY <3>2
      <4>2. "WriteUnique" # "ReadOnce"
        OBVIOUS
      <4>3. tx'[m].kind = "WriteUnique" => o.kind \in StoreKinds
        BY <4>1, <4>2, LiteTxData
      <4>4. o.kind \in StoreKinds => tx'[m].data = [a \in o.rng |-> o.val]
        BY <4>1, LiteTxData
      <4>5. QED
        BY <2>2, <4>1, <4>3, <4>4, LiteTxData DEF LiteRequestOk, Writes
    <3>3. QED
      BY <3>1, <3>2 DEF LiteData
  <2>3. QED
    BY <2>1, <2>2
<1>5. QED
  BY <1>3, <1>4 DEF RequestInv

\* so every step does.
LEMMA RequestStep ==
    ASSUME BaseInv, OverlapInv, ExclusiveInv, RequestInv, LinesInv, ExecFifo, NothingDiscarded,
           [Next]_vars
    PROVE  RequestInv'
  BY DataKinds, RequestIcn, RequestSnoop, RequestTurn, RequestLite

-----------------------------------------------------------------------------
(***************************************************************************)
(* The lines of a cache.                                                   *)
(***************************************************************************)
LineOk(c, ln) ==
    /\ ln.valid => ln.tag \notin NonShareable
    /\ c \in WriteThroughCaches => ~ln.dirty

\* A unique write leaves its line kept, if the cache has it.
LEMMA KeptBase ==
    ASSUME NEW o, NEW t, NEW ln, t.kind \in UniqueWriteKinds
    PROVE  BaseLine(o, t, ln) = IF Holds(ln, LineOf(o)) THEN KeptLine(ln, o) ELSE ln
<1>1. t.kind \notin CopyBackKinds /\ t.kind # "CleanUnique"
  BY KindClasses DEF UniqueWriteKinds
<1>2. QED
  BY <1>1, KindClasses DEF BaseLine

\* What a response does to a line leaves it one the cache may have,
LEMMA BaseLineOk ==
    ASSUME NEW c \in Caches, NEW o \in Op, NEW t, NEW ln \in CacheLine, LineOk(c, ln),
           Fits(c, o, monitor[c], t.kind), t.kind = "CleanUnique" => ln.tag = LineOf(o),
           t.dirty \in BOOLEAN
    PROVE  LineOk(c, BaseLine(o, t, ln))
<1>1. \A b : b.valid = ln.valid /\ b.tag = ln.tag /\ (b.dirty => ln.dirty) => LineOk(c, b)
  BY DEF LineOk
<1>2. CASE t.kind \in CopyBackKinds \cup {"CleanUnique"}
  <2>1. t.kind \notin UniqueWriteKinds /\ t.kind \notin FillKinds
    BY <1>2, KindClasses
  <2>2. t.kind \in {"WriteBack", "WriteClean", "Evict", "CleanUnique"}
    BY <1>2 DEF CopyBackKinds
  <2>3. /\ [ln EXCEPT !.dirty = FALSE].valid = ln.valid /\ [ln EXCEPT !.dirty = FALSE].tag = ln.tag
        /\ ~[ln EXCEPT !.dirty = FALSE].dirty
        /\ ~[ln EXCEPT !.valid = FALSE].valid /\ [ln EXCEPT !.valid = FALSE].dirty = ln.dirty
        /\ [ln EXCEPT !.shared = FALSE].valid = ln.valid /\ [ln EXCEPT !.shared = FALSE].tag = ln.tag
        /\ [ln EXCEPT !.shared = FALSE].dirty = ln.dirty
        /\ [ln EXCEPT !.valid = TRUE].tag = ln.tag /\ [ln EXCEPT !.valid = TRUE].dirty = ln.dirty
    BY DEF CacheLine
  <2>4. t.kind = "CleanUnique" => ln.tag \notin NonShareable
    BY DEF Fits
  <2>5. CASE t.kind = "WriteClean"
    <3>0. t.kind \notin {"WriteBack", "Evict", "CleanUnique"}
      BY <2>5
    <3>1. BaseLine(o, t, ln) = [ln EXCEPT !.dirty = FALSE]
      BY <2>1, <2>5, <3>0 DEF BaseLine
    <3>2. QED
      BY <1>1, <2>3, <3>1
  <2>6. CASE t.kind \in {"WriteBack", "Evict"}
    <3>1. BaseLine(o, t, ln) = [ln EXCEPT !.valid = FALSE]
      BY <2>1, <2>6 DEF BaseLine
    <3>2. QED
      BY <2>3, <3>1 DEF LineOk
  <2>7. CASE t.kind = "CleanUnique"
    <3>1. ln.valid \in BOOLEAN
      BY DEF CacheLine
    <3>2. BaseLine(o, t, ln) = IF ln.valid THEN [ln EXCEPT !.shared = FALSE]
                                           ELSE [ln EXCEPT !.valid = TRUE]
      BY <2>1, <2>7, <3>1 DEF BaseLine
    <3>3. QED
      BY <1>1, <2>3, <2>4, <2>7, <3>2 DEF LineOk
  <2>8. QED
    BY <2>2, <2>5, <2>6, <2>7
<1>3. CASE t.kind \in UniqueWriteKinds
  <2>2. BaseLine(o, t, ln) = IF Holds(ln, LineOf(o)) THEN KeptLine(ln, o) ELSE ln
    BY <1>3, KeptBase
  <2>3. LineOk(c, KeptLine(ln, o))
    BY KeptLineParts DEF LineOk
  <2>4. QED
    BY <2>2, <2>3
<1>4. CASE t.kind \in FillKinds
  <2>1. t.kind \notin {"WriteBack", "WriteClean", "Evict", "CleanUnique"} \cup UniqueWriteKinds
    BY <1>4, KindClasses
  <2>2. BaseLine(o, t, ln) = install(ln, LineOf(o), t)
    BY <1>4, <2>1 DEF BaseLine
  <2>3. LineOf(o) \notin NonShareable /\ (c \in WriteThroughCaches => t.kind = "ReadClean")
    BY <1>4 DEF Fits
  <2>4. install(ln, LineOf(o), t).tag = LineOf(o)
        /\ (t.kind = "ReadClean" => ~install(ln, LineOf(o), t).dirty)
    BY DEF install, make_unique, read_fill, CacheLine
  <2>5. QED
    BY <2>2, <2>3, <2>4 DEF LineOk
<1>5. CASE t.kind \notin FillKinds \cup UniqueWriteKinds \cup CopyBackKinds \cup {"CleanUnique"}
  <2>1. t.kind \notin {"WriteBack", "WriteClean", "Evict"}
    BY <1>5 DEF CopyBackKinds
  <2>2. BaseLine(o, t, ln) = ln
    BY <1>5, <2>1 DEF BaseLine
  <2>3. QED
    BY <2>2
<1>6. QED
  BY <1>2, <1>3, <1>4, <1>5

\* and so does what the thread goes on to do.
LEMMA ServesOk ==
    ASSUME NEW c \in Caches, NEW o \in Op, NEW ln \in CacheLine, NEW r, Serves(c, o, ln, r), LineOk(c, ln)
    PROVE  LineOk(c, r.ln)
<1>1. CASE ~Takes(c, o, r)
  BY <1>1 DEF Serves
<1>2. CASE Takes(c, o, r)
  <2>1. c \notin WriteThroughCaches
    BY <1>2, ProtocolAssumption DEF Takes
  <2>3. r.ln.valid = ln.valid /\ r.ln.tag = ln.tag
    BY <1>2, StoredLineParts DEF Serves
  <2>4. QED
    BY <2>1, <2>3 DEF LineOk
<1>3. QED
  BY <1>1, <1>2

\* The line a response leaves is a line.
LEMMA BaseLineType ==
    ASSUME NEW o \in Op, NEW t, NEW ln \in CacheLine, t.shared \in BOOLEAN, t.dirty \in BOOLEAN,
           t.kind \in FillKinds => ToLine(t.data, LineOf(o)) \in LineData
    PROVE  BaseLine(o, t, ln) \in CacheLine
<1>1. /\ [ln EXCEPT !.dirty = FALSE] \in CacheLine /\ [ln EXCEPT !.valid = FALSE] \in CacheLine
      /\ [ln EXCEPT !.shared = FALSE] \in CacheLine /\ [ln EXCEPT !.valid = TRUE] \in CacheLine
      /\ ln.valid \in BOOLEAN
  BY DEF CacheLine
<1>2. KeptLine(ln, o) \in CacheLine
  BY KeptLineParts
<1>3. LineOf(o) \in Lines
  BY AccessFacts
<1>4. t.kind \in FillKinds => install(ln, LineOf(o), t) \in CacheLine
  <2>1. make_unique(ln, LineOf(o)) \in CacheLine
    BY <1>3 DEF make_unique, CacheLine
  <2>2. t.kind \in FillKinds => read_fill(ln, LineOf(o), t) \in CacheLine
    BY <1>3 DEF read_fill, CacheLine
  <2>3. QED
    BY <2>1, <2>2 DEF install
<1>5. QED
  BY <1>1, <1>2, <1>4 DEF BaseLine

\* Every step keeps LinesInv.
LEMMA LinesStep ==
    ASSUME BaseInv, OverlapInv, ExclusiveInv, RequestInv, LinesInv, ExecFifo, NothingDiscarded,
           [Next]_vars
    PROVE  LinesInv'
<1>0. /\ IcnTypeOK /\ CacheTypeOK /\ AccessInv
      /\ \A c \in Caches, i \in Slots : LineOk(c, cacheline[c][i])
  BY DEF BaseInv, TypeOK, LinesInv, LineOk
<1> SUFFICES \A c \in Caches, i \in Slots : LineOk(c, cacheline'[c][i])
  BY DEF LinesInv, LineOk
<1>1. CASE UNCHANGED cacheline
  BY <1>0, <1>1
<1>2. ASSUME NEW c \in Caches, NEW o, NEW r, CacheData(c, o, r)
      PROVE  \A d \in Caches, i \in Slots : LineOk(d, cacheline'[d][i])
  <2>1. /\ o \in Op /\ r \in Result /\ LineOf(o) \in Lines /\ c \in Masters
        /\ get_line(c, LineOf(o)) \in CacheLine
        /\ \A i \in Slots : cacheline'[c][i] = IF i = Index[LineOf(o)] THEN r.ln
                                                                     ELSE cacheline[c][i]
        /\ \A d \in Caches \ {c} : cacheline'[d] = cacheline[d]
    BY <1>2, TurnParts
  <2>2. PICK ln : ln = get_line(c, LineOf(o))
    OBVIOUS
  <2>3. ln \in CacheLine /\ LineOk(c, ln)
    BY <1>0, <2>1, <2>2, SlotOf DEF get_line
  <2>4. CASE Serves(c, o, ln, r)
    BY <1>0, <2>1, <2>3, <2>4, ServesOk
  <2>5. CASE tx[c].phase = "resp" /\ o = op[c] /\ AsksRight(c) /\ Resumes(c, o, tx[c], ln, r)
    <3>1. o # NoOp /\ RequestOk(c)
      BY <2>1, <2>5, AccessFacts DEF RequestInv
    <3>2. Fits(c, o, monitor[c], tx[c].kind)
      BY <2>5, <3>1 DEF RequestOk
    <3>3. tx[c].kind = "CleanUnique" => ln.tag = LineOf(o)
      BY <2>2, <2>5 DEF AsksRight, LineIn
    <3>4. tx[c] \in Tx /\ tx[c].dirty \in BOOLEAN /\ tx[c].shared \in BOOLEAN
      BY <1>0, <2>1 DEF IcnTypeOK, Tx
    <3>5. LineOk(c, BaseLine(o, tx[c], ln))
      BY <2>1, <2>3, <3>2, <3>3, <3>4, BaseLineOk
    <3>6. ToLine(tx[c].data, LineOf(o)) \in LineData \/ tx[c].kind \notin FillKinds
      <4>1. SUFFICES ASSUME tx[c].kind \in FillKinds PROVE ToLine(tx[c].data, LineOf(o)) \in LineData
        OBVIOUS
      <4>2. tx[c].rng = LineAddr(LineOf(o))
        BY <2>5, <4>1, KindClasses DEF AsksRight, PayloadRange
      <4>3. tx[c].data \in [tx[c].rng -> Values]
        BY <1>0, <2>1 DEF IcnTypeOK
      <4>4. QED
        BY <4>2, <4>3 DEF ToLine, LineData, LineAddr
    <3>7. BaseLine(o, tx[c], ln) \in CacheLine
      BY <2>1, <2>3, <3>4, <3>6, BaseLineType
    <3>8. PICK b : b = BaseLine(o, tx[c], ln)
      OBVIOUS
    <3>9. b \in CacheLine /\ LineOk(c, b) /\ Serves(c, o, b, r)
      BY <2>5, <3>5, <3>7, <3>8 DEF Resumes
    <3>10. LineOk(c, r.ln)
      BY <2>1, <3>9, ServesOk
    <3>11. QED
      BY <1>0, <2>1, <3>10
  <2>6. QED
    BY <1>2, <2>2, <2>4, <2>5 DEF CacheData
<1>3. ASSUME NEW m \in Masters, NEW l \in Lines, NEW c \in Caches, SnoopMaster(m, l, c)
      PROVE  \A d \in Caches, i \in Slots : LineOk(d, cacheline'[d][i])
  <2>1. PICK kind : CacheSnoop(c, kind, l)
    BY <1>3 DEF SnoopMaster
  <2>2. /\ \A d \in Caches, i \in Slots :
              /\ cacheline'[d][i].tag = cacheline[d][i].tag
              /\ cacheline'[d][i].valid => cacheline[d][i].valid
              /\ d # c \/ i # Index[l] => cacheline'[d][i] = cacheline[d][i]
        /\ get_line(c, l)' = IF in_cache(c, l) THEN SnoopedLine(kind, get_line(c, l))
                                               ELSE get_line(c, l)
    BY <1>0, <2>1, SnoopSteps
  <2>3. get_line(c, l) \in CacheLine
    BY <1>0, SlotOf DEF CacheTypeOK, get_line
  <2>4. cacheline'[c][Index[l]].dirty => cacheline[c][Index[l]].dirty
    <3>1. SnoopedLine(kind, get_line(c, l)).dirty => get_line(c, l).dirty
      BY <2>3, SnoopedParts
    <3>2. QED
      BY <2>2, <3>1 DEF get_line
  <2>5. QED
    BY <1>0, <2>2, <2>4 DEF LineOk
<1>4. QED
  BY <1>1, <1>2, <1>3, DataKinds DEF IcnData, LiteData, cacheVars

\* The downstream fifo holds no other line than before, and each of them is
\* still to be cleaned or fetched.
LEMMA ExecKept ==
    ASSUME ExecFifo,
           \A e \in Range(downstream') : e.own \/ /\ e \in Range(downstream)
                                                  /\ snoop[e.m][e.line].exec => snoop'[e.m][e.line].exec
    PROVE  ExecFifo'
  BY DEF ExecFifo

\* The entries of a fifo with one more.
LEMMA AppendEntry ==
    ASSUME NEW q \in Seq(DsEntry), NEW e \in DsEntry
    PROVE  Range(Append(q, e)) = Range(q) \cup {e}
  BY AppendRange

\* A line that is finalized has no entry left downstream.
LEMMA ExecFinalized ==
    ASSUME BaseInv, ExecFifo, NEW m \in Masters, NEW l \in Lines, NEW t, NEW q \in Seq(DsEntry),
           Range(q) \subseteq Range(downstream), [m |-> m, line |-> l, own |-> FALSE] \notin Range(q),
           finalize_snoop_tr(m, l, t, q)
    PROVE  ExecFifo'
<1>1. IcnTypeOK
  BY DEF BaseInv, TypeOK
<1>2. PICK own \in DsEntry : own = [m |-> m, line |-> l, own |-> TRUE]
  BY DEF DsEntry
<1>3. own.own
  BY <1>2
<1>4. (downstream' = q \/ downstream' = Append(q, own)) /\ snoop' = [snoop EXCEPT ![m][l] = NoSnoop]
  BY <1>2 DEF finalize_snoop_tr
<1>5. Range(downstream') \subseteq Range(q) \cup {own}
  <2>1. Range(Append(q, own)) = Range(q) \cup {own}
    BY <1>2, AppendEntry
  <2>2. QED
    BY <1>4, <2>1
<1>6. ASSUME NEW e \in Range(q), ~e.own
      PROVE  e \in Range(downstream) /\ snoop'[e.m][e.line] = snoop[e.m][e.line]
  <2>1. e \in Range(downstream) /\ e \in DsEntry
    BY <1>1, <1>6, FifoTypes, RangeIs
  <2>2. e = [m |-> e.m, line |-> e.line, own |-> FALSE]
    BY <1>6, <2>1 DEF DsEntry
  <2>3. e.m # m \/ e.line # l
    BY <1>6, <2>2
  <2>4. e.m \in Masters /\ e.line \in Lines
    BY <2>1 DEF DsEntry
  <2>5. QED
    BY <1>1, <1>4, <2>1, <2>3, <2>4 DEF IcnTypeOK
<1>7. QED
  BY <1>3, <1>5, <1>6, ExecKept

\* The interconnect keeps ExecFifo when it finishes a line,
LEMMA ExecIcn ==
    ASSUME BaseInv, ExecFifo, SnoopDone \/ DsOwn \/ DsSnoop
    PROVE  ExecFifo'
<1>1. /\ IcnTypeOK /\ DoneFifo /\ DsFifo
      /\ snoopDone \in Seq(Masters \X Lines) /\ downstream \in Seq(DsEntry)
  BY FifoTypes DEF BaseInv, TypeOK, WorkInv
<1>2. CASE SnoopDone
  <2>1. Head(snoopDone) \in Range(snoopDone) /\ Head(snoopDone) \in Masters \X Lines
    BY <1>1, <1>2, RangeIs, HeadIn DEF SnoopDone
  <2>2. PICK m \in Masters, l \in Lines : Head(snoopDone) = <<m, l>>
    BY <2>1
  <2>3. PICK e \in DsEntry : e = [m |-> m, line |-> l, own |-> FALSE]
    BY DEF DsEntry
  <2>30. Head(snoopDone)[1] = m /\ Head(snoopDone)[2] = l /\ e.m = m /\ e.line = l /\ ~e.own
    BY <2>2, <2>3
  <2>4. CASE snoop[m][l].exec
    <3>1. downstream' = Append(downstream, e) /\ snoop' = snoop
      BY <1>2, <2>3, <2>30, <2>4 DEF SnoopDone
    <3>2. Range(downstream') = Range(downstream) \cup {e}
      BY <1>1, <3>1, AppendEntry
    <3>3. QED
      BY <2>30, <2>4, <3>1, <3>2 DEF ExecFifo
  <2>5. CASE ~snoop[m][l].exec
    <3>1. finalize_snoop_tr(m, l, tx[m], downstream)
      BY <1>2, <2>30, <2>5 DEF SnoopDone
    <3>2. e \notin Range(downstream)
      BY <1>1, <2>1, <2>2, <2>3 DEF DsFifo, Queued
    <3>3. QED
      BY <1>1, <2>3, <3>1, <3>2, ExecFinalized
  <2>6. QED
    BY <2>4, <2>5
<1>3. CASE DsOwn
  <2>1. downstream # <<>> /\ downstream' = Tail(downstream) /\ snoop' = snoop
    BY <1>3 DEF DsOwn
  <2>2. Range(downstream') \subseteq Range(downstream)
    BY <1>1, <2>1, TailRange DEF DsFifo
  <2>3. QED
    BY <2>1, <2>2 DEF ExecFifo
<1>4. CASE DsSnoop
  <2>1. Head(downstream) \in DsEntry /\ downstream # <<>> /\ ~Head(downstream).own
    BY <1>1, <1>4, HeadIn DEF DsSnoop
  <2>2. PICK m \in Masters, l \in Lines : Head(downstream).m = m /\ Head(downstream).line = l
    BY <2>1 DEF DsEntry
  <2>3. Head(downstream) = [m |-> m, line |-> l, own |-> FALSE]
    BY <2>1, <2>2 DEF DsEntry
  <2>4. \E t : finalize_snoop_tr(m, l, t, Tail(downstream))
    BY <1>4, <2>2 DEF DsSnoop
  <2>5. /\ Tail(downstream) \in Seq(DsEntry)
        /\ Range(Tail(downstream)) = Range(downstream) \ {Head(downstream)}
    BY <1>1, <2>1, TailRange DEF DsFifo
  <2>6. [m |-> m, line |-> l, own |-> FALSE] \notin Range(Tail(downstream))
    BY <2>3, <2>5
  <2>7. QED
    BY <2>4, <2>5, <2>6, ExecFinalized
<1>5. QED
  BY <1>2, <1>3, <1>4

\* when a port is snooped or its answer is taken,
LEMMA ExecPorts ==
    ASSUME BaseInv, ExecFifo, NEW m \in Masters, NEW l \in Lines, NEW c \in Caches,
           SnoopMaster(m, l, c) \/ PortDone(m, l, c)
    PROVE  ExecFifo'
<1>1. IcnTypeOK /\ WorkInv /\ DsFifo
  BY DEF BaseInv, TypeOK, WorkInv
<1>2. /\ snoop[m][l].sent # {} \/ snoop[m][l].back # {}
      /\ downstream' = downstream
      /\ \A x \in Masters, k \in Lines : x # m \/ k # l => snoop'[x][k] = snoop[x][k]
  <2>1. CASE SnoopMaster(m, l, c)
    BY <1>1, <2>1 DEF SnoopMaster, SnoopReady, SnoopAnswered, IcnTypeOK
  <2>2. CASE PortDone(m, l, c)
    BY <1>1, <2>2 DEF PortDone, IcnTypeOK
  <2>3. QED
    BY <2>1, <2>2
<1>3. ~Quiet(m, l)
  BY <1>1, <1>2, BusyActive
<1>4. \A e \in Range(downstream) : ~e.own =>
         e.m \in Masters /\ e.line \in Lines /\ (e.m # m \/ e.line # l)
  BY <1>1, <1>3, FifoTypes DEF DsFifo, Queued
<1>5. QED
  BY <1>2, <1>4, ExecKept

\* and at every step.
LEMMA ExecStep ==
    ASSUME BaseInv, ExclusiveInv, ExecFifo, [Next]_vars
    PROVE  ExecFifo'
<1>1. IcnTypeOK /\ DoneFifo /\ DsFifo /\ downstream \in Seq(DsEntry)
  BY FifoTypes DEF BaseInv, TypeOK, WorkInv
<1>2. CASE UNCHANGED vars
  BY <1>2 DEF ExecFifo, vars, icnVars
<1>3. ASSUME NEW c \in Caches, CacheStart(c) \/ CacheResume(c)
      PROVE  ExecFifo'
  BY <1>3 DEF ExecFifo, CacheStart, CacheResume, Deliver
<1>4. ASSUME NEW m \in LiteMasters, LiteStart(m) \/ LiteResume(m)
      PROVE  ExecFifo'
  BY <1>4 DEF ExecFifo, LiteStart, LiteResume, Deliver
<1>5. ASSUME NEW m \in Masters, AcceptTx(m)
      PROVE  ExecFifo'
  <2>1. PICK l : l = CHOOSE x \in LinesOf(tx[m].rng) : TRUE
    OBVIOUS
  <2>2. snoop' = snoop
    BY <1>5 DEF AcceptTx, Accept
  <2>3. CASE downstream' = downstream
    BY <2>2, <2>3 DEF ExecFifo
  <2>4. CASE downstream' # downstream
    <3>1. /\ downstream' = Append(downstream, [m |-> m, line |-> l, own |-> TRUE])
          /\ tx[m].phase = "req"
      BY <1>5, <2>1, <2>4 DEF AcceptTx, Accept
    <3>2. l \in Lines
      <4>1. op[m] # NoOp /\ AccessInv
        BY <3>1, AccessParts DEF BaseInv
      <4>2. tx[m].rng # {} /\ tx[m].rng \subseteq Addr
        BY <1>1, <4>1, AccessParts DEF IcnTypeOK, Tx
      <4>3. LinesOf(tx[m].rng) # {} /\ LinesOf(tx[m].rng) \subseteq Lines
        BY <4>2 DEF LinesOf, Addr
      <4>4. QED
        BY <2>1, <4>3
    <3>3. PICK e \in DsEntry : e = [m |-> m, line |-> l, own |-> TRUE]
      BY <3>2 DEF DsEntry
    <3>4. Range(downstream') = Range(downstream) \cup {e}
      BY <1>1, <3>1, <3>3, AppendEntry
    <3>5. QED
      BY <2>2, <3>3, <3>4 DEF ExecFifo
  <2>5. QED
    BY <2>3, <2>4
<1>6. ASSUME NEW m \in Masters, EngineThread(m)
      PROVE  ExecFifo'
  <2>1. EngineSnoop(m)
    BY <1>6, NoEngineFail DEF EngineThread
  <2>2. tx[m].phase = "engine" /\ \A x \in Masters \ {m}, k \in Lines : snoop'[x][k] = snoop[x][k]
    BY <2>1, EngineSnoopParts
  <2>3. downstream' = downstream
    BY <2>1 DEF EngineSnoop
  <2>4. \A e \in Range(downstream) : e.m # m /\ e.m \in Masters /\ e.line \in Lines
    BY <1>1, <2>2, NoWork, FifoTypes
  <2>5. QED
    BY <2>2, <2>3, <2>4, ExecKept
<1>7. ASSUME NEW m \in Masters, NEW l \in Lines, NEW c \in Caches,
             SnoopMaster(m, l, c) \/ PortDoneThread(m, l, c)
      PROVE  ExecFifo'
  BY <1>7, ExecPorts DEF PortDoneThread
<1>8. CASE SnoopDoneThread
  BY <1>8, ExecIcn DEF SnoopDoneThread
<1>9. CASE DownstreamThread
  BY <1>9, ExecIcn DEF DownstreamThread
<1>10. QED
  BY <1>2, <1>3, <1>4, <1>5, <1>6, <1>7, <1>8, <1>9 DEF Next

(***************************************************************************)
(* The lines of ongoing snooping transactions.                             *)
(***************************************************************************)
LinesDisjoint ==
    \A a, b \in Ongoing :
        a # b /\ IsSnoopingTransaction(tx[a].kind) /\ IsSnoopingTransaction(tx[b].kind)
            => LinesOf(tx[a].rng) \cap LinesOf(tx[b].rng) = {}

\* A snooping transaction covers one line, or its access is a narrow one.
LEMMA WholeOrNarrow ==
    ASSUME BaseInv, RequestInv, NEW m \in Masters, op[m] # NoOp, IsSnoopingTransaction(tx[m].kind)
    PROVE  \/ \E l \in Lines : tx[m].rng = LineAddr(l)
           \/ Narrow(m, op[m]) /\ tx[m].rng = op[m].rng /\ op[m] \in traffic[m]
<1>1. AccessInv
  BY DEF BaseInv
<1>2. Asks(m) /\ op[m] \in Op /\ tx[m].kind \in TxKinds
  BY <1>1, AccessParts
<1>3. CASE m \in Caches
  <2>1. RequestOk(m) /\ AsksRight(m)
    BY <1>1, <1>3, AccessParts DEF RequestInv
  <2>2. tx[m].kind \notin CopyBackKinds \cup NoSnoopKinds
    BY DEF IsSnoopingTransaction, CopyBackKinds, NoSnoopKinds, ReadKinds, CleanKinds, CmoKinds,
           UniqueWriteKinds
  <2>3. CASE tx[m].kind \in UniqueWriteKinds
    <3>1. m \in WriteThroughCaches /\ op[m].kind \in StoreKinds /\ tx[m].rng = op[m].rng
      BY <2>1, <2>3 DEF RequestOk, Fits, Writes
    <3>2. QED
      BY <1>2, <3>1 DEF Narrow, Asks
  <2>4. CASE tx[m].kind \notin UniqueWriteKinds
    <3>1. tx[m].rng = LineAddr(LineOf(op[m]))
      BY <2>1, <2>2, <2>4 DEF AsksRight, PayloadRange
    <3>2. QED
      BY <1>2, <3>1, AccessFacts
  <2>5. QED
    BY <2>3, <2>4
<1>4. CASE m \in LiteMasters
  BY <1>2, <1>4 DEF RequestInv, LiteRequestOk, Narrow, Asks
<1>5. QED
  BY <1>3, <1>4 DEF Masters

\* Transactions that snoop at the same time have no line in common.
LEMMA LinesApart ==
    ASSUME BaseInv, RequestInv, OngoingDisjoint, LinesMeet
    PROVE  LinesDisjoint
<1>1. AccessInv /\ IcnTypeOK
  BY DEF BaseInv, TypeOK
<1> SUFFICES ASSUME NEW a \in Ongoing, NEW b \in Ongoing, a # b,
                    IsSnoopingTransaction(tx[a].kind), IsSnoopingTransaction(tx[b].kind),
                    LinesOf(tx[a].rng) \cap LinesOf(tx[b].rng) # {}
             PROVE  FALSE
  BY DEF LinesDisjoint
<1>2. a \in Masters /\ b \in Masters /\ op[a] # NoOp /\ op[b] # NoOp
  BY <1>1, AccessParts DEF Ongoing
<1>3. ~Overlapping(a, b) /\ ~Overlapping(b, a)
  BY DEF OngoingDisjoint, Overlapping
<1>4. PICK l : l \in LinesOf(tx[a].rng) /\ l \in LinesOf(tx[b].rng)
  OBVIOUS
<1>5. ASSUME NEW k \in Lines, tx[a].rng = LineAddr(k)
      PROVE  FALSE
  <2>1. l = k
    BY <1>4, <1>5, LineAddrFacts
  <2>2. QED
    BY <1>1, <1>2, <1>3, <1>4, <1>5, <2>1, LineMeets
<1>6. ASSUME NEW k \in Lines, tx[b].rng = LineAddr(k)
      PROVE  FALSE
  <2>1. l = k
    BY <1>4, <1>6, LineAddrFacts
  <2>2. QED
    BY <1>1, <1>2, <1>3, <1>4, <1>6, <2>1, LineMeets
<1>7. /\ Narrow(a, op[a]) /\ tx[a].rng = op[a].rng /\ op[a] \in traffic[a]
      /\ Narrow(b, op[b]) /\ tx[b].rng = op[b].rng /\ op[b] \in traffic[b]
  BY <1>2, <1>5, <1>6, WholeOrNarrow
<1>8. traffic \in Traffics
  BY <1>1 DEF AccessInv
<1>9. op[a].rng \cap op[b].rng # {}
  BY <1>2, <1>4, <1>7, <1>8 DEF LinesMeet
<1>10. QED
  BY <1>3, <1>7, <1>9 DEF Overlapping

\* The response of a snooping transaction for a line is before the snoops
\* that port c has for it.
Answering(c, l) ==
    tx[c].phase = "resp" /\ IsSnoopingTransaction(tx[c].kind) /\ l \in LinesOf(tx[c].rng)

\* Until the response arrives it is at the head of the port's overlap list.
FrontInv ==
    \A c \in Caches, l \in Lines :
        Answering(c, l) => overlap[c][l] # <<>> /\ Head(overlap[c][l]) = c

\* While the transaction of c for line l is ongoing no snoop for l is sent to c.
LEMMA OngoingEmpty ==
    ASSUME BaseInv, OverlapInv, LinesDisjoint, NEW c \in Caches, NEW l \in Lines, c \in Ongoing,
           IsSnoopingTransaction(tx[c].kind), l \in LinesOf(tx[c].rng)
    PROVE  overlap[c][l] = <<>>
<1>1. overlap[c][l] \in Seq(Masters)
  BY DEF BaseInv, TypeOK, IcnTypeOK
<1>2. ASSUME NEW m \in Range(overlap[c][l])
      PROVE  FALSE
  <2>1. m \in Masters
    BY <1>1, RangeIs
  <2>2. CASE m = c
    BY <2>2 DEF OverlapInv, OverlapOk, Ongoing
  <2>3. CASE m # c
    <3>1. c \in snoop[m][l].sent \cup snoop[m][l].back
      BY <2>3 DEF OverlapInv, OverlapOk
    <3>2. tx[m].phase = "snoop" /\ IsSnoopingTransaction(tx[m].kind) /\ l \in LinesOf(tx[m].rng)
      BY <2>1, <3>1, PortsBusy
    <3>3. m \in Ongoing
      BY <2>1, <3>2 DEF Ongoing
    <3>4. QED
      BY <2>3, <3>2, <3>3 DEF LinesDisjoint
  <2>4. QED
    BY <2>2, <2>3
<1>3. QED
  BY <1>1, <1>2, RangeIs

\* Step by step: lists that others have a hand in keep their head.
FrontKept(c, l) ==
    Answering(c, l)' =>
        /\ Answering(c, l)
        /\ overlap[c][l] # <<>> /\ Head(overlap[c][l]) = c
              => overlap'[c][l] # <<>> /\ Head(overlap'[c][l]) = c

\* FrontInv for one cache and line.
FrontOk(c, l) == Answering(c, l) => overlap[c][l] # <<>> /\ Head(overlap[c][l]) = c

\* A list whose head is kept still has it in front.
LEMMA FrontGoesOn ==
    ASSUME NEW c, NEW l, FrontOk(c, l), FrontKept(c, l)
    PROVE  FrontOk(c, l)'
  BY DEF FrontOk, FrontKept

\* A list that does not change keeps its head.
LEMMA FrontStays ==
    ASSUME NEW c, NEW l, Stays(c), overlap'[c][l] = overlap[c][l]
    PROVE  FrontKept(c, l)
  BY DEF FrontKept, Answering, Stays, SamePayload

\* The transaction of m is done, others stay.
LEMMA FrontDone ==
    ASSUME BaseInv, OverlapInv, LinesDisjoint, FrontInv, NEW m \in Masters, m \in Ongoing,
           OthersStay(m), OverlapDone(m), tx'[m].kind = tx[m].kind, tx'[m].rng = tx[m].rng
    PROVE  FrontInv'
<1>1. IcnTypeOK
  BY DEF BaseInv, TypeOK
<1> SUFFICES ASSUME NEW c \in Caches, NEW l \in Lines
             PROVE  FrontOk(c, l)'
  BY DEF FrontInv, FrontOk
<1>2. FrontOk(c, l) /\ c \in Masters
  BY CachesAreMasters DEF FrontInv, FrontOk
<1>3. CASE c # m
  <2>1. overlap'[c][l] = overlap[c][l]
    BY <1>1, <1>3 DEF OverlapDone, IcnTypeOK
  <2>2. QED
    BY <1>2, <1>3, <2>1, FrontStays, FrontGoesOn DEF OthersStay
<1>4. CASE c = m
  <2>1. SUFFICES ASSUME Answering(c, l)'
                 PROVE  overlap'[c][l] # <<>> /\ Head(overlap'[c][l]) = c
    BY DEF FrontOk
  <2>2. IsSnoopingTransaction(tx[c].kind) /\ l \in LinesOf(tx[c].rng)
    BY <1>4, <2>1 DEF Answering
  <2>3. overlap[c][l] = <<>>
    BY <1>4, <2>2, OngoingEmpty
  <2>4. overlap'[c][l] = Append(overlap[c][l], c)
    BY <1>1, <1>4, <2>2 DEF OverlapDone, IcnTypeOK
  <2>5. overlap[c][l] \in Seq(Masters)
    BY <1>1 DEF IcnTypeOK
  <2>6. QED
    BY <1>2, <2>3, <2>4, <2>5, AppendRange
<1>5. QED
  BY <1>3, <1>4

\* FrontInv holds after a cache's turn,
LEMMA FrontTurn ==
    ASSUME BaseInv, FrontInv, NEW c \in Caches, NEW o, NEW r, CacheData(c, o, r)
    PROVE  FrontInv'
<1>1. IcnTypeOK /\ c \in Masters
  BY CachesAreMasters DEF BaseInv, TypeOK
<1>2. CacheTurns(c, o, r)
  BY DEF CacheData
<1>3. /\ tx'[c].phase \in {"idle", "req"} /\ \A x \in Masters \ {c} : tx'[x] = tx[x]
      /\ \A d \in Caches \ {c}, l \in Lines : overlap'[d][l] = overlap[d][l]
  BY <1>1, <1>2 DEF CacheTurns, IcnTypeOK
<1> SUFFICES ASSUME NEW d \in Caches, NEW l \in Lines
             PROVE  FrontOk(d, l)'
  BY DEF FrontInv, FrontOk
<1>4. FrontOk(d, l) /\ d \in Masters
  BY CachesAreMasters DEF FrontInv, FrontOk
<1>5. CASE d = c
  BY <1>3, <1>5 DEF FrontOk, Answering
<1>6. CASE d # c
  <2>1. overlap'[d][l] = overlap[d][l] /\ Stays(d)
    BY <1>3, <1>4, <1>6, SameStays
  <2>2. QED
    BY <1>4, <2>1, FrontStays, FrontGoesOn
<1>7. QED
  BY <1>5, <1>6

\* No cache's response comes or goes, and no list loses its head.
LEMMA FrontSame ==
    ASSUME FrontInv, \A c \in Caches, l \in Lines : FrontKept(c, l)
    PROVE  FrontInv'
<1> SUFFICES ASSUME NEW c \in Caches, NEW l \in Lines
             PROVE  FrontOk(c, l)'
  BY DEF FrontInv, FrontOk
<1>1. QED
  BY FrontGoesOn DEF FrontInv, FrontOk

\* after snoops are queued,
LEMMA FrontEngine ==
    ASSUME BaseInv, FrontInv, NEW m \in Masters, EngineSnoop(m)
    PROVE  FrontInv'
<1>1. OthersStay(m) /\ tx'[m].phase = "snoop"
  BY EngineData
<1> SUFFICES ASSUME NEW c \in Caches, NEW l \in Lines
             PROVE  FrontKept(c, l)
  BY FrontSame
<1>2. overlap'[c][l] = IF c # m /\ l \in LinesOf(tx[m].rng)
                       THEN Append(overlap[c][l], m) ELSE overlap[c][l]
  BY EngineSnoopParts
<1>3. overlap[c][l] \in Seq(Masters) /\ c \in Masters
  BY CachesAreMasters DEF BaseInv, TypeOK, IcnTypeOK
<1>4. overlap[c][l] # <<>> => overlap'[c][l] # <<>> /\ Head(overlap'[c][l]) = Head(overlap[c][l])
  BY <1>2, <1>3, AppendRange
<1>5. Answering(c, l)' => Answering(c, l)
  BY <1>1, <1>3 DEF Answering, OthersStay, Stays, SamePayload
<1>6. QED
  BY <1>4, <1>5 DEF FrontKept

\* after an answer to a snoop is taken,
LEMMA FrontPort ==
    ASSUME BaseInv, OverlapInv, FrontInv, NEW m \in Masters, NEW k \in Lines, NEW e \in Caches,
           PortDone(m, k, e)
    PROVE  FrontInv'
<1>0. IcnTypeOK
  BY DEF BaseInv, TypeOK
<1>1. /\ OthersStay(m) /\ tx'[m].phase = "snoop" /\ e # m
      /\ overlap' = [overlap EXCEPT ![e][k] = Without(@, m)]
  BY PortData
<1> SUFFICES ASSUME NEW c \in Caches, NEW l \in Lines
             PROVE  FrontKept(c, l)
  BY FrontSame
<1>2. overlap[c][l] \in Seq(Masters) /\ c \in Masters /\ IsInjective(overlap[c][l])
  BY <1>0, CachesAreMasters DEF IcnTypeOK, OverlapInv, OverlapOk
<1>3. Answering(c, l)' => Answering(c, l) /\ c # m
  BY <1>1, <1>2 DEF Answering, OthersStay, Stays, SamePayload
<1>4. overlap'[c][l] = overlap[c][l] \/ overlap'[c][l] = Without(overlap[c][l], m)
  BY <1>0, <1>1 DEF IcnTypeOK
<1>5. c # m /\ overlap[c][l] # <<>> /\ Head(overlap[c][l]) = c
         => overlap'[c][l] # <<>> /\ Head(overlap'[c][l]) = c
  BY <1>2, <1>4, WithoutRange
<1>6. QED
  BY <1>3, <1>5 DEF FrontKept

\* after a transaction is accepted, since only an Evict is answered at once,
LEMMA FrontAccept ==
    ASSUME BaseInv, FrontInv, NEW m \in Masters, Accept(m)
    PROVE  FrontInv'
<1>1. /\ OthersStay(m) /\ tx'[m].phase = "resp" => tx[m].kind = "Evict"
      /\ tx'[m].kind = tx[m].kind
      /\ \A c \in Caches, l \in Lines : c # m => overlap'[c][l] = overlap[c][l]
  BY AcceptData
<1>2. OthersStay(m) /\ (tx'[m].phase = "resp" => tx[m].kind = "Evict")
  BY AcceptData
<1> SUFFICES ASSUME NEW c \in Caches, NEW l \in Lines
             PROVE  FrontKept(c, l)
  BY FrontSame
<1>3. CASE c = m
  <2>1. ~Answering(c, l)'
    BY <1>1, <1>2, <1>3 DEF Answering, IsSnoopingTransaction, ReadKinds, CleanKinds, CmoKinds,
                            UniqueWriteKinds
  <2>2. QED
    BY <2>1 DEF FrontKept
<1>4. CASE c # m
  <2>1. Stays(c)
    BY <1>2, <1>4, CachesAreMasters DEF OthersStay
  <2>2. QED
    BY <1>1, <1>4, <2>1, FrontStays
<1>5. QED
  BY <1>3, <1>4

\* A line is done, or the transaction with it.
LEMMA LineDoneOngoing ==
    ASSUME NEW m \in Masters, NEW l \in Lines, LineDone(m, l)
    PROVE  m \in Ongoing /\ tx[m].phase = "snoop"
  BY DEF LineDone, Quiet, Active, Ongoing

\* and after every step.
LEMMA FrontStep ==
    ASSUME BaseInv, ExclusiveInv, OverlapInv, RequestInv, LinesInv, LinesDisjoint, ExecFifo,
           FrontInv, NothingDiscarded, [Next]_vars
    PROVE  FrontInv'
<1>0. ASSUME UNCHANGED <<tx, overlap>>
      PROVE  FrontInv'
  BY <1>0 DEF FrontInv, Answering
<1>1. ASSUME NEW m \in Masters \ Caches, LiteData(m)
      PROVE  FrontInv'
  <2>1. overlap' = overlap /\ \A c \in Caches : tx'[c] = tx[c]
    BY <1>1, CachesAreMasters DEF LiteData
  <2>2. QED
    BY <2>1 DEF FrontInv, Answering
<1>2. ASSUME NEW m \in Masters, NEW l \in Lines, NEW c \in Caches, SnoopMaster(m, l, c)
      PROVE  FrontInv'
  BY <1>0, <1>2, SnoopMasterParts
<1>3. ASSUME NEW m \in Masters, NEW l \in Lines, LineDone(m, l)
      PROVE  FrontInv'
  <2>0. IcnTypeOK /\ m \in Ongoing /\ OthersStay(m) /\ tx'[m].kind = tx[m].kind /\ tx'[m].rng = tx[m].rng
    BY <1>3, LineDoneOngoing DEF LineDone, BaseInv, TypeOK
  <2>1. CASE tx'[m].phase = "resp" /\ OverlapDone(m)
    BY <2>0, <2>1, FrontDone
  <2>2. CASE tx'[m].phase # "resp" /\ UNCHANGED overlap
    <3> SUFFICES ASSUME NEW d \in Caches, NEW k \in Lines
                 PROVE  FrontKept(d, k)
      BY FrontSame
    <3>1. CASE d = m
      BY <2>2, <3>1 DEF FrontKept, Answering
    <3>2. CASE d # m
      <4>1. Stays(d) /\ overlap'[d][k] = overlap[d][k]
        BY <2>0, <2>2, <3>2, CachesAreMasters DEF OthersStay
      <4>2. QED
        BY <4>1, FrontStays
    <3>3. QED
      BY <3>1, <3>2
  <2>3. QED
    BY <1>3, <2>1, <2>2 DEF LineDone
<1>4. ASSUME NEW m \in Masters, OwnDone(m)
      PROVE  FrontInv'
  <2>1. m \in Ongoing /\ OthersStay(m) /\ OverlapDone(m) /\ tx'[m].kind = tx[m].kind
        /\ tx'[m].rng = tx[m].rng
    BY <1>4 DEF OwnDone, Ongoing
  <2>2. QED
    BY <2>1, FrontDone
<1>5. CASE IcnData
  BY <1>0, <1>3, <1>4, <1>5, FrontAccept, FrontEngine, FrontPort DEF IcnData
<1>6. QED
  BY <1>1, <1>2, <1>5, FrontTurn, DataKinds

(***************************************************************************)
(* What a transaction and the answers of its snoops say.                   *)
(***************************************************************************)
OkOk(m) ==
    /\ tx[m].phase \in {"req", "stalled", "engine"} => ~tx[m].ok /\ ~tx[m].shared
    /\ tx[m].phase = "ds" => ~tx[m].ok
    /\ tx[m].kind \in UniqueWriteKinds /\ tx[m].phase = "snoop" => ~tx[m].ok
    /\ tx[m].kind \in FillKinds /\ tx[m].phase \in {"snoop", "ds"} =>
          (tx[m].shared \/ tx[m].dirty => tx[m].ok)
    /\ tx[m].dirty => AllowPassDirty(tx[m].kind)

\* The flags of a payload fit its phase and kind.
OkInv == \A m \in Masters : OkOk(m)

\* An answer that a cache may give to the snoop of such a transaction.
AnswerOk(kind, a) ==
    /\ a.shared /\ kind \in ReadKinds => a.xfer
    /\ a.dirty => /\ a.xfer
                  /\ SnoopOf(kind) \in {"ReadShared", "ReadUnique", "CleanInvalid", "CleanShared"}

\* The answers not yet merged are such answers.
AnswerInv ==
    \A m \in Masters, l \in Lines : \A e \in snoop[m][l].back :
        AnswerOk(tx[m].kind, snoop[m][l].ans[e])

\* A transaction that stays keeps OkOk,
LEMMA OkStays ==
    ASSUME NEW m \in Masters, OkOk(m), Stays(m)
    PROVE  OkOk(m)'
  BY DEF OkOk, Stays, SamePayload

\* so it is enough to look at the one that moves.
LEMMA OkOthers ==
    ASSUME OkInv, NEW m \in Masters, OthersStay(m), OkOk(m)'
    PROVE  OkInv'
  BY OkStays DEF OkInv, OthersStay

\* A transaction that has just been issued, or none.
LEMMA OkNew ==
    ASSUME NEW m, ~tx'[m].ok, ~tx'[m].shared, ~tx'[m].dirty
    PROVE  OkOk(m)'
  BY DEF OkOk

\* The interconnect keeps OkInv,
LEMMA OkIcn ==
    ASSUME BaseInv, OkInv, AnswerInv, IcnData
    PROVE  OkInv'
<1>0. IcnTypeOK /\ PhaseInv /\ AccessInv
  BY DEF BaseInv, TypeOK, WorkInv
<1>1. ASSUME NEW m \in Masters, Accept(m)
      PROVE  OkInv'
  <2>1. /\ OthersStay(m) /\ tx[m].phase = "req" /\ tx'[m].kind = tx[m].kind
        /\ tx'[m].shared = tx[m].shared /\ tx'[m].dirty = tx[m].dirty
        /\ tx'[m].phase # "resp" => tx'[m].ok = tx[m].ok
    BY <1>1, AcceptData
  <2>2. ~tx[m].ok /\ ~tx[m].shared /\ ~tx[m].dirty
    BY <1>0, <2>1 DEF OkInv, OkOk, PhaseInv, PhaseOk
  <2>3. OkOk(m)'
    BY <2>1, <2>2 DEF OkOk
  <2>4. OthersStay(m)
    BY <2>1
  <2>5. QED
    BY <2>3, <2>4, OkOthers
<1>2. ASSUME NEW m \in Masters, EngineSnoop(m)
      PROVE  OkInv'
  <2>1. SamePayload(tx'[m], tx[m]) /\ tx[m].phase = "engine" /\ OthersStay(m)
    BY <1>2, EngineData
  <2>2. ~tx[m].ok /\ ~tx[m].shared /\ ~tx[m].dirty
    BY <1>0, <2>1 DEF OkInv, OkOk, PhaseInv, PhaseOk
  <2>3. OkOk(m)'
    BY <2>1, <2>2, OkNew DEF SamePayload
  <2>4. QED
    BY <2>1, <2>3, OkOthers
<1>3. ASSUME NEW m \in Masters, NEW l \in Lines, NEW c \in Caches, PortDone(m, l, c)
      PROVE  OkInv'
  <2>1. PICK a : a = snoop[m][l].ans[c]
    OBVIOUS
  <2>2. /\ OthersStay(m) /\ c \in snoop[m][l].back
        /\ tx[m].phase = "snoop" /\ tx'[m].phase = "snoop" /\ tx'[m].kind = tx[m].kind
        /\ tx'[m].ok <=> (tx[m].ok \/ AnsweredBySnoop(tx[m].kind, a))
        /\ tx'[m].shared <=> (tx[m].shared \/ a.shared)
        /\ tx'[m].dirty <=> (tx[m].dirty \/ (a.xfer /\ a.dirty /\ AllowPassDirty(tx[m].kind)))
    BY <1>3, <2>1, PortData
  <2>3. AnswerOk(tx[m].kind, a) /\ OkOk(m)
    BY <2>1, <2>2 DEF AnswerInv, OkInv
  <2>4. tx[m].kind \in UniqueWriteKinds => ~AnsweredBySnoop(tx[m].kind, a)
    BY DEF AnsweredBySnoop, UniqueWriteKinds, ReadKinds, CleanKinds, CmoKinds
  <2>5. tx[m].kind \in FillKinds /\ (a.shared \/ (a.xfer /\ a.dirty /\ AllowPassDirty(tx[m].kind)))
           => AnsweredBySnoop(tx[m].kind, a)
    BY <2>3 DEF AnsweredBySnoop, AnswerOk, FillKinds, CleanKinds
  <2>6. OkOk(m)'
    BY <2>2, <2>3, <2>4, <2>5 DEF OkOk
  <2>7. OthersStay(m)
    BY <2>2
  <2>8. QED
    BY <2>6, <2>7, OkOthers
<1>4. ASSUME NEW m \in Masters, NEW l \in Lines, LineDone(m, l)
      PROVE  OkInv'
  <2>1. /\ OthersStay(m) /\ tx'[m].kind = tx[m].kind
        /\ tx'[m].shared = tx[m].shared /\ tx'[m].dirty = tx[m].dirty
        /\ \/ tx'[m].phase = "snoop" /\ (tx[m].kind # "ReadOnce" => tx'[m].ok = tx[m].ok)
           \/ tx'[m].phase = "ds" /\ ~tx'[m].ok /\ (tx[m].kind # "ReadOnce" => ~tx[m].ok)
           \/ tx'[m].phase = "resp"
    BY <1>4 DEF LineDone
  <2>2. tx[m].phase = "snoop"
    BY <1>4, LineDoneOngoing
  <2>3. tx[m].kind \in FillKinds \cup UniqueWriteKinds => tx[m].kind # "ReadOnce"
    BY KindClasses
  <2>4. OkOk(m)
    BY DEF OkInv
  <2>5. OkOk(m)'
    BY <2>1, <2>2, <2>3, <2>4 DEF OkOk
  <2>6. QED
    BY <2>1, <2>5, OkOthers
<1>5. ASSUME NEW m \in Masters, OwnDone(m)
      PROVE  OkInv'
  <2>1. OthersStay(m) /\ tx'[m].kind = tx[m].kind /\ tx'[m].dirty = tx[m].dirty
        /\ tx'[m].phase = "resp"
    BY <1>5 DEF OwnDone
  <2>2. OkOk(m)'
    BY <2>1 DEF OkInv, OkOk
  <2>3. QED
    BY <2>1, <2>2, OkOthers
<1>6. ASSUME UNCHANGED tx
      PROVE  OkInv'
  BY <1>6 DEF OkInv, OkOk
<1>7. QED
  BY <1>1, <1>2, <1>3, <1>4, <1>5, <1>6 DEF IcnData

\* and so does every step.
LEMMA OkStep ==
    ASSUME BaseInv, ExclusiveInv, OverlapInv, RequestInv, LinesInv, ExecFifo, OkInv, AnswerInv,
           NothingDiscarded, [Next]_vars
    PROVE  OkInv'
<1>1. ASSUME NEW c \in Caches, NEW o, NEW r, CacheData(c, o, r)
      PROVE  OkInv'
  <2>1. /\ o \in Op /\ r \in Result /\ tx'[c] = NextTx(o, r) /\ c \in Masters
        /\ \A x \in Masters \ {c} : tx'[x] = tx[x]
    BY <1>1, TurnParts
  <2>2. OkOk(c)'
    BY <2>1, NextTxData, OkNew
  <2>3. OthersStay(c)
    BY <2>1, SameStays DEF OthersStay
  <2>4. QED
    BY <2>1, <2>2, <2>3, OkOthers
<1>2. ASSUME NEW m \in Masters \ Caches, LiteData(m)
      PROVE  OkInv'
  <2>1. /\ \A x \in Masters \ {m} : tx'[x] = tx[x]
        /\ tx'[m] = NoTx \/ \E o : tx'[m] = LiteTx(o)
    BY <1>2 DEF LiteData
  <2>2. OkOk(m)'
    <3>1. CASE tx'[m] = NoTx
      <4>1. ~tx'[m].ok /\ ~tx'[m].shared /\ ~tx'[m].dirty
        BY <3>1 DEF NoTx
      <4>2. QED
        BY <4>1, OkNew
    <3>2. ASSUME NEW o, tx'[m] = LiteTx(o)
          PROVE  OkOk(m)'
      <4>1. LiteTx(o).ok = FALSE /\ LiteTx(o).shared = FALSE /\ LiteTx(o).dirty = FALSE
        BY LiteTxData
      <4>2. ~tx'[m].ok /\ ~tx'[m].shared /\ ~tx'[m].dirty
        BY <3>2, <4>1
      <4>3. QED
        BY <4>2, OkNew
    <3>3. QED
      BY <2>1, <3>1, <3>2
  <2>3. OthersStay(m)
    BY <2>1, SameStays DEF OthersStay
  <2>4. QED
    BY <2>2, <2>3, OkOthers
<1>3. ASSUME NEW m \in Masters, NEW l \in Lines, NEW c \in Caches, SnoopMaster(m, l, c)
      PROVE  OkInv'
  <2>1. UNCHANGED tx
    BY <1>3, SnoopMasterParts
  <2>2. QED
    BY <2>1 DEF OkInv, OkOk
<1>4. QED
  BY <1>1, <1>2, <1>3, OkIcn, DataKinds

\* No snoop is answered, and none that has been answered for is forgotten.
AnsweredKept(x, l) ==
    \A e \in snoop'[x][l].back :
        /\ e \in snoop[x][l].back /\ snoop'[x][l].ans[e] = snoop[x][l].ans[e]
        /\ tx'[x].kind = tx[x].kind

\* Answers that are kept, for the same transaction, stay right.
LEMMA AnswersKept ==
    ASSUME AnswerInv, \A x \in Masters, l \in Lines : AnsweredKept(x, l)
    PROVE  AnswerInv'
  BY DEF AnswerInv, AnsweredKept

\* Where nothing changes answers are kept.
LEMMA AnswersSame ==
    ASSUME NEW x, NEW l, snoop'[x] = snoop[x], tx'[x].kind = tx[x].kind
    PROVE  AnsweredKept(x, l)
  BY DEF AnsweredKept

\* The interconnect invents no answers.
LEMMA AnswersIcn ==
    ASSUME BaseInv, IcnData
    PROVE  \A x \in Masters, l \in Lines : AnsweredKept(x, l)
<1>0. IcnTypeOK
  BY DEF BaseInv, TypeOK
<1>1. ASSUME NEW m \in Masters, Accept(m)
      PROVE  \A x \in Masters, l \in Lines : AnsweredKept(x, l)
  <2>1. OthersStay(m)
    BY <1>1, AcceptData
  <2>2. snoop' = snoop /\ tx'[m].kind = tx[m].kind
    BY <1>1, AcceptData
  <2>3. QED
    BY <2>1, <2>2, AnswersSame DEF OthersStay, Stays, SamePayload
<1>2. ASSUME NEW m \in Masters, EngineSnoop(m)
      PROVE  \A x \in Masters, l \in Lines : AnsweredKept(x, l)
  <2>1. OthersStay(m) /\ tx'[m].kind = tx[m].kind
    BY <1>2, EngineData DEF SamePayload
  <2>2. \A x \in Masters : tx'[x].kind = tx[x].kind
    BY <2>1 DEF OthersStay, Stays, SamePayload
  <2>3. /\ \A l \in LinesOf(tx[m].rng) : snoop'[m][l].back = {}
        /\ \A l \in Lines \ LinesOf(tx[m].rng) : snoop'[m][l] = snoop[m][l]
        /\ \A x \in Masters \ {m}, l \in Lines : snoop'[x][l] = snoop[x][l]
    BY <1>2, EngineSnoopParts
  <2>4. QED
    BY <2>2, <2>3 DEF AnsweredKept
<1>3. ASSUME NEW m \in Masters, NEW k \in Lines, NEW c \in Caches, PortDone(m, k, c)
      PROVE  \A x \in Masters, l \in Lines : AnsweredKept(x, l)
  <2>1. OthersStay(m) /\ tx'[m].kind = tx[m].kind
    BY <1>3, PortData
  <2>2. \A x \in Masters : tx'[x].kind = tx[x].kind
    BY <2>1 DEF OthersStay, Stays, SamePayload
  <2>3. snoop[m][k] \in Snoop
    BY <1>0 DEF IcnTypeOK
  <2>4. PICK s : s = [snoop[m][k] EXCEPT !.back = snoop[m][k].back \ {c},
                        !.ans[c] = BlankAnswer,
                        !.exec = NeedsDownstream(snoop[m][k].exec, tx[m].kind, snoop[m][k].ans[c]),
                        !.data = IF MustClean(tx[m].kind, snoop[m][k].ans[c])
                                 THEN snoop[m][k].ans[c].data ELSE snoop[m][k].data]
    OBVIOUS
  <2>5. snoop' = [snoop EXCEPT ![m][k] = s]
    BY <1>3, <2>4 DEF PortDone
  <2>6. s.back = snoop[m][k].back \ {c} /\ \A e \in Caches \ {c} : s.ans[e] = snoop[m][k].ans[e]
    BY <2>3, <2>4 DEF Snoop
  <2>7. s.back \subseteq Caches
    BY <2>3, <2>6 DEF Snoop
  <2>8. snoop'[m][k] = s /\ \A x \in Masters, l \in Lines : x # m \/ l # k => snoop'[x][l] = snoop[x][l]
    BY <1>0, <2>5 DEF IcnTypeOK
  <2>9. AnsweredKept(m, k)
    BY <2>2, <2>6, <2>7, <2>8 DEF AnsweredKept
  <2>10. \A x \in Masters, l \in Lines : x # m \/ l # k => AnsweredKept(x, l)
    BY <2>2, <2>8 DEF AnsweredKept
  <2>11. QED
    BY <2>9, <2>10
<1>4. ASSUME NEW m \in Masters, NEW k \in Lines, LineDone(m, k)
      PROVE  \A x \in Masters, l \in Lines : AnsweredKept(x, l)
  <2>1. OthersStay(m) /\ tx'[m].kind = tx[m].kind /\ snoop' = [snoop EXCEPT ![m][k] = NoSnoop]
    BY <1>4 DEF LineDone
  <2>2. \A x \in Masters : tx'[x].kind = tx[x].kind
    BY <2>1 DEF OthersStay, Stays, SamePayload
  <2>3. \A x \in Masters, l \in Lines : snoop'[x][l] = IF x = m /\ l = k THEN NoSnoop ELSE snoop[x][l]
    BY <1>0, <2>1 DEF IcnTypeOK
  <2>4. NoSnoop.back = {}
    BY DEF NoSnoop
  <2>5. QED
    BY <2>2, <2>3, <2>4 DEF AnsweredKept
<1>5. ASSUME NEW m \in Masters, OwnDone(m)
      PROVE  \A x \in Masters, l \in Lines : AnsweredKept(x, l)
  <2>1. snoop' = snoop /\ OthersStay(m) /\ tx'[m].kind = tx[m].kind
    BY <1>5 DEF OwnDone
  <2>2. QED
    BY <2>1, AnswersSame DEF OthersStay, Stays, SamePayload
<1>6. ASSUME UNCHANGED <<tx, snoop>>
      PROVE  \A x \in Masters, l \in Lines : AnsweredKept(x, l)
  BY <1>6 DEF AnsweredKept
<1>7. QED
  BY <1>1, <1>2, <1>3, <1>4, <1>5, <1>6 DEF IcnData

\* A transaction that is not before the snoop channel has no answers.
LEMMA NoAnswers ==
    ASSUME BaseInv, NEW m \in Masters, tx[m].phase # "snoop", NEW l \in Lines
    PROVE  snoop[m][l] = NoSnoop /\ snoop[m][l].back = {} /\ snoop[m][l].sent = {} /\ ~snoop[m][l].exec
<1>1. snoop[m][l] = NoSnoop
  BY DEF BaseInv, WorkInv, PhaseInv, PhaseOk, Active
<1>2. QED
  BY <1>1 DEF NoSnoop

\* What a cache answers to a snoop is right for the transaction.
LEMMA AnswerIs ==
    ASSUME NEW ln \in CacheLine, NEW tk \in TxKinds, IsSnoopingTransaction(tk)
    PROVE  AnswerOk(tk, SnoopAnswer(SnoopOf(tk), ln)) /\ AnswerOk(tk, BlankAnswer)
<1>1. AnswerOk(tk, BlankAnswer)
  BY DEF AnswerOk, BlankAnswer
<1>2. PICK kind : kind = SnoopOf(tk)
  OBVIOUS
<1>3. tk \in ReadKinds => kind = tk
  BY <1>2 DEF SnoopOf, ReadKinds
<1>4. AnswerOk(tk, SnoopAnswer(kind, ln))
  BY <1>2, <1>3 DEF AnswerOk, SnoopAnswer, ReadKinds, CacheLine
<1>5. QED
  BY <1>1, <1>2, <1>4

\* Every step keeps AnswerInv.
LEMMA AnswerStep ==
    ASSUME BaseInv, ExclusiveInv, OverlapInv, RequestInv, LinesInv, ExecFifo, AnswerInv,
           NothingDiscarded, [Next]_vars
    PROVE  AnswerInv'
<1>0. AccessInv
  BY DEF BaseInv
<1>1. ASSUME NEW m \in Masters, tx[m].phase \in {"idle", "resp"}, snoop' = snoop,
             \A x \in Masters \ {m} : tx'[x] = tx[x]
      PROVE  AnswerInv'
  <2>1. \A l \in Lines : AnsweredKept(m, l)
    BY <1>1, NoAnswers DEF AnsweredKept
  <2>2. \A x \in Masters \ {m}, l \in Lines : AnsweredKept(x, l)
    BY <1>1, AnswersSame
  <2>3. QED
    BY <2>1, <2>2, AnswersKept
<1>2. ASSUME NEW c \in Caches, NEW o, NEW r, CacheData(c, o, r)
      PROVE  AnswerInv'
  <2>1. snoop' = snoop /\ c \in Masters /\ \A x \in Masters \ {c} : tx'[x] = tx[x]
    BY <1>2, TurnParts
  <2>2. tx[c].phase \in {"idle", "resp"}
    BY <1>2 DEF CacheData
  <2>3. QED
    BY <1>1, <2>1, <2>2
<1>3. ASSUME NEW m \in Masters \ Caches, LiteData(m)
      PROVE  AnswerInv'
  BY <1>1, <1>3 DEF LiteData
<1>4. ASSUME NEW m \in Masters, NEW k \in Lines, NEW c \in Caches, SnoopMaster(m, k, c)
      PROVE  AnswerInv'
  <2>1. /\ UNCHANGED tx /\ tx[m].phase = "snoop" /\ IsSnoopingTransaction(tx[m].kind)
        /\ snoop'[m][k].back = snoop[m][k].back \cup {c}
        /\ snoop'[m][k].ans[c] = IF in_cache(c, k)
                                 THEN SnoopAnswer(SnoopOf(tx[m].kind), get_line(c, k))
                                 ELSE BlankAnswer
        /\ \A d \in Caches \ {c} : snoop'[m][k].ans[d] = snoop[m][k].ans[d]
        /\ \A x \in Masters, l \in Lines : x # m \/ l # k => snoop'[x][l] = snoop[x][l]
    BY <1>4, SnoopMasterParts
  <2>2. get_line(c, k) \in CacheLine /\ tx[m].kind \in TxKinds
    BY <1>0, <2>1, AccessParts, SlotOf DEF BaseInv, TypeOK, CacheTypeOK, get_line
  <2>3. AnswerOk(tx[m].kind, snoop'[m][k].ans[c])
    BY <2>1, <2>2, AnswerIs
  <2>4. snoop[m][k].back \subseteq Caches
    BY DEF BaseInv, TypeOK, IcnTypeOK, Snoop
  <2>5. ASSUME NEW x \in Masters, NEW l \in Lines, NEW e \in snoop'[x][l].back
        PROVE  AnswerOk(tx[x].kind, snoop'[x][l].ans[e])
    <3>1. CASE x = m /\ l = k /\ e = c
      BY <2>3, <3>1
    <3>2. CASE x = m /\ l = k /\ e # c
      <4>1. e \in snoop[m][k].back /\ snoop'[m][k].ans[e] = snoop[m][k].ans[e]
        BY <2>1, <2>4, <2>5, <3>2
      <4>2. QED
        BY <3>2, <4>1 DEF AnswerInv
    <3>3. CASE x # m \/ l # k
      BY <2>1, <2>5, <3>3 DEF AnswerInv
    <3>4. QED
      BY <3>1, <3>2, <3>3
  <2>6. QED
    BY <2>1, <2>5 DEF AnswerInv
<1>5. QED
  BY <1>2, <1>3, <1>4, AnswersIcn, AnswersKept, DataKinds

(***************************************************************************)
(* What a step of the interconnect may do with a transaction.              *)
(***************************************************************************)
Moves(x) ==
    /\ tx'[x].kind = tx[x].kind /\ tx'[x].rng = tx[x].rng
    /\ tx[x].phase = "resp" => Stays(x)
    /\ tx'[x].phase = "resp" =>
          tx[x].phase = "resp" \/ x \in Ongoing \/ tx[x].kind = "Evict"
    /\ IsSnoopingTransaction(tx[x].kind) /\ tx'[x].phase \in {"snoop", "ds"} =>
          \/ tx[x].phase \in {"snoop", "ds"}
          \/ /\ tx[x].phase = "engine"
             /\ \A l \in LinesOf(tx[x].rng) : snoop'[x][l].sent = Caches \ {x}
    /\ \A l \in Lines : snoop[x][l].sent \subseteq snoop'[x][l].sent

\* A transaction that stays, with its snoops sent, moves so.
LEMMA MovesOthers ==
    ASSUME NEW x \in Masters, Stays(x), \A l \in Lines : snoop[x][l].sent \subseteq snoop'[x][l].sent
    PROVE  Moves(x)
  BY DEF Moves, Stays, SamePayload, Ongoing

\* Every transaction moves so when the interconnect makes a step.
LEMMA IcnMoves ==
    ASSUME BaseInv, IcnData
    PROVE  \A x \in Masters : Moves(x)
<1>0. IcnTypeOK
  BY DEF BaseInv, TypeOK
<1>1. ASSUME NEW m \in Masters, Accept(m)
      PROVE  \A x \in Masters : Moves(x)
  <2>1. /\ OthersStay(m) /\ tx[m].phase = "req" /\ snoop' = snoop
        /\ tx'[m].kind = tx[m].kind /\ tx'[m].rng = tx[m].rng
        /\ tx'[m].phase = "resp" => tx[m].kind = "Evict"
    BY <1>1, AcceptData
  <2>2. IsSnoopingTransaction(tx[m].kind) => tx'[m].phase \in {"stalled", "engine"}
    BY <1>1, AcceptParts
  <2>3. Moves(m)
    BY <2>1, <2>2 DEF Moves
  <2>4. OthersStay(m)
    BY <2>1
  <2>5. QED
    BY <2>1, <2>3, <2>4, MovesOthers DEF OthersStay
<1>2. ASSUME NEW m \in Masters, EngineSnoop(m)
      PROVE  \A x \in Masters : Moves(x)
  <2>1. /\ OthersStay(m) /\ tx[m].phase = "engine" /\ tx'[m].phase = "snoop"
        /\ tx'[m].kind = tx[m].kind /\ tx'[m].rng = tx[m].rng
        /\ \A l \in LinesOf(tx[m].rng) : snoop'[m][l].sent = Caches \ {m}
    BY <1>2, EngineData DEF SamePayload
  <2>2. \A x \in Masters \ {m}, l \in Lines : snoop'[x][l] = snoop[x][l]
    BY <1>2, EngineSnoopParts
  <2>3. \A l \in Lines : snoop[m][l].sent = {}
    BY <2>1, NoAnswers
  <2>4. Moves(m)
    BY <2>1, <2>3 DEF Moves
  <2>5. QED
    BY <2>1, <2>2, <2>4, MovesOthers DEF OthersStay
<1>3. ASSUME NEW m \in Masters, NEW k \in Lines, NEW c \in Caches, PortDone(m, k, c)
      PROVE  \A x \in Masters : Moves(x)
  <2>1. /\ OthersStay(m) /\ tx[m].phase = "snoop" /\ tx'[m].phase = "snoop"
        /\ tx'[m].kind = tx[m].kind /\ tx'[m].rng = tx[m].rng
    BY <1>3, PortData
  <2>2. \A x \in Masters, l \in Lines : snoop'[x][l].sent = snoop[x][l].sent
    BY <1>0, <1>3 DEF PortDone, IcnTypeOK, Snoop
  <2>3. Moves(m)
    BY <2>1, <2>2 DEF Moves
  <2>4. QED
    BY <2>1, <2>2, <2>3, MovesOthers DEF OthersStay
<1>4. ASSUME NEW m \in Masters, NEW k \in Lines, LineDone(m, k)
      PROVE  \A x \in Masters : Moves(x)
  <2>1. /\ OthersStay(m) /\ tx'[m].kind = tx[m].kind /\ tx'[m].rng = tx[m].rng
        /\ snoop' = [snoop EXCEPT ![m][k] = NoSnoop] /\ snoop[m][k].sent = {}
    BY <1>4 DEF LineDone, Quiet
  <2>2. \A x \in Masters, l \in Lines : snoop[x][l].sent \subseteq snoop'[x][l].sent
    BY <1>0, <2>1 DEF IcnTypeOK
  <2>3. m \in Ongoing /\ tx[m].phase = "snoop"
    BY <1>4, LineDoneOngoing
  <2>4. Moves(m)
    BY <2>1, <2>2, <2>3 DEF Moves
  <2>5. QED
    BY <2>1, <2>2, <2>4, MovesOthers DEF OthersStay
<1>5. ASSUME NEW m \in Masters, OwnDone(m)
      PROVE  \A x \in Masters : Moves(x)
  <2>1. /\ OthersStay(m) /\ tx'[m].kind = tx[m].kind /\ tx'[m].rng = tx[m].rng
        /\ snoop' = snoop /\ tx[m].phase = "ds"
    BY <1>5 DEF OwnDone
  <2>2. Moves(m)
    BY <2>1 DEF Moves, Ongoing
  <2>3. QED
    BY <2>1, <2>2, MovesOthers DEF OthersStay
<1>6. ASSUME UNCHANGED <<tx, snoop>>
      PROVE  \A x \in Masters : Moves(x)
  BY <1>6 DEF Moves, Stays, SamePayload
<1>7. QED
  BY <1>1, <1>2, <1>3, <1>4, <1>5, <1>6 DEF IcnData

(***************************************************************************)
(* What a cache has of a line, or is about to get.                         *)
(***************************************************************************)
SameView(c, l) ==
    /\ Fills(c, l)' <=> Fills(c, l)
    /\ WillHave(c, l)' <=> WillHave(c, l)
    /\ WillBeUnique(c, l)' <=> WillBeUnique(c, l)
    /\ WillBeDirty(c, l)' <=> WillBeDirty(c, l)

\* A cache's copies depend on its lines and on its transaction alone.
LEMMA CopySame ==
    ASSUME NEW c, NEW l, cacheline'[c] = cacheline[c],
           tx'[c].kind = tx[c].kind, tx'[c].rng = tx[c].rng
    PROVE  Copy(c, l)' = Copy(c, l) /\ get_line(c, l)' = get_line(c, l) /\ in_cache(c, l)' = in_cache(c, l)
<1>1. get_line(c, l)' = get_line(c, l)
  BY DEF get_line
<1>2. in_cache(c, l)' = in_cache(c, l)
  BY <1>1 DEF in_cache, Holds
<1>3. QED
  BY <1>1, <1>2 DEF Copy

\* What a cache will have depends on those and on its response.
LEMMA ViewSame ==
    ASSUME NEW c, NEW l, cacheline'[c] = cacheline[c],
           tx'[c].kind = tx[c].kind, tx'[c].rng = tx[c].rng,
           Incoming(c, l)' <=> Incoming(c, l),
           Incoming(c, l) => tx'[c].shared = tx[c].shared /\ tx'[c].dirty = tx[c].dirty
    PROVE  SameView(c, l)
<1>1. Copy(c, l)' = Copy(c, l) /\ get_line(c, l)' = get_line(c, l)
  BY CopySame
<1>2. Fills(c, l)' <=> Fills(c, l)
  BY DEF Fills
<1>3. Upgrades(c, l)' <=> Upgrades(c, l)
  BY DEF Upgrades
<1>4. Fills(c, l) => Incoming(c, l)
  BY DEF Fills
<1>5. QED
  BY <1>1, <1>2, <1>3, <1>4 DEF SameView, WillHave, WillBeUnique, WillBeDirty

\* The transaction of c for line l was ongoing and has been answered.
Done(c, l) == c \in Ongoing /\ Incoming(c, l)'

\* A line comes with the response of a snooping transaction that covers it.
LEMMA IncomingIs ==
    ASSUME NEW c, NEW l \in Lines, Incoming(c, l)
    PROVE  l \in LinesOf(tx[c].rng) /\ IsSnoopingTransaction(tx[c].kind)
  BY LineAddrFacts DEF Incoming

\* The interconnect changes what a cache will have only by finishing its fill.
LEMMA IcnViews ==
    ASSUME BaseInv, IcnData, NEW c \in Caches, NEW l \in Lines
    PROVE  /\ Copy(c, l)' = Copy(c, l) /\ get_line(c, l)' = get_line(c, l)
           /\ SameView(c, l) \/ Done(c, l)
<1>1. Moves(c) /\ cacheline' = cacheline
  BY IcnMoves, CachesAreMasters DEF IcnData, cacheVars
<1>2. CASE tx[c].phase = "resp"
  <2>1. Stays(c)
    BY <1>1, <1>2 DEF Moves
  <2>2. tx'[c].phase = "resp" /\ SamePayload(tx'[c], tx[c])
    BY <1>2, <2>1 DEF Stays
  <2>3. Incoming(c, l)' <=> Incoming(c, l)
    BY <1>2, <2>2 DEF Incoming, SamePayload
  <2>4. QED
    BY <1>1, <2>2, <2>3, ViewSame, CopySame DEF SamePayload
<1>3. CASE tx[c].phase # "resp"
  <2>1. ~Incoming(c, l)
    BY <1>3 DEF Incoming
  <2>2. Incoming(c, l)' => c \in Ongoing
    BY <1>1, <1>3 DEF Moves, Incoming, IsSnoopingTransaction, ReadKinds, CleanKinds, CmoKinds,
                      UniqueWriteKinds
  <2>3. Copy(c, l)' = Copy(c, l) /\ get_line(c, l)' = get_line(c, l)
    BY <1>1, CopySame DEF Moves
  <2>4. CASE Incoming(c, l)'
    BY <2>2, <2>3, <2>4 DEF Done
  <2>5. CASE ~Incoming(c, l)'
    BY <1>1, <2>1, <2>3, <2>5, ViewSame DEF Moves
  <2>6. QED
    BY <2>4, <2>5
<1>4. QED
  BY <1>2, <1>3

\* A view that is the same has not got stronger.
LEMMA SameDegrades ==
    ASSUME NEW c, NEW l, SameView(c, l)
    PROVE  Degrades(c, l)
  BY DEF SameView, Degrades

(***************************************************************************)
(* A unique write has taken the line away from every cache that answered.  *)
(***************************************************************************)
ClearsOk(m, l) ==
    tx[m].kind \in UniqueWriteKinds /\ tx[m].phase \in {"snoop", "ds"} /\ l \in LinesOf(tx[m].rng)
        => \A d \in Caches \ {m} : d \notin snoop[m][l].sent => ~WillHave(d, l)

\* As ClearsOk says of each transaction and line.
ClearsInv == \A m \in Masters, l \in Lines : ClearsOk(m, l)

\* Unique writes invalidate other copies.
LEMMA WritesSnoop ==
    ASSUME NEW k \in UniqueWriteKinds
    PROVE  IsSnoopingTransaction(k) /\ SnoopOf(k) \in {"CleanInvalid", "MakeInvalid"}
  BY DEF IsSnoopingTransaction, SnoopOf, UniqueWriteKinds, ReadKinds

\* What a unique write has cleared stays so while nobody gets the line.
LEMMA ClearsKept ==
    ASSUME NEW m, NEW l, ClearsOk(m, l), tx'[m].kind = tx[m].kind, tx'[m].rng = tx[m].rng,
           tx[m].phase \in {"snoop", "ds"},
           \A d \in Caches \ {m} :
              /\ d \in snoop[m][l].sent => d \in snoop'[m][l].sent \/ ~WillHave(d, l)'
              /\ WillHave(d, l)' => WillHave(d, l)
    PROVE  ClearsOk(m, l)'
  BY DEF ClearsOk

\* The interconnect keeps ClearsInv: nobody's fill of the line is ongoing,
LEMMA ClearsIcn ==
    ASSUME BaseInv, LinesDisjoint, ClearsInv, IcnData
    PROVE  ClearsInv'
<1> SUFFICES ASSUME NEW m \in Masters, NEW l \in Lines,
                    tx'[m].kind \in UniqueWriteKinds, tx'[m].phase \in {"snoop", "ds"},
                    l \in LinesOf(tx'[m].rng)
             PROVE  ClearsOk(m, l)'
  BY DEF ClearsInv, ClearsOk
<1>1. Moves(m)
  BY IcnMoves
<1>2. /\ tx'[m].kind = tx[m].kind /\ tx'[m].rng = tx[m].rng /\ l \in LinesOf(tx[m].rng)
      /\ IsSnoopingTransaction(tx[m].kind)
  BY <1>1, WritesSnoop DEF Moves
<1>3. CASE tx[m].phase = "engine" /\ snoop'[m][l].sent = Caches \ {m}
  BY <1>3 DEF ClearsOk
<1>4. CASE tx[m].phase \in {"snoop", "ds"}
  <2>1. ClearsOk(m, l)
    BY DEF ClearsInv
  <2>2. snoop[m][l].sent \subseteq snoop'[m][l].sent
    BY <1>1 DEF Moves
  <2>3. ASSUME NEW d \in Caches \ {m}, WillHave(d, l)'
        PROVE  WillHave(d, l)
    <3>1. CASE SameView(d, l)
      BY <2>3, <3>1 DEF SameView
    <3>2. CASE Done(d, l)
      <4>1. Moves(d) /\ d \in Masters
        BY IcnMoves, CachesAreMasters
      <4>2. l \in LinesOf(tx[d].rng) /\ IsSnoopingTransaction(tx[d].kind)
        <5>1. tx'[d].kind = tx[d].kind /\ tx'[d].rng = tx[d].rng
          BY <4>1 DEF Moves
        <5>2. tx[d].rng = LineAddr(l) /\ IsSnoopingTransaction(tx[d].kind)
          BY <3>2, <5>1 DEF Done, Incoming
        <5>3. QED
          BY <5>2, LineAddrFacts
      <4>3. m \in Ongoing /\ d \in Ongoing
        BY <1>4, <3>2 DEF Ongoing, Done
      <4>4. QED
        BY <1>2, <4>2, <4>3 DEF LinesDisjoint
    <3>3. QED
      BY <3>1, <3>2, IcnViews
  <2>4. QED
    BY <1>2, <1>4, <2>1, <2>2, <2>3, ClearsKept
<1>5. QED
  BY <1>1, <1>2, <1>3, <1>4 DEF Moves

\* so does a master's turn that gives itself no line,
LEMMA ClearsTurns ==
    ASSUME BaseInv, ClearsInv, NEW c \in Masters, tx'[c].phase \notin {"snoop", "ds"}, snoop' = snoop,
           \A x \in Masters \ {c} : tx'[x] = tx[x],
           \A d \in Caches, l \in Lines : WillHave(d, l)' => WillHave(d, l)
    PROVE  ClearsInv'
<1> SUFFICES ASSUME NEW m \in Masters, NEW l \in Lines
             PROVE  ClearsOk(m, l)'
  BY DEF ClearsInv
<1>1. CASE m = c
  BY <1>1 DEF ClearsOk
<1>2. CASE m # c
  <2>1. tx'[m] = tx[m] /\ ClearsOk(m, l)
    BY <1>2 DEF ClearsInv
  <2>2. CASE tx[m].phase \in {"snoop", "ds"}
    BY <2>1, <2>2, ClearsKept
  <2>3. CASE tx[m].phase \notin {"snoop", "ds"}
    BY <2>1, <2>3 DEF ClearsOk
  <2>4. QED
    BY <2>2, <2>3
<1>3. QED
  BY <1>1, <1>2

\* so does a snoop, which clears one cache more,
LEMMA ClearsSnoop ==
    ASSUME BaseInv, OverlapInv, ClearsInv, NEW m \in Masters, NEW l \in Lines, NEW c \in Caches,
           SnoopMaster(m, l, c)
    PROVE  ClearsInv'
<1> SUFFICES ASSUME NEW x \in Masters, NEW k \in Lines
             PROVE  ClearsOk(x, k)'
  BY DEF ClearsInv
<1>1. /\ tx' = tx /\ snoop'[m][l].sent = snoop[m][l].sent \ {c}
      /\ \A y \in Masters, j \in Lines : y # m \/ j # l => snoop'[y][j] = snoop[y][j]
  BY SnoopMasterParts
<1>2. /\ \A d \in Caches : WillHave(d, k)' => WillHave(d, k)
      /\ WillHave(c, l)' => SnoopOf(tx[m].kind) \notin {"ReadUnique", "CleanInvalid", "MakeInvalid"}
  BY SnoopDegrades DEF Degrades
<1>3. ClearsOk(x, k)
  BY DEF ClearsInv
<1>4. SUFFICES ASSUME tx[x].kind \in UniqueWriteKinds, tx[x].phase \in {"snoop", "ds"}
               PROVE  ClearsOk(x, k)'
  BY <1>1 DEF ClearsOk
<1>5. x = m /\ k = l => ~WillHave(c, l)'
  BY <1>2, <1>4, WritesSnoop
<1>6. \A d \in Caches \ {x} : d \in snoop[x][k].sent => d \in snoop'[x][k].sent \/ ~WillHave(d, k)'
  <2>1. CASE x = m /\ k = l
    BY <1>1, <1>5, <2>1
  <2>2. CASE x # m \/ k # l
    BY <1>1, <2>2
  <2>3. QED
    BY <2>1, <2>2
<1>7. QED
  BY <1>1, <1>2, <1>3, <1>4, <1>6, ClearsKept

\* (an ACE-Lite master changes nobody's view)
LEMMA LiteViews ==
    ASSUME NEW m \in Masters \ Caches, LiteData(m), NEW c \in Caches, NEW l \in Lines
    PROVE  SameView(c, l) /\ Copy(c, l)' = Copy(c, l) /\ get_line(c, l)' = get_line(c, l)
<1>1. cacheline' = cacheline /\ tx'[c] = tx[c]
  BY CachesAreMasters DEF LiteData
<1>2. Incoming(c, l)' <=> Incoming(c, l)
  BY <1>1 DEF Incoming
<1>3. QED
  BY <1>1, <1>2, ViewSame, CopySame

\* so every step does.
LEMMA ClearsStep ==
    ASSUME BaseInv, ExclusiveInv, OverlapInv, RequestInv, LinesInv, LinesDisjoint, ExecFifo,
           ClearsInv, NothingDiscarded, [Next]_vars
    PROVE  ClearsInv'
<1>1. ASSUME NEW c \in Caches, NEW o, NEW r, CacheData(c, o, r)
      PROVE  ClearsInv'
  <2>1. CacheTurns(c, o, r) /\ c \in Masters
    BY <1>1, CachesAreMasters DEF CacheData
  <2>2. \A d \in Caches, l \in Lines : WillHave(d, l)' => WillHave(d, l)
    <3> SUFFICES ASSUME NEW d \in Caches, NEW l \in Lines
                 PROVE  Degrades(d, l)
      BY DEF Degrades
    <3>1. CASE d = c
      BY <2>1, <3>1, CacheTurnDegrades
    <3>2. CASE d # c
      <4>1. cacheline'[d] = cacheline[d] /\ tx'[d] = tx[d]
        BY <1>1, <3>2, TurnParts, CachesAreMasters
      <4>2. QED
        BY <4>1, ViewKept
    <3>3. QED
      BY <3>1, <3>2
  <2>3. snoop' = snoop /\ \A x \in Masters \ {c} : tx'[x] = tx[x]
    BY <1>1, TurnParts
  <2>4. tx'[c].phase \notin {"snoop", "ds"}
    <3>1. o \in Op /\ r \in Result /\ tx'[c] = NextTx(o, r)
      BY <1>1, TurnParts
    <3>2. NextTx(o, r).phase \in {"idle", "req"}
      BY <3>1, NextTxTurn
    <3>3. QED
      BY <3>1, <3>2
  <2>5. QED
    BY <2>1, <2>2, <2>3, <2>4, ClearsTurns
<1>2. ASSUME NEW m \in Masters \ Caches, LiteData(m)
      PROVE  ClearsInv'
  <2>1. \A d \in Caches, l \in Lines : WillHave(d, l)' => WillHave(d, l)
    BY <1>2, LiteViews DEF SameView
  <2>2. tx'[m].phase \notin {"snoop", "ds"}
    <3>1. CASE tx'[m] = NoTx
      <4>1. NoTx.phase = "idle"
        BY DEF NoTx
      <4>2. QED
        BY <3>1, <4>1
    <3>2. ASSUME NEW o, tx'[m] = LiteTx(o)
          PROVE  tx'[m].phase \notin {"snoop", "ds"}
      <4>1. LiteTx(o).phase = "req"
        BY LiteTxData
      <4>2. QED
        BY <3>2, <4>1
    <3>3. QED
      BY <1>2, <3>1, <3>2 DEF LiteData
  <2>3. snoop' = snoop /\ \A x \in Masters \ {m} : tx'[x] = tx[x]
    BY <1>2 DEF LiteData
  <2>4. QED
    BY <2>1, <2>2, <2>3, ClearsTurns
<1>3. QED
  BY <1>1, <1>2, ClearsIcn, ClearsSnoop, DataKinds

(***************************************************************************)
(* The data of a line: what the last stores left, and where it is.         *)
(***************************************************************************)
SharedLines == Lines \ NonShareable

Latest(l)   == ToLine(latest, l)
\* Memory has the last values of line l.
InMemory(l) == ToLine(memory, l) = ToLine(latest, l)

\* Data of line l that snoops have brought for the transaction of m: in an
\* answer still to be merged, in its payload, or to be written downstream.
Brought(m, l)  == \E e \in snoop[m][l].back : snoop[m][l].ans[e].xfer
Merged(m, l)   == /\ tx[m].phase = "snoop" /\ tx[m].ok /\ l \in LinesOf(tx[m].rng)
                  /\ tx[m].kind \in ReadKinds \ {"ReadOnce"}
Cleaning(m, l) == tx[m].kind # "ReadOnce" /\ snoop[m][l].exec
Carries(m, l)  == Brought(m, l) \/ Merged(m, l) \/ Cleaning(m, l)

\* Such data is what the last stores left, and no cache may store to the line.
CarryOk(m, l) ==
    /\ \A e \in snoop[m][l].back : snoop[m][l].ans[e].xfer => snoop[m][l].ans[e].data = Latest(l)
    /\ Merged(m, l) => ToLine(tx[m].data, l) = Latest(l)
    /\ Cleaning(m, l) => snoop[m][l].data = Latest(l)
    /\ Carries(m, l) => \A d \in Caches : ~WillBeUnique(d, l)

\* As CarryOk says of each transaction and line.
CarryInv == \A m \in Masters, l \in SharedLines : CarryOk(m, l)

\* Data is brought only for a transaction that is snooping.
LEMMA CarriesBusy ==
    ASSUME BaseInv, NEW m \in Masters, NEW l \in Lines, Carries(m, l)
    PROVE  /\ tx[m].phase = "snoop" /\ m \in Ongoing
           /\ IsSnoopingTransaction(tx[m].kind) /\ l \in LinesOf(tx[m].rng)
<1>0. PhaseOk(m)
  BY DEF BaseInv, WorkInv, PhaseInv
<1>1. CASE Brought(m, l)
  BY <1>1, PortsBusy DEF Brought, Ongoing
<1>2. CASE Merged(m, l)
  BY <1>0, <1>2 DEF Merged, PhaseOk, Ongoing
<1>3. CASE Cleaning(m, l)
  <2>1. snoop[m][l].exec
    BY <1>3 DEF Cleaning
  <2>2. snoop[m][l] # NoSnoop
    BY <2>1 DEF NoSnoop
  <2>3. Active(m, l)
    BY <1>0, <2>2 DEF PhaseOk
  <2>4. QED
    BY <1>0, <2>3 DEF Active, PhaseOk, Ongoing
<1>4. QED
  BY <1>1, <1>2, <1>3 DEF Carries

\* Where no data is on its way there is nothing to show.
LEMMA CarryNone ==
    ASSUME NEW m, NEW l, ~Carries(m, l)
    PROVE  CarryOk(m, l)
  BY DEF CarryOk, Carries, Brought

\* What m carries it has carried before.
CarriesKept(m, l) ==
    /\ \A e \in snoop'[m][l].back : /\ e \in snoop[m][l].back
                                    /\ snoop'[m][l].ans[e] = snoop[m][l].ans[e]
    /\ Merged(m, l)' => /\ tx'[m].data = tx[m].data /\ Merged(m, l)
    /\ Cleaning(m, l)' => /\ snoop'[m][l].data = snoop[m][l].data /\ Cleaning(m, l)

\* CarriesKept: what is carried was carried before.
LEMMA CarriesBefore ==
    ASSUME NEW m, NEW l, CarriesKept(m, l), Carries(m, l)'
    PROVE  Carries(m, l)
<1>1. Brought(m, l)' => Brought(m, l)
  BY DEF Brought, CarriesKept
<1>2. QED
  BY <1>1 DEF Carries, CarriesKept

\* CarryOk stays while the last values do and no cache gets the line unique.
LEMMA CarryKept ==
    ASSUME NEW m, NEW l, CarryOk(m, l), CarriesKept(m, l), Latest(l)' = Latest(l),
           Carries(m, l)' => \A d \in Caches : WillBeUnique(d, l)' => WillBeUnique(d, l)
    PROVE  CarryOk(m, l)'
<1>1. \A e \in snoop'[m][l].back : snoop'[m][l].ans[e].xfer => snoop'[m][l].ans[e].data = Latest(l)'
  BY DEF CarryOk, CarriesKept
<1>2. Merged(m, l)' => ToLine(tx[m].data, l)' = Latest(l)'
  BY DEF CarryOk, CarriesKept, ToLine
<1>3. Cleaning(m, l)' => snoop'[m][l].data = Latest(l)'
  BY DEF CarryOk, CarriesKept
<1>4. Carries(m, l)' => \A d \in Caches : ~WillBeUnique(d, l)'
  BY CarriesBefore DEF CarryOk
<1>5. QED
  BY <1>1, <1>2, <1>3, <1>4 DEF CarryOk

\* A transaction that stays, with its snoops, carries what it did.
LEMMA CarriesStay ==
    ASSUME NEW m, NEW l, Stays(m), snoop'[m][l] = snoop[m][l]
    PROVE  CarriesKept(m, l) /\ (Carries(m, l)' <=> Carries(m, l))
<1>1. Merged(m, l)' => /\ tx'[m].data = tx[m].data /\ Merged(m, l)
  BY DEF Merged, Stays, SamePayload
<1>2. Merged(m, l) => Merged(m, l)'
  BY DEF Merged, Stays, SamePayload
<1>3. Cleaning(m, l)' <=> Cleaning(m, l)
  BY DEF Cleaning, Stays, SamePayload
<1>4. Brought(m, l)' <=> Brought(m, l)
  BY DEF Brought
<1>5. CarriesKept(m, l)
  BY <1>1, <1>3 DEF CarriesKept
<1>6. QED
  BY <1>1, <1>2, <1>3, <1>4, <1>5 DEF Carries

\* A transaction that is not before the snoop channel carries nothing.
LEMMA CarriesNot ==
    ASSUME BaseInv, NEW m \in Masters, NEW l \in Lines, tx[m].phase # "snoop"
    PROVE  ~Carries(m, l)
  BY CarriesBusy

\* While the transaction of m is ongoing no other brings its cache the line.
LEMMA UniqueIcn ==
    ASSUME BaseInv, LinesDisjoint, IcnData, NEW m \in Masters, NEW l \in Lines,
           m \in Ongoing, tx'[m].phase # "resp", IsSnoopingTransaction(tx[m].kind),
           l \in LinesOf(tx[m].rng)
    PROVE  \A d \in Caches : SameView(d, l)
<1> SUFFICES ASSUME NEW d \in Caches, ~SameView(d, l)
             PROVE  FALSE
  OBVIOUS
<1>1. Done(d, l) /\ d \in Masters /\ Moves(d)
  BY IcnViews, IcnMoves, CachesAreMasters
<1>2. tx'[d].phase = "resp" /\ tx'[d].rng = LineAddr(l) /\ IsSnoopingTransaction(tx'[d].kind)
  BY <1>1 DEF Done, Incoming
<1>3. tx[d].rng = LineAddr(l) /\ IsSnoopingTransaction(tx[d].kind) /\ d \in Ongoing /\ d # m
  BY <1>1, <1>2 DEF Moves, Done
<1>4. l \in LinesOf(tx[d].rng)
  BY <1>3, LineAddrFacts
<1>5. QED
  BY <1>3, <1>4 DEF LinesDisjoint

\* The last values of a line, when nothing is stored.
LEMMA LatestSame ==
    ASSUME NEW l, latest' = latest
    PROVE  Latest(l)' = Latest(l)
  BY DEF Latest, ToLine

\* A store changes its own lines.
LEMMA StoredElsewhere ==
    ASSUME NEW o \in Op, latest' = Stored(o), NEW l \in Lines, l \notin LinesOf(o.rng)
    PROVE  Latest(l)' = Latest(l)
<1>1. \A w \in Words : <<l, w>> \in Addr /\ <<l, w>> \notin o.rng
  BY DEF Addr, LinesOf
<1>2. QED
  BY <1>1 DEF Stored, Latest, ToLine

\* In the next state too only snooping transactions carry data.
LEMMA CarriesNotNext ==
    (BaseInv => \A m \in Masters, l \in Lines : tx[m].phase # "snoop" => ~Carries(m, l))'
<1>1. BaseInv => \A m \in Masters, l \in Lines : tx[m].phase # "snoop" => ~Carries(m, l)
  BY CarriesNot
<1>2. QED
  BY <1>1, PTL

\* CarryNone for the next state.
LEMMA CarryNoneNext ==
    ASSUME NEW m, NEW l, ~Carries(m, l)'
    PROVE  CarryOk(m, l)'
  BY DEF CarryOk, Carries, Brought

\* What the interconnect does not touch is carried on.
LEMMA CarryOthers ==
    ASSUME BaseInv, LinesDisjoint, IcnData, CarryInv, NEW x \in Masters, NEW l \in SharedLines,
           tx'[x].phase # "resp", CarriesKept(x, l), Latest(l)' = Latest(l)
    PROVE  CarryOk(x, l)'
<1>0. l \in Lines /\ CarryOk(x, l)
  BY DEF SharedLines, CarryInv
<1>1. CASE Carries(x, l)
  <2>1. /\ x \in Ongoing /\ IsSnoopingTransaction(tx[x].kind) /\ l \in LinesOf(tx[x].rng)
    BY <1>0, <1>1, CarriesBusy
  <2>2. \A d \in Caches : SameView(d, l)
    BY <1>0, <2>1, UniqueIcn
  <2>3. \A d \in Caches : WillBeUnique(d, l)' => WillBeUnique(d, l)
    BY <2>2 DEF SameView
  <2>4. QED
    BY <1>0, <2>3, CarryKept
<1>2. CASE ~Carries(x, l)
  BY <1>2, CarriesBefore, CarryNoneNext
<1>3. QED
  BY <1>1, <1>2

\* The interconnect's work for others leaves CarryOk of a transaction,
LEMMA CarryStays ==
    ASSUME BaseInv, LinesDisjoint, IcnData, CarryInv, NEW x \in Masters, NEW l \in SharedLines,
           Stays(x), snoop'[x][l] = snoop[x][l], Latest(l)' = Latest(l)
    PROVE  CarryOk(x, l)'
<1>0. l \in Lines /\ CarriesKept(x, l) /\ (Carries(x, l)' <=> Carries(x, l))
  BY CarriesStay DEF SharedLines
<1>1. CASE Carries(x, l)
  <2>1. tx[x].phase = "snoop"
    BY <1>0, <1>1, CarriesBusy
  <2>2. tx'[x].phase # "resp"
    BY <2>1 DEF Stays
  <2>3. QED
    BY <1>0, <2>2, CarryOthers
<1>2. CASE ~Carries(x, l)
  BY <1>0, <1>2, CarryNoneNext
<1>3. QED
  BY <1>1, <1>2

\* Reads of whole lines are a cache's, and of one line.
LEMMA ReadsOneLine ==
    ASSUME BaseInv, NEW m \in Masters, tx[m].kind \in ReadKinds \ {"ReadOnce"}
    PROVE  m \in Caches /\ ~Segmented(tx[m].kind) /\ tx[m].rng = LineAddr(LineOf(op[m]))
           /\ LinesOf(tx[m].rng) = {LineOf(op[m])} /\ LineOf(op[m]) \in Lines
<1>0. AccessInv
  BY DEF BaseInv
<1>1. tx[m].kind \in FillKinds /\ tx[m].kind # "none" /\ tx[m].kind \notin {"ReadOnce", "WriteUnique"}
  BY DEF FillKinds, ReadKinds
<1>2. tx[m].kind \notin CopyBackKinds \cup UniqueWriteKinds \cup NoSnoopKinds
  BY <1>1, KindClasses
<1>3. op[m] # NoOp /\ op[m] \in Op /\ Asks(m)
  BY <1>0, <1>1, AccessParts
<1>4. m \in Caches /\ AsksRight(m)
  BY <1>1, <1>3 DEF Asks, Masters
<1>5. tx[m].rng = LineAddr(LineOf(op[m]))
  BY <1>2, <1>4 DEF AsksRight, PayloadRange
<1>6. LineOf(op[m]) \in Lines
  BY <1>3, AccessFacts
<1>7. QED
  BY <1>1, <1>4, <1>5, <1>6, LineAddrFacts DEF Segmented

\* an answer that is merged is what the last stores left,
LEMMA CarryPort ==
    ASSUME BaseInv, LinesDisjoint, IcnData, CarryInv,
           NEW m \in Masters, NEW k \in Lines, NEW c \in Caches, PortDone(m, k, c),
           latest' = latest, NEW l \in SharedLines
    PROVE  CarryOk(m, l)'
<1>0. IcnTypeOK /\ l \in Lines
  BY DEF BaseInv, TypeOK, SharedLines
<1>1. PICK a : a = snoop[m][k].ans[c]
  OBVIOUS
<1>2. /\ c \in snoop[m][k].back /\ tx[m].phase = "snoop" /\ tx'[m].phase = "snoop"
      /\ tx'[m].kind = tx[m].kind /\ tx'[m].rng = tx[m].rng
      /\ tx'[m].ok <=> (tx[m].ok \/ AnsweredBySnoop(tx[m].kind, a))
      /\ tx'[m].data = IF a.xfer /\ tx[m].kind \in ReadKinds
                       THEN [x \in tx[m].rng |-> IF x[1] = k THEN a.data[x[2]] ELSE tx[m].data[x]]
                       ELSE tx[m].data
      /\ snoop'[m][k].exec <=> NeedsDownstream(snoop[m][k].exec, tx[m].kind, a)
      /\ snoop'[m][k].data = IF MustClean(tx[m].kind, a) THEN a.data ELSE snoop[m][k].data
  BY <1>1, PortData
<1>3. k \in LinesOf(tx[m].rng)
  BY <1>2, PortsBusy
<1>4. l # k => snoop'[m][l] = snoop[m][l]
  BY <1>0 DEF PortDone, IcnTypeOK
<1>5. \A e \in snoop'[m][l].back : e \in snoop[m][l].back /\ snoop'[m][l].ans[e] = snoop[m][l].ans[e]
  BY <1>0, AnswersIcn DEF AnsweredKept
<1>6. Latest(l)' = Latest(l) /\ CarryOk(m, l)
  BY LatestSame DEF CarryInv
<1>7. tx[m].kind \in ReadKinds \ {"ReadOnce"} =>
         LinesOf(tx[m].rng) = {k} /\ tx[m].rng = LineAddr(k)
  BY <1>3, ReadsOneLine
<1>8. CASE l # k
  <2>1. ~Merged(m, l)'
    BY <1>2, <1>7, <1>8 DEF Merged
  <2>2. CarriesKept(m, l)
    BY <1>2, <1>4, <1>8, <2>1 DEF CarriesKept, Cleaning
  <2>3. QED
    BY <1>2, <1>6, <2>2, CarryOthers
<1>9. CASE l = k
  <2>1. a.xfer => a.data = Latest(l) /\ Brought(m, l)
    BY <1>1, <1>2, <1>6, <1>9 DEF CarryOk, Brought
  <2>2. \A e \in snoop'[m][l].back : snoop'[m][l].ans[e].xfer => snoop'[m][l].ans[e].data = Latest(l)'
    BY <1>5, <1>6 DEF CarryOk
  <2>3. Merged(m, l)' => ToLine(tx[m].data, l)' = Latest(l)' /\ Carries(m, l)
    <3>1. SUFFICES ASSUME Merged(m, l)'
                   PROVE  ToLine(tx'[m].data, l) = Latest(l) /\ Carries(m, l)
      BY <1>6 DEF ToLine
    <3>2. tx[m].kind \in ReadKinds \ {"ReadOnce"} /\ l \in LinesOf(tx[m].rng) /\ tx'[m].ok
      BY <1>2, <3>1 DEF Merged
    <3>3. CASE a.xfer
      <4>1. tx'[m].data = [x \in tx[m].rng |-> IF x[1] = k THEN a.data[x[2]] ELSE tx[m].data[x]]
        BY <1>2, <3>2, <3>3
      <4>2. tx[m].rng = LineAddr(k)
        BY <1>7, <3>2
      <4>3. \A w \in Words : <<l, w>> \in tx[m].rng /\ tx'[m].data[<<l, w>>] = a.data[w]
        BY <1>9, <4>1, <4>2 DEF LineAddr
      <4>4. a \in Answer
        BY <1>0, <1>1 DEF IcnTypeOK, Snoop
      <4>5. a.data = [w \in Words |-> a.data[w]]
        BY <4>4 DEF Answer, LineData
      <4>6. QED
        BY <2>1, <3>3, <4>3, <4>5 DEF ToLine, Carries
    <3>4. CASE ~a.xfer
      <4>1. ~AnsweredBySnoop(tx[m].kind, a)
        BY <3>2, <3>4 DEF AnsweredBySnoop, ReadKinds, CleanKinds, CmoKinds
      <4>2. Merged(m, l) /\ tx'[m].data = tx[m].data
        BY <1>2, <3>2, <3>4, <4>1 DEF Merged
      <4>3. QED
        BY <1>6, <4>2 DEF CarryOk, Carries
    <3>5. QED
      BY <3>3, <3>4
  <2>4. Cleaning(m, l)' => snoop'[m][l].data = Latest(l)' /\ Carries(m, l)
    <3>1. SUFFICES ASSUME Cleaning(m, l)'
                   PROVE  snoop'[m][l].data = Latest(l) /\ Carries(m, l)
      BY <1>6
    <3>2. CASE MustClean(tx[m].kind, a)
      BY <1>2, <1>9, <2>1, <3>2 DEF MustClean, Carries
    <3>3. CASE ~MustClean(tx[m].kind, a)
      <4>1. Cleaning(m, l) /\ snoop'[m][l].data = snoop[m][l].data
        BY <1>2, <1>9, <3>1, <3>3 DEF Cleaning, NeedsDownstream
      <4>2. QED
        BY <1>6, <4>1 DEF CarryOk, Carries
    <3>4. QED
      BY <3>2, <3>3
  <2>5. Brought(m, l)' => Carries(m, l)
    BY <1>5 DEF Brought, Carries
  <2>6. ASSUME Carries(m, l)
        PROVE  \A d \in Caches : ~WillBeUnique(d, l)'
    <3>1. /\ m \in Ongoing /\ IsSnoopingTransaction(tx[m].kind) /\ l \in LinesOf(tx[m].rng)
      BY <1>0, <2>6, CarriesBusy
    <3>2. \A d \in Caches : SameView(d, l)
      BY <1>0, <1>2, <3>1, UniqueIcn
    <3>3. QED
      BY <1>6, <2>6, <3>2 DEF CarryOk, SameView
  <2>7. Carries(m, l)' => Carries(m, l)
    BY <2>3, <2>4, <2>5 DEF Carries
  <2>8. QED
    BY <2>2, <2>3, <2>4, <2>6, <2>7 DEF CarryOk
<1>10. QED
  BY <1>8, <1>9

\* What a store downstream covers: nothing shared, or what it has snooped for.
LEMMA StoreLines ==
    ASSUME BaseInv, RequestInv, NEW m \in Masters, StoreTx(tx[m].kind)
    PROVE  /\ op[m] \in Op /\ op[m] # NoOp /\ Writes(m)
           /\ tx[m].kind = "WriteNoSnoop" => \A l \in SharedLines : l \notin LinesOf(op[m].rng)
           /\ tx[m].kind # "WriteNoSnoop" =>
                 tx[m].kind \in UniqueWriteKinds /\ IsSnoopingTransaction(tx[m].kind)
<1>0. AccessInv
  BY DEF BaseInv
<1>1. tx[m].kind # "none"
  BY DEF StoreTx, UniqueWriteKinds
<1>2. op[m] # NoOp /\ op[m] \in Op /\ Asks(m)
  BY <1>0, <1>1, AccessParts
<1>3. CASE m \in Caches
  <2>1. RequestOk(m)
    BY <1>2, <1>3 DEF RequestInv
  <2>2. Writes(m)
    BY <2>1 DEF RequestOk, StoreTx
  <2>3. tx[m].kind = "WriteNoSnoop" => LineOf(op[m]) \in NonShareable
    BY <2>1 DEF RequestOk, Fits, NoSnoopKinds
  <2>4. op[m].rng \subseteq LineAddr(LineOf(op[m]))
    BY <1>0, <1>2, <1>3, OpFacts DEF AccessInv, Asks
  <2>5. LinesOf(op[m].rng) \subseteq {LineOf(op[m])}
    BY <2>4 DEF LinesOf, LineAddr
  <2>6. QED
    BY <1>2, <2>2, <2>3, <2>5, WritesSnoop DEF StoreTx, SharedLines
<1>4. CASE m \in LiteMasters
  <2>1. LiteRequestOk(m) /\ tx[m].kind = "WriteUnique"
    BY <1>2, <1>4 DEF RequestInv, Asks, StoreTx, UniqueWriteKinds
  <2>2. tx[m].kind \in UniqueWriteKinds /\ tx[m].kind # "WriteNoSnoop"
    BY <2>1 DEF UniqueWriteKinds
  <2>3. QED
    BY <1>2, <2>1, <2>2, WritesSnoop DEF LiteRequestOk
<1>5. QED
  BY <1>3, <1>4 DEF Masters

\* When the transaction of m is not at its snoops, it carries nothing.
LEMMA CarryElsewhere ==
    ASSUME BaseInv, BaseInv', LinesDisjoint, IcnData, CarryInv,
           NEW m \in Masters, NEW l \in SharedLines, OthersStay(m),
           \A x \in Masters \ {m} : snoop'[x][l] = snoop[x][l],
           Latest(l)' = Latest(l), tx'[m].phase # "snoop"
    PROVE  \A x \in Masters : CarryOk(x, l)'
<1> SUFFICES ASSUME NEW x \in Masters  PROVE CarryOk(x, l)'
  OBVIOUS
<1>1. CASE x = m
  BY <1>1, CarriesNotNext, CarryNoneNext DEF SharedLines
<1>2. CASE x # m
  BY <1>2, CarryStays DEF OthersStay
<1>3. QED
  BY <1>1, <1>2

\* a transaction that is accepted carries nothing yet,
LEMMA CarryAccept ==
    ASSUME BaseInv, BaseInv', LinesDisjoint, IcnData, CarryInv,
           NEW m \in Masters, Accept(m), latest' = latest
    PROVE  CarryInv'
<1>1. OthersStay(m) /\ snoop' = snoop /\ tx'[m].phase # "snoop"
  BY AcceptData
<1>2. \A l \in SharedLines : \A x \in Masters : CarryOk(x, l)'
  BY <1>1, CarryElsewhere, LatestSame
<1>3. QED
  BY <1>2 DEF CarryInv, SharedLines

\* nor one that begins to snoop,
LEMMA CarryEngine ==
    ASSUME BaseInv, BaseInv', OkInv, LinesDisjoint, IcnData, CarryInv,
           NEW m \in Masters, EngineSnoop(m), latest' = latest
    PROVE  CarryInv'
<1>0. IcnTypeOK
  BY DEF BaseInv, TypeOK
<1>1. /\ SamePayload(tx'[m], tx[m]) /\ tx[m].phase = "engine" /\ OthersStay(m)
      /\ \A k \in LinesOf(tx[m].rng) :
                 snoop'[m][k].back = {} /\ (snoop'[m][k].exec <=> tx[m].kind = "ReadOnce")
  BY EngineData
<1>2. /\ \A k \in Lines \ LinesOf(tx[m].rng) : snoop'[m][k] = snoop[m][k]
      /\ \A x \in Masters \ {m}, k \in Lines : snoop'[x][k] = snoop[x][k]
  BY EngineSnoopParts
<1>3. SUFFICES ASSUME NEW x \in Masters, NEW l \in SharedLines  PROVE CarryOk(x, l)'
  BY DEF CarryInv, SharedLines
<1>4. l \in Lines
  BY DEF SharedLines
<1>5. CASE x # m
  BY <1>1, <1>2, <1>4, <1>5, CarryStays, LatestSame DEF OthersStay
<1>6. CASE x = m
  <2>1. ~tx[m].ok
    BY <1>1 DEF OkInv, OkOk
  <2>2. ~Merged(m, l)'
    BY <1>1, <2>1 DEF Merged, SamePayload
  <2>3. snoop[m][l].back = {} /\ ~snoop[m][l].exec
    BY <1>1, <1>4, NoAnswers
  <2>4. snoop'[m][l].back = {} /\ (snoop'[m][l].exec => tx[m].kind = "ReadOnce")
    BY <1>1, <1>2, <1>4, <2>3
  <2>5. ~Carries(m, l)'
    BY <1>1, <2>2, <2>4 DEF Carries, Brought, Cleaning, SamePayload
  <2>6. QED
    BY <1>6, <2>5, CarryNoneNext
<1>7. QED
  BY <1>5, <1>6

\* a line that is done carries nothing any more,
LEMMA CarryLine ==
    ASSUME BaseInv, BaseInv', LinesDisjoint, IcnData, CarryInv,
           NEW m \in Masters, NEW k \in Lines, LineDone(m, k), latest' = latest
    PROVE  CarryInv'
<1>0. IcnTypeOK
  BY DEF BaseInv, TypeOK
<1>1. /\ snoop' = [snoop EXCEPT ![m][k] = NoSnoop] /\ OthersStay(m)
      /\ tx'[m].kind = tx[m].kind
      /\ tx'[m].phase = "snoop" => Left(tx[m], k) # {}
  BY DEF LineDone
<1>2. SUFFICES ASSUME NEW x \in Masters, NEW l \in SharedLines  PROVE CarryOk(x, l)'
  BY DEF CarryInv, SharedLines
<1>3. l \in Lines /\ Latest(l)' = Latest(l)
  BY LatestSame DEF SharedLines
<1>4. /\ \A y \in Masters \ {m} : snoop'[y][l] = snoop[y][l]
      /\ snoop'[m][l] = IF l = k THEN NoSnoop ELSE snoop[m][l]
  BY <1>0, <1>1, <1>3 DEF IcnTypeOK
<1>5. CASE tx'[m].phase # "snoop"
  BY <1>1, <1>3, <1>4, <1>5, CarryElsewhere
<1>6. CASE tx'[m].phase = "snoop" /\ x # m
  BY <1>1, <1>3, <1>4, <1>6, CarryStays DEF OthersStay
<1>7. CASE tx'[m].phase = "snoop" /\ x = m
  <2>1. Segmented(tx[m].kind)
    BY <1>1, <1>7 DEF Left
  <2>2. ~Merged(m, l)'
    BY <1>1, <2>1 DEF Merged, Segmented, ReadKinds
  <2>3. CASE l = k
    <3>1. ~Carries(m, l)'
      BY <1>4, <2>2, <2>3 DEF Carries, Brought, Cleaning, NoSnoop
    <3>2. QED
      BY <1>7, <3>1, CarryNoneNext
  <2>4. CASE l # k
    <3>1. CarriesKept(m, l)
      BY <1>1, <1>4, <2>2, <2>4 DEF CarriesKept, Cleaning
    <3>2. QED
      BY <1>3, <1>7, <3>1, CarryOthers
  <2>5. QED
    BY <2>3, <2>4
<1>8. QED
  BY <1>5, <1>6, <1>7

\* and a store downstream meets nobody who carries the line:
LEMMA CarryOwn ==
    ASSUME BaseInv, BaseInv', RequestInv, LinesDisjoint, IcnData, CarryInv,
           NEW m \in Masters, OwnDone(m),
           IF StoreTx(tx[m].kind) THEN latest' = Stored(op[m]) ELSE latest' = latest
    PROVE  CarryInv'
<1>1. OthersStay(m) /\ snoop' = snoop /\ tx[m].phase = "ds" /\ tx'[m].phase = "resp"
  BY DEF OwnDone
<1>2. SUFFICES ASSUME NEW l \in SharedLines  PROVE \A x \in Masters : CarryOk(x, l)'
  BY DEF CarryInv, SharedLines
<1>3. CASE Latest(l)' = Latest(l)
  BY <1>1, <1>3, CarryElsewhere
<1>4. CASE Latest(l)' # Latest(l)
  <2>0. l \in Lines
    BY DEF SharedLines
  <2>1. StoreTx(tx[m].kind) /\ latest' = Stored(op[m])
    BY <1>4, LatestSame
  <2>2. op[m] \in Op /\ Writes(m) /\ l \in LinesOf(op[m].rng)
    BY <1>4, <2>0, <2>1, StoreLines, StoredElsewhere
  <2>3. tx[m].rng = op[m].rng /\ IsSnoopingTransaction(tx[m].kind) /\ m \in Ongoing
    BY <1>1, <2>1, <2>2, StoreLines DEF Writes, Ongoing
  <2>4. ASSUME NEW x \in Masters  PROVE ~Carries(x, l)'
    <3>1. CASE x = m
      BY <1>1, <2>0, <3>1, CarriesNotNext
    <3>2. CASE x # m
      <4>1. ~Carries(x, l)
        BY <2>0, <2>2, <2>3, <3>2, CarriesBusy DEF LinesDisjoint
      <4>2. QED
        BY <1>1, <3>2, <4>1, CarriesStay DEF OthersStay
    <3>3. QED
      BY <3>1, <3>2
  <2>5. QED
    BY <2>4, CarryNoneNext
<1>5. QED
  BY <1>3, <1>4

\* so the interconnect keeps CarryInv.
LEMMA CarryIcn ==
    ASSUME BaseInv, BaseInv', RequestInv, LinesDisjoint, OkInv, IcnData, CarryInv
    PROVE  CarryInv'
<1>1. ASSUME NEW m \in Masters, Accept(m), latest' = latest  PROVE CarryInv'
  BY <1>1, CarryAccept
<1>2. ASSUME NEW m \in Masters, EngineSnoop(m), latest' = latest  PROVE CarryInv'
  BY <1>2, CarryEngine
<1>3. ASSUME NEW m \in Masters, NEW k \in Lines, NEW c \in Caches, PortDone(m, k, c),
             latest' = latest
      PROVE  CarryInv'
  <2>1. SUFFICES ASSUME NEW x \in Masters, NEW l \in SharedLines  PROVE CarryOk(x, l)'
    BY DEF CarryInv, SharedLines
  <2>2. CASE x = m
    BY <1>3, <2>2, CarryPort
  <2>3. CASE x # m
    <3>1. Stays(x)
      BY <1>3, <2>3, PortData DEF OthersStay
    <3>2. snoop'[x][l] = snoop[x][l]
      BY <1>3, <2>3 DEF PortDone, BaseInv, TypeOK, IcnTypeOK, SharedLines
    <3>3. QED
      BY <1>3, <3>1, <3>2, CarryStays, LatestSame
  <2>4. QED
    BY <2>2, <2>3
<1>4. ASSUME NEW m \in Masters, NEW k \in Lines, LineDone(m, k), latest' = latest
      PROVE  CarryInv'
  BY <1>4, CarryLine
<1>5. ASSUME NEW m \in Masters, OwnDone(m), ~StoreTx(tx[m].kind), latest' = latest
      PROVE  CarryInv'
  BY <1>5, CarryOwn
<1>6. ASSUME NEW m \in Masters, OwnDone(m), StoreTx(tx[m].kind), latest' = Stored(op[m])
      PROVE  CarryInv'
  BY <1>6, CarryOwn
<1>7. ASSUME UNCHANGED <<tx, snoop, overlap, memory>>, latest' = latest  PROVE CarryInv'
  <2>1. SUFFICES ASSUME NEW x \in Masters, NEW l \in SharedLines  PROVE CarryOk(x, l)'
    BY DEF CarryInv, SharedLines
  <2>2. QED
    BY <1>7, CarryStays, SameStays, LatestSame
<1>8. QED
  BY <1>1, <1>2, <1>3, <1>4, <1>5, <1>6, <1>7 DEF IcnData

(***************************************************************************)
(* The copies.                                                             *)
(***************************************************************************)

\* Line l of cache c, once a write-through done downstream is acknowledged.
View(c, l) ==
    [w \in Words |-> IF c \in Applied /\ <<l, w>> \in op[c].rng THEN op[c].val
                     ELSE get_line(c, l).data[w]]

\* Every copy is what the last stores left.
CopyData == \A c \in Caches, l \in SharedLines : Copy(c, l) => View(c, l) = Latest(l)

\* The line that each response leaves the access to go on with.
LEMMA BaseIs ==
    ASSUME NEW o, NEW t, NEW ln \in CacheLine
    PROVE  LET b == BaseLine(o, t, ln) IN
           /\ t.kind \in {"WriteBack", "Evict"} => ~b.valid
           /\ t.kind = "WriteClean" =>
                 /\ b.valid = ln.valid /\ b.tag = ln.tag /\ b.shared = ln.shared
                 /\ b.data = ln.data /\ ~b.dirty
           /\ t.kind = "CleanUnique" /\ ln.valid =>
                 /\ b.valid = ln.valid /\ b.tag = ln.tag /\ b.dirty = ln.dirty
                 /\ b.data = ln.data /\ ~b.shared
           /\ t.kind \in UniqueWriteKinds =>
                 b = IF Holds(ln, LineOf(o)) THEN KeptLine(ln, o) ELSE ln
           /\ t.kind \in FillKinds => b = install(ln, LineOf(o), t)
           /\ t.kind \in CmoKinds \cup NoSnoopKinds \cup {"ReadOnce"} => b = ln
<1>1. t.kind \in UniqueWriteKinds =>
         BaseLine(o, t, ln) = IF Holds(ln, LineOf(o)) THEN KeptLine(ln, o) ELSE ln
  BY KeptBase
<1>2. ASSUME t.kind \in FillKinds  PROVE BaseLine(o, t, ln) = install(ln, LineOf(o), t)
  <2>1. t.kind \notin {"WriteBack", "WriteClean", "Evict", "CleanUnique"} \cup UniqueWriteKinds
    BY <1>2, KindClasses
  <2>2. QED
    BY <1>2, <2>1 DEF BaseLine
<1>3. ASSUME t.kind \in CmoKinds \cup NoSnoopKinds \cup {"ReadOnce"}  PROVE BaseLine(o, t, ln) = ln
  <2>1. /\ t.kind \notin {"WriteBack", "WriteClean", "Evict", "CleanUnique"} \cup UniqueWriteKinds
        /\ t.kind \notin FillKinds
    BY <1>3, KindClasses
  <2>2. QED
    BY <2>1 DEF BaseLine
<1>4. t.kind \in {"WriteBack", "WriteClean", "Evict", "CleanUnique"} =>
         t.kind \notin UniqueWriteKinds /\ t.kind \notin FillKinds
  BY KindClasses
<1>5. /\ ~[ln EXCEPT !.valid = FALSE].valid
      /\ [ln EXCEPT !.dirty = FALSE].valid = ln.valid /\ [ln EXCEPT !.dirty = FALSE].tag = ln.tag
      /\ [ln EXCEPT !.dirty = FALSE].shared = ln.shared
      /\ [ln EXCEPT !.dirty = FALSE].data = ln.data /\ ~[ln EXCEPT !.dirty = FALSE].dirty
      /\ [ln EXCEPT !.shared = FALSE].valid = ln.valid /\ [ln EXCEPT !.shared = FALSE].tag = ln.tag
      /\ [ln EXCEPT !.shared = FALSE].dirty = ln.dirty
      /\ [ln EXCEPT !.shared = FALSE].data = ln.data /\ ~[ln EXCEPT !.shared = FALSE].shared
  BY DEF CacheLine
<1>6. ASSUME t.kind \in {"WriteBack", "Evict"}  PROVE ~BaseLine(o, t, ln).valid
  <2>1. BaseLine(o, t, ln) = [ln EXCEPT !.valid = FALSE]
    BY <1>4, <1>6 DEF BaseLine
  <2>2. QED
    BY <1>5, <2>1
<1>7. ASSUME t.kind = "WriteClean"  PROVE BaseLine(o, t, ln) = [ln EXCEPT !.dirty = FALSE]
  <2>1. t.kind \notin {"WriteBack", "Evict", "CleanUnique"}
    BY <1>7
  <2>2. QED
    BY <1>4, <1>7, <2>1 DEF BaseLine
<1>8. ASSUME t.kind = "CleanUnique", ln.valid  PROVE BaseLine(o, t, ln) = [ln EXCEPT !.shared = FALSE]
  <2>1. ln.valid \in BOOLEAN
    BY DEF CacheLine
  <2>2. t.kind \notin {"WriteBack", "WriteClean", "Evict"}
    BY <1>8
  <2>3. BaseLine(o, t, ln) = IF ln.valid THEN [ln EXCEPT !.shared = FALSE]
                                         ELSE [ln EXCEPT !.valid = TRUE]
    BY <1>4, <1>8, <2>1 DEF BaseLine
  <2>4. QED
    BY <1>8, <2>3
<1>9. QED
  BY <1>1, <1>2, <1>3, <1>5, <1>6, <1>7, <1>8

\* A store that takes effect in a cache finds the line unique there.
LEMMA TakesUnique ==
    ASSUME BaseInv, NEW c \in Caches, NEW o, NEW r, CacheData(c, o, r), Takes(c, o, r)
    PROVE  WillBeUnique(c, LineOf(o))
<1>0. CacheTypeOK /\ r.req = "none"
  BY DEF BaseInv, TypeOK, Takes
<1>1. PICK l : l = LineOf(o)
  OBVIOUS
<1>2. PICK ln : ln = get_line(c, l)
  OBVIOUS
<1>3. CASE tx[c].phase = "idle" /\ tx[c].kind = "none" /\ Serves(c, o, ln, r)
  BY <1>1, <1>2, <1>3 DEF Serves, Copy, in_cache, WillBeUnique
<1>4. CASE /\ tx[c].phase = "resp" /\ o = op[c] /\ AsksRight(c) /\ tx[c].kind \in TxKinds
           /\ Answered(o, ln, tx[c], r) /\ Resumes(c, o, tx[c], ln, r)
  <2>1. PICK t : t = tx[c]
    OBVIOUS
  <2>2. Holds(BaseLine(o, t, ln), l) /\ ~BaseLine(o, t, ln).shared
    BY <1>1, <1>4, <2>1 DEF Resumes, Serves
  <2>3. get_line(c, l) = ln /\ (in_cache(c, l) <=> Holds(ln, l))
    BY <1>2 DEF in_cache
  <2>4. tx[c].kind \notin CopyBackKinds \cup UniqueWriteKinds \cup NoSnoopKinds =>
           tx[c].rng = LineAddr(l)
    BY <1>1, <1>4 DEF AsksRight, PayloadRange
  <2>0. ln \in CacheLine
    BY <1>0, <1>1, <1>2, TurnParts
  <2>5. CASE t.kind \in {"WriteBack", "Evict"}
    BY <2>0, <2>2, <2>5, BaseIs DEF Holds
  <2>6. CASE t.kind = "WriteClean"
    <3>3. Holds(ln, l) /\ ~ln.shared
      BY <2>0, <2>2, <2>6, BaseIs DEF Holds
    <3>4. QED
      BY <1>1, <2>1, <2>3, <2>6, <3>3 DEF Copy, WillBeUnique
  <2>7. CASE t.kind = "CleanUnique"
    <3>1. ln.valid
      BY <1>0, <1>4, <2>1, <2>7 DEF Answered
    <3>4. Holds(ln, l)
      BY <2>0, <2>2, <2>7, <3>1, BaseIs DEF Holds
    <3>5. tx[c].rng = LineAddr(l) /\ IsSnoopingTransaction(tx[c].kind)
      BY <2>1, <2>4, <2>7, KindClasses DEF IsSnoopingTransaction, CleanKinds
    <3>6. Upgrades(c, l)
      BY <1>4, <2>1, <2>7, <3>5 DEF Upgrades, Incoming
    <3>7. QED
      BY <1>1, <2>1, <2>3, <2>7, <3>4, <3>6 DEF Copy, WillBeUnique
  <2>8. CASE t.kind \in UniqueWriteKinds
    <3>1. BaseLine(o, t, ln) = IF Holds(ln, LineOf(o)) THEN KeptLine(ln, o) ELSE ln
      BY <2>8, KeptBase
    <3>2. KeptLine(ln, o).shared
      <4>1. ln \in CacheLine /\ o \in Op
        BY <1>0, <1>1, <1>2, TurnParts
      <4>2. QED
        BY <4>1, KeptLineParts
    <3>3. QED
      BY <1>1, <2>2, <3>1, <3>2
  <2>9. CASE t.kind \in FillKinds
    <3>1. BaseLine(o, t, ln) = install(ln, l, t)
      BY <1>1, <2>0, <2>9, BaseIs
    <3>3. t.kind = "MakeUnique" \/ ~t.shared
      BY <2>0, <2>2, <3>1 DEF install, read_fill, CacheLine
    <3>4. tx[c].rng = LineAddr(l) /\ IsSnoopingTransaction(tx[c].kind)
      BY <2>1, <2>4, <2>9, KindClasses DEF IsSnoopingTransaction, FillKinds, CleanKinds
    <3>5. QED
      BY <1>1, <1>4, <2>1, <2>9, <3>3, <3>4 DEF WillBeUnique, Fills, Incoming
  <2>10. CASE t.kind \in CmoKinds \cup NoSnoopKinds \cup {"ReadOnce"}
    <3>1. BaseLine(o, t, ln) = ln
      BY <2>0, <2>10, BaseIs
    <3>2. Holds(ln, l) /\ ~ln.shared /\ t.kind # "Evict"
      BY <2>2, <2>10, <3>1, KindClasses
    <3>3. QED
      BY <1>1, <2>1, <2>3, <3>2 DEF Copy, WillBeUnique
  <2>11. QED
    BY <1>4, <2>1, <2>5, <2>6, <2>7, <2>8, <2>9, <2>10, KindClasses
<1>5. QED
  BY <1>1, <1>2, <1>3, <1>4 DEF CacheData

\* A cache's own access changes no line but the one it works on.
LEMMA TurnViews ==
    ASSUME BaseInv, NEW c \in Caches, NEW o, NEW r, CacheData(c, o, r)
    PROVE  /\ \A d \in Caches, l \in Lines : Degrades(d, l)
           /\ \A d \in Caches \ {c}, l \in Lines :
                 SameView(d, l) /\ Copy(d, l)' = Copy(d, l) /\ get_line(d, l)' = get_line(d, l)
<1>1. \A d \in Caches \ {c} : cacheline'[d] = cacheline[d] /\ tx'[d] = tx[d]
  BY TurnParts, CachesAreMasters
<1>2. ASSUME NEW d \in Caches \ {c}, NEW l \in Lines
      PROVE  SameView(d, l) /\ Copy(d, l)' = Copy(d, l) /\ get_line(d, l)' = get_line(d, l)
  <2>1. Incoming(d, l)' <=> Incoming(d, l)
    BY <1>1 DEF Incoming
  <2>2. QED
    BY <1>1, <2>1, ViewSame, CopySame
<1>3. CacheTurns(c, o, r)
  BY DEF CacheData
<1>4. ASSUME NEW d \in Caches, NEW l \in Lines  PROVE Degrades(d, l)
  BY <1>2, <1>3, SameDegrades, CacheTurnDegrades
<1>5. QED
  BY <1>2, <1>4

\* A store in a cache is to a unique line, which nobody carries.
LEMMA CarryTurn ==
    ASSUME BaseInv, BaseInv', CarryInv, NEW c \in Caches, NEW o, NEW r, CacheData(c, o, r)
    PROVE  CarryInv'
<1>1. SUFFICES ASSUME NEW x \in Masters, NEW l \in SharedLines  PROVE CarryOk(x, l)'
  BY DEF CarryInv, SharedLines
<1>2. l \in Lines /\ CarryOk(x, l)
  BY DEF SharedLines, CarryInv
<1>3. /\ o \in Op /\ o.rng \subseteq LineAddr(LineOf(o)) /\ LineOf(o) \in Lines
      /\ tx'[c] = NextTx(o, r) /\ snoop' = snoop /\ r \in Result
      /\ \A y \in Masters \ {c} : tx'[y] = tx[y]
  BY TurnParts
<1>4. latest' = IF Takes(c, o, r) THEN Stored(o) ELSE latest
  BY DEF CacheData
<1>5. \A d \in Caches : Degrades(d, l)
  BY <1>2, TurnViews
<1>6. CASE x = c
  <2>1. tx'[c].phase \in {"idle", "req"}
    BY <1>3, NextTxData
  <2>2. QED
    BY <1>2, <1>6, <2>1, CarriesNotNext, CarryNoneNext
<1>7. CASE x # c
  <2>1. CarriesKept(x, l) /\ (Carries(x, l)' <=> Carries(x, l))
    BY <1>3, <1>7, CarriesStay, SameStays
  <2>2. CASE Latest(l)' = Latest(l)
    <3>1. \A d \in Caches : WillBeUnique(d, l)' => WillBeUnique(d, l)
      BY <1>5 DEF Degrades
    <3>2. QED
      BY <1>2, <2>1, <2>2, <3>1, CarryKept
  <2>3. CASE Latest(l)' # Latest(l)
    <3>1. Takes(c, o, r) /\ latest' = Stored(o)
      BY <1>4, <2>3, LatestSame
    <3>2. l \in LinesOf(o.rng)
      BY <1>2, <1>3, <2>3, <3>1, StoredElsewhere
    <3>3. l = LineOf(o)
      BY <1>3, <3>2 DEF LinesOf, LineAddr
    <3>4. WillBeUnique(c, l)
      BY <3>1, <3>3, TakesUnique
    <3>5. ~Carries(x, l)
      BY <1>2, <3>4 DEF CarryOk
    <3>6. QED
      BY <2>1, <3>5, CarryNoneNext
  <2>4. QED
    BY <2>2, <2>3
<1>8. QED
  BY <1>6, <1>7

\* An ACE-Lite master's turn carries nothing.
LEMMA CarryLite ==
    ASSUME BaseInv, BaseInv', CarryInv, NEW m \in Masters \ Caches, LiteData(m)
    PROVE  CarryInv'
<1>1. SUFFICES ASSUME NEW x \in Masters, NEW l \in SharedLines  PROVE CarryOk(x, l)'
  BY DEF CarryInv, SharedLines
<1>2. l \in Lines /\ CarryOk(x, l)
  BY DEF SharedLines, CarryInv
<1>3. snoop' = snoop /\ \A y \in Masters \ {m} : tx'[y] = tx[y]
  BY DEF LiteData
<1>4. Latest(l)' = Latest(l)
  BY LatestSame DEF LiteData
<1>5. CASE x = m
  <2>1. tx'[m].phase # "snoop"
    <3>1. CASE tx'[m] = NoTx
      BY <3>1 DEF NoTx
    <3>2. ASSUME NEW p, tx'[m] = LiteTx(p)  PROVE tx'[m].phase # "snoop"
      BY <3>2, LiteTxData
    <3>3. QED
      BY <3>1, <3>2 DEF LiteData
  <2>2. QED
    BY <1>2, <1>5, <2>1, CarriesNotNext, CarryNoneNext
<1>6. CASE x # m
  <2>1. CarriesKept(x, l)
    BY <1>3, <1>6, CarriesStay, SameStays
  <2>2. \A d \in Caches : WillBeUnique(d, l)' => WillBeUnique(d, l)
    BY <1>2, LiteViews DEF SameView
  <2>3. QED
    BY <1>2, <1>4, <2>1, <2>2, CarryKept
<1>7. QED
  BY <1>5, <1>6

\* What a snoop hits is up to date.
LEMMA SnoopedCopy ==
    ASSUME BaseInv, OverlapInv, RequestInv, FrontInv, CopyData,
           NEW m \in Masters, NEW k \in SharedLines, NEW c \in Caches, SnoopMaster(m, k, c),
           in_cache(c, k)
    PROVE  Copy(c, k) /\ get_line(c, k).data = Latest(k)
<1>0. k \in Lines /\ c \in Masters /\ CacheTypeOK
  BY CachesAreMasters DEF SharedLines, BaseInv, TypeOK
<1>1. m # c /\ ~write_ongoing(c) /\ Head(overlap[c][k]) = m
  BY <1>0, SnoopMasterParts DEF SnoopMaster, SnoopReady
<1>2. Copy(c, k)
  BY <1>1 DEF Copy, write_ongoing, CopyBackKinds
<1>3. View(c, k) = Latest(k)
  BY <1>2 DEF CopyData
<1>4. \A w \in Words : ~(c \in Applied /\ <<k, w>> \in op[c].rng)
  <2>1. SUFFICES ASSUME NEW w \in Words, c \in Applied, <<k, w>> \in op[c].rng
                 PROVE  FALSE
    OBVIOUS
  <2>2. k \in LinesOf(op[c].rng)
    BY <2>1 DEF LinesOf
  <2>3. StoreTx(tx[c].kind) /\ tx[c].phase = "resp"
    BY <2>1 DEF Applied, StoreTx
  <2>4. IsSnoopingTransaction(tx[c].kind) /\ tx[c].rng = op[c].rng
    BY <1>0, <2>2, <2>3, StoreLines DEF Writes
  <2>5. Answering(c, k)
    BY <2>2, <2>3, <2>4 DEF Answering
  <2>6. Head(overlap[c][k]) = c
    BY <1>0, <2>5 DEF FrontInv
  <2>7. QED
    BY <1>1, <2>6
<1>5. View(c, k) = [w \in Words |-> get_line(c, k).data[w]]
  BY <1>4 DEF View
<1>6. get_line(c, k).data \in LineData
  BY <1>0, SlotOf DEF CacheTypeOK, CacheLine, get_line
<1>7. get_line(c, k).data = [w \in Words |-> get_line(c, k).data[w]]
  BY <1>6 DEF LineData
<1>8. QED
  BY <1>2, <1>3, <1>5, <1>7

\* An answer with data has the data of the line.
LEMMA AnswerData ==
    ASSUME NEW ln, NEW kind, SnoopAnswer(kind, ln).xfer
    PROVE  SnoopAnswer(kind, ln).data = ln.data
  BY DEF SnoopAnswer

\* A snooped copy is what the last stores left, and it is not unique any more.
LEMMA CarrySnoop ==
    ASSUME BaseInv, OverlapInv, RequestInv, FrontInv, CopiesInv, CopyData, CarryInv,
           NEW m \in Masters, NEW k \in Lines, NEW c \in Caches, SnoopMaster(m, k, c),
           latest' = latest
    PROVE  CarryInv'
<1>0. IcnTypeOK
  BY DEF BaseInv, TypeOK
<1>1. SUFFICES ASSUME NEW x \in Masters, NEW l \in SharedLines  PROVE CarryOk(x, l)'
  BY DEF CarryInv, SharedLines
<1>2. l \in Lines /\ CarryOk(x, l) /\ Latest(l)' = Latest(l)
  BY LatestSame DEF SharedLines, CarryInv
<1>3. /\ tx' = tx /\ c \notin snoop[m][k].back
      /\ snoop'[m][k].back = snoop[m][k].back \cup {c}
      /\ snoop'[m][k].ans[c] = IF in_cache(c, k)
                               THEN SnoopAnswer(SnoopOf(tx[m].kind), get_line(c, k))
                               ELSE BlankAnswer
      /\ \A d \in Caches \ {c} : snoop'[m][k].ans[d] = snoop[m][k].ans[d]
      /\ \A y \in Masters, j \in Lines : y # m \/ j # k => snoop'[y][j] = snoop[y][j]
  BY SnoopMasterParts
<1>4. /\ \A d \in Caches, j \in Lines : Degrades(d, j)
      /\ WillHave(c, k)' => ~WillBeUnique(c, k)'
  BY SnoopDegrades
<1>5. \A d \in Caches : WillBeUnique(d, l)' => WillBeUnique(d, l)
  BY <1>2, <1>4 DEF Degrades
<1>6. CASE x # m \/ l # k
  <2>1. CarriesKept(x, l)
    BY <1>2, <1>3, <1>6, CarriesStay, SameStays
  <2>2. QED
    BY <1>2, <1>5, <2>1, CarryKept
<1>7. CASE x = m /\ l = k
  <2>1. PICK a : a = snoop'[m][k].ans[c]
    OBVIOUS
  <2>2. snoop'[m][k].exec = snoop[m][k].exec /\ snoop'[m][k].data = snoop[m][k].data
    BY <1>0 DEF SnoopMaster, SnoopAnswered, IcnTypeOK, Snoop
  <2>3. a.xfer => in_cache(c, k)
    BY <1>3, <2>1 DEF BlankAnswer
  <2>4. a.xfer => a.data = Latest(k) /\ Copy(c, k)
    BY <1>3, <1>7, <2>1, <2>3, AnswerData, SnoopedCopy
  <2>5. snoop[m][k].back \subseteq Caches
    BY <1>0 DEF IcnTypeOK, Snoop
  <2>6. \A e \in snoop[m][k].back : snoop'[m][k].ans[e] = snoop[m][k].ans[e]
    BY <1>3, <2>5
  <2>7. \A e \in snoop'[m][k].back : snoop'[m][k].ans[e].xfer => snoop'[m][k].ans[e].data = Latest(k)'
    BY <1>2, <1>3, <1>7, <2>1, <2>4, <2>6 DEF CarryOk
  <2>8. (Merged(m, k)' <=> Merged(m, k)) /\ (Cleaning(m, k)' <=> Cleaning(m, k))
    BY <1>3, <2>2 DEF Merged, Cleaning
  <2>9. Brought(m, k)' => Brought(m, k) \/ a.xfer
    BY <1>3, <2>1, <2>6 DEF Brought
  <2>10. Carries(m, k)' => Carries(m, k) \/ a.xfer
    BY <2>8, <2>9 DEF Carries
  <2>11. ASSUME NEW d \in Caches, a.xfer  PROVE ~WillBeUnique(d, k)'
    <3>1. WillHave(c, k)
      BY <2>4, <2>11 DEF WillHave
    <3>2. CASE d = c
      BY <1>4, <3>2 DEF WillBeUnique, WillHave
    <3>3. CASE d # c
      <4>1. ~WillBeUnique(d, k)
        BY <3>1, <3>3 DEF CopiesInv
      <4>2. QED
        BY <1>5, <1>7, <4>1
    <3>4. QED
      BY <3>2, <3>3
  <2>12. Carries(m, k)' => \A d \in Caches : ~WillBeUnique(d, k)'
    BY <1>2, <1>5, <1>7, <2>10, <2>11 DEF CarryOk
  <2>13. Merged(m, k)' => ToLine(tx[m].data, k)' = Latest(k)'
    BY <1>2, <1>3, <1>7, <2>8 DEF CarryOk, ToLine
  <2>14. Cleaning(m, k)' => snoop'[m][k].data = Latest(k)'
    BY <1>2, <1>7, <2>2, <2>8 DEF CarryOk
  <2>15. QED
    BY <1>7, <2>7, <2>12, <2>13, <2>14 DEF CarryOk
<1>8. QED
  BY <1>6, <1>7

\* Every step keeps CarryInv.
LEMMA CarryStep ==
    ASSUME BaseInv, BaseInv', ExclusiveInv, OverlapInv, RequestInv, LinesInv, LinesDisjoint,
           ExecFifo, FrontInv, OkInv, CopiesInv, CopyData, CarryInv, NothingDiscarded, [Next]_vars
    PROVE  CarryInv'
<1>1. ASSUME NEW c \in Caches, NEW o, NEW r, CacheData(c, o, r)  PROVE CarryInv'
  BY <1>1, CarryTurn
<1>2. ASSUME NEW m \in Masters \ Caches, LiteData(m)  PROVE CarryInv'
  BY <1>2, CarryLite
<1>3. ASSUME NEW m \in Masters, NEW l \in Lines, NEW c \in Caches, SnoopMaster(m, l, c),
             latest' = latest
      PROVE  CarryInv'
  BY <1>3, CarrySnoop
<1>4. CASE IcnData
  BY <1>4, CarryIcn
<1>5. QED
  BY <1>1, <1>2, <1>3, <1>4, DataKinds

(***************************************************************************)
(* What the interconnect does to memory and to the payloads.               *)
(***************************************************************************)
FillData == \A c \in Caches, l \in SharedLines :
    Fills(c, l) /\ tx[c].kind # "MakeUnique" => ToLine(tx[c].data, l) = Latest(l)

\* A copyback of line l by cache c is under way.
WritesBack(c, l) == tx[c].kind \in {"WriteBack", "WriteClean"} /\ l \in LinesOf(tx[c].rng)

\* A line is written back as the last stores left it.
BackData == \A c \in Caches, l \in SharedLines :
    WritesBack(c, l) => IF tx[c].phase = "resp" THEN InMemory(l)
                                                ELSE ToLine(tx[c].data, l) = Latest(l)

\* The line written back is still held.
LEMMA BackCopy ==
    ASSUME BaseInv, NEW c \in Caches, NEW l, WritesBack(c, l)
    PROVE  /\ Copy(c, l) /\ get_line(c, l) = LineIn(c) /\ tx[c].rng = LineAddr(l)
           /\ LineIn(c).tag = l /\ l \in Lines
<1>0. AccessInv /\ SlotInv /\ CacheTypeOK /\ c \in Masters
  BY CachesAreMasters DEF BaseInv, TypeOK
<1>1. tx[c].kind \in CopyBackKinds /\ tx[c].kind # "none" /\ tx[c].kind # "Evict"
  BY DEF WritesBack, CopyBackKinds
<1>2. AsksRight(c) /\ op[c] \in Op
  BY <1>0, <1>1, AccessParts
<1>3. LineIn(c).valid /\ tx[c].rng = LineAddr(LineIn(c).tag)
  BY <1>1, <1>2 DEF AsksRight, PayloadRange
<1>4. LineOf(op[c]) \in Lines /\ Index[LineOf(op[c])] \in Slots
  BY <1>2, AccessFacts, SlotOf
<1>5. LineIn(c).tag \in Lines /\ Index[LineIn(c).tag] = Index[LineOf(op[c])]
  BY <1>0, <1>3, <1>4 DEF LineIn, get_line, CacheTypeOK, CacheLine, SlotInv
<1>6. l = LineIn(c).tag
  BY <1>3, <1>5, LineAddrFacts DEF WritesBack
<1>7. get_line(c, l) = LineIn(c)
  BY <1>5, <1>6 DEF LineIn, get_line
<1>8. QED
  BY <1>1, <1>3, <1>5, <1>6, <1>7 DEF Copy, in_cache, Holds

\* Transactions are done by their last line, or by the downstream port.
LEMMA DoneIs ==
    ASSUME BaseInv, IcnData, NEW c \in Masters, c \in Ongoing, tx'[c].phase = "resp"
    PROVE  \/ OwnDone(c)
           \/ /\ latest' = latest
              /\ \E k \in Lines : LineDone(c, k) /\ (memory' = memory \/ snoop[c][k].exec)
<1>0. tx[c].phase \in {"engine", "snoop", "ds"}
  BY DEF Ongoing
<1>1. ~Stays(c)
  BY <1>0 DEF Stays
<1>2. ASSUME NEW m \in Masters, Accept(m)  PROVE FALSE
  <2>1. OthersStay(m) /\ tx[m].phase = "req"
    BY <1>2, AcceptData
  <2>2. QED
    BY <1>0, <1>1, <2>1 DEF OthersStay
<1>3. ASSUME NEW m \in Masters, EngineSnoop(m)  PROVE FALSE
  <2>1. OthersStay(m) /\ tx'[m].phase = "snoop"
    BY <1>3, EngineData
  <2>2. QED
    BY <1>1, <2>1 DEF OthersStay
<1>4. ASSUME NEW m \in Masters, NEW k \in Lines, NEW d \in Caches, PortDone(m, k, d)  PROVE FALSE
  <2>1. OthersStay(m) /\ tx'[m].phase = "snoop"
    BY <1>4, PortData
  <2>2. QED
    BY <1>1, <2>1 DEF OthersStay
<1>5. ASSUME NEW m \in Masters, NEW k \in Lines, LineDone(m, k)  PROVE m = c
  BY <1>1, <1>5 DEF LineDone, OthersStay
<1>6. ASSUME NEW m \in Masters, OwnDone(m)  PROVE m = c
  BY <1>1, <1>6 DEF OwnDone, OthersStay
<1>7. tx' # tx
  BY <1>0
<1>8. QED
  BY <1>2, <1>3, <1>4, <1>5, <1>6, <1>7 DEF IcnData

\* A store has taken effect downstream just when its response is on its way.
LEMMA AppliedIcn ==
    ASSUME BaseInv, OkInv, IcnData, NEW c \in Masters
    PROVE  c \in Applied' <=> c \in Applied \/ (OwnDone(c) /\ StoreTx(tx[c].kind)
                                                /\ op[c].kind \in StoreKinds)
<1>0. op' = op /\ Moves(c)
  BY IcnMoves DEF IcnData, cacheVars
<1>1. ASSUME c \in Applied  PROVE c \in Applied'
  <2>1. tx'[c].phase = "resp" /\ tx'[c].kind = tx[c].kind
    BY <1>0, <1>1 DEF Applied, Moves, Stays
  <2>2. QED
    BY <1>0, <1>1, <2>1 DEF Applied
<1>2. ASSUME OwnDone(c), StoreTx(tx[c].kind), op[c].kind \in StoreKinds  PROVE c \in Applied'
  BY <1>0, <1>2 DEF Applied, OwnDone, StoreTx
<1>3. ASSUME c \in Applied', c \notin Applied
      PROVE  OwnDone(c) /\ StoreTx(tx[c].kind) /\ op[c].kind \in StoreKinds
  <2>1. StoreTx(tx[c].kind) /\ op[c].kind \in StoreKinds /\ tx'[c].phase = "resp"
        /\ tx[c].phase # "resp"
    BY <1>0, <1>3 DEF Applied, Moves, StoreTx
  <2>2. tx[c].kind # "Evict"
    BY <2>1 DEF StoreTx, UniqueWriteKinds
  <2>3. c \in Ongoing
    BY <1>0, <2>1, <2>2 DEF Moves
  <2>4. ASSUME NEW k \in Lines, LineDone(c, k)  PROVE FALSE
    <3>1. tx[c].phase = "snoop"
      BY <2>4, LineDoneOngoing
    <3>2. IsSnoopingTransaction(tx[c].kind)
      BY <3>1 DEF BaseInv, WorkInv, PhaseInv, PhaseOk
    <3>3. tx[c].kind \in UniqueWriteKinds
      BY <2>1, <3>2, KindClasses DEF StoreTx, IsSnoopingTransaction, ReadKinds, CleanKinds, CmoKinds
    <3>4. tx[c].kind # "ReadOnce" /\ ~tx[c].ok
      BY <3>1, <3>3 DEF UniqueWriteKinds, OkInv, OkOk
    <3>5. tx[c].ok
      BY <2>1, <2>4, <3>4 DEF LineDone
    <3>6. QED
      BY <3>4, <3>5
  <2>5. QED
    BY <2>1, <2>3, <2>4, DoneIs
<1>4. QED
  BY <1>1, <1>2, <1>3

\* Writing back what snoops have brought makes memory right,
LEMMA LineMemory ==
    ASSUME BaseInv, CarryInv, NEW m \in Masters, NEW k \in Lines, LineDone(m, k),
           memory' = memory \/ snoop[m][k].exec, latest' = latest, NEW l \in SharedLines,
           InMemory(l) \/ (l = k /\ Cleaning(m, k))
    PROVE  InMemory(l)'
<1>0. IcnTypeOK /\ l \in Lines
  BY DEF BaseInv, TypeOK, SharedLines
<1>1. CASE memory' = memory /\ (tx[m].kind = "ReadOnce" \/ ~snoop[m][k].exec)
  BY <1>1 DEF Cleaning, InMemory, ToLine
<1>2. CASE /\ tx[m].kind # "ReadOnce"
           /\ memory' = [a \in Addr |-> IF a[1] = k THEN snoop[m][k].data[a[2]] ELSE memory[a]]
  <2>1. CASE l # k
    <3>1. \A w \in Words : memory'[<<l, w>>] = memory[<<l, w>>]
      BY <1>0, <1>2, <2>1 DEF Addr
    <3>2. QED
      BY <2>1, <3>1 DEF InMemory, ToLine
  <2>2. CASE l = k /\ ~snoop[m][k].exec
    BY <2>2 DEF InMemory, ToLine, Cleaning
  <2>3. CASE l = k /\ snoop[m][k].exec
    <3>1. snoop[m][k].data = Latest(l)
      BY <1>2, <2>3 DEF CarryInv, CarryOk, Cleaning
    <3>2. \A w \in Words : memory'[<<l, w>>] = snoop[m][k].data[w]
      BY <1>0, <1>2, <2>3 DEF Addr
    <3>3. \A w \in Words : memory'[<<l, w>>] = latest'[<<l, w>>]
      BY <3>1, <3>2 DEF Latest, ToLine
    <3>4. QED
      BY <3>3 DEF InMemory, ToLine
  <2>4. QED
    BY <2>1, <2>2, <2>3
<1>3. QED
  BY <1>1, <1>2 DEF LineDone

\* and so does a copyback.
LEMMA OwnMemory ==
    ASSUME BaseInv, BackData, NEW m \in Masters, OwnDone(m), ~StoreTx(tx[m].kind),
           latest' = latest, NEW l \in SharedLines, InMemory(l) \/ WritesBack(m, l)
    PROVE  InMemory(l)'
<1>0. IcnTypeOK /\ AccessInv /\ l \in Lines
  BY DEF BaseInv, TypeOK, SharedLines
<1>1. CASE ~IsWriteTx(tx[m].kind)
  BY <1>1 DEF OwnDone, InMemory, ToLine, WritesBack, IsWriteTx
<1>2. CASE IsWriteTx(tx[m].kind)
  <2>1. memory' = [a \in Addr |-> IF a \in tx[m].rng THEN tx[m].data[a] ELSE memory[a]]
    BY <1>2 DEF OwnDone
  <2>2. tx[m].kind \in {"WriteBack", "WriteClean"}
    BY <1>2 DEF IsWriteTx, StoreTx
  <2>3. m \in Caches
    BY <1>0, <2>2, AccessParts DEF CopyBackKinds
  <2>4. CASE l \in LinesOf(tx[m].rng)
    <3>1. WritesBack(m, l) /\ tx[m].rng = LineAddr(l)
      BY <2>2, <2>3, <2>4, BackCopy DEF WritesBack
    <3>2. ToLine(tx[m].data, l) = Latest(l)
      BY <2>3, <3>1 DEF BackData, OwnDone
    <3>3. \A w \in Words : memory'[<<l, w>>] = tx[m].data[<<l, w>>]
      BY <1>0, <2>1, <3>1 DEF Addr, LineAddr
    <3>4. \A w \in Words : tx[m].data[<<l, w>>] = latest[<<l, w>>]
      BY <3>2 DEF Latest, ToLine
    <3>5. QED
      BY <3>3, <3>4 DEF InMemory, ToLine
  <2>5. CASE l \notin LinesOf(tx[m].rng)
    <3>1. \A w \in Words : <<l, w>> \in Addr /\ <<l, w>> \notin tx[m].rng
      BY <1>0, <2>5 DEF Addr, LinesOf
    <3>2. \A w \in Words : memory'[<<l, w>>] = memory[<<l, w>>]
      BY <2>1, <3>1
    <3>3. QED
      BY <2>5, <3>2 DEF InMemory, ToLine, WritesBack
  <2>6. QED
    BY <2>4, <2>5
<1>3. QED
  BY <1>1, <1>2

\* The data that memory lacks is on its way with the transaction of m.
DirtyUnderWay(m, l) ==
    /\ tx[m].phase \in {"snoop", "ds"} /\ l \in LinesOf(tx[m].rng)
    /\ \/ tx[m].kind \in {"MakeUnique", "WriteLineUnique"}
       \/ tx[m].dirty
       \/ Cleaning(m, l)
       \/ \E e \in snoop[m][l].back : snoop[m][l].ans[e].xfer /\ snoop[m][l].ans[e].dirty

\* The last values of line l are in memory, in a dirty copy, or under way.
MemoryOk(l) ==
    \/ InMemory(l)
    \/ \E c \in Caches : WillBeDirty(c, l)
    \/ \E m \in Masters : DirtyUnderWay(m, l)

\* What memory lacks a cache is to write back, or it is under way.
MemoryInv == \A l \in SharedLines : MemoryOk(l)

\* Dirty data is under way only with an ongoing snooping transaction.
LEMMA UnderWayBusy ==
    ASSUME BaseInv, OkInv, NEW m \in Masters, NEW l \in Lines, DirtyUnderWay(m, l)
    PROVE  m \in Ongoing /\ IsSnoopingTransaction(tx[m].kind) /\ l \in LinesOf(tx[m].rng)
<1>1. m \in Ongoing /\ l \in LinesOf(tx[m].rng)
  BY DEF DirtyUnderWay, Ongoing
<1>2. CASE tx[m].kind \in {"MakeUnique", "WriteLineUnique"}
  BY <1>1, <1>2 DEF IsSnoopingTransaction, CleanKinds, UniqueWriteKinds
<1>3. CASE tx[m].dirty
  BY <1>1, <1>3 DEF OkInv, OkOk, AllowPassDirty, IsSnoopingTransaction, ReadKinds
<1>4. CASE Cleaning(m, l)
  BY <1>4, CarriesBusy DEF Carries
<1>5. CASE \E e \in snoop[m][l].back : snoop[m][l].ans[e].xfer
  BY <1>5, CarriesBusy DEF Carries, Brought
<1>6. QED
  BY <1>2, <1>3, <1>4, <1>5 DEF DirtyUnderWay

\* A store downstream has cleared the line from every other cache.
LEMMA StoreAlone ==
    ASSUME BaseInv, RequestInv, ClearsInv, NEW m \in Masters, OwnDone(m), StoreTx(tx[m].kind),
           NEW l \in SharedLines, l \in LinesOf(op[m].rng)
    PROVE  /\ tx[m].kind \in UniqueWriteKinds /\ l \in LinesOf(tx[m].rng)
           /\ \A d \in Caches \ {m} : ~WillHave(d, l)
<1>0. l \in Lines /\ tx[m].phase = "ds"
  BY DEF SharedLines, OwnDone
<1>1. tx[m].kind \in UniqueWriteKinds /\ l \in LinesOf(tx[m].rng)
  BY StoreLines DEF Writes
<1>2. snoop[m][l].sent = {}
  BY <1>0, NoAnswers
<1>3. \A d \in Caches \ {m} : ~WillHave(d, l)
  BY <1>0, <1>1, <1>2 DEF ClearsInv, ClearsOk
<1>4. QED
  BY <1>1, <1>3

\* The interconnect changes the last values only by a store downstream.
LEMMA LatestIcn ==
    ASSUME BaseInv, RequestInv, ClearsInv, IcnData, NEW l \in SharedLines
    PROVE  \/ Latest(l)' = Latest(l)
           \/ \E m \in Masters :
                 /\ OwnDone(m) /\ StoreTx(tx[m].kind) /\ latest' = Stored(op[m])
                 /\ l \in LinesOf(op[m].rng)
<1>0. l \in Lines
  BY DEF SharedLines
<1>1. CASE latest' = latest
  BY <1>1, LatestSame
<1>2. ASSUME NEW m \in Masters, OwnDone(m), StoreTx(tx[m].kind), latest' = Stored(op[m])
      PROVE  Latest(l)' = Latest(l) \/ l \in LinesOf(op[m].rng)
  BY <1>0, <1>2, StoreLines, StoredElsewhere
<1>3. QED
  BY <1>1, <1>2 DEF IcnData

\* What the downstream port fetches to fill a line is up to date.
LEMMA FetchFinds ==
    ASSUME BaseInv, RequestInv, OkInv, GrantInv, LinesDisjoint, MemoryInv,
           NEW c \in Caches, NEW l \in SharedLines, tx[c].phase = "ds",
           tx[c].kind \in ReadKinds \ {"ReadOnce"}, l \in LinesOf(tx[c].rng)
    PROVE  InMemory(l)
<1>0. l \in Lines /\ c \in Masters /\ AccessInv
  BY CachesAreMasters DEF SharedLines, BaseInv
<1>1. tx[c].kind \in FillKinds /\ IsSnoopingTransaction(tx[c].kind)
      /\ tx[c].kind \notin {"MakeUnique", "WriteLineUnique"}
  BY DEF FillKinds, IsSnoopingTransaction, ReadKinds
<1>2. snoop[c][l].sent = {} /\ snoop[c][l].back = {} /\ ~snoop[c][l].exec
  BY <1>0, NoAnswers
<1>3. ~tx[c].shared /\ ~tx[c].dirty
  BY <1>0, <1>1 DEF OkInv, OkOk
<1>4. ASSUME NEW d \in Caches  PROVE ~WillBeDirty(d, l)
  <2>1. CASE d = c
    <3>1. LineOf(op[c]) = l
      BY <1>0, ReadsOneLine
    <3>2. tx[c].kind # "none"
      BY <1>1, KindClasses DEF FillKinds, ReadKinds
    <3>3. ~LineIn(c).valid
      BY <1>0, <1>1, <3>2, AccessParts DEF RequestInv, RequestOk
    <3>4. ~Copy(c, l)
      BY <3>1, <3>3 DEF Copy, in_cache, Holds, LineIn
    <3>5. ~Fills(c, l)
      BY DEF Fills, Incoming
    <3>6. QED
      BY <2>1, <3>4, <3>5 DEF WillBeDirty
  <2>2. CASE d # c
    <3>1. Grants(c, l)
      BY <1>0, <1>1 DEF Grants
    <3>2. GrantOk(c, l, d)
      BY <1>0, <2>2, <3>1 DEF GrantInv
    <3>3. ~SharedSeen(c, l)
      BY <1>2, <1>3 DEF SharedSeen
    <3>4. ~WillHave(d, l)
      BY <1>2, <3>2, <3>3 DEF GrantOk
    <3>5. QED
      BY <3>4, WillParts
  <2>3. QED
    BY <2>1, <2>2
<1>5. ASSUME NEW m \in Masters  PROVE ~DirtyUnderWay(m, l)
  <2>1. CASE m = c
    BY <1>1, <1>2, <1>3, <2>1 DEF DirtyUnderWay, Cleaning
  <2>2. CASE m # c
    <3>1. c \in Ongoing
      BY <1>0 DEF Ongoing
    <3>2. QED
      BY <1>0, <1>1, <2>2, <3>1, UnderWayBusy DEF LinesDisjoint
  <2>3. QED
    BY <2>1, <2>2
<1>6. QED
  BY <1>4, <1>5 DEF MemoryInv, MemoryOk

\* A fill gets what snoops have brought, or memory, which is then right.
LEMMA FillIcn ==
    ASSUME BaseInv, RequestInv, OkInv, GrantInv, LinesDisjoint, ClearsInv, CarryInv, MemoryInv,
           FillData, IcnData
    PROVE  FillData'
<1>1. SUFFICES ASSUME NEW c \in Caches, NEW l \in SharedLines, Fills(c, l)', tx'[c].kind # "MakeUnique"
               PROVE  ToLine(tx'[c].data, l) = Latest(l)'
  BY DEF FillData, SharedLines, ToLine
<1>2. l \in Lines /\ c \in Masters /\ Moves(c) /\ AccessInv
  BY CachesAreMasters, IcnMoves DEF SharedLines, BaseInv
<1>3. /\ tx'[c].phase = "resp" /\ tx[c].kind \in FillKinds /\ tx[c].kind # "MakeUnique" /\ IsSnoopingTransaction(tx[c].kind)
      /\ tx[c].rng = LineAddr(l) /\ tx'[c].kind = tx[c].kind
  BY <1>1, <1>2 DEF Fills, Incoming, Moves
<1>4. tx[c].kind \in ReadKinds \ {"ReadOnce"} /\ l \in LinesOf(tx[c].rng) /\ ~StoreTx(tx[c].kind)
  BY <1>2, <1>3, LineAddrFacts, StoreTxIsWrite DEF FillKinds
<1>5. CASE tx[c].phase = "resp"
  <2>1. Stays(c) /\ Fills(c, l)
    BY <1>2, <1>3, <1>5 DEF Moves, Fills, Incoming
  <2>2. ToLine(tx[c].data, l) = Latest(l) /\ tx'[c].data = tx[c].data
    BY <1>3, <2>1 DEF FillData, Stays, SamePayload
  <2>3. Latest(l)' = Latest(l)
    <3>1. SUFFICES ASSUME NEW m \in Masters, OwnDone(m), StoreTx(tx[m].kind),
                          l \in LinesOf(op[m].rng)
                   PROVE  FALSE
      BY LatestIcn
    <3>2. c # m
      BY <1>4, <3>1
    <3>3. ~WillHave(c, l)
      BY <3>1, <3>2, StoreAlone
    <3>4. QED
      BY <2>1, <3>3 DEF WillHave
  <2>4. QED
    BY <2>2, <2>3 DEF ToLine
<1>6. CASE tx[c].phase # "resp"
  <2>1. c \in Ongoing
    BY <1>2, <1>3, <1>4, <1>6 DEF Moves, ReadKinds
  <2>2. Latest(l)' = Latest(l)
    <3>1. SUFFICES ASSUME NEW m \in Masters, OwnDone(m), StoreTx(tx[m].kind)
                   PROVE  FALSE
      BY LatestIcn
    <3>2. c # m
      BY <1>4, <3>1
    <3>3. Stays(c)
      BY <1>2, <3>1, <3>2 DEF OwnDone, OthersStay
    <3>4. QED
      BY <1>3, <1>6, <3>3 DEF Stays
  <2>3. ASSUME NEW k \in Lines, LineDone(c, k)
        PROVE  ToLine(tx'[c].data, l) = Latest(l)
    <3>1. tx[c].phase = "snoop" /\ tx[c].ok /\ tx'[c].data = tx[c].data
      BY <1>3, <1>4, <2>3, LineDoneOngoing, <1>2 DEF LineDone
    <3>2. Merged(c, l)
      BY <1>4, <3>1 DEF Merged
    <3>3. QED
      BY <1>2, <3>1, <3>2 DEF CarryInv, CarryOk
  <2>4. ASSUME OwnDone(c)
        PROVE  ToLine(tx'[c].data, l) = Latest(l)
    <3>1. InMemory(l)
      BY <1>4, <2>4, FetchFinds DEF OwnDone
    <3>2. tx'[c].data = [a \in tx[c].rng |-> memory[a]]
      BY <1>4, <2>4 DEF OwnDone, IsReadTx
    <3>3. \A w \in Words : tx'[c].data[<<l, w>>] = memory[<<l, w>>]
      BY <1>3, <3>2 DEF LineAddr
    <3>4. QED
      BY <3>1, <3>3 DEF InMemory, Latest, ToLine
  <2>5. QED
    BY <1>2, <1>3, <2>1, <2>2, <2>3, <2>4, DoneIs
<1>7. QED
  BY <1>5, <1>6

\* The downstream port's store is the one that takes effect.
LEMMA StoreIs ==
    ASSUME BaseInv, IcnData, NEW c \in Masters, OwnDone(c)
    PROVE  IF StoreTx(tx[c].kind) THEN latest' = Stored(op[c]) ELSE latest' = latest
<1>0. tx[c].phase = "ds" /\ tx'[c].phase = "resp"
  BY DEF OwnDone
<1>1. ~Stays(c)
  BY <1>0 DEF Stays
<1>2. ASSUME NEW m \in Masters, Accept(m)  PROVE FALSE
  BY <1>0, <1>1, <1>2, AcceptData DEF OthersStay
<1>3. ASSUME NEW m \in Masters, EngineSnoop(m)  PROVE FALSE
  BY <1>0, <1>1, <1>3, EngineData DEF OthersStay
<1>4. ASSUME NEW m \in Masters, NEW k \in Lines, NEW d \in Caches, PortDone(m, k, d)  PROVE FALSE
  BY <1>0, <1>1, <1>4, PortData DEF OthersStay
<1>5. ASSUME NEW m \in Masters, NEW k \in Lines, LineDone(m, k)  PROVE FALSE
  BY <1>0, <1>1, <1>5, LineDoneOngoing DEF LineDone, OthersStay
<1>6. ASSUME NEW m \in Masters, OwnDone(m)  PROVE m = c
  BY <1>1, <1>6 DEF OwnDone, OthersStay
<1>7. tx' # tx
  BY <1>0
<1>8. QED
  BY <1>2, <1>3, <1>4, <1>5, <1>6, <1>7 DEF IcnData

\* A store downstream leaves memory right, if it was or if all is overwritten.
LEMMA StoreMemory ==
    ASSUME BaseInv, RequestInv, NEW m \in Masters, OwnDone(m), StoreTx(tx[m].kind),
           latest' = Stored(op[m]), NEW l \in SharedLines,
           InMemory(l) \/ \A w \in Words : <<l, w>> \in op[m].rng
    PROVE  InMemory(l)'
<1>0. l \in Lines /\ \A w \in Words : <<l, w>> \in Addr
  BY DEF SharedLines, Addr
<1>1. IsWriteTx(tx[m].kind) /\ Writes(m)
  BY StoreLines, StoreTxIsWrite
<1>2. memory' = [a \in Addr |-> IF a \in tx[m].rng THEN tx[m].data[a] ELSE memory[a]]
  BY <1>1 DEF OwnDone
<1>3. \A w \in Words : memory'[<<l, w>>] =
         IF <<l, w>> \in op[m].rng THEN op[m].val ELSE memory[<<l, w>>]
  BY <1>0, <1>1, <1>2 DEF Writes
<1>4. \A w \in Words : latest'[<<l, w>>] =
         IF <<l, w>> \in op[m].rng THEN op[m].val ELSE latest[<<l, w>>]
  BY <1>0 DEF Stored
<1>5. CASE InMemory(l)
  <2>1. \A w \in Words : memory[<<l, w>>] = latest[<<l, w>>]
    BY <1>5 DEF InMemory, ToLine
  <2>2. QED
    BY <1>3, <1>4, <2>1 DEF InMemory, ToLine
<1>6. CASE \A w \in Words : <<l, w>> \in op[m].rng
  BY <1>3, <1>4, <1>6 DEF InMemory, ToLine
<1>7. QED
  BY <1>5, <1>6

\* Memory once right stays so under the interconnect.
LEMMA MemoryStays ==
    ASSUME BaseInv, RequestInv, CarryInv, BackData, IcnData, NEW l \in SharedLines, InMemory(l)
    PROVE  InMemory(l)'
<1>1. ASSUME latest' = latest, memory' = memory  PROVE InMemory(l)'
  BY <1>1 DEF InMemory, ToLine
<1>2. ASSUME NEW m \in Masters, Accept(m)  PROVE memory' = memory
  BY <1>2, AcceptData
<1>3. ASSUME NEW m \in Masters, EngineSnoop(m)  PROVE memory' = memory
  BY <1>3, EngineData
<1>4. ASSUME NEW m \in Masters, NEW k \in Lines, NEW d \in Caches, PortDone(m, k, d)
      PROVE  memory' = memory
  BY <1>4, PortData
<1>5. ASSUME NEW m \in Masters, NEW k \in Lines, LineDone(m, k), latest' = latest,
             memory' = memory \/ snoop[m][k].exec
      PROVE  InMemory(l)'
  BY <1>5, LineMemory
<1>6. ASSUME NEW m \in Masters, OwnDone(m), ~StoreTx(tx[m].kind), latest' = latest
      PROVE  InMemory(l)'
  BY <1>6, OwnMemory
<1>7. ASSUME NEW m \in Masters, OwnDone(m), StoreTx(tx[m].kind), latest' = Stored(op[m])
      PROVE  InMemory(l)'
  BY <1>7, StoreMemory
<1>8. QED
  BY <1>1, <1>2, <1>3, <1>4, <1>5, <1>6, <1>7 DEF IcnData

\* What another cache has stored downstream is not held here.
LEMMA HeldSame ==
    ASSUME BaseInv, RequestInv, ClearsInv, IcnData, NEW c \in Caches, NEW l \in SharedLines,
           WillHave(c, l), ~(OwnDone(c) /\ StoreTx(tx[c].kind))
    PROVE  Latest(l)' = Latest(l)
<1>1. SUFFICES ASSUME NEW m \in Masters, OwnDone(m), StoreTx(tx[m].kind),
                      l \in LinesOf(op[m].rng)
               PROVE  FALSE
  BY LatestIcn
<1>2. c # m
  BY <1>1
<1>3. QED
  BY <1>1, <1>2, StoreAlone

\* The interconnect keeps CopyData,
LEMMA CopyIcn ==
    ASSUME BaseInv, RequestInv, OkInv, ClearsInv, CopyData, IcnData
    PROVE  CopyData'
<1>1. SUFFICES ASSUME NEW c \in Caches, NEW l \in SharedLines, Copy(c, l)'
               PROVE  View(c, l)' = Latest(l)'
  BY DEF CopyData, SharedLines
<1>2. l \in Lines /\ c \in Masters /\ op' = op
  BY CachesAreMasters DEF SharedLines, IcnData, cacheVars
<1>3. Copy(c, l) /\ get_line(c, l)' = get_line(c, l)
  BY <1>1, <1>2, IcnViews
<1>4. View(c, l) = Latest(l)
  BY <1>3 DEF CopyData
<1>5. CASE OwnDone(c) /\ StoreTx(tx[c].kind)
  <2>1. latest' = Stored(op[c]) /\ Writes(c)
    BY <1>2, <1>5, StoreIs, StoreLines
  <2>2. c \in Applied'
    BY <1>2, <1>5, <2>1, AppliedIcn DEF Writes
  <2>3. c \notin Applied
    BY <1>5 DEF OwnDone, Applied
  <2>4. \A w \in Words : get_line(c, l).data[w] = latest[<<l, w>>]
    BY <1>4, <2>3 DEF View, Latest, ToLine
  <2>5. \A w \in Words : <<l, w>> \in Addr
    BY <1>2 DEF Addr
  <2>6. \A w \in Words : latest'[<<l, w>>] =
           IF <<l, w>> \in op[c].rng THEN op[c].val ELSE get_line(c, l).data[w]
    BY <2>1, <2>4, <2>5 DEF Stored
  <2>7. View(c, l)' = [w \in Words |-> IF <<l, w>> \in op[c].rng THEN op[c].val
                                                                  ELSE get_line(c, l).data[w]]
    BY <1>2, <1>3, <2>2 DEF View
  <2>8. QED
    BY <2>6, <2>7 DEF Latest, ToLine
<1>6. CASE ~(OwnDone(c) /\ StoreTx(tx[c].kind))
  <2>1. c \in Applied' <=> c \in Applied
    BY <1>2, <1>6, AppliedIcn
  <2>2. View(c, l)' = View(c, l)
    BY <1>2, <1>3, <2>1 DEF View
  <2>3. Latest(l)' = Latest(l)
    BY <1>3, <1>6, HeldSame DEF WillHave
  <2>4. QED
    BY <1>4, <2>2, <2>3
<1>7. QED
  BY <1>5, <1>6

\* The payload of a copyback is what it was until it is done.
LEMMA PayloadStays ==
    ASSUME BaseInv, IcnData, NEW c \in Caches, tx[c].kind \in {"WriteBack", "WriteClean"},
           tx'[c].phase # "resp"
    PROVE  tx'[c].data = tx[c].data
<1>0. c \in Masters /\ tx[c].kind # "ReadOnce" /\ tx[c].kind \notin ReadKinds
  BY CachesAreMasters DEF ReadKinds
<1>1. Stays(c) => tx'[c].data = tx[c].data
  BY DEF Stays, SamePayload
<1>2. ASSUME NEW m \in Masters, Accept(m)  PROVE tx'[c].data = tx[c].data
  BY <1>0, <1>1, <1>2, AcceptData DEF OthersStay
<1>3. ASSUME NEW m \in Masters, EngineSnoop(m)  PROVE tx'[c].data = tx[c].data
  BY <1>0, <1>1, <1>3, EngineData DEF OthersStay, SamePayload
<1>4. ASSUME NEW m \in Masters, NEW k \in Lines, NEW d \in Caches, PortDone(m, k, d)
      PROVE  tx'[c].data = tx[c].data
  <2>1. CASE m = c
    BY <1>0, <1>4, <2>1, PortData
  <2>2. CASE m # c
    BY <1>0, <1>1, <1>4, <2>2, PortData DEF OthersStay
  <2>3. QED
    BY <2>1, <2>2
<1>5. ASSUME NEW m \in Masters, NEW k \in Lines, LineDone(m, k)  PROVE tx'[c].data = tx[c].data
  BY <1>0, <1>1, <1>5 DEF LineDone, OthersStay
<1>6. ASSUME NEW m \in Masters, OwnDone(m)  PROVE tx'[c].data = tx[c].data
  BY <1>0, <1>1, <1>6 DEF OwnDone, OthersStay
<1>7. QED
  BY <1>2, <1>3, <1>4, <1>5, <1>6 DEF IcnData

\* and BackData.
LEMMA BackIcn ==
    ASSUME BaseInv, RequestInv, ClearsInv, CarryInv, BackData, IcnData
    PROVE  BackData'
<1>1. SUFFICES ASSUME NEW c \in Caches, NEW l \in SharedLines, WritesBack(c, l)'
               PROVE  IF tx'[c].phase = "resp" THEN InMemory(l)'
                                               ELSE ToLine(tx'[c].data, l) = Latest(l)'
  BY DEF BackData, SharedLines, ToLine
<1>2. c \in Masters /\ Moves(c)
  BY CachesAreMasters, IcnMoves
<1>3. WritesBack(c, l)
  BY <1>1, <1>2 DEF WritesBack, Moves
<1>4. tx[c].kind \in {"WriteBack", "WriteClean"} /\ ~StoreTx(tx[c].kind)
      /\ ~IsSnoopingTransaction(tx[c].kind) /\ tx[c].kind # "Evict"
  BY <1>3 DEF WritesBack, StoreTx, UniqueWriteKinds, IsSnoopingTransaction, ReadKinds, CleanKinds,
              CmoKinds
<1>5. Latest(l)' = Latest(l)
  BY <1>3, <1>4, BackCopy, HeldSame DEF WillHave
<1>6. CASE tx'[c].phase # "resp"
  <2>1. tx[c].phase # "resp"
    BY <1>2, <1>6 DEF Moves, Stays
  <2>2. ToLine(tx[c].data, l) = Latest(l)
    BY <1>3, <2>1 DEF BackData
  <2>3. QED
    BY <1>4, <1>5, <1>6, <2>2, PayloadStays
<1>7. CASE tx'[c].phase = "resp" /\ tx[c].phase = "resp"
  BY <1>3, <1>7, MemoryStays DEF BackData
<1>8. CASE tx'[c].phase = "resp" /\ tx[c].phase # "resp"
  <2>1. c \in Ongoing
    BY <1>2, <1>4, <1>8 DEF Moves
  <2>2. ASSUME NEW k \in Lines, LineDone(c, k)  PROVE FALSE
    <3>1. tx[c].phase = "snoop"
      BY <1>2, <2>2, LineDoneOngoing
    <3>2. QED
      BY <1>2, <1>4, <3>1 DEF BaseInv, WorkInv, PhaseInv, PhaseOk
  <2>3. OwnDone(c)
    BY <1>2, <1>8, <2>1, <2>2, DoneIs
  <2>4. latest' = latest
    BY <1>2, <1>4, <2>3, StoreIs
  <2>5. QED
    BY <1>2, <1>3, <1>4, <1>8, <2>3, <2>4, OwnMemory
<1>9. QED
  BY <1>6, <1>7, <1>8

\* A snooping transaction that is not segmented has one line.
LEMMA OwnLineOnly ==
    ASSUME BaseInv, NEW m \in Masters, IsSnoopingTransaction(tx[m].kind), ~Segmented(tx[m].kind)
    PROVE  /\ m \in Caches
           /\ \A j \in LinesOf(tx[m].rng) : j = LineOf(op[m])
<1>0. AccessInv
  BY DEF BaseInv
<1>1. tx[m].kind # "none"
  BY DEF IsSnoopingTransaction, ReadKinds, CleanKinds, CmoKinds, UniqueWriteKinds
<1>2. op[m] \in Op /\ op[m] # NoOp /\ Asks(m)
  BY <1>0, <1>1, AccessParts
<1>3. m \in Caches
  BY <1>2 DEF Asks, Segmented, Masters
<1>4. op[m].rng \subseteq LineAddr(LineOf(op[m]))
  BY <1>0, <1>2, <1>3, OpFacts DEF AccessInv, Asks
<1>5. tx[m].kind \notin CopyBackKinds
  BY KindClasses DEF IsSnoopingTransaction, ReadKinds, CleanKinds, CmoKinds, UniqueWriteKinds
<1>6. tx[m].rng = op[m].rng \/ tx[m].rng = LineAddr(LineOf(op[m]))
  BY <1>1, <1>2, <1>3, <1>5 DEF Asks, AsksRight, PayloadRange
<1>7. tx[m].rng \subseteq LineAddr(LineOf(op[m]))
  BY <1>4, <1>6
<1>8. \A j \in LinesOf(tx[m].rng) : j = LineOf(op[m])
  BY <1>7 DEF LinesOf, LineAddr
<1>9. QED
  BY <1>3, <1>8

\* Dirty data stays under way while its transaction stays,
LEMMA UnderWayKept ==
    ASSUME NEW m, NEW l, Stays(m), snoop'[m][l] = snoop[m][l], DirtyUnderWay(m, l)
    PROVE  DirtyUnderWay(m, l)'
<1>1. tx'[m].phase = tx[m].phase /\ SamePayload(tx'[m], tx[m])
  BY DEF Stays, DirtyUnderWay
<1>2. tx'[m].kind = tx[m].kind /\ tx'[m].rng = tx[m].rng /\ tx'[m].dirty = tx[m].dirty
  BY <1>1 DEF SamePayload
<1>3. Cleaning(m, l)' <=> Cleaning(m, l)
  BY <1>2 DEF Cleaning
<1>4. QED
  BY <1>1, <1>2, <1>3 DEF DirtyUnderWay

\* The response makes the cache responsible.
LEMMA UnderWayEnds ==
    ASSUME BaseInv, OkInv, NEW m \in Masters, NEW l \in Lines, l \in LinesOf(tx[m].rng),
           tx[m].kind = "MakeUnique" \/ tx[m].dirty, tx'[m].phase = "resp",
           tx'[m].kind = tx[m].kind, tx'[m].rng = tx[m].rng, tx'[m].dirty = tx[m].dirty
    PROVE  m \in Caches /\ WillBeDirty(m, l)'
<1>0. AccessInv
  BY DEF BaseInv
<1>1. /\ tx[m].kind \in FillKinds /\ tx[m].kind # "ReadClean"
      /\ IsSnoopingTransaction(tx[m].kind) /\ ~Segmented(tx[m].kind)
  <2>1. tx[m].kind = "MakeUnique" \/ AllowPassDirty(tx[m].kind)
    BY DEF OkInv, OkOk
  <2>2. QED
    BY <2>1 DEF AllowPassDirty, FillKinds, ReadKinds, IsSnoopingTransaction, CleanKinds, Segmented
<1>2. m \in Caches /\ l = LineOf(op[m])
  BY <1>1, OwnLineOnly
<1>3. tx[m].kind # "none" /\ tx[m].kind \notin CopyBackKinds \cup UniqueWriteKinds \cup NoSnoopKinds
  BY <1>1, KindClasses DEF TxKinds
<1>4. AsksRight(m)
  BY <1>0, <1>2, <1>3, AccessParts
<1>5. tx[m].rng = LineAddr(l)
  BY <1>2, <1>3, <1>4 DEF AsksRight, PayloadRange
<1>6. Fills(m, l)'
  BY <1>1, <1>5 DEF Fills, Incoming
<1>7. QED
  BY <1>1, <1>2, <1>6 DEF WillBeDirty

\* A dirty copy, there or on its way, stays one.
LEMMA DirtyIcn ==
    ASSUME BaseInv, IcnData, NEW c \in Caches, NEW l \in Lines, WillBeDirty(c, l)
    PROVE  WillBeDirty(c, l)'
<1>1. Copy(c, l)' = Copy(c, l) /\ get_line(c, l)' = get_line(c, l)
  BY IcnViews
<1>2. CASE Copy(c, l) /\ get_line(c, l).dirty
  BY <1>1, <1>2 DEF WillBeDirty
<1>3. CASE Fills(c, l)
  <2>1. c \notin Ongoing
    BY <1>3 DEF Fills, Incoming, Ongoing
  <2>2. SameView(c, l)
    BY <2>1, IcnViews DEF Done
  <2>3. QED
    BY <2>2 DEF SameView
<1>4. QED
  BY <1>2, <1>3 DEF WillBeDirty

\* reaches memory or the payload when the line is done,
LEMMA UnderWayLine ==
    ASSUME BaseInv, OkInv, CarryInv, NEW m \in Masters, NEW k \in Lines, LineDone(m, k),
           memory' = memory \/ snoop[m][k].exec, latest' = latest,
           NEW l \in SharedLines, DirtyUnderWay(m, l)
    PROVE  MemoryOk(l)'
<1>0. l \in Lines /\ IcnTypeOK /\ PhaseOk(m)
  BY DEF SharedLines, BaseInv, TypeOK, WorkInv, PhaseInv
<1>1. /\ tx[m].phase = "snoop" /\ Quiet(m, k)
      /\ tx'[m].kind = tx[m].kind /\ tx'[m].rng = tx[m].rng /\ tx'[m].dirty = tx[m].dirty
      /\ \/ Left(tx[m], k) # {} /\ tx'[m].phase = "snoop"
         \/ Left(tx[m], k) = {} /\ tx'[m].phase = "ds"
         \/ /\ Left(tx[m], k) = {} /\ tx'[m].phase = "resp"
            /\ tx[m].kind # "ReadOnce" => tx[m].ok
  BY LineDoneOngoing DEF LineDone
<1>2. l # k => snoop'[m][l] = snoop[m][l]
  BY <1>0 DEF LineDone, IcnTypeOK
<1>3. l \in LinesOf(tx[m].rng)
  BY DEF DirtyUnderWay
<1>4. CASE tx[m].kind \in {"MakeUnique", "WriteLineUnique"} \/ tx[m].dirty
  <2>1. CASE tx'[m].phase # "resp"
    <3>1. DirtyUnderWay(m, l)'
      BY <1>1, <1>3, <1>4, <2>1 DEF DirtyUnderWay
    <3>2. QED
      BY <3>1 DEF MemoryOk
  <2>2. CASE tx'[m].phase = "resp"
    <3>1. tx[m].kind # "WriteLineUnique"
      BY <1>1, <2>2 DEF OkInv, OkOk, UniqueWriteKinds
    <3>2. m \in Caches /\ WillBeDirty(m, l)'
      BY <1>0, <1>1, <1>3, <1>4, <2>2, <3>1, UnderWayEnds
    <3>3. QED
      BY <3>2 DEF MemoryOk
  <2>3. QED
    BY <2>1, <2>2
<1>5. CASE l = k /\ Cleaning(m, l)
  BY <1>5, LineMemory DEF MemoryOk
<1>6. CASE /\ l # k
           /\ \/ Cleaning(m, l)
              \/ \E e \in snoop[m][l].back : snoop[m][l].ans[e].xfer /\ snoop[m][l].ans[e].dirty
  <2>1. Active(m, l)
    BY <1>0, <1>6 DEF PhaseOk, Cleaning, NoSnoop
  <2>2. Left(tx[m], k) # {}
    <3>1. CASE Segmented(tx[m].kind)
      BY <1>6, <2>1, <3>1 DEF Left, Active
    <3>2. CASE ~Segmented(tx[m].kind)
      <4>1. k \in LinesOf(tx[m].rng) /\ IsSnoopingTransaction(tx[m].kind)
        BY <1>0, <1>1 DEF PhaseOk, Quiet, Active
      <4>2. QED
        BY <1>3, <1>6, <3>2, <4>1, OwnLineOnly
    <3>3. QED
      BY <3>1, <3>2
  <2>3. tx'[m].phase = "snoop"
    BY <1>1, <2>2
  <2>4. Cleaning(m, l)' <=> Cleaning(m, l)
    BY <1>1, <1>2, <1>6 DEF Cleaning
  <2>5. DirtyUnderWay(m, l)'
    BY <1>1, <1>2, <1>3, <1>6, <2>3, <2>4 DEF DirtyUnderWay
  <2>6. QED
    BY <2>5 DEF MemoryOk
<1>7. l = k => snoop[m][l].back = {}
  BY <1>1 DEF Quiet
<1>8. QED
  BY <1>4, <1>5, <1>6, <1>7 DEF DirtyUnderWay

\* and the cache, or memory, when the transaction itself is done;
LEMMA UnderWayOwn ==
    ASSUME BaseInv, RequestInv, OkInv, NEW m \in Masters, OwnDone(m),
           StoreTx(tx[m].kind) => latest' = Stored(op[m]),
           NEW l \in SharedLines, DirtyUnderWay(m, l)
    PROVE  MemoryOk(l)'
<1>0. l \in Lines
  BY DEF SharedLines
<1>1. /\ tx[m].phase = "ds" /\ tx'[m].phase = "resp" /\ l \in LinesOf(tx[m].rng)
      /\ tx'[m].kind = tx[m].kind /\ tx'[m].rng = tx[m].rng /\ tx'[m].dirty = tx[m].dirty
  BY DEF OwnDone, DirtyUnderWay
<1>2. snoop[m][l].back = {} /\ ~snoop[m][l].exec
  BY <1>0, <1>1, NoAnswers
<1>3. tx[m].kind \in {"MakeUnique", "WriteLineUnique"} \/ tx[m].dirty
  BY <1>2 DEF DirtyUnderWay, Cleaning
<1>4. CASE tx[m].kind = "WriteLineUnique"
  <2>1. StoreTx(tx[m].kind) /\ IsSnoopingTransaction(tx[m].kind) /\ ~Segmented(tx[m].kind)
    BY <1>4, WritesSnoop DEF StoreTx, UniqueWriteKinds, Segmented
  <2>2. m \in Caches /\ l = LineOf(op[m]) /\ op[m] # NoOp
    BY <1>1, <2>1, OwnLineOnly, StoreLines
  <2>3. op[m].rng = LineAddr(l)
    BY <1>4, <2>1, <2>2 DEF RequestInv, RequestOk, Fits, StoreTx, FullLine
  <2>4. InMemory(l)'
    BY <2>1, <2>3, StoreMemory DEF LineAddr
  <2>5. QED
    BY <2>4 DEF MemoryOk
<1>5. CASE tx[m].kind = "MakeUnique" \/ tx[m].dirty
  BY <1>0, <1>1, <1>5, UnderWayEnds DEF MemoryOk
<1>6. QED
  BY <1>3, <1>4, <1>5

\* an answer with it is merged or is to be written back.
LEMMA UnderWayPort ==
    ASSUME BaseInv, AnswerInv, IcnData, NEW m \in Masters, NEW k \in Lines, NEW c \in Caches,
           PortDone(m, k, c), NEW l \in Lines, DirtyUnderWay(m, l)
    PROVE  DirtyUnderWay(m, l)'
<1>0. IcnTypeOK
  BY DEF BaseInv, TypeOK
<1>1. PICK a : a = snoop[m][k].ans[c]
  OBVIOUS
<1>2. /\ c \in snoop[m][k].back /\ tx[m].phase = "snoop" /\ tx'[m].phase = "snoop"
      /\ tx'[m].kind = tx[m].kind /\ tx'[m].rng = tx[m].rng
      /\ tx'[m].dirty <=> (tx[m].dirty \/ (a.xfer /\ a.dirty /\ AllowPassDirty(tx[m].kind)))
      /\ snoop'[m][k].exec <=> NeedsDownstream(snoop[m][k].exec, tx[m].kind, a)
  BY <1>1, PortData
<1>3. l # k => snoop'[m][l] = snoop[m][l]
  BY <1>0 DEF PortDone, IcnTypeOK
<1>4. l \in LinesOf(tx'[m].rng)
  BY <1>2 DEF DirtyUnderWay
<1>5. CASE tx[m].kind \in {"MakeUnique", "WriteLineUnique"} \/ tx[m].dirty
  BY <1>2, <1>4, <1>5 DEF DirtyUnderWay
<1>6. CASE Cleaning(m, l)
  <2>1. snoop'[m][l].exec
    BY <1>2, <1>3, <1>6 DEF Cleaning, NeedsDownstream
  <2>2. QED
    BY <1>2, <1>4, <1>6, <2>1 DEF Cleaning, DirtyUnderWay
<1>7. CASE \E e \in snoop[m][l].back : snoop[m][l].ans[e].xfer /\ snoop[m][l].ans[e].dirty
  <2>1. PICK e \in snoop[m][l].back : snoop[m][l].ans[e].xfer /\ snoop[m][l].ans[e].dirty
    BY <1>7
  <2>2. CASE l = k /\ e = c
    <3>1. a.xfer /\ a.dirty /\ AnswerOk(tx[m].kind, a)
      BY <1>1, <1>2, <2>1, <2>2 DEF AnswerInv
    <3>2. tx[m].kind # "ReadOnce"
      BY <3>1 DEF AnswerOk, SnoopOf, ReadKinds
    <3>3. CASE AllowPassDirty(tx[m].kind)
      BY <1>2, <1>4, <3>1, <3>3 DEF DirtyUnderWay
    <3>4. CASE ~AllowPassDirty(tx[m].kind)
      BY <1>2, <1>4, <2>2, <3>1, <3>2, <3>4 DEF DirtyUnderWay, Cleaning, NeedsDownstream, MustClean
    <3>5. QED
      BY <3>3, <3>4
  <2>3. CASE l # k
    BY <1>2, <1>3, <1>4, <2>1, <2>3 DEF DirtyUnderWay
  <2>4. CASE l = k /\ e # c
    <3>1. e \in snoop'[m][l].back /\ snoop'[m][l].ans[e] = snoop[m][l].ans[e]
      <4>1. snoop[m][k] \in Snoop /\ snoop \in [Masters -> [Lines -> Snoop]]
        BY <1>0 DEF IcnTypeOK
      <4>2. e \in Caches
        BY <2>1, <2>4, <4>1 DEF Snoop
      <4>3. snoop' = [snoop EXCEPT ![m][k] =
                 [snoop[m][k] EXCEPT !.back = snoop[m][k].back \ {c},
                           !.ans[c] = BlankAnswer,
                           !.exec = NeedsDownstream(snoop[m][k].exec, tx[m].kind, a),
                           !.data = IF MustClean(tx[m].kind, a) THEN a.data ELSE snoop[m][k].data]]
        BY <1>1 DEF PortDone
      <4>4. snoop'[m][k] = [snoop[m][k] EXCEPT !.back = snoop[m][k].back \ {c},
                           !.ans[c] = BlankAnswer,
                           !.exec = NeedsDownstream(snoop[m][k].exec, tx[m].kind, a),
                           !.data = IF MustClean(tx[m].kind, a) THEN a.data ELSE snoop[m][k].data]
        BY <4>1, <4>3
      <4>5. QED
        BY <2>1, <2>4, <4>1, <4>2, <4>4 DEF Snoop
    <3>2. QED
      BY <1>2, <1>4, <2>4, <2>1, <3>1 DEF DirtyUnderWay
  <2>5. QED
    BY <2>2, <2>3, <2>4
<1>8. QED
  BY <1>5, <1>6, <1>7 DEF DirtyUnderWay

\* So the interconnect loses none of it,
LEMMA UnderWayIcn ==
    ASSUME BaseInv, RequestInv, OkInv, AnswerInv, CarryInv, IcnData,
           NEW m \in Masters, NEW l \in SharedLines, DirtyUnderWay(m, l)
    PROVE  MemoryOk(l)'
<1>0. IcnTypeOK /\ l \in Lines /\ tx[m].phase \in {"snoop", "ds"}
  BY DEF BaseInv, TypeOK, SharedLines, DirtyUnderWay
<1>1. SUFFICES ASSUME ~DirtyUnderWay(m, l)'
               PROVE  MemoryOk(l)'
  BY DEF MemoryOk
<1>2. ~(Stays(m) /\ snoop'[m][l] = snoop[m][l])
  BY <1>1, UnderWayKept
<1>3. ASSUME NEW x \in Masters, Accept(x) PROVE FALSE
  <2>1. tx[x].phase = "req" /\ OthersStay(x) /\ snoop' = snoop
    BY <1>3, AcceptData
  <2>2. QED
    BY <1>0, <1>2, <2>1 DEF OthersStay
<1>4. ASSUME NEW x \in Masters, EngineSnoop(x) PROVE FALSE
  <2>1. tx[x].phase = "engine" /\ OthersStay(x)
    BY <1>4, EngineData
  <2>2. m # x
    BY <1>0, <2>1
  <2>3. snoop'[m] = snoop[m]
    BY <1>0, <1>4, <2>2 DEF EngineSnoop, IcnTypeOK
  <2>4. QED
    BY <1>2, <2>1, <2>2, <2>3 DEF OthersStay
<1>5. ASSUME NEW x \in Masters, NEW k \in Lines, NEW c \in Caches, PortDone(x, k, c) PROVE FALSE
  <2>1. OthersStay(x)
    BY <1>5, PortData
  <2>2. x # m => snoop'[m] = snoop[m]
    BY <1>0, <1>5 DEF PortDone, IcnTypeOK
  <2>3. QED
    BY <1>0, <1>1, <1>2, <1>5, <2>1, <2>2, UnderWayPort DEF OthersStay
<1>6. ASSUME NEW x \in Masters, NEW k \in Lines, LineDone(x, k),
             memory' = memory \/ snoop[x][k].exec, latest' = latest
      PROVE  MemoryOk(l)'
  <2>1. OthersStay(x) /\ (x # m => snoop'[m] = snoop[m])
    BY <1>0, <1>6 DEF LineDone, IcnTypeOK
  <2>2. x = m
    BY <1>2, <2>1 DEF OthersStay
  <2>3. QED
    BY <1>6, <2>2, UnderWayLine
<1>7. ASSUME NEW x \in Masters, OwnDone(x) PROVE MemoryOk(l)'
  <2>1. OthersStay(x) /\ snoop' = snoop
    BY <1>7 DEF OwnDone
  <2>2. x = m
    BY <1>2, <2>1 DEF OthersStay
  <2>3. StoreTx(tx[m].kind) => latest' = Stored(op[m])
    BY <1>7, <2>2, StoreIs
  <2>4. QED
    BY <1>7, <2>2, <2>3, UnderWayOwn
<1>8. ~(UNCHANGED <<tx, snoop, overlap, memory>>)
  BY <1>2, SameStays
<1>9. QED
  BY <1>3, <1>4, <1>5, <1>6, <1>7, <1>8 DEF IcnData

\* and keeps MemoryInv.
LEMMA MemoryIcn ==
    ASSUME BaseInv, RequestInv, OkInv, AnswerInv, CarryInv, BackData, MemoryInv, IcnData
    PROVE  MemoryInv'
<1>1. SUFFICES ASSUME NEW l \in SharedLines PROVE MemoryOk(l)'
  BY DEF MemoryInv, SharedLines
<1>2. CASE InMemory(l)
  BY <1>2, MemoryStays DEF MemoryOk
<1>3. CASE \E c \in Caches : WillBeDirty(c, l)
  <2>1. PICK c \in Caches : WillBeDirty(c, l)
    BY <1>3
  <2>2. WillBeDirty(c, l)'
    BY <2>1, DirtyIcn DEF SharedLines
  <2>3. QED
    BY <2>2 DEF MemoryOk
<1>4. CASE \E m \in Masters : DirtyUnderWay(m, l)
  BY <1>4, UnderWayIcn
<1>5. QED
  BY <1>1, <1>2, <1>3, <1>4 DEF MemoryInv, MemoryOk

\* A snoop changes no data, and no other line than the one it is for.
LEMMA SnoopedSame ==
    ASSUME BaseInv, OverlapInv, NEW m \in Masters, NEW k \in Lines, NEW c \in Caches,
           SnoopMaster(m, k, c), NEW d \in Caches, NEW l \in Lines
    PROVE  /\ Fills(d, l)' = Fills(d, l)
           /\ Copy(d, l)' => Copy(d, l) /\ get_line(d, l)'.data = get_line(d, l).data
           /\ Copy(d, l) /\ (d # c \/ l # k) =>
                 Copy(d, l)' /\ get_line(d, l)' = get_line(d, l)
<1>0. CacheTypeOK /\ CacheSnoop(c, SnoopOf(tx[m].kind), k) /\ tx' = tx
  BY SnoopMasterParts DEF BaseInv, TypeOK, SnoopMaster
<1>1. /\ \A i \in Slots :
            /\ cacheline'[d][i].tag = cacheline[d][i].tag
            /\ cacheline'[d][i].valid => cacheline[d][i].valid
            /\ d # c \/ i # Index[k] => cacheline'[d][i] = cacheline[d][i]
      /\ get_line(c, k)' = IF in_cache(c, k) THEN SnoopedLine(SnoopOf(tx[m].kind), get_line(c, k))
                                             ELSE get_line(c, k)
  BY <1>0, SnoopSteps
<1>2. Index[l] \in Slots /\ Index[k] \in Slots
  BY SlotOf
<1>3. get_line(c, k) \in CacheLine
  BY <1>0, <1>2 DEF CacheTypeOK, get_line
<1>4. Fills(d, l)' = Fills(d, l)
  BY <1>0 DEF Fills, Incoming
<1>5. in_cache(d, l)' => in_cache(d, l)
  BY <1>1, <1>2 DEF in_cache, Holds, get_line
<1>6. Copy(d, l)' => Copy(d, l)
  BY <1>0, <1>5 DEF Copy
<1>7. CASE d # c \/ Index[l] # Index[k]
  <2>1. get_line(d, l)' = get_line(d, l)
    BY <1>1, <1>2, <1>7 DEF get_line
  <2>2. Copy(d, l)' = Copy(d, l)
    BY <1>0, <2>1 DEF Copy, in_cache
  <2>3. QED
    BY <1>4, <2>1, <2>2
<1>8. CASE d = c /\ Index[l] = Index[k]
  <2>1. get_line(d, l) = get_line(c, k) /\ get_line(d, l)' = get_line(c, k)'
    BY <1>8 DEF get_line
  <2>2. get_line(d, l)'.data = get_line(d, l).data
    BY <1>1, <1>3, <2>1 DEF SnoopedLine, CacheLine
  <2>3. Copy(d, l) /\ l # k => ~in_cache(c, k)
    BY <2>1 DEF Copy, in_cache, Holds
  <2>4. Copy(d, l) /\ l # k => get_line(d, l)' = get_line(d, l)
    BY <1>1, <2>1, <2>3
  <2>5. Copy(d, l) /\ l # k => Copy(d, l)'
    BY <1>0, <2>4 DEF Copy, in_cache
  <2>6. QED
    BY <1>4, <1>6, <1>8, <2>2, <2>4, <2>5
<1>9. QED
  BY <1>7, <1>8

\* A snoop that takes a dirty line's responsibility away hands its data over,
\* or is for a transaction that overwrites the whole line.
LEMMA DirtyHanded ==
    ASSUME NEW ln \in CacheLine, ln.dirty, ln.valid, NEW kind
    PROVE  \/ SnoopedLine(kind, ln).valid /\ SnoopedLine(kind, ln).dirty
           \/ SnoopAnswer(kind, ln).xfer /\ SnoopAnswer(kind, ln).dirty
           \/ kind = "MakeInvalid"
<1>1. CASE kind \in {"ReadUnique", "CleanInvalid", "ReadShared", "CleanShared"}
  BY <1>1 DEF SnoopAnswer, ReadKinds
<1>2. CASE kind \notin {"ReadUnique", "CleanInvalid", "ReadShared", "CleanShared", "MakeInvalid"}
  BY <1>2 DEF SnoopedLine, CacheLine
<1>3. QED
  BY <1>1, <1>2

\* Lines are discarded only by transactions that overwrite all of them.
LEMMA InvalidIsMade ==
    ASSUME BaseInv, RequestInv, NEW m \in Masters, IsSnoopingTransaction(tx[m].kind),
           SnoopOf(tx[m].kind) = "MakeInvalid"
    PROVE  tx[m].kind \in {"MakeUnique", "WriteLineUnique"}
<1>1. tx[m].kind # "none" /\ AccessInv
  BY DEF BaseInv, IsSnoopingTransaction, ReadKinds, CleanKinds, CmoKinds, UniqueWriteKinds
<1>2. op[m] \in Op /\ op[m] # NoOp /\ Asks(m)
  BY <1>1, AccessParts
<1>3. tx[m].kind # "MakeInvalid"
  <2>1. CASE m \in LiteMasters
    BY <1>2, <2>1 DEF Asks
  <2>2. CASE m \in Caches
    BY <1>2, <2>2 DEF RequestInv, RequestOk, Fits, CmoKinds
  <2>3. QED
    BY <2>1, <2>2 DEF Masters
<1>4. tx[m].kind \in {"MakeUnique", "MakeInvalid", "WriteLineUnique"}
  BY DEF SnoopOf, IsSnoopingTransaction, ReadKinds, CleanKinds, CmoKinds, UniqueWriteKinds
<1>5. QED
  BY <1>3, <1>4

\* Snoops change no data of a line and no copy gets what it had not.
LEMMA CopySnoop ==
    ASSUME BaseInv, OverlapInv, CopyData, FillData, BackData, NEW m \in Masters, NEW k \in Lines,
           NEW c \in Caches, SnoopMaster(m, k, c), UNCHANGED <<latest, memory>>
    PROVE  CopyData' /\ FillData' /\ BackData'
<1>0. tx' = tx /\ op' = op
  BY SnoopMasterParts
<1>1. \A l : Latest(l)' = Latest(l) /\ InMemory(l)' = InMemory(l)
  BY DEF Latest, InMemory, ToLine
<1>2. ASSUME NEW d \in Caches, NEW l \in SharedLines, Copy(d, l)'
      PROVE  View(d, l)' = Latest(l)'
  <2>1. Copy(d, l) /\ get_line(d, l)'.data = get_line(d, l).data
    BY <1>2, SnoopedSame DEF SharedLines
  <2>2. View(d, l)' = View(d, l)
    BY <1>0, <2>1 DEF View, Applied
  <2>3. QED
    BY <1>1, <2>1, <2>2 DEF CopyData
<1>3. CopyData'
  BY <1>2 DEF CopyData, SharedLines
<1>4. FillData'
  BY <1>0, <1>1 DEF FillData, SharedLines, Fills, Incoming, ToLine
<1>5. \A d \in Caches, l \in SharedLines :
         WritesBack(d, l) => IF tx[d].phase = "resp" THEN InMemory(l)'
                                                     ELSE ToLine(tx[d].data, l) = Latest(l)'
  BY <1>1 DEF BackData
<1>6. BackData'
  BY <1>0, <1>5 DEF BackData, SharedLines, WritesBack, ToLine
<1>7. QED
  BY <1>3, <1>4, <1>6

\* A snoop leaves what is under way,
LEMMA UnderWaySnoop ==
    ASSUME BaseInv, OverlapInv, NEW m \in Masters, NEW k \in Lines, NEW c \in Caches,
           SnoopMaster(m, k, c), NEW x \in Masters, NEW l \in Lines, DirtyUnderWay(x, l)
    PROVE  DirtyUnderWay(x, l)'
<1>0. IcnTypeOK /\ tx' = tx
  BY SnoopMasterParts DEF BaseInv, TypeOK
<1>1. CASE x # m \/ l # k
  BY <1>0, <1>1, SnoopMasterParts, UnderWayKept, SameStays
<1>2. CASE x = m /\ l = k
  <2>1. /\ c \notin snoop[m][k].back /\ snoop'[m][k].back = snoop[m][k].back \cup {c}
        /\ \A d \in Caches \ {c} : snoop'[m][k].ans[d] = snoop[m][k].ans[d]
    BY SnoopMasterParts
  <2>2. snoop'[m][k].exec = snoop[m][k].exec
    BY <1>0 DEF SnoopMaster, SnoopAnswered, IcnTypeOK, Snoop
  <2>3. snoop[m][k].back \subseteq Caches
    BY <1>0 DEF IcnTypeOK, Snoop
  <2>4. \A e \in snoop[m][k].back : e \in snoop'[m][k].back /\ snoop'[m][k].ans[e] = snoop[m][k].ans[e]
    BY <2>1, <2>3
  <2>5. Cleaning(m, k)' <=> Cleaning(m, k)
    BY <1>0, <2>2 DEF Cleaning
  <2>6. QED
    BY <1>0, <1>2, <2>4, <2>5 DEF DirtyUnderWay
<1>3. QED
  BY <1>1, <1>2

\* takes a dirty line with its data, or leaves it dirty,
LEMMA DirtySnooped ==
    ASSUME BaseInv, OverlapInv, RequestInv, NEW m \in Masters, NEW k \in Lines, NEW c \in Caches,
           SnoopMaster(m, k, c), NEW d \in Caches, NEW l \in Lines, WillBeDirty(d, l)
    PROVE  WillBeDirty(d, l)' \/ DirtyUnderWay(m, l)'
<1>0. IcnTypeOK /\ CacheTypeOK /\ tx' = tx
  BY SnoopMasterParts DEF BaseInv, TypeOK
<1>1. CASE Fills(d, l)
  <2>1. Fills(d, l)'
    BY <1>1, SnoopedSame
  <2>2. CASE tx[d].kind = "MakeUnique" \/ (tx[d].kind # "ReadClean" /\ tx[d].dirty)
    BY <1>0, <2>1, <2>2 DEF WillBeDirty
  <2>3. CASE Copy(d, l) /\ get_line(d, l).dirty
    <3>1. CASE d # c \/ l # k
      <4>1. Copy(d, l)' /\ get_line(d, l)' = get_line(d, l)
        BY <2>3, <3>1, SnoopedSame
      <4>2. QED
        BY <2>3, <4>1 DEF WillBeDirty
    <3>2. CASE d = c /\ l = k
      BY <1>1, <3>2, SnoopMasterParts DEF Fills
    <3>3. QED
      BY <3>1, <3>2
  <2>4. QED
    BY <2>2, <2>3 DEF WillBeDirty
<1>2. CASE ~Fills(d, l)
  <2>1. Copy(d, l) /\ get_line(d, l).dirty
    BY <1>2 DEF WillBeDirty
  <2>2. CASE d # c \/ l # k
    <3>1. Copy(d, l)' /\ get_line(d, l)' = get_line(d, l)
      BY <2>1, <2>2, SnoopedSame
    <3>2. QED
      BY <2>1, <3>1 DEF WillBeDirty
  <2>3. CASE d = c /\ l = k
    <3>1. PICK ln, kind : ln = get_line(c, k) /\ kind = SnoopOf(tx[m].kind)
      OBVIOUS
    <3>2. ln \in CacheLine /\ ln.dirty /\ ln.valid /\ in_cache(c, k)
      BY <1>0, <2>1, <2>3, <3>1, SlotOf DEF CacheTypeOK, get_line, Copy, in_cache, Holds
    <3>3. CacheSnoop(c, kind, k)
      BY <3>1 DEF SnoopMaster
    <3>4. get_line(c, k)' = SnoopedLine(kind, ln)
      BY <1>0, <3>1, <3>2, <3>3, SnoopSteps
    <3>5. /\ tx[m].phase = "snoop" /\ k \in LinesOf(tx[m].rng) /\ IsSnoopingTransaction(tx[m].kind)
          /\ c \in snoop'[m][k].back /\ snoop'[m][k].ans[c] = SnoopAnswer(kind, ln)
      BY <3>1, <3>2, SnoopMasterParts
    <3>6. CASE SnoopedLine(kind, ln).valid /\ SnoopedLine(kind, ln).dirty
      <4>1. SnoopedLine(kind, ln).tag = ln.tag /\ ln.tag = k
        BY <3>1, <3>2, SnoopedParts DEF in_cache, Holds
      <4>2. in_cache(c, k)'
        BY <3>4, <3>6, <4>1 DEF in_cache, Holds
      <4>3. Copy(c, k)'
        BY <1>0, <2>1, <2>3, <4>2 DEF Copy
      <4>4. QED
        BY <2>3, <3>4, <3>6, <4>3 DEF WillBeDirty
    <3>7. CASE SnoopAnswer(kind, ln).xfer /\ SnoopAnswer(kind, ln).dirty
      BY <1>0, <2>3, <3>5, <3>7 DEF DirtyUnderWay
    <3>8. CASE kind = "MakeInvalid"
      <4>1. tx[m].kind \in {"MakeUnique", "WriteLineUnique"}
        BY <3>1, <3>5, <3>8, InvalidIsMade
      <4>2. QED
        BY <1>0, <2>3, <3>5, <4>1 DEF DirtyUnderWay
    <3>9. QED
      BY <3>2, <3>6, <3>7, <3>8, DirtyHanded
  <2>4. QED
    BY <2>2, <2>3
<1>3. QED
  BY <1>1, <1>2

\* and so keeps MemoryInv.
LEMMA MemorySnoop ==
    ASSUME BaseInv, OverlapInv, RequestInv, MemoryInv, NEW m \in Masters, NEW k \in Lines,
           NEW c \in Caches, SnoopMaster(m, k, c), UNCHANGED <<latest, memory>>
    PROVE  MemoryInv'
<1>1. SUFFICES ASSUME NEW l \in SharedLines PROVE MemoryOk(l)'
  BY DEF MemoryInv, SharedLines
<1>2. l \in Lines /\ MemoryOk(l)
  BY DEF SharedLines, MemoryInv
<1>3. InMemory(l)' = InMemory(l)
  BY DEF InMemory, ToLine
<1>4. CASE \E d \in Caches : WillBeDirty(d, l)
  BY <1>2, <1>4, DirtySnooped DEF MemoryOk
<1>5. CASE \E x \in Masters : DirtyUnderWay(x, l)
  BY <1>2, <1>5, UnderWaySnoop DEF MemoryOk
<1>6. QED
  BY <1>2, <1>3, <1>4, <1>5 DEF MemoryOk

\* A step of an ACE-Lite master touches no cache and no data.
LEMMA DataLite ==
    ASSUME BaseInv, CopyData, FillData, BackData, MemoryInv, NEW m \in Masters \ Caches, LiteData(m)
    PROVE  CopyData' /\ FillData' /\ BackData' /\ MemoryInv'
<1>0. /\ UNCHANGED <<snoop, memory, latest>> /\ tx[m].phase \in {"idle", "resp"}
      /\ \A x \in Masters \ {m} : op'[x] = op[x] /\ tx'[x] = tx[x]
  BY DEF LiteData
<1>1. \A c \in Caches : c \in Masters /\ op'[c] = op[c] /\ tx'[c] = tx[c]
  BY <1>0, CachesAreMasters
<1>2. \A l : Latest(l)' = Latest(l) /\ InMemory(l)' = InMemory(l)
  BY <1>0 DEF Latest, InMemory, ToLine
<1>3. \A c \in Caches : c \in Applied' <=> c \in Applied
  BY <1>1 DEF Applied
<1>4. ASSUME NEW c \in Caches, NEW l \in SharedLines, Copy(c, l)'
      PROVE  View(c, l)' = Latest(l)'
  <2>1. Copy(c, l) /\ get_line(c, l)' = get_line(c, l)
    BY <1>4, LiteViews DEF SharedLines
  <2>2. View(c, l)' = View(c, l)
    BY <1>1, <1>3, <2>1 DEF View
  <2>3. QED
    BY <1>2, <2>1, <2>2 DEF CopyData
<1>5. CopyData'
  BY <1>4 DEF CopyData, SharedLines
<1>6. ASSUME NEW c \in Caches, NEW l \in SharedLines, Fills(c, l)', tx'[c].kind # "MakeUnique"
      PROVE  ToLine(tx'[c].data, l) = Latest(l)'
  <2>1. Fills(c, l) /\ tx'[c] = tx[c]
    BY <1>1, <1>6, LiteViews DEF SharedLines, SameView
  <2>2. QED
    BY <1>2, <1>6, <2>1 DEF FillData
<1>7. FillData'
  BY <1>6 DEF FillData, SharedLines, ToLine
<1>8. ASSUME NEW c \in Caches, NEW l \in SharedLines, WritesBack(c, l)'
      PROVE  IF tx'[c].phase = "resp" THEN InMemory(l)' ELSE ToLine(tx'[c].data, l) = Latest(l)'
  <2>1. WritesBack(c, l) /\ tx'[c] = tx[c]
    BY <1>1, <1>8 DEF WritesBack
  <2>2. QED
    BY <1>2, <2>1 DEF BackData
<1>9. BackData'
  BY <1>8 DEF BackData, SharedLines, ToLine
<1>10. ASSUME NEW l \in SharedLines PROVE MemoryOk(l)'
  <2>1. l \in Lines /\ MemoryOk(l)
    BY DEF SharedLines, MemoryInv
  <2>2. ASSUME NEW c \in Caches, WillBeDirty(c, l) PROVE WillBeDirty(c, l)'
    BY <2>1, <2>2, LiteViews DEF SameView
  <2>3. ASSUME NEW x \in Masters, DirtyUnderWay(x, l) PROVE DirtyUnderWay(x, l)'
    <3>1. x # m
      BY <1>0, <2>3 DEF DirtyUnderWay
    <3>2. Stays(x) /\ snoop'[x][l] = snoop[x][l]
      BY <1>0, <3>1, SameStays
    <3>3. QED
      BY <2>3, <3>2, UnderWayKept
  <2>4. QED
    BY <1>2, <2>1, <2>2, <2>3 DEF MemoryOk
<1>11. MemoryInv'
  BY <1>10 DEF MemoryInv, SharedLines
<1>12. QED
  BY <1>5, <1>7, <1>9, <1>11

(***************************************************************************)
(* A step of a cache's thread.                                             *)
(***************************************************************************)
\* The line in the slot of access o before its access goes on.
Base(c, o) == IF tx[c].phase = "idle" THEN get_line(c, LineOf(o))
              ELSE BaseLine(o, tx[c], get_line(c, LineOf(o)))

\* The response finds the line that CleanUnique was for gone.
LostLine(c, o) == tx[c].kind = "CleanUnique" /\ ~get_line(c, LineOf(o)).valid

\* What is known of a turn of a cache's thread.
LEMMA BaseFacts ==
    ASSUME BaseInv, RequestInv, NEW c \in Caches, NEW o, NEW r, CacheData(c, o, r)
    PROVE  /\ Base(c, o) \in CacheLine /\ Serves(c, o, Base(c, o), r)
           /\ r.req = "Evict" => ~Base(c, o).dirty \/ LostLine(c, o)
           /\ LostLine(c, o) => r.req = "Evict"
           /\ tx[c].phase = "resp" => /\ o = op[c] /\ op[c] # NoOp /\ RequestOk(c) /\ AsksRight(c)
                                      /\ tx[c].kind \in TxKinds
           /\ tx[c].phase # "resp" => tx[c].phase = "idle" /\ tx[c].kind = "none"
           /\ tx[c].kind = "MakeUnique" => Takes(c, o, r)
<1>0. /\ IcnTypeOK /\ AccessInv /\ o \in Op /\ c \in Masters /\ LineOf(o) \in Lines
      /\ get_line(c, LineOf(o)) \in CacheLine
  BY TurnParts DEF BaseInv, TypeOK
<1>1. PICK ln : ln = get_line(c, LineOf(o))
  OBVIOUS
<1>2. CASE /\ tx[c].phase = "idle" /\ tx[c].kind = "none" /\ Serves(c, o, ln, r)
           /\ r.req = "Evict" => ~ln.dirty
  BY <1>0, <1>1, <1>2 DEF Base, LostLine
<1>3. CASE /\ tx[c].phase = "resp" /\ o = op[c] /\ AsksRight(c) /\ tx[c].kind \in TxKinds
           /\ Answered(o, ln, tx[c], r) /\ Resumes(c, o, tx[c], ln, r)
  <2>1. op[c] # NoOp /\ RequestOk(c) /\ WellFormed(tx[c])
    BY <1>0, <1>3, AccessParts, TxOf DEF RequestInv
  <2>2. tx[c].shared \in BOOLEAN /\ tx[c].dirty \in BOOLEAN /\ tx[c].data \in [tx[c].rng -> Values]
    BY <1>0 DEF IcnTypeOK, Tx
  <2>3. tx[c].kind \in FillKinds => ToLine(tx[c].data, LineOf(o)) \in LineData
    <3>1. SUFFICES ASSUME tx[c].kind \in FillKinds  PROVE tx[c].rng = LineAddr(LineOf(o))
      BY <2>2 DEF ToLine, LineData, LineAddr
    <3>2. tx[c].kind \notin CopyBackKinds \cup UniqueWriteKinds \cup NoSnoopKinds
      BY <3>1, KindClasses
    <3>3. QED
      BY <1>3, <3>2 DEF AsksRight, PayloadRange
  <2>4. Base(c, o) = BaseLine(o, tx[c], ln)
    BY <1>1, <1>3 DEF Base
  <2>5. Base(c, o) \in CacheLine
    BY <1>0, <1>1, <2>2, <2>3, <2>4, BaseLineType
  <2>6. LostLine(c, o) => r.req = "Evict"
    BY <1>1, <1>3 DEF LostLine, Answered
  <2>7. /\ Serves(c, o, Base(c, o), r)
        /\ r.req = "Evict" /\ r.want # "none" => ~Base(c, o).dirty
        /\ r.req = "Evict" /\ r.want = "none" => tx[c].kind = "CleanUnique" /\ ~ln.valid
        /\ tx[c].kind = "MakeUnique" => Takes(c, o, r)
    BY <1>3, <2>4 DEF Resumes
  <2>8. r.req = "Evict" => ~Base(c, o).dirty \/ LostLine(c, o)
    BY <1>1, <2>7 DEF LostLine
  <2>9. QED
    BY <1>3, <2>1, <2>5, <2>6, <2>7, <2>8
<1>4. QED
  BY <1>1, <1>2, <1>3 DEF CacheData

\* The slot of access o holds the line l.
LEMMA SlotCopy ==
    ASSUME BaseInv, NEW c \in Caches, NEW o \in Op, NEW l,
           Holds(get_line(c, LineOf(o)), l)
    PROVE  /\ l \in Lines /\ Index[l] = Index[LineOf(o)]
           /\ get_line(c, l) = get_line(c, LineOf(o)) /\ in_cache(c, l)
           /\ get_line(c, l).data \in LineData
<1>0. CacheTypeOK /\ SlotInv
  BY DEF BaseInv, TypeOK
<1>1. LineOf(o) \in Lines /\ Index[LineOf(o)] \in Slots
  BY AccessFacts, SlotOf
<1>2. get_line(c, LineOf(o)) \in CacheLine
  BY <1>0, <1>1 DEF CacheTypeOK, get_line
<1>3. l \in Lines /\ Index[l] = Index[LineOf(o)]
  BY <1>0, <1>1, <1>2 DEF Holds, SlotInv, get_line, CacheLine
<1>4. get_line(c, l) = get_line(c, LineOf(o))
  BY <1>3 DEF get_line
<1>5. QED
  BY <1>2, <1>3, <1>4 DEF in_cache, CacheLine

\* What View is of a line that the access does not store to.
LEMMA PlainView ==
    ASSUME NEW c, NEW l, CopyData, c \in Caches, l \in SharedLines, Copy(c, l),
           get_line(c, l).data \in LineData,
           c \in Applied => \A w \in Words : <<l, w>> \notin op[c].rng
    PROVE  get_line(c, l).data = Latest(l)
<1>1. View(c, l) = Latest(l)
  BY DEF CopyData
<1>2. View(c, l) = [w \in Words |-> get_line(c, l).data[w]]
  BY DEF View
<1>3. QED
  BY <1>1, <1>2 DEF LineData

\* The line that the access goes on with is current.
LEMMA BaseData ==
    ASSUME BaseInv, RequestInv, CopyData, FillData,
           NEW c \in Caches, NEW o, NEW r, CacheData(c, o, r),
           NEW l \in SharedLines, Holds(Base(c, o), l), ~LostLine(c, o), tx[c].kind # "MakeUnique"
    PROVE  Base(c, o).data = Latest(l)
<1>0. /\ o \in Op /\ c \in Masters /\ LineOf(o) \in Lines /\ o.rng \subseteq LineAddr(LineOf(o))
      /\ get_line(c, LineOf(o)) \in CacheLine /\ l \in Lines
  BY TurnParts DEF SharedLines
<1>1. PICK ln, t : ln = get_line(c, LineOf(o)) /\ t = tx[c]
  OBVIOUS
<1>2. /\ t.phase = "resp" => /\ o = op[c] /\ op[c] # NoOp /\ RequestOk(c) /\ AsksRight(c)
                             /\ t.kind \in TxKinds
      /\ t.phase # "resp" => t.phase = "idle" /\ t.kind = "none"
      /\ Base(c, o) \in CacheLine
  BY <1>1, BaseFacts
<1>3. ASSUME Holds(ln, l), t.kind # "Evict", t.kind \notin UniqueWriteKinds
      PROVE  ln.data = Latest(l)
  <2>1. get_line(c, l) = ln /\ Copy(c, l) /\ ln.data \in LineData
    BY <1>0, <1>1, <1>3, SlotCopy DEF Copy
  <2>2. c \in Applied => \A w \in Words : <<l, w>> \notin op[c].rng
    <3>1. SUFFICES ASSUME c \in Applied, NEW w \in Words, <<l, w>> \in op[c].rng  PROVE FALSE
      OBVIOUS
    <3>2. t.phase = "resp" /\ t.kind = "WriteNoSnoop"
      BY <1>1, <1>3, <3>1 DEF Applied
    <3>3. LineOf(o) \in NonShareable /\ o = op[c]
      BY <1>1, <1>2, <3>2 DEF RequestOk, Fits, NoSnoopKinds
    <3>4. l = LineOf(o)
      BY <1>0, <3>1, <3>3 DEF LineAddr
    <3>5. QED
      BY <3>3, <3>4 DEF SharedLines
  <2>3. QED
    BY <2>1, <2>2, PlainView
<1>4. CASE t.phase # "resp"
  BY <1>1, <1>2, <1>3, <1>4 DEF Base, UniqueWriteKinds
<1>5. CASE t.phase = "resp"
  <2>0. Base(c, o) = BaseLine(o, t, ln)
    BY <1>1, <1>5 DEF Base
  <2>1. CASE t.kind \in {"WriteBack", "Evict"}
    BY <1>0, <1>1, <2>0, <2>1, BaseIs DEF Holds
  <2>2. CASE t.kind = "WriteClean"
    <3>1. Holds(ln, l) /\ Base(c, o).data = ln.data
      BY <1>0, <1>1, <2>0, <2>2, BaseIs DEF Holds
    <3>2. QED
      BY <1>3, <2>2, <3>1 DEF UniqueWriteKinds
  <2>3. CASE t.kind = "CleanUnique"
    <3>1. ln.valid
      BY <1>1, <2>3 DEF LostLine
    <3>2. Holds(ln, l) /\ Base(c, o).data = ln.data
      BY <1>0, <1>1, <2>0, <2>3, <3>1, BaseIs DEF Holds
    <3>3. QED
      BY <1>3, <2>3, <3>2 DEF UniqueWriteKinds
  <2>4. CASE t.kind \in UniqueWriteKinds
    <3>0. Base(c, o) = IF Holds(ln, LineOf(o)) THEN KeptLine(ln, o) ELSE ln
      BY <1>0, <1>1, <2>0, <2>4, BaseIs
    <3>1. t.kind # "Evict" /\ Writes(c) /\ o = op[c]
      BY <1>1, <1>2, <1>5, <2>4, KindClasses DEF RequestOk
    <3>2. c \in Applied
      BY <1>0, <1>1, <1>5, <2>4, <3>1 DEF Applied, Writes
    <3>3. CASE Holds(ln, LineOf(o))
      <4>1. Base(c, o) = KeptLine(ln, o) /\ l = LineOf(o)
        BY <1>0, <1>1, <3>0, <3>3, KeptLineParts DEF Holds
      <4>2. get_line(c, l) = ln /\ Copy(c, l) /\ ln.data \in LineData
        BY <1>0, <1>1, <3>1, <3>3, <4>1, SlotCopy DEF Copy
      <4>3. View(c, l) = Latest(l)
        BY <4>2 DEF CopyData
      <4>4. \A w \in Words : View(c, l)[w] = IF <<l, w>> \in o.rng THEN o.val ELSE ln.data[w]
        BY <3>1, <3>2, <4>2 DEF View
      <4>5. \A w \in Words : Base(c, o).data[w] = IF <<l, w>> \in o.rng THEN o.val ELSE ln.data[w]
        BY <1>0, <1>1, <4>1, KeptLineParts
      <4>6. Base(c, o).data \in LineData
        BY <1>2 DEF CacheLine
      <4>7. Latest(l) = [w \in Words |-> latest[<<l, w>>]]
        BY DEF Latest, ToLine
      <4>8. \A w \in Words : Base(c, o).data[w] = Latest(l)[w]
        BY <4>3, <4>4, <4>5
      <4>9. QED
        BY <4>6, <4>7, <4>8 DEF LineData
    <3>4. CASE ~Holds(ln, LineOf(o))
      <4>1. Base(c, o) = ln /\ Holds(ln, l) /\ l # LineOf(o)
        BY <3>0, <3>4
      <4>2. get_line(c, l) = ln /\ Copy(c, l) /\ ln.data \in LineData
        BY <1>0, <1>1, <3>1, <4>1, SlotCopy DEF Copy
      <4>3. \A w \in Words : <<l, w>> \notin op[c].rng
        BY <1>0, <3>1, <4>1 DEF LineAddr
      <4>4. QED
        BY <4>1, <4>2, <4>3, PlainView
    <3>5. QED
      BY <3>3, <3>4
  <2>5. CASE t.kind \in FillKinds
    <3>1. Base(c, o) = read_fill(ln, LineOf(o), t)
      BY <1>0, <1>1, <2>0, <2>5, BaseIs DEF install
    <3>2. l = LineOf(o) /\ Base(c, o).data = ToLine(t.data, l)
      BY <1>0, <1>1, <3>1 DEF read_fill, Holds, CacheLine
    <3>3. t.kind \notin CopyBackKinds \cup UniqueWriteKinds \cup NoSnoopKinds
      BY <2>5, KindClasses
    <3>4. t.rng = LineAddr(l)
      BY <1>1, <1>2, <1>5, <3>2, <3>3 DEF AsksRight, PayloadRange
    <3>5. IsSnoopingTransaction(t.kind)
      BY <2>5 DEF FillKinds, IsSnoopingTransaction, CleanKinds
    <3>6. Fills(c, l)
      BY <1>1, <1>5, <2>5, <3>4, <3>5 DEF Fills, Incoming
    <3>7. QED
      BY <1>1, <3>2, <3>6 DEF FillData
  <2>6. CASE t.kind \in CmoKinds \cup NoSnoopKinds \cup {"ReadOnce"}
    <3>1. Base(c, o) = ln
      BY <1>0, <1>1, <2>0, <2>6, BaseIs
    <3>2. t.kind # "Evict" /\ t.kind \notin UniqueWriteKinds
      BY <2>6, KindClasses
    <3>3. QED
      BY <1>3, <3>1, <3>2
  <2>7. QED
    BY <1>2, <1>5, <2>1, <2>2, <2>3, <2>4, <2>5, <2>6, KindClasses
<1>6. QED
  BY <1>4, <1>5

\* What the step leaves behind.
LEMMA TurnNext ==
    ASSUME BaseInv, BaseInv', NEW c \in Caches, NEW o, NEW r, CacheData(c, o, r)
    PROVE  /\ \A l \in Lines :
                 get_line(c, l)' = IF Index[l] = Index[LineOf(o)] THEN r.ln ELSE get_line(c, l)
           /\ tx'[c].kind = r.req /\ tx'[c].phase \in {"idle", "req"} /\ c \notin Applied'
           /\ r.ln.valid => r.ln.tag \in Lines /\ Index[r.ln.tag] = Index[LineOf(o)]
           /\ r.req \in CopyBackKinds => r.ln.valid /\ tx'[c].rng = LineAddr(r.ln.tag)
<1>0. /\ o \in Op /\ r \in Result /\ LineOf(o) \in Lines /\ c \in Masters /\ r.ln \in CacheLine
      /\ \A i \in Slots : cacheline'[c][i] = IF i = Index[LineOf(o)] THEN r.ln ELSE cacheline[c][i]
      /\ op'[c] = (IF r.req = "none" THEN NoOp ELSE o) /\ tx'[c] = NextTx(o, r)
  BY TurnParts
<1>1. Index[LineOf(o)] \in Slots
  BY <1>0, SlotOf
<1>2. ASSUME NEW l \in Lines
      PROVE  get_line(c, l)' = IF Index[l] = Index[LineOf(o)] THEN r.ln ELSE get_line(c, l)
  BY <1>0, SlotOf DEF get_line
<1>3. tx'[c].kind = r.req /\ tx'[c].phase \in {"idle", "req"}
      /\ (r.req # "none" => tx'[c].rng = PayloadRange(o, r))
  <2>1. o \in Op /\ r \in Result /\ tx'[c] = NextTx(o, r)
    BY <1>0
  <2>2. /\ NextTx(o, r).phase \in {"idle", "req"} /\ NextTx(o, r).kind = r.req
        /\ r.req # "none" => NextTx(o, r).rng = PayloadRange(o, r)
    BY <2>1, NextTxData
  <2>3. QED
    BY <2>1, <2>2
<1>4. c \notin Applied'
  BY <1>3 DEF Applied
<1>5. ASSUME r.ln.valid  PROVE r.ln.tag \in Lines /\ Index[r.ln.tag] = Index[LineOf(o)]
  <2>1. cacheline'[c][Index[LineOf(o)]] = r.ln /\ SlotInv'
    BY <1>0, <1>1 DEF BaseInv
  <2>2. QED
    BY <1>0, <1>1, <1>5, <2>1 DEF SlotInv, CacheLine
<1>6. ASSUME r.req \in CopyBackKinds  PROVE r.ln.valid /\ tx'[c].rng = LineAddr(r.ln.tag)
  <2>1. r.req # "none" /\ op'[c] = o
    BY <1>0, <1>6 DEF CopyBackKinds
  <2>2. AccessInv' /\ op'[c] # NoOp
    BY <1>0, <2>1, AccessFacts DEF BaseInv
  <2>3. AsksRight(c)'
    BY <1>0, <2>2 DEF AccessInv, Asks
  <2>4. LineIn(c)' = r.ln
    BY <1>0, <1>1, <2>1 DEF LineIn, get_line
  <2>5. r.ln.valid
    BY <1>3, <1>6, <2>3, <2>4 DEF AsksRight
  <2>6. QED
    BY <1>3, <1>6, <2>1, <2>5 DEF PayloadRange
<1>7. QED
  BY <1>2, <1>3, <1>4, <1>5, <1>6

\* The only line stored to is the one of the access, which no other cache has.
LEMMA LatestTurn ==
    ASSUME BaseInv, CopiesInv, NEW c \in Caches, NEW o, NEW r, CacheData(c, o, r), NEW l \in Lines
    PROVE  /\ ~(Takes(c, o, r) /\ l = LineOf(o)) => Latest(l)' = Latest(l)
           /\ InMemory(l)' <=> ToLine(memory, l) = Latest(l)'
           /\ \A d \in Caches \ {c} : WillHave(d, l) => Latest(l)' = Latest(l)
<1>0. /\ o \in Op /\ o.rng \subseteq LineAddr(LineOf(o)) /\ LineOf(o) \in Lines /\ memory' = memory
  BY TurnParts
<1>1. latest' = IF Takes(c, o, r) THEN Stored(o) ELSE latest
  BY DEF CacheData
<1>2. ASSUME ~(Takes(c, o, r) /\ l = LineOf(o))  PROVE Latest(l)' = Latest(l)
  <2>1. CASE ~Takes(c, o, r)
    BY <1>1, <2>1, LatestSame
  <2>2. CASE Takes(c, o, r) /\ l # LineOf(o)
    <3>1. l \notin LinesOf(o.rng)
      BY <1>0, <2>2 DEF LinesOf, LineAddr
    <3>2. QED
      BY <1>0, <1>1, <2>2, <3>1, StoredElsewhere
  <2>3. QED
    BY <1>2, <2>1, <2>2
<1>3. ASSUME NEW d \in Caches \ {c}, WillHave(d, l)  PROVE Latest(l)' = Latest(l)
  <2>1. ~(Takes(c, o, r) /\ l = LineOf(o))
    BY <1>3, TakesUnique DEF CopiesInv
  <2>2. QED
    BY <1>2, <2>1
<1>4. InMemory(l)' <=> ToLine(memory, l) = Latest(l)'
  BY <1>0 DEF InMemory, Latest, ToLine
<1>5. QED
  BY <1>2, <1>3, <1>4

\* The thread's own lines after its turn are what the last stores left,
LEMMA CopyTurnOwn ==
    ASSUME BaseInv, BaseInv', RequestInv, CopiesInv, CopyData, FillData,
           NEW c \in Caches, NEW o, NEW r, CacheData(c, o, r),
           NEW l \in SharedLines, Copy(c, l)'
    PROVE  get_line(c, l)'.data = Latest(l)'
<1>0. /\ o \in Op /\ c \in Masters /\ LineOf(o) \in Lines /\ o.rng \subseteq LineAddr(LineOf(o))
      /\ l \in Lines /\ CacheTypeOK /\ AccessInv /\ SlotInv
  BY TurnParts DEF SharedLines, BaseInv, TypeOK
<1>1. PICK b : b = Base(c, o)
  OBVIOUS
<1>2. /\ b \in CacheLine /\ Serves(c, o, b, r) /\ (LostLine(c, o) => r.req = "Evict")
      /\ tx[c].kind = "MakeUnique" => Takes(c, o, r)
      /\ tx[c].phase = "resp" => /\ o = op[c] /\ op[c] # NoOp /\ RequestOk(c) /\ AsksRight(c)
      /\ tx[c].phase # "resp" => tx[c].phase = "idle" /\ tx[c].kind = "none"
  BY <1>1, BaseFacts
<1>3. /\ get_line(c, l)' = IF Index[l] = Index[LineOf(o)] THEN r.ln ELSE get_line(c, l)
      /\ tx'[c].kind = r.req
      /\ r.req \in CopyBackKinds => r.ln.valid /\ tx'[c].rng = LineAddr(r.ln.tag)
  BY <1>0, TurnNext
<1>4. in_cache(c, l)' /\ ~(tx'[c].kind = "Evict" /\ l \in LinesOf(tx'[c].rng))
  BY DEF Copy
<1>5. CASE Index[l] # Index[LineOf(o)]
  <2>1. get_line(c, l)' = get_line(c, l) /\ in_cache(c, l)
    BY <1>3, <1>4, <1>5 DEF in_cache
  <2>2. l # LineOf(o)
    BY <1>5
  <2>3. Latest(l)' = Latest(l)
    BY <1>0, <2>2, LatestTurn
  <2>4. Copy(c, l)
    <3>1. SUFFICES ASSUME tx[c].kind = "Evict", l \in LinesOf(tx[c].rng)  PROVE FALSE
      BY <2>1 DEF Copy
    <3>2. LineIn(c).valid /\ tx[c].rng = LineAddr(LineIn(c).tag) /\ o = op[c]
      BY <1>2, <3>1 DEF AsksRight, PayloadRange, CopyBackKinds
    <3>3. Holds(get_line(c, LineOf(o)), LineIn(c).tag)
      BY <3>2 DEF LineIn, Holds
    <3>4. Index[LineIn(c).tag] = Index[LineOf(o)] /\ LineIn(c).tag \in Lines
      BY <1>0, <3>3, SlotCopy
    <3>5. l = LineIn(c).tag
      BY <3>1, <3>2, <3>4, LineAddrFacts
    <3>6. QED
      BY <1>5, <3>4, <3>5
  <2>5. get_line(c, l).data \in LineData
    BY <1>0, SlotOf DEF CacheTypeOK, CacheLine, get_line
  <2>6. c \in Applied => \A w \in Words : <<l, w>> \notin op[c].rng
    BY <1>0, <1>2, <2>2 DEF Applied, LineAddr
  <2>7. QED
    BY <2>1, <2>3, <2>4, <2>5, <2>6, PlainView
<1>6. CASE Index[l] = Index[LineOf(o)]
  <2>1. get_line(c, l)' = r.ln /\ Holds(r.ln, l)
    BY <1>3, <1>4, <1>6 DEF in_cache
  <2>2. r.req # "Evict"
    BY <1>0, <1>3, <1>4, <2>1, LineAddrFacts DEF Holds, CopyBackKinds
  <2>3. ~LostLine(c, o)
    BY <1>2, <2>2
  <2>4. CASE ~Takes(c, o, r)
    <3>1. r.ln = b
      BY <1>2, <2>4 DEF Serves
    <3>2. b.data = Latest(l)
      BY <1>1, <1>2, <2>1, <2>3, <2>4, <3>1, BaseData
    <3>3. Latest(l)' = Latest(l)
      BY <1>0, <2>4, LatestTurn
    <3>4. QED
      BY <2>1, <3>1, <3>2, <3>3
  <2>5. CASE Takes(c, o, r)
    <3>1. Holds(b, LineOf(o)) /\ r.ln = StoredLine(b, o) /\ latest' = Stored(o)
      BY <1>2, <2>5 DEF Serves, CacheData
    <3>2. /\ r.ln \in CacheLine /\ r.ln.tag = b.tag
          /\ \A w \in Words : r.ln.data[w] = IF <<LineOf(o), w>> \in o.rng THEN o.val ELSE b.data[w]
      BY <1>0, <1>2, <3>1, StoredLineParts
    <3>3. l = LineOf(o)
      BY <2>1, <3>1, <3>2 DEF Holds
    <3>4. \A w \in Words : <<l, w>> \notin o.rng => b.data[w] = latest[<<l, w>>]
      <4>1. CASE tx[c].kind = "MakeUnique"
        <5>1. FullLine(o)
          <6>1. tx[c].phase = "resp"
            BY <1>2, <4>1
          <6>2. QED
            BY <1>2, <4>1, <6>1 DEF RequestOk, Fits
        <5>2. QED
          BY <3>3, <5>1 DEF FullLine, LineAddr
      <4>2. CASE tx[c].kind # "MakeUnique"
        <5>1. b.data = Latest(l)
          BY <1>1, <2>3, <3>1, <3>3, <4>2, BaseData
        <5>2. QED
          BY <5>1 DEF Latest, ToLine
      <4>3. QED
        BY <4>1, <4>2
    <3>5. \A w \in Words : <<l, w>> \in Addr
      BY <1>0 DEF Addr
    <3>6. \A w \in Words : latest'[<<l, w>>] = IF <<l, w>> \in o.rng THEN o.val ELSE latest[<<l, w>>]
      BY <3>1, <3>5 DEF Stored
    <3>7. \A w \in Words : r.ln.data[w] = latest'[<<l, w>>]
      BY <3>2, <3>3, <3>4, <3>6
    <3>8. r.ln.data \in LineData
      BY <3>2 DEF CacheLine
    <3>9. QED
      BY <2>1, <3>7, <3>8 DEF LineData, Latest, ToLine
  <2>6. QED
    BY <2>4, <2>5
<1>7. QED
  BY <1>5, <1>6

\* (BackCopy in the next state)
LEMMA BackCopyNext ==
    (BaseInv => \A c \in Caches, l \in Lines : WritesBack(c, l) =>
        /\ Copy(c, l) /\ get_line(c, l) = LineIn(c) /\ tx[c].rng = LineAddr(l)
        /\ LineIn(c).tag = l)'
<1>1. BaseInv => \A c \in Caches, l \in Lines : WritesBack(c, l) =>
        /\ Copy(c, l) /\ get_line(c, l) = LineIn(c) /\ tx[c].rng = LineAddr(l)
        /\ LineIn(c).tag = l
  BY BackCopy
<1>2. QED
  BY <1>1, PTL

\* those of others were not copies if it has stored: CopyData is kept,
LEMMA CopyTurn ==
    ASSUME BaseInv, BaseInv', RequestInv, CopiesInv, CopyData, FillData,
           NEW c \in Caches, NEW o, NEW r, CacheData(c, o, r)
    PROVE  CopyData'
<1>1. SUFFICES ASSUME NEW d \in Caches, NEW l \in SharedLines, Copy(d, l)'
               PROVE  View(d, l)' = Latest(l)'
  BY DEF CopyData, SharedLines
<1>2. l \in Lines /\ CacheTypeOK'
  BY DEF SharedLines, BaseInv, TypeOK
<1>3. CASE d = c
  <2>1. get_line(c, l)'.data = Latest(l)' /\ c \notin Applied'
    BY <1>1, <1>3, CopyTurnOwn, TurnNext
  <2>2. View(c, l)' = [w \in Words |-> get_line(c, l)'.data[w]]
    BY <2>1 DEF View
  <2>3. get_line(c, l)'.data = [w \in Words |-> latest'[<<l, w>>]]
    BY <2>1 DEF Latest, ToLine
  <2>4. View(c, l)' = [w \in Words |-> latest'[<<l, w>>]]
    BY <2>2, <2>3
  <2>5. QED
    BY <1>3, <2>4 DEF Latest, ToLine
<1>4. CASE d # c
  <2>1. Copy(d, l) /\ get_line(d, l)' = get_line(d, l)
    BY <1>1, <1>2, <1>4, TurnViews
  <2>2. d \in Masters /\ op'[d] = op[d] /\ tx'[d] = tx[d]
    BY <1>4, CachesAreMasters, TurnParts
  <2>3. View(d, l)' = View(d, l)
    BY <2>1, <2>2 DEF View, Applied
  <2>4. Latest(l)' = Latest(l)
    BY <1>2, <1>4, <2>1, LatestTurn DEF WillHave
  <2>5. QED
    BY <2>1, <2>3, <2>4 DEF CopyData
<1>5. QED
  BY <1>3, <1>4

\* and FillData, as nobody else fills a line that is unique,
LEMMA FillTurn ==
    ASSUME BaseInv, BaseInv', CopiesInv, FillData,
           NEW c \in Caches, NEW o, NEW r, CacheData(c, o, r)
    PROVE  FillData'
<1>1. SUFFICES ASSUME NEW d \in Caches, NEW l \in SharedLines, Fills(d, l)', tx'[d].kind # "MakeUnique"
               PROVE  ToLine(tx'[d].data, l) = Latest(l)'
  BY DEF FillData, SharedLines, ToLine
<1>2. l \in Lines
  BY DEF SharedLines
<1>3. d # c
  <2>1. tx'[c].phase \in {"idle", "req"}
    BY TurnNext
  <2>2. QED
    BY <1>1, <2>1 DEF Fills, Incoming
<1>4. Fills(d, l) /\ tx'[d] = tx[d]
  BY <1>1, <1>2, <1>3, TurnViews, TurnParts, CachesAreMasters DEF SameView
<1>5. Latest(l)' = Latest(l)
  BY <1>2, <1>3, <1>4, LatestTurn DEF WillHave
<1>6. QED
  BY <1>1, <1>4, <1>5 DEF FillData

\* and BackData: a copyback takes the line as it is,
LEMMA BackTurn ==
    ASSUME BaseInv, BaseInv', RequestInv, CopiesInv, CopyData, FillData, BackData,
           NEW c \in Caches, NEW o, NEW r, CacheData(c, o, r)
    PROVE  BackData'
<1>1. SUFFICES ASSUME NEW d \in Caches, NEW l \in SharedLines, WritesBack(d, l)'
               PROVE  IF tx'[d].phase = "resp" THEN InMemory(l)'
                                               ELSE ToLine(tx'[d].data, l) = Latest(l)'
  BY DEF BackData, SharedLines, ToLine
<1>2. l \in Lines /\ CacheTypeOK'
  BY DEF SharedLines, BaseInv, TypeOK
<1>3. CASE d = c
  <2>1. /\ tx'[c].kind = r.req /\ tx'[c].phase \in {"idle", "req"}
        /\ get_line(c, l)' = IF Index[l] = Index[LineOf(o)] THEN r.ln ELSE get_line(c, l)
        /\ r.ln.valid => r.ln.tag \in Lines /\ Index[r.ln.tag] = Index[LineOf(o)]
        /\ r.req \in CopyBackKinds => r.ln.valid /\ tx'[c].rng = LineAddr(r.ln.tag)
    BY <1>2, TurnNext
  <2>2. /\ r.req \in {"WriteBack", "WriteClean"} /\ r.req \in CopyBackKinds
        /\ l \in LinesOf(tx'[c].rng)
    BY <1>1, <1>3, <2>1 DEF WritesBack, CopyBackKinds
  <2>3. Copy(c, l)'
    BY <1>1, <1>2, <1>3, BackCopyNext
  <2>4. r.ln.tag = l /\ get_line(c, l)' = r.ln
    BY <2>1, <2>2, LineAddrFacts
  <2>5. r.ln.data = Latest(l)'
    BY <1>3, <2>3, <2>4, CopyTurnOwn
  <2>6. tx'[c].data = [a \in LineAddr(l) |-> r.ln.data[a[2]]]
    <3>1. o \in Op /\ r \in Result /\ tx'[c] = NextTx(o, r)
      BY TurnParts
    <3>2. QED
      BY <2>2, <2>4, <3>1, NextTxData
  <2>7. r.ln.data \in LineData
    BY TurnParts DEF CacheLine
  <2>8. ToLine(tx'[c].data, l) = r.ln.data
    BY <2>6, <2>7 DEF ToLine, LineAddr, LineData
  <2>9. QED
    BY <1>3, <2>1, <2>5, <2>8
<1>4. CASE d # c
  <2>1. tx'[d] = tx[d]
    BY <1>4, TurnParts, CachesAreMasters
  <2>2. WritesBack(d, l)
    BY <1>1, <2>1 DEF WritesBack
  <2>3. Copy(d, l)
    BY <2>2, BackCopy
  <2>4. Latest(l)' = Latest(l)
    BY <1>2, <1>4, <2>3, LatestTurn DEF WillHave
  <2>5. InMemory(l)' <=> InMemory(l)
    BY <1>2, <2>4, LatestTurn DEF InMemory, Latest
  <2>6. QED
    BY <2>1, <2>2, <2>4, <2>5 DEF BackData
<1>5. QED
  BY <1>3, <1>4

\* The responsibility for the line of the slot is there when the access goes
\* on, unless the line has been written back.
LEMMA BaseDirty ==
    ASSUME BaseInv, RequestInv, LinesInv, BackData, NEW c \in Caches, NEW o, NEW r, CacheData(c, o, r),
           NEW l \in SharedLines, WillBeDirty(c, l), Fills(c, l) \/ Index[l] = Index[LineOf(o)]
    PROVE  InMemory(l) \/ (Holds(Base(c, o), l) /\ Base(c, o).dirty /\ ~LostLine(c, o))
<1>0. /\ o \in Op /\ c \in Masters /\ LineOf(o) \in Lines /\ get_line(c, LineOf(o)) \in CacheLine
      /\ l \in Lines
  BY TurnParts DEF SharedLines
<1>1. PICK ln, t : ln = get_line(c, LineOf(o)) /\ t = tx[c]
  OBVIOUS
<1>2. /\ t.phase = "resp" => /\ o = op[c] /\ op[c] # NoOp /\ RequestOk(c) /\ AsksRight(c)
                             /\ t.kind \in TxKinds
      /\ t.phase # "resp" => t.phase = "idle" /\ t.kind = "none"
  BY <1>1, BaseFacts
<1>3. CASE Fills(c, l) /\ (t.kind = "MakeUnique" \/ (t.kind # "ReadClean" /\ t.dirty))
  <2>1. t.phase = "resp" /\ t.kind \in FillKinds /\ t.rng = LineAddr(l)
    BY <1>1, <1>3 DEF Fills, Incoming
  <2>2. t.kind \notin CopyBackKinds \cup UniqueWriteKinds \cup NoSnoopKinds \cup {"CleanUnique"}
    BY <2>1, KindClasses
  <2>3. t.rng = LineAddr(LineOf(o))
    BY <1>1, <1>2, <2>1, <2>2 DEF AsksRight, PayloadRange
  <2>4. l = LineOf(o)
    BY <1>0, <2>1, <2>3, LineAddrFacts
  <2>5. Base(c, o) = install(ln, l, t)
    BY <1>0, <1>1, <2>1, <2>4, BaseIs DEF Base
  <2>6. install(ln, l, t).valid /\ install(ln, l, t).tag = l /\ install(ln, l, t).dirty
    BY <1>0, <1>1, <1>3 DEF install, make_unique, read_fill, CacheLine
  <2>7. QED
    BY <1>1, <2>2, <2>5, <2>6 DEF Holds, LostLine
<1>4. CASE Copy(c, l) /\ get_line(c, l).dirty /\ Index[l] = Index[LineOf(o)]
  <2>1. ln = get_line(c, l) /\ Holds(ln, l) /\ ln.dirty /\ ln = get_line(c, LineOf(o))
    BY <1>1, <1>4 DEF get_line, Copy, in_cache
  <2>2. ~LostLine(c, o)
    BY <2>1 DEF LostLine, Holds
  <2>3. ln = LineIn(c) \/ t.phase # "resp"
    BY <1>1, <1>2 DEF LineIn
  <2>4. CASE t.phase # "resp"
    BY <1>1, <1>2, <2>1, <2>2, <2>4 DEF Base
  <2>5. CASE t.phase = "resp"
    <3>0. Base(c, o) = BaseLine(o, t, ln)
      BY <1>1, <2>5 DEF Base
    <3>1. CASE t.kind = "Evict"
      <4>1. t.rng = LineAddr(l)
        BY <1>1, <1>2, <2>1, <2>3, <2>5, <3>1 DEF AsksRight, PayloadRange, CopyBackKinds, Holds
      <4>2. QED
        BY <1>0, <1>1, <1>4, <3>1, <4>1, LineAddrFacts DEF Copy
    <3>2. CASE t.kind \in {"WriteBack", "WriteClean"}
      <4>1. t.rng = LineAddr(l)
        BY <1>1, <1>2, <2>1, <2>3, <2>5, <3>2 DEF AsksRight, PayloadRange, CopyBackKinds, Holds
      <4>2. WritesBack(c, l)
        BY <1>0, <1>1, <3>2, <4>1, LineAddrFacts DEF WritesBack
      <4>3. QED
        BY <1>1, <2>5, <4>2 DEF BackData
    <3>3. CASE t.kind = "CleanUnique"
      BY <1>0, <1>1, <2>1, <2>2, <3>0, <3>3, BaseIs DEF Holds
    <3>4. CASE t.kind \in UniqueWriteKinds
      <4>1. c \in WriteThroughCaches
        BY <1>1, <1>2, <2>5, <3>4 DEF RequestOk, Fits
      <4>2. ~ln.dirty
        BY <1>0, <1>1, <4>1, SlotOf DEF LinesInv, get_line
      <4>3. QED
        BY <2>1, <4>2
    <3>5. CASE t.kind \in FillKinds
      BY <1>1, <1>2, <2>1, <2>3, <2>5, <3>5 DEF RequestOk, Holds
    <3>6. CASE t.kind \in CmoKinds \cup NoSnoopKinds \cup {"ReadOnce"}
      BY <1>0, <1>1, <2>1, <2>2, <3>0, <3>6, BaseIs
    <3>7. QED
      BY <1>2, <2>5, <3>1, <3>2, <3>3, <3>4, <3>5, <3>6, KindClasses
  <2>6. QED
    BY <2>4, <2>5
<1>5. CASE Fills(c, l) /\ Copy(c, l) /\ get_line(c, l).dirty
  <2>1. t.phase = "resp" /\ t.kind \in FillKinds /\ t.rng = LineAddr(l)
    BY <1>1, <1>5 DEF Fills, Incoming
  <2>2. t.kind \notin CopyBackKinds \cup UniqueWriteKinds \cup NoSnoopKinds
    BY <2>1, KindClasses
  <2>3. t.rng = LineAddr(LineOf(o))
    BY <1>1, <1>2, <2>1, <2>2 DEF AsksRight, PayloadRange
  <2>4. l = LineOf(o)
    BY <1>0, <2>1, <2>3, LineAddrFacts
  <2>5. QED
    BY <1>4, <1>5, <2>4
<1>6. QED
  BY <1>1, <1>3, <1>4, <1>5 DEF WillBeDirty

\* Nor is it given up: a dirty line is not evicted.
LEMMA DirtyStays ==
    ASSUME BaseInv, BaseInv', RequestInv, NEW c \in Caches, NEW o, NEW r, CacheData(c, o, r),
           NEW l \in Lines, Holds(Base(c, o), l), Base(c, o).dirty, ~LostLine(c, o)
    PROVE  WillBeDirty(c, l)'
<1>1. PICK b : b = Base(c, o)
  OBVIOUS
<1>2. /\ b \in CacheLine /\ Serves(c, o, b, r)
      /\ r.req # "Evict" /\ o \in Op
  BY <1>1, BaseFacts, TurnParts
<1>3. r.ln.valid /\ r.ln.tag = l /\ r.ln.dirty
  <2>1. CASE Takes(c, o, r)
    <3>1. r.ln = StoredLine(b, o)
      BY <1>2, <2>1 DEF Serves
    <3>2. QED
      BY <1>1, <1>2, <3>1, StoredLineParts DEF Holds
  <2>2. CASE ~Takes(c, o, r)
    BY <1>1, <1>2, <2>2 DEF Serves, Holds
  <2>3. QED
    BY <2>1, <2>2
<1>4. /\ get_line(c, l)' = IF Index[l] = Index[LineOf(o)] THEN r.ln ELSE get_line(c, l)
      /\ Index[l] = Index[LineOf(o)] /\ tx'[c].kind = r.req
  BY <1>3, TurnNext
<1>5. Copy(c, l)' /\ get_line(c, l)' = r.ln
  BY <1>2, <1>3, <1>4 DEF Copy, in_cache, Holds
<1>6. QED
  BY <1>3, <1>5 DEF WillBeDirty

\* and MemoryInv: what a turn discards is clean or on its way back.
LEMMA MemoryTurn ==
    ASSUME BaseInv, BaseInv', RequestInv, LinesInv, CopiesInv, BackData, MemoryInv,
           NEW c \in Caches, NEW o, NEW r, CacheData(c, o, r)
    PROVE  MemoryInv'
<1>1. SUFFICES ASSUME NEW l \in SharedLines PROVE MemoryOk(l)'
  BY DEF MemoryInv, SharedLines
<1>2. /\ l \in Lines /\ MemoryOk(l) /\ o \in Op /\ LineOf(o) \in Lines
      /\ tx[c].phase \in {"idle", "resp"} /\ snoop' = snoop
      /\ \A x \in Masters \ {c} : tx'[x] = tx[x]
      /\ CacheTypeOK /\ AccessInv
  BY TurnParts DEF SharedLines, MemoryInv, CacheData, BaseInv, TypeOK
<1>3. CASE Takes(c, o, r) /\ l = LineOf(o)
  <2>1. PICK b : b = Base(c, o) /\ b \in CacheLine /\ Serves(c, o, b, r)
    BY BaseFacts
  <2>2. Holds(b, l) /\ r.ln = StoredLine(b, o) /\ r.req = "none"
    BY <1>3, <2>1 DEF Serves, Takes
  <2>3. r.ln.valid /\ r.ln.tag = l /\ r.ln.dirty
    BY <1>2, <2>1, <2>2, StoredLineParts DEF Holds
  <2>4. get_line(c, l)' = r.ln /\ tx'[c].kind = "none"
    BY <1>2, <1>3, <2>2, TurnNext
  <2>5. WillBeDirty(c, l)'
    BY <2>3, <2>4 DEF WillBeDirty, Copy, in_cache, Holds
  <2>6. QED
    BY <2>5 DEF MemoryOk
<1>4. CASE ~(Takes(c, o, r) /\ l = LineOf(o))
  <2>1. InMemory(l)' <=> InMemory(l)
    BY <1>2, <1>4, LatestTurn DEF InMemory, Latest
  <2>2. ASSUME NEW x \in Masters, DirtyUnderWay(x, l)  PROVE DirtyUnderWay(x, l)'
    <3>1. x # c
      BY <1>2, <2>2 DEF DirtyUnderWay
    <3>2. QED
      BY <1>2, <2>2, <3>1, SameStays, UnderWayKept
  <2>3. ASSUME NEW d \in Caches, d # c, WillBeDirty(d, l)  PROVE WillBeDirty(d, l)'
    BY <1>2, <2>3, TurnViews DEF SameView
  <2>4. ASSUME WillBeDirty(c, l), ~InMemory(l)  PROVE WillBeDirty(c, l)'
    <3>1. CASE Fills(c, l) \/ Index[l] = Index[LineOf(o)]
      BY <1>2, <2>4, <3>1, BaseDirty, DirtyStays
    <3>2. CASE ~Fills(c, l) /\ Index[l] # Index[LineOf(o)]
      <4>1. Copy(c, l) /\ get_line(c, l).dirty
        BY <2>4, <3>2 DEF WillBeDirty
      <4>2. /\ get_line(c, l)' = get_line(c, l) /\ tx'[c].kind = r.req
            /\ r.ln.valid => r.ln.tag \in Lines /\ Index[r.ln.tag] = Index[LineOf(o)]
            /\ r.req \in CopyBackKinds => r.ln.valid /\ tx'[c].rng = LineAddr(r.ln.tag)
        BY <1>2, <3>2, TurnNext
      <4>3. ~(tx'[c].kind = "Evict" /\ l \in LinesOf(tx'[c].rng))
        BY <3>2, <4>2, LineAddrFacts DEF CopyBackKinds
      <4>4. Copy(c, l)'
        BY <4>1, <4>2, <4>3 DEF Copy, in_cache
      <4>5. QED
        BY <4>1, <4>2, <4>4 DEF WillBeDirty
    <3>3. QED
      BY <3>1, <3>2
  <2>5. QED
    BY <1>2, <2>1, <2>2, <2>3, <2>4 DEF MemoryOk
<1>5. QED
  BY <1>3, <1>4

(***************************************************************************)
(* The data of the system: copies, fills, lines on their way back and the  *)
(* memory itself.                                                          *)
(***************************************************************************)
DataInv == CopyData /\ FillData /\ BackData /\ MemoryInv

\* Every step keeps DataInv.
LEMMA DataStep ==
    ASSUME BaseInv, BaseInv', ExclusiveInv, OverlapInv, RequestInv, LinesInv, LinesDisjoint,
           ExecFifo, OkInv, AnswerInv, GrantInv, ClearsInv, CopiesInv, CarryInv, DataInv,
           NothingDiscarded, [Next]_vars
    PROVE  DataInv'
<1>0. CopyData /\ FillData /\ BackData /\ MemoryInv
  BY DEF DataInv
<1>1. ASSUME NEW c \in Caches, NEW o, NEW r, CacheData(c, o, r)  PROVE DataInv'
  BY <1>0, <1>1, CopyTurn, FillTurn, BackTurn, MemoryTurn DEF DataInv
<1>2. ASSUME NEW m \in Masters \ Caches, LiteData(m)  PROVE DataInv'
  BY <1>0, <1>2, DataLite DEF DataInv
<1>3. ASSUME NEW m \in Masters, NEW l \in Lines, NEW c \in Caches,
             SnoopMaster(m, l, c), UNCHANGED <<latest, memory>>
      PROVE  DataInv'
  BY <1>0, <1>3, CopySnoop, MemorySnoop DEF DataInv
<1>4. ASSUME IcnData  PROVE DataInv'
  BY <1>0, <1>4, CopyIcn, FillIcn, BackIcn, MemoryIcn DEF DataInv
<1>5. QED
  BY <1>1, <1>2, <1>3, <1>4, DataKinds

\* All that the data of a line depends on.
WholeInv ==
    /\ ExclusiveInv /\ RequestInv /\ LinesInv /\ ExecFifo /\ FrontInv
    /\ OkInv /\ AnswerInv /\ ClearsInv /\ CarryInv /\ DataInv

\* At first memory and the last values are the same, and nothing is cached.
LEMMA WholeInit == Init => WholeInv
<1>1. SUFFICES ASSUME Init  PROVE WholeInv
  OBVIOUS
<1>2. ExclusiveInv
  BY <1>1, ExclusiveInit
<1>3. /\ \A m \in Masters : tx[m] = NoTx /\ op[m] = NoOp
      /\ \A m \in Masters, l \in Lines : snoop[m][l] = NoSnoop
      /\ downstream = <<>>
      /\ \A a \in Addr : memory[a] = latest[a]
      /\ \A c \in Caches, i \in Slots : ~cacheline[c][i].valid /\ ~cacheline[c][i].dirty
  BY <1>1 DEF Init, IcnInit, CacheInit
<1>4. \A m \in Masters : /\ tx[m].phase = "idle" /\ tx[m].kind = "none"
                         /\ ~tx[m].ok /\ ~tx[m].shared /\ ~tx[m].dirty
  BY <1>3 DEF NoTx
<1>5. \A m \in Masters, l \in Lines : snoop[m][l].back = {} /\ ~snoop[m][l].exec
  BY <1>3 DEF NoSnoop
<1>6. \A m \in Caches : m \in Masters
  BY CachesAreMasters
<1>7. RequestInv
  BY <1>3, CachesAreMasters DEF RequestInv
<1>8. LinesInv
  BY <1>3 DEF LinesInv
<1>9. ExecFifo
  BY <1>3 DEF ExecFifo, Range
<1>10. FrontInv
  BY <1>4, <1>6 DEF FrontInv, Answering
<1>11. OkInv
  BY <1>4 DEF OkInv, OkOk
<1>12. AnswerInv
  BY <1>5 DEF AnswerInv
<1>13. ClearsInv
  BY <1>4 DEF ClearsInv, ClearsOk
<1>14. CarryInv
  <2>1. SUFFICES ASSUME NEW m \in Masters, NEW l \in SharedLines  PROVE CarryOk(m, l)
    BY DEF CarryInv
  <2>2. l \in Lines
    BY DEF SharedLines
  <2>3. ~Carries(m, l)
    BY <1>4, <1>5, <2>2 DEF Carries, Brought, Merged, Cleaning
  <2>4. QED
    BY <2>3, CarryNone
<1>15. CopyData
  <2>1. SUFFICES ASSUME NEW c \in Caches, NEW l \in SharedLines  PROVE ~Copy(c, l)
    BY DEF CopyData
  <2>2. Index[l] \in Slots
    BY SlotOf DEF SharedLines
  <2>3. QED
    BY <1>3, <2>2 DEF Copy, in_cache, Holds, get_line
<1>16. FillData
  BY <1>4, <1>6 DEF FillData, Fills, Incoming
<1>17. BackData
  BY <1>4, <1>6 DEF BackData, WritesBack
<1>18. MemoryInv
  <2>1. SUFFICES ASSUME NEW l \in SharedLines  PROVE InMemory(l)
    BY DEF MemoryInv, MemoryOk
  <2>2. \A w \in Words : <<l, w>> \in Addr
    BY DEF SharedLines, Addr
  <2>3. QED
    BY <1>3, <2>2 DEF InMemory, ToLine
<1>19. QED
  BY <1>2, <1>7, <1>8, <1>9, <1>10, <1>11, <1>12, <1>13, <1>14, <1>15, <1>16, <1>17, <1>18
     DEF WholeInv, DataInv

\* Every step keeps all of it.
LEMMA WholeStep ==
    ASSUME OneExclusiveUser, LinesMeet, NothingDiscarded,
           BaseInv, BaseInv', OngoingDisjoint, OverlapInv, LockHasOwner, CopiesInv, GrantInv,
           WholeInv, [Next]_vars
    PROVE  WholeInv'
<1>1. /\ ExclusiveInv /\ RequestInv /\ LinesInv /\ ExecFifo /\ FrontInv
      /\ OkInv /\ AnswerInv /\ ClearsInv /\ CarryInv /\ DataInv /\ CopyData
  BY DEF WholeInv, DataInv
<1>2. LinesDisjoint
  BY <1>1, LinesApart
<1>3. ExclusiveInv'
  BY <1>1, ExclusiveStep
<1>4. RequestInv'
  BY <1>1, RequestStep
<1>5. LinesInv'
  BY <1>1, LinesStep
<1>6. ExecFifo'
  BY <1>1, ExecStep
<1>7. FrontInv'
  BY <1>1, <1>2, FrontStep
<1>8. OkInv'
  BY <1>1, OkStep
<1>9. AnswerInv'
  BY <1>1, AnswerStep
<1>10. ClearsInv'
  BY <1>1, <1>2, ClearsStep
<1>11. CarryInv'
  BY <1>1, <1>2, CarryStep
<1>12. DataInv'
  BY <1>1, <1>2, DataStep
<1>13. QED
  BY <1>3, <1>4, <1>5, <1>6, <1>7, <1>8, <1>9, <1>10, <1>11, <1>12 DEF WholeInv

\* The inductive invariant of the data. It rests on who may hold a line (SpecCoherence).
LEMMA SpecWhole ==
    ASSUME OneExclusiveUser, LinesMeet, NothingDiscarded
    PROVE  Spec => []WholeInv
<1>1. Init => WholeInv
  BY WholeInit
<1>2. /\ BaseInv /\ BaseInv' /\ OngoingDisjoint /\ OverlapInv /\ LockHasOwner
      /\ CopiesInv /\ GrantInv /\ WholeInv /\ [Next]_vars
      => WholeInv'
  BY OneExclusiveUser, LinesMeet, NothingDiscarded, WholeStep
<1>3. Spec => [](CopiesInv /\ GrantInv)
  BY OneExclusiveUser, SpecCoherence
<1>4. QED
  BY <1>1, <1>2, <1>3, SpecBase, SpecOngoingDisjoint, SpecOverlap, SpecLockHasOwner, PTL DEF Spec

(***************************************************************************)
(* CopiesAreCurrent for every number of caches, masters, lines and words:  *)
(* a hit in cache_ace (handle_load, handle_store) finds the last value     *)
(* stored by anyone, whether it was stored in a cache or downstream by a   *)
(* write-through, and whatever snoops, fills, evictions and write-backs    *)
(* have moved it since.                                                    *)
(*                                                                         *)
(* The code needs the three hypotheses.  OneExclusiveUser: a failed        *)
(* exclusive CleanUnique leaves a line unique that others hold.            *)
(* LinesMeet: is_overlapping (iconnect-ace.h:849) compares byte ranges, so *)
(* two masters may write different words of one line at the same time, and *)
(* the line that the snoops of one have brought is written over the word   *)
(* of the other.  NothingDiscarded: CleanInvalid (cache-ace.h:885) drops a *)
(* line that the cache itself holds dirty, and MakeInvalid any dirty line. *)
(***************************************************************************)
THEOREM SpecCopiesAreCurrent ==
    ASSUME OneExclusiveUser, LinesMeet, NothingDiscarded
    PROVE  Spec => []CopiesAreCurrent
<1>1. BaseInv /\ WholeInv => CopiesAreCurrent
  <2>1. SUFFICES ASSUME BaseInv, WholeInv, NEW c \in Caches \ Applied, NEW l \in Lines, HasCopy(c, l)
                 PROVE  get_line(c, l).data = ToLine(latest, l)
    BY DEF CopiesAreCurrent
  <2>2. Copy(c, l) /\ in_cache(c, l)
    BY <2>1 DEF HasCopy, Copy
  <2>3. Index[l] \in Slots /\ LinesInv /\ CopyData /\ CacheTypeOK
    BY <2>1, SlotOf DEF WholeInv, DataInv, BaseInv, TypeOK
  <2>4. l \in SharedLines
    BY <2>2, <2>3 DEF LinesInv, in_cache, Holds, get_line, SharedLines
  <2>5. get_line(c, l).data \in LineData
    BY <2>3 DEF CacheTypeOK, CacheLine, get_line
  <2>6. get_line(c, l).data = Latest(l)
    BY <2>2, <2>3, <2>4, <2>5, PlainView
  <2>7. QED
    BY <2>6 DEF Latest
<1>2. Spec => []WholeInv
  BY OneExclusiveUser, LinesMeet, NothingDiscarded, SpecWhole
<1>3. QED
  BY <1>1, <1>2, SpecBase, PTL
=============================================================================
