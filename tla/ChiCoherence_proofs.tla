------------------------ MODULE ChiCoherence_proofs ------------------------
(***************************************************************************)
(* Coherence of the CHI caches: a line that is not shared is the only      *)
(* copy, and the snoop filter of a port lists every line that the cache    *)
(* behind it holds.  ChiSystem keeps ChiUniqueIsAlone and                  *)
(* FilterCoversHolders for every set of caches and lines, and every load.  *)
(*                                                                         *)
(* A cache gets or upgrades a line only by the answer to a request that    *)
(* the home node is serving, and everything else that happens to a line    *)
(* leaves it weaker.  So the invariant says, for the one request that is   *)
(* being served, what the other caches have left of its line: nothing     *)
(* before they have answered the snoop, little enough afterwards, and the  *)
(* data on the way to the requester knows of what is left.                 *)
(*                                                                         *)
(* On top of that, ChiTypeOK: the data of a line keeps its type on every   *)
(* channel, and a line that is valid, clean and partly filled never comes  *)
(* about.                                                                  *)
(***************************************************************************)
EXTENDS ChiPhases_proofs

\* The requests after which the requester holds the line.
Granting == Fills \cup Upgrading
\* Those that leave no other copy.
Uniquely == Upgrading \cup {"ReadUnique"}
EvictOps == {"WriteBackFull", "WriteBackPtl", "WriteEvictFull", "Evict"}

(***************************************************************************)
(* A cache and its own transaction.                                        *)
(***************************************************************************)
LineFields == {"valid", "tag", "shared", "dirty", "be", "data"}
IsLine(l) == DOMAIN l = LineFields
LineShape == /\ DOMAIN line = Requesters /\ DOMAIN filter = Requesters
             /\ \A r \in Requesters : IsLine(line[r])

Holds(c, l) == line[c].valid /\ line[c].tag = l
\* The lines that it makes loads and stores of.
Cacheable(c) == {o.line : o \in {p \in mode.traffic[c] : IsCached(p)}}
SendsCopyBack(c) == up[c].dat # <<>> /\ up[c].dat[1].t = "CopyBackWrData"

CacheOk(c) ==
    /\ line[c].valid => line[c].tag \in Cacheable(c)
    /\ txn[c].op \in Granting => txn[c].line \in Cacheable(c)
    /\ txn[c].op = "ReadNoSnp" => txn[c].line \notin Cacheable(c)
    /\ txn[c].op \in ReadOnces \cup {"Evict"} => ~line[c].valid
    /\ txn[c].op \notin Informing \ {"Evict"}
    /\ access[c].kind = "none" => stage[c] = "loop"
    /\ stage[c] \in {"part2", "main"} => access[c].line \in Cacheable(c)
    /\ stage[c] = "main" => txn[c].op \in EvictOps \cup {"none"}
    /\ stage[c] = "main" /\ txn[c].op = "none" => ~line[c].valid
    /\ SendsCopyBack(c) => ~line[c].valid \/ txn[c].op = "WriteCleanFull"
\* The address of a DVM operation, which is its parameters, is not that of a
\* line that a cache may hold.
Elsewhere(t) == t.op = "DVMOp" => \A c \in Caches : t.line \notin Cacheable(c)
CacheInv == /\ \A c \in Caches : CacheOk(c)
            /\ \A r \in Requesters : Elsewhere(txn[r])

(***************************************************************************)
(* The caches among each other, and the snoop filters.                     *)
(***************************************************************************)
AloneInv ==
    \A c, d \in Caches, l \in Lines :
        c # d /\ Holds(c, l) /\ Holds(d, l) => line[c].shared /\ line[d].shared

\* The line has come, and the home node has not yet heard of it.
Granted(c) == /\ src = c /\ cur.op \in Granting /\ cur.line = line[c].tag
              /\ up[c].rsp = <<CompAck>>
FilterInv == \A c \in Caches : line[c].valid => line[c].tag \in filter[c] \/ Granted(c)

(***************************************************************************)
(* The other caches know of the request that is being served: those that   *)
(* have answered have no more of the line than the requester may leave     *)
(* them, and the home node and the data that the requester gets say so.    *)
(***************************************************************************)
Reduced(q, d) == Holds(d, q.line) => q.op \notin Uniquely /\ line[d].shared

AnswerOk(d, m) ==
    /\ m.st = "I" => ~Holds(d, cur.line)
    /\ cur.op \in Granting =>
          /\ Reduced(cur, d)
          /\ m.t \in {"SnpRespFwded", "SnpRespDataFwded"} /\ Holds(d, cur.line) => m.fst = "SC"
Confirmed(d) == /\ up[d].rsp # <<>> => AnswerOk(d, up[d].rsp[1])
                /\ up[d].dat # <<>> => AnswerOk(d, up[d].dat[1])
AnswersInv == cur.op # "DVMOp" => \A d \in Caches \cap cur.waiting : Confirmed(d)

SharedKnown(q) == IF q.waiting # {} THEN q.shared ELSE q.fwded \/ q.snpResp = "SC"
Known(q) ==
    q.op \in Granting =>
        /\ \A d \in Caches \ ({q.src} \cup q.waiting) :
              Holds(d, q.line) => Reduced(q, d) /\ SharedKnown(q)
        \* A forwarding snoop goes to one cache, so nothing is known before.
        /\ q.fwd /\ q.waiting # {} => ~q.shared
KnownInv == Known(cur)

SharedData(m) == m.st \in {"SC", "SD"}
DataInv ==
    cur.op \in Granting => \A d \in Caches \ ({src} \cup cur.waiting) : Holds(d, cur.line) =>
        /\ down[src].dat # <<>> => SharedData(down[src].dat[1])
        /\ \A e \in Requesters \ {src} :
              up[e].dat # <<>> /\ up[e].dat[1].t = "CompData" => SharedData(up[e].dat[1])

CopiesInv == AloneInv /\ FilterInv /\ AnswersInv /\ KnownInv /\ DataInv

CohInv == LineShape /\ CacheInv /\ CopiesInv

(***************************************************************************)
(* What a snoop leaves of a line.                                          *)
(***************************************************************************)
\* Line k is what is left of line l: nothing, or the line and no more of it.
Leaves(l, k) ==
    /\ IsLine(k)
    /\ k.valid => l.valid /\ k.tag = l.tag /\ (l.shared => k.shared)

LEMMA LineIs ==
    ASSUME NEW l, IsLine(l)
    PROVE  /\ Leaves(l, l)
           /\ Leaves(l, Invalid(l)) /\ ~Invalid(l).valid
           /\ Leaves(l, Shared(l)) /\ Shared(l).shared
           /\ Leaves(l, Clean(l))
           /\ Leaves(l, Shared(Clean(l))) /\ Shared(Clean(l)).shared
  BY DEF IsLine, LineFields, Leaves, Invalid, Shared, Clean

LEMMA StatusIs ==
    ASSUME NEW l, l.valid
    PROVE  /\ GetStatus(l) \in {"SC", "SD", "UC", "UD", "UDP", "UCE"}
           /\ GetStatus(l) = "SD" => l.shared
  BY DEF GetStatus

\* The answer a to a snoop of line l.
Told(a, l) == Leaves(l, a.line) /\ (a.st = "I" => ~a.line.valid)

LEMMA ToldOnce ==
    ASSUME NEW l, IsLine(l), NEW st \in {"SC", "SD", "UC", "UD", "UDP", "UCE"}
    PROVE  Told(HandleSnpOnce(l, st), l) /\ Told(HandleSnpOnceFwd(l, st), l)
  <1>1. Told(HandleSnpOnce(l, st), l)
    <2>1. /\ HandleSnpOnce(l, st).line = l
          /\ HandleSnpOnce(l, st).st # "I"
      BY DEF HandleSnpOnce, SnpResp, SnpRespData, SnpRespDataPtl, SnpRespFwded,
             SnpRespDataFwded, Reply
    <2> QED BY <2>1, LineIs DEF Told
  <1>2. Told(HandleSnpOnceFwd(l, st), l)
    <2>1. /\ HandleSnpOnceFwd(l, st).line = l
          /\ HandleSnpOnceFwd(l, st).st # "I"
      BY DEF HandleSnpOnceFwd, SnpResp, SnpRespData, SnpRespDataPtl, SnpRespFwded,
             SnpRespDataFwded, Reply
    <2> QED BY <2>1, LineIs DEF Told
  <1> QED BY <1>1, <1>2

LEMMA ToldUnique ==
    ASSUME NEW l, IsLine(l), NEW st
    PROVE  \A a \in {HandleSnpUnique(l, st), HandleSnpUniqueFwd(l, st),
                     HandleSnpCleanInvalid(l, st), HandleSnpMakeInvalid(l, st)} :
              Told(a, l) /\ ~a.line.valid
  <1>1. HandleSnpUnique(l, st).line = Invalid(l)
    BY DEF HandleSnpUnique, SnpResp, SnpRespData, SnpRespDataPtl, SnpRespFwded,
             SnpRespDataFwded, Reply
  <1>2. HandleSnpUniqueFwd(l, st).line = Invalid(l)
    BY DEF HandleSnpUniqueFwd, SnpResp, SnpRespData, SnpRespDataPtl, SnpRespFwded,
             SnpRespDataFwded, Reply
  <1>3. HandleSnpCleanInvalid(l, st).line = Invalid(l)
    BY DEF HandleSnpCleanInvalid, SnpResp, SnpRespData, SnpRespDataPtl, SnpRespFwded,
             SnpRespDataFwded, Reply
  <1>4. HandleSnpMakeInvalid(l, st).line = Invalid(l)
    BY DEF HandleSnpMakeInvalid, SnpResp, SnpRespData, SnpRespDataPtl, SnpRespFwded,
             SnpRespDataFwded, Reply
  <1> QED BY <1>1, <1>2, <1>3, <1>4, LineIs DEF Told

LEMMA ToldClean ==
    ASSUME NEW l, IsLine(l), NEW st, st = "SD" => l.shared
    PROVE  \A a \in {HandleSnpClean(l, st), HandleSnpCleanFwd(l, st)} :
              /\ Told(a, l) /\ (a.line.valid => a.line.shared)
              /\ a.t \in Fwded => a.fst = "SC"
  <1>1. HandleSnpClean(l, st).t \notin Fwded
    BY DEF HandleSnpClean, Fwded, SnpResp, SnpRespData, SnpRespDataPtl, SnpRespFwded,
             SnpRespDataFwded, Reply
  <1>2. HandleSnpCleanFwd(l, st).t \in Fwded => HandleSnpCleanFwd(l, st).fst = "SC"
    BY DEF HandleSnpCleanFwd, Fwded, SnpResp, SnpRespData, SnpRespDataPtl, SnpRespFwded,
             SnpRespDataFwded, Reply
  <1>3. \/ HandleSnpClean(l, st).line = Invalid(l)
        \/ HandleSnpClean(l, st).line = Clean(l) /\ l.shared /\ HandleSnpClean(l, st).st = "SC"
        \/ HandleSnpClean(l, st).line = Shared(l) /\ HandleSnpClean(l, st).st = "SC"
    BY DEF HandleSnpClean, SnpResp, SnpRespData, SnpRespDataPtl, SnpRespFwded,
             SnpRespDataFwded, Reply
  <1>4. \/ HandleSnpCleanFwd(l, st).line = Invalid(l)
        \/ HandleSnpCleanFwd(l, st).line = Shared(Clean(l)) /\ HandleSnpCleanFwd(l, st).st = "SC"
    BY DEF HandleSnpCleanFwd, SnpResp, SnpRespData, SnpRespDataPtl, SnpRespFwded,
             SnpRespDataFwded, Reply
  <1>5. Clean(l).shared = l.shared
    BY DEF Clean, IsLine, LineFields
  <1>6. Told(HandleSnpClean(l, st), l)
        /\ (HandleSnpClean(l, st).line.valid => HandleSnpClean(l, st).line.shared)
    BY <1>3, <1>5, LineIs DEF Told
  <1>7. Told(HandleSnpCleanFwd(l, st), l)
        /\ (HandleSnpCleanFwd(l, st).line.valid => HandleSnpCleanFwd(l, st).line.shared)
    BY <1>4, LineIs DEF Told
  <1> QED BY <1>1, <1>2, <1>6, <1>7

LEMMA ToldOther ==
    ASSUME NEW l, IsLine(l), NEW st \in {"SC", "SD", "UC", "UD", "UDP", "UCE"}
    PROVE  \A a \in {HandleSnpCleanShared(l, st), HandleSnpUniqueStash(l, st),
                     HandleSnpMakeInvalidStash(l, st), HandleSnpStashUnique(l, st),
                     HandleSnpStashShared(l, st)} : Told(a, l)
  <1>1. Told(HandleSnpCleanShared(l, st), l)
    <2>1. \/ HandleSnpCleanShared(l, st).line = Invalid(l)
          \/ HandleSnpCleanShared(l, st).line \in {l, Clean(l)} /\ HandleSnpCleanShared(l, st).st # "I"
      BY DEF HandleSnpCleanShared, SnpResp, SnpRespData, SnpRespDataPtl, SnpRespFwded,
             SnpRespDataFwded, Reply
    <2> QED BY <2>1, LineIs DEF Told
  <1>2. /\ HandleSnpUniqueStash(l, st).line = Invalid(l)
        /\ HandleSnpMakeInvalidStash(l, st).line = Invalid(l)
    BY DEF HandleSnpUniqueStash, HandleSnpMakeInvalidStash, HandleSnpCleanInvalid,
           HandleSnpMakeInvalid, SnpResp, SnpRespData, SnpRespDataPtl, Reply
  <1>3. /\ HandleSnpStashUnique(l, st).line = l /\ HandleSnpStashShared(l, st).line = l
        /\ HandleSnpStashUnique(l, st).st # "I" /\ HandleSnpStashShared(l, st).st # "I"
    BY DEF HandleSnpStashUnique, HandleSnpStashShared, SnpResp, Reply
  <1> QED BY <1>1, <1>2, <1>3, LineIs DEF Told

\* The answer to the snoop that a request causes: it reports an invalid line
\* only if nothing is left, and leaves what the request allows.
LEMMA SnoopLeaves ==
    ASSUME NEW l, IsLine(l), l.valid, NEW op \in Snooping,
           NEW snp \in {SnoopOf(op), FwdOf(SnoopOf(op))}, NEW a,
           a = SnpReply(snp, l, GetStatus(l))
    PROVE  /\ Told(a, l)
           /\ op \in Uniquely => ~a.line.valid
           /\ op \in Granting => /\ a.line.valid => a.line.shared
                                 /\ a.t \in Fwded /\ a.line.valid => a.fst = "SC"
  <1>1. PICK st \in {"SC", "SD", "UC", "UD", "UDP", "UCE"} : st = GetStatus(l) /\ (st = "SD" => l.shared)
    BY StatusIs
  <1>2. CASE snp \in {"SnpOnce", "SnpOnceFwd"}
    <2>1. Told(a, l)
      BY <1>1, <1>2, ToldOnce DEF SnpReply
    <2>2. op \notin Granting \cup Uniquely
      BY <1>2 DEF SnoopOf, FwdOf, Granting, Uniquely, Fills, Upgrading
    <2> QED BY <2>1, <2>2
  <1>3. CASE snp \in {"SnpUnique", "SnpUniqueFwd", "SnpCleanInvalid", "SnpMakeInvalid"}
    BY <1>1, <1>3, ToldUnique DEF SnpReply
  <1>4. CASE snp \in {"SnpClean", "SnpShared", "SnpNotSharedDirty", "SnpCleanFwd",
                      "SnpNotSharedDirtyFwd", "SnpSharedFwd"}
    <2>1. a \in {HandleSnpClean(l, st), HandleSnpCleanFwd(l, st)}
      BY <1>1, <1>4 DEF SnpReply, HandleSnpNotSharedDirtyFwd, HandleSnpSharedFwd
    <2>2. op \notin Uniquely
      BY <1>4 DEF SnoopOf, FwdOf, Uniquely, Upgrading
    <2> QED BY <1>1, <2>1, <2>2, ToldClean
  <1>5. CASE snp \in {"SnpCleanShared", "SnpUniqueStash", "SnpMakeInvalidStash", "SnpStashUnique",
                      "SnpStashShared"}
    <2>1. Told(a, l)
      BY <1>1, <1>5, ToldOther DEF SnpReply
    <2>2. op \notin Granting \cup Uniquely
      BY <1>5 DEF SnoopOf, FwdOf, Granting, Uniquely, Fills, Upgrading
    <2> QED BY <2>1, <2>2
  <1>6. snp \in {"SnpOnce", "SnpOnceFwd", "SnpUnique", "SnpUniqueFwd", "SnpCleanInvalid",
                 "SnpMakeInvalid", "SnpClean", "SnpShared", "SnpNotSharedDirty", "SnpCleanFwd",
                 "SnpNotSharedDirtyFwd", "SnpSharedFwd", "SnpCleanShared", "SnpUniqueStash",
                 "SnpMakeInvalidStash", "SnpStashUnique", "SnpStashShared"}
    <2>1. SnoopOf(op) \in {"SnpOnce", "SnpUnique", "SnpCleanInvalid", "SnpMakeInvalid", "SnpClean",
                           "SnpShared", "SnpNotSharedDirty", "SnpCleanShared", "SnpUniqueStash",
                           "SnpMakeInvalidStash", "SnpStashUnique", "SnpStashShared"}
      BY Classes DEF SnoopOf, Snooping, ReadOnces, Fills, Upgrading, Informing, UniqueWrites, Swapping
    <2> QED BY <2>1 DEF FwdOf
  <1> QED BY <1>2, <1>3, <1>4, <1>5, <1>6

(***************************************************************************)
(* Steps that give no cache anything of a line.                            *)
(***************************************************************************)
LEMMA LessHeld ==
    ASSUME NEW c, Leaves(line[c], line'[c])
    PROVE  \A l : Holds(c, l)' => Holds(c, l) /\ (line[c].shared => line'[c].shared)
  BY DEF Leaves, Holds

LEMMA CacheStays ==
    ASSUME NEW c \in Caches, CacheOk(c), Leaves(line[c], line'[c]), UNCHANGED mode,
           access'[c] = access[c], stage'[c] = stage[c],
           txn'[c].op = txn[c].op, txn'[c].line = txn[c].line,
           SendsCopyBack(c)' => SendsCopyBack(c)
    PROVE  CacheOk(c)'
  <1>1. Cacheable(c)' = Cacheable(c)
    BY DEF Cacheable
  <1>2. line'[c].valid => line[c].valid /\ line'[c].tag = line[c].tag
    BY DEF Leaves
  <1> QED BY <1>1, <1>2 DEF CacheOk

SameReq ==
    /\ cur'.op = cur.op /\ cur'.src = cur.src /\ cur'.line = cur.line
    /\ cur'.waiting = cur.waiting /\ cur'.shared = cur.shared /\ cur'.fwded = cur.fwded
    /\ cur'.snpResp = cur.snpResp /\ cur'.fwd = cur.fwd

\* The request that is being served is the same; the caches that are snooped
\* for it and the requester have not said or heard anything new.
LEMMA CopiesStay ==
    ASSUME CopiesInv, SameReq, \A c \in Caches : Leaves(line[c], line'[c]),
           \A c \in Caches : line'[c].valid /\ line[c].tag \in filter[c]
                                => line[c].tag \in filter'[c],
           cur.op # "DVMOp" => \A d \in Caches \cap cur.waiting :
                 (up'[d].rsp = up[d].rsp /\ up'[d].dat = up[d].dat) \/ Confirmed(d)',
           cur.op \in Granting =>
              /\ down'[src].dat \in {<<>>, down[src].dat}
              /\ up[src].rsp = <<CompAck>> => up'[src].rsp = <<CompAck>>
              /\ \A e \in Requesters \ {src} :
                    \/ up'[e].dat = up[e].dat
                    \/ up'[e].dat # <<>> => up'[e].dat[1].t # "CompData"
    PROVE  CopiesInv'
  <1>1. \A c \in Caches : \A l : Holds(c, l)' => Holds(c, l) /\ (line[c].shared => line'[c].shared)
    BY LessHeld
  <1>2. src' = src /\ cur'.op = cur.op /\ cur'.line = cur.line /\ cur'.waiting = cur.waiting
    BY DEF SameReq, src
  <1>3. \A d \in Caches : Reduced(cur, d) => Reduced(cur, d)'
    BY <1>1, <1>2 DEF Reduced
  <1>4. AloneInv'
    BY <1>1 DEF CopiesInv, AloneInv
  <1>5. FilterInv'
    <2> SUFFICES ASSUME NEW c \in Caches, line'[c].valid
                 PROVE  line'[c].tag \in filter'[c] \/ Granted(c)'
      BY DEF FilterInv
    <2>1. line[c].valid /\ line'[c].tag = line[c].tag
      BY DEF Leaves
    <2>2. CASE line[c].tag \in filter[c]
      BY <2>1, <2>2
    <2>3. CASE Granted(c)
      BY <1>2, <2>1, <2>3 DEF Granted
    <2> QED BY <2>1, <2>2, <2>3 DEF CopiesInv, FilterInv
  <1>6. AnswersInv'
    <2> SUFFICES ASSUME cur'.op # "DVMOp", NEW d \in Caches \cap cur'.waiting,
                        up'[d].rsp = up[d].rsp /\ up'[d].dat = up[d].dat
                 PROVE  Confirmed(d)'
      BY <1>2 DEF AnswersInv
    <2>2. /\ up[d].rsp # <<>> => AnswerOk(d, up[d].rsp[1])
          /\ up[d].dat # <<>> => AnswerOk(d, up[d].dat[1])
      <3>1. Confirmed(d)
        BY <1>2 DEF CopiesInv, AnswersInv
      <3> QED BY <3>1 DEF Confirmed
    <2>3. ASSUME NEW m, AnswerOk(d, m)
          PROVE  /\ m.st = "I" => ~Holds(d, cur.line)'
                 /\ cur'.op \in Granting =>
                       /\ Reduced(cur, d)'
                       /\ m.t \in Fwded /\ Holds(d, cur.line)' => m.fst = "SC"
      BY <1>1, <1>2, <1>3, <2>3 DEF AnswerOk, Fwded
    <2> QED BY <2>2, <2>3 DEF Confirmed, AnswerOk, Fwded
  <1>7. KnownInv'
    <2>1. ASSUME cur'.op \in Granting, NEW d \in Caches \ ({cur'.src} \cup cur'.waiting),
                 Holds(d, cur.line)'
          PROVE  Reduced(cur, d)' /\ SharedKnown(cur)'
      <3>1. Reduced(cur, d) /\ SharedKnown(cur)
        BY <1>1, <1>2, <2>1 DEF CopiesInv, KnownInv, Known, src
      <3> QED BY <1>3, <3>1 DEF SameReq, SharedKnown
    <2>2. cur'.op \in Granting /\ cur'.fwd /\ cur'.waiting # {} => ~cur'.shared
      BY DEF CopiesInv, KnownInv, Known, SameReq
    <2> QED BY <2>1, <2>2 DEF KnownInv, Known
  <1>8. DataInv'
    <2> SUFFICES ASSUME cur'.op \in Granting, NEW d \in Caches \ ({src'} \cup cur'.waiting),
                        Holds(d, cur.line)'
                 PROVE  /\ down'[src'].dat # <<>> => SharedData(down'[src'].dat[1])
                        /\ \A e \in Requesters \ {src'} :
                              up'[e].dat # <<>> /\ up'[e].dat[1].t = "CompData"
                                 => SharedData(up'[e].dat[1])
      BY DEF DataInv, SharedData
    <2>1. /\ down[src].dat # <<>> => SharedData(down[src].dat[1])
          /\ \A e \in Requesters \ {src} :
                up[e].dat # <<>> /\ up[e].dat[1].t = "CompData" => SharedData(up[e].dat[1])
      BY <1>1, <1>2 DEF CopiesInv, DataInv
    <2> QED BY <1>2, <2>1
  <1> QED BY <1>4, <1>5, <1>6, <1>7, <1>8 DEF CopiesInv

\* A request that gave nothing is over, or none of its snoops is out.
LEMMA CopiesFree ==
    ASSUME CopiesInv, cur.op \notin Granting, cur'.op \notin Granting,
           cur'.op = "DVMOp" \/ cur'.waiting = {},
           \A c \in Caches : Leaves(line[c], line'[c]),
           \A c \in Caches : line'[c].valid /\ line[c].tag \in filter[c]
                                => line[c].tag \in filter'[c]
    PROVE  CopiesInv'
  <1>1. \A c \in Caches : \A l : Holds(c, l)' => Holds(c, l) /\ (line[c].shared => line'[c].shared)
    BY LessHeld
  <1>2. AloneInv'
    BY <1>1 DEF CopiesInv, AloneInv
  <1>3. FilterInv'
    BY DEF CopiesInv, FilterInv, Granted, Leaves
  <1>4. AnswersInv' /\ KnownInv' /\ DataInv'
    BY DEF AnswersInv, KnownInv, Known, DataInv
  <1> QED BY <1>2, <1>3, <1>4 DEF CopiesInv

\* The nodes other than the caches take a step: their lines and transactions
\* are as they were.
LEMMA CachesRest ==
    ASSUME CohInv, UNCHANGED <<mode, line, access, stage>>,
           \A r \in Requesters : txn'[r].op = txn[r].op /\ txn'[r].line = txn[r].line,
           \A c \in Caches : SendsCopyBack(c)' => SendsCopyBack(c)
    PROVE  CacheInv' /\ \A c \in Caches : Leaves(line[c], line'[c])
  <1>1. \A c \in Caches : Leaves(line[c], line'[c])
    BY LineIs DEF CohInv, LineShape, Requesters
  <1>2. ASSUME NEW c \in Caches PROVE CacheOk(c)'
    BY <1>1, CacheStays DEF CohInv, CacheInv, Requesters
  <1>3. ASSUME NEW r \in Requesters PROVE Elsewhere(txn[r])'
    BY DEF CohInv, CacheInv, Elsewhere, Cacheable
  <1> QED BY <1>1, <1>2, <1>3 DEF CacheInv

(***************************************************************************)
(* The phases in which a line is granted.                                  *)
(***************************************************************************)
LEMMA GrantingIs ==
    ASSUME PhaseInv, cur.op \in Granting
    PROVE  /\ Snoops \/ WritesBack \/ Fetches \/ Gives
           /\ Served /\ src \in Requesters
  <1>1. cur.op \in Fills \cup Upgrading
    BY DEF Granting
  <1>2. cur.op # "none" /\ cur.op # "DVMOp" /\ cur.op \notin Storing \cup Swapping
    BY <1>1 DEF Fills, Upgrading, Storing, Writing, CopyBacks, UniqueWrites, Swapping
  <1>3. ~Idle /\ ~SnoopsDVM /\ ~TakesData /\ ~RunsAtomic /\ ~Writes
    BY <1>2, NoneIsNoReq DEF Idle, SnoopsDVM, TakesData, RunsAtomic, Writes
  <1>4. Snoops \/ WritesBack \/ Fetches \/ Gives
    BY <1>3 DEF PhaseInv
  <1>5. Served
    BY <1>4 DEF Snoops, WritesBack, Fetches, Gives
  <1> QED BY <1>4, <1>5 DEF Served, Serves, src

LEMMA WaitingIs ==
    ASSUME PhaseInv, cur.waiting # {}
    PROVE  /\ Snoops \/ SnoopsDVM
           /\ src \notin cur.waiting /\ cur.waiting \subseteq Requesters
           /\ cur.op # "DVMOp" => Snoops
  <1>1. Snoops \/ SnoopsDVM
    BY DEF PhaseInv, Idle, NoReq, WritesBack, Fetches, Gives, TakesData, RunsAtomic, Writes, Fixed
  <1> QED BY <1>1 DEF Snoops, SnoopsDVM

LEMMA CopyBackIs ==
    ASSUME PhaseInv, NEW r \in Requesters, SendsCopyBack(r)
    PROVE  r = src /\ TakesData /\ txn[r].op = cur.op /\ cur.op \in ReqOps
  <1>1. PICK m : m = up[r].dat[1] /\ m.t = "CopyBackWrData"
    BY DEF SendsCopyBack
  <1>2. ~AnswersOnDat(r)
    BY <1>1 DEF AnswersOnDat
  <1>3. r = src /\ TakesData
    BY <1>1, <1>2, UpDatIs DEF SendsCopyBack
  <1> QED BY <1>3 DEF TakesData, Served, Serves

(***************************************************************************)
(* A step of one requester that gives it nothing of a line.                *)
(***************************************************************************)
LEMMA LocalCoh ==
    ASSUME IInv, CohInv, NEW r \in Requesters, UNCHANGED <<mode, hnVars>>,
           DOMAIN line' = Requesters, Leaves(line[r], line'[r]), r \in Caches => CacheOk(r)',
           \/ txn'[r].op # "DVMOp"
           \/ txn'[r].op = txn[r].op /\ txn'[r].line = txn[r].line
           \/ \A c \in Caches : txn'[r].line \notin Cacheable(c),
           \A q \in Requesters \ {r} :
              /\ line'[q] = line[q] /\ access'[q] = access[q] /\ stage'[q] = stage[q]
              /\ txn'[q] = txn[q] /\ up'[q] = up[q],
           \/ r = src \/ cur.op = "DVMOp"
           \/ up'[r].rsp = up[r].rsp /\ up'[r].dat = up[r].dat,
           cur.op \in Granting => down'[src].dat \in {<<>>, down[src].dat},
           r = src /\ up[r].rsp = <<CompAck>> => up'[r].rsp = <<CompAck>>
    PROVE  CohInv'
  <1>1. cur' = cur /\ filter' = filter /\ mode' = mode
    BY DEF hnVars
  <1>2. \A q \in Requesters : IsLine(line[q])
    BY DEF CohInv, LineShape
  <1>3. \A q \in Requesters : Leaves(line[q], line'[q])
    BY <1>2, LineIs
  <1>4. LineShape'
    BY <1>1, <1>3 DEF LineShape, CohInv, Leaves
  <1>5. CacheInv'
    <2>1. ASSUME NEW c \in Caches, c # r PROVE CacheOk(c)'
      BY <1>1, <1>3, <2>1, CacheStays DEF CohInv, CacheInv, Requesters, SendsCopyBack
    <2>2. \A c : Cacheable(c)' = Cacheable(c)
      BY <1>1 DEF Cacheable
    <2>3. ASSUME NEW q \in Requesters PROVE Elsewhere(txn[q])'
      BY <2>2 DEF CohInv, CacheInv, Elsewhere
    <2> QED BY <2>1, <2>3 DEF CacheInv
  <1>6. SameReq
    BY <1>1 DEF SameReq
  <1>7. ASSUME cur.op # "DVMOp", NEW d \in Caches \cap cur.waiting
        PROVE  up'[d].rsp = up[d].rsp /\ up'[d].dat = up[d].dat
    <2>1. d # src /\ d \in Requesters
      BY <1>7, WaitingIs DEF IInv
    <2> QED BY <1>7, <2>1
  <1>8. ASSUME cur.op \in Granting
        PROVE  /\ up[src].rsp = <<CompAck>> => up'[src].rsp = <<CompAck>>
               /\ \A e \in Requesters \ {src} : up'[e].dat = up[e].dat
    <2>1. cur.op # "DVMOp" /\ src \in Requesters
      BY <1>8, GrantingIs DEF IInv, Granting, Fills, Upgrading
    <2> QED BY <2>1
  <1>9. \A c \in Caches : Leaves(line[c], line'[c])
    BY <1>3 DEF Requesters
  <1>10. CopiesInv
    BY DEF CohInv
  <1>11. CopiesInv'
    BY <1>1, <1>6, <1>7, <1>8, <1>9, <1>10, CopiesStay
  <1> QED BY <1>4, <1>5, <1>11 DEF CohInv

(***************************************************************************)
(* The core thread.                                                        *)
(***************************************************************************)
LEMMA StartCoh ==
    ASSUME IInv, CohInv, NEW r \in Requesters, Start(r)
    PROVE  CohInv'
  <1>1. /\ UNCHANGED <<mode, hnVars, up, down, line, stage, txn>>
        /\ access[r].kind = "none"
        /\ \E o \in mode.traffic[r] : access' = [access EXCEPT ![r] = o]
    BY DEF Start, Begin, channels
  <1>2. \A q \in Requesters \ {r} : access'[q] = access[q]
    BY <1>1
  <1>3. DOMAIN line = Requesters /\ IsLine(line[r])
    BY DEF CohInv, LineShape
  <1>4. Leaves(line[r], line'[r])
    BY <1>1, <1>3, LineIs
  <1>5. ASSUME r \in Caches PROVE CacheOk(r)'
    <2>1. CacheOk(r) /\ stage[r] = "loop"
      BY <1>1, <1>5 DEF CohInv, CacheInv, CacheOk
    <2> QED BY <1>1, <2>1 DEF CacheOk, Cacheable, SendsCopyBack
  <1> QED BY <1>1, <1>2, <1>3, <1>4, <1>5, LocalCoh

\* An access that a cache makes is one of its load, and what it stores or
\* loads is cacheable.
LEMMA AccessIs ==
    ASSUME IInv, NEW c \in Caches, access[c].kind # "none"
    PROVE  /\ access[c] \in mode.traffic[c]
           /\ IsCached(access[c]) => access[c].line \in Cacheable(c)
           /\ access[c].kind = "ReadNoSnp" => access[c].line \notin Cacheable(c)
           /\ \/ IsCached(access[c]) \/ IsAtomic(access[c].kind)
              \/ access[c].kind \in {"ReadNoSnp", "WriteNoSnp", "DVMOp"}
  <1>1. mode \in Modes /\ access[c] \in mode.traffic[c]
    BY DEF IInv, TxnInv, Requesters
  <1>2. PICK o \in mode.traffic[c] : o = access[c]
    BY <1>1
  <1>3. /\ IsCached(o) \/ IsAtomic(o.kind) \/ o.kind \in {"ReadNoSnp", "WriteNoSnp", "DVMOp"}
        /\ o.kind = "ReadNoSnp" => \A p \in mode.traffic[c] : IsCached(p) => p.line # o.line
    BY <1>1, TrafficAssumption
  <1>4. o.kind = "ReadNoSnp" => o.line \notin Cacheable(c)
    BY <1>3 DEF Cacheable
  <1>5. IsCached(o) => o.line \in Cacheable(c)
    BY DEF Cacheable
  <1> QED BY <1>1, <1>2, <1>3, <1>4, <1>5

\* What a cache issues, and the stage that it goes to.
MayIssue(c, op, next) ==
    /\ op \in Granting \ {"CleanUnique"} => access[c].line \in Cacheable(c)
    /\ op = "CleanUnique" => line[c].valid
    /\ op = "ReadNoSnp" => access[c].line \notin Cacheable(c)
    /\ op \in ReadOnces \cup {"Evict"} => ~line'[c].valid
    /\ op \notin Informing \ {"Evict"}
    /\ next \in {"part2", "main"} => access[c].line \in Cacheable(c)
    /\ next = "main" => op \in EvictOps

LEMMA NewLineIs ==
    ASSUME NEW c, NEW op, NEW ack
    PROVE  /\ op = "CleanUnique" => NewTxn(c, op, ack).line = line[c].tag
           /\ op \in Granting \ {"CleanUnique"} => NewTxn(c, op, ack).line = access[c].line
           /\ op \in {"ReadNoSnp", "DVMOp"} => NewTxn(c, op, ack).line = access[c].line
  BY DEF NewTxn, NoTxn, IsCopyBack, Granting, Fills, Upgrading

LEMMA IssueCoh ==
    ASSUME IInv, CohInv, NEW r \in Requesters, Running(r), NEW op \in ReqOps, NEW next,
           Issue(r, op, next), UNCHANGED <<mode, hnVars>>,
           DOMAIN line' = Requesters, \A q \in Requesters \ {r} : line'[q] = line[q],
           Leaves(line[r], line'[r]), r \in Caches => MayIssue(r, op, next),
           op = "DVMOp" => \A c \in Caches : access[r].line \notin Cacheable(c)
    PROVE  CohInv'
  <1>1. /\ UNCHANGED <<down, access>> /\ stage' = [stage EXCEPT ![r] = next]
        /\ txn[r].op = "none" /\ access[r].kind # "none"
    BY DEF Issue, Running
  <1>2. PICK ack \in ExpCompAck(op) :
           /\ txn' = [txn EXCEPT ![r] = NewTxn(r, op, ack)]
           /\ up' = Put(up, r, "req", Request(NewTxn(r, op, ack)))
    BY DEF Issue
  <1>3. PICK t : t = NewTxn(r, op, ack)
    OBVIOUS
  <1>4. /\ \A q \in Requesters \ {r} : up'[q] = up[q] /\ txn'[q] = txn[q] /\ stage'[q] = stage[q]
        /\ up'[r].rsp = up[r].rsp /\ up'[r].dat = up[r].dat
        /\ txn'[r] = t /\ stage'[r] = next
    BY <1>1, <1>2, <1>3 DEF IInv, Shape, Put
  <1>5. t.op = op /\ op # "none"
    BY <1>3, NewTxnIs, NoneIsNoReq
  <1>6. ASSUME r \in Caches PROVE CacheOk(r)'
    <2>1. CacheOk(r) /\ MayIssue(r, op, next)
      BY <1>6 DEF CohInv, CacheInv
    <2>2. Cacheable(r)' = Cacheable(r)
      BY DEF Cacheable
    <2>3. line'[r].valid => line[r].valid /\ line'[r].tag = line[r].tag
      BY DEF Leaves
    <2>4. /\ line'[r].valid => line'[r].tag \in Cacheable(r)
          /\ line[r].valid => line[r].tag \in Cacheable(r)
      BY <2>1, <2>3 DEF CacheOk
    <2>5. /\ t.op \in Granting => t.line \in Cacheable(r)
          /\ t.op = "ReadNoSnp" => t.line \notin Cacheable(r)
      <3>1. CASE op = "CleanUnique"
        BY <1>3, <1>5, <2>1, <2>4, <3>1, NewLineIs DEF MayIssue
      <3>2. CASE op # "CleanUnique"
        BY <1>3, <1>5, <2>1, <3>2, NewLineIs DEF MayIssue
      <3> QED BY <3>1, <3>2
    <2>6. ~SendsCopyBack(r)'
      <3>1. ~SendsCopyBack(r)
        BY <1>1, CopyBackIs, NoneIsNoReq DEF IInv
      <3> QED BY <1>4, <3>1 DEF SendsCopyBack
    <2> QED BY <1>1, <1>4, <1>5, <2>1, <2>2, <2>4, <2>5, <2>6 DEF CacheOk, MayIssue
  <1>7. op = "DVMOp" => \A c \in Caches : t.line \notin Cacheable(c)
    BY <1>3, NewLineIs
  <1> QED BY <1>1, <1>4, <1>5, <1>6, <1>7, LocalCoh

LEMMA FinishCoh ==
    ASSUME IInv, CohInv, NEW r \in Requesters, Running(r), Finish(r), UNCHANGED <<mode, hnVars>>,
           DOMAIN line' = Requesters, \A q \in Requesters \ {r} : line'[q] = line[q],
           Leaves(line[r], line'[r])
    PROVE  CohInv'
  <1>1. UNCHANGED <<up, down>> /\ txn[r].op = "none"
    BY DEF Finish, channels, Running
  <1>2. /\ \A q \in Requesters \ {r} : access'[q] = access[q] /\ txn'[q] = txn[q] /\ stage'[q] = stage[q]
        /\ txn'[r] = NoTxn /\ stage'[r] = "loop"
    BY DEF Finish, IInv, Shape
  <1>3. NoTxn.op = "none" /\ "none" \notin Granting
    BY NoneIsNoReq DEF NoTxn, Granting, Fills, Upgrading
  <1>4. ASSUME r \in Caches PROVE CacheOk(r)'
    <2>1. CacheOk(r)
      BY <1>4 DEF CohInv, CacheInv
    <2>2. Cacheable(r)' = Cacheable(r)
      BY DEF Cacheable
    <2>3. line'[r].valid => line'[r].tag \in Cacheable(r)
      BY <2>1 DEF CacheOk, Leaves
    <2>4. ~SendsCopyBack(r)'
      <3>1. ~SendsCopyBack(r)
        BY <1>1, CopyBackIs, NoneIsNoReq DEF IInv
      <3> QED BY <1>1, <3>1 DEF SendsCopyBack
    <2> QED BY <1>2, <1>3, <2>2, <2>3, <2>4 DEF CacheOk, ReadOnces, Informing
  <1> QED BY <1>1, <1>2, <1>3, <1>4, LocalCoh, NoneIsNoReq

LEMMA EvictCoh ==
    ASSUME IInv, CohInv, NEW r \in Requesters, Running(r), EvictLine(r), UNCHANGED <<mode, hnVars>>,
           r \in Caches => access[r].line \in Cacheable(r)
    PROVE  CohInv'
  <1>1. PICK v \in Victim(r) :
           Issue(r, v, "main") /\ line' = [line EXCEPT ![r].valid = @ /\ v # "Evict"]
    BY DEF EvictLine
  <1>2. v \in EvictOps /\ v \in ReqOps
    BY DEF Victim, EvictOps, ReqOps, Storing, Writing, CopyBacks, Informing
  <1>3. DOMAIN line = Requesters /\ IsLine(line[r])
    BY DEF CohInv, LineShape
  <1>4. PICK b : b = (line[r].valid /\ v # "Evict")
    OBVIOUS
  <1>5. line' = [line EXCEPT ![r] = [line[r] EXCEPT !.valid = b]]
    BY <1>1, <1>3, <1>4
  <1>6. /\ DOMAIN line' = Requesters /\ \A q \in Requesters \ {r} : line'[q] = line[q]
        /\ line'[r] = [line[r] EXCEPT !.valid = b]
    BY <1>3, <1>5
  <1>7. Leaves(line[r], line'[r]) /\ (v = "Evict" => ~line'[r].valid)
    BY <1>3, <1>4, <1>6 DEF Leaves, IsLine, LineFields
  <1>8. r \in Caches => MayIssue(r, v, "main")
    BY <1>2, <1>7 DEF MayIssue, EvictOps, Granting, Fills, Upgrading, ReadOnces, Informing
  <1> QED BY <1>1, <1>2, <1>6, <1>7, <1>8, IssueCoh DEF EvictOps

LEMMA WantedCoh ==
    ASSUME IInv, CohInv, NEW r \in Requesters, Running(r), NEW w, IssueWanted(r, w),
           w \in ReadOnces \cup Fills \cup {"MakeUnique"}, UNCHANGED <<mode, hnVars>>,
           r \in Caches => access[r].line \in Cacheable(r) /\ ~line[r].valid
    PROVE  CohInv'
  <1>1. PICK next \in {"loop", "after"} : Issue(r, w, next)
    BY DEF IssueWanted
  <1>2. w \in ReqOps /\ w \notin Informing \cup {"ReadNoSnp", "CleanUnique", "Evict", "DVMOp"}
    BY DEF ReqOps, Reading, Upgrading, Informing, ReadOnces, Fills
  <1>3. line' = line /\ DOMAIN line = Requesters /\ IsLine(line[r])
    BY DEF IssueWanted, CohInv, LineShape
  <1>4. Leaves(line[r], line'[r])
    BY <1>3, LineIs
  <1>5. r \in Caches => MayIssue(r, w, next)
    BY <1>1, <1>2, <1>3 DEF MayIssue
  <1> QED BY <1>1, <1>2, <1>3, <1>4, <1>5, IssueCoh

LEMMA FetchCoh ==
    ASSUME IInv, CohInv, NEW r \in Requesters, Running(r), NEW w, Fetch(r, w),
           w \in ReadOnces \cup Fills \cup {"MakeUnique"}, UNCHANGED <<mode, hnVars>>,
           r \in Caches => access[r].line \in Cacheable(r)
    PROVE  CohInv'
  <1>1. CASE ~line[r].valid /\ IssueWanted(r, w)
    BY <1>1, WantedCoh
  <1>2. CASE Issue(r, "WriteCleanFull", "part2") /\ UNCHANGED line
    <2>1. "WriteCleanFull" \in ReqOps
      BY DEF ReqOps, Storing, Writing, CopyBacks
    <2>2. DOMAIN line = Requesters /\ IsLine(line[r])
      BY DEF CohInv, LineShape
    <2>3. Leaves(line[r], line'[r])
      BY <1>2, <2>2, LineIs
    <2>4. r \in Caches => MayIssue(r, "WriteCleanFull", "part2")
      BY DEF MayIssue, Granting, Fills, Upgrading, ReadOnces, Informing
    <2> QED BY <1>2, <2>1, <2>2, <2>3, <2>4, IssueCoh
  <1>3. CASE EvictLine(r)
    BY <1>3, EvictCoh
  <1> QED BY <1>1, <1>2, <1>3 DEF Fetch

LEMMA WriteLineIs ==
    ASSUME NEW l, IsLine(l), NEW d, NEW ws
    PROVE  Leaves(l, WriteLine(l, d, ws))
  <1>1. PICK n : n = Write(l, d, ws)
    OBVIOUS
  <1>2. IsLine(n) /\ n.valid = l.valid /\ n.tag = l.tag /\ n.shared = l.shared
    BY <1>1 DEF Write, IsLine, LineFields
  <1>3. PICK b : WriteLine(l, d, ws) = [n EXCEPT !.dirty = b]
    BY <1>1 DEF WriteLine
  <1> QED BY <1>2, <1>3 DEF Leaves, IsLine, LineFields

LEMMA RunCoh ==
    ASSUME IInv, CohInv, NEW r \in Requesters, Run(r)
    PROVE  CohInv'
  <1>1. UNCHANGED <<mode, hnVars>>
    BY DEF Run
  <1>2. DOMAIN line = Requesters /\ IsLine(line[r]) /\ Leaves(line[r], line[r])
    BY LineIs DEF CohInv, LineShape
  <1>3. Running(r) /\ access[r].kind # "none"
    BY DEF Run, StoreHit, LoadHit, LoadMiss, StoreShared, StoreMiss, Direct, EvictCleaned,
           RoomMade, Complete, At, Running
  <1>4. ASSUME r \in Caches PROVE CacheOk(r) /\ (IsCached(access[r]) => access[r].line \in Cacheable(r))
    BY <1>3, <1>4, AccessIs DEF CohInv, CacheInv
  <1>5. CASE LoadHit(r) \/ Complete(r)
    <2>1. Finish(r) /\ UNCHANGED line
      BY <1>5 DEF LoadHit, Complete
    <2> QED BY <1>1, <1>2, <1>3, <2>1, FinishCoh
  <1>6. CASE StoreHit(r)
    <2>1. PICK k : k = WriteLine(line[r], StoreData(access[r]), access[r].ws)
      OBVIOUS
    <2>2. Finish(r) /\ line' = [line EXCEPT ![r] = k]
      BY <1>6, <2>1 DEF StoreHit
    <2>3. Leaves(line[r], k)
      BY <1>2, <2>1, WriteLineIs
    <2> QED BY <1>1, <1>2, <1>3, <2>2, <2>3, FinishCoh
  <1>7. CASE LoadMiss(r)
    <2>1. IsCached(access[r])
      BY <1>7 DEF LoadMiss, IsCached
    <2>2. PICK w \in mode.reads : Fetch(r, w)
      BY <1>7 DEF LoadMiss
    <2>3. w \in ReadOnces \cup Fills
      BY TrafficAssumption, Classes DEF IInv, TxnInv
    <2> QED BY <1>1, <1>3, <1>4, <2>1, <2>2, <2>3, FetchCoh
  <1>8. CASE StoreShared(r)
    <2>1. Issue(r, "CleanUnique", "loop") /\ line' = line /\ line[r].valid
      BY <1>8 DEF StoreShared, InCache
    <2>2. "CleanUnique" \in ReqOps
      BY DEF ReqOps, Upgrading
    <2>3. r \in Caches => MayIssue(r, "CleanUnique", "loop")
      BY <2>1 DEF MayIssue, Informing, ReadOnces
    <2> QED BY <1>1, <1>2, <1>3, <2>1, <2>2, <2>3, IssueCoh
  <1>9. ASSUME NEW w \in {"WriteUniqueFull", "WriteUniquePtl"}, Issue(r, w, "after"), line' = line
        PROVE  CohInv'
    <2>1. w \in ReqOps
      BY <1>9 DEF ReqOps, Storing, Writing, UniqueWrites
    <2>2. r \in Caches => MayIssue(r, w, "after")
      BY <1>9 DEF MayIssue, Informing, ReadOnces, Granting, Fills, Upgrading
    <2> QED BY <1>1, <1>2, <1>3, <1>9, <2>1, <2>2, IssueCoh
  <1>10. WriteUniques(access[r]) \subseteq {"WriteUniqueFull", "WriteUniquePtl"}
    BY DEF WriteUniques
  <1>11. CASE StoreMiss(r)
    <2>1. IsCached(access[r])
      BY <1>11 DEF StoreMiss, IsCached
    <2>2. CASE \E w \in {"MakeUnique", "ReadUnique"} : Fetch(r, w)
      <3>1. "ReadUnique" \in Fills
        BY DEF Fills
      <3> QED BY <1>1, <1>3, <1>4, <2>1, <2>2, <3>1, FetchCoh
    <2>3. CASE line' = line /\ \E w \in WriteUniques(access[r]) : Issue(r, w, "after")
      BY <1>9, <1>10, <2>3
    <2> QED BY <1>11, <2>2, <2>3 DEF StoreMiss
  <1>12. CASE Direct(r)
    <2>1. /\ line' = line /\ ~IsCached(access[r])
          /\ \E w \in IF access[r].kind = "WriteNoSnp" THEN WriteUniques(access[r])
                      ELSE {access[r].kind} : Issue(r, w, "after")
      BY <1>12 DEF Direct, IsCached
    <2>2. CASE access[r].kind = "WriteNoSnp"
      BY <1>9, <1>10, <2>1, <2>2
    <2>3. CASE access[r].kind # "WriteNoSnp"
      <3>1. PICK w : w = access[r].kind
        OBVIOUS
      <3>2. Issue(r, w, "after")
        BY <2>1, <2>3, <3>1
      <3>3. r \in Outside => w \in ReqOps
        <4>1. mode \in Modes /\ access[r] \in mode.traffic[r]
          BY <1>3 DEF IInv, TxnInv
        <4> QED BY <2>3, <3>1, <4>1, TrafficAssumption, Classes
      <3>4. r \in Caches => w \in Swapping \cup {"AtomicStoreADD", "ReadNoSnp", "DVMOp"}
        BY <1>3, <2>1, <2>3, <3>1, AccessIs, Classes
      <3>5. w \in ReqOps
        BY <3>3, <3>4 DEF Requesters, ReqOps, Reading, Storing
      <3>6. r \in Caches => MayIssue(r, w, "after")
        BY <1>3, <3>1, <3>4, AccessIs DEF MayIssue, Swapping, Informing, ReadOnces, Granting, Fills,
                                          Upgrading
      <3>7. ASSUME w = "DVMOp", NEW c \in Caches PROVE access[r].line \notin Cacheable(c)
        <4>1. PICK o \in mode.traffic[r] : o = access[r] /\ o.kind = "DVMOp" /\ mode \in Modes
          BY <1>3, <3>1, <3>7 DEF IInv, TxnInv
        <4>2. \A p \in mode.traffic[c] : IsCached(p) => p.line # o.line
          BY <4>1, DVMAssumption
        <4> QED BY <4>1, <4>2 DEF Cacheable
      <3> QED BY <1>1, <1>2, <1>3, <2>1, <3>2, <3>5, <3>6, <3>7, IssueCoh
    <2> QED BY <2>2, <2>3
  <1>13. CASE EvictCleaned(r)
    <2>1. /\ stage[r] = "part2"
          /\ IF line[r].valid THEN EvictLine(r) ELSE IssueWanted(r, want[r])
      BY <1>13 DEF EvictCleaned, At
    <2>2. want[r] \in ReadOnces \cup Fills \cup {"MakeUnique"}
      BY <2>1 DEF IInv, TxnInv
    <2>3. r \in Caches => access[r].line \in Cacheable(r)
      BY <1>4, <2>1 DEF CacheOk
    <2> QED BY <1>1, <1>3, <2>1, <2>2, <2>3, EvictCoh, WantedCoh
  <1>14. CASE RoomMade(r)
    <2>1. stage[r] = "main" /\ IssueWanted(r, want[r]) /\ txn[r].op = "none"
      BY <1>14 DEF RoomMade, At, Running
    <2>2. want[r] \in ReadOnces \cup Fills \cup {"MakeUnique"}
      BY <2>1 DEF IInv, TxnInv
    <2>3. r \in Caches => access[r].line \in Cacheable(r) /\ ~line[r].valid
      BY <1>4, <2>1 DEF CacheOk
    <2> QED BY <1>1, <1>3, <2>1, <2>2, <2>3, WantedCoh
  <1> QED BY <1>5, <1>6, <1>7, <1>8, <1>11, <1>12, <1>13, <1>14 DEF Run

(***************************************************************************)
(* A requester takes a message.                                            *)
(***************************************************************************)
LEMMA DropIs ==
    ASSUME IInv, NEW r \in Requesters, NEW k \in {"rsp", "dat", "snp"}, down' = Drop(down, r, k)
    PROVE  /\ \A q \in Requesters \ {r} : down'[q] = down[q]
           /\ down'[r][k] = Tail(down[r][k])
           /\ \A j \in {"rsp", "dat", "snp"} \ {k} : down'[r][j] = down[r][j]
  BY DEF IInv, Shape, Drop

LEMMA RetryCoh ==
    ASSUME IInv, CohInv, NEW r \in Requesters, Retried(r), RxRsp(r), UNCHANGED <<mode, hnVars>>
    PROVE  CohInv'
  <1> DEFINE m == Head(down[r].rsp)
             u == [txn[r] EXCEPT !.got = @ \cup {m.t}]
  <1>1. UNCHANGED <<access, stage>> /\ down' = Drop(down, r, "rsp")
    BY DEF RxRsp
  <1>2. \A q \in Requesters : down'[q].dat = down[q].dat
    BY <1>1, DropIs
  <1>3. m.t = "RetryAck" \/ m.t = "PCrdGrant"
    <2>1. m = RetryAck \/ m = PCrdGrant
      BY TwoIs, OneIs DEF Retried
    <2> QED BY <2>1, Answers
  <1>4. /\ txn' = [txn EXCEPT ![r] = u] /\ line' = line
        /\ up' = IF {"RetryAck", "PCrdGrant"} \subseteq u.got
                 THEN Put(up, r, "req", Request(u)) ELSE up
    BY <1>3 DEF RxRsp, HandleRetry
  <1>5. u.op = txn[r].op /\ u.line = txn[r].line
    BY DEF IInv, Shape, IsTxn
  <1> HIDE DEF u, m
  <1>6. /\ txn'[r].op = txn[r].op /\ txn'[r].line = txn[r].line
        /\ \A q \in Requesters \ {r} : txn'[q] = txn[q] /\ up'[q] = up[q]
        /\ up'[r].rsp = up[r].rsp /\ up'[r].dat = up[r].dat
    BY <1>4, <1>5 DEF IInv, Shape, Put
  <1>7. DOMAIN line = Requesters /\ Leaves(line[r], line[r])
    BY LineIs DEF CohInv, LineShape
  <1>8. r \in Caches => CacheOk(r)'
    BY <1>1, <1>4, <1>6, <1>7, CacheStays DEF CohInv, CacheInv, SendsCopyBack
  <1>9. cur.op \in Granting => down'[src].dat \in {<<>>, down[src].dat}
    BY <1>2, GrantingIs DEF IInv
  <1> QED BY <1>1, <1>4, <1>6, <1>7, <1>8, <1>9, LocalCoh

LEMMA InformedCoh ==
    ASSUME IInv, CohInv, NEW r \in Requesters, Informed(r), RxRsp(r), UNCHANGED <<mode, hnVars>>
    PROVE  CohInv'
  <1> DEFINE t == txn[r]
             m == Head(down[r].rsp)
  <1>1. UNCHANGED <<access, stage>> /\ down' = Drop(down, r, "rsp")
    BY DEF RxRsp
  <1>2. \A q \in Requesters : down'[q].dat = down[q].dat
    BY <1>1, DropIs
  <1>3. m = CompI
    BY OneIs DEF Informed
  <1>4. HandleComp(r, m)
    BY <1>3, Answers DEF RxRsp
  <1>5. ~t.ack /\ (t.op = "DVMOp" => "Sent" \in t.got) /\ t.op \in Informing \cup {"DVMOp"}
    <2>1. t.op \in Informing \cup {"DVMOp"}
      BY DEF Informed
    <2>2. t.op \in ReqOps \ (Reading \cup Upgrading \cup UniqueWrites) /\ t.op # "none"
      BY <2>1 DEF ReqOps, Reading, Upgrading, UniqueWrites, Informing, ReadOnces, Fills
    <2>3. Acked(t.op, t.ack)
      BY <2>2 DEF IInv, TxnInv
    <2>4. t.op = "DVMOp" => "Sent" \in t.got
      BY DEF Informed, Informing
    <2> QED BY <2>1, <2>2, <2>3, <2>4 DEF Acked
  <1>6. up' = up /\ txn' = [txn EXCEPT ![r] = Done(t)]
    BY <1>4, <1>5 DEF HandleComp
  <1>7. /\ txn'[r].op = "none"
        /\ \A q \in Requesters \ {r} : txn'[q] = txn[q]
    BY <1>6, DoneIs DEF IInv, Shape
  <1>8. PICK k : /\ k = IF r \notin Caches \/ t.op = "DVMOp" THEN line[r] ELSE Invalid(line[r])
                 /\ DOMAIN line' = Requesters /\ line'[r] = k
                 /\ \A q \in Requesters \ {r} : line'[q] = line[q]
    <2>1. CompI.st # "UC"
      BY DEF CompI, Rsp, Msg
    <2>2. ParseResp(line[r], t, m) = Invalid(line[r])
      BY <1>3, <2>1 DEF ParseResp, Invalid
    <2>3. line' = IF r \notin Caches \/ t.op = "DVMOp" THEN line
                  ELSE [line EXCEPT ![r] = ParseResp(line[r], t, m)]
      BY <1>4 DEF HandleComp
    <2> QED BY <2>2, <2>3 DEF CohInv, LineShape
  <1>9. Leaves(line[r], line'[r])
        /\ (r \in Caches /\ t.op # "DVMOp" => ~line'[r].valid)
    BY <1>8, LineIs DEF CohInv, LineShape
  <1>10. ASSUME r \in Caches PROVE CacheOk(r)'
    <2>1. CacheOk(r)
      BY <1>10 DEF CohInv, CacheInv
    <2>2. Cacheable(r)' = Cacheable(r)
      BY DEF Cacheable
    <2>3. line'[r].valid => line'[r].tag \in Cacheable(r)
      BY <1>9, <2>1 DEF CacheOk, Leaves
    <2>4. stage[r] = "main" => ~line'[r].valid
      <3>1. stage[r] = "main" => t.op \in EvictOps \cup {"none"}
        BY <2>1 DEF CacheOk
      <3> QED BY <1>5, <1>9, <1>10, <3>1 DEF EvictOps, Informing
    <2>5. SendsCopyBack(r)' => ~line'[r].valid
      <3>1. SendsCopyBack(r)' => SendsCopyBack(r)
        BY <1>6 DEF SendsCopyBack
      <3>2. SendsCopyBack(r) => ~line[r].valid \/ t.op = "WriteCleanFull"
        BY <2>1 DEF CacheOk
      <3> QED BY <1>5, <1>9, <3>1, <3>2 DEF Informing, Leaves
    <2>6. "none" \notin Granting \cup ReadOnces \cup Informing
      BY DEF Granting, Fills, Upgrading, ReadOnces, Informing
    <2>7. access'[r] = access[r] /\ stage'[r] = stage[r]
      BY <1>1
    <2>8. /\ access[r].kind = "none" => stage[r] = "loop"
          /\ stage[r] \in {"part2", "main"} => access[r].line \in Cacheable(r)
      BY <2>1 DEF CacheOk
    <2> QED BY <1>7, <2>2, <2>3, <2>4, <2>5, <2>6, <2>7, <2>8 DEF CacheOk
  <1>11. cur.op \in Granting => down'[src].dat \in {<<>>, down[src].dat}
    BY <1>2, GrantingIs DEF IInv
  <1> QED BY <1>1, <1>6, <1>7, <1>8, <1>9, <1>10, <1>11, LocalCoh

\* The requester sends the data of a write.
LEMMA DBIDCoh ==
    ASSUME IInv, CohInv, NEW r \in Requesters, r = src, TakesData,
           down[r].rsp = <<DBIDFor(cur.op)>>, up[r].dat = <<>>, RxRsp(r), UNCHANGED <<mode, hnVars>>
    PROVE  CohInv'
  <1> DEFINE t == txn[r]
             m == Head(down[r].rsp)
  <1>1. UNCHANGED <<access, stage>> /\ down' = Drop(down, r, "rsp")
    BY DEF RxRsp
  <1>2. \A q \in Requesters : down'[q].dat = down[q].dat
    BY <1>1, DropIs
  <1>3. HandleDBID(r)
    <2>1. m = DBIDFor(cur.op)
      BY OneIs
    <2>2. m.t \in {"DBIDResp", "CompDBIDResp"}
      BY <2>1, Answers DEF DBIDFor
    <2> QED BY <2>2 DEF RxRsp
  <1>4. t.op = cur.op /\ cur.op \in Storing \cup Swapping \cup {"DVMOp"}
    BY DEF TakesData, Served, Serves, src
  <1>5. cur.op \notin Granting \cup ReadOnces \cup Informing \cup {"none", "ReadNoSnp"}
    BY <1>4 DEF Granting, Fills, Upgrading, ReadOnces, Informing, Storing, Writing, CopyBacks,
                UniqueWrites, Swapping
  <1>6. PICK d : /\ up' = Put(up, r, "dat", d)
                 /\ d.t = IF IsCopyBack(t.op) THEN "CopyBackWrData" ELSE "NonCopyBackWrData"
    <2>1. \E c, st, pd, be : up' = Put(up, r, "dat", Msg(c, st, pd, t.data, be, "HN"))
                         /\ c = IF IsCopyBack(t.op) THEN "CopyBackWrData" ELSE "NonCopyBackWrData"
      BY <1>3 DEF HandleDBID
    <2>2. PICK c, st, pd, be : up' = Put(up, r, "dat", Msg(c, st, pd, t.data, be, "HN"))
                         /\ c = IF IsCopyBack(t.op) THEN "CopyBackWrData" ELSE "NonCopyBackWrData"
      BY <2>1
    <2> QED BY <2>2, MsgIs
  <1>7. /\ \A q \in Requesters \ {r} : up'[q] = up[q]
        /\ up'[r].dat = <<d>> /\ up'[r].rsp = up[r].rsp
    BY <1>6, AppendIs DEF IInv, Shape, Put
  <1>8. txn' = [txn EXCEPT ![r].got = @ \cup {"DBID"}]
    BY <1>3 DEF HandleDBID
  <1>9. /\ txn'[r].op = t.op /\ txn'[r].line = t.line
        /\ \A q \in Requesters \ {r} : txn'[q] = txn[q]
    BY <1>8 DEF IInv, Shape, IsTxn
  <1>10. PICK k : /\ k = IF ~IsCopyBack(t.op) THEN line[r]
                         ELSE IF t.op = "WriteCleanFull" THEN Clean(line[r]) ELSE Invalid(line[r])
                  /\ DOMAIN line' = Requesters /\ line'[r] = k
                  /\ \A q \in Requesters \ {r} : line'[q] = line[q]
    <2>1. DOMAIN line = Requesters
      BY DEF CohInv, LineShape
    <2>2. CASE IsCopyBack(t.op)
      <3>1. line' = [line EXCEPT ![r] = IF t.op = "WriteCleanFull" THEN [line[r] EXCEPT !.dirty = FALSE]
                                        ELSE [line[r] EXCEPT !.valid = FALSE]]
        BY <1>3, <2>2 DEF HandleDBID
      <3> QED BY <2>1, <2>2, <3>1 DEF Clean, Invalid
    <2>3. CASE ~IsCopyBack(t.op)
      <3>1. line' = line
        BY <1>3, <2>3 DEF HandleDBID
      <3> QED BY <2>1, <2>3, <3>1
    <2> QED BY <2>2, <2>3
  <1>11. Leaves(line[r], line'[r])
         /\ (IsCopyBack(t.op) => ~line'[r].valid \/ t.op = "WriteCleanFull")
    BY <1>10, LineIs DEF CohInv, LineShape
  <1>12. ASSUME r \in Caches PROVE CacheOk(r)'
    <2>1. CacheOk(r)
      BY <1>12 DEF CohInv, CacheInv
    <2>2. Cacheable(r)' = Cacheable(r)
      BY DEF Cacheable
    <2>3. line'[r].valid => line'[r].tag \in Cacheable(r)
      BY <1>11, <2>1 DEF CacheOk, Leaves
    <2>4. SendsCopyBack(r)' => ~line'[r].valid \/ t.op = "WriteCleanFull"
      <3>1. up'[r].dat[1] = d
        BY <1>7, OneIs
      <3> QED BY <1>6, <1>11, <3>1 DEF SendsCopyBack
    <2>5. access'[r] = access[r] /\ stage'[r] = stage[r]
      BY <1>1
    <2>6. /\ access[r].kind = "none" => stage[r] = "loop"
          /\ stage[r] \in {"part2", "main"} => access[r].line \in Cacheable(r)
          /\ stage[r] = "main" => t.op \in EvictOps \cup {"none"}
      BY <2>1 DEF CacheOk
    <2>7. t.op \notin Granting \cup ReadOnces \cup Informing \cup {"none", "ReadNoSnp", "Evict"}
      BY <1>4, <1>5 DEF Informing
    <2> QED BY <1>9, <2>2, <2>3, <2>4, <2>5, <2>6, <2>7 DEF CacheOk
  <1>13. up[r].rsp = <<>> \/ up'[r].rsp = up[r].rsp
    BY <1>7
  <1> QED BY <1>1, <1>5, <1>7, <1>9, <1>10, <1>11, <1>12, <1>13, LocalCoh

\* A cache gets the line l that it asked for.
LEMMA GrantCoh ==
    ASSUME IInv, CohInv, NEW r \in Caches, r = src, Gives, cur.op \in Granting,
           UNCHANGED <<mode, hnVars, access, stage>>, up[r].dat = <<>>,
           NEW l, IsLine(l), l.tag = cur.line, line' = [line EXCEPT ![r] = l],
           \A d \in Caches \ {r} : Holds(d, cur.line) => line[d].shared /\ l.shared,
           \A q \in Requesters \ {r} : txn'[q] = txn[q] /\ up'[q] = up[q],
           txn'[r].op = txn[r].op, txn'[r].line = txn[r].line,
           up'[r].rsp = <<CompAck>>, up'[r].dat = up[r].dat, down'[r].dat = <<>>
    PROVE  CohInv'
  <1>1. cur' = cur /\ filter' = filter /\ mode' = mode /\ src' = src
        /\ access' = access /\ stage' = stage
    BY DEF hnVars, src
  <1>2. /\ DOMAIN line' = Requesters /\ line'[r] = l
        /\ \A q \in Requesters \ {r} : line'[q] = line[q]
    BY DEF CohInv, LineShape, Requesters
  <1>3. Caches \subseteq Requesters
    BY DEF Requesters
  <1>4. LineShape'
    BY <1>1, <1>2 DEF LineShape, CohInv
  <1>5. txn[r].op = cur.op /\ txn[r].line = cur.line /\ cur.op # "DVMOp" /\ cur.waiting = {}
    BY DEF Gives, Served, Serves, src, Fixed, Granting, Fills, Upgrading
  <1>6. Cacheable(r)' = Cacheable(r) /\ CacheOk(r)
    BY <1>1 DEF Cacheable, CohInv, CacheInv
  <1>7. CacheOk(r)'
    <2>1. l.tag \in Cacheable(r)
      BY <1>5, <1>6 DEF CacheOk
    <2>2. txn[r].op \notin ReadOnces \cup Informing \cup EvictOps \cup {"none", "ReadNoSnp", "Evict"}
      BY <1>5 DEF ReadOnces, Informing, EvictOps, Granting, Fills, Upgrading
    <2>3. stage[r] # "main"
      BY <1>6, <2>2 DEF CacheOk
    <2>4. ~SendsCopyBack(r)'
      BY DEF SendsCopyBack
    <2>5. /\ access[r].kind = "none" => stage[r] = "loop"
          /\ stage[r] \in {"part2", "main"} => access[r].line \in Cacheable(r)
          /\ txn[r].op \in Granting => txn[r].line \in Cacheable(r)
      BY <1>6 DEF CacheOk
    <2> QED BY <1>1, <1>2, <1>6, <2>1, <2>2, <2>3, <2>4, <2>5 DEF CacheOk
  <1>8. CacheInv'
    <2>1. ASSUME NEW c \in Caches, c # r PROVE CacheOk(c)'
      <3>1. Leaves(line[c], line'[c])
        BY <1>2, <1>3, <2>1, LineIs DEF CohInv, LineShape
      <3> QED BY <1>1, <1>3, <2>1, <3>1, CacheStays DEF CohInv, CacheInv, SendsCopyBack
    <2>2. ASSUME NEW q \in Requesters PROVE Elsewhere(txn[q])'
      <3>1. txn'[q].op = txn[q].op /\ txn'[q].line = txn[q].line
        OBVIOUS
      <3>2. \A c : Cacheable(c)' = Cacheable(c)
        BY <1>1 DEF Cacheable
      <3> QED BY <3>1, <3>2 DEF CohInv, CacheInv, Elsewhere
    <2> QED BY <1>7, <2>1, <2>2 DEF CacheInv
  <1>9. AloneInv'
    <2> SUFFICES ASSUME NEW c \in Caches, NEW d \in Caches, NEW k \in Lines,
                        c # d, Holds(c, k)', Holds(d, k)'
                 PROVE  line'[c].shared /\ line'[d].shared
      BY DEF AloneInv
    <2>1. CASE c # r /\ d # r
      BY <1>2, <1>3, <2>1 DEF CohInv, CopiesInv, AloneInv, Holds
    <2>2. CASE c = r \/ d = r
      <3>1. k = cur.line
        BY <1>2, <2>2 DEF Holds
      <3> QED BY <1>2, <1>3, <2>2, <3>1 DEF Holds
    <2> QED BY <2>1, <2>2
  <1>10. FilterInv'
    <2> SUFFICES ASSUME NEW c \in Caches, line'[c].valid
                 PROVE  line'[c].tag \in filter'[c] \/ Granted(c)'
      BY DEF FilterInv
    <2>1. CASE c = r
      BY <1>1, <1>2, <2>1 DEF Granted
    <2>2. CASE c # r
      BY <1>1, <1>2, <1>3, <2>2 DEF CohInv, CopiesInv, FilterInv, Granted
    <2> QED BY <2>1, <2>2
  <1>11. AnswersInv'
    BY <1>1, <1>5 DEF AnswersInv
  <1>12. KnownInv'
    <2>0. cur'.op \in Granting /\ cur'.fwd /\ cur'.waiting # {} => ~cur'.shared
      BY <1>1 DEF CohInv, CopiesInv, KnownInv, Known
    <2> SUFFICES ASSUME NEW d \in Caches \ ({cur'.src} \cup cur'.waiting), Holds(d, cur.line)'
                 PROVE  Reduced(cur, d)' /\ SharedKnown(cur)'
      BY <2>0 DEF KnownInv, Known
    <2>1. d # r /\ line'[d] = line[d]
      BY <1>1, <1>2, <1>3 DEF src
    <2>2. Holds(d, cur.line) /\ d \notin cur.waiting /\ d # cur.src
      BY <1>1, <2>1 DEF Holds, src
    <2>3. Reduced(cur, d) /\ SharedKnown(cur)
      BY <2>2 DEF CohInv, CopiesInv, KnownInv, Known
    <2> QED BY <1>1, <2>1, <2>3 DEF Reduced, SharedKnown, Holds
  <1>13. DataInv'
    <2> SUFFICES ASSUME NEW d \in Caches \ ({src'} \cup cur'.waiting), Holds(d, cur.line)'
                 PROVE  /\ down'[src'].dat # <<>> => SharedData(down'[src'].dat[1])
                        /\ \A e \in Requesters \ {src'} :
                              up'[e].dat # <<>> /\ up'[e].dat[1].t = "CompData"
                                 => SharedData(up'[e].dat[1])
      BY DEF DataInv, SharedData
    <2>1. d # r /\ line'[d] = line[d]
      BY <1>1, <1>2, <1>3
    <2>2. Holds(d, cur.line) /\ d \notin cur.waiting /\ d # src
      BY <1>1, <2>1 DEF Holds
    <2>3. \A e \in Requesters \ {src} :
             up[e].dat # <<>> /\ up[e].dat[1].t = "CompData" => SharedData(up[e].dat[1])
      BY <2>2 DEF CohInv, CopiesInv, DataInv
    <2> QED BY <1>1, <2>3
  <1> QED BY <1>4, <1>8, <1>9, <1>10, <1>11, <1>12, <1>13 DEF CohInv, CopiesInv

\* Comp_UC: all the others have been snooped, so that the requester is alone.
LEMMA UniqueCoh ==
    ASSUME IInv, CohInv, NEW r \in Requesters, r = src, Gives, GivesUnique, RxRsp(r),
           UNCHANGED <<mode, hnVars>>
    PROVE  CohInv'
  <1> DEFINE t == txn[r]
             m == Head(down[r].rsp)
  <1>1. UNCHANGED <<access, stage>> /\ down' = Drop(down, r, "rsp")
    BY DEF RxRsp
  <1>2. down'[r].dat = <<>>
    BY <1>1, DropIs DEF GivesUnique
  <1>3. m = CompUC
    BY OneIs DEF GivesUnique
  <1>4. HandleComp(r, m)
    BY <1>3, Answers DEF RxRsp
  <1>5. t.ack /\ t.op = cur.op /\ t.line = cur.line /\ cur.op \in Upgrading /\ cur.waiting = {}
    BY DEF Gives, GivesUnique, Served, Serves, Acked, src, Upgrading, Reading, Fixed
  <1>6. /\ up' = Put(up, r, "rsp", CompAck)
        /\ txn' = [txn EXCEPT ![r] = [t EXCEPT !.got = @ \cup {"Comp"}]]
    BY <1>4, <1>5 DEF HandleComp, CompAck
  <1>7. /\ \A q \in Requesters \ {r} : up'[q] = up[q]
        /\ up'[r].rsp = <<CompAck>> /\ up'[r].dat = up[r].dat /\ up[r].dat = <<>>
    BY <1>6, AppendIs DEF IInv, Shape, Put, GivesUnique, Silent
  <1>8. /\ txn'[r].op = t.op /\ txn'[r].line = t.line
        /\ \A q \in Requesters \ {r} : txn'[q] = txn[q]
    BY <1>6 DEF IInv, Shape, IsTxn
  <1>9. DOMAIN line = Requesters /\ IsLine(line[r])
    BY DEF CohInv, LineShape
  <1>10. CASE r \in Caches
    <2>1. PICK l : l = ParseResp(line[r], t, m)
      OBVIOUS
    <2>2. IsLine(l) /\ l.tag = cur.line
      BY <1>3, <1>5, <2>1 DEF ParseResp, IsLine, LineFields, CompUC, Rsp, Msg
    <2>3. line' = [line EXCEPT ![r] = l]
      BY <1>4, <1>5, <1>10, <2>1 DEF HandleComp, Upgrading
    <2>4. \A d \in Caches \ {r} : ~Holds(d, cur.line)
      BY <1>5 DEF CohInv, CopiesInv, KnownInv, Known, Reduced, Granting, Uniquely, src
    <2>5. cur.op \in Granting
      BY <1>5 DEF Granting
    <2> QED BY <1>1, <1>2, <1>7, <1>8, <1>10, <2>2, <2>3, <2>4, <2>5, GrantCoh
  <1>11. CASE r \notin Caches
    <2>1. line' = line
      BY <1>4, <1>11 DEF HandleComp
    <2>2. Leaves(line[r], line[r])
      BY <1>9, LineIs
    <2> QED BY <1>1, <1>2, <1>7, <1>8, <1>9, <1>11, <2>1, <2>2, LocalCoh
  <1> QED BY <1>10, <1>11

\* The answer to an atomic.
LEMMA ReplyCoh ==
    ASSUME IInv, CohInv, NEW r \in Requesters, Replied(r), NEW m, RxDat(r, m),
           UNCHANGED <<mode, hnVars>>
    PROVE  CohInv'
  <1> DEFINE t == txn[r]
             u == [t EXCEPT !.got = @ \cup {Counted(t, m)}, !.res = m.data]
  <1>1. UNCHANGED <<access, stage>> /\ down' = Drop(down, r, "dat")
    BY DEF RxDat
  <1>2. /\ down'[r].dat = <<>>
        /\ \A q \in Requesters \ {r} : down'[q] = down[q]
    <2>1. down[r].dat = <<down[r].dat[1]>>
      BY DEF Replied, One
    <2>2. Tail(down[r].dat) = <<>>
      BY <2>1, OneIs
    <2> QED BY <1>1, <2>2, DropIs
  <1>3. u.op = t.op /\ u.ack = t.ack /\ "Sent" \in u.got
    BY DEF IInv, Shape, IsTxn, Replied
  <1>4. ~t.ack /\ IsAtomic(t.op) /\ t.op \in Swapping /\ ~AllocatesCacheLine(t.op)
    <2>1. t.op \in ReqOps \ (Reading \cup Upgrading \cup UniqueWrites) /\ t.op # "none"
      BY DEF ReqOps, Reading, Upgrading, UniqueWrites, Swapping, ReadOnces, Fills, Replied
    <2>2. Acked(t.op, t.ack)
      BY <2>1 DEF IInv, TxnInv
    <2> QED BY <2>1, <2>2, Classes DEF Acked, Replied, AllocatesCacheLine, Swapping
  <1>5. up' = up /\ line' = line /\ \E v \in {u, Done(u)} : txn' = [txn EXCEPT ![r] = v]
    <2>1. /\ up' = IF u.ack THEN Put(up, r, "rsp", Rsp("CompAck", "I", FALSE)) ELSE up
          /\ txn' = [txn EXCEPT ![r] =
                        IF u.ack \/ (IsAtomic(u.op) /\ ~({"Sent", "Data"} \subseteq u.got))
                        THEN u ELSE Done(u)]
          /\ line' = IF ~AllocatesCacheLine(u.op) \/ r \notin Caches THEN line
                     ELSE [line EXCEPT ![r] = ParseReadResp(@, u, m)]
      BY DEF RxDat
    <2> QED BY <1>3, <1>4, <2>1
  <1>6. /\ txn'[r].op \in Swapping \cup {"none"}
        /\ \A q \in Requesters \ {r} : txn'[q] = txn[q]
    <2>1. PICK v \in {u, Done(u)} : txn' = [txn EXCEPT ![r] = v]
      BY <1>5
    <2>2. v.op \in Swapping \cup {"none"}
      BY <1>3, <1>4, <2>1, DoneIs
    <2> QED BY <2>1, <2>2 DEF IInv, Shape
  <1>7. DOMAIN line = Requesters /\ Leaves(line[r], line[r])
    BY LineIs DEF CohInv, LineShape
  <1>8. ASSUME r \in Caches PROVE CacheOk(r)'
    <2>1. CacheOk(r)
      BY <1>8 DEF CohInv, CacheInv
    <2>2. Cacheable(r)' = Cacheable(r)
      BY DEF Cacheable
    <2>3. stage[r] # "main"
      BY <1>4, <2>1 DEF CacheOk, Swapping, EvictOps
    <2>4. SendsCopyBack(r)' => ~line[r].valid
      BY <1>4, <1>5, <2>1 DEF SendsCopyBack, CacheOk, Swapping
    <2>5. Swapping \cup {"none"} \subseteq
             (ReqOps \cup {"none"}) \ (Granting \cup ReadOnces \cup Informing \cup {"ReadNoSnp", "DVMOp"})
      BY DEF Granting, Fills, Upgrading, ReadOnces, Informing, Swapping, ReqOps
    <2>6. /\ access[r].kind = "none" => stage[r] = "loop"
          /\ stage[r] \in {"part2", "main"} => access[r].line \in Cacheable(r)
          /\ line[r].valid => line[r].tag \in Cacheable(r)
      BY <2>1 DEF CacheOk
    <2>7. access' = access /\ stage' = stage
      BY <1>1
    <2>8. txn'[r].op \notin Granting \cup ReadOnces \cup Informing \cup {"ReadNoSnp", "Evict"}
      BY <1>6, <2>5 DEF Informing
    <2> QED BY <1>5, <2>2, <2>3, <2>4, <2>6, <2>7, <2>8 DEF CacheOk
  <1>9. cur.op \in Granting => down'[src].dat \in {<<>>, down[src].dat}
    BY <1>2, GrantingIs DEF IInv
  <1>10. txn'[r].op # "DVMOp"
    BY <1>6 DEF Swapping
  <1> QED BY <1>1, <1>5, <1>6, <1>7, <1>8, <1>9, <1>10, LocalCoh

\* CompData: it says that the line is shared if another cache holds it.
LEMMA DataCoh ==
    ASSUME IInv, CohInv, NEW r \in Requesters, r = src, Gives, GivesData,
           NEW m, m.st = down[r].dat[1].st, RxDat(r, m), UNCHANGED <<mode, hnVars>>
    PROVE  CohInv'
  <1> DEFINE t == txn[r]
             u == [t EXCEPT !.got = @ \cup {Counted(t, m)}, !.res = m.data]
  <1>1. UNCHANGED <<access, stage>> /\ down' = Drop(down, r, "dat")
    BY DEF RxDat
  <1>2. down'[r].dat = <<>>
    <2>1. down[r].dat = <<down[r].dat[1]>>
      BY DEF GivesData, One
    <2>2. Tail(down[r].dat) = <<>>
      BY <2>1, OneIs
    <2>3. down'[r]["dat"] = Tail(down[r]["dat"])
      BY <1>1, DropIs
    <2> QED BY <2>2, <2>3
  <1>3. t.ack /\ t.op = cur.op /\ t.line = cur.line /\ cur.op \in Reading /\ cur.waiting = {}
        /\ down[r].dat # <<>>
    BY DEF Gives, GivesData, Served, Serves, Acked, src, Reading, Fixed, One
  <1>4. u.op = t.op /\ u.line = t.line /\ u.ack = t.ack
    BY DEF IInv, Shape, IsTxn
  <1>5. up' = Put(up, r, "rsp", CompAck) /\ txn' = [txn EXCEPT ![r] = u]
        /\ line' = IF ~AllocatesCacheLine(u.op) \/ r \notin Caches THEN line
                   ELSE [line EXCEPT ![r] = ParseReadResp(line[r], u, m)]
    <2>1. /\ up' = IF u.ack THEN Put(up, r, "rsp", Rsp("CompAck", "I", FALSE)) ELSE up
          /\ txn' = [txn EXCEPT ![r] =
                        IF u.ack \/ (IsAtomic(u.op) /\ ~({"Sent", "Data"} \subseteq u.got))
                        THEN u ELSE Done(u)]
          /\ line' = IF ~AllocatesCacheLine(u.op) \/ r \notin Caches THEN line
                     ELSE [line EXCEPT ![r] = ParseReadResp(line[r], u, m)]
      BY DEF RxDat
    <2> QED BY <1>3, <1>4, <2>1 DEF CompAck
  <1> HIDE DEF u
  <1>6. /\ \A q \in Requesters \ {r} : up'[q] = up[q]
        /\ up'[r].rsp = <<CompAck>> /\ up'[r].dat = up[r].dat /\ up[r].dat = <<>>
    BY <1>5, AppendIs DEF IInv, Shape, Put, GivesData, Silent
  <1>7. /\ txn'[r].op = t.op /\ txn'[r].line = t.line
        /\ \A q \in Requesters \ {r} : txn'[q] = txn[q]
    BY <1>4, <1>5 DEF IInv, Shape
  <1>8. DOMAIN line = Requesters /\ IsLine(line[r])
    BY DEF CohInv, LineShape
  <1>9. AllocatesCacheLine(t.op) <=> t.op \in Fills
    BY <1>3, Classes DEF AllocatesCacheLine, Fills
  <1>10. PICK p : p = (m.st # "I") /\ p \in BOOLEAN
    OBVIOUS
  <1>11. PICK s \in BOOLEAN : s <=> m.st \in {"SC", "SD"}
    OBVIOUS
  <1>12. PICK n : n = ParseReadResp(line[r], u, m)
    OBVIOUS
  <1>13. /\ IsLine(n) /\ n.valid = p
         /\ p => n.tag = u.line /\ n.shared = s
    BY <1>8, <1>10, <1>11, <1>12 DEF ParseReadResp, IsLine, LineFields
  <1>14. CASE r \in Caches /\ t.op \in Fills /\ n.valid
    <2>1. line' = [line EXCEPT ![r] = n] /\ n.tag = cur.line
      BY <1>3, <1>4, <1>5, <1>9, <1>10, <1>12, <1>13, <1>14
    <2>2. cur.op \in Granting
      BY <1>3, <1>14 DEF Granting
    <2>3. ASSUME NEW d \in Caches \ {r}, Holds(d, cur.line) PROVE line[d].shared /\ n.shared
      <3>1. d \notin {src} \cup cur.waiting
        BY <1>3
      <3>2. line[d].shared
        BY <2>2, <2>3, <3>1 DEF CohInv, CopiesInv, KnownInv, Known, Reduced, src
      <3>3. SharedData(down[r].dat[1])
        BY <1>3, <2>2, <2>3, <3>1 DEF CohInv, CopiesInv, DataInv
      <3> QED BY <1>10, <1>11, <1>13, <1>14, <3>2, <3>3 DEF SharedData
    <2> QED BY <1>1, <1>2, <1>6, <1>7, <1>13, <1>14, <2>1, <2>2, <2>3, GrantCoh
  <1>15. CASE ~(r \in Caches /\ t.op \in Fills /\ n.valid)
    <2>1. PICK k : /\ k = IF ~AllocatesCacheLine(t.op) \/ r \notin Caches THEN line[r] ELSE n
                   /\ DOMAIN line' = Requesters /\ line'[r] = k
                   /\ \A q \in Requesters \ {r} : line'[q] = line[q]
      BY <1>4, <1>5, <1>8, <1>12
    <2>2. Leaves(line[r], line'[r])
      BY <1>8, <1>9, <1>13, <1>15, <2>1, LineIs DEF Leaves
    <2>3. r \in Caches => CacheOk(r)'
      BY <1>1, <1>6, <1>7, <2>2, CacheStays DEF CohInv, CacheInv, SendsCopyBack
    <2> QED BY <1>1, <1>2, <1>6, <1>7, <2>1, <2>2, <2>3, LocalCoh
  <1> QED BY <1>14, <1>15

LEMMA ArrivedSt == ASSUME NEW m, IsMsg(m) PROVE Arrived(m).st = m.st
  <1>1. PICK a : a = Arrives[<<m.data, m.be>>]
    OBVIOUS
  <1> QED BY <1>1 DEF Arrived, IsMsg, MsgFields

LEMMA RxRspCoh ==
    ASSUME IInv, CohInv, NEW r \in Requesters, RxRsp(r), UNCHANGED <<mode, hnVars>>
    PROVE  CohInv'
  <1>1. down[r].rsp # <<>>
    BY DEF RxRsp
  <1> QED BY <1>1, DownRspIs, RetryCoh, InformedCoh, UniqueCoh, DBIDCoh DEF IInv

LEMMA RxDatCoh ==
    ASSUME IInv, CohInv, NEW r \in Requesters, down[r].dat # <<>>,
           RxDat(r, Arrived(Head(down[r].dat))), UNCHANGED <<mode, hnVars>>
    PROVE  CohInv'
  <1>1. CASE Replied(r)
    BY <1>1, ReplyCoh
  <1>2. CASE r = src /\ Gives /\ GivesData
    <2>1. /\ IsMsg(down[r].dat[1])
          /\ Head(down[r].dat) = down[r].dat[1]
      BY <1>2, OneIs DEF GivesData, One
    <2>2. Arrived(Head(down[r].dat)).st = down[r].dat[1].st
      BY <2>1, ArrivedSt
    <2> QED BY <1>2, <2>2, DataCoh
  <1> QED BY <1>1, <1>2, DownDatIs DEF IInv

\* A cache that is snooped keeps as little of the line as its answer says.
LEMMA SnoopCoh ==
    ASSUME IInv, CohInv, NEW r \in Requesters, r # src, r \in cur.waiting, Snoops,
           down[r].snp = <<SnoopMsg>>, Silent(r), RxSnp(r), UNCHANGED <<mode, hnVars>>
    PROVE  CohInv'
  <1>1. /\ UNCHANGED <<access, stage, txn, mode, reqList, cur, filter>>
        /\ down' = Drop(down, r, "snp")
    BY DEF RxSnp, hnVars
  <1>2. Head(down[r].snp) = SnoopMsg
    BY OneIs
  <1>3. \A q \in Requesters : down'[q].dat = down[q].dat
    BY <1>1, DropIs
  <1>4. /\ cur.op \in Snooping /\ SnoopMsg.t \in {SnoopOf(cur.op), FwdOf(SnoopOf(cur.op))}
        /\ SnoopMsg.line = cur.line /\ src \in Requesters
    BY DEF Snoops, SnoopMsg, GetOpcode, Served, Serves, src
  <1>5. SnoopMsg.t # "SnpDVMOp"
    <2>1. "SnpDVMOp" \notin PlainSnoops \cup FwdSnoops
      BY DEF PlainSnoops, FwdSnoops
    <2>2. GetOpcode(cur.op, cur.fwd) \in {GetOpcode(cur.op, TRUE), GetOpcode(cur.op, FALSE)}
      BY DEF GetOpcode
    <2>3. SnoopMsg.t = GetOpcode(cur.op, cur.fwd)
      BY DEF SnoopMsg
    <2> QED BY <1>4, <2>1, <2>2, <2>3, SnoopIs
  <1>6. HandleSnp(r, SnoopMsg)
    BY <1>2, <1>5 DEF RxSnp
  <1>7. PICK a : /\ a = IF InCache(r, SnoopMsg.line, FALSE)
                        THEN SnpReply(SnoopMsg.t, line[r], GetStatus(line[r]))
                        ELSE SnpResp(line[r], "I")
                 /\ up' = Put(up, r, IF a.t \in OnRsp THEN "rsp" ELSE "dat",
                              [t |-> a.t, st |-> a.st, pd |-> a.pd, to |-> SnoopMsg.to,
                               fst |-> a.fst, fpd |-> a.fpd, pull |-> a.pull])
                 /\ line' = [line EXCEPT ![r] = a.line]
    BY <1>6 DEF HandleSnp
  <1>8. a.t \in OnRsp \cup OnDat
    <2>1. SnpResp(line[r], "I").t = "SnpResp"
      BY DEF SnpResp, Reply
    <2> QED BY <1>7, <2>1, SnpReplyIs DEF OnRsp
  <1>9. PICK x : /\ up' = Put(up, r, IF a.t \in OnRsp THEN "rsp" ELSE "dat", x)
                 /\ x.t = a.t /\ x.st = a.st /\ x.fst = a.fst
    <2> DEFINE x == [t |-> a.t, st |-> a.st, pd |-> a.pd, to |-> SnoopMsg.to,
                     fst |-> a.fst, fpd |-> a.fpd, pull |-> a.pull]
    <2>1. x.t = a.t /\ x.st = a.st /\ x.fst = a.fst
      OBVIOUS
    <2>2. up' = Put(up, r, IF a.t \in OnRsp THEN "rsp" ELSE "dat", x)
      BY <1>7
    <2> HIDE DEF x
    <2> QED BY <2>1, <2>2
  <1>10. /\ \A q \in Requesters \ {r} : up'[q] = up[q]
         /\ a.t \in OnRsp => up'[r].rsp = <<x>> /\ up'[r].dat = <<>>
         /\ a.t \notin OnRsp => up'[r].dat = <<x>> /\ up'[r].rsp = <<>>
    <2>1. Append(up[r].rsp, x) = <<x>> /\ Append(up[r].dat, x) = <<x>>
      BY AppendIs DEF Silent
    <2>2. CASE a.t \in OnRsp
      BY <1>9, <2>1, <2>2 DEF IInv, Shape, Put, Silent
    <2>3. CASE a.t \notin OnRsp
      BY <1>9, <2>1, <2>3 DEF IInv, Shape, Put, Silent
    <2> QED BY <2>2, <2>3
  <1>11. DOMAIN line = Requesters /\ \A q \in Requesters : IsLine(line[q])
    BY DEF CohInv, LineShape
  <1>12. InCache(r, SnoopMsg.line, FALSE) <=> Holds(r, cur.line)
    BY <1>4 DEF InCache, Holds
  <1>13. /\ Leaves(line[r], a.line)
         /\ a.st = "I" => ~(a.line.valid /\ a.line.tag = cur.line)
         /\ cur.op \in Granting /\ a.line.valid /\ a.line.tag = cur.line =>
               /\ cur.op \notin Uniquely /\ a.line.shared
               /\ a.t \in Fwded => a.fst = "SC"
    <2>1. CASE Holds(r, cur.line)
      <3>1. a = SnpReply(SnoopMsg.t, line[r], GetStatus(line[r])) /\ line[r].valid
        BY <1>7, <1>12, <2>1 DEF Holds
      <3>2. /\ Told(a, line[r])
            /\ cur.op \in Uniquely => ~a.line.valid
            /\ cur.op \in Granting => /\ a.line.valid => a.line.shared
                                      /\ a.t \in Fwded /\ a.line.valid => a.fst = "SC"
        BY <1>4, <1>11, <3>1, SnoopLeaves
      <3> QED BY <3>2 DEF Told
    <2>2. CASE ~Holds(r, cur.line)
      <3>1. a.line = line[r]
        BY <1>7, <1>12, <2>2 DEF SnpResp, Reply
      <3> QED BY <1>11, <2>2, <3>1, LineIs DEF Holds
    <2> QED BY <2>1, <2>2
  <1>14. /\ DOMAIN line' = Requesters /\ line'[r] = a.line
         /\ \A q \in Requesters \ {r} : line'[q] = line[q]
    BY <1>7, <1>11
  <1>15. \A q \in Requesters : Leaves(line[q], line'[q])
    BY <1>11, <1>13, <1>14, LineIs
  <1>16. LineShape'
    BY <1>1, <1>14, <1>15 DEF LineShape, CohInv, Leaves
  <1>17. ASSUME NEW m, m = x
         PROVE  /\ m.st = "I" => ~Holds(r, cur.line)'
                /\ cur'.op \in Granting =>
                      /\ Reduced(cur, r)'
                      /\ m.t \in Fwded /\ Holds(r, cur.line)' => m.fst = "SC"
    BY <1>1, <1>9, <1>13, <1>14, <1>17 DEF Reduced, Holds
  <1>18. Confirmed(r)'
    <2>1. <<x>>[1] = x
      BY OneIs
    <2> QED BY <1>10, <1>17, <2>1 DEF Confirmed, AnswerOk, Fwded
  <1>19. /\ x.t \notin {"CompData", "CopyBackWrData"} \/ up'[r].dat = <<>>
         /\ up'[r].dat # <<>> => up'[r].dat[1] = x
    BY <1>8, <1>9, <1>10, OneIs DEF OnDat
  <1>20. ASSUME NEW c \in Caches PROVE CacheOk(c)'
    <2>1. CacheOk(c) /\ Leaves(line[c], line'[c]) /\ txn' = txn /\ access' = access /\ stage' = stage
          /\ c \in Requesters
      BY <1>1, <1>15 DEF CohInv, CacheInv, Requesters
    <2>2. SendsCopyBack(c)' => SendsCopyBack(c)
      BY <1>10, <1>19, <2>1 DEF SendsCopyBack
    <2> QED BY <1>1, <2>1, <2>2, CacheStays
  <1>21. CacheInv'
    <2>1. ASSUME NEW q \in Requesters PROVE Elsewhere(txn[q])'
      BY <1>1 DEF CohInv, CacheInv, Elsewhere, Cacheable
    <2> QED BY <1>20, <2>1 DEF CacheInv
  <1>22. SameReq /\ CopiesInv
    BY <1>1 DEF SameReq, CohInv
  <1>23. \A c \in Caches : c \in Requesters /\ Leaves(line[c], line'[c])
    BY <1>15 DEF Requesters
  <1>24. \A d \in Caches \cap cur.waiting :
            (up'[d].rsp = up[d].rsp /\ up'[d].dat = up[d].dat) \/ Confirmed(d)'
    <2>1. ASSUME NEW d \in Caches \cap cur.waiting, d # r
          PROVE  up'[d].rsp = up[d].rsp /\ up'[d].dat = up[d].dat
      BY <1>10, <1>23, <2>1
    <2> QED BY <1>18, <2>1
  <1>25. /\ down'[src].dat = down[src].dat
         /\ up'[src] = up[src]
         /\ \A e \in Requesters \ {src} :
               \/ up'[e].dat = up[e].dat
               \/ up'[e].dat # <<>> => up'[e].dat[1].t # "CompData"
    BY <1>3, <1>4, <1>10, <1>19
  <1>26. CopiesInv'
    BY <1>1, <1>22, <1>23, <1>24, <1>25, CopiesStay
  <1> QED BY <1>16, <1>21, <1>26 DEF CohInv

LEMMA DVMSnoopCoh ==
    ASSUME IInv, CohInv, NEW r \in Requesters, r # src, SnoopsDVM, down[r].snp # <<>>,
           Head(down[r].snp) = DVMSnp, RxSnp(r), UNCHANGED <<mode, hnVars>>
    PROVE  CohInv'
  <1>1. UNCHANGED <<access, stage, txn>> /\ down' = Drop(down, r, "snp")
    BY DEF RxSnp
  <1>2. \A q \in Requesters : down'[q].dat = down[q].dat
    BY <1>1, DropIs
  <1>3. HandleSnpDVMOp(r)
    BY DEF RxSnp, DVMSnp
  <1>4. /\ line' = line
        /\ up' = IF dvm[r] THEN Put(up, r, "rsp", SnpRespI) ELSE up
    BY <1>3 DEF HandleSnpDVMOp, SnpRespI
  <1>5. /\ \A q \in Requesters \ {r} : up'[q] = up[q]
        /\ up'[r].dat = up[r].dat
    BY <1>4 DEF IInv, Shape, Put
  <1>6. DOMAIN line = Requesters /\ Leaves(line[r], line[r])
    BY LineIs DEF CohInv, LineShape
  <1>7. r \in Caches => CacheOk(r)'
    BY <1>1, <1>4, <1>5, <1>6, CacheStays DEF CohInv, CacheInv, SendsCopyBack
  <1>8. cur.op = "DVMOp" /\ cur.op \notin Granting
    BY DEF SnoopsDVM, Granting, Fills, Upgrading
  <1> QED BY <1>1, <1>4, <1>5, <1>6, <1>7, <1>8, LocalCoh

LEMMA RxSnpCoh ==
    ASSUME IInv, CohInv, NEW r \in Requesters, RxSnp(r), UNCHANGED <<mode, hnVars>>
    PROVE  CohInv'
  <1>1. down[r].snp # <<>>
    BY DEF RxSnp
  <1>2. /\ down[r].snp = <<DVMSnp, DVMSnp>> => Head(down[r].snp) = DVMSnp
        /\ down[r].snp = <<DVMSnp>> => Head(down[r].snp) = DVMSnp
    BY OneIs, TwoIs
  <1> QED BY <1>1, <1>2, DownSnpIs, SnoopCoh, DVMSnoopCoh DEF IInv

LEMMA ReceiveCoh ==
    ASSUME IInv, CohInv, NEW r \in Requesters, Receive(r)
    PROVE  CohInv'
  BY RxRspCoh, RxDatCoh, RxSnpCoh DEF Receive

(***************************************************************************)
(* A request comes to the home node, and the slave node takes something:   *)
(* no cache changes, nor what is known of them.                            *)
(***************************************************************************)
LEMMA AsideCoh ==
    ASSUME CohInv, UNCHANGED <<mode, line, access, stage, txn, cur, filter>>,
           \A r \in Requesters : up'[r].rsp = up[r].rsp /\ up'[r].dat = up[r].dat,
           \A r \in Requesters : down'[r].dat = down[r].dat,
           cur.op \in Granting => src \in Requesters
    PROVE  CohInv'
  <1>1. LineShape' /\ SameReq /\ CopiesInv
    BY DEF CohInv, LineShape, SameReq
  <1>2. CacheInv' /\ \A c \in Caches : Leaves(line[c], line'[c])
    BY CachesRest DEF Requesters, SendsCopyBack
  <1>3. CopiesInv'
    <2>1. \A d \in Caches \cap cur.waiting : up'[d].rsp = up[d].rsp /\ up'[d].dat = up[d].dat
      BY DEF Requesters
    <2> QED BY <1>1, <1>2, <2>1, CopiesStay
  <1> QED BY <1>1, <1>2, <1>3 DEF CohInv

LEMMA SendReqCoh ==
    ASSUME IInv, CohInv, NEW r \in Requesters, SendReq(r)
    PROVE  CohInv'
  <1>1. PICK m : TransmitReq(r, m) /\ RxReq(r, m)
    BY DEF SendReq
  <1>2. UNCHANGED <<mode, line, access, stage, txn, cur, filter>>
    BY <1>1 DEF SendReq, TransmitReq, rnVars, RxReq
  <1>3. up' = Drop(up, r, "req")
    BY <1>1 DEF TransmitReq
  <1>4. \A q \in Requesters : up'[q].rsp = up[q].rsp /\ up'[q].dat = up[q].dat
    BY <1>3 DEF Drop, IInv, Shape
  <1>5. \A q \in Requesters : down'[q].dat = down[q].dat
    <2>1. down' = down \/ down' = ReplyRetry(r)
      BY <1>1 DEF RxReq
    <2>2. PICK d : d = Put(down, r, "rsp", Rsp("RetryAck", "I", FALSE))
      OBVIOUS
    <2>3. /\ DOMAIN d = Requesters /\ DOMAIN d[r] = {"rsp", "dat", "snp"} /\ d[r].dat = down[r].dat
          /\ \A q \in Requesters \ {r} : d[q] = down[q]
      BY <2>2 DEF Put, IInv, Shape
    <2>4. ASSUME down' = Put(d, r, "rsp", Rsp("PCrdGrant", "I", FALSE))
          PROVE  \A q \in Requesters : down'[q].dat = down[q].dat
      BY <2>3, <2>4 DEF Put
    <2> QED BY <2>1, <2>2, <2>4 DEF ReplyRetry
  <1> QED BY <1>2, <1>4, <1>5, AsideCoh, GrantingIs DEF IInv

LEMMA SlaveCoh ==
    ASSUME IInv, CohInv, Slave
    PROVE  CohInv'
  <1>1. UNCHANGED <<mode, line, access, stage, txn, cur, filter, up, down>>
    BY DEF Slave, rnVars, hnVars, SnRxReq, SnRxDat
  <1> QED BY <1>1, AsideCoh, GrantingIs DEF IInv

(***************************************************************************)
(* The home node goes on with a request whose snoops are answered.         *)
(***************************************************************************)
\* Nothing has yet been sent to the requester of q, and filter f lists what
\* the caches hold.
Prepared(q, f) ==
    /\ IsReq(q) /\ q.src \in Requesters /\ q.waiting = {} /\ ~q.fwded
    /\ Known(q) /\ (q.op \in Granting => q.ack)
    /\ DOMAIN f = Requesters
    /\ \A c \in Caches : line[c].valid => line[c].tag \in f[c]
    /\ q.src \in Caches /\ q.op \in Informing => ~line[q.src].valid
    /\ down[q.src].dat = <<>>

\* The home node has gone on with q, and if it has sent data, then data that
\* says whether another cache has kept a copy.
LEMMA TurnCoh ==
    ASSUME AloneInv, NEW q, NEW f, Prepared(q, f), line' = line,
           \A e \in Requesters : up'[e].dat = <<>>,
           \/ /\ cur'.op = q.op /\ cur'.src = q.src /\ cur'.line = q.line
              /\ cur'.waiting = {} /\ cur'.snpResp = q.snpResp
              /\ filter' = f
              /\ q.op \in Granting /\ q.snpResp = "SC" /\ down'[q.src].dat # <<>>
                    => SharedData(down'[q.src].dat[1])
           \/ /\ cur' = NoReq
              /\ filter' = f \/ (q.op \in Informing /\ filter' = FilterAfterReq(q, f))
    PROVE  CopiesInv' /\ DOMAIN filter' = Requesters
  <1>1. AloneInv'
    BY DEF AloneInv, Holds
  <1>2. CASE cur' = NoReq
    <2>1. cur'.op \notin Granting /\ cur'.waiting = {}
      BY <1>2, NoReqIs DEF NoReq, Granting, Fills, Upgrading
    <2>2. DOMAIN filter' = Requesters
          /\ \A c \in Caches : line[c].valid => line[c].tag \in filter'[c]
      <3>1. CASE filter' = f
        BY <3>1 DEF Prepared
      <3>2. CASE q.op \in Informing /\ filter' = FilterAfterReq(q, f)
        <4>1. PICK k : filter' = [f EXCEPT ![q.src] = k]
          BY <3>2 DEF FilterAfterReq
        <4>2. \A c \in Requesters \ {q.src} : filter'[c] = f[c]
          BY <4>1 DEF Prepared
        <4> QED BY <3>2, <4>1, <4>2 DEF Prepared, Requesters
      <3>3. filter' = f \/ (q.op \in Informing /\ filter' = FilterAfterReq(q, f))
        BY <1>2, NoneIsNoReq, ChiAssumption DEF Prepared
      <3> QED BY <3>1, <3>2, <3>3
    <2>3. FilterInv'
      BY <2>2 DEF FilterInv
    <2>4. AnswersInv' /\ KnownInv' /\ DataInv'
      BY <2>1 DEF AnswersInv, KnownInv, Known, DataInv
    <2> QED BY <1>1, <2>2, <2>3, <2>4 DEF CopiesInv
  <1>3. CASE cur' # NoReq
    <2>1. /\ cur'.op = q.op /\ cur'.src = q.src /\ cur'.line = q.line
          /\ cur'.waiting = {} /\ cur'.snpResp = q.snpResp
          /\ filter' = f
          /\ q.op \in Granting /\ q.snpResp = "SC" /\ down'[q.src].dat # <<>>
                => SharedData(down'[q.src].dat[1])
      BY <1>3
    <2>2. FilterInv'
      BY <2>1 DEF FilterInv, Prepared
    <2>3. ASSUME q.op \in Granting, NEW d \in Caches \ {q.src}, Holds(d, q.line)
          PROVE  Reduced(q, d) /\ q.snpResp = "SC"
      BY <2>3 DEF Prepared, Known, SharedKnown
    <2>4. KnownInv'
      BY <2>1, <2>3 DEF KnownInv, Known, SharedKnown, Reduced, Holds
    <2>5. AnswersInv'
      BY <2>1 DEF AnswersInv
    <2>6. DataInv'
      <3> SUFFICES ASSUME q.op \in Granting, NEW d \in Caches \ {q.src}, Holds(d, q.line)
                   PROVE  down'[q.src].dat # <<>> => SharedData(down'[q.src].dat[1])
        BY <2>1 DEF DataInv, SharedData, Holds, src
      <3> QED BY <2>1, <2>3
    <2> QED BY <1>1, <2>1, <2>2, <2>4, <2>5, <2>6 DEF CopiesInv, Prepared
  <1> QED BY <1>2, <1>3

LEMMA ToSNCoh ==
    ASSUME AloneInv, NEW q, NEW f, Prepared(q, f), line' = line,
           \A e \in Requesters : up'[e].dat = <<>>, NEW op, ToSN(q, f, op)
    PROVE  CopiesInv' /\ DOMAIN filter' = Requesters
  <1>1. PICK n : cur' = [q EXCEPT !.snReq = n]
    BY DEF ToSN
  <1>2. /\ cur'.op = q.op /\ cur'.src = q.src /\ cur'.line = q.line
        /\ cur'.waiting = {} /\ cur'.snpResp = q.snpResp
    BY <1>1 DEF Prepared, IsReq, ReqFields
  <1>3. filter' = f /\ down'[q.src].dat = <<>>
    BY DEF ToSN, Prepared
  <1> QED BY <1>2, <1>3, TurnCoh

\* An answer to the requester.
LEMMA ToRNIs ==
    ASSUME IInv, NEW q, q.src \in Requesters, NEW m, ToRN(q, m), down[q.src].dat = <<>>
    PROVE  /\ m.t # "CompData" => down'[q.src].dat = <<>>
           /\ m.t = "CompData" => down'[q.src].dat # <<>> /\ down'[q.src].dat[1] = m
  <1>1. CASE m.t = "CompData"
    <2>1. down'[q.src].dat = <<m>>
      BY <1>1, AppendIs DEF ToRN, Put, IInv, Shape
    <2> QED BY <1>1, <2>1, OneIs
  <1>2. CASE m.t # "CompData"
    BY <1>2 DEF ToRN, Put, IInv, Shape
  <1> QED BY <1>1, <1>2

\* The request is not changed in what TurnCoh asks of it.
LEMMA WithAck ==
    ASSUME NEW q, IsReq(q), q.waiting = {}, NEW b,
           cur' = q \/ cur' = [q EXCEPT !.waitAck = b]
    PROVE  /\ cur'.op = q.op /\ cur'.src = q.src /\ cur'.line = q.line
           /\ cur'.waiting = {} /\ cur'.snpResp = q.snpResp
  BY DEF IsReq, ReqFields

LEMMA ProcessReqCoh ==
    ASSUME IInv, AloneInv, NEW q, NEW f, Prepared(q, f), line' = line,
           \A e \in Requesters : up'[e].dat = <<>>, ProcessReq(q, f)
    PROVE  CopiesInv' /\ DOMAIN filter' = Requesters
  <1>1. IsReq(q) /\ q.src \in Requesters /\ q.waiting = {} /\ down[q.src].dat = <<>>
    BY DEF Prepared
  <1>2. CASE IsRead(q.op) /\ \E p : /\ ToSN(p, f, "ReadNoSnp")
                                    /\ p = [q EXCEPT !.waitReceipt = AllowsDMT(q) /\ ~q.ack,
                                                     !.waitAck = @ \/ (AllowsDMT(q) /\ q.ack)]
    <2>1. PICK p : /\ ToSN(p, f, "ReadNoSnp")
                   /\ p = [q EXCEPT !.waitReceipt = AllowsDMT(q) /\ ~q.ack,
                                    !.waitAck = @ \/ (AllowsDMT(q) /\ q.ack)]
      BY <1>2
    <2>2. /\ IsReq(p) /\ p.op = q.op /\ p.src = q.src /\ p.line = q.line
          /\ p.waiting = q.waiting /\ p.fwded = q.fwded /\ p.snpResp = q.snpResp
          /\ p.fwd = q.fwd /\ p.shared = q.shared /\ p.ack = q.ack
      BY <1>1, <2>1 DEF IsReq, ReqFields
    <2>3. Prepared(p, f)
      BY <2>2 DEF Prepared, Known, SharedKnown, Reduced
    <2> QED BY <2>1, <2>3, ToSNCoh
  <1>3. ASSUME NEW m, ToRN(q, m), m.t # "CompData", NEW b,
               cur' = q \/ cur' = [q EXCEPT !.waitAck = b], filter' = f
        PROVE  CopiesInv' /\ DOMAIN filter' = Requesters
    <2>1. down'[q.src].dat = <<>>
      BY <1>1, <1>3, ToRNIs
    <2> QED BY <1>1, <1>3, <2>1, WithAck, TurnCoh
  <1>4. CASE /\ ToRN(q, Rsp("CompDBIDResp", "I", FALSE))
             /\ cur' = [q EXCEPT !.waitAck = @ \/ (IsWriteUnique(q.op) /\ q.ack)]
             /\ filter' = f
    BY <1>3, <1>4, Answers DEF CompDBIDResp
  <1>5. CASE /\ IsDataLess(q.op)
             /\ ToRN(q, Rsp("Comp", IF q.op \in {"CleanUnique", "MakeUnique"} THEN "UC" ELSE "I", FALSE))
             /\ cur' = IF q.ack THEN [q EXCEPT !.waitAck = TRUE] ELSE NoReq
             /\ filter' = IF q.ack THEN f ELSE FilterAfterReq(q, f)
    <2>1. CASE q.ack
      <3>1. PICK m : m = Rsp("Comp", IF q.op \in {"CleanUnique", "MakeUnique"} THEN "UC" ELSE "I", FALSE)
        OBVIOUS
      <3>2. m.t # "CompData"
        BY <3>1 DEF Rsp, Msg
      <3> QED BY <1>3, <1>5, <2>1, <3>1, <3>2
    <2>2. CASE ~q.ack /\ q.op \in Informing
      BY <1>5, <2>2, TurnCoh
    <2>3. CASE ~q.ack /\ q.op \in Upgrading
      <3>1. q.op \in Granting
        BY <2>3 DEF Granting
      <3> QED BY <2>3, <3>1 DEF Prepared
    <2> QED BY <1>5, <2>1, <2>2, <2>3, Classes
  <1>6. CASE /\ ToRN(q, Rsp("DBIDResp", "I", FALSE))
             /\ cur' = q
             /\ filter' = f
    BY <1>3, <1>6, Answers DEF DBIDResp
  <1> QED BY <1>2, <1>4, <1>5, <1>6 DEF ProcessReq

LEMMA ProcessSnpdReqCoh ==
    ASSUME IInv, AloneInv, NEW q, NEW f, Prepared(q, f), line' = line,
           \A e \in Requesters : up'[e].dat = <<>>, ProcessSnpdReq(q, f),
           q.op = "DVMOp" => ~q.gotSnpData
    PROVE  CopiesInv' /\ DOMAIN filter' = Requesters
  <1>1. IsReq(q) /\ q.src \in Requesters /\ q.waiting = {} /\ down[q.src].dat = <<>>
    BY DEF Prepared
  <1>0. q.op = "DVMOp" => ~MustWriteBack(q) /\ ~CanAnswer(q)
    BY DEF MustWriteBack, CanAnswer
  <1>2. CASE MustWriteBack(q)
    <2>1. PICK p : p = [q EXCEPT !.snpPD = FALSE]
      OBVIOUS
    <2>2. ToSN(p, f, "WriteNoSnpPtl")
      BY <1>0, <1>2, <2>1 DEF ProcessSnpdReq
    <2>3. /\ IsReq(p) /\ p.op = q.op /\ p.src = q.src /\ p.line = q.line /\ p.ack = q.ack
          /\ p.waiting = q.waiting /\ p.fwded = q.fwded /\ p.snpResp = q.snpResp
          /\ p.fwd = q.fwd /\ p.shared = q.shared
      BY <1>1, <2>1 DEF IsReq, ReqFields
    <2>4. Prepared(p, f)
      BY <2>3 DEF Prepared, Known, SharedKnown, Reduced
    <2> QED BY <2>2, <2>4, ToSNCoh
  <1>3. CASE ~MustWriteBack(q) /\ CanAnswer(q)
    <2>1. PICK m : m = SnpCompData(q)
      OBVIOUS
    <2>2. /\ ToRN(q, m) /\ filter' = f
          /\ cur' = IF q.ack THEN [q EXCEPT !.waitAck = TRUE] ELSE NoReq
      BY <1>0, <1>3, <2>1 DEF ProcessSnpdReq
    <2>3. /\ m.t = "CompData"
          /\ q.op \in Granting /\ q.snpResp = "SC" => SharedData(m)
      <3>1. m.t = "CompData"
            /\ m.st = IF IsNonCoherentRead(q.op) THEN "I"
                      ELSE IF ~q.snpPD THEN q.snpResp ELSE IF q.snpResp = "SC" THEN "SD" ELSE "UD"
        BY <2>1 DEF SnpCompData, Msg
      <3>2. q.op \in Granting => ~IsNonCoherentRead(q.op)
        BY DEF Granting, Fills, Upgrading, IsNonCoherentRead, IsReadOnce
      <3> QED BY <3>1, <3>2 DEF SharedData
    <2>4. q.op \in Granting /\ q.snpResp = "SC" /\ down'[q.src].dat # <<>>
             => SharedData(down'[q.src].dat[1])
      BY <1>1, <2>2, <2>3, ToRNIs
    <2>5. CASE q.ack
      BY <1>1, <2>2, <2>4, <2>5, WithAck, TurnCoh
    <2>6. CASE ~q.ack
      BY <2>2, <2>6, TurnCoh
    <2> QED BY <2>5, <2>6
  <1>4. CASE ~MustWriteBack(q) /\ ~CanAnswer(q) /\ q.op = "DVMOp"
    <2>1. cur' = NoReq /\ filter' = f
      BY <1>4 DEF ProcessSnpdReq
    <2> QED BY <2>1, TurnCoh
  <1>5. CASE ~MustWriteBack(q) /\ ~CanAnswer(q) /\ q.op # "DVMOp"
    <2>1. PICK p : p = [q EXCEPT !.gotSnpData = FALSE, !.toSNDone = FALSE]
      OBVIOUS
    <2>2. ProcessReq(p, f)
      BY <1>5, <2>1 DEF ProcessSnpdReq
    <2>3. /\ IsReq(p) /\ p.op = q.op /\ p.src = q.src /\ p.line = q.line /\ p.ack = q.ack
          /\ p.waiting = q.waiting /\ p.fwded = q.fwded /\ p.snpResp = q.snpResp
          /\ p.fwd = q.fwd /\ p.shared = q.shared
      BY <1>1, <2>1 DEF IsReq, ReqFields
    <2>4. Prepared(p, f)
      BY <2>3 DEF Prepared, Known, SharedKnown, Reduced
    <2> QED BY <2>2, <2>4, ProcessReqCoh
  <1> QED BY <1>2, <1>3, <1>4, <1>5

\* A request of a cache that only informs is of a line that it does not hold.
LEMMA InformerIs ==
    ASSUME CacheInv, NEW q, Serves(q, txn[q.src])
    PROVE  /\ q.src \in Caches /\ q.op \in Informing => ~line[q.src].valid
           /\ q.op \in Granting => q.ack
  <1>1. ASSUME q.src \in Caches, q.op \in Informing PROVE ~line[q.src].valid
    <2>1. CacheOk(q.src) /\ txn[q.src].op = q.op
      BY <1>1 DEF CacheInv, Serves
    <2> QED BY <1>1, <2>1 DEF CacheOk
  <1>2. q.op \in Granting => q.ack
    BY DEF Serves, Acked, Granting, Reading
  <1> QED BY <1>1, <1>2

(***************************************************************************)
(* The next request: whoever holds its line is snooped for it.             *)
(***************************************************************************)
LEMMA RouteReqCoh ==
    ASSUME IInv, CohInv, RouteReq, UNCHANGED <<mode, rnVars>>
    PROVE  CohInv'
  <1>0. PICK q : q = Head(reqList)
    OBVIOUS
  <1>1. cur = NoReq /\ reqList # <<>> /\ UNCHANGED <<up, line, access, stage, txn, mode>>
    BY DEF RouteReq, rnVars
  <1>2. IF GetSnpAttr(q.op) /\ IsSnoopingReq(q.op) /\ SnoopPorts(q) # {}
        THEN Snoop(q) ELSE ProcessReq(q, filter)
    BY <1>0 DEF RouteReq
  <1>3. Idle
    BY <1>1, NoReqIsIdle DEF IInv
  <1>4. /\ q = reqList[1] /\ 1 \in DOMAIN reqList /\ q.src \in Requesters
        /\ Serves(q, txn[q.src]) /\ IsReq(q) /\ q.op \in ReqOps
        /\ q.waiting = {} /\ ~q.fwded /\ Listed(q.src)
    BY <1>0, <1>1, HeadIs, SeqLen DEF IInv, Shape
  <1>5. ~q.shared
    <2>1. ASSUME NEW a, NEW b, NEW c, NEW d
          PROVE  ~[NoReq EXCEPT !.op = a, !.src = b, !.line = c, !.ack = d].shared
      BY DEF NoReq
    <2>2. q = [NoReq EXCEPT !.op = q.op, !.src = q.src, !.line = q.line, !.ack = q.ack]
      BY <1>4 DEF IInv, ListInv
    <2> QED BY <2>1, <2>2
  <1>6. \A r \in Requesters : up[r].rsp = <<>> /\ up[r].dat = <<>>
    BY <1>3 DEF Idle, Calm, Silent
  <1>7. down[q.src].dat = <<>>
    BY <1>3, <1>4 DEF Idle, Aside, Free, Asks, Retried, Informed, Replied, Queued, Abandoned,
                    NoAnswer
  <1>8. \A c \in Caches : line[c].valid => line[c].tag \in filter[c]
    <2>1. cur.op \notin Granting
      BY <1>1, NoneIsNoReq DEF Granting, Fills, Upgrading
    <2> QED BY <2>1 DEF CohInv, CopiesInv, FilterInv, Granted
  <1>9. \A d \in Caches \ {q.src} : Holds(d, q.line) => d \in SnoopPorts(q)
    BY <1>8 DEF Holds, SnoopPorts, Requesters
  <1>10. AloneInv /\ DOMAIN filter = Requesters /\ CacheInv
    BY DEF CohInv, CopiesInv, LineShape
  <1>11. CopiesInv' /\ DOMAIN filter' = Requesters
    <2>1. CASE GetSnpAttr(q.op) /\ IsSnoopingReq(q.op) /\ SnoopPorts(q) # {}
      <3>1. Snoop(q)
        BY <1>2, <2>1
      <3>2. PICK ports : ports = SnoopPorts(q)
        OBVIOUS
      <3>3. PICK b : cur' = [q EXCEPT !.waiting = ports, !.fwd = b, !.waitAck = b]
        <4>1. PICK x : x = GetOpcode(q.op, mode.dct /\ Cardinality(ports) = 1)
          BY <3>2
        <4>2. cur' = [q EXCEPT !.waiting = ports, !.fwd = x \in FwdSnoops, !.waitAck = x \in FwdSnoops]
          BY <3>1, <3>2, <4>1 DEF Snoop
        <4> QED BY <4>2
      <3>4. /\ cur'.op = q.op /\ cur'.src = q.src /\ cur'.line = q.line
            /\ cur'.waiting = ports /\ cur'.shared = q.shared
        BY <1>4, <3>3 DEF IsReq, ReqFields
      <3>5. filter' = filter /\ down'[q.src].dat = down[q.src].dat
        BY <1>4, <3>1 DEF Snoop, SendSnoops, IInv, Shape
      <3>6. AloneInv'
        BY <1>1, <1>10 DEF AloneInv, Holds
      <3>7. FilterInv'
        BY <1>1, <1>8, <3>5 DEF FilterInv
      <3>8. AnswersInv'
        BY <1>1, <1>6 DEF AnswersInv, Confirmed, Requesters
      <3>9. KnownInv'
        BY <1>1, <1>5, <1>9, <3>2, <3>4 DEF KnownInv, Known, Holds
      <3>10. DataInv'
        BY <1>1, <1>6, <1>7, <3>4, <3>5 DEF DataInv, src
      <3> QED BY <1>10, <3>5, <3>6, <3>7, <3>8, <3>9, <3>10 DEF CopiesInv
    <2>2. CASE ~(GetSnpAttr(q.op) /\ IsSnoopingReq(q.op) /\ SnoopPorts(q) # {})
      <3>1. Known(q)
        <4>1. q.op \in Granting => q.op \in Snooping
          BY DEF Granting, Snooping
        <4>2. q.op \in Granting => SnoopPorts(q) = {}
          BY <1>4, <2>2, <4>1, Classes
        <4> QED BY <1>4, <1>9, <4>2 DEF Known
      <3>2. Prepared(q, filter)
        BY <1>4, <1>7, <1>8, <1>10, <3>1, InformerIs DEF Prepared
      <3> QED BY <1>1, <1>2, <1>6, <1>10, <2>2, <3>2, ProcessReqCoh
    <2> QED BY <2>1, <2>2
  <1>12. CacheInv'
    BY <1>1, CachesRest DEF SendsCopyBack
  <1>13. LineShape'
    BY <1>1, <1>11 DEF CohInv, LineShape
  <1> QED BY <1>11, <1>12, <1>13 DEF CohInv

(***************************************************************************)
(* A requester has finished its transaction.                               *)
(***************************************************************************)
LEMMA OverIs ==
    ASSUME CohInv, NEW r \in Requesters, UNCHANGED <<mode, line, access, stage>>,
           txn'[r].op = "none", \A q \in Requesters \ {r} : txn'[q] = txn[q],
           r \in Caches /\ stage[r] = "main" => ~line[r].valid,
           \A c \in Caches : SendsCopyBack(c)' => c # r /\ SendsCopyBack(c)
    PROVE  CacheInv' /\ \A c \in Caches : Leaves(line[c], line'[c])
  <1>1. \A c \in Caches : c \in Requesters /\ Leaves(line[c], line'[c])
    BY LineIs DEF CohInv, LineShape, Requesters
  <1>2. \A c : Cacheable(c)' = Cacheable(c)
    BY DEF Cacheable
  <1>3. ASSUME NEW c \in Caches, c # r PROVE CacheOk(c)'
    BY <1>1, <1>3, CacheStays DEF CohInv, CacheInv
  <1>4. ASSUME r \in Caches PROVE CacheOk(r)'
    <2>1. CacheOk(r)
      BY <1>4 DEF CohInv, CacheInv
    <2>2. "none" \notin Granting \cup ReadOnces \cup Informing
      BY DEF Granting, Fills, Upgrading, ReadOnces, Informing
    <2>3. Cacheable(r)' = Cacheable(r) /\ ~SendsCopyBack(r)'
      BY <1>2, <1>4
    <2> QED BY <1>4, <2>1, <2>2, <2>3 DEF CacheOk
  <1>5. ASSUME NEW q \in Requesters PROVE Elsewhere(txn[q])'
    BY <1>2 DEF CohInv, CacheInv, Elsewhere
  <1> QED BY <1>1, <1>3, <1>4, <1>5 DEF CacheInv

\* The acknowledgement of the requester: the filter of its port lists the line
\* that it has got.
LEMMA AckCoh ==
    ASSUME IInv, CohInv, NEW r \in Requesters, r = src, up[r].rsp = <<CompAck>>,
           \/ Gives /\ Acknowledged
           \/ Writes /\ Owed /\ Served,
           SendRsp(r)
    PROVE  CohInv'
  <1>1. PICK m : /\ m = Head(up[r].rsp) /\ TransmitRsp(r, m) /\ HnRxRsp(r, m)
    BY DEF SendRsp
  <1>2. m = CompAck
    BY <1>1, OneIs
  <1>3. /\ up' = Drop(up, r, "rsp") /\ txn' = [txn EXCEPT ![r] = Done(@)]
        /\ UNCHANGED <<mode, line, access, stage>>
    BY <1>1, <1>2, Answers DEF TransmitRsp, SendRsp
  <1>4. RxCompAck(r)
    BY <1>1, <1>2, Answers DEF HnRxRsp
  <1>5. /\ txn'[r].op = "none" /\ \A q \in Requesters \ {r} : txn'[q] = txn[q]
        /\ \A q \in Requesters : up'[q].dat = up[q].dat
    BY <1>3, DoneIs DEF IInv, Shape, Drop
  <1>6. /\ up[r].dat = <<>> /\ cur.waiting = {} /\ txn[r].op = cur.op /\ txn[r].line = cur.line
        /\ cur.op \in Reading \cup Upgrading \cup UniqueWrites
    BY DEF Gives, Acknowledged, Writes, Served, Serves, src, Fixed, Owed
  <1>7. CacheInv' /\ \A c \in Caches : Leaves(line[c], line'[c])
    <2>1. r \in Caches => stage[r] # "main"
      <3>1. cur.op \notin EvictOps \cup {"none"}
        BY <1>6 DEF EvictOps, Reading, ReadOnces, Fills, Upgrading, UniqueWrites
      <3> QED BY <1>6, <3>1 DEF CohInv, CacheInv, CacheOk
    <2>2. \A c \in Caches : SendsCopyBack(c)' => c # r /\ SendsCopyBack(c)
      BY <1>5, <1>6 DEF SendsCopyBack, Requesters
    <2> QED BY <1>3, <1>5, <2>1, <2>2, OverIs
  <1>8. AloneInv' /\ DOMAIN filter = Requesters
    BY <1>3 DEF CohInv, CopiesInv, AloneInv, Holds, LineShape
  <1>9. CASE Gives /\ Acknowledged
    <2>1. cur.op \in Reading \cup Upgrading
      BY <1>9 DEF Gives
    <2>2. ~IsWriteUnique(cur.op)
      BY <2>1, Classes DEF Reading, ReadOnces, Fills, Upgrading, UniqueWrites
    <2>3. cur' = NoReq /\ filter' = FilterAfterReq(cur, filter)
      BY <1>4, <1>6, <2>2 DEF RxCompAck
    <2>4. /\ DOMAIN filter' = Requesters
          /\ \A c \in Requesters \ {r} : filter'[c] = filter[c]
          /\ filter'[r] = IF cur.op \in Granting THEN filter[r] \cup {cur.line}
                          ELSE filter[r] \ {cur.line}
      <3>1. (AllocatesCacheLine(cur.op) \/ cur.op \in {"CleanUnique", "MakeUnique"}) <=> cur.op \in Granting
        BY Classes DEF Granting, Upgrading
      <3>2. ~Keeps(cur.op)
        BY <2>1 DEF Keeps, Reading, ReadOnces, Fills, Upgrading
      <3> QED BY <1>8, <2>3, <3>1, <3>2 DEF FilterAfterReq, src
    <2>5. ASSUME NEW c \in Caches, line[c].valid PROVE line[c].tag \in filter'[c]
      <3>1. line[c].tag \in filter[c] \/ (c = r /\ cur.op \in Granting /\ cur.line = line[c].tag)
        BY <2>5 DEF CohInv, CopiesInv, FilterInv, Granted
      <3>2. CASE c # r \/ cur.op \in Granting
        BY <2>4, <3>1, <3>2 DEF Requesters
      <3>3. CASE c = r /\ cur.op \notin Granting
        <4>1. CacheOk(c)
          BY DEF CohInv, CacheInv
        <4>2. cur.op \in ReadOnces \cup {"ReadNoSnp"}
          BY <2>1, <3>3 DEF Granting, Reading
        <4>3. line[c].tag # cur.line
          BY <1>6, <2>5, <3>3, <4>1, <4>2 DEF CacheOk
        <4> QED BY <2>4, <3>1, <3>3, <4>3
      <3> QED BY <3>2, <3>3
    <2>6. FilterInv'
      BY <1>3, <2>5 DEF FilterInv
    <2>7. cur'.op \notin Granting /\ cur'.waiting = {}
      BY <2>3, NoReqIs DEF NoReq, Granting, Fills, Upgrading
    <2>8. AnswersInv' /\ KnownInv' /\ DataInv'
      BY <2>7 DEF AnswersInv, KnownInv, Known, DataInv
    <2>9. LineShape'
      BY <1>3, <2>4 DEF CohInv, LineShape
    <2> QED BY <1>7, <1>8, <2>6, <2>8, <2>9 DEF CohInv, CopiesInv
  <1>10. CASE Writes /\ Owed /\ Served
    <2>1. cur.op \in UniqueWrites
      BY <1>10 DEF Writes, Owed
    <2>2. cur.op \notin Granting /\ "none" \notin Granting
      BY <2>1 DEF Granting, Fills, Upgrading, UniqueWrites
    <2>3. (cur' = NoReq \/ cur' = [cur EXCEPT !.ackRcvd = TRUE]) /\ filter' = filter
      BY <1>4, <2>1, Classes DEF RxCompAck
    <2>4. cur'.op \notin Granting /\ cur'.waiting = {}
      BY <1>6, <2>2, <2>3, NoReqIs, NoneIsNoReq DEF IInv, Shape, IsReq, ReqFields
    <2>5. CopiesInv'
      BY <1>7, <2>2, <2>3, <2>4, CopiesFree DEF CohInv
    <2> QED BY <1>3, <1>7, <2>3, <2>5 DEF CohInv, LineShape
  <1> QED BY <1>9, <1>10

(***************************************************************************)
(* The home node takes the answer to a snoop.                              *)
(***************************************************************************)
LEMMA SharedIs ==
    ASSUME IsReq(cur), NEW r, NEW m
    PROVE  Tracked(r, m).shared <=> (cur.shared \/ m.st # "I")
  <1>1. PICK d : d = Merge(ZeroData, m.data, m.be)
    OBVIOUS
  <1>2. PICK q : q = IF m.t \in {"SnpRespData", "SnpRespDataPtl", "SnpRespDataFwded"}
                     THEN [CopyData(cur, m) EXCEPT !.hasData = TRUE,
                                                   !.ptl = @ \/ m.t = "SnpRespDataPtl"]
                     ELSE cur
    OBVIOUS
  <1>3. IsReq(q) /\ q.shared = cur.shared
    <2>1. CASE m.t \in {"SnpRespData", "SnpRespDataPtl", "SnpRespDataFwded"}
      BY <1>1, <1>2, <2>1 DEF CopyData, IsReq, ReqFields
    <2>2. CASE m.t \notin {"SnpRespData", "SnpRespDataPtl", "SnpRespDataFwded"}
      BY <1>2, <2>2
    <2> QED BY <2>1, <2>2
  <1>4. Tracked(r, m) =
          [q EXCEPT !.waiting = @ \ {r}, !.shared = @ \/ m.st # "I", !.dirty = @ \/ m.pd,
                    !.fwded = q.fwd /\ m.t \in {"SnpRespFwded", "SnpRespDataFwded"}]
    BY <1>2 DEF Tracked
  <1>5. Tracked(r, m).shared = (cur.shared \/ m.st # "I")
    BY <1>3, <1>4 DEF IsReq, ReqFields
  <1> QED BY <1>5

LEMMA FilterAfterSnpIs ==
    ASSUME LineShape, NEW r \in Requesters, NEW m
    PROVE  /\ DOMAIN FilterAfterSnp(r, m) = Requesters
           /\ \A c \in Requesters : \A l :
                 l \in filter[c] /\ ~(c = r /\ m.st = "I" /\ l = cur.line)
                    => l \in FilterAfterSnp(r, m)[c]
  BY DEF FilterAfterSnp, LineShape

\* What answers a snoop, and what it says of the line that the cache keeps.
Tells(r, m) ==
    r \in Caches =>
       /\ m.st = "I" => ~Holds(r, cur.line)
       /\ cur.op \in Granting =>
             /\ Reduced(cur, r)
             /\ m.t \in Fwded /\ Holds(r, cur.line) => up'[r].dat[1].st = "SC"

LEMMA AnsweredCoh ==
    ASSUME IInv, CohInv, Snoops, NEW r \in Requesters, r \in cur.waiting, NEW m,
           Answered(r, m), m.t \in Fwded => cur.fwd, Tells(r, m), RxSnpResp(r, m),
           UNCHANGED <<mode, line, access, stage, txn>>
    PROVE  CohInv'
  <1>1. PICK q : q = Tracked(r, m)
    OBVIOUS
  <1>2. /\ IsReq(q) /\ q.waiting = cur.waiting \ {r}
        /\ q.fwded = (cur.fwd /\ m.t \in Fwded)
        /\ q.op = cur.op /\ q.src = cur.src /\ q.line = cur.line /\ q.ack = cur.ack
        /\ q.fwd = cur.fwd /\ q.ackRcvd = cur.ackRcvd
        /\ q.shared <=> (cur.shared \/ m.st # "I")
    BY <1>1, TrackedIs, SharedIs DEF IInv, Shape
  <1>3. PICK f : f = FilterAfterSnp(r, m)
    OBVIOUS
  <1>4. IF q.waiting = {} /\ ~q.fwded
        THEN ProcessSnpdReq(ParseSnpResponses(q), f)
        ELSE /\ cur' = IF q.waiting = {} /\ q.ackRcvd THEN NoReq ELSE q
             /\ filter' = f /\ down' = down
    BY <1>1, <1>3 DEF RxSnpResp
  <1>5. /\ src \in Requesters /\ cur.waiting \subseteq Requesters \ {src} /\ cur.waiting # {}
        /\ cur.op \in Snooping /\ Serves(cur, txn[src])
        /\ down[src].dat = <<>> /\ up[src].rsp = <<>> /\ up[src].dat = <<>> /\ ~cur.ackRcvd
        /\ cur.fwd => \A s, t \in cur.waiting : s = t
    BY DEF Snoops, Served, Serves, Unanswered, NoAnswer, Silent, src
  <1>6. \A e \in Requesters \ {src} : e \notin cur.waiting => up[e].dat = <<>>
    BY DEF Snoops, Calm, Silent
  <1>7. \A e \in cur.waiting : up[e].dat # <<>> =>
           up[e].dat[1].t \in {"SnpRespData", "SnpRespDataPtl", "SnpRespDataFwded"}
    BY <1>5 DEF Snoops, Snooped, Silent, AnswersOnRsp, AnswersOnDat
  <1>8. /\ \A e \in Requesters \ {r} : up'[e] = up[e]
        /\ m.t \in Fwded => up'[r].dat # <<>> /\ up'[r].dat[1].t = "CompData"
        /\ m.t \notin Fwded => up'[r].dat = <<>>
    BY DEF Answered, One
  <1>9. /\ DOMAIN f = Requesters
        /\ \A c \in Caches : line[c].valid => line[c].tag \in f[c]
    <2>1. ASSUME NEW c \in Caches, line[c].valid PROVE line[c].tag \in filter[c]
      <3>1. ~Granted(c)
        <4>1. CompAck # <<>> /\ <<CompAck>> # <<>>
          BY OneIs DEF CompAck, Rsp, Msg
        <4> QED BY <1>5, <4>1 DEF Granted
      <3> QED BY <2>1, <3>1 DEF CohInv, CopiesInv, FilterInv
    <2>2. ASSUME NEW c \in Caches, line[c].valid PROVE line[c].tag \in f[c]
      <3>1. ~(c = r /\ m.st = "I" /\ line[c].tag = cur.line)
        BY <2>2 DEF Tells, Holds
      <3> QED BY <1>3, <2>1, <2>2, <3>1, FilterAfterSnpIs DEF CohInv, Requesters
    <2> QED BY <1>3, <2>2, FilterAfterSnpIs DEF CohInv
  <1>10. ASSUME cur.op \in Granting, NEW d \in Caches \ ({src} \cup q.waiting), Holds(d, cur.line)
         PROVE  /\ Reduced(cur, d) /\ q.shared
                /\ d # r => cur.shared /\ ~cur.fwd
    <2>1. CASE d = r
      BY <1>2, <1>10, <2>1 DEF Tells
    <2>2. CASE d # r
      <3>1. d \notin {cur.src} \cup cur.waiting
        BY <1>2, <1>10, <2>2 DEF src
      <3>2. /\ Reduced(cur, d) /\ SharedKnown(cur)
            /\ cur.fwd /\ cur.waiting # {} => ~cur.shared
        BY <1>10, <3>1 DEF CohInv, CopiesInv, KnownInv, Known
      <3> QED BY <1>2, <1>5, <2>2, <3>2 DEF SharedKnown
    <2> QED BY <2>1, <2>2
  <1>11. CacheInv'
    <2>1. \A c \in Caches : SendsCopyBack(c)' => SendsCopyBack(c)
      BY <1>8 DEF SendsCopyBack, Requesters
    <2> QED BY <2>1, CachesRest
  <1>12. AloneInv /\ AloneInv' /\ CacheInv
    BY DEF CohInv, CopiesInv, AloneInv, Holds
  <1>13. CASE q.waiting = {} /\ ~q.fwded
    <2>1. PICK p : p = ParseSnpResponses(q)
      OBVIOUS
    <2>2. /\ IsReq(p) /\ p.waiting = q.waiting /\ p.op = q.op /\ p.src = q.src
          /\ p.line = q.line /\ p.ack = q.ack /\ p.fwded = q.fwded
      BY <1>2, <2>1, ParsedIs
    <2>3. q.shared => p.snpResp = "SC"
      BY <1>2, <2>1 DEF ParseSnpResponses, IsReq, ReqFields
    <2>4. Known(p)
      BY <1>2, <1>10, <1>13, <2>2, <2>3 DEF Known, SharedKnown, Reduced, src
    <2>5. Serves(p, txn[p.src])
      BY <1>2, <1>5, <2>2 DEF Serves, src
    <2>6. Prepared(p, f)
      BY <1>2, <1>5, <1>9, <1>12, <1>13, <2>2, <2>4, <2>5, InformerIs DEF Prepared, src
    <2>7. \A e \in Requesters : up'[e].dat = <<>>
      <3>1. m.t \notin Fwded
        BY <1>2, <1>13
      <3>2. ASSUME NEW e \in Requesters, e # r PROVE up'[e].dat = <<>>
        BY <1>2, <1>5, <1>6, <1>8, <1>13, <3>2
      <3> QED BY <1>8, <3>1, <3>2
    <2>8. p.op # "DVMOp"
      BY <1>2, <1>5, <2>2 DEF Snooping, ReadOnces, Fills, Upgrading, Informing, UniqueWrites, Swapping
    <2>9. CopiesInv' /\ DOMAIN filter' = Requesters
      BY <1>4, <1>12, <1>13, <2>1, <2>6, <2>7, <2>8, ProcessSnpdReqCoh
    <2> QED BY <1>11, <2>9 DEF CohInv, LineShape
  <1>14. CASE ~(q.waiting = {} /\ ~q.fwded)
    <2>1. cur' = q /\ filter' = f /\ down' = down
      BY <1>2, <1>4, <1>5, <1>14
    <2>2. cur.fwd => q.waiting = {}
      BY <1>2, <1>5
    <2>3. FilterInv'
      BY <1>9, <2>1 DEF FilterInv
    <2>4. ASSUME NEW d \in Caches \cap q.waiting, cur.op # "DVMOp" PROVE Confirmed(d)'
      <3>1. Confirmed(d) /\ up'[d] = up[d]
        BY <1>2, <1>5, <1>8, <2>4 DEF CohInv, CopiesInv, AnswersInv
      <3> QED BY <1>2, <2>1, <3>1 DEF Confirmed, AnswerOk, Reduced, Holds
    <2>5. AnswersInv'
      BY <1>2, <2>1, <2>4 DEF AnswersInv
    <2>6. KnownInv'
      <3>1. ASSUME cur.op \in Granting, NEW d \in Caches \ ({q.src} \cup q.waiting), Holds(d, q.line)
            PROVE  Reduced(q, d) /\ SharedKnown(q)
        BY <1>2, <1>10, <1>14, <3>1 DEF Reduced, SharedKnown, src
      <3> QED BY <1>2, <2>1, <2>2, <3>1 DEF KnownInv, Known, Reduced, SharedKnown, Holds
    <2>7. DataInv'
      <3> SUFFICES ASSUME cur.op \in Granting, NEW d \in Caches \ ({src} \cup q.waiting),
                          Holds(d, cur.line), NEW e \in Requesters \ {src},
                          up'[e].dat # <<>>, up'[e].dat[1].t = "CompData"
                   PROVE  SharedData(up'[e].dat[1])
        BY <1>2, <1>5, <2>1 DEF DataInv, SharedData, Holds, src
      <3>1. e = r
        BY <1>6, <1>7, <1>8
      <3>2. m.t \in Fwded /\ cur.fwd
        BY <1>8, <3>1
      <3>3. d = r
        BY <1>10, <3>2
      <3> QED BY <3>1, <3>2, <3>3 DEF Tells, SharedData
    <2>8. LineShape'
      BY <1>9, <2>1 DEF CohInv, LineShape
    <2> QED BY <1>11, <1>12, <2>3, <2>5, <2>6, <2>7, <2>8 DEF CohInv, CopiesInv
  <1> QED BY <1>13, <1>14

LEMMA SnoopRspCoh ==
    ASSUME IInv, CohInv, NEW r \in Requesters, Snoops, r \in cur.waiting,
           AnswersOnRsp(r), SendRsp(r)
    PROVE  CohInv'
  <1>1. PICK m : m = Head(up[r].rsp)
    OBVIOUS
  <1>2. TransmitRsp(r, m) /\ HnRxRsp(r, m) /\ UNCHANGED mode
    BY <1>1 DEF SendRsp
  <1>3. /\ m = up[r].rsp[1] /\ up[r].rsp # <<>> /\ Tail(up[r].rsp) = <<>> /\ up[r].dat = <<>>
        /\ m.t \in {"SnpResp", "SnpRespFwded"}
        /\ m.t = "SnpRespFwded" => cur.fwd /\ m.to = src
    <2>1. up[r].rsp = <<up[r].rsp[1]>> /\ up[r].rsp # <<>>
      BY DEF AnswersOnRsp, One
    <2>2. Head(up[r].rsp) = up[r].rsp[1] /\ Tail(up[r].rsp) = <<>>
      BY <2>1, OneIs
    <2> QED BY <1>1, <2>1, <2>2 DEF AnswersOnRsp
  <1>4. PICK f : f = Forwarded(r, m)
    OBVIOUS
  <1>5. f.t = "CompData" /\ f.st = m.fst /\ f.to = m.to /\ IsMsg(f)
    BY <1>4, MsgIs DEF Forwarded
  <1>6. /\ up' = IF m.t = "SnpRespFwded"
                 THEN Put(Drop(up, r, "rsp"), r, "dat", f) ELSE Drop(up, r, "rsp")
        /\ UNCHANGED <<txn, line, access, stage>>
    BY <1>2, <1>3, <1>4 DEF TransmitRsp
  <1>7. RxSnpResp(r, m)
    BY <1>2, <1>3 DEF HnRxRsp
  <1>8. /\ \A q \in Requesters \ {r} : up'[q] = up[q]
        /\ up'[r].req = up[r].req /\ up'[r].rsp = <<>>
        /\ m.t = "SnpRespFwded" => up'[r].dat = <<f>>
        /\ m.t # "SnpRespFwded" => up'[r].dat = <<>>
    <2>1. CASE m.t = "SnpRespFwded"
      <3>1. Append(<<>>, f) = <<f>>
        BY AppendIs
      <3> QED BY <1>3, <1>6, <2>1, <3>1 DEF IInv, Shape, Put, Drop
    <2>2. CASE m.t # "SnpRespFwded"
      BY <1>3, <1>6, <2>2 DEF IInv, Shape, Drop
    <2> QED BY <2>1, <2>2
  <1>9. m.t = "SnpRespFwded" =>
           up'[r].dat # <<>> /\ up'[r].dat[1] = f /\ up'[r].dat = <<up'[r].dat[1]>>
    BY <1>8, OneIs
  <1>10. Answered(r, m)
    BY <1>3, <1>5, <1>8, <1>9 DEF Answered, One, IsMsg, OnRsp, Fwded
  <1>11. m.t \in Fwded => cur.fwd /\ m.t = "SnpRespFwded"
    BY <1>3 DEF Fwded
  <1>12. Tells(r, m)
    <2> SUFFICES ASSUME r \in Caches PROVE Tells(r, m)
      BY DEF Tells
    <2>1. cur.op # "DVMOp"
      BY DEF Snoops, Snooping, ReadOnces, Fills, Upgrading, Informing, UniqueWrites, Swapping
    <2>2. Confirmed(r)
      BY <2>1 DEF CohInv, CopiesInv, AnswersInv
    <2>3. AnswerOk(r, m)
      BY <1>3, <2>2 DEF Confirmed
    <2> QED BY <1>5, <1>9, <1>11, <2>3 DEF Tells, AnswerOk
  <1> QED BY <1>2, <1>6, <1>7, <1>10, <1>11, <1>12, AnsweredCoh

\* The answer to a DVM operation does not take a line out of a snoop filter:
\* its address is not one that a cache holds.
LEMMA DVMRspCoh ==
    ASSUME IInv, CohInv, NEW r \in Requesters, SnoopsDVM, r \in cur.waiting,
           up[r].rsp = <<SnpRespI>>, up[r].dat = <<>>, SendRsp(r)
    PROVE  CohInv'
  <1>1. PICK m : m = Head(up[r].rsp)
    OBVIOUS
  <1>2. TransmitRsp(r, m) /\ HnRxRsp(r, m) /\ UNCHANGED mode
    BY <1>1 DEF SendRsp
  <1>3. m = SnpRespI /\ m.t = "SnpResp"
    BY <1>1, OneIs, Answers
  <1>4. /\ up' = Drop(up, r, "rsp")
        /\ UNCHANGED <<txn, line, access, stage>>
    BY <1>2, <1>3 DEF TransmitRsp
  <1>5. PICK q : q = Tracked(r, m)
    OBVIOUS
  <1>6. PICK f : f = FilterAfterSnp(r, m)
    OBVIOUS
  <1>7. IsReq(q) /\ q.op = "DVMOp" /\ q.hasData = cur.hasData /\ ~q.fwded
    <2>1. /\ IsReq(q) /\ q.op = cur.op /\ (m.t \notin OnDat => q.hasData = cur.hasData)
          /\ q.fwded = (cur.fwd /\ m.t \in Fwded)
      BY <1>5, TrackedIs DEF IInv, Shape
    <2>2. m.t \notin OnDat /\ m.t \notin Fwded
      BY <1>3 DEF OnDat, Fwded
    <2> QED BY <2>1, <2>2 DEF SnoopsDVM
  <1>8. IF q.waiting = {} THEN ProcessSnpdReq(ParseSnpResponses(q), f)
        ELSE (cur' = q \/ cur' = NoReq) /\ filter' = f
    BY <1>2, <1>3, <1>5, <1>6, <1>7 DEF HnRxRsp, RxSnpResp
  <1>9. (cur' = q \/ cur' = NoReq) /\ filter' = f
    <2>1. CASE q.waiting = {}
      <3>1. PICK p : p = ParseSnpResponses(q)
        OBVIOUS
      <3>2. p.op = "DVMOp" /\ ~p.gotSnpData
        BY <1>7, <3>1, ParsedIs DEF SnoopsDVM
      <3>3. ~MustWriteBack(p) /\ ~CanAnswer(p)
        BY <3>2 DEF MustWriteBack, CanAnswer
      <3> QED BY <1>8, <2>1, <3>1, <3>2, <3>3 DEF ProcessSnpdReq
    <2>2. CASE q.waiting # {}
      BY <1>8, <2>2
    <2> QED BY <2>1, <2>2
  <1>10. cur.op \notin Granting /\ cur'.op \notin Granting
         /\ (cur'.op = "DVMOp" \/ cur'.waiting = {})
    BY <1>7, <1>9, NoReqIs, NoneIsNoReq DEF SnoopsDVM, Granting, Fills, Upgrading
  <1>11. \A e \in Requesters : up'[e].dat = up[e].dat
    BY <1>4 DEF IInv, Shape, Drop
  <1>12. CacheInv' /\ \A c \in Caches : Leaves(line[c], line'[c])
    BY <1>2, <1>4, <1>11, CachesRest DEF SendsCopyBack, Requesters
  <1>13. ASSUME NEW c \in Caches, line'[c].valid, line[c].tag \in filter[c]
         PROVE  line[c].tag \in filter'[c]
    <2>1. src \in Requesters /\ txn[src].op = "DVMOp" /\ txn[src].line = cur.line
      BY DEF SnoopsDVM, Served, Serves, src
    <2>2. cur.line \notin Cacheable(c)
      BY <2>1 DEF CohInv, CacheInv, Elsewhere
    <2>3. line[c].tag \in Cacheable(c)
      BY <1>4, <1>13 DEF CohInv, CacheInv, CacheOk
    <2> QED BY <1>6, <1>9, <1>13, <2>2, <2>3, FilterAfterSnpIs DEF CohInv, Requesters
  <1>14. CopiesInv'
    BY <1>10, <1>12, <1>13, CopiesFree DEF CohInv
  <1>15. LineShape'
    BY <1>4, <1>6, <1>9, FilterAfterSnpIs DEF CohInv, LineShape
  <1> QED BY <1>12, <1>14, <1>15 DEF CohInv

LEMMA SendRspCoh ==
    ASSUME IInv, CohInv, NEW r \in Requesters, up[r].rsp # <<>>, SendRsp(r)
    PROVE  CohInv'
  <1>1. Gives /\ Acknowledged /\ r = src => up[r].rsp = <<CompAck>>
    BY DEF Acknowledged
  <1> QED BY <1>1, UpRspIs, SnoopRspCoh, DVMRspCoh, AckCoh DEF IInv

(***************************************************************************)
(* Data from the requesters.                                               *)
(***************************************************************************)
LEMMA SnoopDatCoh ==
    ASSUME IInv, CohInv, NEW r \in Requesters, Snoops, r \in cur.waiting,
           AnswersOnDat(r), SendDat(r)
    PROVE  CohInv'
  <1>1. PICK x : x = Head(up[r].dat)
    OBVIOUS
  <1>2. PICK m : m = Sent(r, x)
    OBVIOUS
  <1>3. PICK a : a = Arrived(m)
    OBVIOUS
  <1>4. TransmitDat(r, m) /\ HnRxDat(r, a) /\ UNCHANGED mode
    BY <1>1, <1>2, <1>3 DEF SendDat
  <1>5. /\ x = up[r].dat[1] /\ up[r].dat # <<>> /\ Tail(up[r].dat) = <<>> /\ up[r].rsp = <<>>
        /\ x.t \in OnDat
        /\ x.t = "SnpRespDataFwded" => cur.fwd /\ x.to = src
    <2>1. up[r].dat = <<up[r].dat[1]>> /\ up[r].dat # <<>>
      BY DEF AnswersOnDat, One
    <2>2. Head(up[r].dat) = up[r].dat[1] /\ Tail(up[r].dat) = <<>>
      BY <2>1, OneIs
    <2> QED BY <1>1, <2>1, <2>2 DEF AnswersOnDat, OnDat
  <1>6. m.t = x.t /\ m.st = x.st /\ IsMsg(m)
    BY <1>2, <1>5, MsgIs DEF Sent, OnDat
  <1>7. a.t = x.t /\ a.st = x.st
    BY <1>3, <1>6, ArrivedIs, ArrivedSt
  <1>8. PICK f : f = Forwarded(r, x)
    OBVIOUS
  <1>9. f.t = "CompData" /\ f.st = x.fst /\ f.to = x.to /\ IsMsg(f)
    BY <1>8, MsgIs DEF Forwarded
  <1>10. /\ up' = IF x.t = "SnpRespDataFwded"
                  THEN Put(Drop(up, r, "dat"), r, "dat", f) ELSE Drop(up, r, "dat")
         /\ UNCHANGED <<txn, line, access, stage>>
    <2>1. x.t \notin {"CopyBackWrData", "NonCopyBackWrData"}
      BY <1>5 DEF OnDat
    <2> QED BY <1>1, <1>4, <1>6, <1>8, <2>1 DEF TransmitDat
  <1>11. RxSnpResp(r, a)
    BY <1>4, <1>5, <1>7 DEF HnRxDat, OnDat
  <1>12. /\ \A q \in Requesters \ {r} : up'[q] = up[q]
         /\ up'[r].req = up[r].req /\ up'[r].rsp = <<>>
         /\ x.t = "SnpRespDataFwded" => up'[r].dat = <<f>>
         /\ x.t # "SnpRespDataFwded" => up'[r].dat = <<>>
    <2>1. CASE x.t = "SnpRespDataFwded"
      <3>1. Append(<<>>, f) = <<f>>
        BY AppendIs
      <3> QED BY <1>5, <1>10, <2>1, <3>1 DEF IInv, Shape, Put, Drop
    <2>2. CASE x.t # "SnpRespDataFwded"
      BY <1>5, <1>10, <2>2 DEF IInv, Shape, Drop
    <2> QED BY <2>1, <2>2
  <1>13. x.t = "SnpRespDataFwded" =>
            up'[r].dat # <<>> /\ up'[r].dat[1] = f /\ up'[r].dat = <<up'[r].dat[1]>>
    BY <1>12, OneIs
  <1>14. Answered(r, a)
    BY <1>5, <1>7, <1>9, <1>12, <1>13 DEF Answered, One, IsMsg, OnDat, Fwded
  <1>15. a.t \in Fwded => cur.fwd /\ x.t = "SnpRespDataFwded"
    BY <1>5, <1>7 DEF Fwded, OnDat
  <1>16. Tells(r, a)
    <2> SUFFICES ASSUME r \in Caches PROVE Tells(r, a)
      BY DEF Tells
    <2>1. cur.op # "DVMOp"
      BY DEF Snoops, Snooping, ReadOnces, Fills, Upgrading, Informing, UniqueWrites, Swapping
    <2>2. Confirmed(r)
      BY <2>1 DEF CohInv, CopiesInv, AnswersInv
    <2>3. AnswerOk(r, x)
      BY <1>5, <2>2 DEF Confirmed
    <2> QED BY <1>7, <1>9, <1>13, <1>15, <2>3 DEF Tells, AnswerOk
  <1> QED BY <1>4, <1>10, <1>11, <1>14, <1>15, <1>16, AnsweredCoh

\* Forwarded data says whether the cache that it comes from has kept the line.
LEMMA ForwardCoh ==
    ASSUME IInv, CohInv, NEW r \in Requesters, Gives, Forwards, r # src,
           \A q \in Requesters \ {src, r} : Calm(q),
           One(up[r].dat), up[r].dat[1].t = "CompData", up[r].dat[1].to = src,
           IsMsg(up[r].dat[1]), SendDat(r)
    PROVE  CohInv'
  <1>1. PICK m : m = up[r].dat[1]
    OBVIOUS
  <1>2. Head(up[r].dat) = m /\ Tail(up[r].dat) = <<>> /\ up[r].dat # <<>>
    <2>1. up[r].dat # <<>> /\ up[r].dat = <<m>>
      BY <1>1 DEF One
    <2> QED BY <2>1, OneIs
  <1>3. m.t = "CompData" /\ m.to = src /\ IsMsg(m) /\ Sent(r, m) = m
    BY <1>1 DEF Sent, IsMsg
  <1>4. PICK a : a = Arrived(m)
    OBVIOUS
  <1>5. a.t = "CompData" /\ a.to = src /\ a.st = m.st
    BY <1>3, <1>4, ArrivedIs, ArrivedSt
  <1>6. TransmitDat(r, m) /\ HnRxDat(r, a) /\ UNCHANGED mode
    BY <1>2, <1>3, <1>4 DEF SendDat
  <1>7. /\ up' = Drop(up, r, "dat") /\ UNCHANGED <<txn, line, access, stage>>
    BY <1>3, <1>6 DEF TransmitDat
  <1>8. down' = Put(down, src, "dat", a) /\ UNCHANGED <<cur, filter>>
    BY <1>5, <1>6 DEF HnRxDat, RouteDat, hnVars
  <1>9. src \in Requesters /\ down[src].dat = <<>> /\ cur.waiting = {}
    BY DEF Gives, Served, Serves, src, Forwards, Unanswered, NoAnswer, Fixed
  <1>10. down'[src].dat # <<>> /\ down'[src].dat[1] = a
    <2>1. down'[src].dat = <<a>>
      BY <1>8, <1>9, AppendIs DEF Put, IInv, Shape
    <2> QED BY <2>1, OneIs
  <1>11. /\ \A s \in Requesters \ {r} : up'[s] = up[s]
         /\ \A s \in Requesters : up'[s].rsp = up[s].rsp
         /\ up'[r].dat = <<>>
    BY <1>2, <1>7 DEF IInv, Shape, Drop
  <1>12. CacheInv' /\ \A c \in Caches : Leaves(line[c], line'[c])
    <2>1. \A c \in Caches : SendsCopyBack(c)' => SendsCopyBack(c)
      BY <1>11 DEF SendsCopyBack, Requesters
    <2> QED BY <1>6, <1>7, <2>1, CachesRest
  <1>13. AloneInv' /\ KnownInv'
    BY <1>7, <1>8 DEF CohInv, CopiesInv, AloneInv, KnownInv, Known, Reduced, SharedKnown, Holds
  <1>14. FilterInv'
    BY <1>7, <1>8, <1>11 DEF CohInv, CopiesInv, FilterInv, Granted, src, Requesters
  <1>15. AnswersInv'
    BY <1>8, <1>9 DEF AnswersInv
  <1>16. DataInv'
    <2> SUFFICES ASSUME cur.op \in Granting, NEW d \in Caches \ {src}, Holds(d, cur.line)
                 PROVE  /\ SharedData(a)
                        /\ \A e \in Requesters \ {src} : up'[e].dat = <<>>
      BY <1>7, <1>8, <1>9, <1>10 DEF DataInv, SharedData, Holds, src
    <2>1. SharedData(m)
      BY <1>1, <1>2, <1>3, <1>9 DEF CohInv, CopiesInv, DataInv
    <2>2. SharedData(a)
      BY <1>5, <2>1 DEF SharedData
    <2>3. \A e \in Requesters \ {src} : up'[e].dat = <<>>
      BY <1>11 DEF Calm, Silent
    <2> QED BY <2>2, <2>3
  <1>17. LineShape'
    BY <1>7, <1>8 DEF CohInv, LineShape
  <1> QED BY <1>12, <1>13, <1>14, <1>15, <1>16, <1>17 DEF CohInv, CopiesInv

\* The data of a write.  A line that is written back is no longer there, and
\* the filter forgets it; a line that is written clean stays.
LEMMA WriteDataCoh ==
    ASSUME IInv, CohInv, NEW r \in Requesters, r = src, TakesData,
           One(up[r].dat), up[r].dat[1].t = DataFor(cur.op), IsMsg(up[r].dat[1]),
           {"Comp", "Data", "Part", "Sent"} \cap txn[r].got = {}, SendDat(r)
    PROVE  CohInv'
  <1>1. /\ \A s \in Requesters \ {r} : up'[s] = up[s] /\ txn'[s] = txn[s]
        /\ up'[r].dat = <<>>
        /\ cur.ack \/ cur.op \in Swapping \cup {"DVMOp"} =>
              txn'[r].op = txn[r].op /\ txn'[r].line = txn[r].line
        /\ ~cur.ack /\ cur.op \notin Swapping \cup {"DVMOp"} => txn'[r].op = "none"
        /\ UNCHANGED <<access, stage, mode>>
        /\ \E a : IsMsg(a) /\ a.t = DataFor(cur.op) /\ RxWriteData(r, a)
    BY WriteDataIs
  <1>2. PICK a : a.t = DataFor(cur.op) /\ RxWriteData(r, a)
    BY <1>1
  <1>3. PICK q : q = CopyData(cur, a)
    OBVIOUS
  <1>4. IsReq(q) /\ q.op = cur.op /\ q.waiting = cur.waiting
    BY <1>3, CopiedIs DEF IInv, Shape
  <1>5. line' = line
    BY DEF SendDat, TransmitDat
  <1>6. /\ txn[r].op = cur.op /\ cur.src = r /\ cur.waiting = {}
        /\ cur.op \in Storing \cup Swapping \cup {"DVMOp"} /\ Acked(cur.op, cur.ack)
        /\ cur.op \in ReqOps
    BY DEF TakesData, Served, Serves, src, Fixed
  <1>7. r \in Caches => CacheOk(r)
    BY DEF CohInv, CacheInv
  <1>8. r \in Caches /\ cur.op \in CopyBacks => ~line[r].valid \/ cur.op = "WriteCleanFull"
    BY <1>6, <1>7 DEF CacheOk, SendsCopyBack, DataFor, One
  <1>9. CacheInv' /\ \A c \in Caches : Leaves(line[c], line'[c])
    <2>1. \A c \in Caches : SendsCopyBack(c)' => c # r /\ SendsCopyBack(c)
      BY <1>1 DEF SendsCopyBack, Requesters
    <2>2. CASE cur.ack \/ cur.op \in Swapping \cup {"DVMOp"}
      <3>1. \A s \in Requesters : txn'[s].op = txn[s].op /\ txn'[s].line = txn[s].line
        BY <1>1, <2>2
      <3> QED BY <1>1, <1>5, <2>1, <3>1, CachesRest
    <2>3. CASE ~cur.ack /\ cur.op \notin Swapping \cup {"DVMOp"}
      <3>1. ASSUME r \in Caches, stage[r] = "main" PROVE ~line[r].valid
        <4>1. cur.op \in EvictOps \cup {"none"}
          BY <1>6, <1>7, <3>1 DEF CacheOk
        <4>2. cur.op \in CopyBacks /\ cur.op # "WriteCleanFull"
          BY <1>6, <4>1, NoneIsNoReq DEF EvictOps, CopyBacks, Storing, Writing, UniqueWrites, Swapping
        <4> QED BY <1>8, <3>1, <4>2
      <3>2. txn'[r].op = "none" /\ \A s \in Requesters \ {r} : txn'[s] = txn[s]
        BY <1>1, <2>3
      <3> QED BY <1>1, <1>5, <2>1, <3>1, <3>2, OverIs
    <2> QED BY <2>2, <2>3
  <1>10. PICK f : f = FilterAfterReq(cur, filter)
    OBVIOUS
  <1>11. /\ DOMAIN f = Requesters
         /\ cur.op \in CopyBacks =>
               \A c \in Caches : line[c].valid /\ line[c].tag \in filter[c] => line[c].tag \in f[c]
    <2>1. PICK k : /\ f = [filter EXCEPT ![r] = k]
                   /\ Keeps(cur.op) /\ cur.op \in CopyBacks => k = filter[r]
      <3>1. cur.op \in CopyBacks => ~AllocatesCacheLine(cur.op) /\ cur.op \notin {"CleanUnique", "MakeUnique"}
        BY DEF CopyBacks, AllocatesCacheLine
      <3> QED BY <1>6, <1>10, <3>1 DEF FilterAfterReq
    <2>2. cur.op = "WriteCleanFull" => Keeps(cur.op)
      BY DEF Keeps
    <2> QED BY <1>8, <2>1, <2>2 DEF CohInv, LineShape, Requesters
  <1>12. /\ cur'.op \notin Granting
         /\ cur'.op = "DVMOp" \/ cur'.waiting = {}
         /\ filter' = filter \/ (cur.op \in CopyBacks /\ filter' = f)
    <2>0. cur.op \notin Granting /\ "none" \notin Granting
      BY <1>6 DEF Granting, Fills, Upgrading, Storing, Writing, CopyBacks, UniqueWrites, Swapping
    <2>1. ASSUME NEW g, NEW op, ToSN(q, g, op)
          PROVE  cur'.op = cur.op /\ cur'.waiting = {} /\ filter' = g
      BY <1>4, <1>6, <2>1 DEF ToSN, IsReq, ReqFields
    <2>2. CASE cur.op \in CopyBacks
      <3>1. a.t = "CopyBackWrData"
        BY <1>2, <2>2 DEF DataFor
      <3>2. CASE a.pd
        <4>1. ToSN(q, f, "WriteNoSnpPtl")
          BY <1>2, <1>3, <1>10, <3>1, <3>2 DEF RxWriteData
        <4> QED BY <2>0, <2>1, <2>2, <4>1
      <3>3. CASE ~a.pd
        <4>1. cur' = NoReq /\ filter' = f
          BY <1>2, <1>10, <3>1, <3>3 DEF RxWriteData
        <4> QED BY <2>0, <2>2, <4>1, NoReqIs, NoneIsNoReq
      <3> QED BY <3>2, <3>3
    <2>3. CASE cur.op \notin CopyBacks
      <3>1. a.t # "CopyBackWrData"
        BY <1>2, <2>3 DEF DataFor
      <3>2. CASE cur.op = "DVMOp"
        <4>1. ProcessDVM(q)
          BY <1>2, <1>3, <1>4, <3>1, <3>2 DEF RxWriteData
        <4>2. cur'.op = "DVMOp" /\ filter' = filter
          BY <1>4, <3>2, <4>1 DEF ProcessDVM, SendSnoops, IsReq, ReqFields
        <4> QED BY <2>0, <3>2, <4>2
      <3>3. CASE cur.op # "DVMOp"
        <4>1. PICK op : op = IF IsAtomic(q.op) THEN q.op ELSE "WriteNoSnpPtl"
          OBVIOUS
        <4>2. ToSN(q, filter, op)
          BY <1>2, <1>3, <1>4, <3>1, <3>3, <4>1 DEF RxWriteData
        <4> QED BY <2>0, <2>1, <4>2
      <3> QED BY <3>2, <3>3
    <2> QED BY <2>2, <2>3
  <1>13. cur.op \notin Granting
    BY <1>6 DEF Granting, Fills, Upgrading, Storing, Writing, CopyBacks, UniqueWrites, Swapping
  <1>14. CopiesInv'
    <2>1. \A c \in Caches : line'[c].valid /\ line[c].tag \in filter[c] => line[c].tag \in filter'[c]
      BY <1>5, <1>11, <1>12
    <2> QED BY <1>9, <1>12, <1>13, <2>1, CopiesFree DEF CohInv
  <1>15. LineShape'
    BY <1>5, <1>11, <1>12 DEF CohInv, LineShape
  <1> QED BY <1>9, <1>14, <1>15 DEF CohInv

LEMMA SendDatCoh ==
    ASSUME IInv, CohInv, NEW r \in Requesters, up[r].dat # <<>>, SendDat(r)
    PROVE  CohInv'
  BY UpDatIs, SnoopDatCoh, ForwardCoh, WriteDataCoh DEF IInv

(***************************************************************************)
(* Between the home node and the slave node.                               *)
(***************************************************************************)
LEMMA SNRetryCoh ==
    ASSUME IInv, CohInv, SNRetries, RxRspSN, UNCHANGED <<mode, rnVars>>
    PROVE  CohInv'
  <1>1. PICK m : m = Head(fromSN.rsp)
    OBVIOUS
  <1>2. m.t \in {"RetryAck", "PCrdGrant"}
    <2>1. m = RetryAck \/ m = PCrdGrant
      BY <1>1, OneIs, TwoIs DEF SNRetries
    <2> QED BY <2>1, Answers
  <1>3. RetrySN(m) /\ UNCHANGED <<up, line, access, stage, txn>>
    BY <1>1, <1>2 DEF RxRspSN, rnVars
  <1>4. down' = down /\ filter' = filter
    BY <1>3 DEF RetrySN
  <1>5. SameReq
    <2>1. PICK p : p = [cur.snReq EXCEPT !.retry = @ /\ m.t # "RetryAck"]
      OBVIOUS
    <2>2. PICK q : q = [cur EXCEPT !.snGot = @ \cup {m.t}, !.snReq = p]
      OBVIOUS
    <2>3. q = [cur EXCEPT !.snGot = @ \cup {m.t}, !.snReq.retry = @ /\ m.t # "RetryAck"]
      BY <2>1, <2>2 DEF IInv, Shape, IsReq, ReqFields
    <2>4. cur' = q
      BY <1>3, <2>3 DEF RetrySN
    <2> QED BY <2>2, <2>4 DEF SameReq, IInv, Shape, IsReq, ReqFields
  <1>6. CacheInv' /\ \A c \in Caches : Leaves(line[c], line'[c])
    BY <1>3, CachesRest DEF SendsCopyBack
  <1>7. CopiesInv'
    BY <1>3, <1>4, <1>5, <1>6, CopiesStay DEF CohInv
  <1>8. LineShape'
    BY <1>3, <1>4 DEF CohInv, LineShape
  <1> QED BY <1>6, <1>7, <1>8 DEF CohInv

\* Nothing of the request has reached the requester.
LEMMA PreparedIs ==
    ASSUME IInv, CohInv, Served, Unanswered, cur.waiting = {}, ~cur.fwded
    PROVE  Prepared(cur, filter)
  <1>1. IsReq(cur) /\ cur.src \in Requesters /\ Serves(cur, txn[cur.src])
    BY DEF IInv, Shape, Served, Serves, src
  <1>2. down[cur.src].dat = <<>> /\ up[src].rsp = <<>>
    BY DEF Unanswered, NoAnswer, Silent, src
  <1>3. ASSUME NEW c \in Caches, line[c].valid PROVE line[c].tag \in filter[c]
    <2>1. ~Granted(c)
      <3>1. <<CompAck>> # <<>>
        BY OneIs
      <3> QED BY <1>2, <3>1 DEF Granted
    <2> QED BY <1>3, <2>1 DEF CohInv, CopiesInv, FilterInv
  <1>4. Known(cur) /\ DOMAIN filter = Requesters /\ CacheInv
    BY DEF CohInv, CopiesInv, KnownInv, LineShape
  <1> QED BY <1>1, <1>2, <1>3, <1>4, InformerIs DEF Prepared

\* Dirty data has been written back: now the request itself.
LEMMA WrittenBackCoh ==
    ASSUME IInv, CohInv, RxRspSN, UNCHANGED <<mode, rnVars, snVars>>, SNAnswers(CompDBIDResp),
           WritesBack
    PROVE  CohInv'
  <1>1. SendSNData(CompDBIDResp) /\ UNCHANGED <<up, mode, access, stage, txn>>
    BY SendSNDataIs
  <1>2. line' = line
    BY DEF rnVars
  <1>3. ProcessSnpdReq(cur, filter)
    BY <1>1, Answers DEF SendSNData, WritesBack
  <1>4. Prepared(cur, filter)
    BY PreparedIs DEF WritesBack, Fixed
  <1>5. \A e \in Requesters : up'[e].dat = <<>>
    BY <1>1 DEF WritesBack, OthersCalm, Calm, Unanswered, Silent
  <1>6. cur.op # "DVMOp"
    BY DEF WritesBack, Snooping, ReadOnces, Fills, Upgrading, Informing, UniqueWrites, Swapping
  <1>7. CopiesInv' /\ DOMAIN filter' = Requesters
    BY <1>2, <1>3, <1>4, <1>5, <1>6, ProcessSnpdReqCoh DEF CohInv, CopiesInv
  <1>8. CacheInv'
    BY <1>1, <1>2, CachesRest DEF SendsCopyBack
  <1>9. LineShape'
    BY <1>2, <1>7 DEF CohInv, LineShape
  <1> QED BY <1>7, <1>8, <1>9 DEF CohInv

\* The data of a write or of an atomic is on its way to the slave node.
LEMMA WrittenCoh ==
    ASSUME IInv, CohInv, RxRspSN, UNCHANGED <<mode, rnVars, snVars>>, NEW m, SNAnswers(m),
           \/ m = CompDBIDResp /\ Writes
           \/ m = DBIDResp /\ RunsAtomic
    PROVE  CohInv'
  <1>1. SendSNData(m) /\ UNCHANGED <<up, mode, access, stage, txn>>
    BY SendSNDataIs
  <1>2. line' = line
    BY DEF rnVars
  <1>3. /\ cur.op \in Storing \cup Swapping /\ cur.waiting = {} /\ ~cur.gotSnpData
    BY DEF Writes, RunsAtomic, Fixed
  <1>4. cur' \in {cur, NoReq, [cur EXCEPT !.toSNDone = TRUE]} /\ filter' = filter
    BY <1>1, <1>3 DEF SendSNData
  <1>5. cur.op \notin Granting /\ "none" \notin Granting
    BY <1>3 DEF Granting, Fills, Upgrading, Storing, Writing, CopyBacks, UniqueWrites, Swapping
  <1>6. cur'.op \notin Granting /\ cur'.waiting = {}
    BY <1>3, <1>4, <1>5, NoReqIs, NoneIsNoReq DEF IInv, Shape, IsReq, ReqFields
  <1>7. CacheInv' /\ \A c \in Caches : Leaves(line[c], line'[c])
    BY <1>1, <1>2, CachesRest DEF SendsCopyBack
  <1>8. CopiesInv'
    BY <1>4, <1>5, <1>6, <1>7, CopiesFree DEF CohInv
  <1>9. LineShape'
    BY <1>2, <1>4 DEF CohInv, LineShape
  <1> QED BY <1>7, <1>8, <1>9 DEF CohInv

LEMMA RxRspSNCoh ==
    ASSUME IInv, CohInv, RxRspSN, UNCHANGED <<mode, rnVars, snVars>>
    PROVE  CohInv'
  <1>1. fromSN.rsp # <<>> /\ PhaseInv
    BY DEF RxRspSN, IInv
  <1> QED BY <1>1, SNRspIs, SNRetryCoh, WrittenBackCoh, WrittenCoh

\* The data of the slave node goes to the requester itself only if no other
\* cache has kept the line; the home node says in it whether one has.
LEMMA SNDataCoh ==
    ASSUME IInv, CohInv, RxDatSN, UNCHANGED <<mode, rnVars>>, Fetches, SNReturns(cur.snReq.to)
    PROVE  CohInv'
  <1>1. PICK m : m = fromSN.dat[1]
    OBVIOUS
  <1>2. m = Head(fromSN.dat) /\ m.t = "CompData" /\ m.to = cur.snReq.to /\ IsMsg(m)
    BY <1>1, OneIs DEF SNReturns, One, IsMsg
  <1>3. /\ UNCHANGED <<up, filter>>
        /\ IF m.to # "HN"
           THEN down' = Put(down, m.to, "dat", m) /\ UNCHANGED cur
           ELSE /\ ToRN(cur, [m EXCEPT !.st = IF IsAtomic(cur.op) THEN "I" ELSE cur.snpResp,
                                       !.to = cur.src])
                /\ cur' = IF cur.ack THEN [cur EXCEPT !.waitAck = TRUE] ELSE NoReq
    BY <1>2 DEF RxDatSN
  <1>4. UNCHANGED <<mode, line, access, stage, txn>>
    BY DEF rnVars
  <1>5. /\ Served /\ Unanswered /\ OthersCalm /\ cur.waiting = {} /\ ~cur.fwded
        /\ cur.op \in Reading
    BY DEF Fetches, Fixed
  <1>6. PICK z : z = src /\ z = cur.src /\ z \in Requesters
    BY <1>5 DEF Served, Serves, src
  <1>7. \A e \in Requesters : up'[e].dat = <<>>
    BY <1>3, <1>5 DEF OthersCalm, Calm, Unanswered, Silent
  <1>8. Prepared(cur, filter)
    BY <1>5, PreparedIs
  <1>9. CacheInv'
    BY <1>3, <1>4, CachesRest DEF SendsCopyBack
  <1>10. AloneInv
    BY DEF CohInv, CopiesInv
  <1>11. CASE m.to # "HN"
    <2>1. AllowsDMT(cur) /\ cur' = cur
      BY <1>2, <1>3, <1>11 DEF Fetches
    <2>2. cur.op \in Granting => \A d \in Caches \ {src} : ~Holds(d, cur.line)
      <3>1. cur.snpResp # "SC"
        BY <2>1 DEF AllowsDMT
      <3> QED BY <1>5, <3>1 DEF CohInv, CopiesInv, KnownInv, Known, SharedKnown, src
    <2>3. AloneInv' /\ KnownInv' /\ FilterInv' /\ LineShape'
      BY <1>3, <1>4, <2>1 DEF CohInv, CopiesInv, LineShape, AloneInv, KnownInv, Known, Reduced,
                              SharedKnown, Holds, FilterInv, Granted, src
    <2>4. AnswersInv' /\ DataInv'
      BY <1>4, <1>5, <2>1, <2>2 DEF AnswersInv, DataInv, Holds, src
    <2> QED BY <1>9, <2>3, <2>4 DEF CohInv, CopiesInv
  <1>12. CASE m.to = "HN"
    <2>1. ~IsAtomic(cur.op)
      BY <1>5, Classes DEF Reading, ReadOnces, Fills, Storing, Swapping, IsAtomic, IsAtomicStore,
                           IsAtomicNonStore
    <2>2. PICK x : x = [m EXCEPT !.st = cur.snpResp, !.to = cur.src]
      OBVIOUS
    <2>3. x.t = "CompData" /\ x.st = cur.snpResp
      BY <1>2, <2>2 DEF IsMsg, MsgFields
    <2>4. ToRN(cur, x) /\ cur' = IF cur.ack THEN [cur EXCEPT !.waitAck = TRUE] ELSE NoReq
      BY <1>3, <1>12, <2>1, <2>2
    <2>5. cur.ack
      BY <1>5 DEF Served, Serves, Acked
    <2>6. down'[z].dat # <<>> /\ down'[z].dat[1] = x
      BY <1>5, <1>6, <2>3, <2>4, ToRNIs DEF Unanswered, NoAnswer
    <2>7. /\ cur'.op = cur.op /\ cur'.src = cur.src /\ cur'.line = cur.line
          /\ cur'.waiting = {} /\ cur'.snpResp = cur.snpResp
      BY <1>5, <2>4, <2>5, WithAck DEF IInv, Shape
    <2>8. cur.snpResp = "SC" => SharedData(down'[cur.src].dat[1])
      BY <1>6, <2>3, <2>6 DEF SharedData
    <2>9. CopiesInv' /\ DOMAIN filter' = Requesters
      BY <1>3, <1>4, <1>7, <1>8, <1>10, <2>7, <2>8, TurnCoh
    <2>10. LineShape'
      BY <1>4, <2>9 DEF CohInv, LineShape
    <2> QED BY <1>9, <2>9, <2>10 DEF CohInv
  <1> QED BY <1>11, <1>12

\* The data of an atomic.
LEMMA AtomicDataCoh ==
    ASSUME IInv, CohInv, RxDatSN, UNCHANGED <<mode, rnVars>>, RunsAtomic, SNReturns("HN")
    PROVE  CohInv'
  <1>1. PICK m : m = fromSN.dat[1]
    OBVIOUS
  <1>2. m = Head(fromSN.dat) /\ m.to = "HN"
    BY <1>1, OneIs DEF SNReturns, One
  <1>3. /\ UNCHANGED <<up, filter>>
        /\ cur' = IF cur.ack THEN [cur EXCEPT !.waitAck = TRUE] ELSE NoReq
    BY <1>2 DEF RxDatSN
  <1>4. UNCHANGED <<mode, line, access, stage, txn>>
    BY DEF rnVars
  <1>5. cur.op \in Swapping /\ cur.waiting = {}
    BY DEF RunsAtomic, Fixed
  <1>6. cur.op \notin Granting /\ "none" \notin Granting
    BY <1>5 DEF Granting, Fills, Upgrading, Swapping
  <1>7. cur'.op \notin Granting /\ cur'.waiting = {}
    BY <1>3, <1>5, <1>6, NoReqIs, NoneIsNoReq DEF IInv, Shape, IsReq, ReqFields
  <1>8. CacheInv' /\ \A c \in Caches : Leaves(line[c], line'[c])
    BY <1>3, <1>4, CachesRest DEF SendsCopyBack
  <1>9. CopiesInv'
    BY <1>3, <1>6, <1>7, <1>8, CopiesFree DEF CohInv
  <1>10. LineShape'
    BY <1>3, <1>4 DEF CohInv, LineShape
  <1> QED BY <1>8, <1>9, <1>10 DEF CohInv

LEMMA RxDatSNCoh ==
    ASSUME IInv, CohInv, RxDatSN, UNCHANGED <<mode, rnVars>>
    PROVE  CohInv'
  <1>1. fromSN.dat # <<>> /\ PhaseInv
    BY DEF RxDatSN, IInv
  <1> QED BY <1>1, SNDatIs, SNDataCoh, AtomicDataCoh

LEMMA HomeCoh ==
    ASSUME IInv, CohInv, Home
    PROVE  CohInv'
  BY RouteReqCoh, RxRspSNCoh, RxDatSNCoh DEF Home

(***************************************************************************)
(* The invariant of the specification.                                     *)
(***************************************************************************)
LEMMA InitCoh == ChiInit => CohInv
  <1> SUFFICES ASSUME ChiInit PROVE CohInv
    OBVIOUS
  <1>1. /\ DOMAIN line = Requesters /\ filter = [r \in Requesters |-> {}] /\ cur = NoReq
        /\ \A r \in Requesters : /\ IsLine(line[r]) /\ ~line[r].valid /\ stage[r] = "loop"
                                 /\ txn[r].op = "none"
                                 /\ up[r].rsp = <<>> /\ up[r].dat = <<>>
    BY DEF ChiInit, RnInit, HnInit, EmptyLine, IsLine, LineFields, NoTxn
  <1>2. LineShape
    BY <1>1 DEF LineShape
  <1>3. CacheInv
    <2>1. "none" \notin Granting \cup ReadOnces \cup Informing
      BY DEF Granting, Fills, Upgrading, ReadOnces, Informing
    <2> QED BY <1>1, <2>1 DEF CacheInv, CacheOk, Elsewhere, SendsCopyBack, Requesters
  <1>4. cur.op \notin Granting /\ cur.waiting = {}
    BY <1>1, NoReqIs, NoneIsNoReq DEF Granting, Fills, Upgrading
  <1>5. AloneInv /\ FilterInv
    BY <1>1 DEF AloneInv, FilterInv, Holds, Requesters
  <1>6. AnswersInv /\ KnownInv /\ DataInv
    BY <1>4 DEF AnswersInv, KnownInv, Known, DataInv
  <1> QED BY <1>2, <1>3, <1>5, <1>6 DEF CohInv, CopiesInv

LEMMA StutterCoh ==
    ASSUME IInv, CohInv, UNCHANGED vars
    PROVE  CohInv'
  <1>1. UNCHANGED <<mode, line, access, stage, txn, cur, filter, up, down>>
    BY DEF vars, channels, rnVars, hnVars
  <1> QED BY <1>1, AsideCoh, GrantingIs DEF IInv

LEMMA NextCoh ==
    ASSUME IInv, CohInv, [ChiNext]_vars
    PROVE  CohInv'
  <1>1. ASSUME NEW r \in Requesters, Run(r) PROVE CohInv'
    BY <1>1, RunCoh
  <1>2. ASSUME NEW r \in Requesters, Start(r) PROVE CohInv'
    BY <1>2, StartCoh
  <1>3. ASSUME NEW r \in Requesters, Receive(r) PROVE CohInv'
    BY <1>3, ReceiveCoh
  <1>4. ASSUME NEW r \in Requesters, up[r].req # <<>>, SendReq(r) PROVE CohInv'
    BY <1>4, SendReqCoh
  <1>5. ASSUME NEW r \in Requesters, up[r].rsp # <<>>, SendRsp(r) PROVE CohInv'
    BY <1>5, SendRspCoh
  <1>6. ASSUME NEW r \in Requesters, up[r].dat # <<>>, SendDat(r) PROVE CohInv'
    BY <1>6, SendDatCoh
  <1>7. CASE Home
    BY <1>7, HomeCoh
  <1>8. CASE Slave
    BY <1>8, SlaveCoh
  <1>9. CASE Terminating \/ UNCHANGED vars
    BY <1>9, StutterCoh DEF Terminating
  <1> QED BY <1>1, <1>2, <1>3, <1>4, <1>5, <1>6, <1>7, <1>8, <1>9 DEF ChiNext

\* Whatever iconnect_chi is doing, and whichever request it is doing it for:
\* the caches, their transactions, the snoop filters and the answers and the
\* data that are on their way agree about who holds which line, for every load
\* and any number of caches.
THEOREM SpecCoherent == ChiSpec => [](IInv /\ CohInv)
  <1>1. ChiInit => IInv /\ CohInv
    BY InitStep, InitCoh
  <1>2. (IInv /\ CohInv) /\ [ChiNext]_vars => (IInv /\ CohInv)'
    BY NextStep, NextCoh
  <1> QED BY <1>1, <1>2, PTL DEF ChiSpec

\* PointOfCoherence never misses a cache that holds the line of a request: the
\* snoop filter of its port lists the line, unless it is the request being
\* served that has brought the line there (SnoopFilter::Update is called when
\* its CompAck arrives).
THEOREM SpecFilterCoversHolders == ChiSpec => []FilterCoversHolders
  <1>1. CohInv => FilterCoversHolders
    BY DEF CohInv, CopiesInv, FilterInv, Granted, FilterCoversHolders, src
  <1> QED BY <1>1, SpecCoherent, PTL

\* A cache_chi that holds a line as unique is the only one that holds it, so
\* that its store path may write the line without asking: no order of snoops,
\* forwarded data, write-backs and evictions leaves another copy.
THEOREM SpecChiUniqueIsAlone == ChiSpec => []ChiUniqueIsAlone
  <1>1. IInv /\ CohInv => ChiUniqueIsAlone
    <2> SUFFICES ASSUME IInv, CohInv, NEW c \in Caches, NEW d \in Caches, c # d,
                        line[c].valid, line[d].valid, line[c].tag = line[d].tag
                 PROVE  line[c].shared /\ line[d].shared
      BY DEF ChiUniqueIsAlone
    <2>1. line[c].tag \in Cacheable(c)
      BY DEF CohInv, CacheInv, CacheOk
    <2>2. mode \in Modes /\ c \in Requesters
      BY DEF IInv, TxnInv, Requesters
    <2>3. line[c].tag \in Lines
      BY <2>1, <2>2, TrafficAssumption DEF Cacheable
    <2> QED BY <2>3 DEF CohInv, CopiesInv, AloneInv, Holds
  <1> QED BY <1>1, SpecCoherent, PTL

(***************************************************************************)
(* Types.  The data of a line comes over several channels, and GetStatus  *)
(* finds a clean line that is partly valid unless the requests that clean *)
(* a line find it full.                                                   *)
(***************************************************************************)
LineType == [valid : BOOLEAN, tag : Lines, shared : BOOLEAN, dirty : BOOLEAN,
             be : SUBSET Words, data : Data]
\* A valid line is full if it is shared; else it is dirty as soon as it has bytes.
Sound(l) ==
    /\ l \in LineType
    /\ l.valid /\ l.be # Words => ~l.shared /\ (l.dirty <=> l.be # {})

\* Data with its enables, on a channel.
IsData(m) == m.data \in Data /\ m.be \subseteq Words

NodeOk(r) ==
    /\ Sound(line[r]) /\ (r \notin Caches => ~line[r].valid)
    /\ txn[r].line \in Lines /\ IsData(txn[r])
    \* These clean the line that they find: it is full before and after.
    /\ r \in Caches /\ txn[r].op \in {"CleanUnique", "WriteCleanFull"} => line[r].be = Words
    /\ pulls[r] \in 0 .. NumIDs
NodesInv == DOMAIN pulls = Requesters /\ \A r \in Requesters : NodeOk(r)

\* CompData that goes on, and what the home node and a forwarding cache make of
\* an answer.
IsCompData(m) == IsData(m) /\ m.pd \in BOOLEAN
SentOk(m) ==
    /\ m.t \in {"CopyBackWrData", "NonCopyBackWrData"} => IsData(m)
    /\ m.t = "CompData" => IsCompData(m)
    /\ m.t \in {"SnpRespFwded", "SnpRespDataFwded"} => m.fpd \in BOOLEAN
UpOk(r) ==
    /\ up[r].rsp # <<>> => SentOk(up[r].rsp[1])
    /\ up[r].dat # <<>> => SentOk(up[r].dat[1])
UpInv == \A r \in Requesters : UpOk(r)
DownInv == \A r \in Requesters : down[r].dat # <<>> => IsCompData(down[r].dat[1])

ReqOk(q) ==
    /\ q.line \in Lines /\ q.snReq.line \in Lines /\ IsData(q)
    /\ q.dirty \in BOOLEAN /\ q.snpPD \in BOOLEAN /\ q.snpResp \in Status
FiltersOk(f) == DOMAIN f = Requesters /\ \A r \in Requesters : f[r] \subseteq Lines
HomeInv == ReqOk(cur) /\ FiltersOk(filter)

SlaveTypes ==
    /\ memory \in [Lines -> Data]
    /\ \A i \in DOMAIN writes : writes[i].line \in Lines
    /\ \A i \in DOMAIN snData : IsData(snData[i])
    /\ fromSN.dat # <<>> => IsCompData(fromSN.dat[1])

TypeInv == NodesInv /\ UpInv /\ DownInv /\ HomeInv /\ SlaveTypes /\ latest \in [Lines -> Data]

\* Data that is merged is data.
LEMMA ZeroIs == ZeroData \in Data /\ 0 \in Values
  BY ChiAssumption DEF ZeroData, Data, Values

LEMMA NoOpIs == NoOp.line \in Lines
  BY ChiAssumption DEF NoOp, Access

LEMMA MergeIs ==
    ASSUME NEW old \in Data, NEW d \in Data, NEW be
    PROVE  Merge(old, d, be) \in Data
  BY DEF Merge, Data

LEMMA AtomicIs ==
    ASSUME NEW op, NEW old \in Data, NEW d \in Data
    PROVE  [w \in Words |-> AtomicResult(op, old[w], d[w])] \in Data
  <1>1. ASSUME NEW a \in Values, NEW b \in Values PROVE AtomicResult(op, a, b) \in Values
    <2>1. (a + b) % Modulus \in Values
      BY <1>1, ChiAssumption DEF Values
    <2> QED BY <1>1, <2>1 DEF AtomicResult
  <1> QED BY <1>1 DEF Data

LEMMA HandledIs ==
    ASSUME NEW w, NEW old \in Data, NEW d, d.data \in Data, NEW junk \in Data
    PROVE  HandleAtomic(w, old, d, junk) \in Data
  <1>1. PICK a \in Data : a = [x \in Words |-> AtomicResult(w.op, old[x], d.data[x])]
    BY AtomicIs
  <1>2. PICK k \in Data : k = Merge(junk, d.data, d.be)
    BY MergeIs
  <1> QED BY <1>1, <1>2 DEF HandleAtomic

LEMMA StoreDataIs ==
    ASSUME NEW o, o.val \in Values
    PROVE  StoreData(o) \in Data
  BY DEF StoreData, Data

\* An access of the traffic.
LEMMA AccessData ==
    ASSUME IInv, NEW r \in Requesters, access[r].kind # "none"
    PROVE  access[r].line \in Lines /\ access[r].ws \subseteq Words /\ StoreData(access[r]) \in Data
  <1>1. mode \in Modes /\ access[r] \in mode.traffic[r]
    BY DEF IInv, TxnInv
  <1>2. access[r].line \in Lines /\ access[r].ws \subseteq Words /\ access[r].val \in Values
    BY <1>1, TrafficAssumption, WordsAssumption
  <1> QED BY <1>2, StoreDataIs

\* What the operations on a line leave of it.
LEMMA SoundIs ==
    ASSUME NEW l, Sound(l)
    PROVE  /\ IsLine(l)
           /\ Sound(Invalid(l)) /\ ~Invalid(l).valid /\ Invalid(l).be = l.be
           /\ ~l.valid \/ l.be = Words => Sound(Clean(l)) /\ Clean(l).be = l.be /\ Clean(l).valid = l.valid
           /\ l.be = Words => Sound(Shared(l)) /\ Shared(l).be = l.be
           /\ l.be = Words => Sound(Shared(Clean(l))) /\ Shared(Clean(l)).be = l.be
  BY DEF Sound, LineType, IsLine, LineFields, Invalid, Clean, Shared

LEMMA StoredLine ==
    ASSUME NEW l, Sound(l), ~l.shared, NEW d \in Data, NEW ws \in SUBSET Words
    PROVE  Sound(WriteLine(l, d, ws))
  <1>1. PICK n : n = Write(l, d, ws)
    OBVIOUS
  <1>2. /\ n \in LineType /\ n.valid = l.valid /\ n.dirty = l.dirty /\ n.shared = l.shared
        /\ n.be = l.be \cup ws
    <2>1. PICK k \in Data : k = Merge(l.data, d, ws)
      BY MergeIs DEF Sound, LineType
    <2>2. PICK b \in SUBSET Words : b = l.be \cup ws
      BY DEF Sound, LineType
    <2>3. n = [l EXCEPT !.data = k, !.be = b]
      BY <1>1, <2>1, <2>2 DEF Write
    <2> QED BY <2>2, <2>3 DEF Sound, LineType
  <1>3. PICK b \in BOOLEAN : b = (n.dirty \/ GetFillGrade(n) # "Empty")
    OBVIOUS
  <1>4. WriteLine(l, d, ws) = [n EXCEPT !.dirty = b]
    BY <1>1, <1>3 DEF WriteLine
  <1>5. b <=> (n.dirty \/ n.be # {})
    BY <1>3, ChiAssumption DEF GetFillGrade
  <1>6. [n EXCEPT !.dirty = b] \in LineType
    BY <1>2 DEF LineType
  <1> QED BY <1>2, <1>4, <1>5, <1>6 DEF Sound, LineType

LEMMA EmptyIs == Sound(EmptyLine) /\ ~EmptyLine.valid
  BY ZeroIs, NoOpIs DEF EmptyLine, Sound, LineType

(***************************************************************************)
(* What a snoop leaves of a line.                                          *)
(***************************************************************************)
FullStatus == {"SC", "SD", "UC", "UD"}

LEMMA FullIs ==
    ASSUME NEW l, Sound(l), l.valid
    PROVE  GetStatus(l) \in {"UDP", "UCE"} \/ (GetStatus(l) \in FullStatus /\ l.be = Words)
  BY DEF GetStatus, GetFillGrade, Sound, FullStatus

\* The line of an answer, for a line that is full if its status says so.
Left(a, l, st) ==
    /\ \/ a.line \in {l, Invalid(l)}
       \/ st \in FullStatus /\ a.line \in {Clean(l), Shared(l), Shared(Clean(l))}
    /\ a.fpd \in BOOLEAN

LEMMA LeftReads ==
    ASSUME NEW l, NEW st \in FullStatus \cup {"UDP", "UCE"}
    PROVE  /\ Left(HandleSnpOnce(l, st), l, st) /\ Left(HandleSnpOnceFwd(l, st), l, st)
           /\ Left(HandleSnpClean(l, st), l, st) /\ Left(HandleSnpCleanFwd(l, st), l, st)
  <1>1. Left(HandleSnpOnce(l, st), l, st)
    BY DEF Left, HandleSnpOnce, SnpResp, SnpRespData, SnpRespDataPtl, Reply
  <1>2. Left(HandleSnpOnceFwd(l, st), l, st)
    BY DEF Left, HandleSnpOnceFwd, SnpResp, SnpRespDataPtl, SnpRespFwded, Reply
  <1>3. Left(HandleSnpClean(l, st), l, st)
    BY DEF Left, FullStatus, HandleSnpClean, SnpResp, SnpRespData, SnpRespDataPtl, Reply
  <1>4. Left(HandleSnpCleanFwd(l, st), l, st)
    BY DEF Left, FullStatus, HandleSnpCleanFwd, SnpResp, SnpRespDataPtl, SnpRespDataFwded, Reply
  <1> QED BY <1>1, <1>2, <1>3, <1>4

LEMMA LeftInvalid ==
    ASSUME NEW l, NEW st \in FullStatus \cup {"UDP", "UCE"}
    PROVE  /\ Left(HandleSnpUnique(l, st), l, st) /\ Left(HandleSnpUniqueFwd(l, st), l, st)
           /\ Left(HandleSnpCleanInvalid(l, st), l, st) /\ Left(HandleSnpMakeInvalid(l, st), l, st)
  <1>1. Left(HandleSnpUnique(l, st), l, st)
    BY DEF Left, HandleSnpUnique, SnpResp, SnpRespData, SnpRespDataPtl, Reply
  <1>2. Left(HandleSnpUniqueFwd(l, st), l, st)
    BY DEF Left, HandleSnpUniqueFwd, SnpResp, SnpRespDataPtl, SnpRespFwded, Reply
  <1>3. Left(HandleSnpCleanInvalid(l, st), l, st)
    BY DEF Left, HandleSnpCleanInvalid, SnpResp, SnpRespData, SnpRespDataPtl, Reply
  <1>4. Left(HandleSnpMakeInvalid(l, st), l, st)
    BY DEF Left, HandleSnpMakeInvalid, SnpResp, Reply
  <1> QED BY <1>1, <1>2, <1>3, <1>4

LEMMA LeftOther ==
    ASSUME NEW l, NEW st \in FullStatus \cup {"UDP", "UCE"}
    PROVE  /\ Left(HandleSnpCleanShared(l, st), l, st)
           /\ Left(HandleSnpUniqueStash(l, st), l, st) /\ Left(HandleSnpMakeInvalidStash(l, st), l, st)
           /\ Left(HandleSnpStashUnique(l, st), l, st) /\ Left(HandleSnpStashShared(l, st), l, st)
  <1>1. Left(HandleSnpCleanShared(l, st), l, st)
    BY DEF Left, FullStatus, HandleSnpCleanShared, SnpResp, SnpRespData, SnpRespDataPtl, Reply
  <1>2. ASSUME NEW a, Left(a, l, st), DOMAIN a = {"line", "t", "st", "pd", "fst", "fpd", "pull"}, NEW b
        PROVE  Left([a EXCEPT !.pull = b], l, st)
    BY <1>2 DEF Left
  <1>3. /\ DOMAIN HandleSnpCleanInvalid(l, st) = {"line", "t", "st", "pd", "fst", "fpd", "pull"}
        /\ DOMAIN HandleSnpMakeInvalid(l, st) = {"line", "t", "st", "pd", "fst", "fpd", "pull"}
    BY DEF HandleSnpCleanInvalid, HandleSnpMakeInvalid, SnpResp, SnpRespData, SnpRespDataPtl, Reply
  <1>4. Left(HandleSnpUniqueStash(l, st), l, st) /\ Left(HandleSnpMakeInvalidStash(l, st), l, st)
    BY <1>2, <1>3, LeftInvalid DEF HandleSnpUniqueStash, HandleSnpMakeInvalidStash
  <1>5. Left(HandleSnpStashUnique(l, st), l, st) /\ Left(HandleSnpStashShared(l, st), l, st)
    BY DEF Left, HandleSnpStashUnique, HandleSnpStashShared, SnpResp, Reply
  <1> QED BY <1>1, <1>4, <1>5

LEMMA SnoopSound ==
    ASSUME NEW l, Sound(l), l.valid, NEW snp, NEW a, a = SnpReply(snp, l, GetStatus(l))
    PROVE  Sound(a.line) /\ a.line.be = l.be /\ a.fpd \in BOOLEAN
  <1>1. PICK st \in FullStatus \cup {"UDP", "UCE"} : st = GetStatus(l) /\ (st \in FullStatus => l.be = Words)
    BY FullIs DEF FullStatus
  <1>2. Left(a, l, st)
    BY <1>1, LeftReads, LeftInvalid, LeftOther
       DEF SnpReply, HandleSnpNotSharedDirtyFwd, HandleSnpSharedFwd
  <1> QED BY <1>1, <1>2, SoundIs DEF Left

(***************************************************************************)
(* A step of one requester.                                                *)
(***************************************************************************)
LEMMA PortTypes ==
    ASSUME TypeInv, NEW r \in Requesters,
           UNCHANGED <<cur, filter, memory, writes, snData, fromSN>>,
           DOMAIN pulls' = Requesters, NodeOk(r)', UpOk(r)',
           down'[r].dat \in {<<>>, down[r].dat}, latest' \in [Lines -> Data],
           \A q \in Requesters \ {r} :
              /\ line'[q] = line[q] /\ txn'[q] = txn[q] /\ pulls'[q] = pulls[q]
              /\ up'[q] = up[q] /\ down'[q].dat = down[q].dat
    PROVE  TypeInv'
  <1>1. NodesInv'
    BY DEF TypeInv, NodesInv, NodeOk
  <1>2. UpInv'
    BY DEF TypeInv, UpInv, UpOk
  <1>3. DownInv'
    BY DEF TypeInv, DownInv
  <1>4. HomeInv' /\ SlaveTypes'
    BY DEF TypeInv, HomeInv, SlaveTypes
  <1> QED BY <1>1, <1>2, <1>3, <1>4 DEF TypeInv

LEMMA StartTypes ==
    ASSUME TypeInv, NEW r \in Requesters, Start(r)
    PROVE  TypeInv'
  <1>1. UNCHANGED <<channels, line, txn, pulls, hnVars, snVars, latest>>
    BY DEF Start, Begin
  <1> QED BY <1>1 DEF channels, hnVars, snVars, TypeInv, NodesInv, NodeOk, UpInv, UpOk, DownInv,
                      HomeInv, SlaveTypes

LEMMA NewTxnData ==
    ASSUME IInv, NEW r \in Requesters, NodeOk(r), access[r].kind # "none", NEW op, NEW ack
    PROVE  NewTxn(r, op, ack).line \in Lines /\ IsData(NewTxn(r, op, ack))
  <1>1. access[r].line \in Lines /\ access[r].ws \subseteq Words /\ StoreData(access[r]) \in Data
    BY AccessData
  <1>2. line[r].tag \in Lines /\ line[r].data \in Data /\ line[r].be \subseteq Words
    BY DEF NodeOk, Sound, LineType
  <1> QED BY <1>1, <1>2 DEF NewTxn, NoTxn, IsData

LEMMA IssueTypes ==
    ASSUME IInv, TypeInv, NEW r \in Requesters, Running(r), NEW op, NEW next, Issue(r, op, next),
           UNCHANGED <<hnVars, snVars, latest>>,
           \A q \in Requesters \ {r} : line'[q] = line[q],
           Sound(line'[r]), line'[r].be = line[r].be, line'[r].valid => line[r].valid,
           r \in Caches /\ op \in {"CleanUnique", "WriteCleanFull"} => line[r].be = Words
    PROVE  TypeInv'
  <1>1. /\ UNCHANGED <<down, snData, fromSN, pulls>>
        /\ txn[r].op = "none" /\ access[r].kind # "none" /\ NodeOk(r)
    BY DEF Issue, Running, TypeInv, NodesInv
  <1>2. PICK ack \in ExpCompAck(op) :
           /\ txn' = [txn EXCEPT ![r] = NewTxn(r, op, ack)]
           /\ up' = Put(up, r, "req", Request(NewTxn(r, op, ack)))
    BY DEF Issue
  <1>3. PICK t : t = NewTxn(r, op, ack)
    OBVIOUS
  <1>4. /\ \A q \in Requesters \ {r} : up'[q] = up[q] /\ txn'[q] = txn[q]
        /\ up'[r].rsp = up[r].rsp /\ up'[r].dat = up[r].dat /\ txn'[r] = t
    BY <1>2, <1>3 DEF IInv, Shape, Put
  <1>5. t.op = op /\ t.line \in Lines /\ IsData(t)
    BY <1>1, <1>3, NewTxnIs, NewTxnData
  <1>6. NodeOk(r)'
    BY <1>1, <1>4, <1>5 DEF NodeOk
  <1>7. UpOk(r)'
    BY <1>4 DEF TypeInv, UpInv, UpOk
  <1> QED BY <1>1, <1>4, <1>6, <1>7, PortTypes DEF hnVars, snVars, TypeInv, NodesInv

LEMMA FinishTypes ==
    ASSUME IInv, TypeInv, NEW r \in Requesters, Finish(r), UNCHANGED <<hnVars, snVars>>,
           \A q \in Requesters \ {r} : line'[q] = line[q],
           Sound(line'[r]), line'[r].valid => line[r].valid, latest' \in [Lines -> Data]
    PROVE  TypeInv'
  <1>1. UNCHANGED <<up, down, snData, fromSN, pulls>>
    BY DEF Finish, channels
  <1>2. (\A q \in Requesters \ {r} : txn'[q] = txn[q]) /\ txn'[r] = NoTxn
    BY DEF Finish, IInv, Shape
  <1>3. NodeOk(r)'
    BY <1>1, <1>2, ZeroIs, NoOpIs DEF NodeOk, NoTxn, IsData, TypeInv, NodesInv
  <1>4. UpOk(r)'
    BY <1>1 DEF TypeInv, UpInv, UpOk
  <1> QED BY <1>1, <1>2, <1>3, <1>4, PortTypes DEF hnVars, snVars, TypeInv, NodesInv

LEMMA EvictTypes ==
    ASSUME IInv, CohInv, TypeInv, NEW r \in Requesters, Running(r), EvictLine(r),
           UNCHANGED <<hnVars, snVars, latest>>
    PROVE  TypeInv'
  <1>1. PICK v \in Victim(r) :
           Issue(r, v, "main") /\ line' = [line EXCEPT ![r].valid = @ /\ v # "Evict"]
    BY DEF EvictLine
  <1>2. v \notin {"CleanUnique", "WriteCleanFull"}
    BY DEF Victim
  <1>3. DOMAIN line = Requesters /\ Sound(line[r])
    BY DEF CohInv, LineShape, TypeInv, NodesInv, NodeOk
  <1>4. line' = [line EXCEPT ![r] = IF v = "Evict" THEN Invalid(line[r]) ELSE line[r]]
    <2>1. line[r] \in LineType
      BY <1>3 DEF Sound
    <2>2. line' = [line EXCEPT ![r] = [line[r] EXCEPT !.valid = line[r].valid /\ v # "Evict"]]
      BY <1>1, <1>3
    <2>3. CASE v = "Evict"
      BY <2>2, <2>3 DEF Invalid
    <2>4. CASE v # "Evict"
      BY <2>1, <2>2, <2>4 DEF LineType
    <2> QED BY <2>3, <2>4
  <1>5. /\ \A q \in Requesters \ {r} : line'[q] = line[q]
        /\ Sound(line'[r]) /\ line'[r].be = line[r].be /\ (line'[r].valid => line[r].valid)
    BY <1>3, <1>4, SoundIs
  <1> QED BY <1>1, <1>2, <1>5, IssueTypes

LEMMA FetchTypes ==
    ASSUME IInv, CohInv, TypeInv, NEW r \in Requesters, Running(r), NEW w, Fetch(r, w),
           w # "CleanUnique", w # "WriteCleanFull", UNCHANGED <<hnVars, snVars, latest>>
    PROVE  TypeInv'
  <1>1. Sound(line[r])
    BY DEF TypeInv, NodesInv, NodeOk
  <1>2. CASE IssueWanted(r, w)
    <2>1. PICK next : Issue(r, w, next) /\ line' = line
      BY <1>2 DEF IssueWanted
    <2> QED BY <1>1, <2>1, IssueTypes
  <1>3. CASE IsDirtyFull(line[r]) /\ Issue(r, "WriteCleanFull", "part2") /\ UNCHANGED line
    <2>1. line[r].be = Words
      BY <1>3 DEF IsDirtyFull, GetFillGrade
    <2> QED BY <1>1, <1>3, <2>1, IssueTypes
  <1>4. CASE EvictLine(r)
    BY <1>4, EvictTypes
  <1> QED BY <1>2, <1>3, <1>4 DEF Fetch

LEMMA RunTypes ==
    ASSUME IInv, CohInv, TypeInv, NEW r \in Requesters, Run(r)
    PROVE  TypeInv'
  <1>1. UNCHANGED <<hnVars, snVars>>
    BY DEF Run
  <1>2. Sound(line[r]) /\ NodeOk(r) /\ DOMAIN line = Requesters
    BY DEF TypeInv, NodesInv, NodeOk, CohInv, LineShape
  <1>3. Running(r) /\ access[r].kind # "none"
    BY DEF Run, StoreHit, LoadHit, LoadMiss, StoreShared, StoreMiss, Direct, EvictCleaned,
           RoomMade, Complete, At, Running
  <1>4. CASE StoreHit(r) /\ Stored(access[r].line, StoreData(access[r]), access[r].ws)
    <2>1. access[r].line \in Lines /\ access[r].ws \subseteq Words /\ StoreData(access[r]) \in Data
      BY <1>3, AccessData
    <2>2. PICK k : k = WriteLine(line[r], StoreData(access[r]), access[r].ws)
      OBVIOUS
    <2>3. Finish(r) /\ line' = [line EXCEPT ![r] = k] /\ ~line[r].shared
      BY <1>4, <2>2 DEF StoreHit
    <2>4. Sound(k)
      BY <1>2, <2>1, <2>2, <2>3, StoredLine
    <2>5. k.valid = line[r].valid
      BY <1>2, <2>2 DEF WriteLine, Write, Sound, LineType
    <2>6. latest' \in [Lines -> Data]
      <3>1. latest \in [Lines -> Data]
        BY DEF TypeInv
      <3>2. Merge(latest[access[r].line], StoreData(access[r]), access[r].ws) \in Data
        BY <2>1, <3>1, MergeIs
      <3>3. latest' = [latest EXCEPT ![access[r].line] =
                           Merge(latest[access[r].line], StoreData(access[r]), access[r].ws)]
        BY <1>4 DEF Stored
      <3> QED BY <3>1, <3>2, <3>3
    <2> QED BY <1>1, <1>2, <2>3, <2>4, <2>5, <2>6, FinishTypes
  <1>5. CASE ~(StoreHit(r) /\ Stored(access[r].line, StoreData(access[r]), access[r].ws))
    <2>1. /\ LoadHit(r) \/ LoadMiss(r) \/ StoreShared(r) \/ StoreMiss(r) \/ Direct(r)
               \/ EvictCleaned(r) \/ RoomMade(r) \/ Complete(r)
          /\ latest' = latest
      BY <1>5 DEF Run
    <2>2. CASE LoadHit(r) \/ Complete(r)
      <3>1. Finish(r) /\ UNCHANGED line
        BY <2>2 DEF LoadHit, Complete
      <3>2. latest' \in [Lines -> Data]
        BY <2>1 DEF TypeInv
      <3> QED BY <1>1, <1>2, <3>1, <3>2, FinishTypes
    <2>3. CASE LoadMiss(r)
      <3>1. PICK w \in mode.reads : Fetch(r, w)
        BY <2>3 DEF LoadMiss
      <3>2. w \in ReadOnces \cup Fills
        BY TrafficAssumption, Classes DEF IInv, TxnInv
      <3>3. w # "CleanUnique" /\ w # "WriteCleanFull"
        BY <3>2 DEF ReadOnces, Fills
      <3> QED BY <1>1, <1>3, <2>1, <3>1, <3>3, FetchTypes
    <2>4. CASE StoreShared(r)
      <3>1. /\ Issue(r, "CleanUnique", "loop") /\ line' = line
            /\ line[r].valid /\ line[r].shared
        BY <2>4 DEF StoreShared, InCache
      <3>2. line[r].be = Words
        BY <1>2, <3>1 DEF Sound
      <3> QED BY <1>1, <1>2, <1>3, <2>1, <3>1, <3>2, IssueTypes
    <2>5. ASSUME NEW w, NEW next, w # "CleanUnique", w # "WriteCleanFull", Issue(r, w, next),
                 line' = line
          PROVE  TypeInv'
      BY <1>1, <1>2, <1>3, <2>1, <2>5, IssueTypes
    <2>6. \A w \in WriteUniques(access[r]) : w # "CleanUnique" /\ w # "WriteCleanFull"
      BY DEF WriteUniques
    <2>7. CASE StoreMiss(r)
      <3>1. CASE \E w \in {"MakeUnique", "ReadUnique"} : Fetch(r, w)
        BY <1>1, <1>3, <2>1, <3>1, FetchTypes
      <3>2. CASE line' = line /\ \E w \in WriteUniques(access[r]) : Issue(r, w, "after")
        BY <2>5, <2>6, <3>2
      <3> QED BY <2>7, <3>1, <3>2 DEF StoreMiss
    <2>8. CASE Direct(r)
      <3>1. /\ line' = line /\ ~IsCached(access[r])
            /\ \E w \in IF access[r].kind = "WriteNoSnp" THEN WriteUniques(access[r])
                        ELSE {access[r].kind} : Issue(r, w, "after")
        BY <2>8 DEF Direct, IsCached
      <3>2. CASE access[r].kind = "WriteNoSnp"
        BY <2>5, <2>6, <3>1, <3>2
      <3>3. CASE access[r].kind # "WriteNoSnp"
        <4>1. Issue(r, access[r].kind, "after")
          BY <3>1, <3>3
        <4>2. r \in Caches => access[r].kind \notin {"CleanUnique", "WriteCleanFull"}
          BY <1>3, <3>1, <3>3, AccessIs DEF IsAtomic, IsAtomicStore, IsAtomicNonStore
        <4> QED BY <1>1, <1>2, <1>3, <2>1, <3>1, <4>1, <4>2, IssueTypes
      <3> QED BY <3>2, <3>3
    <2>9. ASSUME IssueWanted(r, want[r]), stage[r] \in {"part2", "main"} PROVE TypeInv'
      <3>1. want[r] \in ReadOnces \cup Fills \cup {"MakeUnique"}
        BY <2>9 DEF IInv, TxnInv
      <3>2. want[r] # "CleanUnique" /\ want[r] # "WriteCleanFull"
        BY <3>1 DEF ReadOnces, Fills
      <3> QED BY <2>5, <2>9, <3>2 DEF IssueWanted
    <2>10. CASE EvictCleaned(r) \/ RoomMade(r)
      <3>1. /\ stage[r] \in {"part2", "main"}
            /\ EvictLine(r) \/ IssueWanted(r, want[r])
        BY <2>10 DEF EvictCleaned, RoomMade, At
      <3> QED BY <1>1, <1>3, <2>1, <2>9, <3>1, EvictTypes
    <2> QED BY <2>1, <2>2, <2>3, <2>4, <2>7, <2>8, <2>10
  <1> QED BY <1>4, <1>5

(***************************************************************************)
(* A requester takes a message.                                            *)
(***************************************************************************)
\* Messages that carry nothing.
LEMMA PlainOk ==
    ASSUME NEW m, m.t \notin {"CopyBackWrData", "NonCopyBackWrData", "CompData", "SnpRespFwded",
                              "SnpRespDataFwded"}
    PROVE  SentOk(m)
  BY DEF SentOk

LEMMA DoneData ==
    ASSUME NEW t
    PROVE  Done(t).op = "none" /\ Done(t).line \in Lines /\ IsData(Done(t))
  BY ZeroIs, NoOpIs DEF Done, NoTxn, IsData

\* What a transaction has got says nothing of its data.
LEMMA GotData ==
    ASSUME NEW t, IsTxn(t), NEW g, NEW d
    PROVE  \A u \in {[t EXCEPT !.got = g], [t EXCEPT !.got = g, !.res = d]} :
              /\ u.op = t.op /\ u.line = t.line /\ u.ack = t.ack
              /\ IsData(t) => IsData(u)
  BY DEF IsTxn, IsData

LEMMA RetryTypes ==
    ASSUME IInv, TypeInv, NEW r \in Requesters, Retried(r), RxRsp(r),
           UNCHANGED <<hnVars, snVars, latest>>
    PROVE  TypeInv'
  <1> DEFINE m == Head(down[r].rsp)
             u == [txn[r] EXCEPT !.got = @ \cup {m.t}]
  <1>1. UNCHANGED <<pulls, snData, fromSN>> /\ down' = Drop(down, r, "rsp")
    BY DEF RxRsp
  <1>2. \A q \in Requesters : down'[q].dat = down[q].dat
    BY <1>1, DropIs
  <1>3. m.t = "RetryAck" \/ m.t = "PCrdGrant"
    <2>1. m = RetryAck \/ m = PCrdGrant
      BY TwoIs, OneIs DEF Retried
    <2> QED BY <2>1, Answers
  <1>4. /\ txn' = [txn EXCEPT ![r] = u] /\ line' = line
        /\ up' = IF {"RetryAck", "PCrdGrant"} \subseteq u.got
                 THEN Put(up, r, "req", Request(u)) ELSE up
    BY <1>3 DEF RxRsp, HandleRetry
  <1>5. u.op = txn[r].op /\ u.line = txn[r].line /\ (IsData(txn[r]) => IsData(u))
    BY GotData DEF IInv, Shape
  <1> HIDE DEF u, m
  <1>6. /\ txn'[r] = u
        /\ \A q \in Requesters \ {r} : txn'[q] = txn[q] /\ up'[q] = up[q]
        /\ up'[r].rsp = up[r].rsp /\ up'[r].dat = up[r].dat
    BY <1>4 DEF IInv, Shape, Put
  <1>7. NodeOk(r)' /\ DOMAIN pulls' = Requesters
    BY <1>1, <1>4, <1>5, <1>6 DEF TypeInv, NodesInv, NodeOk
  <1>8. UpOk(r)'
    BY <1>6 DEF TypeInv, UpInv, UpOk
  <1> QED BY <1>1, <1>2, <1>4, <1>6, <1>7, <1>8, PortTypes DEF hnVars, snVars, TypeInv

LEMMA InformedTypes ==
    ASSUME IInv, CohInv, TypeInv, NEW r \in Requesters, Informed(r), RxRsp(r),
           UNCHANGED <<hnVars, snVars, latest>>
    PROVE  TypeInv'
  <1> DEFINE t == txn[r]
             m == Head(down[r].rsp)
  <1>1. UNCHANGED <<pulls, snData, fromSN>> /\ down' = Drop(down, r, "rsp")
    BY DEF RxRsp
  <1>2. \A q \in Requesters : down'[q].dat = down[q].dat
    BY <1>1, DropIs
  <1>3. m = CompI
    BY OneIs DEF Informed
  <1>4. HandleComp(r, m)
    BY <1>3, Answers DEF RxRsp
  <1>5. ~t.ack /\ (t.op = "DVMOp" => "Sent" \in t.got)
    <2>1. t.op \in Informing \cup {"DVMOp"}
      BY DEF Informed
    <2>2. t.op \in ReqOps \ (Reading \cup Upgrading \cup UniqueWrites) /\ t.op # "none"
      BY <2>1 DEF ReqOps, Reading, Upgrading, UniqueWrites, Informing, ReadOnces, Fills
    <2>3. Acked(t.op, t.ack)
      BY <2>2 DEF IInv, TxnInv
    <2>4. t.op = "DVMOp" => "Sent" \in t.got
      BY DEF Informed, Informing
    <2> QED BY <2>2, <2>3, <2>4 DEF Acked
  <1>6. up' = up /\ txn' = [txn EXCEPT ![r] = Done(t)]
    BY <1>4, <1>5 DEF HandleComp
  <1>7. /\ txn'[r] = Done(t)
        /\ \A q \in Requesters \ {r} : txn'[q] = txn[q]
    BY <1>6 DEF IInv, Shape
  <1>8. /\ line'[r] \in {line[r], Invalid(line[r])}
        /\ \A q \in Requesters \ {r} : line'[q] = line[q]
    <2>1. CompI.st # "UC"
      BY DEF CompI, Rsp, Msg
    <2>2. ParseResp(line[r], t, m) = Invalid(line[r])
      BY <1>3, <2>1 DEF ParseResp, Invalid
    <2>3. line' = IF r \notin Caches \/ t.op = "DVMOp" THEN line
                  ELSE [line EXCEPT ![r] = ParseResp(line[r], t, m)]
      BY <1>4 DEF HandleComp
    <2> QED BY <2>2, <2>3 DEF CohInv, LineShape
  <1>9. NodeOk(r) /\ DOMAIN pulls = Requesters
    BY DEF TypeInv, NodesInv
  <1>10. Sound(line'[r]) /\ (line'[r].valid => line[r].valid)
    BY <1>8, <1>9, SoundIs DEF NodeOk
  <1>11. NodeOk(r)'
    BY <1>1, <1>7, <1>9, <1>10, DoneData DEF NodeOk
  <1>12. UpOk(r)'
    BY <1>6 DEF TypeInv, UpInv, UpOk
  <1> QED BY <1>1, <1>2, <1>6, <1>7, <1>8, <1>9, <1>11, <1>12, PortTypes DEF hnVars, snVars, TypeInv

LEMMA UniqueTypes ==
    ASSUME IInv, CohInv, TypeInv, NEW r \in Requesters, r = src, Gives, GivesUnique, RxRsp(r),
           UNCHANGED <<hnVars, snVars, latest>>
    PROVE  TypeInv'
  <1> DEFINE t == txn[r]
             m == Head(down[r].rsp)
  <1>1. UNCHANGED <<pulls, snData, fromSN>> /\ down' = Drop(down, r, "rsp")
    BY DEF RxRsp
  <1>2. \A q \in Requesters : down'[q].dat = down[q].dat
    BY <1>1, DropIs
  <1>3. m = CompUC
    BY OneIs DEF GivesUnique
  <1>4. HandleComp(r, m)
    BY <1>3, Answers DEF RxRsp
  <1>5. t.ack /\ t.op = cur.op /\ cur.op \in Upgrading
    BY DEF Gives, GivesUnique, Served, Serves, Acked, src, Upgrading, Reading, Fixed
  <1>6. PICK u : /\ up' = Put(up, r, "rsp", CompAck) /\ txn' = [txn EXCEPT ![r] = u]
                 /\ u.op = t.op /\ u.line = t.line /\ (IsData(t) => IsData(u))
    <2>1. IsTxn(t)
      BY DEF IInv, Shape
    <2> QED BY <1>4, <1>5, <2>1, GotData DEF HandleComp, CompAck
  <1>7. /\ \A q \in Requesters \ {r} : up'[q] = up[q] /\ txn'[q] = txn[q]
        /\ up'[r].rsp = <<CompAck>> /\ up'[r].dat = up[r].dat /\ txn'[r] = u
    BY <1>6, AppendIs DEF IInv, Shape, Put, GivesUnique, Silent
  <1>8. DOMAIN line = Requesters /\ NodeOk(r) /\ DOMAIN pulls = Requesters
    BY DEF CohInv, LineShape, TypeInv, NodesInv
  <1>9. PICK l : /\ l = IF r \in Caches THEN ParseResp(line[r], t, m) ELSE line[r]
                 /\ line'[r] = l /\ \A q \in Requesters \ {r} : line'[q] = line[q]
    <2>1. line' = IF r \notin Caches THEN line ELSE [line EXCEPT ![r] = ParseResp(line[r], t, m)]
      BY <1>4, <1>5 DEF HandleComp, Upgrading
    <2> QED BY <1>8, <2>1
  <1>10. Sound(l) /\ (r \in Caches /\ t.op = "CleanUnique" => l.be = Words) /\ (r \notin Caches => ~l.valid)
    <2>1. CASE r \notin Caches
      BY <1>8, <1>9, <2>1 DEF NodeOk
    <2>2. CASE r \in Caches /\ t.op = "MakeUnique"
      <3>1. l = [valid |-> TRUE, tag |-> t.line, shared |-> FALSE, dirty |-> FALSE,
                 be |-> {}, data |-> ZeroData]
        BY <1>3, <1>9, <2>2, Answers DEF ParseResp
      <3>2. t.line \in Lines
        BY <1>8 DEF NodeOk
      <3> QED BY <2>2, <3>1, <3>2, ZeroIs DEF Sound, LineType
    <2>3. CASE r \in Caches /\ t.op = "CleanUnique"
      <3>1. l = [valid |-> TRUE, tag |-> t.line, shared |-> FALSE, dirty |-> FALSE,
                 be |-> line[r].be, data |-> line[r].data]
        BY <1>3, <1>9, <2>3, Answers DEF ParseResp
      <3>2. t.line \in Lines /\ line[r].be = Words /\ line[r].data \in Data
        BY <1>8, <2>3 DEF NodeOk, Sound, LineType
      <3> QED BY <2>3, <3>1, <3>2 DEF Sound, LineType
    <2>4. t.op \in {"CleanUnique", "MakeUnique"}
      BY <1>5 DEF Upgrading
    <2>5. CASE r \in Caches
      BY <2>2, <2>3, <2>4, <2>5
    <2> QED BY <2>1, <2>5
  <1>11. NodeOk(r)'
    BY <1>1, <1>5, <1>6, <1>7, <1>8, <1>9, <1>10 DEF NodeOk, Upgrading
  <1>12. UpOk(r)'
    <2>1. SentOk(CompAck)
      BY PlainOk, Answers
    <2> QED BY <1>7, <2>1, OneIs DEF TypeInv, UpInv, UpOk
  <1> QED BY <1>1, <1>2, <1>7, <1>8, <1>9, <1>11, <1>12, PortTypes DEF hnVars, snVars, TypeInv

LEMMA DBIDTypes ==
    ASSUME IInv, CohInv, TypeInv, NEW r \in Requesters, r = src, TakesData,
           down[r].rsp = <<DBIDFor(cur.op)>>, up[r].dat = <<>>, RxRsp(r),
           UNCHANGED <<hnVars, snVars, latest>>
    PROVE  TypeInv'
  <1> DEFINE t == txn[r]
             m == Head(down[r].rsp)
  <1>1. UNCHANGED <<pulls, snData, fromSN>> /\ down' = Drop(down, r, "rsp")
    BY DEF RxRsp
  <1>2. \A q \in Requesters : down'[q].dat = down[q].dat
    BY <1>1, DropIs
  <1>3. HandleDBID(r)
    <2>1. m = DBIDFor(cur.op)
      BY OneIs
    <2>2. m.t \in {"DBIDResp", "CompDBIDResp"}
      BY <2>1, Answers DEF DBIDFor
    <2> QED BY <2>2 DEF RxRsp
  <1>4. NodeOk(r) /\ DOMAIN pulls = Requesters /\ DOMAIN line = Requesters /\ IsTxn(t)
    BY DEF TypeInv, NodesInv, CohInv, LineShape, IInv, Shape
  <1>5. PICK d : up' = Put(up, r, "dat", d) /\ SentOk(d)
    <2>1. PICK c, st, pd, be :
             /\ c \in {"CopyBackWrData", "NonCopyBackWrData"} /\ be \subseteq Words
             /\ up' = Put(up, r, "dat", Msg(c, st, pd, t.data, be, "HN"))
      <3>1. t.be \subseteq Words
        BY <1>4 DEF NodeOk, IsData
      <3>2. CASE IsCopyBack(t.op)
        BY <1>3, <3>1, <3>2 DEF HandleDBID
      <3>3. CASE ~IsCopyBack(t.op)
        BY <1>3, <3>1, <3>3 DEF HandleDBID
      <3> QED BY <3>2, <3>3
    <2>2. t.data \in Data
      BY <1>4 DEF NodeOk, IsData
    <2>3. PICK d : d = Msg(c, st, pd, t.data, be, "HN")
      OBVIOUS
    <2>4. d.t = c /\ d.data = t.data /\ d.be = be
      BY <2>3, MsgIs
    <2> QED BY <2>1, <2>2, <2>3, <2>4 DEF SentOk, IsData
  <1>6. /\ \A q \in Requesters \ {r} : up'[q] = up[q]
        /\ up'[r].dat = <<d>> /\ up'[r].rsp = up[r].rsp
    BY <1>5, AppendIs DEF IInv, Shape, Put
  <1>7. PICK g : txn' = [txn EXCEPT ![r].got = g]
    BY <1>3 DEF HandleDBID
  <1>8. /\ txn'[r].op = t.op /\ txn'[r].line = t.line /\ IsData(txn'[r])
        /\ \A q \in Requesters \ {r} : txn'[q] = txn[q]
    BY <1>4, <1>7 DEF IInv, Shape, IsTxn, NodeOk, IsData
  <1>9. PICK k : /\ k = IF ~IsCopyBack(t.op) THEN line[r]
                        ELSE IF t.op = "WriteCleanFull" THEN Clean(line[r]) ELSE Invalid(line[r])
                 /\ line'[r] = k
                 /\ \A q \in Requesters \ {r} : line'[q] = line[q]
    <2>1. CASE IsCopyBack(t.op)
      <3>1. line' = [line EXCEPT ![r] = IF t.op = "WriteCleanFull" THEN [line[r] EXCEPT !.dirty = FALSE]
                                        ELSE [line[r] EXCEPT !.valid = FALSE]]
        BY <1>3, <2>1 DEF HandleDBID
      <3> QED BY <1>4, <2>1, <3>1 DEF Clean, Invalid
    <2>2. CASE ~IsCopyBack(t.op)
      <3>1. line' = line
        BY <1>3, <2>2 DEF HandleDBID
      <3> QED BY <2>2, <3>1
    <2> QED BY <2>1, <2>2
  <1>10. Sound(k) /\ k.be = line[r].be /\ (k.valid => line[r].valid)
    <2>1. t.op = "WriteCleanFull" => ~line[r].valid \/ line[r].be = Words
      BY <1>4 DEF NodeOk
    <2> QED BY <1>4, <1>9, <2>1, SoundIs DEF NodeOk
  <1>11. NodeOk(r)'
    BY <1>1, <1>4, <1>8, <1>9, <1>10 DEF NodeOk
  <1>12. UpOk(r)'
    BY <1>5, <1>6, OneIs DEF TypeInv, UpInv, UpOk
  <1> QED BY <1>1, <1>2, <1>4, <1>6, <1>8, <1>9, <1>11, <1>12, PortTypes DEF hnVars, snVars, TypeInv

LEMMA RxRspTypes ==
    ASSUME IInv, CohInv, TypeInv, NEW r \in Requesters, RxRsp(r),
           UNCHANGED <<hnVars, snVars, latest>>
    PROVE  TypeInv'
  <1>1. down[r].rsp # <<>>
    BY DEF RxRsp
  <1> QED BY <1>1, DownRspIs, RetryTypes, InformedTypes, UniqueTypes, DBIDTypes DEF IInv

LEMMA ArrivedData ==
    ASSUME FlitsKeepData, NEW m, IsMsg(m), IsData(m)
    PROVE  /\ IsMsg(Arrived(m)) /\ IsData(Arrived(m))
           /\ Arrived(m).t = m.t /\ Arrived(m).pd = m.pd
           /\ Arrived(m).data = m.data /\ Arrived(m).be = m.be
  <1>1. Arrives[<<m.data, m.be>>] = [data |-> m.data, be |-> m.be]
    BY DEF FlitsKeepData, IsData
  <1>2. PICK a : a = Arrives[<<m.data, m.be>>]
    OBVIOUS
  <1>3. a.data = m.data /\ a.be = m.be
    BY <1>1, <1>2
  <1>4. Arrived(m) = [m EXCEPT !.data = a.data, !.be = a.be]
    BY <1>2 DEF Arrived
  <1> QED BY <1>3, <1>4 DEF IsMsg, MsgFields, IsData

LEMMA DataTypes ==
    ASSUME IInv, CohInv, TypeInv, NEW r \in Requesters, NEW m, IsCompData(m), RxDat(r, m),
           txn[r].ack => up[r].rsp = <<>>, One(down[r].dat), UNCHANGED <<hnVars, snVars, latest>>
    PROVE  TypeInv'
  <1> DEFINE t == txn[r]
  <1>1. UNCHANGED <<pulls, snData, fromSN>> /\ down' = Drop(down, r, "dat")
    BY DEF RxDat
  <1>2. /\ down'[r].dat = <<>>
        /\ \A q \in Requesters \ {r} : down'[q] = down[q]
    <2>1. Tail(down[r].dat) = <<>>
      BY OneIs DEF One
    <2> QED BY <1>1, <2>1, DropIs
  <1>3. NodeOk(r) /\ DOMAIN pulls = Requesters /\ DOMAIN line = Requesters /\ IsTxn(t)
    BY DEF TypeInv, NodesInv, CohInv, LineShape, IInv, Shape
  <1>4. t.op \notin {"CleanUnique", "WriteCleanFull"}
    BY DEF RxDat, AcceptsDat, ReadTxnTakes, AtomicTxnTakes, IsRead, IsSnpRead, IsReadOnce,
           AllocatesCacheLine, IsAtomicNonStore, IsAtomicStore
  <1>5. PICK u : /\ u.op = t.op /\ u.line = t.line /\ u.ack = t.ack /\ (IsData(t) => IsData(u))
                 /\ up' = IF u.ack THEN Put(up, r, "rsp", CompAck) ELSE up
                 /\ \E v \in {u, Done(u)} : txn' = [txn EXCEPT ![r] = v]
                 /\ line' = IF ~AllocatesCacheLine(u.op) \/ r \notin Caches THEN line
                            ELSE [line EXCEPT ![r] = ParseReadResp(line[r], u, m)]
    <2>1. PICK u : u = [t EXCEPT !.got = @ \cup {Counted(t, m)}, !.res = m.data]
      OBVIOUS
    <2>2. u.op = t.op /\ u.line = t.line /\ u.ack = t.ack /\ (IsData(t) => IsData(u))
      <3>1. PICK g : g = t.got \cup {Counted(t, m)}
        OBVIOUS
      <3>2. u = [t EXCEPT !.got = g, !.res = m.data]
        BY <2>1, <3>1
      <3> QED BY <1>3, <3>2 DEF IsTxn, IsData
    <2>3. /\ up' = IF u.ack THEN Put(up, r, "rsp", Rsp("CompAck", "I", FALSE)) ELSE up
          /\ txn' = [txn EXCEPT ![r] =
                        IF u.ack \/ (IsAtomic(u.op) /\ ~({"Sent", "Data"} \subseteq u.got))
                        THEN u ELSE Done(u)]
          /\ line' = IF ~AllocatesCacheLine(u.op) \/ r \notin Caches THEN line
                     ELSE [line EXCEPT ![r] = ParseReadResp(line[r], u, m)]
      BY <2>1 DEF RxDat
    <2> QED BY <2>2, <2>3 DEF CompAck
  <1>6. /\ \A q \in Requesters \ {r} : up'[q] = up[q]
        /\ up'[r].rsp \in {<<CompAck>>, up[r].rsp} /\ up'[r].dat = up[r].dat
    <2>1. CASE u.ack
      BY <1>5, <2>1, AppendIs DEF IInv, Shape, Put
    <2>2. CASE ~u.ack
      BY <1>5, <2>2
    <2> QED BY <2>1, <2>2
  <1>7. /\ \A q \in Requesters \ {r} : txn'[q] = txn[q]
        /\ txn'[r].op \in {"none", t.op} /\ txn'[r].line \in Lines /\ IsData(txn'[r])
    <2>1. PICK v \in {u, Done(u)} : txn' = [txn EXCEPT ![r] = v]
      BY <1>5
    <2>2. v.op \in {"none", t.op} /\ v.line \in Lines /\ IsData(v)
      BY <1>3, <1>5, DoneData DEF NodeOk
    <2> QED BY <2>1, <2>2 DEF IInv, Shape
  <1>8. Sound(ParseReadResp(line[r], u, m))
    <2>1. PICK d \in Data : d = Merge(line[r].data, m.data, m.be)
      BY <1>3, MergeIs DEF NodeOk, Sound, LineType, IsCompData, IsData
    <2>2. PICK n \in LineType : /\ n.valid = (m.st # "I") /\ n.be = line[r].be
                                /\ n = [line[r] EXCEPT !.valid = m.st # "I", !.data = d]
      BY <1>3, <2>1 DEF NodeOk, Sound, LineType
    <2>3. CASE m.st = "I"
      <3>1. PICK b \in SUBSET Words : b = n.be \cup m.be
        BY <2>2 DEF LineType, IsCompData, IsData
      <3>2. ParseReadResp(line[r], u, m) = [n EXCEPT !.be = b]
        BY <2>1, <2>2, <2>3, <3>1 DEF ParseReadResp
      <3> QED BY <2>2, <2>3, <3>2 DEF Sound, LineType
    <2>4. CASE m.st # "I"
      <3>1. PICK s \in BOOLEAN : s <=> m.st \in {"SC", "SD"}
        OBVIOUS
      <3>2. ParseReadResp(line[r], u, m) =
               [n EXCEPT !.tag = u.line, !.shared = s, !.dirty = m.pd, !.be = Words]
        BY <2>1, <2>2, <2>4, <3>1 DEF ParseReadResp
      <3>3. u.line \in Lines /\ m.pd \in BOOLEAN
        BY <1>3, <1>5 DEF NodeOk, IsCompData
      <3> QED BY <3>2, <3>3 DEF Sound, LineType
    <2> QED BY <2>3, <2>4
  <1>9. /\ line'[r] = line[r] \/ (r \in Caches /\ line'[r] = ParseReadResp(line[r], u, m))
        /\ \A q \in Requesters \ {r} : line'[q] = line[q]
    BY <1>3, <1>5
  <1>10. NodeOk(r)'
    BY <1>1, <1>3, <1>4, <1>7, <1>8, <1>9 DEF NodeOk
  <1>11. UpOk(r)'
    <2>1. SentOk(CompAck)
      BY PlainOk, Answers
    <2> QED BY <1>6, <2>1, OneIs DEF TypeInv, UpInv, UpOk
  <1> QED BY <1>1, <1>2, <1>3, <1>6, <1>7, <1>9, <1>10, <1>11, PortTypes DEF hnVars, snVars, TypeInv

LEMMA RxDatTypes ==
    ASSUME FlitsKeepData, IInv, CohInv, TypeInv, NEW r \in Requesters, down[r].dat # <<>>,
           RxDat(r, Arrived(Head(down[r].dat))), UNCHANGED <<hnVars, snVars, latest>>
    PROVE  TypeInv'
  <1>1. IsCompData(down[r].dat[1])
    BY DEF TypeInv, DownInv
  <1>2. One(down[r].dat) /\ IsMsg(down[r].dat[1]) /\ (txn[r].ack => up[r].rsp = <<>>)
    <2>1. CASE Replied(r)
      <3>1. txn[r].op \in ReqOps \ (Reading \cup Upgrading \cup UniqueWrites) /\ txn[r].op # "none"
        BY <2>1 DEF ReqOps, Reading, Upgrading, UniqueWrites, Swapping, ReadOnces, Fills, Replied
      <3>2. ~txn[r].ack
        BY <3>1 DEF IInv, TxnInv, Acked
      <3> QED BY <2>1, <3>2 DEF Replied
    <2>2. CASE r = src /\ Gives /\ GivesData
      BY <2>2 DEF GivesData, Silent
    <2> QED BY <2>1, <2>2, DownDatIs DEF IInv
  <1>3. Head(down[r].dat) = down[r].dat[1]
    BY <1>2, OneIs DEF One
  <1>4. IsCompData(Arrived(Head(down[r].dat)))
    BY <1>1, <1>2, <1>3, ArrivedData DEF IsCompData
  <1> QED BY <1>2, <1>4, DataTypes

LEMMA SnoopTypes ==
    ASSUME IInv, CohInv, TypeInv, NEW r \in Requesters, r # src, Snoops,
           down[r].snp = <<SnoopMsg>>, Silent(r), RxSnp(r), UNCHANGED <<hnVars, snVars, latest>>
    PROVE  TypeInv'
  <1>1. UNCHANGED <<txn, snData, fromSN>> /\ down' = Drop(down, r, "snp")
    BY DEF RxSnp
  <1>2. Head(down[r].snp) = SnoopMsg
    BY OneIs
  <1>3. \A q \in Requesters : down'[q].dat = down[q].dat
    BY <1>1, DropIs
  <1>4. /\ cur.op \in Snooping /\ SnoopMsg.t \in {SnoopOf(cur.op), FwdOf(SnoopOf(cur.op))}
    BY DEF Snoops, SnoopMsg, GetOpcode
  <1>5. SnoopMsg.t # "SnpDVMOp"
    <2>1. "SnpDVMOp" \notin PlainSnoops \cup FwdSnoops
      BY DEF PlainSnoops, FwdSnoops
    <2>2. GetOpcode(cur.op, cur.fwd) \in {GetOpcode(cur.op, TRUE), GetOpcode(cur.op, FALSE)}
      BY DEF GetOpcode
    <2>3. SnoopMsg.t = GetOpcode(cur.op, cur.fwd)
      BY DEF SnoopMsg
    <2> QED BY <1>4, <2>1, <2>2, <2>3, SnoopIs
  <1>6. HandleSnp(r, SnoopMsg)
    BY <1>2, <1>5 DEF RxSnp
  <1>7. PICK a : /\ a = IF InCache(r, SnoopMsg.line, FALSE)
                        THEN SnpReply(SnoopMsg.t, line[r], GetStatus(line[r]))
                        ELSE SnpResp(line[r], "I")
                 /\ up' = Put(up, r, IF a.t \in OnRsp THEN "rsp" ELSE "dat",
                              [t |-> a.t, st |-> a.st, pd |-> a.pd, to |-> SnoopMsg.to,
                               fst |-> a.fst, fpd |-> a.fpd, pull |-> a.pull])
                 /\ line' = [line EXCEPT ![r] = a.line]
                 /\ LET takesID == a.pull /\ SnoopMsg.t # "SnpStashShared" IN
                    /\ takesID => pulls[r] < NumIDs
                    /\ pulls' = [pulls EXCEPT ![r] = @ + (IF takesID THEN 1 ELSE 0)]
    BY <1>6 DEF HandleSnp
  <1>8. a.t \in OnRsp \cup OnDat
    <2>1. SnpResp(line[r], "I").t = "SnpResp"
      BY DEF SnpResp, Reply
    <2> QED BY <1>7, <2>1, SnpReplyIs DEF OnRsp
  <1>9. NodeOk(r) /\ DOMAIN pulls = Requesters /\ DOMAIN line = Requesters
    BY DEF TypeInv, NodesInv, CohInv, LineShape
  <1>10. Sound(a.line) /\ a.line.be = line[r].be /\ a.fpd \in BOOLEAN /\ (r \notin Caches => ~a.line.valid)
    <2>1. CASE InCache(r, SnoopMsg.line, FALSE)
      <3>1. line[r].valid /\ Sound(line[r]) /\ r \in Caches
        BY <1>9, <2>1 DEF InCache, NodeOk
      <3> QED BY <1>7, <2>1, <3>1, SnoopSound
    <2>2. CASE ~InCache(r, SnoopMsg.line, FALSE)
      <3>1. a.line = line[r] /\ a.fpd = FALSE
        BY <1>7, <2>2 DEF SnpResp, Reply
      <3> QED BY <1>9, <3>1 DEF NodeOk
    <2> QED BY <2>1, <2>2
  <1>11. PICK x : /\ up' = Put(up, r, IF a.t \in OnRsp THEN "rsp" ELSE "dat", x)
                  /\ SentOk(x)
    <2> DEFINE x == [t |-> a.t, st |-> a.st, pd |-> a.pd, to |-> SnoopMsg.to,
                     fst |-> a.fst, fpd |-> a.fpd, pull |-> a.pull]
    <2>1. x.t = a.t /\ x.fpd = a.fpd
      OBVIOUS
    <2>2. up' = Put(up, r, IF a.t \in OnRsp THEN "rsp" ELSE "dat", x)
      BY <1>7
    <2> HIDE DEF x
    <2>3. SentOk(x)
      BY <1>8, <1>10, <2>1 DEF SentOk, OnRsp, OnDat
    <2> QED BY <2>2, <2>3
  <1>12. /\ \A q \in Requesters \ {r} : up'[q] = up[q]
         /\ up'[r].rsp \in {<<>>, <<x>>} /\ up'[r].dat \in {<<>>, <<x>>}
    <2>1. Append(up[r].rsp, x) = <<x>> /\ Append(up[r].dat, x) = <<x>>
      BY AppendIs DEF Silent
    <2>2. CASE a.t \in OnRsp
      BY <1>11, <2>1, <2>2 DEF IInv, Shape, Put, Silent
    <2>3. CASE a.t \notin OnRsp
      BY <1>11, <2>1, <2>3 DEF IInv, Shape, Put, Silent
    <2> QED BY <2>2, <2>3
  <1>13. /\ line'[r] = a.line /\ DOMAIN pulls' = Requesters
         /\ \A q \in Requesters \ {r} : line'[q] = line[q] /\ pulls'[q] = pulls[q]
    BY <1>7, <1>9
  <1>14. pulls'[r] \in 0 .. NumIDs
    <2>1. pulls'[r] = pulls[r] \/ (pulls'[r] = pulls[r] + 1 /\ pulls[r] < NumIDs)
      <3>1. CASE a.pull /\ SnoopMsg.t # "SnpStashShared"
        BY <1>7, <1>9, <3>1
      <3>2. CASE ~(a.pull /\ SnoopMsg.t # "SnpStashShared")
        <4>1. pulls' = [pulls EXCEPT ![r] = pulls[r] + 0]
          BY <1>7, <3>2
        <4>2. pulls[r] + 0 = pulls[r]
          BY <1>9 DEF NodeOk
        <4> QED BY <1>9, <4>1, <4>2
      <3> QED BY <3>1, <3>2
    <2>2. pulls[r] \in 0 .. NumIDs /\ NumIDs \in Nat
      BY <1>9, ChiAssumption DEF NodeOk
    <2> QED BY <2>1, <2>2
  <1>15. NodeOk(r)'
    BY <1>1, <1>9, <1>10, <1>13, <1>14 DEF NodeOk
  <1>16. UpOk(r)'
    BY <1>11, <1>12, OneIs DEF UpOk
  <1> QED BY <1>1, <1>3, <1>12, <1>13, <1>15, <1>16, PortTypes DEF hnVars, snVars, TypeInv

LEMMA DVMSnoopTypes ==
    ASSUME IInv, TypeInv, NEW r \in Requesters, SnoopsDVM, down[r].snp # <<>>, Silent(r),
           Head(down[r].snp) = DVMSnp, RxSnp(r), UNCHANGED <<hnVars, snVars, latest>>
    PROVE  TypeInv'
  <1>1. UNCHANGED <<txn, snData, fromSN>> /\ down' = Drop(down, r, "snp")
    BY DEF RxSnp
  <1>2. \A q \in Requesters : down'[q].dat = down[q].dat
    BY <1>1, DropIs
  <1>3. HandleSnpDVMOp(r)
    BY DEF RxSnp, DVMSnp
  <1>4. /\ line' = line /\ pulls' = pulls
        /\ up' = IF dvm[r] THEN Put(up, r, "rsp", SnpRespI) ELSE up
    BY <1>3 DEF HandleSnpDVMOp, SnpRespI
  <1>5. /\ \A q \in Requesters \ {r} : up'[q] = up[q]
        /\ up'[r].dat = <<>> /\ up'[r].rsp \in {<<>>, <<SnpRespI>>}
    BY <1>4, AppendIs DEF IInv, Shape, Put, Silent
  <1>6. NodeOk(r)' /\ DOMAIN pulls' = Requesters
    BY <1>1, <1>4 DEF TypeInv, NodesInv, NodeOk
  <1>7. UpOk(r)'
    <2>1. SentOk(SnpRespI)
      BY PlainOk, Answers
    <2> QED BY <1>5, <2>1, OneIs DEF UpOk
  <1> QED BY <1>1, <1>2, <1>4, <1>5, <1>6, <1>7, PortTypes DEF hnVars, snVars, TypeInv

LEMMA RxSnpTypes ==
    ASSUME IInv, CohInv, TypeInv, NEW r \in Requesters, RxSnp(r),
           UNCHANGED <<hnVars, snVars, latest>>
    PROVE  TypeInv'
  <1>1. down[r].snp # <<>>
    BY DEF RxSnp
  <1>2. /\ down[r].snp = <<DVMSnp, DVMSnp>> => Head(down[r].snp) = DVMSnp
        /\ down[r].snp = <<DVMSnp>> => Head(down[r].snp) = DVMSnp
    BY OneIs, TwoIs
  <1> QED BY <1>1, <1>2, DownSnpIs, SnoopTypes, DVMSnoopTypes DEF IInv

LEMMA ReceiveTypes ==
    ASSUME FlitsKeepData, IInv, CohInv, TypeInv, NEW r \in Requesters, Receive(r)
    PROVE  TypeInv'
  BY RxRspTypes, RxDatTypes, RxSnpTypes DEF Receive

(***************************************************************************)
(* A requester sends a message, and the home node takes it.                *)
(***************************************************************************)
LEMMA SendTypes ==
    ASSUME TypeInv, NEW r \in Requesters,
           UNCHANGED <<line, pulls, memory, writes, snData, fromSN>>,
           txn'[r].op \in {txn[r].op, "none"}, txn'[r].line \in Lines, IsData(txn'[r]),
           UpOk(r)', HomeInv', DownInv', latest' \in [Lines -> Data],
           \A q \in Requesters \ {r} :
              /\ txn'[q] = txn[q] /\ up'[q].rsp = up[q].rsp /\ up'[q].dat = up[q].dat
    PROVE  TypeInv'
  <1>1. NodesInv'
    <2>1. ASSUME NEW q \in Requesters, q # r PROVE NodeOk(q)'
      BY <2>1 DEF TypeInv, NodesInv, NodeOk
    <2>2. NodeOk(r)'
      BY DEF TypeInv, NodesInv, NodeOk
    <2> QED BY <2>1, <2>2 DEF TypeInv, NodesInv
  <1>2. UpInv'
    BY DEF TypeInv, UpInv, UpOk
  <1>3. SlaveTypes'
    BY DEF TypeInv, SlaveTypes
  <1> QED BY <1>1, <1>2, <1>3 DEF TypeInv

LEMMA SendReqTypes ==
    ASSUME IInv, TypeInv, NEW r \in Requesters, SendReq(r)
    PROVE  TypeInv'
  <1>1. PICK m : TransmitReq(r, m) /\ RxReq(r, m)
    BY DEF SendReq
  <1>2. UNCHANGED <<line, txn, pulls, cur, filter, memory, writes, snData, fromSN, latest>>
    BY <1>1 DEF SendReq, TransmitReq, rnVars, snVars, RxReq
  <1>3. up' = Drop(up, r, "req")
    BY <1>1 DEF TransmitReq
  <1>4. \A q \in Requesters : up'[q].rsp = up[q].rsp /\ up'[q].dat = up[q].dat
    BY <1>3 DEF Drop, IInv, Shape
  <1>5. \A q \in Requesters : down'[q].dat = down[q].dat
    <2>1. down' = down \/ down' = ReplyRetry(r)
      BY <1>1 DEF RxReq
    <2>2. PICK d : d = Put(down, r, "rsp", Rsp("RetryAck", "I", FALSE))
      OBVIOUS
    <2>3. /\ DOMAIN d = Requesters /\ DOMAIN d[r] = {"rsp", "dat", "snp"} /\ d[r].dat = down[r].dat
          /\ \A q \in Requesters \ {r} : d[q] = down[q]
      BY <2>2 DEF Put, IInv, Shape
    <2>4. ASSUME down' = Put(d, r, "rsp", Rsp("PCrdGrant", "I", FALSE))
          PROVE  \A q \in Requesters : down'[q].dat = down[q].dat
      BY <2>3, <2>4 DEF Put
    <2> QED BY <2>1, <2>2, <2>4 DEF ReplyRetry
  <1>6. NodesInv' /\ SlaveTypes' /\ HomeInv'
    BY <1>2 DEF TypeInv, NodesInv, NodeOk, SlaveTypes, HomeInv
  <1>7. UpInv' /\ DownInv'
    BY <1>4, <1>5 DEF TypeInv, UpInv, UpOk, DownInv
  <1> QED BY <1>2, <1>6, <1>7 DEF TypeInv

\* The request in the home node, and what it leaves.
LEMMA NoReqOk == ReqOk(NoReq)
  BY ZeroIs, NoOpIs DEF ReqOk, NoReq, NoSN, IsData, Status

LEMMA ReqStays ==
    ASSUME NEW q, ReqOk(q), NEW p,
           p.line = q.line, p.snReq.line = q.snReq.line, p.data = q.data, p.be = q.be,
           p.dirty = q.dirty, p.snpPD = q.snpPD, p.snpResp = q.snpResp
    PROVE  ReqOk(p)
  BY DEF ReqOk, IsData

LEMMA CopyOk ==
    ASSUME NEW q, IsReq(q), ReqOk(q), NEW m, IsData(m)
    PROVE  ReqOk(CopyData(q, m))
  <1>1. PICK d \in Data : d = Merge(ZeroData, m.data, m.be)
    BY ZeroIs, MergeIs DEF IsData
  <1>2. PICK b \in SUBSET Words : b = m.be
    BY DEF IsData
  <1>3. CopyData(q, m) = [q EXCEPT !.data = d, !.be = b]
    BY <1>1, <1>2 DEF CopyData
  <1> QED BY <1>3 DEF ReqOk, IsData, IsReq, ReqFields

LEMMA FilterReqOk ==
    ASSUME NEW q, q.src \in Requesters, q.line \in Lines, NEW f, FiltersOk(f)
    PROVE  FiltersOk(FilterAfterReq(q, f))
  BY DEF FiltersOk, FilterAfterReq

LEMMA FilterSnpOk ==
    ASSUME FiltersOk(filter), NEW r \in Requesters, NEW m
    PROVE  FiltersOk(FilterAfterSnp(r, m))
  BY DEF FiltersOk, FilterAfterSnp

\* A request that the home node goes on with.
Goes(q, f) == /\ IsReq(q) /\ ReqOk(q) /\ FiltersOk(f)
              /\ q.src \in Requesters /\ down[q.src].dat = <<>>

LEMMA ToSNTypes ==
    ASSUME DownInv, NEW q, NEW f, Goes(q, f), NEW op, ToSN(q, f, op)
    PROVE  HomeInv' /\ DownInv'
  <1>1. PICK n : n = SNRequest(q, op)
    OBVIOUS
  <1>2. n.line = q.line
    BY <1>1 DEF SNRequest
  <1>3. cur' = [q EXCEPT !.snReq = n] /\ filter' = f /\ down' = down
    BY <1>1 DEF ToSN
  <1>4. ReqOk(cur')
    BY <1>2, <1>3 DEF Goes, ReqOk, IsData, IsReq, ReqFields
  <1>5. DownInv'
    BY <1>3 DEF DownInv
  <1> QED BY <1>3, <1>4, <1>5 DEF Goes, HomeInv

LEMMA ToRNTypes ==
    ASSUME IInv, DownInv, NEW q, q.src \in Requesters, NEW m, ToRN(q, m), down[q.src].dat = <<>>,
           m.t = "CompData" => IsCompData(m)
    PROVE  DownInv'
  <1>1. \A s \in Requesters \ {q.src} : down'[s] = down[s]
    BY DEF ToRN, Put, IInv, Shape
  <1> QED BY <1>1, ToRNIs DEF DownInv

LEMMA ProcessReqTypes ==
    ASSUME IInv, DownInv, NEW q, NEW f, Goes(q, f), ProcessReq(q, f)
    PROVE  HomeInv' /\ DownInv'
  <1>1. /\ IsReq(q) /\ ReqOk(q) /\ FiltersOk(f) /\ q.src \in Requesters /\ q.line \in Lines
        /\ down[q.src].dat = <<>>
    BY DEF Goes, ReqOk
  <1>2. CASE IsRead(q.op) /\ \E p : /\ ToSN(p, f, "ReadNoSnp")
                                    /\ p = [q EXCEPT !.waitReceipt = AllowsDMT(q) /\ ~q.ack,
                                                     !.waitAck = @ \/ (AllowsDMT(q) /\ q.ack)]
    <2>1. PICK p : /\ ToSN(p, f, "ReadNoSnp")
                   /\ p = [q EXCEPT !.waitReceipt = AllowsDMT(q) /\ ~q.ack,
                                    !.waitAck = @ \/ (AllowsDMT(q) /\ q.ack)]
      BY <1>2
    <2>2. /\ IsReq(p) /\ p.src = q.src /\ p.line = q.line /\ p.snReq = q.snReq
          /\ p.data = q.data /\ p.be = q.be /\ p.dirty = q.dirty /\ p.snpPD = q.snpPD
          /\ p.snpResp = q.snpResp
      BY <1>1, <2>1 DEF IsReq, ReqFields
    <2>3. ReqOk(p)
      BY <1>1, <2>2, ReqStays
    <2>4. Goes(p, f)
      BY <1>1, <2>2, <2>3 DEF Goes
    <2> QED BY <2>1, <2>4, ToSNTypes
  <1>3. ASSUME NEW m, ToRN(q, m), m.t # "CompData", NEW b,
               cur' \in {q, [q EXCEPT !.waitAck = b], NoReq}, FiltersOk(filter')
        PROVE  HomeInv' /\ DownInv'
    <2>1. DownInv'
      BY <1>1, <1>3, ToRNTypes
    <2>2. ReqOk([q EXCEPT !.waitAck = b])
      BY <1>1 DEF IsReq, ReqFields, ReqOk, IsData
    <2>3. ReqOk(cur')
      BY <1>1, <1>3, <2>2, NoReqOk
    <2> QED BY <1>3, <2>1, <2>3 DEF HomeInv
  <1>4. CASE /\ ToRN(q, Rsp("CompDBIDResp", "I", FALSE))
             /\ cur' = [q EXCEPT !.waitAck = @ \/ (IsWriteUnique(q.op) /\ q.ack)]
             /\ filter' = f
    <2>1. PICK b : b = (q.waitAck \/ (IsWriteUnique(q.op) /\ q.ack))
      OBVIOUS
    <2>2. cur' = [q EXCEPT !.waitAck = b] /\ ToRN(q, CompDBIDResp) /\ filter' = f
      BY <1>4, <2>1 DEF CompDBIDResp
    <2> QED BY <1>1, <1>3, <2>2, Answers
  <1>5. CASE /\ IsDataLess(q.op)
             /\ ToRN(q, Rsp("Comp", IF q.op \in {"CleanUnique", "MakeUnique"} THEN "UC" ELSE "I", FALSE))
             /\ cur' = IF q.ack THEN [q EXCEPT !.waitAck = TRUE] ELSE NoReq
             /\ filter' = IF q.ack THEN f ELSE FilterAfterReq(q, f)
    <2>1. PICK m : m = Rsp("Comp", IF q.op \in {"CleanUnique", "MakeUnique"} THEN "UC" ELSE "I", FALSE)
      OBVIOUS
    <2>2. m.t # "CompData" /\ ToRN(q, m)
      BY <1>5, <2>1 DEF Rsp, Msg
    <2>3. FiltersOk(filter')
      BY <1>1, <1>5, FilterReqOk
    <2>4. cur' \in {q, [q EXCEPT !.waitAck = TRUE], NoReq}
      BY <1>5
    <2> QED BY <1>3, <2>2, <2>3, <2>4
  <1>6. CASE /\ ToRN(q, Rsp("DBIDResp", "I", FALSE))
             /\ cur' = q
             /\ filter' = f
    BY <1>1, <1>3, <1>6, Answers DEF DBIDResp
  <1> QED BY <1>2, <1>4, <1>5, <1>6 DEF ProcessReq

LEMMA ProcessSnpdReqTypes ==
    ASSUME IInv, DownInv, NEW q, NEW f, Goes(q, f), ProcessSnpdReq(q, f),
           q.op = "DVMOp" => ~q.gotSnpData
    PROVE  HomeInv' /\ DownInv'
  <1>0. q.op = "DVMOp" => ~MustWriteBack(q)
    BY DEF MustWriteBack
  <1>1. /\ IsReq(q) /\ ReqOk(q) /\ FiltersOk(f) /\ q.src \in Requesters
        /\ down[q.src].dat = <<>>
    BY DEF Goes
  <1>2. CASE MustWriteBack(q)
    <2>1. PICK p : p = [q EXCEPT !.snpPD = FALSE]
      OBVIOUS
    <2>2. ToSN(p, f, "WriteNoSnpPtl")
      BY <1>0, <1>2, <2>1 DEF ProcessSnpdReq
    <2>3. IsReq(p) /\ p.src = q.src /\ ReqOk(p)
      BY <1>1, <2>1 DEF IsReq, ReqFields, ReqOk, IsData
    <2>4. Goes(p, f)
      BY <1>1, <2>3 DEF Goes
    <2> QED BY <2>2, <2>4, ToSNTypes
  <1>3. CASE ~MustWriteBack(q) /\ CanAnswer(q) /\ ToRN(q, SnpCompData(q)) /\ filter' = f
             /\ cur' = IF q.ack THEN [q EXCEPT !.waitAck = TRUE] ELSE NoReq
    <2>1. PICK m : m = SnpCompData(q)
      OBVIOUS
    <2>2. IsCompData(m)
      <3>1. m.pd = q.snpPD /\ m.data = q.data /\ m.be = q.be
        BY <2>1, MsgIs DEF SnpCompData
      <3> QED BY <1>1, <3>1 DEF IsCompData, ReqOk, IsData
    <2>3. DownInv'
      BY <1>1, <1>3, <2>1, <2>2, ToRNTypes
    <2>4. ReqOk([q EXCEPT !.waitAck = TRUE])
      BY <1>1 DEF IsReq, ReqFields, ReqOk, IsData
    <2>5. ReqOk(cur')
      BY <1>3, <2>4, NoReqOk
    <2> QED BY <1>1, <1>3, <2>3, <2>5 DEF HomeInv
  <1>4. CASE ToRN(q, Rsp("Comp", "I", FALSE)) /\ cur' = NoReq /\ filter' = f
    <2>1. CompI.t # "CompData" /\ ToRN(q, CompI)
      BY <1>4, Answers DEF CompI
    <2>2. DownInv'
      BY <1>1, <2>1, ToRNTypes
    <2> QED BY <1>1, <1>4, <2>2, NoReqOk DEF HomeInv
  <1>5. CASE ProcessReq([q EXCEPT !.gotSnpData = FALSE, !.toSNDone = FALSE], f)
    <2>1. PICK p : p = [q EXCEPT !.gotSnpData = FALSE, !.toSNDone = FALSE]
      OBVIOUS
    <2>2. IsReq(p) /\ p.src = q.src /\ ReqOk(p)
      BY <1>1, <2>1 DEF IsReq, ReqFields, ReqOk, IsData
    <2>3. Goes(p, f)
      BY <1>1, <2>2 DEF Goes
    <2> QED BY <1>5, <2>1, <2>3, ProcessReqTypes
  <1> QED BY <1>2, <1>3, <1>4, <1>5 DEF ProcessSnpdReq

(***************************************************************************)
(* Answers of the requesters.                                              *)
(***************************************************************************)
LEMMA AckTypes ==
    ASSUME IInv, TypeInv, NEW r \in Requesters, r = src, up[r].rsp = <<CompAck>>, SendRsp(r)
    PROVE  TypeInv'
  <1>1. PICK m : /\ m = Head(up[r].rsp) /\ TransmitRsp(r, m) /\ HnRxRsp(r, m)
    BY DEF SendRsp
  <1>2. m = CompAck
    BY <1>1, OneIs
  <1>3. /\ up' = Drop(up, r, "rsp") /\ txn' = [txn EXCEPT ![r] = Done(@)]
        /\ UNCHANGED <<line, pulls, memory, writes, latest>>
    BY <1>1, <1>2, Answers DEF TransmitRsp, SendRsp, snVars
  <1>4. RxCompAck(r)
    BY <1>1, <1>2, Answers DEF HnRxRsp
  <1>5. UNCHANGED <<down, snData, fromSN>>
    BY <1>4 DEF RxCompAck
  <1>6. /\ txn'[r] = Done(txn[r]) /\ \A q \in Requesters \ {r} : txn'[q] = txn[q] /\ up'[q] = up[q]
        /\ up'[r].dat = up[r].dat /\ up'[r].rsp = <<>>
    <2>1. Tail(up[r].rsp) = <<>>
      BY OneIs
    <2>2. PICK u : u = Done(txn[r])
      OBVIOUS
    <2>3. txn' = [txn EXCEPT ![r] = u]
      BY <1>3, <2>2
    <2>4. txn'[r] = u /\ \A q \in Requesters \ {r} : txn'[q] = txn[q]
      BY <2>3 DEF IInv, Shape
    <2>5. (\A q \in Requesters \ {r} : up'[q] = up[q]) /\ up'[r].dat = up[r].dat /\ up'[r].rsp = <<>>
      BY <1>3, <2>1 DEF IInv, Shape, Drop
    <2> QED BY <2>2, <2>4, <2>5
  <1>7. IsReq(cur) /\ ReqOk(cur) /\ FiltersOk(filter) /\ cur.src \in Requesters
    BY DEF IInv, Shape, TypeInv, HomeInv, src
  <1>8. ReqOk([cur EXCEPT !.ackRcvd = TRUE])
    BY <1>7 DEF IsReq, ReqFields, ReqOk, IsData
  <1>9. /\ cur' \in {NoReq, [cur EXCEPT !.ackRcvd = TRUE]}
        /\ filter' \in {filter, FilterAfterReq(cur, filter)}
    BY <1>4 DEF RxCompAck
  <1>10. HomeInv'
    <2>1. ReqOk(cur')
      BY <1>8, <1>9, NoReqOk
    <2>2. FiltersOk(filter')
      BY <1>7, <1>9, FilterReqOk DEF ReqOk
    <2> QED BY <2>1, <2>2 DEF HomeInv
  <1>11. UpOk(r)'
    BY <1>6 DEF TypeInv, UpInv, UpOk
  <1>12. DownInv'
    BY <1>5 DEF TypeInv, DownInv
  <1> QED BY <1>3, <1>5, <1>6, <1>10, <1>11, <1>12, DoneData, SendTypes DEF TypeInv

\* The home node has taken the answer to a snoop.
LEMMA TrackedTypes ==
    ASSUME IInv, HomeInv, NEW r, NEW m, m.t \in OnDat => IsData(m)
    PROVE  ReqOk(Tracked(r, m)) /\ ReqOk(ParseSnpResponses(Tracked(r, m)))
  <1>1. IsReq(cur) /\ ReqOk(cur)
    BY DEF IInv, Shape, HomeInv
  <1>2. PICK q : q = IF m.t \in {"SnpRespData", "SnpRespDataPtl", "SnpRespDataFwded"}
                     THEN [CopyData(cur, m) EXCEPT !.hasData = TRUE,
                                                   !.ptl = @ \/ m.t = "SnpRespDataPtl"]
                     ELSE cur
    OBVIOUS
  <1>3. IsReq(q) /\ ReqOk(q)
    <2>1. CASE m.t \in {"SnpRespData", "SnpRespDataPtl", "SnpRespDataFwded"}
      <3>1. PICK c : c = CopyData(cur, m)
        OBVIOUS
      <3>2. IsReq(c) /\ ReqOk(c)
        BY <1>1, <2>1, <3>1, CopyOk, CopiedIs DEF OnDat
      <3>3. PICK b : b = (c.ptl \/ m.t = "SnpRespDataPtl")
        OBVIOUS
      <3>4. q = [c EXCEPT !.hasData = TRUE, !.ptl = b]
        BY <1>2, <2>1, <3>1, <3>3
      <3> QED BY <3>2, <3>4 DEF IsReq, ReqFields, ReqOk, IsData
    <2>2. CASE m.t \notin {"SnpRespData", "SnpRespDataPtl", "SnpRespDataFwded"}
      BY <1>1, <1>2, <2>2
    <2> QED BY <2>1, <2>2
  <1>4. PICK p : p = Tracked(r, m)
    OBVIOUS
  <1>5. PICK w, s, d, f : /\ d \in BOOLEAN
                          /\ p = [q EXCEPT !.waiting = w, !.shared = s, !.dirty = d, !.fwded = f]
    <2>1. PICK d \in BOOLEAN : d = (q.dirty \/ m.pd)
      OBVIOUS
    <2>2. p = [q EXCEPT !.waiting = q.waiting \ {r}, !.shared = q.shared \/ m.st # "I", !.dirty = d,
                        !.fwded = q.fwd /\ m.t \in {"SnpRespFwded", "SnpRespDataFwded"}]
      BY <1>2, <1>4, <2>1 DEF Tracked
    <2> QED BY <2>1, <2>2
  <1>6. IsReq(p) /\ ReqOk(p)
    BY <1>3, <1>5 DEF IsReq, ReqFields, ReqOk, IsData
  <1>7. ReqOk(ParseSnpResponses(p))
    BY <1>6 DEF ParseSnpResponses, IsReq, ReqFields, ReqOk, IsData, Status
  <1> QED BY <1>4, <1>6, <1>7

LEMMA AnsweredTypes ==
    ASSUME IInv, CohInv, TypeInv, NEW r \in Requesters, r \in cur.waiting, NEW m,
           m.t \in OnDat => IsData(m), RxSnpResp(r, m),
           cur.src \in Requesters, down[cur.src].dat = <<>>,
           cur.op = "DVMOp" => ~cur.hasData /\ m.t \notin OnDat
    PROVE  HomeInv' /\ DownInv'
  <1>1. PICK q : q = Tracked(r, m)
    OBVIOUS
  <1>2. PICK f : f = FilterAfterSnp(r, m)
    OBVIOUS
  <1>3. /\ IsReq(q) /\ q.src = cur.src /\ q.op = cur.op /\ (m.t \notin OnDat => q.hasData = cur.hasData)
    BY <1>1, TrackedIs DEF IInv, Shape
  <1>4. PICK p : p = ParseSnpResponses(q)
    OBVIOUS
  <1>5. ReqOk(q) /\ ReqOk(p) /\ FiltersOk(f) /\ DownInv
    BY <1>1, <1>2, <1>4, TrackedTypes, FilterSnpOk DEF TypeInv, HomeInv
  <1>6. IsReq(p) /\ p.src = q.src /\ p.op = q.op /\ p.gotSnpData = q.hasData
    BY <1>3, <1>4, ParsedIs
  <1>7. IF q.waiting = {} /\ ~q.fwded
        THEN ProcessSnpdReq(p, f)
        ELSE /\ cur' = IF q.waiting = {} /\ q.ackRcvd THEN NoReq ELSE q
             /\ filter' = f /\ down' = down
    BY <1>1, <1>2, <1>4 DEF RxSnpResp
  <1>8. CASE q.waiting = {} /\ ~q.fwded
    <2>1. Goes(p, f)
      BY <1>3, <1>5, <1>6 DEF Goes
    <2>2. p.op = "DVMOp" => ~p.gotSnpData
      BY <1>3, <1>6
    <2> QED BY <1>5, <1>7, <1>8, <2>1, <2>2, ProcessSnpdReqTypes
  <1>9. CASE ~(q.waiting = {} /\ ~q.fwded)
    <2>1. cur' \in {NoReq, q} /\ filter' = f /\ down' = down
      BY <1>7, <1>9
    <2> QED BY <1>5, <2>1, NoReqOk DEF HomeInv, DownInv
  <1> QED BY <1>8, <1>9

LEMMA SnoopRspTypes ==
    ASSUME IInv, CohInv, TypeInv, NEW r \in Requesters, Snoops, r \in cur.waiting,
           AnswersOnRsp(r), SendRsp(r)
    PROVE  TypeInv'
  <1>1. PICK m : m = Head(up[r].rsp)
    OBVIOUS
  <1>2. TransmitRsp(r, m) /\ HnRxRsp(r, m) /\ UNCHANGED <<memory, writes, latest>>
    BY <1>1 DEF SendRsp, snVars
  <1>3. /\ m = up[r].rsp[1] /\ up[r].rsp # <<>> /\ Tail(up[r].rsp) = <<>> /\ up[r].dat = <<>>
        /\ m.t \in {"SnpResp", "SnpRespFwded"}
    <2>1. up[r].rsp = <<up[r].rsp[1]>> /\ up[r].rsp # <<>>
      BY DEF AnswersOnRsp, One
    <2>2. Head(up[r].rsp) = up[r].rsp[1] /\ Tail(up[r].rsp) = <<>>
      BY <2>1, OneIs
    <2> QED BY <1>1, <2>1, <2>2 DEF AnswersOnRsp
  <1>4. PICK f : f = Forwarded(r, m)
    OBVIOUS
  <1>5. f.t = "CompData" /\ f.data = line[r].data /\ f.be = Words /\ f.pd = m.fpd
    BY <1>4, MsgIs DEF Forwarded
  <1>6. /\ up' = IF m.t = "SnpRespFwded"
                 THEN Put(Drop(up, r, "rsp"), r, "dat", f) ELSE Drop(up, r, "rsp")
        /\ UNCHANGED <<txn, line, pulls>>
    BY <1>2, <1>3, <1>4 DEF TransmitRsp
  <1>7. RxSnpResp(r, m)
    BY <1>2, <1>3 DEF HnRxRsp
  <1>8. /\ \A q \in Requesters \ {r} : up'[q] = up[q]
        /\ up'[r].rsp = <<>>
        /\ m.t = "SnpRespFwded" => up'[r].dat = <<f>>
        /\ m.t # "SnpRespFwded" => up'[r].dat = <<>>
    <2>1. CASE m.t = "SnpRespFwded"
      <3>1. Append(<<>>, f) = <<f>>
        BY AppendIs
      <3> QED BY <1>3, <1>6, <2>1, <3>1 DEF IInv, Shape, Put, Drop
    <2>2. CASE m.t # "SnpRespFwded"
      BY <1>3, <1>6, <2>2 DEF IInv, Shape, Drop
    <2> QED BY <2>1, <2>2
  <1>9. UpOk(r)'
    <2>1. m.t = "SnpRespFwded" => SentOk(f)
      <3>1. SentOk(m) /\ Sound(line[r])
        BY <1>3 DEF TypeInv, UpInv, UpOk, NodesInv, NodeOk
      <3> QED BY <1>5, <3>1 DEF SentOk, IsCompData, IsData, Sound, LineType
    <2> QED BY <1>8, <2>1, OneIs DEF UpOk
  <1>10. HomeInv' /\ DownInv'
    <2>1. cur.src \in Requesters /\ down[cur.src].dat = <<>> /\ cur.op # "DVMOp"
      BY DEF Snoops, Served, Serves, Unanswered, NoAnswer, src, Snooping, ReadOnces, Fills,
             Upgrading, Informing, UniqueWrites, Swapping
    <2>2. m.t \notin OnDat
      BY <1>3 DEF OnDat
    <2> QED BY <1>7, <2>1, <2>2, AnsweredTypes
  <1>11. UNCHANGED <<snData, fromSN>>
    BY <1>7 DEF RxSnpResp
  <1>12. txn[r].line \in Lines /\ IsData(txn[r])
    BY DEF TypeInv, NodesInv, NodeOk
  <1> QED BY <1>2, <1>6, <1>8, <1>9, <1>10, <1>11, <1>12, SendTypes DEF TypeInv

LEMMA DVMRspTypes ==
    ASSUME IInv, CohInv, TypeInv, NEW r \in Requesters, SnoopsDVM, r \in cur.waiting,
           up[r].rsp = <<SnpRespI>>, up[r].dat = <<>>, SendRsp(r)
    PROVE  TypeInv'
  <1>1. PICK m : m = Head(up[r].rsp)
    OBVIOUS
  <1>2. TransmitRsp(r, m) /\ HnRxRsp(r, m) /\ UNCHANGED <<memory, writes, latest>>
    BY <1>1 DEF SendRsp, snVars
  <1>3. m = SnpRespI /\ m.t = "SnpResp" /\ Tail(up[r].rsp) = <<>>
    BY <1>1, OneIs, Answers
  <1>4. up' = Drop(up, r, "rsp") /\ UNCHANGED <<txn, line, pulls>>
    BY <1>2, <1>3 DEF TransmitRsp
  <1>5. RxSnpResp(r, m)
    BY <1>2, <1>3 DEF HnRxRsp
  <1>6. /\ \A q \in Requesters \ {r} : up'[q] = up[q]
        /\ up'[r].rsp = <<>> /\ up'[r].dat = <<>>
    BY <1>3, <1>4 DEF IInv, Shape, Drop
  <1>7. HomeInv' /\ DownInv'
    <2>1. cur.src \in Requesters /\ down[cur.src].dat = <<>> /\ ~cur.hasData
      BY DEF SnoopsDVM, Served, Serves, NoAnswer, src
    <2>2. m.t \notin OnDat
      BY <1>3 DEF OnDat
    <2> QED BY <1>5, <2>1, <2>2, AnsweredTypes
  <1>8. UNCHANGED <<snData, fromSN>>
    BY <1>5 DEF RxSnpResp
  <1>9. txn[r].line \in Lines /\ IsData(txn[r])
    BY DEF TypeInv, NodesInv, NodeOk
  <1>10. UpOk(r)'
    BY <1>6 DEF UpOk
  <1> QED BY <1>2, <1>4, <1>6, <1>7, <1>8, <1>9, <1>10, SendTypes DEF TypeInv

LEMMA SendRspTypes ==
    ASSUME IInv, CohInv, TypeInv, NEW r \in Requesters, up[r].rsp # <<>>, SendRsp(r)
    PROVE  TypeInv'
  <1>1. Gives /\ Acknowledged /\ r = src => up[r].rsp = <<CompAck>>
    BY DEF Acknowledged
  <1> QED BY <1>1, UpRspIs, SnoopRspTypes, DVMRspTypes, AckTypes DEF IInv

(***************************************************************************)
(* Data of the requesters.                                                 *)
(***************************************************************************)
LEMMA SnoopDatTypes ==
    ASSUME FlitsKeepData, IInv, CohInv, TypeInv, NEW r \in Requesters, Snoops, r \in cur.waiting,
           AnswersOnDat(r), SendDat(r)
    PROVE  TypeInv'
  <1>1. PICK x : x = Head(up[r].dat)
    OBVIOUS
  <1>2. PICK m : m = Sent(r, x)
    OBVIOUS
  <1>3. PICK a : a = Arrived(m)
    OBVIOUS
  <1>4. /\ TransmitDat(r, m) /\ HnRxDat(r, a) /\ WriteEffect(m)
        /\ UNCHANGED <<memory, writes>>
    BY <1>1, <1>2, <1>3 DEF SendDat, snVars
  <1>5. /\ x = up[r].dat[1] /\ up[r].dat # <<>> /\ Tail(up[r].dat) = <<>> /\ up[r].rsp = <<>>
        /\ x.t \in OnDat
    <2>1. up[r].dat = <<up[r].dat[1]>> /\ up[r].dat # <<>>
      BY DEF AnswersOnDat, One
    <2>2. Head(up[r].dat) = up[r].dat[1] /\ Tail(up[r].dat) = <<>>
      BY <2>1, OneIs
    <2> QED BY <1>1, <2>1, <2>2 DEF AnswersOnDat, OnDat
  <1>6. m.t = x.t /\ IsMsg(m) /\ m.data = line[r].data /\ m.be = line[r].be
    BY <1>2, <1>5, MsgIs DEF Sent, OnDat
  <1>7. Sound(line[r]) /\ SentOk(x)
    BY <1>5 DEF TypeInv, NodesInv, NodeOk, UpInv, UpOk
  <1>8. a.t = x.t /\ IsData(a)
    BY <1>3, <1>6, <1>7, ArrivedData DEF IsData, Sound, LineType
  <1>9. PICK f : f = Forwarded(r, x)
    OBVIOUS
  <1>10. f.t = "CompData" /\ f.data = line[r].data /\ f.be = Words /\ f.pd = x.fpd
    BY <1>9, MsgIs DEF Forwarded
  <1>11. /\ up' = IF x.t = "SnpRespDataFwded"
                  THEN Put(Drop(up, r, "dat"), r, "dat", f) ELSE Drop(up, r, "dat")
         /\ UNCHANGED <<txn, line, pulls>>
    <2>1. x.t \notin {"CopyBackWrData", "NonCopyBackWrData"}
      BY <1>5 DEF OnDat
    <2> QED BY <1>1, <1>4, <1>6, <1>9, <2>1 DEF TransmitDat
  <1>12. RxSnpResp(r, a)
    BY <1>4, <1>5, <1>8 DEF HnRxDat, OnDat
  <1>13. /\ \A q \in Requesters \ {r} : up'[q] = up[q]
         /\ up'[r].rsp = <<>>
         /\ x.t = "SnpRespDataFwded" => up'[r].dat = <<f>>
         /\ x.t # "SnpRespDataFwded" => up'[r].dat = <<>>
    <2>1. CASE x.t = "SnpRespDataFwded"
      <3>1. Append(<<>>, f) = <<f>>
        BY AppendIs
      <3> QED BY <1>5, <1>11, <2>1, <3>1 DEF IInv, Shape, Put, Drop
    <2>2. CASE x.t # "SnpRespDataFwded"
      BY <1>5, <1>11, <2>2 DEF IInv, Shape, Drop
    <2> QED BY <2>1, <2>2
  <1>14. UpOk(r)'
    <2>1. x.t = "SnpRespDataFwded" => SentOk(f)
      BY <1>7, <1>10 DEF SentOk, IsCompData, IsData, Sound, LineType
    <2> QED BY <1>13, <2>1, OneIs DEF UpOk
  <1>15. HomeInv' /\ DownInv'
    <2>1. cur.src \in Requesters /\ down[cur.src].dat = <<>> /\ cur.op # "DVMOp"
      BY DEF Snoops, Served, Serves, Unanswered, NoAnswer, src, Snooping, ReadOnces, Fills,
             Upgrading, Informing, UniqueWrites, Swapping
    <2> QED BY <1>8, <1>12, <2>1, AnsweredTypes
  <1>16. latest' = latest
    BY <1>4, <1>5, <1>6 DEF WriteEffect, OnDat
  <1>17. UNCHANGED <<snData, fromSN>>
    BY <1>12 DEF RxSnpResp
  <1>18. txn[r].line \in Lines /\ IsData(txn[r])
    BY DEF TypeInv, NodesInv, NodeOk
  <1> QED BY <1>4, <1>11, <1>13, <1>14, <1>15, <1>16, <1>17, <1>18, SendTypes DEF TypeInv

LEMMA ForwardTypes ==
    ASSUME FlitsKeepData, IInv, TypeInv, NEW r \in Requesters, Gives, Forwards, r # src,
           One(up[r].dat), up[r].dat[1].t = "CompData", up[r].dat[1].to = src,
           IsMsg(up[r].dat[1]), SendDat(r)
    PROVE  TypeInv'
  <1>1. PICK m : m = up[r].dat[1]
    OBVIOUS
  <1>2. Head(up[r].dat) = m /\ Tail(up[r].dat) = <<>> /\ up[r].dat # <<>>
    <2>1. up[r].dat # <<>> /\ up[r].dat = <<m>>
      BY <1>1 DEF One
    <2> QED BY <2>1, OneIs
  <1>3. m.t = "CompData" /\ m.to = src /\ IsMsg(m) /\ Sent(r, m) = m
    BY <1>1 DEF Sent, IsMsg
  <1>4. PICK a : a = Arrived(m)
    OBVIOUS
  <1>5. IsCompData(m)
    BY <1>1, <1>2, <1>3 DEF TypeInv, UpInv, UpOk, SentOk
  <1>6. a.t = "CompData" /\ a.to = src /\ IsCompData(a)
    <2>1. IsData(m) /\ m.pd \in BOOLEAN
      BY <1>5 DEF IsCompData
    <2>2. a.t = m.t /\ a.to = m.to /\ IsData(a) /\ a.pd = m.pd
      BY <1>3, <1>4, <2>1, ArrivedIs, ArrivedData
    <2> QED BY <1>3, <2>1, <2>2 DEF IsCompData
  <1>7. TransmitDat(r, m) /\ HnRxDat(r, a) /\ WriteEffect(m) /\ UNCHANGED <<memory, writes>>
    BY <1>2, <1>3, <1>4 DEF SendDat, snVars
  <1>8. /\ up' = Drop(up, r, "dat") /\ UNCHANGED <<txn, line, pulls>>
    BY <1>3, <1>7 DEF TransmitDat
  <1>9. down' = Put(down, src, "dat", a) /\ UNCHANGED <<cur, filter, snData, fromSN>>
    BY <1>6, <1>7 DEF HnRxDat, RouteDat, hnVars
  <1>10. src \in Requesters /\ down[src].dat = <<>>
    BY DEF Gives, Served, Serves, src, Forwards, Unanswered, NoAnswer
  <1>11. DownInv'
    <2>1. down'[src].dat = <<a>> /\ \A q \in Requesters \ {src} : down'[q] = down[q]
      BY <1>9, <1>10, AppendIs DEF Put, IInv, Shape
    <2> QED BY <1>6, <2>1, OneIs DEF TypeInv, DownInv
  <1>12. /\ \A s \in Requesters \ {r} : up'[s] = up[s]
         /\ up'[r].rsp = up[r].rsp /\ up'[r].dat = <<>>
    BY <1>2, <1>8 DEF IInv, Shape, Drop
  <1>13. HomeInv' /\ UpOk(r)'
    BY <1>9, <1>12 DEF TypeInv, HomeInv, UpInv, UpOk
  <1>14. latest' = latest
    BY <1>3, <1>7 DEF WriteEffect
  <1>15. txn[r].line \in Lines /\ IsData(txn[r])
    BY DEF TypeInv, NodesInv, NodeOk
  <1> QED BY <1>7, <1>8, <1>9, <1>11, <1>12, <1>13, <1>14, <1>15, SendTypes DEF TypeInv

\* A write takes effect with the data that the home node gets.
LEMMA EffectTypes ==
    ASSUME TypeInv, NEW m, IsData(m), WriteEffect(m)
    PROVE  latest' \in [Lines -> Data]
  <1>1. latest \in [Lines -> Data] /\ cur.line \in Lines /\ m.data \in Data
    BY DEF TypeInv, HomeInv, ReqOk, IsData
  <1>2. ASSUME NEW d \in Data, Stored(cur.line, d, m.be) PROVE latest' \in [Lines -> Data]
    <2>1. PICK e \in Data : e = Merge(latest[cur.line], d, m.be)
      BY <1>1, MergeIs
    <2>2. latest' = [latest EXCEPT ![cur.line] = e]
      BY <1>2, <2>1 DEF Stored
    <2> QED BY <1>1, <2>2
  <1>3. PICK d : d = IF IsAtomic(cur.op)
                     THEN [w \in Words |-> AtomicResult(cur.op, latest[cur.line][w], m.data[w])]
                     ELSE m.data
    OBVIOUS
  <1>4. d \in Data
    <2>1. PICK o \in Data : o = latest[cur.line]
      BY <1>1
    <2>2. [w \in Words |-> AtomicResult(cur.op, o[w], m.data[w])] \in Data
      BY <1>1, AtomicIs
    <2>3. d \in {[w \in Words |-> AtomicResult(cur.op, o[w], m.data[w])], m.data}
      BY <1>3, <2>1
    <2> QED BY <1>1, <2>2, <2>3
  <1>5. Stored(cur.line, d, m.be) \/ latest' = latest
    BY <1>3 DEF WriteEffect
  <1> QED BY <1>1, <1>2, <1>4, <1>5

\* What the home node makes of the data.
LEMMA WritesTypes ==
    ASSUME IInv, CohInv, TypeInv, NEW r \in Requesters, r = src, TakesData, NEW a, IsData(a),
           a.t = DataFor(cur.op), RxWriteData(r, a)
    PROVE  HomeInv' /\ DownInv'
  <1>1. PICK q : q = CopyData(cur, a)
    OBVIOUS
  <1>2. IsReq(q) /\ q.op = cur.op /\ q.src = cur.src
    BY <1>1, CopiedIs DEF IInv, Shape
  <1>3. PICK f : f = FilterAfterReq(cur, filter)
    OBVIOUS
  <1>4. IsReq(cur) /\ ReqOk(cur) /\ FiltersOk(filter) /\ cur.src \in Requesters /\ DownInv
        /\ down[cur.src].dat = <<>>
    BY DEF IInv, Shape, TypeInv, HomeInv, src, TakesData
  <1>5. ReqOk(q) /\ FiltersOk(f)
    BY <1>1, <1>3, <1>4, CopyOk, FilterReqOk DEF ReqOk
  <1>6. Goes(q, f) /\ Goes(q, filter)
    BY <1>2, <1>4, <1>5 DEF Goes
  <1>7. CASE cur.op \in CopyBacks
    <2>1. a.t = "CopyBackWrData"
      BY <1>7 DEF DataFor
    <2>2. CASE a.pd
      <3>1. ToSN(q, f, "WriteNoSnpPtl")
        BY <1>1, <1>3, <2>1, <2>2 DEF RxWriteData
      <3> QED BY <1>4, <1>6, <3>1, ToSNTypes
    <2>3. CASE ~a.pd
      <3>1. cur' = NoReq /\ filter' = f /\ down' = down
        BY <1>3, <2>1, <2>3 DEF RxWriteData
      <3> QED BY <1>4, <1>5, <3>1, NoReqOk DEF HomeInv, DownInv
    <2> QED BY <2>2, <2>3
  <1>8. CASE cur.op \notin CopyBacks /\ cur.op = "DVMOp"
    <2>1. ProcessDVM(q)
      BY <1>1, <1>2, <1>8 DEF RxWriteData, DataFor
    <2>2. PICK snps : /\ down' = [s \in Requesters |->
                                     IF s \in Requesters \ {q.src}
                                     THEN [down[s] EXCEPT !.snp = @ \o snps] ELSE down[s]]
                      /\ filter' = filter /\ cur' = [q EXCEPT !.waiting = Requesters \ {q.src}]
      BY <2>1 DEF ProcessDVM, SendSnoops
    <2>3. \A s \in Requesters : down'[s].dat = down[s].dat
      BY <2>2 DEF IInv, Shape
    <2>4. ReqOk(cur')
      BY <1>2, <1>5, <2>2 DEF IsReq, ReqFields, ReqOk, IsData
    <2> QED BY <1>4, <2>2, <2>3, <2>4 DEF HomeInv, DownInv
  <1>9. CASE cur.op \notin CopyBacks /\ cur.op # "DVMOp"
    <2>1. PICK op : op = IF IsAtomic(q.op) THEN q.op ELSE "WriteNoSnpPtl"
      OBVIOUS
    <2>2. ToSN(q, filter, op)
      BY <1>1, <1>2, <1>9, <2>1 DEF RxWriteData, DataFor
    <2> QED BY <1>4, <1>6, <2>2, ToSNTypes
  <1> QED BY <1>7, <1>8, <1>9

LEMMA WriteDataTypes ==
    ASSUME FlitsKeepData, IInv, CohInv, TypeInv, NEW r \in Requesters, r = src, TakesData,
           One(up[r].dat), up[r].dat[1].t = DataFor(cur.op), IsMsg(up[r].dat[1]), SendDat(r)
    PROVE  TypeInv'
  <1>1. PICK m : m = up[r].dat[1]
    OBVIOUS
  <1>2. Head(up[r].dat) = m /\ Tail(up[r].dat) = <<>> /\ up[r].dat # <<>>
    BY <1>1, OneIs DEF One
  <1>3. m.t = DataFor(cur.op) /\ IsMsg(m) /\ m.t \in {"CopyBackWrData", "NonCopyBackWrData"}
    BY <1>1 DEF DataFor, IsMsg
  <1>4. Sent(r, m) = m
    BY <1>3 DEF Sent
  <1>5. PICK a : a = Arrived(m)
    OBVIOUS
  <1>6. IsData(m)
    BY <1>1, <1>2, <1>3 DEF TypeInv, UpInv, UpOk, SentOk
  <1>7. a.t = m.t /\ IsData(a)
    BY <1>3, <1>5, <1>6, ArrivedData
  <1>8. TransmitDat(r, m) /\ HnRxDat(r, a) /\ WriteEffect(m) /\ UNCHANGED <<memory, writes>>
    BY <1>2, <1>4, <1>5 DEF SendDat, snVars
  <1>9. RxWriteData(r, a)
    BY <1>3, <1>7, <1>8 DEF HnRxDat
  <1>10. HomeInv' /\ DownInv'
    BY <1>3, <1>7, <1>9, WritesTypes
  <1>11. latest' \in [Lines -> Data]
    BY <1>6, <1>8, EffectTypes
  <1>12. UNCHANGED <<line, pulls, snData, fromSN>>
    BY <1>8, <1>9 DEF TransmitDat, RxWriteData
  <1>13. PICK t : t = [txn[r] EXCEPT !.got = @ \cup {"Sent"}]
    OBVIOUS
  <1>14. t.op = txn[r].op /\ t.line \in Lines /\ IsData(t)
    <2>1. IsTxn(txn[r])
      BY DEF IInv, Shape
    <2>2. txn[r].line \in Lines /\ IsData(txn[r])
      BY DEF TypeInv, NodesInv, NodeOk
    <2>3. PICK g : g = txn[r].got \cup {"Sent"}
      OBVIOUS
    <2>4. t = [txn[r] EXCEPT !.got = g]
      BY <1>13, <2>3
    <2> QED BY <2>1, <2>2, <2>4 DEF IsTxn, IsData
  <1>15. PICK u : u \in {t, Done(t)} /\ txn' = [txn EXCEPT ![r] = u]
    <2>1. PICK u : u = IF \/ t.ack
                          \/ t.op = "DVMOp" /\ "Comp" \notin t.got
                          \/ IsAtomicNonStore(t.op) /\ "Data" \notin t.got
                       THEN t ELSE Done(t)
      OBVIOUS
    <2>2. txn' = [txn EXCEPT ![r] = u]
      BY <1>3, <1>8, <1>13, <2>1 DEF TransmitDat
    <2> QED BY <2>1, <2>2
  <1>16. /\ txn'[r] = u /\ \A q \in Requesters \ {r} : txn'[q] = txn[q]
    BY <1>15 DEF IInv, Shape
  <1>17. txn'[r].op \in {txn[r].op, "none"} /\ txn'[r].line \in Lines /\ IsData(txn'[r])
    BY <1>14, <1>15, <1>16, DoneData
  <1>18. /\ \A s \in Requesters \ {r} : up'[s] = up[s]
         /\ up'[r].dat = <<>> /\ up'[r].rsp \in {<<>>, <<CompAck>>}
    <2>1. up[r].rsp = <<>> /\ Append(<<>>, CompAck) = <<CompAck>>
      BY AppendIs DEF TakesData
    <2>2. up' = Put(Drop(up, r, "dat"), r, "rsp", CompAck) \/ up' = Drop(up, r, "dat")
      <3>1. m.t # "SnpRespDataFwded"
        BY <1>3
      <3> QED BY <1>2, <1>3, <1>8, <3>1 DEF TransmitDat, CompAck
    <2>3. CASE up' = Put(Drop(up, r, "dat"), r, "rsp", CompAck)
      BY <1>2, <2>1, <2>3 DEF IInv, Shape, Put, Drop
    <2>4. CASE up' = Drop(up, r, "dat")
      BY <1>2, <2>1, <2>4 DEF IInv, Shape, Drop
    <2> QED BY <2>2, <2>3, <2>4
  <1>19. UpOk(r)'
    <2>1. SentOk(CompAck)
      BY PlainOk, Answers
    <2> QED BY <1>18, <2>1, OneIs DEF UpOk
  <1> QED BY <1>8, <1>10, <1>11, <1>12, <1>16, <1>17, <1>18, <1>19, SendTypes

LEMMA SendDatTypes ==
    ASSUME FlitsKeepData, IInv, CohInv, TypeInv, NEW r \in Requesters, up[r].dat # <<>>, SendDat(r)
    PROVE  TypeInv'
  BY UpDatIs, SnoopDatTypes, ForwardTypes, WriteDataTypes DEF IInv

(***************************************************************************)
(* The home node by itself.                                                *)
(***************************************************************************)
LEMMA HomeFrame ==
    ASSUME TypeInv, UNCHANGED <<line, txn, pulls, up, memory, writes, latest>>,
           HomeInv', DownInv', \A i \in DOMAIN snData' : IsData(snData'[i]),
           fromSN'.dat \in {fromSN.dat, <<>>}
    PROVE  TypeInv'
  <1>1. NodesInv'
    BY DEF TypeInv, NodesInv, NodeOk
  <1>2. UpInv'
    BY DEF TypeInv, UpInv, UpOk
  <1>3. SlaveTypes'
    BY DEF TypeInv, SlaveTypes
  <1> QED BY <1>1, <1>2, <1>3 DEF TypeInv

LEMMA RouteReqTypes ==
    ASSUME IInv, TypeInv, RouteReq, UNCHANGED <<rnVars, snVars, latest>>
    PROVE  TypeInv'
  <1>0. PICK q : q = Head(reqList)
    OBVIOUS
  <1>1. cur = NoReq /\ reqList # <<>> /\ UNCHANGED <<up, line, txn, pulls, memory, writes, snData, fromSN>>
    BY DEF RouteReq, rnVars, snVars
  <1>2. IF GetSnpAttr(q.op) /\ IsSnoopingReq(q.op) /\ SnoopPorts(q) # {}
        THEN Snoop(q) ELSE ProcessReq(q, filter)
    BY <1>0 DEF RouteReq
  <1>3. Idle
    BY <1>1, NoReqIsIdle DEF IInv
  <1>4. /\ q = reqList[1] /\ 1 \in DOMAIN reqList /\ q.src \in Requesters
        /\ q.line = txn[q.src].line /\ IsReq(q) /\ Listed(q.src)
    BY <1>0, <1>1, HeadIs, SeqLen DEF IInv, Shape, Serves
  <1>5. ReqOk(q)
    <2>1. q = [NoReq EXCEPT !.op = q.op, !.src = q.src, !.line = q.line, !.ack = q.ack]
      BY <1>4 DEF IInv, ListInv
    <2>2. /\ q.snReq = NoReq.snReq /\ q.data = NoReq.data /\ q.be = NoReq.be /\ q.dirty = NoReq.dirty
          /\ q.snpPD = NoReq.snpPD /\ q.snpResp = NoReq.snpResp
      <3>1. PICK a, b, c, d : a = q.op /\ b = q.src /\ c = q.line /\ d = q.ack
        OBVIOUS
      <3>2. q = [NoReq EXCEPT !.op = a, !.src = b, !.line = c, !.ack = d]
        BY <2>1, <3>1
      <3> QED BY <3>2 DEF NoReq
    <2>3. q.line \in Lines
      BY <1>4 DEF TypeInv, NodesInv, NodeOk
    <2> QED BY <2>2, <2>3, NoReqOk DEF ReqOk, IsData
  <1>6. down[q.src].dat = <<>>
    BY <1>3, <1>4 DEF Idle, Aside, Free, Asks, Retried, Informed, Replied, Queued, Abandoned,
                    NoAnswer
  <1>7. HomeInv' /\ DownInv'
    <2>1. CASE Snoop(q)
      <3>1. PICK ports : ports = SnoopPorts(q)
        OBVIOUS
      <3>2. PICK b : cur' = [q EXCEPT !.waiting = ports, !.fwd = b, !.waitAck = b]
        <4>1. PICK x : x = GetOpcode(q.op, mode.dct /\ Cardinality(ports) = 1)
          BY <3>1
        <4>2. cur' = [q EXCEPT !.waiting = ports, !.fwd = x \in FwdSnoops, !.waitAck = x \in FwdSnoops]
          BY <2>1, <3>1, <4>1 DEF Snoop
        <4> QED BY <4>2
      <3>3. ReqOk(cur')
        BY <1>4, <1>5, <3>2 DEF IsReq, ReqFields, ReqOk, IsData
      <3>4. filter' = filter /\ \A s \in Requesters : down'[s].dat = down[s].dat
        BY <2>1 DEF Snoop, SendSnoops, IInv, Shape
      <3> QED BY <3>3, <3>4 DEF TypeInv, HomeInv, DownInv
    <2>2. CASE ProcessReq(q, filter)
      <3>1. Goes(q, filter) /\ DownInv
        BY <1>4, <1>5, <1>6 DEF Goes, TypeInv, HomeInv
      <3> QED BY <2>2, <3>1, ProcessReqTypes
    <2> QED BY <1>2, <2>1, <2>2
  <1> QED BY <1>1, <1>7, HomeFrame DEF TypeInv, SlaveTypes

\* The slave node has answered on the response channel.
LEMMA SNRetryTypes ==
    ASSUME IInv, TypeInv, SNRetries, RxRspSN, UNCHANGED <<rnVars, snVars, latest>>
    PROVE  TypeInv'
  <1>1. PICK m : m = Head(fromSN.rsp)
    OBVIOUS
  <1>2. m.t \in {"RetryAck", "PCrdGrant"}
    <2>1. m = RetryAck \/ m = PCrdGrant
      BY <1>1, OneIs, TwoIs DEF SNRetries
    <2> QED BY <2>1, Answers
  <1>3. /\ RetrySN(m) /\ UNCHANGED <<up, line, txn, pulls, memory, writes>>
        /\ fromSN' = [fromSN EXCEPT !.rsp = Tail(@)]
    BY <1>1, <1>2 DEF RxRspSN, rnVars, snVars
  <1>4. UNCHANGED <<down, snData, filter>> /\ fromSN'.dat = fromSN.dat
    BY <1>3 DEF RetrySN, IInv, Shape
  <1>5. ReqOk(cur')
    <2>1. IsReq(cur) /\ ReqOk(cur)
      BY DEF IInv, Shape, TypeInv, HomeInv
    <2>2. PICK p : p = [cur.snReq EXCEPT !.retry = @ /\ m.t # "RetryAck"]
      OBVIOUS
    <2>3. p.line = cur.snReq.line
      BY <2>2
    <2>4. PICK g : g = cur.snGot \cup {m.t}
      OBVIOUS
    <2>5. PICK q : q = [cur EXCEPT !.snGot = g, !.snReq = p]
      OBVIOUS
    <2>6. q = [cur EXCEPT !.snGot = @ \cup {m.t}, !.snReq.retry = @ /\ m.t # "RetryAck"]
      BY <2>1, <2>2, <2>4, <2>5 DEF IsReq, ReqFields
    <2>7. cur' = q
      BY <1>3, <2>6 DEF RetrySN
    <2>8. ReqOk(q)
      BY <2>1, <2>3, <2>5 DEF IsReq, ReqFields, ReqOk, IsData
    <2> QED BY <2>7, <2>8
  <1>6. HomeInv' /\ DownInv'
    BY <1>4, <1>5 DEF TypeInv, HomeInv, DownInv
  <1> QED BY <1>3, <1>4, <1>6, HomeFrame DEF TypeInv, SlaveTypes

LEMMA WrittenTypes ==
    ASSUME IInv, TypeInv, RxRspSN, UNCHANGED <<mode, rnVars, snVars, latest>>, NEW m, SNAnswers(m),
           \/ m = CompDBIDResp /\ (WritesBack \/ Writes)
           \/ m = DBIDResp /\ RunsAtomic
    PROVE  TypeInv'
  <1>1. SendSNData(m) /\ UNCHANGED <<up, txn, line, pulls, memory, writes>> /\ fromSN'.dat = <<>>
    BY SendSNDataIs DEF rnVars, snVars
  <1>2. IsReq(cur) /\ ReqOk(cur) /\ FiltersOk(filter)
    BY DEF IInv, Shape, TypeInv, HomeInv
  <1>3. \A i \in DOMAIN snData' : IsData(snData'[i])
    <2>0. PICK be : be \in SNEnables(cur) /\ snData' = Append(snData, [data |-> cur.data, be |-> be])
      BY <1>1 DEF SendSNData
    <2>1. PICK x : x = [data |-> cur.data, be |-> be]
      OBVIOUS
    <2>2. PICK s : s = Append(snData, x)
      OBVIOUS
    <2>3. snData' = s
      BY <2>0, <2>1, <2>2
    <2>4. IsSeq(snData)
      BY DEF IInv, Shape
    <2>5. /\ DOMAIN s = 1..(Len(snData) + 1) /\ s[Len(snData) + 1] = x
          /\ \A i \in DOMAIN snData : s[i] = snData[i]
          /\ DOMAIN snData = 1..Len(snData) /\ Len(snData) \in Nat
      BY <2>2, <2>4, SeqAppend, SeqLen
    <2>6. IsData(x) /\ \A i \in DOMAIN snData : IsData(snData[i])
      <3>1. be \subseteq Words
        BY <1>2, <2>0 DEF SNEnables, ReqOk, IsData
      <3> QED BY <1>2, <2>1, <3>1 DEF ReqOk, IsData, TypeInv, SlaveTypes
    <2>7. \A i \in DOMAIN s : IsData(s[i])
      <3>1. \A i \in DOMAIN s : i \in DOMAIN snData \/ i = Len(snData) + 1
        BY <2>5
      <3> QED BY <2>5, <2>6, <3>1
    <2> QED BY <2>3, <2>7
  <1>4. HomeInv' /\ DownInv'
    <2>1. CASE m = CompDBIDResp /\ WritesBack
      <3>1. ProcessSnpdReq(cur, filter)
        BY <1>1, <2>1, Answers DEF SendSNData, WritesBack
      <3>2. cur.src \in Requesters /\ down[cur.src].dat = <<>> /\ cur.op # "DVMOp"
        BY <2>1 DEF WritesBack, Served, Serves, Unanswered, NoAnswer, src, Snooping, ReadOnces, Fills,
                    Upgrading, Informing, UniqueWrites, Swapping
      <3>3. Goes(cur, filter) /\ DownInv
        BY <1>2, <3>2 DEF Goes, TypeInv
      <3> QED BY <3>1, <3>2, <3>3, ProcessSnpdReqTypes
    <2>2. CASE ~cur.gotSnpData
      <3>1. /\ cur' \in {cur, NoReq, [cur EXCEPT !.toSNDone = TRUE]} /\ filter' = filter
            /\ down' = down
        BY <1>1, <2>2 DEF SendSNData
      <3>2. ReqOk([cur EXCEPT !.toSNDone = TRUE])
        BY <1>2 DEF IsReq, ReqFields, ReqOk, IsData
      <3>3. ReqOk(cur')
        BY <1>2, <3>1, <3>2, NoReqOk
      <3> QED BY <1>2, <3>1, <3>3 DEF HomeInv, TypeInv, DownInv
    <2> QED BY <2>1, <2>2 DEF Writes, RunsAtomic
  <1> QED BY <1>1, <1>3, <1>4, HomeFrame

LEMMA RxRspSNTypes ==
    ASSUME IInv, TypeInv, RxRspSN, UNCHANGED <<mode, rnVars, snVars, latest>>
    PROVE  TypeInv'
  <1>1. fromSN.rsp # <<>> /\ PhaseInv
    BY DEF RxRspSN, IInv
  <1>2. CASE SNRetries
    BY <1>2, SNRetryTypes
  <1> QED BY <1>1, <1>2, SNRspIs, WrittenTypes

LEMMA RxDatSNTypes ==
    ASSUME IInv, TypeInv, RxDatSN, UNCHANGED <<rnVars, snVars, latest>>
    PROVE  TypeInv'
  <1>1. PICK m : m = fromSN.dat[1]
    OBVIOUS
  <1>2. \/ Fetches /\ SNReturns(cur.snReq.to)
        \/ RunsAtomic /\ SNReturns("HN")
    BY SNDatIs DEF RxDatSN, IInv
  <1>3. /\ m = Head(fromSN.dat) /\ Tail(fromSN.dat) = <<>> /\ m.t = "CompData" /\ IsMsg(m)
        /\ m.to \in {"HN", src}
    BY <1>1, <1>2, OneIs DEF SNReturns, One, IsMsg, Fetches
  <1>4. /\ UNCHANGED <<up, txn, line, pulls, memory, writes, snData, filter>>
        /\ fromSN' = [fromSN EXCEPT !.dat = Tail(@)]
        /\ IF m.to # "HN"
           THEN down' = Put(down, m.to, "dat", m) /\ UNCHANGED cur
           ELSE /\ ToRN(cur, [m EXCEPT !.st = IF IsAtomic(cur.op) THEN "I" ELSE cur.snpResp,
                                       !.to = cur.src])
                /\ cur' = IF cur.ack THEN [cur EXCEPT !.waitAck = TRUE] ELSE NoReq
    BY <1>3 DEF RxDatSN, rnVars, snVars
  <1>5. fromSN'.dat = <<>>
    BY <1>3, <1>4 DEF IInv, Shape
  <1>6. IsCompData(m)
    <2>1. fromSN.dat # <<>>
      BY DEF RxDatSN
    <2> QED BY <1>1, <2>1 DEF TypeInv, SlaveTypes
  <1>7. /\ IsReq(cur) /\ ReqOk(cur) /\ FiltersOk(filter) /\ src \in Requesters /\ src = cur.src
        /\ down[src].dat = <<>> /\ DownInv
    BY <1>2 DEF IInv, Shape, TypeInv, HomeInv, Fetches, RunsAtomic, Unanswered, NoAnswer, Served,
                Serves, src
  <1>8. ReqOk(cur')
    <2>1. ReqOk([cur EXCEPT !.waitAck = TRUE])
      BY <1>7 DEF IsReq, ReqFields, ReqOk, IsData
    <2> QED BY <1>4, <1>7, <2>1, NoReqOk
  <1>9. DownInv'
    <2>1. CASE m.to # "HN"
      <3>1. PICK z \in Requesters : z = src
        BY <1>7
      <3>2. down' = Put(down, z, "dat", m)
        BY <1>3, <1>4, <2>1, <3>1
      <3>3. Append(down[z].dat, m) = <<m>>
        BY <1>7, <3>1, AppendIs
      <3>4. down'[z].dat = <<m>> /\ \A s \in Requesters \ {z} : down'[s] = down[s]
        BY <3>2, <3>3 DEF IInv, Shape, Put
      <3> QED BY <1>6, <1>7, <3>4, OneIs DEF DownInv
    <2>2. CASE m.to = "HN"
      <3>1. PICK st : st = IF IsAtomic(cur.op) THEN "I" ELSE cur.snpResp
        OBVIOUS
      <3>2. PICK x : x = [m EXCEPT !.st = st, !.to = cur.src]
        OBVIOUS
      <3>3. x.data = m.data /\ x.be = m.be /\ x.pd = m.pd
        BY <1>3, <3>2 DEF IsMsg, MsgFields
      <3>4. ToRN(cur, x)
        BY <1>4, <2>2, <3>1, <3>2
      <3>5. IsCompData(x)
        BY <1>6, <3>3 DEF IsCompData, IsData
      <3> QED BY <1>7, <3>4, <3>5, ToRNTypes
    <2> QED BY <2>1, <2>2
  <1>10. HomeInv'
    BY <1>4, <1>7, <1>8 DEF HomeInv
  <1> QED BY <1>4, <1>5, <1>9, <1>10, HomeFrame DEF TypeInv, SlaveTypes

LEMMA HomeTypes ==
    ASSUME IInv, TypeInv, Home
    PROVE  TypeInv'
  BY RouteReqTypes, RxRspSNTypes, RxDatSNTypes DEF Home

(***************************************************************************)
(* The slave node.                                                         *)
(***************************************************************************)
LEMMA SlaveFrame ==
    ASSUME TypeInv, UNCHANGED <<line, txn, pulls, up, down, cur, filter, latest>>, SlaveTypes'
    PROVE  TypeInv'
  <1>1. NodesInv'
    BY DEF TypeInv, NodesInv, NodeOk
  <1>2. UpInv' /\ DownInv' /\ HomeInv'
    BY DEF TypeInv, UpInv, UpOk, DownInv, HomeInv
  <1> QED BY <1>1, <1>2 DEF TypeInv

LEMMA SnRxReqTypes ==
    ASSUME IInv, TypeInv, SnRxReq, UNCHANGED <<rnVars, hnVars, latest>>
    PROVE  TypeInv'
  <1>1. PICK m : m = Head(toSN)
    OBVIOUS
  <1>2. m = cur.snReq /\ fromSN.rsp = <<>> /\ fromSN.dat = <<>>
    <2>1. SNAsked
      BY SNReqIs DEF SnRxReq, IInv
    <2> QED BY <1>1, <2>1, OneIs DEF SNAsked
  <1>3. m.line \in Lines /\ memory \in [Lines -> Data]
    BY <1>2 DEF TypeInv, HomeInv, ReqOk, SlaveTypes
  <1>4. UNCHANGED <<line, txn, pulls, up, down, cur, filter, snData, memory>>
    BY DEF SnRxReq, rnVars, hnVars
  <1>5. \A i \in DOMAIN writes' : writes'[i].line \in Lines
    <2>1. PICK s : s = Append(writes, m)
      OBVIOUS
    <2>2. writes' \in {writes, s}
      BY <1>1, <2>1 DEF SnRxReq
    <2>3. IsSeq(writes)
      BY DEF IInv, Shape
    <2>4. /\ DOMAIN s = 1..(Len(writes) + 1) /\ s[Len(writes) + 1] = m
          /\ \A i \in DOMAIN writes : s[i] = writes[i]
          /\ DOMAIN writes = 1..Len(writes) /\ Len(writes) \in Nat
      BY <2>1, <2>3, SeqAppend, SeqLen
    <2>5. \A i \in DOMAIN writes : writes[i].line \in Lines
      BY DEF TypeInv, SlaveTypes
    <2>6. \A i \in DOMAIN s : s[i].line \in Lines
      <3>1. \A i \in DOMAIN s : i \in DOMAIN writes \/ i = Len(writes) + 1
        BY <2>4
      <3> QED BY <1>3, <2>4, <2>5, <3>1
    <2> QED BY <2>2, <2>5, <2>6
  <1>6. PICK x : x = Msg("CompData", "UC", FALSE, memory[m.line], Words, m.to)
    OBVIOUS
  <1>7. IsCompData(x)
    <2>1. PICK d \in Data : d = memory[m.line]
      BY <1>3
    <2>2. x = Msg("CompData", "UC", FALSE, d, Words, m.to)
      BY <1>6, <2>1
    <2>3. x.data = d /\ x.be = Words /\ x.pd = FALSE
      BY <2>2 DEF Msg
    <2> QED BY <2>3 DEF IsCompData, IsData
  <1>8. fromSN'.dat \in {<<>>, <<x>>}
    <2>1. ASSUME NEW ms PROVE Say(ms).dat = <<>>
      BY <1>2 DEF Say, IInv, Shape
    <2>2. ASSUME NEW rs PROVE [rsp |-> rs, dat |-> Append(fromSN.dat, x)].dat = <<x>>
      BY <1>2, AppendIs
    <2>3. PICK v : v = [rsp |-> IF Head(toSN).receipt
                                THEN Append(fromSN.rsp, Rsp("ReadReceipt", "I", FALSE))
                                ELSE fromSN.rsp,
                        dat |-> Append(fromSN.dat,
                                       Msg("CompData", "UC", FALSE, memory[Head(toSN).line],
                                           Words, Head(toSN).to))]
      OBVIOUS
    <2>4. PICK a, b, c : /\ a = Say(<<Rsp("RetryAck", "I", FALSE), Rsp("PCrdGrant", "I", FALSE)>>)
                         /\ b = SayOne("DBIDResp") /\ c = SayOne("CompDBIDResp")
      OBVIOUS
    <2>5. fromSN' = CASE Head(toSN).retry /\ ~snToggle -> a
                      [] ~(Head(toSN).retry /\ ~snToggle) /\ Head(toSN).op = "ReadNoSnp" -> v
                      [] ~(Head(toSN).retry /\ ~snToggle) /\ IsAtomicNonStore(Head(toSN).op) -> b
                      [] OTHER -> c
      BY <2>3, <2>4, Zenon DEF SnRxReq
    <2>6. Head(toSN).op = "ReadNoSnp" => ~IsAtomicNonStore(Head(toSN).op)
      BY DEF IsAtomicNonStore
    <2>7. fromSN' \in {a, b, c, v}
      BY <2>5, <2>6
    <2>8. a.dat = <<>> /\ b.dat = <<>> /\ c.dat = <<>>
      BY <2>1, <2>4 DEF SayOne
    <2>9. v.dat = <<x>>
      <3>1. PICK rs : rs = IF Head(toSN).receipt
                           THEN Append(fromSN.rsp, Rsp("ReadReceipt", "I", FALSE)) ELSE fromSN.rsp
        OBVIOUS
      <3>2. x = Msg("CompData", "UC", FALSE, memory[Head(toSN).line], Words, Head(toSN).to)
        BY <1>1, <1>6
      <3>3. v = [rsp |-> rs, dat |-> Append(fromSN.dat, x)]
        BY <2>3, <3>1, <3>2, Zenon
      <3> QED BY <2>2, <3>3
    <2> QED BY <2>7, <2>8, <2>9
  <1>9. SlaveTypes'
    BY <1>4, <1>5, <1>7, <1>8, OneIs DEF TypeInv, SlaveTypes
  <1> QED BY <1>4, <1>9, SlaveFrame

LEMMA SnRxDatTypes ==
    ASSUME IInv, TypeInv, SnRxDat, UNCHANGED <<rnVars, hnVars, latest>>
    PROVE  TypeInv'
  <1>1. PICK w : w = Head(writes)
    OBVIOUS
  <1>2. PICK d : d = Head(snData)
    OBVIOUS
  <1>3. IsSeq(writes) /\ IsSeq(snData) /\ snData # <<>> /\ writes # <<>>
    BY DEF IInv, Shape, SnRxDat
  <1>4. UNCHANGED <<line, txn, pulls, up, down, cur, filter>>
    BY DEF SnRxDat, rnVars, hnVars
  <1>5. w.line \in Lines /\ IsData(d) /\ memory \in [Lines -> Data]
    <2>1. w = writes[1] /\ 1 \in DOMAIN writes /\ d = snData[1] /\ 1 \in DOMAIN snData
      BY <1>1, <1>2, <1>3, SeqLen
    <2> QED BY <2>1 DEF TypeInv, SlaveTypes
  <1>6. PICK old \in Data : old = memory[w.line]
    BY <1>5
  <1>7. memory' \in [Lines -> Data]
    <2>1. PICK be : be = IF IsAtomic(w.op) /\ w.whole THEN Words ELSE d.be
      OBVIOUS
    <2>2. PICK junk \in Data :
             memory' = [memory EXCEPT ![w.line] =
                Merge(old, IF IsAtomic(w.op) THEN HandleAtomic(w, old, d, junk) ELSE d.data, be)]
      BY <1>1, <1>2, <1>6, <2>1, ZeroIs DEF SnRxDat
    <2>3. PICK new \in Data : new = IF IsAtomic(w.op) THEN HandleAtomic(w, old, d, junk) ELSE d.data
      <3>1. d.data \in Data
        BY <1>5 DEF IsData
      <3> QED BY <3>1, HandledIs
    <2>4. PICK k \in Data : k = Merge(old, new, be)
      BY MergeIs
    <2> QED BY <1>5, <2>2, <2>3, <2>4
  <1>8. /\ \A i \in DOMAIN writes' : writes'[i].line \in Lines
        /\ \A i \in DOMAIN snData' : IsData(snData'[i])
    <2>1. writes' = Tail(writes) /\ snData' = Tail(snData)
      BY DEF SnRxDat
    <2>2. /\ DOMAIN Tail(writes) = 1..(Len(writes) - 1)
          /\ \A i \in 1..(Len(writes) - 1) : Tail(writes)[i] = writes[i + 1]
          /\ DOMAIN writes = 1..Len(writes) /\ Len(writes) \in Nat
      BY <1>3, SeqTail, SeqLen
    <2>3. /\ DOMAIN Tail(snData) = 1..(Len(snData) - 1)
          /\ \A i \in 1..(Len(snData) - 1) : Tail(snData)[i] = snData[i + 1]
          /\ DOMAIN snData = 1..Len(snData) /\ Len(snData) \in Nat
      BY <1>3, SeqTail, SeqLen
    <2>4. \A i \in 1..(Len(writes) - 1) : i + 1 \in DOMAIN writes
      BY <2>2
    <2>5. \A i \in 1..(Len(snData) - 1) : i + 1 \in DOMAIN snData
      BY <2>3
    <2>6. ASSUME NEW i \in DOMAIN writes' PROVE writes'[i].line \in Lines
      BY <2>1, <2>2, <2>4, <2>6 DEF TypeInv, SlaveTypes
    <2>7. ASSUME NEW i \in DOMAIN snData' PROVE IsData(snData'[i])
      <3>1. i + 1 \in DOMAIN snData /\ snData'[i] = snData[i + 1]
        BY <2>1, <2>3, <2>5, <2>7
      <3> QED BY <3>1 DEF TypeInv, SlaveTypes
    <2> QED BY <2>6, <2>7
  <1>9. fromSN'.dat # <<>> => IsCompData(fromSN'.dat[1])
    <2>1. CASE w.op \notin Swapping
      <3>1. fromSN' = fromSN
        BY <1>1, <2>1, Classes DEF SnRxDat
      <3> QED BY <3>1 DEF TypeInv, SlaveTypes
    <2>2. CASE w.op \in Swapping
      <3>1. fromSN.dat = <<>>
        <4>1. /\ Len(writes) \in Nat /\ DOMAIN writes = 1..Len(writes) /\ w = writes[1]
              /\ 1 \in DOMAIN writes
          BY <1>1, <1>3, SeqLen
        <4>2. ~NoAtomic
          BY <2>2, <4>1 DEF NoAtomic, AtomicAt
        <4>3. RunsAtomic
          BY <4>2 DEF IInv, PhaseInv, Idle, Snoops, SnoopsDVM, WritesBack, Fetches, Gives, TakesData,
                      Writes
        <4>4. SNAnswers(DBIDResp) \/ SNIdle
          BY <4>2, <4>3 DEF RunsAtomic
        <4> QED BY <4>4 DEF SNAnswers, SNIdle
      <3>0. PICK be : be = IF IsAtomic(w.op) /\ w.whole THEN Words ELSE d.be
        OBVIOUS
      <3>2. PICK x : x = Msg("CompData", "I", FALSE, old, be, w.to)
        OBVIOUS
      <3>3. fromSN' = [fromSN EXCEPT !.dat = Append(@, x)]
        <4>1. IsAtomicNonStore(Head(writes).op)
          BY <1>1, <2>2, Classes
        <4>2. x = Msg("CompData", "I", FALSE, memory[Head(writes).line],
                      IF IsAtomic(Head(writes).op) /\ Head(writes).whole
                      THEN Words ELSE Head(snData).be, Head(writes).to)
          BY <1>1, <1>2, <1>6, <3>0, <3>2
        <4> QED BY <4>1, <4>2 DEF SnRxDat
      <3>4. fromSN'.dat = <<x>>
        BY <3>1, <3>3, AppendIs DEF IInv, Shape
      <3>5. x.data = old /\ x.be = be /\ x.pd = FALSE
        BY <3>2 DEF Msg
      <3>6. IsCompData(x)
        BY <1>5, <3>0, <3>5 DEF IsCompData, IsData
      <3> QED BY <3>4, <3>6, OneIs
    <2> QED BY <2>1, <2>2
  <1> QED BY <1>4, <1>7, <1>8, <1>9, SlaveFrame DEF SlaveTypes

LEMMA SlaveTypesStay ==
    ASSUME IInv, TypeInv, Slave
    PROVE  TypeInv'
  BY SnRxReqTypes, SnRxDatTypes DEF Slave

(***************************************************************************)
(* The types of the specification.                                         *)
(***************************************************************************)
LEMMA InitTypes == ChiInit => TypeInv
  <1> SUFFICES ASSUME ChiInit PROVE TypeInv
    OBVIOUS
  <1>1. /\ \A r \in Requesters : /\ line[r] = EmptyLine /\ txn[r] = NoTxn /\ pulls[r] = 0
                                 /\ up[r].rsp = <<>> /\ up[r].dat = <<>> /\ down[r].dat = <<>>
        /\ DOMAIN pulls = Requesters
        /\ cur = NoReq /\ filter = [r \in Requesters |-> {}]
        /\ writes = <<>> /\ snData = <<>> /\ fromSN.dat = <<>>
    BY DEF ChiInit, RnInit, HnInit, SnInit
  <1>2. memory \in [Lines -> Data] /\ latest \in [Lines -> Data]
    BY ZeroIs DEF ChiInit, SnInit
  <1>3. NodesInv
    <2>1. NoTxn.line \in Lines /\ IsData(NoTxn) /\ NoTxn.op = "none"
      BY ZeroIs, NoOpIs DEF NoTxn, IsData
    <2>2. 0 \in 0 .. NumIDs
      BY ChiAssumption
    <2> QED BY <1>1, <2>1, <2>2, EmptyIs DEF NodesInv, NodeOk
  <1>4. UpInv /\ DownInv
    BY <1>1 DEF UpInv, UpOk, DownInv
  <1>5. HomeInv
    BY <1>1, NoReqOk DEF HomeInv, FiltersOk
  <1>6. SlaveTypes
    BY <1>1, <1>2 DEF SlaveTypes
  <1> QED BY <1>2, <1>3, <1>4, <1>5, <1>6 DEF TypeInv

LEMMA StutterTypes ==
    ASSUME TypeInv, UNCHANGED vars
    PROVE  TypeInv'
  BY DEF vars, channels, rnVars, hnVars, snVars, TypeInv, NodesInv, NodeOk, UpInv, UpOk, DownInv, HomeInv,
         SlaveTypes

LEMMA NextTypes ==
    ASSUME FlitsKeepData, IInv, CohInv, TypeInv, [ChiNext]_vars
    PROVE  TypeInv'
  <1>1. ASSUME NEW r \in Requesters, Run(r) PROVE TypeInv'
    BY <1>1, RunTypes
  <1>2. ASSUME NEW r \in Requesters, Start(r) PROVE TypeInv'
    BY <1>2, StartTypes
  <1>3. ASSUME NEW r \in Requesters, Receive(r) PROVE TypeInv'
    BY <1>3, ReceiveTypes
  <1>4. ASSUME NEW r \in Requesters, up[r].req # <<>>, SendReq(r) PROVE TypeInv'
    BY <1>4, SendReqTypes
  <1>5. ASSUME NEW r \in Requesters, up[r].rsp # <<>>, SendRsp(r) PROVE TypeInv'
    BY <1>5, SendRspTypes
  <1>6. ASSUME NEW r \in Requesters, up[r].dat # <<>>, SendDat(r) PROVE TypeInv'
    BY <1>6, SendDatTypes
  <1>7. CASE Home
    BY <1>7, HomeTypes
  <1>8. CASE Slave
    BY <1>8, SlaveTypesStay
  <1>9. CASE Terminating \/ UNCHANGED vars
    BY <1>9, StutterTypes DEF Terminating
  <1> QED BY <1>1, <1>2, <1>3, <1>4, <1>5, <1>6, <1>7, <1>8, <1>9 DEF ChiNext

LEMMA TypesAreOk ==
    ASSUME IInv, CohInv, TypeInv
    PROVE  ChiTypeOK
  <1>1. ASSUME NEW r \in Requesters
        PROVE  /\ line[r] \in LineType
               /\ line[r].valid /\ ~line[r].shared =>
                     (GetFillGrade(line[r]) = "Partial" => line[r].dirty)
                     /\ (GetFillGrade(line[r]) = "Empty" => ~line[r].dirty)
    <2>1. Sound(line[r])
      BY DEF TypeInv, NodesInv, NodeOk
    <2> QED BY <2>1, ChiAssumption DEF Sound, GetFillGrade
  <1>2. \A r \in Requesters : /\ stage[r] \in {"loop", "part2", "main", "after"}
                              /\ txn[r].line \in Lines /\ txn[r].data \in Data
                              /\ txn[r].be \subseteq Words /\ pulls[r] \in 0 .. NumIDs
                              /\ filter[r] \subseteq Lines
    BY DEF IInv, TxnInv, TypeInv, NodesInv, NodeOk, IsData, HomeInv, FiltersOk
  <1>3. cur.waiting \subseteq Requesters
    <2>1. Idle => cur.waiting = {}
      BY NoReqIs DEF Idle
    <2> QED BY <2>1 DEF IInv, PhaseInv, Snoops, SnoopsDVM, WritesBack, Fetches, Gives, TakesData,
                        RunsAtomic, Writes, Fixed
  <1>4. /\ cur.data \in Data /\ cur.snpResp \in Status
        /\ memory \in [Lines -> Data] /\ latest \in [Lines -> Data]
    BY DEF TypeInv, HomeInv, ReqOk, IsData, SlaveTypes
  <1> QED BY <1>1, <1>2, <1>3, <1>4 DEF ChiTypeOK, LineType

\* Cachelines, transactions, the request in the home node, the snoop filters
\* and the memory keep the types of the code, whatever is snooped, forwarded,
\* written back or merged; and GetStatus never meets a clean line that is partly
\* valid: whoever cleans or shares a line (a snoop, CleanUnique, WriteCleanFull)
\* finds it full.  Assumed is that the flits of a line carry all of its words.
THEOREM SpecChiTypeOK == FlitsKeepData => (ChiSpec => []ChiTypeOK)
  <1> SUFFICES ASSUME FlitsKeepData PROVE ChiSpec => []ChiTypeOK
    OBVIOUS
  <1>1. ChiInit => IInv /\ CohInv /\ TypeInv
    BY InitStep, InitCoh, InitTypes
  <1>2. (IInv /\ CohInv /\ TypeInv) /\ [ChiNext]_vars => (IInv /\ CohInv /\ TypeInv)'
    BY NextStep, NextCoh, NextTypes
  <1>3. IInv /\ CohInv /\ TypeInv => ChiTypeOK
    BY TypesAreOk
  <1> QED BY <1>1, <1>2, <1>3, PTL DEF ChiSpec
=============================================================================
