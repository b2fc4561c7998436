---------------------------- MODULE AceProtocol ----------------------------
(***************************************************************************)
(* The vocabulary that cache_ace, iconnect_ace and the ACE bridges share:  *)
(* who is in the system, what an ACE transaction is, and the predicates    *)
(* amba-ace.h and iconnect_ace::Transaction compute from its attributes.   *)
(*                                                                         *)
(* An address is a pair <<line, word>>: "word" is the unit at which two    *)
(* accesses to one cacheline can be told apart (one word per line makes    *)
(* every access a whole-line access).  Every transaction is non-secure.    *)
(***************************************************************************)
EXTENDS Naturals, Sequences, FiniteSets

CONSTANTS WriteBackCaches,    \* cache_ace instances built with WriteBack
          WriteThroughCaches, \* cache_ace instances built with WriteThrough
          LiteMasters,        \* ACELiteMaster instances
          Lines,              \* cacheline addresses
          Width,              \* words per cacheline (CACHELINE_SZ)
          Values,             \* what a word holds
          InitValue,          \* what memory holds at reset
          Index,              \* get_index: the slot of a direct-mapped cache
          NonShareable        \* lines of create_nonshareable_region()

Caches  == WriteBackCaches \cup WriteThroughCaches
Masters == Caches \cup LiteMasters
Words   == 0..(Width - 1)
Slots   == {Index[l] : l \in Lines}
Addr    == Lines \X Words

ASSUME ProtocolAssumption ==
    /\ WriteBackCaches \cap WriteThroughCaches = {}
    /\ Caches \cap LiteMasters = {}
    /\ Caches # {}
    /\ Width \in Nat \ {0}
    /\ InitValue \in Values
    /\ DOMAIN Index = Lines
    /\ NonShareable \subseteq Lines

LineData == [Words -> Values]
BlankLine == [w \in Words |-> InitValue]
Nothing == [a \in {} |-> InitValue]    \* the contents of no words

(***************************************************************************)
(* Transactions, by the value of AxSNOOP (and AxDOMAIN for NoSnoop).       *)
(***************************************************************************)
ReadKinds  == {"ReadOnce", "ReadClean", "ReadNotSharedDirty", "ReadShared",
               "ReadUnique"}
CleanKinds == {"CleanUnique", "MakeUnique"}
CmoKinds   == {"CleanShared", "CleanInvalid", "MakeInvalid"}
UniqueWriteKinds == {"WriteUnique", "WriteLineUnique"}
CopyBackKinds    == {"WriteBack", "WriteClean", "Evict"}
NoSnoopKinds     == {"ReadNoSnoop", "WriteNoSnoop"}

TxKinds == ReadKinds \cup CleanKinds \cup CmoKinds \cup UniqueWriteKinds
             \cup CopyBackKinds \cup NoSnoopKinds

\* Transaction::IsSnoopingTransaction
IsSnoopingTransaction(kind) ==
    kind \in ReadKinds \cup CleanKinds \cup CmoKinds \cup UniqueWriteKinds

\* tlm_generic_payload::is_write, for the transactions that carry write data
IsWriteTx(kind) ==
    kind \in UniqueWriteKinds \cup {"WriteBack", "WriteClean", "WriteNoSnoop"}

\* A transaction whose data the downstream memory supplies.
IsReadTx(kind) == kind \in ReadKinds \cup {"ReadNoSnoop"}

\* ace_tx_helpers::AllowPassDirty
AllowPassDirty(kind) == kind \in {"ReadNotSharedDirty", "ReadShared", "ReadUnique"}

\* SnoopTransaction::init_snoop_genattr: the AC snoop of a transaction
SnoopOf(kind) ==
    CASE kind \in ReadKinds \cup {"CleanShared"}                 -> kind
      [] kind \in {"CleanUnique", "CleanInvalid", "WriteUnique"} -> "CleanInvalid"
      [] OTHER                                                   -> "MakeInvalid"


(***************************************************************************)
(* What an initiator asks of its master: one access to one cacheline for a *)
(* cache, a transfer of one or more lines for an ACE-Lite master.          *)
(***************************************************************************)
LoadKinds  == {"Load", "LoadEx"}
StoreKinds == {"Store", "StoreEx"}
OpKinds    == LoadKinds \cup StoreKinds \cup CmoKinds

LineAddr(l)  == {l} \X Words
LinesOf(rng) == {a[1] : a \in rng}
\* Line l of range data d, as the contents of a cacheline.
ToLine(d, l) == [w \in Words |-> d[<<l, w>>]]

Op == [kind : OpKinds, rng : (SUBSET Addr) \ {{}}, val : Values]
NoOp == [kind |-> "None", rng |-> {}, val |-> InitValue]

LineOf(o)  == (CHOOSE a \in o.rng : TRUE)[1]
FullLine(o) == o.rng = LineAddr(LineOf(o))

\* gp.get_address(): the first address of the access
StartAddr(o) == <<LineOf(o),
                  CHOOSE w \in Words : /\ <<LineOf(o), w>> \in o.rng
                                      /\ \A a \in o.rng : w <= a[2]>>
IsExclusive(o) == o.kind \in {"LoadEx", "StoreEx"}

CONSTANT Traffics             \* the loads to look at: for each master, the
                              \* accesses that its initiator may make

(***************************************************************************)
(* Accesses of a cache stay within a cacheline (its load and store loops   *)
(* advance one line at a time); cache maintenance covers exactly one line; *)
(* only a WriteBack cache supports exclusives; an ACE-Lite master issues   *)
(* reads and writes only.                                                  *)
(***************************************************************************)
ASSUME TrafficAssumption ==
    \A t \in Traffics :
        /\ t \in [Masters -> SUBSET Op]
        /\ \A c \in Caches : \A o \in t[c] :
              /\ o.rng \subseteq LineAddr(LineOf(o))
              /\ o.kind \in CmoKinds => FullLine(o)
              /\ IsExclusive(o) => c \in WriteBackCaches /\ LineOf(o) \notin NonShareable
        /\ \A m \in LiteMasters : \A o \in t[m] : o.kind \in {"Load", "Store"}

=============================================================================
