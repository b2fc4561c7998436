----------------------------- MODULE ChiProtocol -----------------------------
(***************************************************************************)
(* What the request nodes (cache_chi), the home node (iconnect_chi) and    *)
(* the slave node (SlaveNode_F) have in common: lines and words, request   *)
(* opcodes and their classes, responses.  Node IDs, QoS, security and      *)
(* trace attributes are left out; a message is addressed by the channel it *)
(* is on, and transaction IDs by the transaction they stand for.           *)
(***************************************************************************)
EXTENDS Naturals, Sequences, FiniteSets, SequencesExt

CONSTANTS Caches,    \* the RN-F that are a cache_chi
          Outside,   \* RN-F ports with another requester behind the bridge
          Lines,     \* addresses of cachelines; a cache has a slot for one
          Words,     \* the words of a line
          Modulus,   \* a word holds 0 .. Modulus-1
          NumIDs,    \* transaction IDs of a request node
          Modes      \* the configurations and loads of the system to look at

Requesters == Caches \cup Outside
Values == 0 .. Modulus - 1

ASSUME ChiAssumption ==
    /\ Caches \cap Outside = {} /\ "HN" \notin Requesters /\ IsFiniteSet(Requesters)
    /\ Lines # {} /\ Words # {}
    /\ Modulus \in Nat \ {0}
    /\ NumIDs \in Nat \ {0}
    /\ \A m \in Modes :
          m.dct \in BOOLEAN /\ m.inOrder \in BOOLEAN /\ m.evicts \subseteq BOOLEAN

\* The TxChannel lists of the nodes: what a requester sends to the home node,
\* what it gets, and the same between the home node and the slave node.
VARIABLES up,      \* [Requesters -> [req, rsp, dat : Seq]]
          down,    \* [Requesters -> [rsp, dat, snp : Seq]]
          toSN,    \* requests to the slave node
          snData,  \* write data to the slave node
          fromSN   \* [rsp, dat : Seq]

\* How the system is set up: dct as EnableDCT sets it; inOrder whether a request
\* to the slave node never overtakes write data; what the random numbers
\* of the caches choose from (SetRandomize), the opcodes of a load miss, the
\* ways of a store miss ("allocate", "unique") and the answers that
\* InvalidateCacheLine gets; the accesses each requester makes and how many.
VARIABLE mode

channels == <<up, down, toSN, snData, fromSN>>

Data == [Words -> Values]
ZeroData == [w \in Words |-> 0]

\* A message: opcode, response state, whether the duty to write back passes,
\* data with its byte enables, and the node that data goes to.
Msg(t, st, pd, data, be, to) ==
    [t |-> t, st |-> st, pd |-> pd, data |-> data, be |-> be, to |-> to]
Rsp(t, st, pd) == Msg(t, st, pd, ZeroData, {}, "HN")
Put(ch, n, k, m) == [ch EXCEPT ![n][k] = Append(@, m)]
Drop(ch, n, k) == [ch EXCEPT ![n][k] = Tail(@)]

\* An access of the words ws of a line; wide if its length covers the line.
\* kind is Load or Store for a cacheable access, WriteNoSnp in a nonshareable
\* region, or else the opcode of the request that it becomes.
Access(kind, l, ws, val, wide) ==
    [kind |-> kind, line |-> l, ws |-> ws, val |-> val, wide |-> wide]
NoOp == Access("none", CHOOSE l \in Lines : TRUE, {}, 0, FALSE)

\* Data bytes d of which be are enabled, written over old.
Merge(old, d, be) == [w \in Words |-> IF w \in be THEN d[w] ELSE old[w]]

(***************************************************************************)
(* Classes of request opcodes.                                             *)
(***************************************************************************)
IsReadOnce(op) == op \in {"ReadOnce", "ReadOnceCleanInvalid", "ReadOnceMakeInvalid"}
IsNonCoherentRead(op) == IsReadOnce(op) \/ op = "ReadNoSnp"
AllocatesCacheLine(op) ==
    op \in {"ReadClean", "ReadNotSharedDirty", "ReadShared", "ReadUnique"}
IsSnpRead(op) == IsReadOnce(op) \/ AllocatesCacheLine(op)
IsRead(op) == IsSnpRead(op) \/ op = "ReadNoSnp"
IsCacheMaintenance(op) ==
    op \in {"CleanShared", "CleanSharedPersist", "CleanInvalid", "MakeInvalid"}
IsStashOnce(op) == op \in {"StashOnceUnique", "StashOnceShared"}
IsDataLess(op) ==
    \/ op \in {"CleanUnique", "MakeUnique", "Evict"}
    \/ IsCacheMaintenance(op) \/ IsStashOnce(op)
IsCopyBack(op) ==
    op \in {"WriteBackFull", "WriteBackPtl", "WriteCleanFull", "WriteEvictFull"}
IsWriteUnique(op) ==
    op \in {"WriteUniqueFull", "WriteUniquePtl", "WriteUniqueFullStash",
            "WriteUniquePtlStash"}
IsWrite(op) ==
    IsCopyBack(op) \/ IsWriteUnique(op) \/ op \in {"WriteNoSnpFull", "WriteNoSnpPtl"}

\* The sub-opcode ADD is zero: AtomicStoreADD is the enumerator AtomicStore.
IsAtomicStore(op) == op = "AtomicStoreADD"
IsAtomicNonStore(op) == op \in {"AtomicLoadADD", "AtomicSwap"}
IsAtomic(op) == IsAtomicStore(op) \/ IsAtomicNonStore(op)

\* Mutant: no other cache hears of a CleanUnique.
IsSnoopingReq_NoClean(op) ==
    \/ IsSnpRead(op) \/ IsWriteUnique(op) \/ IsStashOnce(op)
    \/ IsDataLess(op) /\ op \notin {"Evict", "CleanUnique"}
    \/ op \in {"AtomicStoreADD", "AtomicLoadADD", "AtomicSwap", "DVMOp"}
\* ReqTxn::IsSnoopingReq compares with the enumerators, not with the ranges of
\* the sub-opcodes: another atomic than these would not be snooped.
IsSnoopingReq(op) ==
    \/ IsSnpRead(op) \/ IsWriteUnique(op) \/ IsStashOnce(op)
    \/ IsDataLess(op) /\ op # "Evict"
    \/ op \in {"AtomicStoreADD", "AtomicLoadADD", "AtomicSwap", "DVMOp"}

\* SnpAttr as the constructors of the transactions set it: ReadNoSnp and the
\* WriteNoSnp requests clear it, a DVM operation leaves it clear.
GetSnpAttr(op) == op \notin {"ReadNoSnp", "WriteNoSnpFull", "WriteNoSnpPtl", "DVMOp"}

(***************************************************************************)
(* The snoop a request causes: SnpMsg::GetOpcode, forwarding if allowed.   *)
(***************************************************************************)
SnoopOf(op) ==
    CASE op = "ReadOnce" -> "SnpOnce"
      [] op \in {"ReadOnceCleanInvalid", "ReadOnceMakeInvalid", "ReadUnique"} -> "SnpUnique"
      [] op = "ReadClean" -> "SnpClean"
      [] op = "ReadNotSharedDirty" -> "SnpNotSharedDirty"
      [] op = "ReadShared" -> "SnpShared"
      [] op \in {"CleanUnique", "CleanInvalid", "WriteUniquePtl"} -> "SnpCleanInvalid"
      [] op \in {"MakeUnique", "MakeInvalid", "WriteUniqueFull"} -> "SnpMakeInvalid"
      [] op \in {"CleanShared", "CleanSharedPersist"} -> "SnpCleanShared"
      [] op = "StashOnceUnique" -> "SnpStashUnique"
      [] op = "StashOnceShared" -> "SnpStashShared"
      [] op = "WriteUniqueFullStash" -> "SnpMakeInvalidStash"
      [] op = "WriteUniquePtlStash" -> "SnpUniqueStash"
      [] IsAtomic(op) -> "SnpUnique"
      [] OTHER -> "SnpDVMOp"

FwdOf(snp) ==
    CASE snp = "SnpOnce" -> "SnpOnceFwd"
      [] snp = "SnpClean" -> "SnpCleanFwd"
      [] snp = "SnpNotSharedDirty" -> "SnpNotSharedDirtyFwd"
      [] snp = "SnpShared" -> "SnpSharedFwd"
      [] snp = "SnpUnique" -> "SnpUniqueFwd"
      [] OTHER -> snp
FwdSnoops == {"SnpOnceFwd", "SnpCleanFwd", "SnpNotSharedDirtyFwd", "SnpSharedFwd",
              "SnpUniqueFwd"}
GetOpcode(op, allowSnpFwd) ==
    IF allowSnpFwd /\ ~IsAtomic(op) THEN FwdOf(SnoopOf(op)) ELSE SnoopOf(op)

=============================================================================
