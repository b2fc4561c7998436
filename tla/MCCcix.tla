------------------------------- MODULE MCCcix -------------------------------
(***************************************************************************)
(* Small instances of CcixPort: every operation by itself, and operations  *)
(* that meet.                                                              *)
(***************************************************************************)
EXTENDS CcixPort

Mem(device, endpoint, ewa, cacheable, allocate) ==
    [device |-> device, endpoint |-> endpoint, ewa |-> ewa,
     cacheable |-> cacheable, allocate |-> allocate]
\* Device memory without Endpoint_Order has EWA (assert in GetReqAttrMemType).
Device == {Mem(TRUE, TRUE, w, FALSE, FALSE) : w \in BOOLEAN} \cup {Mem(TRUE, FALSE, TRUE, FALSE, FALSE)}
Cached == Mem(FALSE, FALSE, TRUE, TRUE, TRUE)
Normal == {Mem(FALSE, FALSE, TRUE, FALSE, FALSE), Mem(FALSE, FALSE, TRUE, TRUE, FALSE), Cached}

CHI(op, l, off, size, mem) ==
    [op |-> op, sub |-> 0, snpMe |-> FALSE, mem |-> mem, addr |-> l * CachelineSz + off,
     size |-> size, ns |-> FALSE, ack |-> ExpCompAck(op), ones |-> {}]
Whole(op, l) == CHI(op, l, 0, CachelineSz, Cached)
Acked(c) == [c EXCEPT !.ack = TRUE]
Atomic(op, l, sub, snpMe, off, size) ==
    [CHI(op, l, off, size, Cached) EXCEPT !.sub = sub, !.snpMe = snpMe]

L == 1
One(reqs, copy) ==
    Scenario(<<reqs, <<>>>>, [p \in Chips |-> [l \in Lines |-> IF p = 1 /\ l = L THEN copy ELSE "I"]],
             <<<<>>, <<>>>>)
WithLocals(s, snps) == [s EXCEPT !.locals[2] = [i \in DOMAIN snps |-> [line |-> L, snp |-> snps[i]]]]

\* Every operation, on a line that the requester holds as the operation needs.
Alone ==
    {One(<<Whole(op, L)>>, "I") : op \in Reads \cup {"MakeUnique", "WriteUniqueFull", "WriteNoSnpFull"}}
    \cup {One(<<Whole(op, L)>>, copy) : op \in {"CleanUnique", "CleanShared", "Evict"}, copy \in {"SC"}}
    \cup {One(<<Whole(op, L)>>, "I") : op \in {"CleanSharedPersist", "CleanInvalid", "MakeInvalid"}}
    \cup {One(<<Whole("WriteBackFull", L)>>, copy) : copy \in {"UD", "SD", "UC"}}
    \cup {One(<<Whole("WriteCleanFull", L)>>, copy) : copy \in {"UD", "SD"}}
    \cup {One(<<Whole("WriteBackPtl", L)>>, "UDP"), One(<<Whole("WriteEvictFull", L)>>, "UC"),
          One(<<Acked(Whole("WriteUniqueFull", L))>>, "I"), One(<<Acked(Whole("WriteUniquePtl", L))>>, "I"),
          One(<<[Whole("WriteBackPtl", L) EXCEPT !.ones = {0, 3}]>>, "UDP"),
          One(<<[Whole("WriteNoSnpFull", L) EXCEPT !.ns = TRUE]>>, "I")}
    \cup {One(<<CHI("WriteNoSnpPtl", L, off, n, mem)>>, "I") :
             off \in {0, 8, 16, 28}, n \in {16, 32}, mem \in Device \cup Normal}
    \cup {One(<<CHI("ReadNoSnp", L, off, n, mem)>>, "I") :
             off \in {0, 8, 16, 28}, n \in {16, 32}, mem \in Device}
    \cup {One(<<CHI("ReadNoSnp", L, off, n, mem)>>, "I") :
             off \in {0, 3, 8}, n \in {1, 4, 8}, mem \in Device}
    \cup {One(<<CHI("ReadNoSnp", L, off, n, mem)>>, "I") :
             off \in {0, 32}, n \in {1, 4, 8, 16, 32}, mem \in Normal}
    \cup {One(<<CHI("WriteUniquePtl", L, off, n, Cached)>>, "I") : off \in {0, 32, 35}, n \in {16, 32}}
    \cup {One(<<Atomic(op, L, sub, me, 8, 8)>>, "I") :
             op \in {"AtomicStore", "AtomicLoad"}, sub \in 0..7, me \in BOOLEAN}
    \cup {One(<<Atomic(op, L, 0, me, off, n)>>, "I") :
             op \in {"AtomicSwap", "AtomicCompare"}, me \in BOOLEAN, off \in {0, 8}, n \in {4, 8}}
    \cup {One(<<[Atomic(op, L, 0, FALSE, off, n) EXCEPT !.mem = mem]>>, "I") :
             op \in Atomics, off \in {0, 8}, n \in {2, 8}, mem \in Device \cup Normal}

Snoops == {"SnpOnce", "SnpClean", "SnpShared", "SnpNotSharedDirty", "SnpUnique", "SnpCleanInvalid",
           "SnpCleanShared", "SnpMakeInvalid"}
\* A snoop of the home, whatever the copy.
Snooped ==
    {WithLocals(One(<<>>, copy), <<snp>>) : copy \in {"SC", "UC", "UD", "SD", "UDP"}, snp \in Snoops}

\* Requests of both chips, with snoops between: a write back that a snoop and a
\* read of the same line overtake; atomics that snoop the requester; WriteUniques
\* whose CompAck and data come in either order; two lines at a time.
Together ==
    {WithLocals(One(<<Whole("WriteBackFull", L), Whole("ReadShared", L)>>, "UD"), <<snp>>) :
        snp \in {"SnpUnique", "SnpShared"}}
    \cup {WithLocals(One(<<Atomic(op, L, 0, TRUE, 0, 8)>>, copy), <<"SnpShared">>) :
        op \in {"AtomicStore", "AtomicSwap"}, copy \in {"UD", "SC"}}
    \cup {WithLocals(One(<<Whole("ReadUnique", L), Whole("WriteBackFull", L), Whole("Evict", 2)>>, "I"),
                     <<"SnpUnique">>)}
    \cup {One(<<Acked(Whole("WriteUniqueFull", L)), Whole("ReadOnce", 2)>>, "I")}
    \cup {[One(<<Whole(a, L)>>, "I") EXCEPT !.reqs[2] = <<Whole(b, L)>>] :
        a \in {"ReadUnique", "MakeUnique"}, b \in {"ReadShared", "WriteUniqueFull"}}
    \cup {WithLocals([One(<<Whole("WriteUniqueFull", L), Whole("WriteCleanFull", 2)>>, "I") EXCEPT
                         !.copies[1][2] = "UD", !.reqs[2] = <<Whole("ReadShared", L)>>],
                     <<"SnpUnique">>)}

\* Left out of Alone: writes of at most 8 bytes with byte enables, whose data does
\* not survive the flit (ParseByteEnables, pkts.h:325), and reads of normal memory
\* that are shorter than a line and not aligned to their size, whose data arrives
\* at the address and not at the aligned address (GenerateCHIData, ccixport.h:1520).
CcixScenarios == Alone \cup Snooped \cup Together
=============================================================================
