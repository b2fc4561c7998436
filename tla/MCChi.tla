-------------------------------- MODULE MCChi --------------------------------
(***************************************************************************)
(* Small instances of ChiSystem.                                           *)
(***************************************************************************)
EXTENDS ChiSystem, TLC

CONSTANTS c1, c2, o1, x, y, w1, w2

\* The hypothesis of SpecChiTypeOK.
ASSUME FlitsAreWide == FlitsKeepData

Allocating == {"ReadShared", "ReadClean", "ReadNotSharedDirty"}
Onces == {"ReadOnce", "ReadOnceCleanInvalid", "ReadOnceMakeInvalid"}
AnyRead == Allocating \cup Onces

Load(l, ws) == Access("Load", l, ws, 0, FALSE)
Store(l, ws, v) == Access("Store", l, ws, v, FALSE)
WideStore(ws, v) == Access("Store", x, ws, v, TRUE)
Other(kind, l) == Access(kind, l, {w1}, 1, FALSE)

\* dct, opcodes of a load miss, and for c1, c2 and o1 the accesses and how many.
Mode(d, reads, t1, n1, t2, n2, t3, n3) ==
    [dct |-> d, inOrder |-> FALSE, reads |-> reads, stores |-> {"allocate", "unique"}, evicts |-> BOOLEAN,
     traffic |-> (c1 :> t1) @@ (c2 :> t2) @@ (o1 :> t3),
     ops |-> (c1 :> n1) @@ (c2 :> n2) @@ (o1 :> n3)]

C1Word == {Load(x, {w1}), Store(x, {w1}, 1)}
C2Word == {Load(x, {w1}), Store(x, {w1}, 2)}
\* A load of the other line evicts this one from the slot.
Evicting == {Load(y, {w1}), Store(x, {w1}, 1)}
\* Stores that cover the line by their length, which leave it partly valid.
Partial == {WideStore({w1}, 1), WideStore(Words, 2), Load(x, {w2}), Load(y, {w1})}
Atomics == {"AtomicStoreADD", "AtomicLoadADD", "AtomicSwap"}
\* What a requester outside the caches sends; y is no line that a cache holds.
Various ==
    {Other(k, x) : k \in {"CleanShared", "CleanSharedPersist", "CleanInvalid", "ReadOnce",
        "StashOnceUnique", "StashOnceShared", "WriteUniquePtlStash"}}
    \cup {Other(k, y) : k \in {"ReadNoSnp", "WriteNoSnpPtl", "WriteNoSnp", "DVMOp"} \cup Atomics}
\* Atomics, writes and reads that meet on y.
Atomic == {Other(k, y) : k \in Atomics}
Beside == {Other(k, y) : k \in {"ReadOnce", "WriteUniquePtl"} \cup Atomics}

\* The same over channels on which requests do not overtake write data.
InOrder(modes) == {[m EXCEPT !.inOrder = TRUE] : m \in modes}

\* Two caches that load and store a word by every opcode; with direct cache
\* transfer, where no load allocates; with one slot for two lines; with partly
\* valid lines; against a requester outside; and with atomics of one line.
DataModes ==
    {Mode(FALSE, AnyRead, C1Word, 2, C2Word, 2, {}, 0),
     Mode(TRUE, {"ReadOnce"}, C1Word, 2, C2Word, 2, {}, 0),
     Mode(FALSE, {"ReadShared"}, Evicting, 2, C2Word, 2, {}, 0),
     Mode(FALSE, Allocating, Partial, 2, {Load(x, {w1})}, 1, {}, 0),
     Mode(FALSE, {"ReadShared"}, C1Word, 2, {}, 0, Various, 1),
     Mode(FALSE, {"ReadShared"}, Atomic, 1, Atomic, 1, Beside, 1)}

\* An atomic of a line that a cache may have stored to.  With one that has a
\* result (AtomicsHeld for Held) TLC finds a deadlock: its requester never ends.
Held == {Other("AtomicStoreADD", x)}
AtomicsHeld == {Other(k, x) : k \in Atomics}
HeldMode == Mode(FALSE, {"ReadShared"}, C1Word, 2, {}, 0, Held, 1)

\* These modes in either order, and atomics of a line held in the order of the code.
SafeModes == InOrder(DataModes) \cup DataModes \cup {HeldMode}

\* Smaller loads of the same kinds.
LiveModes ==
    {Mode(FALSE, AnyRead, C1Word, 1, C2Word, 1, {}, 0),
     Mode(TRUE, {"ReadOnce"}, C1Word, 1, C2Word, 1, {}, 0),
     Mode(FALSE, {"ReadShared"}, Evicting, 2, C2Word, 1, {}, 0),
     Mode(FALSE, {"ReadShared"}, C1Word, 1, {}, 0, Various, 1),
     Mode(FALSE, {"ReadShared"}, Atomic, 1, {}, 0, Beside, 1)}

\* Direct cache transfer, where a load allocates.
DirectModes ==
    InOrder({[Mode(TRUE, {"ReadShared"}, {Store(x, {w1}, 1), Load(y, {w1}), Load(x, {w1})}, 3,
           {Load(x, {w1}), Load(y, {w1})}, 2, {}, 0)
        EXCEPT !.stores = {"allocate"}, !.evicts = {FALSE}]})
=============================================================================
