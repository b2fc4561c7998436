----------------------------- MODULE MCAceSystem -----------------------------
(***************************************************************************)
(* Small instances of AceSystem for TLC.                                   *)
(***************************************************************************)
EXTENDS AceSystem

CONSTANTS w1, w2,     \* WriteBack caches
          t1,         \* a WriteThrough cache
          e1,         \* an ACE-Lite master
          A, B, N     \* cacheline addresses; N in the non-shareable region

OneSlot == [l \in Lines |-> 0]  \* every line in the same slot

\* Access of words ws of the lines ls.
Access(k, ls, ws, v) == [kind |-> k, rng |-> ls \X ws, val |-> v]
Load(l)     == Access("Load", {l}, Words, InitValue)
Store(l, v) == Access("Store", {l}, Words, v)

\* The accesses of w1, w2, t1 and e1, of which an instance may leave some out.
Traffic(forW1, forW2, forT1, forE1) ==
    [m \in Masters |-> CASE m = w1 -> forW1 [] m = w2 -> forW2
                         [] m = t1 -> forT1 [] OTHER -> forE1]

\* Stores of distinct masters are told apart by their values: whole-line loads
\* and stores by a master of every type.
WholeLine(v) == {Load(A), Store(A, v)}
WholeLines == Traffic(WholeLine(1), {}, WholeLine(2), {Store(A, 2)})

\* One value, for questions that data does not matter to: caches load and
\* store, ACE-Lite masters store.
OneValue == {Traffic(WholeLine(InitValue), {}, WholeLine(InitValue), {Store(A, InitValue)})}

\* w1 stores to part of line A, w2 to part and to all of it; line B is loaded,
\* which evicts A from its slot.
Conflicts ==
    Traffic({Load(A), Load(B), Access("Store", {A}, {0}, 1)},
            {Load(A), Load(B), Access("Store", {A}, {1}, 1), Store(A, InitValue)}, {}, {})

\* ACE-Lite transfers over two lines.
Bursts ==
    Traffic({Load(A), Store(A, 1), Store(B, 1)}, {}, {},
            {Access("Load", {A, B}, Words, InitValue), Access("Store", {A, B}, Words, 2)})

\* w1 uses exclusive accesses, w2 plain ones.
Exclusives(v) ==
    {Access("LoadEx", {A}, Words, InitValue), Access("StoreEx", {A}, Words, v), Load(A)}
OneExclusive == Traffic(Exclusives(1), {Load(A), Store(A, 2)}, {}, {})

\* Exclusive accesses by both caches.
AllExclusive == {Traffic(Exclusives(1), Exclusives(2), {}, {})}

\* Stores to all and to part of line A, cache maintenance of it, and accesses
\* of the non-shareable line N, which w1 stores to.
CleanShared(l) == Access("CleanShared", {l}, Words, InitValue)
CleanInvalid(l) == Access("CleanInvalid", {l}, Words, InitValue)
Maintenance ==
    Traffic({Load(A), Access("Store", {A}, {0}, 1), CleanShared(A), Access("Store", {N}, {0}, 1)},
            {},
            {Load(A), Access("Store", {A}, {1}, 1), CleanInvalid(A), Access("Load", {N}, {0}, InitValue)},
            {})

TwoCaches == {Conflicts, OneExclusive}
ThreeTypes == {WholeLines, Bursts, Maintenance}

\* What the theorems of AceCoherence_proofs and AceData_proofs ask of a load,
\* all but one of these give.
ASSUME MildLoads ==
    /\ LiteShareable
    /\ Traffics # AllExclusive => OneExclusiveUser /\ LinesMeet /\ NothingDiscarded
=============================================================================
