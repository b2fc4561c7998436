-------------------------------- MODULE MCAxi --------------------------------
(***************************************************************************)
(* Small instances of AxiSystem.  A bus has four bytes, a page sixteen.    *)
(***************************************************************************)
EXTENDS AxiSystem, TLC

Payload(addr, len, sw, bw, wrap, disabled) ==
    [addr |-> addr, len |-> len, sw |-> sw, bw |-> bw, wrap |-> wrap, disabled |-> disabled]
Transaction(kind, id, p, answer) == [kind |-> kind, id |-> id, p |-> p, answer |-> answer]
Scenario(ace, axi3, txns, n) == [ace |-> ace, axi3 |-> axi3, txns |-> txns, resets |-> n]

Incr(addr, len) == Payload(addr, len, len, 0, FALSE, {})
Word(page) == Incr(Page * page, Bus)
Tx(kind, id, page) == Transaction(kind, id, Word(page), "OK")
Wide(kind, id, page) == Transaction(kind, id, Incr(Page * page, 2 * Bus), "OK")

\* One transaction of each shape that the bridges carry: incrementing bursts at
\* any address, on the whole bus; narrow ones; fixed ones; wrapping ones from
\* their boundary; disabled bytes; each response; and invalid ones.
Both(p) == {Transaction("Read", 1, p, "OK"), Transaction("Write", 1, p, "OK")}
Shapes ==
    UNION {Both(Incr(a, n)) : a \in 16..19, n \in 1..9}
    \cup {Transaction("Read", 1, Payload(a, n, n, bw, FALSE, {}), "OK") :
             a \in 16..19, n \in 1..4, bw \in {1, 2}}
    \cup {Transaction("Write", 1, Payload(a, 2, 2, 2, FALSE, {}), "OK") : a \in {16, 18}}
    \cup UNION {Both(Payload(16, n * sw, sw, bw, FALSE, {})) :
             n \in {2, 3}, sw \in {1, 2, 4}, bw \in {0}}
    \cup UNION {Both(Payload(18, 3, 2, 2, FALSE, {}))}
    \cup UNION {Both(Payload(16, n, n, 0, TRUE, {})) : n \in {8, 16}}
    \cup UNION {Both(Payload(17, 6, 6, 0, FALSE, d)) : d \in SUBSET {0, 2, 3}}
    \cup {Transaction(kind, 1, Word(1), a) : kind \in {"Read", "Write"},
             a \in {"EXCLUSIVE_OK", "ADDRESS_ERROR", "GENERIC_ERROR"}}
    \cup UNION {Both(Payload(16, 4, 4, 3, FALSE, {})), Both(Incr(16, 0)), Both(Incr(16, 40))}

\* Several transactions at a time: of the same and of other IDs and pages, more
\* than the slave takes, with both versions of the protocol and resets.
Together ==
    {Scenario(FALSE, FALSE, <<Wide("Read", 1, 1), Tx("Read", i, p), Tx("Read", 2, 2)>>, 0) :
        i \in {1, 3}, p \in {1, 3}}
    \cup {Scenario(FALSE, v, <<Wide("Write", 1, 1), Tx("Write", i, p), Tx("Write", 2, 2)>>, 0) :
        v \in BOOLEAN, i \in {1, 3}, p \in {1, 3}}
    \cup {Scenario(a, FALSE, <<Wide("Read", 1, 1), Wide("Write", 1, 1), Tx("Write", i, 2)>>, 1) :
        a \in BOOLEAN, i \in {1, 3}}

\* ACE: a pair of barriers; a barrier of each channel among other transactions.
Barriers ==
    {Scenario(TRUE, FALSE, <<Tx("ReadBarrier", 9, 1), Tx("WriteBarrier", 9, 1), Tx("Evict", 2, 2)>>, 0),
     Scenario(TRUE, FALSE, <<Tx("ReadBarrier", 9, 1), Tx("Clean", 1, 1), Wide("Read", 2, 2)>>, 0)}
    \cup {Scenario(TRUE, FALSE, <<Tx("WriteBarrier", 9, 1), Wide("Write", 1, 1), Tx(kind, 2, 2)>>, 0) :
             kind \in {"Write", "WriteBack", "Evict"}}

AxiScenarios ==
    {Scenario(FALSE, FALSE, <<t>>, 0) : t \in Shapes} \cup Together \cup Barriers

\* What the theorems of AxiOrder_proofs ask of the writes, these give.
ASSUME WholeScenarios == WholeBursts
=============================================================================
