------------------------------ MODULE ChiSlave ------------------------------
(***************************************************************************)
(* The slave node SlaveNode_F in front of the memory.  Its tx_thread serves*)
(* m_txList in order and is the only initiator, so that a read or a write  *)
(* takes effect when it is put on the list.                                *)
(***************************************************************************)
EXTENDS ChiProtocol

VARIABLES memory,    \* the memory behind the slave node
          writes,    \* m_txn: writes whose data is to come, in the order of their DBIDs
          snToggle   \* m_toggle

snVars == <<memory, writes, snToggle>>

SnInit ==
    /\ memory = [l \in Lines |-> ZeroData]
    /\ writes = <<>>
    /\ snToggle = FALSE

Say(ms) == [fromSN EXCEPT !.rsp = @ \o ms]
SayOne(t) == Say(<<Rsp(t, "I", FALSE)>>)

\* b_transport_rxreq and RunResponsePhase.
SnRxReq ==
    LET m == Head(toSN)
        retry == m.retry /\ ~snToggle
    IN
    /\ toSN # <<>>
    /\ mode.inOrder => snData = <<>>
    /\ toSN' = Tail(toSN)
    /\ snToggle' = IF m.retry THEN ~snToggle ELSE snToggle
    /\ fromSN' =
          CASE retry -> Say(<<Rsp("RetryAck", "I", FALSE), Rsp("PCrdGrant", "I", FALSE)>>)
            [] ~retry /\ m.op = "ReadNoSnp" ->
                  [rsp |-> IF m.receipt THEN Append(fromSN.rsp, Rsp("ReadReceipt", "I", FALSE))
                                        ELSE fromSN.rsp,
                   dat |-> Append(fromSN.dat, Msg("CompData", "UC", FALSE, memory[m.line],
                                                  Words, m.to))]
            [] ~retry /\ IsAtomicNonStore(m.op) -> SayOne("DBIDResp")
            [] OTHER -> SayOne("CompDBIDResp")
    /\ writes' = IF retry \/ m.op = "ReadNoSnp" THEN writes ELSE Append(writes, m)
    /\ UNCHANGED <<up, down, snData, memory>>

\* AtomicOperations on a word, by an operand of the length of the word.
AtomicResult(o, old, operand) ==
    CASE o \in {"AtomicStoreADD", "AtomicLoadADD"} -> (old + operand) % Modulus
      [] o = "AtomicSwap" -> operand
      [] OTHER -> old

\* HandleAtomic.  DoAdd has no case for the length of a line and changes
\* nothing; a swap copies as many bytes, of which junk is what was in m_dataSlave
\* where no byte was enabled.  A line is taken from the address of the request on:
\* one that is not at the start of the line would run over the end of the arrays.
HandleAtomic(w, old, d, junk) ==
    IF ~w.whole THEN [x \in Words |-> AtomicResult(w.op, old[x], d.data[x])]
    ELSE IF w.op = "AtomicSwap" THEN Merge(junk, d.data, d.be) ELSE old

\* b_transport_rxdat and the data phase.
SnRxDat ==
    LET d == Head(snData)
        w == Head(writes)
        old == memory[w.line]
        be == IF IsAtomic(w.op) /\ w.whole THEN Words ELSE d.be
    IN
    /\ snData # <<>> /\ writes # <<>>
    /\ snData' = Tail(snData)
    /\ writes' = Tail(writes)
    /\ \E junk \in IF w.whole /\ w.op = "AtomicSwap" THEN Data ELSE {ZeroData} :
          LET new == IF IsAtomic(w.op) THEN HandleAtomic(w, old, d, junk) ELSE d.data IN
          memory' = [memory EXCEPT ![w.line] = Merge(old, new, be)]
    /\ fromSN' = IF IsAtomicNonStore(w.op)
                 THEN [fromSN EXCEPT !.dat = Append(@,
                          Msg("CompData", "I", FALSE, old, be, w.to))]
                 ELSE fromSN
    /\ UNCHANGED <<up, down, toSN, snToggle>>
=============================================================================
