----------------------------- MODULE MCTxOrderer -----------------------------
(***************************************************************************)
(* TxOrderer with the interconnect's own overlap test, for transactions    *)
(* over a few bytes.                                                       *)
(***************************************************************************)
EXTENDS TxOrderer, AddressRange

CONSTANT LastByte           \* the highest byte address

\* Every range of one to LastByte + 1 bytes.
SmallRanges == {r \in [addr : 0..LastByte, len : 1..(LastByte + 1)] :
                    r.addr + r.len <= LastByte + 1}
=============================================================================
