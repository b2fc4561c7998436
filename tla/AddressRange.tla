---------------------------- MODULE AddressRange ----------------------------
(***************************************************************************)
(* The address arithmetic of iconnect_ace::Transaction: a transaction      *)
(* covers len bytes from addr on, and len is not zero.                     *)
(***************************************************************************)
EXTENDS Naturals

AddressRanges == [addr : Nat, len : Nat \ {0}]

\* Transaction::InAddressRange
InAddressRange(r, a) == r.addr <= a /\ a < r.addr + r.len

\* The bytes of a range.
Bytes(r) == {a \in Nat : InAddressRange(r, a)}

\* The test of is_overlapping and restart_overlapping, for the transaction r
\* they are called with and a transaction q of the list they go through.
InRangeOf(r, q) ==
    \/ InAddressRange(q, r.addr)
    \/ InAddressRange(q, r.addr + r.len - 1)
    \/ InAddressRange(r, q.addr)
=============================================================================
