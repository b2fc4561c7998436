------------------------------- MODULE AxiBurst -------------------------------
(***************************************************************************)
(* Which bytes of a TLM payload travel on which lanes of which beat: the   *)
(* arithmetic of tlm2axi_bridge (master) and axi2tlm_bridge (slave).       *)
(*                                                                         *)
(* A payload p has an address addr, a length len, a streaming width sw, a  *)
(* burst width bw (0: the width of the bus), a flag wrap and the set of    *)
(* its disabled bytes.  Byte i of it belongs to address p.addr + i % p.sw. *)
(* What AR and AW carry of it is a record x: id, addr, beats (AxLEN + 1),  *)
(* size (bytes), burst and kind.                                           *)
(***************************************************************************)
EXTENDS Integers, Sequences, FiniteSetsExt

CONSTANT Bus                    \* DATA_WIDTH / 8, a power of two

ASSUME BusAssumption == Bus \in Nat \ {0}

Least(S) == Min(S)
Align(a, n) == (a \div n) * n
Address(p, i) == p.addr + (i % p.sw)

(***************************************************************************)
(* tlm2axi_bridge::Transaction.                                            *)
(***************************************************************************)
SetupBurstType(p) ==
    IF p.sw = p.len /\ p.wrap THEN "WRAP"
    ELSE IF p.sw >= p.len THEN "INCR" ELSE "FIXED"

\* The payloads whose burst type the bridge supports: of the others it reports an
\* error, and its transactions end there.
Supported(p) ==
    \/ p.sw >= p.len \/ p.sw = Bus
    \/ p.sw < Bus /\ (p.bw = 0 \/ p.bw >= p.sw)

\* The burst width, which a streaming width below that of the bus sets.
GetBurstWidth(p) ==
    IF p.bw # 0 THEN p.bw
    ELSE IF SetupBurstType(p) # "FIXED" \/ p.sw >= Bus THEN Bus
    ELSE IF p.sw = 1 THEN 1 ELSE Align(p.sw, 2)

\* SetupNumBeats
NumBeats(p) ==
    LET w == GetBurstWidth(p)
        off == p.addr % w
    IN  IF SetupBurstType(p) = "FIXED"
        THEN (p.len + w - off - 1) \div (w - off)
        ELSE (p.len + off + w - 1) \div w

\* The bytes that fit into a beat that begins with byte pos of the payload;
\* a beat of a write also ends with the streaming width.
BeatBytes(p, pos, first, isWrite) ==
    LET fixed == SetupBurstType(p) = "FIXED"
        off   == IF fixed THEN 0 ELSE pos
        a     == Address(p, off)
        w     == GetBurstWidth(p)
    IN  Least({Bus - (a % Bus), p.len - pos, w}
                \cup (IF isWrite THEN {p.sw - (off % p.sw)} ELSE {})
                \cup (IF fixed \/ first THEN {w - (a % w)} ELSE {}))

\* The lane of byte pos, the first one of its beat.
FirstLane(p, pos) ==
    Address(p, IF SetupBurstType(p) = "FIXED" THEN 0 ELSE pos) % Bus

\* prepare_wbeat: the strobed lanes of a beat and the payload byte on each.  The
\* byte enables of a fixed burst are those of its first beat.
prepare_wbeat(p, pos, first) ==
    LET lane == FirstLane(p, pos)
        off  == IF SetupBurstType(p) = "FIXED" THEN 0 ELSE pos
        used == {l \in lane..(lane + BeatBytes(p, pos, first, TRUE) - 1) :
                    off + (l - lane) \notin p.disabled}
    IN  [l \in used |-> pos + (l - lane)]

(***************************************************************************)
(* axi2tlm_bridge::Transaction, the payload that the slave makes of x.     *)
(***************************************************************************)
GetDataLen(x) ==
    IF x.burst = "FIXED" THEN x.beats * Bus
    ELSE (x.size - (x.addr % x.size)) + (x.beats - 1) * x.size

SlavePayload(x) ==
    [addr |-> IF x.burst = "FIXED" THEN Align(x.addr, Bus) ELSE x.addr,
     len  |-> GetDataLen(x),
     sw   |-> CASE x.burst = "INCR"  -> GetDataLen(x)
                [] x.burst = "FIXED" -> Bus
                [] OTHER             -> x.size * x.beats]

\* The lanes FillData looks at in a beat, when idx bytes have been filled.
FilledLanes(x, beat, idx) ==
    LET p == SlavePayload(x)
        first == IF beat = 1 THEN p.addr % Bus ELSE 0
    IN  first..(Least({Bus, first + p.len - idx}) - 1)

\* FillData: the bytes that a beat adds, an address and a byte of the master's
\* payload for every strobed lane, in order; other lanes are disabled bytes.
FillData(x, beat, idx, beatData) ==
    LET lanes == FilledLanes(x, beat, idx)
        lane(k) == Least(lanes) + k - 1
        all == [k \in 1..Cardinality(lanes) |->
                   IF lane(k) \in DOMAIN beatData
                   THEN <<Address(SlavePayload(x), idx + k - 1), beatData[lane(k)]>>
                   ELSE <<>>]
    IN  SelectSeq(all, LAMBDA b : b # <<>>)

\* GetData: the lanes that a beat of a read sets and the address of each.
ReadLanes(x, beat) ==
    IF x.burst = "FIXED" THEN 0..(Bus - 1)
    ELSE LET aligned == Align(x.addr, x.size)
             a == aligned + (beat - 1) * x.size
         IN  IF beat = 1
             THEN (x.addr % Bus)..(aligned + x.size - 1 - Align(x.addr, Bus))
             ELSE (a % Bus)..((a % Bus) + x.size - 1)

GetData(x, beat, idx) ==
    LET lanes == ReadLanes(x, beat)
    IN  [l \in lanes |-> Address(SlavePayload(x), idx + l - Least(lanes))]

(***************************************************************************)
(* CheckWstrb of the checkers, with gaps allowed: the lanes of a beat that *)
(* may be strobed.                                                         *)
(***************************************************************************)
CheckWstrb(x, beat, lanes) ==
    LET aligned == Align(x.addr, x.size)
        a == IF x.burst = "FIXED" THEN aligned ELSE aligned + (beat - 1) * x.size
    IN  lanes \subseteq
          IF beat = 1
          THEN (x.addr % Bus)..(aligned + x.size - 1 - Align(x.addr, Bus))
          ELSE (a % Bus)..((a % Bus) + x.size - 1)

check_address_alignment(x, page) ==
    LET aligned == Align(x.addr, x.size) IN
    /\ x.burst = "WRAP" => aligned = x.addr
    \* No burst crosses a page.
    /\ x.burst = "INCR" =>
          aligned \div page = (aligned + x.beats * x.size - 1) \div page

check_burst_length(x) == x.burst = "WRAP" => x.beats \in {2, 4, 8, 16}
=============================================================================
