SPECIFICATION OrdSpec
CONSTANTS
    Txs = {p1, p2, p3, p4}
    LastByte = 2
    Ranges <- SmallRanges
    NoRange = NoRange
    Classes = {"snoop", "dvm", "plain"}
    InRange <- InRangeOf
INVARIANTS StalledHasBlocker SnoopingDisjoint OrdInv
