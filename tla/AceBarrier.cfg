SPECIFICATION BarSpec
CONSTANTS
    Barriers = b
    Others = {g1, g2}
    Spawned = s
INVARIANT BarTypeOK
PROPERTY PairAnswersBoth
