SPECIFICATION ChiSpec
CONSTANTS
    c1 = c1
    c2 = c2
    o1 = o1
    x = x
    y = y
    w1 = w1
    w2 = w2
    Caches = {c1, c2}
    Outside = {o1}
    Lines = {x, y}
    Words = {w1, w2}
    Modulus = 3
    NumIDs = 4
    Modes <- SafeModes
INVARIANTS ChiTypeOK ChiUniqueIsAlone FilterCoversHolders MessagesAreExpected
           OneSlaveRequest CheckerIsSilent RestIsCoherent
PROPERTY LoadsAreCurrent
