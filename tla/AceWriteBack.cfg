SPECIFICATION Spec
CONSTANTS
    w1 = w1
    w2 = w2
    t1 = t1
    e1 = e1
    A = A
    B = B
    N = N
    WriteBackCaches = {w1, w2}
    WriteThroughCaches = {}
    LiteMasters = {}
    Lines = {A, B}
    Width = 2
    Values = {0, 1, 2}
    InitValue = 0
    Index <- OneSlot
    NonShareable = {}
    Traffics <- TwoCaches
INVARIANTS TypeOK UniqueIsAlone OneOwner LockHasOwner
PROPERTY Linearizable
