SPECIFICATION FairSpec
CONSTANTS
    w1 = w1
    w2 = w2
    t1 = t1
    e1 = e1
    A = A
    B = B
    N = N
    WriteBackCaches = {w1}
    WriteThroughCaches = {t1}
    LiteMasters = {e1}
    Lines = {A}
    Width = 1
    Values = {0, 1, 2}
    InitValue = 0
    Index <- OneSlot
    NonShareable = {}
    Traffics <- OneValue
PROPERTIES AccessCompletes ImplementsOrderer
