SPECIFICATION LinkFairSpec
CONSTANTS
    Sides = {"rn", "hn"}
    Links <- ThreeLinks
    Used <- OneLink
    MaxCredits = 2
    MaxPackets = 2
    MaxList = 2
    MaxChanges = 2
    MaxResets = 1
INVARIANTS LinkTypeOK CreditsConserved StoppedIsEmpty InOrder MonitorAgrees
PROPERTY LinkSettles
