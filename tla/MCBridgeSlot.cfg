SPECIFICATION FairSpec
CONSTANTS
    c1 = c1
    c2 = c2
    Connections = {c1}
    Paired = {c1}
    ClientNonces = {"x"}
    Kinds <- FewKinds
    MaxUnread = 3
    MaxUnits = 6
INVARIANT RawStreamIntact
PROPERTY SlotIsFreed
