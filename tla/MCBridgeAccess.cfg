SPECIFICATION Spec
CONSTANTS
    c1 = c1
    c2 = c2
    Connections = {c1, c2}
    Paired = {c1}
    ClientNonces = {"x"}
    Kinds <- AllKinds
    MaxUnread = 1
    MaxUnits = 4
INVARIANTS ServerTypeOK SingleClient SlotIsOwned GrantedIsPaired RpcHasItsClient
PROPERTY SessionOnlyAdvances
