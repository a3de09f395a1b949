SPECIFICATION Spec
CONSTANTS
    c1 = c1
    c2 = c2
    Connections = {c1, c2}
    Paired = {c1}
    ClientNonces = {"x"}
    Kinds <- SessionKinds
    MaxUnread = 1
    MaxUnits = 4
PROPERTY BusyMeansSecondClient
