SPECIFICATION FairProvSpec
CONSTANTS
  HoldPasses = 2
  Window = 2
  Command <- MCCommand
  CommandSize = 4
  Keyboard = {"p", "a"}
  MaxFaults = 3
  MaxErasures = 1
  MaxTime = 5
INVARIANTS PairedStaysPaired CredentialsAreWhole OneDisclosurePerWindow CommandFits
PROPERTY BootRecovers
