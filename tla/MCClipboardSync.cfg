SPECIFICATION Spec
CONSTANTS
  Server = s
  Clients = {a, b}
  Texts <- MCTexts
  Kept <- MCKept
  Machines <- MCMachines
  Starts <- MCStarts
  MaxCopies = 2
  MaxFaults = 2
INVARIANTS
  TypeOK
  WholeTexts
  ClientsAgree
  ServerLosesOnlyItsOwn
  CalmCopySpreads
  SentOncePerChange
SYMMETRY Symmetry
CHECK_DEADLOCK FALSE
