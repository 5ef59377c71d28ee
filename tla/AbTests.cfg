SPECIFICATION Spec
CONSTANTS
  TestIds = {x}
  Procs = {p, q}
  NVariants = 2
  Seeds = {1, 2}
  NoProc = NoProc
  NoTest = NoTest
  MaxCampaigns = 3
  MaxLists = 4
  Budgets <- Troubles
SYMMETRY Symmetry
INVARIANTS
  TypeOK
  
  OneSplit
  ProvisionedIsComplete
  
  StoppedIsQuiet
  
PROPERTIES
  SplitStable
  DeletedIsGone
CHECK_DEADLOCK FALSE
