CONSTANTS
  a = a
  b = b
  List = List
  None = None
  Apps = {a, b}
  Sourced = {a}
  MaxLoads = 1
  MaxOps = 2
  MaxMixed = 0
  MaxDeploys = 1
  MaxFailures = 1
  Kinds = {"deploy", "access", "settings", "delete"}
  Tabs = {"overview", "settings"}
SPECIFICATION FairSpec
INVARIANTS
  TypeOK
  ShownIsRouted
  AddressesOfShown
  BusyExplained
PROPERTIES
  EndIsShown
  DeployIsShown
