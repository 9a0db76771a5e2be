CONSTANTS
  None = None
  Asked = Asked
  Refused = Refused
  MaxVersion = 3
  MaxRefreshes = 3
  MaxLogouts = 2
  MaxFaults = 2
SPECIFICATION FairSpec
INVARIANTS
  TypeOK
  FormFits
  SessionsAgree
  NothingHalfShown
PROPERTIES
  Converges
