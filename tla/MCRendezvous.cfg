SPECIFICATION FairSpec
CONSTANTS
  HostC = 3
  Cvs = {1, 2}
  Programs <- MCPrograms
INVARIANTS
  WaitSeparation
  LoadAgreement
  GrantsAwaited
  MasterEndsLast
PROPERTIES
  AllEnd
