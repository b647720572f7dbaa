SPECIFICATION Spec
CONSTANTS
  HostC = 3
  Maxhosts = 16
  Maxlocks = 64
  Locks = {2}
  Pages <- OnePage
  Words <- OneWord
  PageOf <- AtZero
  HomeOf <- HomeZero
  Guard <- GuardedBy2
  MaxNotices = 2
  Programs <- EarlyPrograms
INVARIANTS
  ScopeConsistency
