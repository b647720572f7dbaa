SPECIFICATION Spec
CONSTANTS
  HostC = 2
  Maxhosts = 16
  Maxlocks = 64
  Locks = {0, 1}
  Pages <- MCPages
  Words <- MCWords
  PageOf <- MCPageOf
  HomeOf <- MCHomeOf
  Guard <- MCGuard
  MaxNotices = 2
  Programs <- FalseSharingPrograms
INVARIANTS
  ScopeConsistency
