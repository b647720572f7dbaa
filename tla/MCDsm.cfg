SPECIFICATION FairSpec
CONSTANTS
  HostC = 3
  Maxhosts = 16
  Maxlocks = 64
  Locks = {0, 1}
  Pages <- MCPages
  Words <- MCWords
  PageOf <- MCPageOf
  HomeOf <- MCHomeOf
  Guard <- MCGuard
  MaxNotices = 1
  Programs <- AllPrograms
INVARIANTS
  TypeOK
  MutualExclusion
  ManagerQueues
  ScopeConsistency
  BarrierConsistency
  BarrierSeparation
PROPERTIES
  Termination
