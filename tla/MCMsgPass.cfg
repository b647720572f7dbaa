SPECIFICATION Spec
CONSTANTS
    HostC = 3
    Maxmsgbufs = 2
    All = All
    Junk = Junk
    ErrmsgCode = 1
    Programs <- MCPrograms
    Tags = {1, 2}
INVARIANT BcastInOrder
INVARIANT ReduceExact
PROPERTY UnreadKept
PROPERTY WaitingNotOvertaken
PROPERTY BcastReachesAll
