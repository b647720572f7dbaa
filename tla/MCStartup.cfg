SPECIFICATION Spec
CONSTANTS
    m1 = m1
    m2 = m2
    m3 = m3
    a1 = a1
    a2 = a2
    a3 = a3
    lo = lo
    NoFile = NoFile
    Machines = {m1, m2, m3}
    Scenarios <- MCScenarios
    Maxhosts = 3
    Ports = {10, 20}
    MaxFailures = 2
INVARIANT Connected
INVARIANT StartedComplete
PROPERTY AllUp
\* the processes come up or end, and that is all
CHECK_DEADLOCK FALSE
