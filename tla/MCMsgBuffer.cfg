SPECIFICATION PoolSpec
CONSTANTS
  Bufsize = 3
  Threads = {main, server, client}
INVARIANTS
  NeverNull
  Exclusive
