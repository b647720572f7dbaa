SPECIFICATION CacheSpec
CONSTANTS
  Cachepages = 3
  Pages = {p1, p2, p3, p4}
  NoPage = NoPage
INVARIANTS
  CacheIndexed
  DirtyKept
