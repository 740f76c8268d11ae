SPECIFICATION Spec
CONSTANTS
  Stores = {s1}
  Customs = {d1, d2}
  Hosts = {h1, h2}
  Workers = {w1, w2}
  None = None
SYMMETRY Symmetry
INVARIANTS TypeOK CacheIsCurrent
PROPERTIES PrimaryKept
