SPECIFICATION FairSpec
CONSTANTS
  Stores = {s1}
  Customs = {d1}
  Hosts = {h1}
  Workers = {w1, w2}
  None = None
PROPERTIES NeverWithoutPrimary
