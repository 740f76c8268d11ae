SPECIFICATION Spec
CONSTANTS
  Users = {u1, u2}
  Resources <- MCResources
  Amounts = {1}
  Plans <- MCPlans
  Limits <- MCLimits
  Catalogue <- MCCatalogue
  Workers = {w1, w2}
  MaxResource = 2
  MaxEdits = 2
  None = None
SYMMETRY Symmetry
INVARIANTS TypeOK
PROPERTIES CounterStaysExact ReservedWithinLimit
