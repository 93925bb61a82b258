\* Three requests on a board of two columns and three tasks; a gap is halved once.
CONSTANTS
  r1 = r1  r2 = r2  r3 = r3  k1 = k1  k2 = k2  k3 = k3
  Calls = {r1, r2, r3}
  Columns = {k1, k2, k3}
  Tasks = {1, 2, 3}
  FirstColumns = {k1}
  FirstColumn = k1
  FirstPlaces <- Crowded
  MaxColumns = 2
  One = 2
SPECIFICATION Spec
INVARIANT ColumnCap
INVARIANT PlacedApart
PROPERTY OrderSurvives
SYMMETRY SymBoard
CHECK_DEADLOCK FALSE
