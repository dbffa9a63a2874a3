SPECIFICATION HomeSpec
CONSTANTS
  p1 = p1
  p2 = p2
  Home = c1
  Points = {p1, p2}
  TypeOf <- MCTypeOf
  Cities = {c1}
  Coordinates = {x}
  Modes = {driving}
  Editors = {a1}
  Runs = {r1}
  MaxEdits = 2
  MaxFaults = 1
SYMMETRY Interchangeable
INVARIANTS
  CoordinatesRequired
