CONSTANTS
  a = a
  b = b
  c = c
  Replicas = {a, b, c}
  Keys = {k1, k2}
  vnodes = 2
  lexical <- MCLexical
  Points = {0, 1, 2, 3, 4, 5, 6}
  Positions <- MCPositions
  MaxReplicas = 3
SPECIFICATION Spec
INVARIANTS
  TypeOK
  RoutedToMember
PROPERTIES
  MovesOnlyIfItMust
SYMMETRY MCSymmetry
