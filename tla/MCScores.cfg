\* Two users of one group, two problems; two requests may overlap.
CONSTANTS
  u1 = u1
  u2 = u2
  p1 = p1
  p2 = p2
  Users = {u1, u2}
  Buyers = {u1}
  Problems = {p1, p2}
  g1 = g1
  Groups = {g1}
  group <- MCGroup
  score <- MCScore
  Costs <- MCCosts
  Slots = {s1, s2}
  MaxAccepted = 2
  MaxFailures = 1
SPECIFICATION Spec
SYMMETRY Symmetric
INVARIANTS SpendsOnlyEarned HintsArePaidFor NoFreeHints GroupScoreIsSum
