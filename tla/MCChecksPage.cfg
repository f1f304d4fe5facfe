\* One page with two loads under way.
CONSTANTS
  Ids = {i1, i2, i3}
  NoId = none
  Loads = {l1, l2}
  MaxFaults = 3
SPECIFICATION Spec
SYMMETRY Symmetry
INVARIANTS
  TypeOK
  QuietPageIsRight
