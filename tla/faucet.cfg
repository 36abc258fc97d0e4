CONSTANTS
  Addresses = {a1, a2}
  Workers = {w1, w2}
  Second = 2
  Day = 4
  MaxTime = 9
  MaxFaults = 1
  Nobody = Nobody
SPECIFICATION Spec
SYMMETRY Symmetry
INVARIANTS
  OnlyFaultsPayTwice
  RecordsAreBacked
