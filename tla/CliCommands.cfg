SPECIFICATION Spec
CONSTANTS
  n1 = n1
  n2 = n2
  g1 = g1
  g2 = g2
  g3 = g3
  Absent = Absent
  Nodes = {n1, n2}
  Targets <- MCTargets
  Fleets <- MCFleets
  Percents = {5, 50, 100}
  WaveSizes = {1, 2}
  MaxMoves = 1
  MaxFaults = 1
INVARIANTS RefusalsAreClean ReportsAreTrue RolloutsAreSafe
PROPERTIES EveryCommandEnds
