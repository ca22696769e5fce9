SPECIFICATION PartsSpec
CONSTANTS
  d1 = d1
  d2 = d2
  n1 = n1
  n2 = n2
  w1 = w1
  w2 = w2
  Sources = {d1, d2}
  Ids = {n1, n2}
SYMMETRY Alike
CHECK_DEADLOCK FALSE
INVARIANTS TeardownReleases RunsWhatItAcknowledged FreedAlone NothingOverruns ListsMatchMemory GrownIsEnough
PROPERTIES ForeignSurvives IsOrderedMap
