CONSTANTS
  source = source
  header = header
  other = other
  copy = copy
  r1 = r1
  r2 = r2
  w1 = w1
  w2 = w2
  Runs = {r1, r2}
  Workers = {w1, w2}
  Versions <- MCVersions
  Projects <- MCProjects
SPECIFICATION Spec
INVARIANTS TypeOK StoredIsWholeIfApart ReportCurrent WorkIsExclusive NoLitter
PROPERTIES StoredForGood Finishes
\* All runs have ended.
CHECK_DEADLOCK FALSE
