CONSTANTS
  source = source
  header = header
  other = other
  copy = copy
  r1 = r1
  r2 = r2
  w1 = w1
  w2 = w2
  Runs = {r1, r2}
  Workers = {w1, w2}
  Versions <- MCVersions
  Projects <- LikeNamedOnly
SPECIFICATION Spec
INVARIANTS StoredIsWhole
\* All runs have ended.
CHECK_DEADLOCK FALSE
