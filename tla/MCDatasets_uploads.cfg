SPECIFICATION Spec
CONSTANTS
  d1 = d1
  v1 = v1
  v2 = v2
  c1 = c1
  c2 = c2
  c3 = c3
  w1 = w1
  w2 = w2
  Dataset = {d1}
  Version = {v1, v2}
  DatasetOf <- OneDataset
  Completion = {c1, c2, c3}
  Attempt <- TwoUploads
  Worker = {w1, w2}
  NoVersion = NoVersion
  NoKey = NoKey
INVARIANTS
  DatasetAgrees
  IngestedOnce
  ProfileTrusted
PROPERTIES
  SettledVersions
CHECK_DEADLOCK FALSE
SYMMETRY WorkerSymmetry
