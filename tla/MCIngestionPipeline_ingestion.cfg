SPECIFICATION PipelineSpec
CONSTANTS
  d1 = d1
  v1 = v1
  c1 = c1
  w1 = w1
  w2 = w2
  Dataset = {d1}
  Version = {v1}
  DatasetOf <- OneDataset
  Completion = {c1}
  Attempt <- OneUpload
  Worker = {w1, w2}
  NoVersion = NoVersion
  NoKey = NoKey
  NoEvent = NoEvent
  Dispatcher = {p1}
  BatchLimit = 25
  MaxAttempts = 3
  MaxStalled = 1
  MaxFaults = 2
INVARIANTS
  UploadHasDelivery
PROPERTIES
  UploadSettles
CHECK_DEADLOCK FALSE
