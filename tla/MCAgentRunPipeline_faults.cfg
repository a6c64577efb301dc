SPECIFICATION PipelineSpec
CONSTANTS
  c1 = c1
  r1 = r1
  Conversation = {c1}
  Run = {r1}
  Worker = {w1, w2}
  w1 = w1
  w2 = w2
  Answer = {"yes"}
  Submission <- OnePrompt
  MaxProgress = 1
  NoEvent = NoEvent
  Dispatcher = {d1}
  BatchLimit = 25
  MaxAttempts = 2
  MaxStalled = 1
  MaxFaults = 1
INVARIANTS
  QueuedRunHasDelivery
PROPERTIES
  QueuedRunStarts
  FaultlessRunSettles
CHECK_DEADLOCK FALSE
