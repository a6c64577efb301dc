SPECIFICATION Spec
CONSTANTS
  c1 = c1
  r1 = r1
  r2 = r2
  r3 = r3
  w1 = w1
  w2 = w2
  Conversation = {c1}
  Run = {r1, r2, r3}
  Worker = {w1, w2}
  Answer = {"yes"}
  Submission <- RetriedPrompt
  MaxProgress = 1
SYMMETRY WorkerSymmetry
INVARIANTS
  OneActiveRun
  SubmissionsIdempotent
  RepliedOnce
  ClarificationAgrees
  LogTellsHistory
  SoleResponder
PROPERTIES
  ImplementsLifecycle
CHECK_DEADLOCK FALSE
