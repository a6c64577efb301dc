SPECIFICATION ApartSpec
CONSTANTS
  Conversation = {c1}
  NoConversation = NoConversation
  colA = colA
  colB = colB
  Column = {colA, colB}
  Profile = Profile
  DatasetDocument = {}
  None = None
  Worker = {w1}
  Reader = {r1}
  TopK = 1
  MaxAttempts = 2
  MaxStalled = 1
  Answers <- TwoAnswers
  MaxDeletions = 1
  MaxCredentials = 1
  MaxRevision = 9
  MaxFaults = 2
INVARIANTS
  CacheCurrent
PROPERTIES
  DefinitionSettles
CHECK_DEADLOCK FALSE
