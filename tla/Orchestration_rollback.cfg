CONSTANTS
  SagaIds = {"g1"}
  MaxSteps = 2
  Timeouts = {0, 1}
  SagaTimes = {0, 1, 2}
  NoSaga = NoSaga
SPECIFICATION Spec
INVARIANTS
  RollbackUndoesWhatRan
CHECK_DEADLOCK FALSE
