CONSTANTS
  c1 = c1
  c2 = c2
  f1 = f1
  f2 = f2
  Streams = {"payment"}
  Calls = {c1, c2}
  MaxBatch = 2
  MaxRestarts = 2
  NoVersion = NoVersion
  BatchSize = 2
  MaxVersion = 32
  MaxEvents = 4
  GivenPositions = {1, 2, 3, 21}
  ReplayHandlers = {"h1"}
  Followers = {f1, f2}
  Appends = {c1, c2}
  MaxAppended = 2
  MonPayments = {"p1"}
  MaxDisturbances = 4
  MaxCreations = 2
  MaxReloads = 2
SYMMETRY Symmetry
SPECIFICATION SumSpec
INVARIANTS
  TypesOK
  ExpectationMetOnce
  BatchIsWhole
  ReplaysMissOnlyBehindBatches
  SubscribersMissNothing
  ProjectionsFollowEvents
CHECK_DEADLOCK FALSE
