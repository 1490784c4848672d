\* Egress pause and resume: the fixture parks writes (pauseWrites_), fails
\* them (failWrites_) or lets a parked write time out, with a write buffer
\* limit of one byte; parked callbacks arrive late, in resumeWrites() or
\* TearDown.  Without symmetry, as CompletedTxnDetaches is a liveness
\* property.
CONSTANTS
  Handlers = {t1, t2}
  WriteBufferLimit = 1
  HeaderSize = 1
  BodySize = 1
  ControlSize = 1
  MaxBodies = 0
  GoawayIds = {}
  NoGoaway <- MCNoGoaway
  FixtureFlags = {"pauseWrites", "failWrites", "timeouts"}
  MaxPauseRounds = 1

SPECIFICATION Spec

INVARIANTS
  PauseBalanced
  ByteEventAccounting

PROPERTY
  ClosedSessionInert
  CompletedTxnDetaches

