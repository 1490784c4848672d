\* drain() with a transaction that has not sent its headers yet.
CONSTANTS
  Handlers = {t1, t2}
  WriteBufferLimit = 2
  HeaderSize = 1
  BodySize = 1
  ControlSize = 1
  MaxBodies = 0
  GoawayIds = {}
  NoGoaway <- MCNoGoaway
  FixtureFlags = {}
  MaxPauseRounds = 0

SPECIFICATION Spec

INVARIANTS
  DrainSendsGoaway
