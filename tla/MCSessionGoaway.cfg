\* Drain, GOAWAY (once, twice, narrowing) and ingress against two
\* transactions, with a transport that completes every write.
CONSTANTS
  Handlers = {t1, t2}
  WriteBufferLimit = 2
  HeaderSize = 1
  BodySize = 1
  ControlSize = 1
  MaxBodies = 1
  GoawayIds = {0, 1, 3}
  NoGoaway <- MCNoGoaway
  FixtureFlags = {}
  MaxPauseRounds = 0

SPECIFICATION Spec

INVARIANTS
  TypeOK
  GoawaySafety
  ByteEventAccounting

SYMMETRY MCSymmetry
