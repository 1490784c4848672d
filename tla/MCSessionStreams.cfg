\* Virtual priority streams and transactions sharing the stream counter,
\* and the transactions' send windows across the peer's SETTINGS and
\* WINDOW_UPDATE frames.  Two transactions share the connection window;
\* the peer may raise or lower the initial window (1, 3 against a default
\* of 2) and grant 1, three frames in all.
CONSTANTS
  Levels = {0, 1, 2, 255}
  MaxTxns = 2
  MaxUpdates = 2
  DefaultWindow = 2
  SettingsWindows = {1, 3}
  Increments = {1}
  BodySizes = {1, 2}
  MaxQueued = 2
  MaxPeerFrames = 3

SPECIFICATION Spec

INVARIANTS
  PriorityTreeWellFormed
  EveryLevelMapped
  WindowsAccountForEveryByte

\* The session goes idle once the bounded calls are spent.
CHECK_DEADLOCK FALSE
