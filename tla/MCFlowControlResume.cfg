\* Flow control of one stream against spec 9 "only blocks further sends
\* until replenished".  Windows are scaled down: default 2, the peer may
\* announce 1 or 3 and grant 1; two peer frames are enough for a window
\* that is paused at zero and then made positive by a SETTINGS increase,
\* or pushed below zero by a decrease and then granted past it.
\* The session may go idle once its stream is closed and the peer is done.
SPECIFICATION Spec
CONSTANTS
  StreamIds = {1}
  DefaultWindow = 2
  SettingsWindows = {1, 3}
  Increments = {1, 2}
  BodySizes = {1, 2}
  MaxQueued = 3
  MaxPeerFrames = 2
PROPERTY PausedOnlyUntilReplenished
CHECK_DEADLOCK FALSE
