\* A failed CHECK or LOG(FATAL) ends the process: the "aborted" states have
\* no successor, so deadlock is not checked.
CONSTANTS
  Params <- MCParams
  ScratchSizes = {0, 4}
  ByteSizes <- MCByteSizes
SPECIFICATION Spec
INVARIANT LaunchDescribesConvolution
PROPERTY AllocatorContract
CHECK_DEADLOCK FALSE
