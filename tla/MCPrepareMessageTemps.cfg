\* A temps vector that already holds strings: reserve(3) no longer leaves
\* room for both the :status and the Date strings.
CONSTANTS
  InitialTemps <- MCReusedTemps
SPECIFICATION Spec
INVARIANT TempsNotReallocated
