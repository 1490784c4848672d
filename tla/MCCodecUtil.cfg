\* hasGzipAndDeflate called repeatedly on one thread, and the HTTP/2 header
\* block built for every modelled request and response with a fresh temps
\* vector.
SPECIFICATION Spec
INVARIANTS
  FlagsDescribeLatestValue
  HeaderBlockWellFormed
  RegularHeadersPreserved
  TempsNotReallocated
