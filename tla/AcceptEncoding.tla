---------------------------- MODULE AcceptEncoding ----------------------------
(***************************************************************************)
(* CodecUtil::hasGzipAndDeflate called over and over on one thread.  The  *)
(* parsed list lives in a static thread-local vector that outlives each    *)
(* call, and parseQvalues appends to it, so the call must clear it first.  *)
(* A value is modelled as the list parseQvalues makes of it.               *)
(***************************************************************************)
EXTENDS Integers, Sequences, CodecUtil

CONSTANT Values   \* the parsed Accept-Encoding values callers pass

VARIABLES
  output,      \* the thread-local vector<TokenQPair>
  value,       \* the argument of the latest call
  hasGzip,     \* out-parameter
  hasDeflate,  \* out-parameter
  result       \* return value

vars == <<output, value, hasGzip, hasDeflate, result>>

Init ==
  /\ output = <<>>
  /\ value = <<>>
  /\ hasGzip = FALSE
  /\ hasDeflate = FALSE
  /\ result = FALSE

\* Defect variant of HasGzipAndDeflate: the vector is not cleared.
HasGzipAndDeflateNoClear(v) ==
  LET out == output \o v
      r   == ScanEncodings(out, FALSE, FALSE)
  IN /\ output' = out
     /\ value' = v
     /\ hasGzip' = r.gzip
     /\ hasDeflate' = r.deflate
     /\ result' = (r.gzip /\ r.deflate)

\* output->clear(); reset both flags; parseQvalues(value, *output); scan.
HasGzipAndDeflate(v) ==
  LET out == <<>> \o v
      r   == ScanEncodings(out, FALSE, FALSE)
  IN /\ output' = out
     /\ value' = v
     /\ hasGzip' = r.gzip
     /\ hasDeflate' = r.deflate
     /\ result' = (r.gzip /\ r.deflate)

Next == \E v \in Values : HasGzipAndDeflate(v)

Spec == Init /\ [][Next]_vars

-----------------------------------------------------------------------------

\* An encoding is acceptable in a value when some entry names it, in any
\* case, with a q-value of at least 0.001.
Accepts(v, word) ==
  \E i \in 1..Len(v) : v[i].token.word = word /\ v[i].q * 1000 >= QUnit

\* Whatever values were parsed by earlier calls on this thread, the flags
\* and the result of a call describe exactly its own value: gzip, deflate
\* and both are reported when, and only when, that value accepts them.
FlagsDescribeLatestValue ==
  /\ hasGzip = Accepts(value, "gzip")
  /\ hasDeflate = Accepts(value, "deflate")
  /\ result = (hasGzip /\ hasDeflate)
=============================================================================
