----------------------------- MODULE MCCodecUtil -----------------------------
(***************************************************************************)
(* The CodecUtil functions a codec calls on its thread.  hasGzipAndDeflate *)
(* keeps its thread-local vector across calls; prepareMessageForCompression *)
(* shares nothing with it, so each behaviour is a thread calling one of    *)
(* the two over and over (caller).                                         *)
(***************************************************************************)
EXTENDS Integers

VARIABLES caller,
          output, value, hasGzip, hasDeflate, result,
          msg, allHeaders, temps, tempsOut

aeVars == <<output, value, hasGzip, hasDeflate, result>>
pmVars == <<msg, allHeaders, temps, tempsOut>>

\* Accept-Encoding values of up to two entries over gzip, deflate and br,
\* each spelt in lower or upper case, with q of 0, 0.0009, 0.001 and 1.
MCTokens == [word : {"gzip", "deflate", "br"}, upper : BOOLEAN]
MCEntries == [token : MCTokens, q : {0, 9, 10, 10000}]
MCValues == {<<>>} \cup {<<e>> : e \in MCEntries}
              \cup {<<e, f>> : e, f \in MCEntries}

\* A fresh temps vector, as the HTTP/2 codec declares one per call.
MCFreshTemps == {[size |-> 0, cap |-> 0, gen |-> 0]}

AE == INSTANCE AcceptEncoding WITH Values <- MCValues
PM == INSTANCE MCPrepareMessage WITH InitialTemps <- MCFreshTemps

Init == /\ caller \in {"hasGzipAndDeflate", "prepareMessageForCompression"}
        /\ AE!Init
        /\ PM!Init

Next == \/ caller = "hasGzipAndDeflate" /\ AE!Next /\ UNCHANGED <<caller, pmVars>>
        \/ caller = "prepareMessageForCompression" /\ PM!Next
             /\ UNCHANGED <<caller, aeVars>>

Spec == Init /\ [][Next]_<<caller, aeVars, pmVars>>

FlagsDescribeLatestValue == AE!FlagsDescribeLatestValue
HeaderBlockWellFormed == PM!HeaderBlockWellFormed
RegularHeadersPreserved == PM!RegularHeadersPreserved
TempsNotReallocated == PM!TempsNotReallocated
=============================================================================
