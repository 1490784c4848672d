------------------------- MODULE MCUpstreamSession --------------------------
(* Two transactions over one session, a write buffer limit of two bytes,  *)
(* and a peer that may announce lastGood 0, 1 or 3 (no, one, or both of    *)
(* the stream ids 1 and 3 the mock codec mints).                           *)
EXTENDS UpstreamSession, TLC

MCNoGoaway == 100

\* Transactions are told apart only by the stream ids the codec mints in
\* creation order, never by the handler's identity.
MCSymmetry == Permutations(Handlers)
=============================================================================
