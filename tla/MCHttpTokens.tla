----------------------------- MODULE MCHttpTokens -----------------------------
(* Every row of CodecUtil::http_tokens, one character per state.           *)
EXTENDS Integers, CodecUtil

VARIABLE c

Init == c = 0
Next == c' \in 0..255
Spec == Init /\ [][Next]_c

\* RFC 2616 2.2, as the comment above the table quotes it.
CTL == (0..31) \cup {127}
Separators == {40, 41, 60, 62, 64, 44, 59, 58, 92, 34, 47, 91, 93, 63, 61,
               123, 125, 32, 9}
RFCToken(x) == x \in (0..127) \ (CTL \cup Separators)
Lower(x) == IF x \in 65..90 THEN x + 32 ELSE x

\* The comment on http_tokens: the table holds exactly the RFC 2616 tokens,
\* lower-cased, and 0 for every CTL and separator.
TokenTableIsRFC2616 ==
  http_tokens[c] = IF RFCToken(c) THEN Lower(c) ELSE 0
=============================================================================
