------------------------------ MODULE CodecUtil ------------------------------
(***************************************************************************)
(* The pure helpers of proxygen's CodecUtil.cpp:                           *)
(*   http_tokens                   the RFC 2616 token/lowercase table;     *)
(*   hasGzipAndDeflate's scan      over the parsed Accept-Encoding list;   *)
(*   prepareMessageForCompression  the HTTP/2 header block of a message.   *)
(* Characters are their codes.  Header names are abstracted to their       *)
(* header code and to what the code inspects of the name (empty, starting  *)
(* with ':', or an ordinary name); values to model strings.                *)
(***************************************************************************)
EXTENDS Integers, Sequences, SequencesExt

-----------------------------------------------------------------------------
(* http_tokens[256]                                                        *)

\* The rows of the table holding 0; rows 128..255 are zero-initialised.
HttpTokenZero ==
  (0..31) \cup {40, 41, 44} \cup (58..64) \cup {91, 92, 93, 123, 127}
    \cup (128..255)

UpperCase == 65..90

\* Every other row holds its own character, upper case letters lowered.
http_tokens ==
  [c \in 0..255 |-> IF c \in HttpTokenZero THEN 0
                    ELSE IF c \in UpperCase THEN c + 32 ELSE c]

-----------------------------------------------------------------------------
(* hasGzipAndDeflate: parseQvalues yields <<token, q>> pairs.  A token is  *)
(* its lower-cased word and its spelling; q is in units of 1/QUnit.        *)

QUnit == 10000

\* "RFC says 3 sig figs": encodingQ.second >= 0.001.
QAccepted(q) == q * 1000 >= QUnit

\* The loop over the parsed list: std::transform to lower case, then the
\* gzip / else-if deflate tests, the flags only ever set.
RECURSIVE ScanEncodings(_, _, _)
ScanEncodings(s, hasGzip, hasDeflate) ==
  IF s = <<>> THEN [gzip |-> hasGzip, deflate |-> hasDeflate]
  ELSE LET lower == Head(s).token.word
           ok    == QAccepted(Head(s).q)
       IN IF lower = "gzip" /\ ok
          THEN ScanEncodings(Tail(s), TRUE, hasDeflate)
          ELSE IF lower = "deflate" /\ ok
               THEN ScanEncodings(Tail(s), hasGzip, TRUE)
               ELSE ScanEncodings(Tail(s), hasGzip, hasDeflate)

-----------------------------------------------------------------------------
(* prepareMessageForCompression.  A message has a kind (an HTTPMessage is  *)
(* a request, a response, or neither until one is set), the websocket     *)
(* egress-upgrade flag, method, scheme, URL, status and its headers, each  *)
(* [code, name, value] with name in {"", ":", "token"}.                    *)

\* Defect variant of the per-hop set: Transfer-Encoding forgotten.
PerHopHeaderCodesNoTE ==
  {"Connection", "Host", "Keep-Alive", "Proxy-Connection", "Upgrade",
   "Sec-WebSocket-Key", "Sec-WebSocket-Accept"}

\* s_perHopHeaderCodes: HTTP/1.x per-hop headers with no meaning in HTTP/2.
PerHopHeaderCodes ==
  {"Connection", "Host", "Keep-Alive", "Proxy-Connection",
   "Transfer-Encoding", "Upgrade", "Sec-WebSocket-Key",
   "Sec-WebSocket-Accept"}

\* HTTPHeaders::getSingleOrEmpty(HTTP_HEADER_HOST): the value of the only
\* Host header, "" when there is none or more than one.
HostOf(m) ==
  LET hosts == SelectSeq(m.headers, LAMBDA h : h.code = "Host")
  IN IF Len(hosts) = 1 THEN hosts[1].value ELSE ""

Field(code, name, value) == [code |-> code, name |-> name, value |-> value]

\* Lines 86-119: the pseudo-header fields.
PseudoHeaders(m) ==
  IF m.kind = "request"
  THEN (IF m.websocket
        THEN <<Field(":method", ":", "CONNECT"),
               Field(":protocol", ":", "websocket")>>
        ELSE <<Field(":method", ":", m.method)>>)
       \o (IF m.method # "CONNECT" \/ m.websocket
           THEN <<Field(":scheme", ":", IF m.secure THEN "https" ELSE "http"),
                  Field(":path", ":", m.url)>>
           ELSE <<>>)
       \o (IF HostOf(m) # "" THEN <<Field(":authority", ":", HostOf(m))>>
           ELSE <<>>)
  ELSE <<Field(":status", ":", IF m.websocket THEN 200 ELSE m.status)>>

\* The forEachWithCode callback's early return.
Skipped(h) == h.code \in PerHopHeaderCodes \/ h.name \in {"", ":"}

\* Defect variant of PrepareMessageForCompression: hasDateHeader ignored.
PrepareMessageForCompressionAlwaysDate(m) ==
  PseudoHeaders(m) \o SelectSeq(m.headers, LAMBDA h : ~Skipped(h))
    \o (IF m.kind = "response" THEN <<Field("Date", "token", "now")>>
        ELSE <<>>)

\* The forEachWithCode pass: the kept headers, and hasDateHeader.
Kept(m) == SelectSeq(m.headers, LAMBDA h : ~Skipped(h))
HasDateHeader(m) == \E i \in 1..Len(Kept(m)) : Kept(m)[i].code = "Date"

\* Lines 121-167: the caller's headers minus the skipped ones, then a Date
\* for a response that had none among the kept headers.
PrepareMessageForCompression(m) ==
  PseudoHeaders(m) \o Kept(m)
    \o (IF m.kind = "response" /\ ~HasDateHeader(m)
        THEN <<Field("Date", "token", "now")>> ELSE <<>>)

-----------------------------------------------------------------------------
(* The caller's temps vector owns the strings of a response's :status and  *)
(* Date fields; the header block points into it.  A vector is its size,    *)
(* capacity and the generation of its buffer: a reallocation moves every   *)
(* string and leaves earlier pointers dangling.                            *)

\* reserve(n): reallocates when n exceeds the capacity.
Reserve(t, n) ==
  IF n > t.cap THEN [t EXCEPT !.cap = n, !.gen = @ + 1] ELSE t

\* emplace_back: a full vector reallocates, growing to twice its size.
Emplace(t) ==
  IF t.size = t.cap
  THEN [size |-> t.size + 1, cap |-> IF t.size = 0 THEN 1 ELSE 2 * t.size,
        gen |-> t.gen + 1]
  ELSE [t EXCEPT !.size = @ + 1]

\* Defect variant of TempsOf: the reserve(3) call left out.
TempsOfNoReserve(m, t) ==
  IF m.kind = "request" THEN [temps |-> t, refs |-> <<>>]
  ELSE LET st   == Emplace(t)
           date == IF HasDateHeader(m) THEN st ELSE Emplace(st)
       IN [temps |-> date,
           refs  |-> <<st.gen>> \o (IF HasDateHeader(m) THEN <<>> ELSE <<date.gen>>)]

\* Lines 109-115 and 163-166: reserve(3), the status string, then the
\* formatted Date; the result is the final vector and the buffer
\* generation each field's string pointer was taken from.
TempsOf(m, t) ==
  IF m.kind = "request" THEN [temps |-> t, refs |-> <<>>]
  ELSE LET st   == Emplace(Reserve(t, 3))
           date == IF HasDateHeader(m) THEN st ELSE Emplace(st)
       IN [temps |-> date,
           refs  |-> <<st.gen>> \o (IF HasDateHeader(m) THEN <<>> ELSE <<date.gen>>)]
=============================================================================
