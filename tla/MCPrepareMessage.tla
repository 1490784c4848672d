--------------------------- MODULE MCPrepareMessage ---------------------------
(* prepareMessageForCompression over requests and responses with up to    *)
(* two headers drawn from Host (twice possible), Connection,               *)
(* Transfer-Encoding, Date, an ordinary header, a header with an empty     *)
(* name and one whose name starts with ':'.                                *)
EXTENDS Integers, Sequences, FiniteSets, CodecUtil

CONSTANT InitialTemps  \* the temps vectors callers pass in

VARIABLES msg, allHeaders, temps, tempsOut

\* A fresh std::vector<std::string>, as a caller declares it.
MCFreshTemps == {[size |-> 0, cap |-> 0, gen |-> 0]}

\* A vector reused across calls, still holding earlier strings.
MCReusedTemps ==
  MCFreshTemps \cup
    {t \in [size : 1..3, cap : 1..4, gen : {0}] : t.size <= t.cap}

MCHeaders ==
  {Field("Host", "token", "h"), Field("Host", "token", ""),
   Field("Connection", "token", "close"),
   Field("Transfer-Encoding", "token", "chunked"),
   Field("Date", "token", "d"), Field("Other", "token", "v"),
   Field("Other", "", "v"), Field("Other", ":", "v")}

MCMessages ==
  [kind : {"request", "response"}, websocket : BOOLEAN,
   method : {"GET", "CONNECT"}, secure : BOOLEAN, url : {"/"},
   status : {204}, headers : {<<>>} \cup {<<a>> : a \in MCHeaders}
                                    \cup {<<a, b>> : a, b \in MCHeaders}]

\* Start from a GET without headers; each step prepares another message.
Init == /\ msg = [kind |-> "request", websocket |-> FALSE, method |-> "GET",
                  secure |-> FALSE, url |-> "/", status |-> 204,
                  headers |-> <<>>]
        /\ allHeaders = PrepareMessageForCompression(msg)
        /\ temps \in InitialTemps
        /\ tempsOut = TempsOf(msg, temps)
Next == /\ msg' \in MCMessages
        /\ allHeaders' = PrepareMessageForCompression(msg')
        /\ temps' \in InitialTemps
        /\ tempsOut' = TempsOf(msg', temps')
Spec == Init /\ [][Next]_<<msg, allHeaders, temps, tempsOut>>

IsPseudo(f) == f.name = ":"
Pseudo == SelectSeq(allHeaders, IsPseudo)
Regular == SelectSeq(allHeaders, LAMBDA f : ~IsPseudo(f))
Has(code) == \E i \in 1..Len(allHeaders) : allHeaders[i].code = code
PseudoCodes == {Pseudo[i].code : i \in 1..Len(Pseudo)}

\* RFC 7540 8.1.2: the HTTP/2 header block prepareMessageForCompression
\* builds has its pseudo-header fields first and each once, no
\* connection-specific field, a request carries :method and, unless it is
\* a plain CONNECT (8.3), :scheme and :path, with :protocol only on an
\* extended CONNECT (RFC 8441); a response carries :status and no request
\* pseudo-header.
HeaderBlockWellFormed ==
  /\ allHeaders = Pseudo \o Regular
  /\ Len(Pseudo) = Cardinality(PseudoCodes)
  /\ \A code \in {"Connection", "Keep-Alive", "Proxy-Connection",
                  "Transfer-Encoding", "Upgrade"} : ~Has(code)
  /\ msg.kind = "request" =>
       /\ Has(":method") /\ ~Has(":status")
       /\ Has(":protocol") => \E i \in 1..Len(Pseudo) :
                                Pseudo[i] = Field(":method", ":", "CONNECT")
       /\ (Has(":scheme") /\ Has(":path"))
            = (msg.method # "CONNECT" \/ Has(":protocol"))
  /\ msg.kind = "response" =>
       PseudoCodes = {":status"}

\* Spec 8 (5), the round trip: the regular fields are the message's own
\* headers in order, minus per-hop ones and ones with an empty or ':' name,
\* and a response leaves with exactly one Date.
RegularHeadersPreserved ==
  LET own == SelectSeq(msg.headers, LAMBDA h :
               h.code \notin {"Connection", "Host", "Keep-Alive",
                              "Proxy-Connection", "Transfer-Encoding",
                              "Upgrade", "Sec-WebSocket-Key",
                              "Sec-WebSocket-Accept"}
               /\ h.name = "token")
      dates == SelectSeq(Regular, LAMBDA f : f.code = "Date")
  IN /\ SubSeq(Regular, 1, Len(own)) = own
     /\ Len(Regular) \in {Len(own), Len(own) + 1}
     /\ msg.kind = "response" => Len(dates) >= 1
     /\ Len(Regular) = Len(own) + 1 =>
          msg.kind = "response" /\ Len(dates) = 1

\* The comment at reserve(3): "must be large enough so that emplace does
\* not resize".  The :status and Date strings the header block points
\* into are still where they were put when the call returns: no
\* emplace_back after the first reallocated the temps vector.
TempsNotReallocated ==
  \A i \in 1..Len(tempsOut.refs) : tempsOut.refs[i] = tempsOut.temps.gen
=============================================================================
