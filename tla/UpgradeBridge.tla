---------------------------- MODULE UpgradeBridge ----------------------------
(***************************************************************************)
(* The HTTP/1.1 -> HTTP/2 (or SPDY) in-band upgrade of an upstream session *)
(* (spec 4.2), as the upgrade tests of HTTPUpstreamSessionTest drive it.   *)
(* HTTP/1.1 is serial: transaction t + 1 starts when t has its response.   *)
(* The first transaction's Upgrade header arms the bridge when it names a  *)
(* native protocol; a 101 then swaps the codec, rebinds the transaction to *)
(* stream 1, restores max outgoing streams to 10 and writes the new        *)
(* codec's SETTINGS and window updates.  A 101 that is not an answer to a  *)
(* native offer is either an error that closes the session or, for a       *)
(* non-native Upgrade, handed to the handler (onUpgrade).  The Upgrade     *)
(* header is modelled as the set of tokens its comma-separated list holds; *)
(* whitespace and junk between them are left out.                          *)
(***************************************************************************)
EXTENDS Integers, Sequences, SequencesExt

CONSTANTS
  MaxTxns,        \* bound: transactions opened on the session
  Native,         \* protocols the session can switch its codec to
  Offers,         \* Upgrade request headers (token sets; {} = no header)
  RespUpgrade,    \* Upgrade headers of a 101 ("none" = absent)
  DefaultWindow,  \* the new codec's default window
  FlowControl,    \* setFlowControl(initial recv, per stream, connection)
  Max1xx          \* bound: informational responses per transaction

Txns == 1..MaxTxns

VARIABLES
  phase,    \* "Running" or "Closed"
  codec,    \* "http/1.1" or the protocol switched to
  maxOut,   \* getMaxConcurrentOutgoingStreams()
  armed,    \* the bridge waits for a 101
  cur,      \* the transaction the HTTP/1.1 codec is serving
  st,       \* txn -> "idle", "sent", "upgraded", "tunnel", "done", "error"
  offers,   \* txn -> its request's Upgrade tokens
  hlog,     \* txn -> the headers and errors its handler received
  wire,     \* frames written by the new codec
  upg       \* txn -> the Upgrade header of the 101 it got ("unanswered")

vars == <<phase, codec, maxOut, armed, cur, st, offers, hlog, wire, upg>>

\* The 101 Switching Protocols answering transaction cur carried h.
Got101(h) == upg' = [upg EXCEPT ![cur] = h]

\* The receive-window frames after the switch (UpgradeFlowControl): the
\* SETTINGS carry the initial window when one is configured, then the
\* connection and stream-1 windows are raised to their configured sizes.
InitWindow == IF FlowControl[1] > 0 THEN FlowControl[1] ELSE DefaultWindow

\* Defect variant of UpgradeFrames: stream 1's delta taken from the
\* default window, as if it had been opened before the SETTINGS.
UpgradeFramesFromDefault ==
  <<[type |-> "SETTINGS", initial |-> InitWindow],
    [type |-> "WINDOW_UPDATE", stream |-> 0, delta |-> FlowControl[3] - DefaultWindow],
    [type |-> "WINDOW_UPDATE", stream |-> 1, delta |-> FlowControl[2] - DefaultWindow]>>

UpgradeFrames ==
  <<[type |-> "SETTINGS", initial |-> InitWindow],
    [type |-> "WINDOW_UPDATE", stream |-> 0, delta |-> FlowControl[3] - DefaultWindow],
    [type |-> "WINDOW_UPDATE", stream |-> 1, delta |-> FlowControl[2] - InitWindow]>>

Deliver(t, e) == hlog' = [hlog EXCEPT ![t] = Append(@, e)]

\* The HTTP/1.1 codec moves on to the next transaction.
Advance == cur' = IF cur < MaxTxns THEN cur + 1 ELSE cur

\* Defect variant of SendRequest: any transaction's native offer arms it.
SendRequestAnyTxn(o) ==
  /\ phase = "Running" /\ codec = "http/1.1" /\ st[cur] = "idle"
  /\ st' = [st EXCEPT ![cur] = "sent"]
  /\ offers' = [offers EXCEPT ![cur] = o]
  /\ armed' = (o \cap Native # {})
  /\ UNCHANGED <<phase, codec, maxOut, cur, hlog, wire, upg>>

\* sendHeaders + sendEOM of the current transaction; only the first
\* transaction's native offer arms the bridge.
SendRequest(o) ==
  /\ phase = "Running" /\ codec = "http/1.1" /\ st[cur] = "idle"
  /\ st' = [st EXCEPT ![cur] = "sent"]
  /\ offers' = [offers EXCEPT ![cur] = o]
  /\ armed' = (cur = 1 /\ o \cap Native # {})
  /\ UNCHANGED <<phase, codec, maxOut, cur, hlog, wire, upg>>

\* A 100 Continue: informational headers for the waiting transaction, on
\* either codec (HttpUpgradePost100, HttpUpgradePost100Http2).
Recv100(t) ==
  /\ phase = "Running" /\ st[t] \in {"sent", "upgraded"}
  /\ (st[t] = "sent") = (codec = "http/1.1")
  /\ Len(hlog[t]) < Max1xx
  /\ Deliver(t, "100")
  /\ UNCHANGED <<phase, codec, maxOut, armed, cur, st, offers, wire, upg>>

\* A final response: on HTTP/1.1 to the transaction being served, on the
\* new codec to the upgraded stream.
RecvFinal(t) ==
  /\ phase = "Running" /\ st[t] \in {"sent", "upgraded"}
  /\ (st[t] = "sent") = (codec = "http/1.1")
  /\ st' = [st EXCEPT ![t] = "done"]
  /\ Deliver(t, "200")
  /\ IF codec = "http/1.1" THEN Advance ELSE UNCHANGED cur
  /\ UNCHANGED <<phase, codec, maxOut, armed, offers, wire, upg>>

\* Defect variant of Upgrade: the 101 is also handed to the handler.
UpgradeDeliver101(h) ==
  /\ phase = "Running" /\ codec = "http/1.1" /\ st[cur] = "sent"
  /\ armed /\ h \in Native
  /\ codec' = h
  /\ maxOut' = 10
  /\ armed' = FALSE
  /\ st' = [st EXCEPT ![cur] = "upgraded"]
  /\ wire' = wire \o UpgradeFrames
  /\ Deliver(cur, "101")
  /\ Got101(h)
  /\ UNCHANGED <<phase, cur, offers>>

\* 101 Switching Protocols answering an armed bridge with a native
\* protocol: swap the codec, write its frames, keep the transaction
\* waiting on stream 1 and lift the outgoing-stream cap (testSimpleUpgrade).
Upgrade(h) ==
  /\ phase = "Running" /\ codec = "http/1.1" /\ st[cur] = "sent"
  /\ armed /\ h \in Native
  /\ codec' = h
  /\ maxOut' = 10
  /\ armed' = FALSE
  /\ st' = [st EXCEPT ![cur] = "upgraded"]
  /\ wire' = wire \o UpgradeFrames
  /\ Got101(h)
  /\ UNCHANGED <<phase, cur, offers, hlog>>

\* A 101 the session cannot act on: no Upgrade in the request
\* (HttpUpgrade101Unexpected), none in the response (101MissingUpgrade), or
\* an armed bridge told of an unknown protocol (101BogusHeader).  The
\* transaction gets onError and the session is destroyed.
Reject101(h) ==
  /\ phase = "Running" /\ codec = "http/1.1" /\ st[cur] = "sent"
  /\ \/ offers[cur] = {}
     \/ h = "none"
     \/ armed /\ h \notin Native
  /\ phase' = "Closed"
  /\ st' = [st EXCEPT ![cur] = "error"]
  /\ Deliver(cur, "error")
  /\ Got101(h)
  /\ UNCHANGED <<codec, maxOut, armed, cur, offers, wire>>

Tunnel(h) ==
  /\ phase = "Running" /\ codec = "http/1.1" /\ st[cur] = "sent"
  /\ ~armed /\ offers[cur] # {} /\ h # "none"
  /\ st' = [st EXCEPT ![cur] = "tunnel"]
  /\ Deliver(cur, "101")
  /\ Got101(h)
  /\ UNCHANGED <<phase, codec, maxOut, armed, cur, offers, wire>>

\* readEOF on a tunnel: body and EOM are delivered, the transaction
\* detaches and the session closes.
TunnelEOF ==
  /\ phase = "Running" /\ st[cur] = "tunnel"
  /\ phase' = "Closed"
  /\ st' = [st EXCEPT ![cur] = "done"]
  /\ UNCHANGED <<codec, maxOut, armed, cur, offers, hlog, wire, upg>>

Init ==
  /\ phase = "Running"
  /\ codec = "http/1.1"
  /\ maxOut = 1
  /\ armed = FALSE
  /\ cur = 1
  /\ st = [t \in Txns |-> "idle"]
  /\ offers = [t \in Txns |-> {}]
  /\ hlog = [t \in Txns |-> <<>>]
  /\ wire = <<>>
  /\ upg = [t \in Txns |-> "unanswered"]

Next ==
  \/ \E o \in Offers : SendRequest(o)
  \/ \E t \in Txns : Recv100(t) \/ RecvFinal(t)
  \/ \E h \in RespUpgrade : Upgrade(h) \/ Reject101(h) \/ Tunnel(h)
  \/ TunnelEOF

Spec == Init /\ [][Next]_vars

-----------------------------------------------------------------------------
(* Properties                                                              *)

\* The windows the server holds after parsing the new codec's frames:
\* SETTINGS set the initial window (and so stream 1's), each
\* WINDOW_UPDATE raises the connection's or stream 1's.
PeerView ==
  LET apply(v, f) ==
        CASE f.type = "SETTINGS" -> [v EXCEPT !.initial = f.initial,
                                              !.stream1 = @ + (f.initial - v.initial)]
          [] f.stream = 0 -> [v EXCEPT !.conn = @ + f.delta]
          [] OTHER -> [v EXCEPT !.stream1 = @ + f.delta]
  IN FoldLeft(apply, [initial |-> DefaultWindow, conn |-> DefaultWindow,
                      stream1 |-> DefaultWindow], wire)

\* After the switch the server's view of the receive windows is the
\* session's configuration: stream 1, opened by the 101 before any
\* SETTINGS, ends at the per-stream size and the connection at its size
\* (UpgradeFlowControl).
UpgradedWindowsMatchConfig ==
  codec # "http/1.1" =>
    PeerView = [initial |-> InitWindow, conn |-> FlowControl[3],
                stream1 |-> FlowControl[2]]

\* Only the first transaction's native offer switches the codec, and only
\* to a native protocol: a switched session carries transaction 1 on the
\* new codec with no later transaction started, and its outgoing-stream
\* cap is lifted; an unswitched one keeps the HTTP/1.1 cap of 1
\* (testSimpleUpgrade, HttpUpgradeOnTxn2).
SwitchOnlyOnFirstNativeOffer ==
  IF codec = "http/1.1"
  THEN maxOut = 1
  ELSE /\ codec \in Native
       /\ offers[1] \cap Native # {}
       /\ maxOut = 10
       /\ st[1] \in {"upgraded", "done"}
       /\ \A t \in Txns \ {1} : st[t] = "idle"

AbsStage(s) ==
  CASE s = "idle" -> "idle"
    [] s \in {"sent", "upgraded"} -> "awaiting"
    [] s \in {"tunnel", "done"} -> "final"
    [] OTHER -> "error"

Abs == INSTANCE Exchange WITH stage <- [t \in Txns |-> AbsStage(st[t])], resp <- hlog

ExchangeRefined == Abs!Spec
=============================================================================
