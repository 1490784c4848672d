----------------------------- MODULE FlowControl -----------------------------
(***************************************************************************)
(* The session's egress flow control (spec 3 invariant 3, 4.1 onSettings   *)
(* and onWindowUpdate, "Connection-level flow control", 9 "Flow-control    *)
(* arithmetic").  Each stream has a send window, opened at the peer's      *)
(* current SETTINGS_INITIAL_WINDOW_SIZE; the connection has one more.      *)
(* sendBody queues DATA on the transaction (egress-queue-size); the write  *)
(* loop moves what both windows allow onto the wire, and a stream that     *)
(* finds its window exhausted is paused.  The peer's frames:               *)
(*   - WINDOW_UPDATE increments the named window and unpauses the stream   *)
(*     if the window was zero;                                             *)
(*   - SETTINGS changes the initial window, and the delta is applied to    *)
(*     every live stream, possibly below zero.                             *)
(* Byte counts are abstracted to small integers.                           *)
(***************************************************************************)
EXTENDS Integers, Functions, TLC

CONSTANTS
  StreamIds,        \* ids of the streams a standalone model opens
  DefaultWindow,    \* the codec's default window (65535)
  SettingsWindows,  \* INITIAL_WINDOW_SIZE values the peer may announce
  Increments,       \* WINDOW_UPDATE increments the peer may send
  BodySizes,        \* DATA sizes a sendBody call may queue
  MaxQueued,        \* bound: bytes queued on one stream
  MaxPeerFrames     \* bound: SETTINGS and WINDOW_UPDATE frames received

VARIABLES
  initWindow,   \* the peer's current INITIAL_WINDOW_SIZE
  connSend,     \* the connection send window
  connBlocked,  \* egress paused on the connection window
  flows,        \* stream id -> [live, send, queue, blocked, sent, granted]
  peerFrames,   \* SETTINGS and WINDOW_UPDATE frames received so far
  connGranted   \* history: WINDOW_UPDATE increments of the connection

fcVars == <<initWindow, connSend, connBlocked, flows, peerFrames, connGranted>>

MinOf(a, b) == IF a < b THEN a ELSE b

\* The bytes of DATA all streams have written.
SentTotal == FoldFunction(LAMBDA f, acc : f.sent + acc, 0, flows)

\* Defect variant of OpenStream: the window opened at the default size,
\* ignoring the peer's SETTINGS.
OpenStreamDefault(id) ==
  /\ id \notin DOMAIN flows
  /\ flows' = flows @@ (id :> [live |-> TRUE, send |-> DefaultWindow, queue |-> 0,
                               blocked |-> FALSE, sent |-> 0, granted |-> 0])
  /\ UNCHANGED <<initWindow, connSend, connBlocked, peerFrames, connGranted>>

\* A transaction attaches to stream id; its send window starts at the
\* peer's current initial window.
OpenStream(id) ==
  /\ id \notin DOMAIN flows
  /\ flows' = flows @@ (id :> [live |-> TRUE, send |-> initWindow, queue |-> 0,
                               blocked |-> FALSE, sent |-> 0, granted |-> 0])
  /\ UNCHANGED <<initWindow, connSend, connBlocked, peerFrames, connGranted>>

\* sendBody(n): the DATA joins the transaction's egress queue.
SendBody(id, n) ==
  /\ id \in DOMAIN flows /\ flows[id].live
  /\ flows[id].queue + n <= MaxQueued
  /\ flows' = [flows EXCEPT ![id].queue = @ + n]
  /\ UNCHANGED <<initWindow, connSend, connBlocked, peerFrames, connGranted>>

\* The write loop serves a stream with queued DATA: an exhausted stream
\* window pauses the stream, an exhausted connection window pauses egress,
\* and otherwise as much DATA as both windows allow is written, each
\* window decremented by it.
Flush(id) ==
  LET f == flows[id]
      k == MinOf(f.queue, MinOf(f.send, connSend))
  IN /\ id \in DOMAIN flows /\ f.live /\ f.queue > 0 /\ ~f.blocked /\ ~connBlocked
     /\ CASE f.send <= 0 ->
               /\ flows' = [flows EXCEPT ![id].blocked = TRUE]
               /\ UNCHANGED <<connSend, connBlocked>>
          [] connSend <= 0 ->
               /\ connBlocked' = TRUE
               /\ UNCHANGED <<flows, connSend>>
          [] OTHER ->
               /\ flows' = [flows EXCEPT ![id].queue = @ - k, ![id].send = @ - k,
                                         ![id].sent = @ + k]
               /\ connSend' = connSend - k
               /\ UNCHANGED connBlocked
     /\ UNCHANGED <<initWindow, peerFrames, connGranted>>

\* sendAbort or a finished EOM: the stream leaves flow control; queued
\* DATA is discarded (RST_STREAM is not flow controlled).
CloseStream(id) ==
  /\ id \in DOMAIN flows /\ flows[id].live
  /\ flows' = [flows EXCEPT ![id].live = FALSE, ![id].queue = 0, ![id].blocked = FALSE]
  /\ UNCHANGED <<initWindow, connSend, connBlocked, peerFrames, connGranted>>

\* onWindowUpdate(id, delta): increment the named window (0 names the
\* connection) and unpause if it was zero; an update for a stream the
\* session does not have is ignored.
OnWindowUpdate(id, d) ==
  /\ peerFrames < MaxPeerFrames
  /\ peerFrames' = peerFrames + 1
  /\ IF id = 0
     THEN /\ connSend' = connSend + d
          /\ connGranted' = connGranted + d
          /\ connBlocked' = (connBlocked /\ connSend # 0)
          /\ UNCHANGED flows
     ELSE /\ flows' = IF id \in DOMAIN flows /\ flows[id].live
                      THEN [flows EXCEPT ![id].send = @ + d, ![id].granted = @ + d,
                                         ![id].blocked = @ /\ flows[id].send # 0]
                      ELSE flows
          /\ UNCHANGED <<connSend, connBlocked, connGranted>>
  /\ UNCHANGED initWindow

\* onSettings(INITIAL_WINDOW_SIZE = w): record it and adjust every live
\* stream's send window by the delta.
OnSettings(w) ==
  /\ peerFrames < MaxPeerFrames
  /\ peerFrames' = peerFrames + 1
  /\ initWindow' = w
  /\ flows' = [id \in DOMAIN flows |->
                 IF flows[id].live
                 THEN [flows[id] EXCEPT !.send = @ + (w - initWindow)]
                 ELSE flows[id]]
  /\ UNCHANGED <<connSend, connBlocked, connGranted>>

Init ==
  /\ initWindow = DefaultWindow
  /\ connSend = DefaultWindow
  /\ connBlocked = FALSE
  /\ flows = <<>>
  /\ peerFrames = 0
  /\ connGranted = 0

Next ==
  \/ \E id \in StreamIds : OpenStream(id) \/ Flush(id) \/ CloseStream(id)
  \/ \E id \in StreamIds, n \in BodySizes : SendBody(id, n)
  \/ \E id \in {0} \cup StreamIds, d \in Increments : OnWindowUpdate(id, d)
  \/ \E w \in SettingsWindows : OnSettings(w)

\* The write loop keeps serving streams with queued DATA.
Spec == Init /\ [][Next]_fcVars /\ \A id \in StreamIds : WF_fcVars(Flush(id))

-----------------------------------------------------------------------------
(* Properties                                                              *)

\* Every byte is accounted for across SETTINGS changes: a live stream's
\* window is always the current initial window plus the increments the
\* peer granted it minus the DATA it wrote, whenever it was opened and
\* however many SETTINGS came before or after; the connection window is
\* the default plus its increments minus the DATA of all streams, live or
\* closed, and never below zero (spec 3 invariant 3, connection half).
WindowsAccountForEveryByte ==
  /\ connSend = DefaultWindow + connGranted - SentTotal
  /\ connSend >= 0
  /\ \A id \in DOMAIN flows :
       flows[id].live =>
         flows[id].send = initWindow + flows[id].granted - flows[id].sent

\* A live stream the write loop has paused on its window.
Paused(id) == id \in DOMAIN flows /\ flows[id].live /\ flows[id].blocked

\* Spec 9 "Flow-control arithmetic": a window below zero "only blocks
\* further sends until replenished": a paused stream with queued DATA
\* whose window has become positive again is eventually unpaused (or
\* closed).
PausedOnlyUntilReplenished ==
  \A id \in StreamIds : (Paused(id) /\ flows[id].send > 0) ~> ~Paused(id)
=============================================================================
