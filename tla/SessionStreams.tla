--------------------------- MODULE SessionStreams ---------------------------
(***************************************************************************)
(* The session's streams as both the priority adapter and flow control     *)
(* see them.  Transactions and the virtual priority nodes take their ids   *)
(* from the codec's one createStream counter (PriorityAdapter); a          *)
(* transaction's stream gets a send window when it is opened              *)
(* (FlowControl).  The peer's WINDOW_UPDATE may name any id it has seen,   *)
(* a virtual node's included, and its SETTINGS change every live window.   *)
(***************************************************************************)
EXTENDS Integers, Sequences

CONSTANTS Levels, MaxTxns, MaxUpdates,
          DefaultWindow, SettingsWindows, Increments, BodySizes,
          MaxQueued, MaxPeerFrames

VARIABLES nextOutgoingTxn, adapter, frames, txns,
          initWindow, connSend, connBlocked, flows, peerFrames, connGranted

paVars == <<nextOutgoingTxn, adapter, frames, txns>>
fcVars == <<initWindow, connSend, connBlocked, flows, peerFrames, connGranted>>
vars == <<paVars, fcVars>>

PA == INSTANCE PriorityAdapter
\* Flow control's own Next is not used: the streams it acts on are the
\* transactions, enumerated below.
FC == INSTANCE FlowControl WITH StreamIds <- Nat

\* Stream ids the peer has seen: the PRIORITY frames' and the transactions'.
KnownIds == {frames[i][1] : i \in 1..Len(frames)} \cup DOMAIN txns

StartNow == PA!StartNow /\ UNCHANGED fcVars

\* newTransaction: the stream minted by createStream is the one whose
\* send window opens.
NewTransaction == PA!NewTransaction /\ FC!OpenStream(nextOutgoingTxn)

UpdateAndSendPriority(id, level) ==
  PA!UpdateAndSendPriority(id, level) /\ UNCHANGED fcVars

Egress(id) ==
  /\ \/ \E n \in BodySizes : FC!SendBody(id, n)
     \/ FC!Flush(id)
     \/ FC!CloseStream(id)
  /\ UNCHANGED paVars

PeerFrame ==
  /\ \/ \E id \in {0} \cup KnownIds, d \in Increments : FC!OnWindowUpdate(id, d)
     \/ \E w \in SettingsWindows : FC!OnSettings(w)
  /\ UNCHANGED paVars

Init == PA!Init /\ FC!Init

Next ==
  \/ StartNow
  \/ NewTransaction
  \/ \E id \in DOMAIN txns, level \in Levels : UpdateAndSendPriority(id, level)
  \/ \E id \in DOMAIN txns : Egress(id)
  \/ PeerFrame

Spec == Init /\ [][Next]_vars

-----------------------------------------------------------------------------

PriorityTreeWellFormed == PA!PriorityTreeWellFormed
EveryLevelMapped == PA!EveryLevelMapped
WindowsAccountForEveryByte == FC!WindowsAccountForEveryByte
=============================================================================
