---------------------------- MODULE PriorityAdapter ----------------------------
(***************************************************************************)
(* The upstream session's priority adapter as HTTP2UpstreamSessionWith-    *)
(* PriorityTree sets it up: at startNow the session asks the               *)
(* PriorityMapFactory (TestPriorityMapBuilder) for virtual streams; the    *)
(* builder sends three PRIORITY frames (a parent and two children), each  *)
(* minting a stream id from the mock codec's createStream, and the         *)
(* adapter maps priority levels onto the children.  Transactions opened   *)
(* later mint their ids from the same counter and ask the adapter for the  *)
(* HTTPPriority of a level (updateAndSendPriority).                        *)
(* An HTTPPriority is <<dependency, exclusive, weight>>.                   *)
(***************************************************************************)
EXTENDS Integers, Sequences, FiniteSets, TLC

CONSTANTS
  Levels,     \* the priority levels transactions ask for (uint8_t)
  MaxTxns,    \* bound: transactions opened
  MaxUpdates  \* bound: updateAndSendPriority calls

VARIABLES
  nextOutgoingTxn,  \* mock codec createStream counter
  adapter,          \* [map, min]; the map is empty before startNow
  frames,           \* PRIORITY frames sent: <<stream, HTTPPriority>>
  txns              \* stream id -> the priority it sent, or "none"

vars == <<nextOutgoingTxn, adapter, frames, txns>>

\* TestPriorityMapBuilder's fields.
hiPriWeight == 18
hiPriLevel == 0
loPriWeight == 2
loPriLevel == 2

\* folly::none.
NoPriority == <<>>

NoAdapter == [map |-> <<>>, min |-> <<0, FALSE, 0>>]

\* Defect variant of CreateStream: the counter is not advanced.
CreateStreamNoAdvance(n) == [id |-> n, next |-> n]

\* The mock codec's createStream: return the counter, advance it by two.
CreateStream(n) == [id |-> n, next |-> n + 2]

\* Defect variant of getHTTPPriority: no fallback to minPriority_.
GetHTTPPriorityNoMin(a, level) ==
  IF DOMAIN a.map = {} THEN NoPriority
  ELSE IF level \in DOMAIN a.map THEN a.map[level] ELSE NoPriority

\* TestPriorityAdapter::getHTTPPriority: none for an empty map, the
\* level's entry, else minPriority_.
GetHTTPPriority(a, level) ==
  IF DOMAIN a.map = {} THEN NoPriority
  ELSE IF level \in DOMAIN a.map THEN a.map[level] ELSE a.min

\* startNow -> TestPriorityMapBuilder::createVirtualStreams: three
\* sendPriority calls, each on a freshly created stream.
StartNow ==
  /\ adapter = NoAdapter
  /\ LET parent == CreateStream(nextOutgoingTxn)
         hi     == CreateStream(parent.next)
         lo     == CreateStream(hi.next)
         hiPri  == <<parent.id, FALSE, hiPriWeight>>
         loPri  == <<parent.id, FALSE, loPriWeight>>
     IN /\ frames' = frames \o <<<<parent.id, <<0, FALSE, 1>>>>,
                                 <<hi.id, hiPri>>, <<lo.id, loPri>>>>
        /\ adapter' = [map |-> (hiPriLevel :> hiPri) @@ (loPriLevel :> loPri),
                       min |-> loPri]
        /\ nextOutgoingTxn' = lo.next
  /\ UNCHANGED txns

\* newTransaction: the transaction's stream id comes from createStream.
NewTransaction ==
  /\ adapter # NoAdapter
  /\ Cardinality(DOMAIN txns) < MaxTxns
  /\ LET s == CreateStream(nextOutgoingTxn)
     IN /\ txns' = txns @@ (s.id :> "none")
        /\ nextOutgoingTxn' = s.next
  /\ UNCHANGED <<adapter, frames>>

\* updateAndSendPriority(level): a PRIORITY frame with the adapter's answer.
UpdateAndSendPriority(id, level) ==
  /\ id \in DOMAIN txns
  /\ Len(frames) < 3 + MaxUpdates
  /\ GetHTTPPriority(adapter, level) # NoPriority
  /\ txns' = [txns EXCEPT ![id] = GetHTTPPriority(adapter, level)]
  /\ frames' = Append(frames, <<id, GetHTTPPriority(adapter, level)>>)
  /\ UNCHANGED <<nextOutgoingTxn, adapter>>

Init ==
  /\ nextOutgoingTxn = 1
  /\ adapter = NoAdapter
  /\ frames = <<>>
  /\ txns = <<>>

Next ==
  \/ StartNow
  \/ NewTransaction
  \/ \E id \in DOMAIN txns, level \in Levels : UpdateAndSendPriority(id, level)

Spec == Init /\ [][Next]_vars

-----------------------------------------------------------------------------

SentBefore(i, s) == \E j \in 1..(i - 1) : frames[j][1] = s

\* Every PRIORITY frame the session sends depends on the root (0) or on a
\* stream announced by an earlier frame, never on itself; the virtual
\* nodes are distinct streams and no transaction reuses one of their ids,
\* though both take their ids from the same createStream counter.
PriorityTreeWellFormed ==
  /\ \A i \in 1..Len(frames) :
       LET dep == frames[i][2][1]
       IN dep # frames[i][1] /\ (dep = 0 \/ SentBefore(i, dep))
  /\ Len(frames) >= 3 =>
       /\ Cardinality({frames[1][1], frames[2][1], frames[3][1]}) = 3
       /\ \A i \in 1..3 : frames[i][1] \notin DOMAIN txns

\* Once the virtual streams exist every level, 0 through 255, has a
\* priority: the high-priority child for its level and the low-priority
\* child for every other one.
EveryLevelMapped ==
  adapter # NoAdapter =>
    \A level \in 0..255 :
      GetHTTPPriority(adapter, level)
        = IF level = hiPriLevel THEN <<frames[1][1], FALSE, hiPriWeight>>
          ELSE <<frames[1][1], FALSE, loPriWeight>>
=============================================================================
