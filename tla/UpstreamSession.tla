--------------------------- MODULE UpstreamSession ---------------------------
(***************************************************************************)
(* The client-side HTTP session core (HTTPUpstreamSession): transactions   *)
(* sharing one write pipe, the egress pause/resume machinery, the byte     *)
(* events that defer a transaction's detach, and the drain/GOAWAY          *)
(* protocol, together with the test fixture's transport and the mock       *)
(* codec (createStream, generateGoaway, isReusable) of                     *)
(* HTTPUpstreamSessionTest.cpp that drive it.                              *)
(*                                                                         *)
(* Data is abstracted to byte counts: every codec call appends a fixed     *)
(* number of bytes to the write buffer; queued, written and acked are      *)
(* cumulative byte offsets of the session's egress stream.                 *)
(***************************************************************************)
EXTENDS Integers, Sequences, FiniteSets, SequencesExt

CONSTANTS
  Handlers,          \* one transaction slot per handler the application opens
  WriteBufferLimit,  \* HTTPSession write buffer limit
  HeaderSize,        \* bytes generateHeader appends
  BodySize,          \* bytes one sendBody appends
  ControlSize,       \* bytes of an EOM, RST_STREAM or GOAWAY frame
  MaxBodies,         \* bound: sendBody calls per transaction
  GoawayIds,         \* lastGoodStreamID values the peer may announce
  NoGoaway,          \* lastGood before any GOAWAY: above every stream id
  FixtureFlags,      \* which of pauseWrites_, failWrites_ and a firing
                     \* write timer (TimeoutableHTTPUpstreamTest) a test has
  MaxPauseRounds     \* bound: times a test sets pauseWrites_

ASSUME /\ Handlers # {}
       /\ WriteBufferLimit \in Nat
       /\ {HeaderSize, BodySize, ControlSize} \subseteq Nat \ {0}
       /\ MaxBodies \in Nat
       /\ GoawayIds \subseteq Nat
       /\ FixtureFlags \subseteq {"pauseWrites", "failWrites", "timeouts"}
       /\ MaxPauseRounds \in Nat
       /\ NoGoaway > 2 * Cardinality(Handlers) + 1

BET == INSTANCE ByteEventTracker

VARIABLES
  phase,            \* "Running", "Draining" or "Closed" (destroyed)
  nextOutgoingTxn,  \* mock codec: next stream id createStream returns
  reusable,         \* mock codec reusable_: FALSE once a GOAWAY is generated
  goawayAt,         \* offset of the GOAWAY's first byte, 0 if none generated
  lastGood,         \* lowest lastGoodStreamID received
  txn,              \* per handler: its transaction
  queued,           \* bytes the codec has generated into the write buffer
  written,          \* bytes handed to the transport (writeChain)
  acked,            \* bytes the transport confirmed (writeSuccess)
  events,           \* the ByteEventTracker queue
  egressPaused,     \* session egress-paused flag
  resumeQueue,      \* transactions still to get onEgressResumed
  pauseQueue,       \* transactions still to get onEgressPaused
  pauseWrites,      \* test fixture: pauseWrites_
  failWrites,       \* test fixture: failWrites_
  cbs,              \* test fixture: cbs_, lengths of the parked writes
  pauseRounds       \* times the test has set pauseWrites_

vars == <<phase, nextOutgoingTxn, reusable, goawayAt, lastGood, txn, queued,
          written, acked, events, egressPaused, resumeQueue, pauseWrites,
          failWrites, cbs, pauseRounds, pauseQueue>>

Errors == {"None", "Aborted", "StreamUnacknowledged", "Dropped",
           "WriteError", "WriteTimeout", "IngressStateTransition"}

Unused == [st |-> "Unused", id |-> 0, egress |-> "Start", bodies |-> 0,
           ingress |-> "Start", err |-> "None", pending |-> 0,
           paused |-> FALSE]

Open(t, h) == t[h].st = "Open"
OpenSet == {h \in Handlers : Open(txn, h)}

\* Control is back in the event loop: no pauseTransactions or
\* resumeTransactions loop and no fixture resumeWrites() loop is running.
Quiescent ==
  /\ resumeQueue = <<>> /\ pauseQueue = <<>>
  /\ (pauseWrites \/ cbs = <<>>)

\* A handler's onEgressPaused or onEgressResumed is running and may call
\* back into its transaction or the session.
InCallback == resumeQueue # <<>> \/ pauseQueue # <<>>

-----------------------------------------------------------------------------
(* Helpers every handler ends with.                                        *)

\* Defect variant of CanDetach: detach without waiting for byte events.
CanDetachIgnoringPending(r) == r.egress = "Done" /\ r.ingress = "Done"

\* A transaction detaches once both directions are complete and no byte
\* event is pending for it.
CanDetach(r) == r.egress = "Done" /\ r.ingress = "Done" /\ r.pending = 0

Settle(t) ==
  [h \in Handlers |-> IF t[h].st = "Open" /\ CanDetach(t[h])
                      THEN [t[h] EXCEPT !.st = "Detached"] ELSE t[h]]

\* Detaching the last transaction of a draining session shuts it down,
\* unless a resumeTransactions loop is still running: the loop keeps the
\* session alive and the check runs when it ends.
ShutdownCheck(ph, t, inLoop) ==
  IF ph = "Draining" /\ ~inLoop /\ \A h \in Handlers : ~Open(t, h)
  THEN "Closed" ELSE ph

\* Defect variant of ShutdownIfDrained: shut down from inside the loop.
ShutdownIfDrainedInLoop(ph, t) == ShutdownCheck(ph, t, FALSE)

ShutdownIfDrained(ph, t) == ShutdownCheck(ph, t, resumeQueue # <<>>)

Commit(t, ph) ==
  /\ txn' = Settle(t)
  /\ phase' = ShutdownIfDrained(ph, Settle(t))

\* allTransactionsStarted: every open transaction has begun egress.
AllStarted(t) == \A h \in Handlers : Open(t, h) => t[h].egress # "Start"

\* Mock codec generateGoaway: appends GOAWAY only while reusable_.
GenerateGoaway(cond, q) ==
  IF cond /\ reusable
  THEN /\ reusable' = FALSE
       /\ goawayAt' = q + 1
       /\ queued' = q + ControlSize
  ELSE /\ UNCHANGED <<reusable, goawayAt>>
       /\ queued' = q

\* After each codec call: a write buffer over its limit flags egress
\* paused and starts pauseTransactions, which calls onEgressPaused on
\* every open transaction in stream-id order (PauseStep); inside a resume
\* loop the check waits for the loop's end.
PauseCheck(t, q, inResume) ==
  /\ txn' = t
  /\ IF ~inResume /\ ~egressPaused /\ q - acked > WriteBufferLimit
     THEN /\ egressPaused' = TRUE
          /\ pauseQueue' = SetToSortSeq({h \in Handlers : Open(t, h)},
                                       LAMBDA a, b : t[a].id < t[b].id)
     ELSE UNCHANGED <<egressPaused, pauseQueue>>

MaybePause(t, q) == PauseCheck(t, q, resumeQueue # <<>>)

\* Fatal to the session: every open transaction gets kind, byte events
\* are drained, everything detaches and the session closes.  What is left
\* of a resume loop could only re-check the buffer of a closed session and
\* is dropped; a pause loop goes on (PauseStep).
FailAll(kind) ==
  LET t == [h \in Handlers |->
              IF Open(txn, h)
              THEN [txn[h] EXCEPT !.err = IF @ = "None" THEN kind ELSE @,
                                  !.egress = "Done", !.ingress = "Done",
                                  !.pending = 0]
              ELSE txn[h]]
  IN /\ txn' = Settle(t)
     /\ phase' = "Closed"
     /\ events' = <<>>
     /\ resumeQueue' = <<>>

ById(S) == SetToSortSeq(S, LAMBDA a, b : txn[a].id < txn[b].id)

\* onWriteSuccess(n): byte events fire, then egress resumes when the
\* bytes still in the transport are within the limit.
OnWriteSuccess(n) ==
  LET ack == acked + n
      t   == [h \in Handlers |->
                [txn[h] EXCEPT !.pending = @ - BET!FiredFor(events, ack, h)]]
      ts  == Settle(t)
      resume == egressPaused /\ queued - ack <= WriteBufferLimit
  IN /\ acked' = ack
     /\ events' = BET!Remaining(events, ack)
     /\ Commit(t, phase)
     /\ egressPaused' = (egressPaused /\ ~resume)
     /\ resumeQueue' = IF resume
                       THEN ById({h \in Handlers : Open(ts, h)})
                       ELSE resumeQueue

-----------------------------------------------------------------------------
(* Application calls.                                                      *)

\* Defect variant of NewTransaction: a new transaction starts unpaused.
NewTransactionUnpaused(h) ==
  /\ phase = "Running"
  /\ txn[h].st = "Unused"
  /\ txn' = [txn EXCEPT ![h] = [Unused EXCEPT !.st = "Open",
                                   !.id = nextOutgoingTxn]]
  /\ nextOutgoingTxn' = nextOutgoingTxn + 2
  /\ UNCHANGED <<phase, reusable, goawayAt, lastGood, queued, written, acked,
                 events, egressPaused, resumeQueue, pauseWrites, failWrites,
                 cbs, pauseRounds, pauseQueue>>

\* newTransaction: the mock codec's createStream mints the id; a session
\* that is egress-paused starts the transaction paused.
NewTransaction(h) ==
  /\ phase = "Running"
  /\ txn[h].st = "Unused"
  /\ txn' = [txn EXCEPT ![h] = [Unused EXCEPT !.st = "Open",
                                   !.id = nextOutgoingTxn,
                                   !.paused = egressPaused]]
  /\ nextOutgoingTxn' = nextOutgoingTxn + 2
  /\ UNCHANGED <<phase, reusable, goawayAt, lastGood, queued, written, acked,
                 events, egressPaused, resumeQueue, pauseWrites, failWrites,
                 cbs,
                 pauseRounds, pauseQueue>>

\* sendHeaders: HEADERS with a first-header-byte event; a draining session
\* whose transactions have now all started generates its GOAWAY after it.
SendHeaders(h) ==
  /\ Open(txn, h)
  /\ txn[h].egress = "Start"
  /\ txn[h].err = "None"
  /\ LET t == [txn EXCEPT ![h].egress = "Sending", ![h].pending = @ + 1]
     IN /\ GenerateGoaway(phase = "Draining" /\ AllStarted(t),
                          queued + HeaderSize)
        /\ MaybePause(t, queued')
  /\ events' = BET!AddEvent(events, queued + 1, h, "FirstHeaderByte")
  /\ UNCHANGED <<phase, nextOutgoingTxn, lastGood, written, acked,
                 resumeQueue, pauseWrites, failWrites, cbs,
                 pauseRounds>>

SendBody(h) ==
  /\ Open(txn, h)
  /\ txn[h].egress = "Sending"
  /\ txn[h].err = "None"
  /\ txn[h].bodies < MaxBodies
  /\ queued' = queued + BodySize
  /\ MaybePause([txn EXCEPT ![h].bodies = @ + 1], queued')
  /\ UNCHANGED <<phase, nextOutgoingTxn, reusable, goawayAt, lastGood,
                 written, acked, events, resumeQueue,
                 pauseWrites, failWrites, cbs,
                 pauseRounds>>

\* sendEOM: the last byte of the message carries a last-byte event.
SendEOM(h) ==
  /\ Open(txn, h)
  /\ txn[h].egress = "Sending"
  /\ txn[h].err = "None"
  /\ queued' = queued + ControlSize
  /\ MaybePause([txn EXCEPT ![h].egress = "Done", ![h].pending = @ + 1],
                queued')
  /\ events' = BET!AddEvent(events, queued', h, "LastByte")
  /\ UNCHANGED <<phase, nextOutgoingTxn, reusable, goawayAt, lastGood,
                 written, acked, resumeQueue, pauseWrites,
                 failWrites, cbs,
                 pauseRounds>>

\* sendAbort: RST_STREAM; the transaction detaches once its byte events
\* have fired.
SendAbort(h) ==
  /\ Open(txn, h)
  /\ txn[h].err = "None"
  /\ queued' = queued + ControlSize
  /\ LET t == Settle([txn EXCEPT ![h].err = "Aborted", ![h].egress = "Done",
                                 ![h].ingress = "Done"])
     IN /\ phase' = ShutdownIfDrained(phase, t)
        /\ MaybePause(t, queued')
  /\ UNCHANGED <<nextOutgoingTxn, reusable, goawayAt, lastGood, written,
                 acked, events, resumeQueue, pauseWrites,
                 failWrites, cbs,
                 pauseRounds>>

\* drain: no new transactions; GOAWAY once every transaction has started;
\* with no transaction left the session shuts down.
Drain ==
  /\ Quiescent
  /\ phase = "Running"
  /\ phase' = ShutdownIfDrained("Draining", txn)
  /\ GenerateGoaway(AllStarted(txn), queued)
  /\ MaybePause(txn, queued')
  /\ UNCHANGED <<nextOutgoingTxn, lastGood, written, acked, events,
                 resumeQueue, pauseWrites, failWrites, cbs,
                 pauseRounds>>

\* dropConnection: best-effort GOAWAY, then every transaction fails with
\* Dropped and the session is destroyed; also called from a handler's
\* onEgressPaused (DeleteTxnOnUnpause), after which the interrupted pause
\* loop carries on over the detached transactions.
DropConnection ==
  /\ Quiescent \/ InCallback
  /\ phase # "Closed"
  /\ GenerateGoaway(TRUE, queued)
  /\ FailAll("Dropped")
  /\ UNCHANGED <<nextOutgoingTxn, lastGood, written, acked, egressPaused,
                 pauseWrites, failWrites, cbs,
                 pauseRounds, pauseQueue>>

\* destroy: the test's teardown of a session with no transaction left.
Destroy ==
  /\ phase # "Closed"
  /\ OpenSet = {}
  /\ Quiescent
  /\ phase' = "Closed"
  /\ UNCHANGED <<nextOutgoingTxn, reusable, goawayAt, lastGood, txn, queued,
                 written, acked, events, egressPaused, resumeQueue,
                 pauseWrites, failWrites, cbs,
                 pauseRounds, pauseQueue>>

-----------------------------------------------------------------------------
(* Codec ingress callbacks: the peer answers streams whose request it has  *)
(* seen.  Ingress is one event per loop turn, never inside a resume loop.  *)

Ingress(h) ==
  /\ Quiescent
  /\ Open(txn, h)
  /\ txn[h].err = "None"
  /\ txn[h].egress # "Start"

\* onHeadersComplete: headers after body are an illegal ingress state
\* transition that errors the transaction.
OnHeadersComplete(h) ==
  /\ Ingress(h)
  /\ \/ /\ txn[h].ingress \in {"Start", "Headers"}
        /\ txn' = [txn EXCEPT ![h].ingress = "Headers"]
        /\ UNCHANGED phase
     \/ /\ txn[h].ingress = "Body"
        /\ Commit([txn EXCEPT ![h].err = "IngressStateTransition",
                              ![h].egress = "Done", ![h].ingress = "Done"],
                  phase)
  /\ UNCHANGED <<nextOutgoingTxn, reusable, goawayAt, lastGood, queued,
                 written, acked, events, egressPaused, resumeQueue,
                 pauseWrites, failWrites, cbs,
                 pauseRounds, pauseQueue>>

OnBody(h) ==
  /\ Ingress(h)
  /\ txn[h].ingress \in {"Headers", "Body"}
  /\ txn' = [txn EXCEPT ![h].ingress = "Body"]
  /\ UNCHANGED <<phase, nextOutgoingTxn, reusable, goawayAt, lastGood,
                 queued, written, acked, events, egressPaused, resumeQueue,
                 pauseWrites, failWrites, cbs,
                 pauseRounds, pauseQueue>>

OnMessageComplete(h) ==
  /\ Ingress(h)
  /\ txn[h].ingress \in {"Headers", "Body"}
  /\ Commit([txn EXCEPT ![h].ingress = "Done"], phase)
  /\ UNCHANGED <<nextOutgoingTxn, reusable, goawayAt, lastGood, queued,
                 written, acked, events, egressPaused, resumeQueue,
                 pauseWrites, failWrites, cbs,
                 pauseRounds, pauseQueue>>

\* Defect variant of OnGoaway: the stream lastGood itself is failed too.
OnGoawayInclusive(g) ==
  /\ Quiescent
  /\ phase # "Closed"
  /\ lastGood' = IF g < lastGood THEN g ELSE lastGood
  /\ GenerateGoaway(AllStarted(txn), queued)
  /\ LET unacked == {h \in OpenSet : txn[h].err = "None" /\ txn[h].id >= g}
         t == Settle([h \in Handlers |->
                IF h \in unacked
                THEN [txn[h] EXCEPT !.err = "StreamUnacknowledged",
                                    !.egress = "Done", !.ingress = "Done"]
                ELSE txn[h]])
     IN /\ phase' = ShutdownIfDrained("Draining", t)
        /\ MaybePause(t, queued')
  /\ UNCHANGED <<nextOutgoingTxn, written, acked, events, resumeQueue,
                 pauseWrites, failWrites, cbs, pauseRounds>>

\* onGoaway(lastGood): drain(), onGoaway to every transaction, then every
\* locally initiated stream above lastGood fails as unacknowledged.
OnGoaway(g) ==
  /\ phase # "Closed"
  /\ Quiescent
  /\ lastGood' = IF g < lastGood THEN g ELSE lastGood
  /\ GenerateGoaway(AllStarted(txn), queued)
  /\ LET unacked == {h \in OpenSet : txn[h].err = "None" /\ txn[h].id > g}
         t == Settle([h \in Handlers |->
                IF h \in unacked
                THEN [txn[h] EXCEPT !.err = "StreamUnacknowledged",
                                    !.egress = "Done", !.ingress = "Done"]
                ELSE txn[h]])
     IN /\ phase' = ShutdownIfDrained("Draining", t)
        /\ MaybePause(t, queued')
  /\ UNCHANGED <<nextOutgoingTxn, written, acked, events, resumeQueue,
                 pauseWrites, failWrites, cbs,
                 pauseRounds>>

-----------------------------------------------------------------------------
(* The write path: the session's loop callback hands the write buffer to  *)
(* the transport; the fixture's transport parks the callback while         *)
(* pauseWrites_ is set, else completes it at once (writeInLoop_ is never   *)
(* set by these tests).                                                    *)

\* Defect variant of HandleWrite: writeSuccess delivered twice.
HandleWriteTwice(n) ==
  IF failWrites
  THEN /\ FailAll("WriteError")
       /\ UNCHANGED <<acked, egressPaused>>
  ELSE OnWriteSuccess(2 * n)

\* HTTPUpstreamTest::handleWrite: writeErr if failWrites_, else writeSuccess.
HandleWrite(n) ==
  IF failWrites
  THEN /\ FailAll("WriteError")
       /\ UNCHANGED <<acked, egressPaused>>
  ELSE OnWriteSuccess(n)

\* Session loop callback + HTTPUpstreamTest::onWriteChain.
LoopWrite ==
  /\ phase # "Closed"
  /\ Quiescent
  /\ queued > written
  /\ written' = queued
  /\ IF pauseWrites
     THEN /\ cbs' = Append(cbs, queued - written)
          /\ UNCHANGED <<phase, txn, acked, events, egressPaused, resumeQueue>>
     ELSE /\ HandleWrite(queued - written)
          /\ UNCHANGED cbs
  /\ UNCHANGED <<nextOutgoingTxn, reusable, goawayAt, lastGood, queued,
                 pauseWrites, failWrites, pauseRounds, pauseQueue>>

\* Test body: pauseWrites_ = true.
PauseWrites ==
  /\ Quiescent
  /\ "pauseWrites" \in FixtureFlags
  /\ phase # "Closed"
  /\ ~pauseWrites
  /\ pauseRounds < MaxPauseRounds
  /\ pauseWrites' = TRUE
  /\ pauseRounds' = pauseRounds + 1
  /\ UNCHANGED <<phase, nextOutgoingTxn, reusable, goawayAt, lastGood, txn,
                 queued, written, acked, events, egressPaused, resumeQueue,
                 failWrites, cbs, pauseQueue>>

\* Test body: failWrites_ = true.
FailWrites ==
  /\ Quiescent
  /\ "failWrites" \in FixtureFlags
  /\ phase # "Closed"
  /\ ~failWrites
  /\ failWrites' = TRUE
  /\ UNCHANGED <<phase, nextOutgoingTxn, reusable, goawayAt, lastGood, txn,
                 queued, written, acked, events, egressPaused, resumeQueue,
                 pauseWrites, cbs,
                 pauseRounds, pauseQueue>>

\* HTTPUpstreamTest::resumeWrites: clear pauseWrites_ and complete every
\* parked write callback.
ResumeWrites ==
  /\ Quiescent
  /\ pauseWrites
  /\ pauseWrites' = FALSE
  /\ UNCHANGED <<phase, nextOutgoingTxn, reusable, goawayAt, lastGood, txn,
                 queued, written, acked, events, egressPaused, resumeQueue,
                 failWrites, cbs,
                 pauseRounds, pauseQueue>>

\* The write timer fires while a write the transport accepted is still
\* parked (WriteTimeoutAfterResponse): every transaction, even one whose
\* response is complete, fails with WriteTimeout in both directions and
\* the session shuts down; the parked callback stays with the transport.
WriteTimeout ==
  /\ Quiescent
  /\ "timeouts" \in FixtureFlags
  /\ phase # "Closed"
  /\ cbs # <<>>
  /\ FailAll("WriteTimeout")
  /\ UNCHANGED <<nextOutgoingTxn, reusable, goawayAt, lastGood, queued,
                 written, acked, egressPaused, pauseWrites, failWrites, cbs,
                 pauseRounds, pauseQueue>>

\* Defect variant of WriteCallback: the callback of a closed session is
\* handled as if the session were alive.
WriteCallbackAfterClose ==
  /\ ~pauseWrites
  /\ cbs # <<>>
  /\ ~InCallback
  /\ cbs' = Tail(cbs)
  /\ HandleWrite(Head(cbs))
  /\ UNCHANGED <<nextOutgoingTxn, reusable, goawayAt, lastGood, queued,
                 written, pauseWrites, failWrites, pauseRounds, pauseQueue>>

\* One iteration of resumeWrites()' loop: handleWrite on the next parked
\* callback, after the previous one's callbacks have returned.  The
\* callback of a session already closed is a no-op.
WriteCallback ==
  /\ ~pauseWrites
  /\ cbs # <<>>
  /\ ~InCallback
  /\ cbs' = Tail(cbs)
  /\ IF phase = "Closed"
     THEN UNCHANGED <<phase, txn, acked, events, egressPaused, resumeQueue>>
     ELSE HandleWrite(Head(cbs))
  /\ UNCHANGED <<nextOutgoingTxn, reusable, goawayAt, lastGood, queued,
                 written, pauseWrites, failWrites, pauseRounds, pauseQueue>>

\* HTTPUpstreamTest::TearDown: the test ends with writes still parked;
\* every parked callback gets writeErr, the first fails the session.
TearDown ==
  /\ Quiescent
  /\ pauseWrites
  /\ cbs # <<>>
  /\ cbs' = <<>>
  /\ IF phase = "Closed"
     THEN UNCHANGED <<phase, txn, events, resumeQueue>>
     ELSE FailAll("WriteError")
  /\ UNCHANGED <<nextOutgoingTxn, reusable, goawayAt, lastGood, queued,
                 written, acked, egressPaused, pauseWrites, failWrites,
                 pauseRounds, pauseQueue>>

\* resumeTransactions: one transaction of the loop gets onEgressResumed;
\* the loop tolerates transactions detached by earlier callbacks.  A
\* buffer refilled by the callbacks re-pauses egress, and a draining
\* session left without transactions shuts down, when the loop ends.
ResumeStep ==
  /\ resumeQueue # <<>>
  /\ LET h      == Head(resumeQueue)
         t      == IF Open(txn, h) THEN [txn EXCEPT ![h].paused = FALSE]
                   ELSE txn
         inLoop == Tail(resumeQueue) # <<>>
     IN /\ PauseCheck(t, queued, inLoop)
        /\ phase' = ShutdownCheck(phase, t, inLoop)
  /\ resumeQueue' = Tail(resumeQueue)
  /\ UNCHANGED <<nextOutgoingTxn, reusable, goawayAt, lastGood, queued,
                 written, acked, events, pauseWrites,
                 failWrites, cbs,
                 pauseRounds>>

\* Defect variant of PauseStep: the loop calls into a transaction an
\* earlier callback has already detached.
PauseStepStale ==
  /\ pauseQueue # <<>>
  /\ txn' = [txn EXCEPT ![Head(pauseQueue)].paused = TRUE]
  /\ pauseQueue' = Tail(pauseQueue)
  /\ UNCHANGED <<phase, nextOutgoingTxn, reusable, goawayAt, lastGood, queued,
                 written, acked, events, egressPaused, resumeQueue,
                 pauseWrites, failWrites, cbs, pauseRounds>>

\* pauseTransactions: one transaction of the loop gets onEgressPaused; the
\* loop looks each stream up again and skips one that an earlier callback
\* (a dropConnection or sendAbort from onEgressPaused) has detached.
PauseStep ==
  /\ pauseQueue # <<>>
  /\ LET h == Head(pauseQueue)
     IN txn' = IF Open(txn, h) THEN [txn EXCEPT ![h].paused = TRUE] ELSE txn
  /\ pauseQueue' = Tail(pauseQueue)
  /\ UNCHANGED <<phase, nextOutgoingTxn, reusable, goawayAt, lastGood, queued,
                 written, acked, events, egressPaused, resumeQueue,
                 pauseWrites, failWrites, cbs, pauseRounds>>

\* The session is destroyed: nothing more happens.
Terminated ==
  /\ phase = "Closed"
  /\ UNCHANGED vars

-----------------------------------------------------------------------------

Init ==
  /\ phase = "Running"
  /\ nextOutgoingTxn = 1
  /\ reusable = TRUE
  /\ goawayAt = 0
  /\ lastGood = NoGoaway
  /\ txn = [h \in Handlers |-> Unused]
  /\ queued = 0
  /\ written = 0
  /\ acked = 0
  /\ events = <<>>
  /\ egressPaused = FALSE
  /\ resumeQueue = <<>>
  /\ pauseQueue = <<>>
  /\ pauseWrites = FALSE
  /\ failWrites = FALSE
  /\ cbs = <<>>
  /\ pauseRounds = 0

\* The application calls in from the test body or from a resume callback.
App ==
  /\ Quiescent \/ InCallback
  /\ \E h \in Handlers :
       \/ NewTransaction(h)
       \/ SendHeaders(h)
       \/ SendBody(h)
       \/ SendEOM(h)
       \/ SendAbort(h)

Peer ==
  \/ \E h \in Handlers :
       \/ OnHeadersComplete(h)
       \/ OnBody(h)
       \/ OnMessageComplete(h)
  \/ \E g \in GoawayIds : OnGoaway(g)

Next ==
  \/ App
  \/ Peer
  \/ Drain
  \/ DropConnection
  \/ Destroy
  \/ LoopWrite
  \/ ResumeStep
  \/ PauseStep
  \/ PauseWrites
  \/ FailWrites
  \/ ResumeWrites
  \/ WriteCallback
  \/ TearDown
  \/ WriteTimeout
  \/ Terminated

\* The event loop runs its callbacks, and the transport eventually
\* completes (or fails) every write it accepted.
Fairness ==
  /\ WF_vars(LoopWrite)
  /\ WF_vars(ResumeStep)
  /\ WF_vars(PauseStep)
  /\ WF_vars(ResumeWrites)
  /\ WF_vars(WriteCallback)

Spec == Init /\ [][Next]_vars /\ Fairness

-----------------------------------------------------------------------------
(* Properties.                                                             *)

TxnRec == [st : {"Unused", "Open", "Detached"}, id : Nat,
           egress : {"Start", "Sending", "Done"}, bodies : 0..MaxBodies,
           ingress : {"Start", "Headers", "Body", "Done"}, err : Errors,
           pending : Nat, paused : BOOLEAN]

TypeOK ==
  /\ phase \in {"Running", "Draining", "Closed"}
  /\ txn \in [Handlers -> TxnRec]
  /\ acked <= written /\ written <= queued
  /\ events \in Seq([off : Nat, txn : Handlers, kind : BET!Kinds])
  /\ resumeQueue \in Seq(Handlers)
  /\ pauseQueue \in Seq(Handlers)
  /\ cbs \in Seq(Nat)
  /\ {egressPaused, reusable, pauseWrites, failWrites} \subseteq BOOLEAN

\* Egress pause is balanced: while more than the write buffer limit sits
\* unacknowledged in the transport every live transaction has been told
\* onEgressPaused once the pause loop is over, and outside the pause and
\* resume loops each live transaction's view
\* equals the session's flag, including transactions created while paused.
PauseBalanced ==
  \A h \in OpenSet :
    /\ pauseQueue = <<>> /\ written - acked > WriteBufferLimit => txn[h].paused
    /\ ~InCallback => txn[h].paused = egressPaused

\* GOAWAY: a transaction failed as StreamUnacknowledged really is above
\* every lastGood the peer announced, and every transaction still running
\* without error has been acknowledged by every GOAWAY received, across
\* several GOAWAYs and transactions opened before or after them.
GoawaySafety ==
  \A h \in Handlers :
    /\ txn[h].err = "StreamUnacknowledged" => txn[h].id > lastGood
    /\ Open(txn, h) /\ txn[h].err = "None" => txn[h].id <= lastGood

\* A transaction is never detached while a byte event references it, and
\* an open transaction's pending counter matches the tracker.
ByteEventAccounting ==
  \A h \in Handlers :
    /\ ~Open(txn, h) => BET!EventsOf(events, h) = 0
    /\ Open(txn, h) => txn[h].pending = BET!EventsOf(events, h)

\* A transaction whose request and response are both complete eventually
\* detaches: its byte events fire once the transport has written them.
CompletedTxnDetaches ==
  \A h \in Handlers :
    (Open(txn, h) /\ txn[h].egress = "Done" /\ txn[h].ingress = "Done")
      ~> txn[h].st = "Detached"

\* drain() sends a GOAWAY (spec: "drain() -- move to Draining phase; send
\* a GOAWAY"): a session draining by its own drain() call has generated
\* its GOAWAY.
DrainSendsGoaway == phase = "Draining" /\ lastGood = NoGoaway => ~reusable

\* A destroyed session is inert: a write callback arriving late (the
\* writeSuccess or writeErr of a write parked when the write timer or
\* dropConnection closed the session, or delivered by TearDown), a timer
\* or a peer frame never changes a transaction, the byte-event queue, the
\* acknowledged count or the pause state again.
ClosedSessionInert ==
  [][phase = "Closed" =>
       UNCHANGED <<txn, events, acked, egressPaused, resumeQueue>>]_vars
=============================================================================
