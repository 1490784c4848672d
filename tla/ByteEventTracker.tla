-------------------------- MODULE ByteEventTracker --------------------------
(***************************************************************************)
(* The session's ByteEventTracker: an ordered queue of byte events, each   *)
(* an offset into the session's egress byte stream, the transaction it     *)
(* belongs to and its kind.  Events are appended as the codec generates    *)
(* bytes, so offsets are monotone in queue order; when the transport       *)
(* acknowledges bytes, every event whose offset is covered fires, in       *)
(* order, and is removed.  Stateless: the session owns the queue.          *)
(***************************************************************************)
LOCAL INSTANCE Integers
LOCAL INSTANCE Sequences

Kinds == {"FirstHeaderByte", "LastByte"}

\* addFirstHeaderByteEvent / addLastByteEvent: register an event at offset.
AddEvent(q, off, t, kind) == Append(q, [off |-> off, txn |-> t, kind |-> kind])

\* Defect variant of Due: an event fires only once a byte past it is acked.
DueStrict(e, ackedBytes) == e.off < ackedBytes

\* An event is due once the transport acknowledged its byte.
Due(e, ackedBytes) == e.off <= ackedBytes

\* processByteEvents(bytesWritten): the events that are still pending.
Remaining(q, ackedBytes) == SelectSeq(q, LAMBDA e : ~Due(e, ackedBytes))

\* How many of transaction t's events processByteEvents fires.
FiredFor(q, ackedBytes, t) ==
  Len(SelectSeq(q, LAMBDA e : Due(e, ackedBytes) /\ e.txn = t))

\* The events still referencing transaction t.
EventsOf(q, t) == Len(SelectSeq(q, LAMBDA e : e.txn = t))
=============================================================================
