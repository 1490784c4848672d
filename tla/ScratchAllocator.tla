--------------------------- MODULE ScratchAllocator ---------------------------
(***************************************************************************)
(* What ScratchBufAllocator promises the convolution library, as the       *)
(* comment above the class states it: one XLA allocation, handed out in   *)
(* its entirety to the first request it can satisfy, and to nobody after.  *)
(* A request for fewer than zero bytes or for more than the allocation is  *)
(* refused.  The object lives for one RunCudnnConvolution call; a new call *)
(* constructs a new one over a (possibly different) scratch buffer.        *)
(***************************************************************************)
EXTENDS Integers

CONSTANTS
  ScratchSizes,  \* sizes of the scratch buffers callers pass
  ByteSizes      \* the byte counts the library asks for (int64)

VARIABLES
  size,    \* the size of the wrapped allocation
  inUse,   \* the allocation has been handed out
  reply    \* the answer to the latest request: <<status, bytes, request>>

NoReply == <<"none", 0, 0>>

\* A new allocator over a scratch buffer of s bytes.
Construct(s) ==
  /\ size' = s
  /\ inUse' = FALSE
  /\ reply' = NoReply

\* The whole allocation, once, to a request that fits.
Grant(n) ==
  /\ ~inUse
  /\ 0 <= n /\ n <= size
  /\ inUse' = TRUE
  /\ reply' = <<"ok", size, n>>
  /\ UNCHANGED size

\* Everything else is refused and changes nothing.
Refuse(n) ==
  /\ inUse \/ n < 0 \/ n > size
  /\ reply' = <<"internal", 0, n>>
  /\ UNCHANGED <<size, inUse>>

Init ==
  /\ size \in ScratchSizes
  /\ inUse = FALSE
  /\ reply = NoReply

Next ==
  \/ \E s \in ScratchSizes : Construct(s)
  \/ \E n \in ByteSizes : Grant(n) \/ Refuse(n)

Spec == Init /\ [][Next]_<<size, inUse, reply>>
=============================================================================
