------------------------ MODULE CudnnConvolutionRunner ------------------------
(***************************************************************************)
(* XLA's cuDNN convolution runner (cudnn_convolution_runner.cc).           *)
(* RunCudnnConvolution wraps the scratch buffer in a ScratchBufAllocator,  *)
(* dispatches on the output element type, checks the convolution, builds  *)
(* the four cuDNN descriptors and enqueues one of three stream calls; the  *)
(* library may ask the allocator for scratch memory, any number of times, *)
(* while it runs.  Calls follow one another; a failed CHECK or LOG(FATAL)  *)
(* ends the process.                                                       *)
(*                                                                         *)
(* Shapes are abstracted to what the runner reads of them through the      *)
(* dimension numbers: batch and feature sizes and the spatial sizes in     *)
(* dnums order.  Window dimensions are [lo, hi, stride].                   *)
(***************************************************************************)
EXTENDS Integers, Sequences, TLC

CONSTANTS
  Params,        \* the CudnnConvParams callers pass
  ScratchSizes,  \* sizes of the scratch buffers callers pass
  ByteSizes      \* the byte counts the library asks the allocator for

VARIABLES
  pc,         \* "idle" between calls, "launching" inside the stream call,
              \* "aborted" once a CHECK or LOG(FATAL) fired
  params,     \* the current call's CudnnConvParams
  scratch,    \* ScratchBufAllocator::scratch_.size()
  allocated,  \* ScratchBufAllocator::allocated_
  reply,      \* the latest AllocateBytes answer: <<status, bytes, request>>
  launch,     \* the stream call enqueued by the current call
  status      \* the Status the latest call returned

vars == <<pc, params, scratch, allocated, reply, launch, status>>

NoReply == <<"none", 0, 0>>
NoLaunch == [call |-> "none"]

-----------------------------------------------------------------------------
(* ScratchBufAllocator                                                     *)

\* Defect variant of the size test: byte_size compared as a signed value.
TooBigSigned(n, size) == n > size

\* byte_size > scratch_.size(): int64 against uint64, so byte_size is
\* converted to uint64 and a negative request becomes 2^64 + n, more than
\* any scratch buffer.
TooBig(n, size) == n < 0 \/ n > size

\* Defect variant of AllocateBytes: the allocated_ test dropped.
AllocateBytesTwice(n) ==
  /\ pc = "launching"
  /\ IF TooBig(n, scratch)
     THEN /\ reply' = <<"internal", 0, n>> /\ UNCHANGED allocated
     ELSE /\ allocated' = TRUE /\ reply' = <<"ok", scratch, n>>
  /\ UNCHANGED <<pc, params, scratch, launch, status>>

\* AllocateBytes, called by the library during the stream call.
AllocateBytes(n) ==
  /\ pc = "launching"
  /\ IF allocated \/ TooBig(n, scratch)
     THEN /\ reply' = <<"internal", 0, n>> /\ UNCHANGED allocated
     ELSE /\ allocated' = TRUE /\ reply' = <<"ok", scratch, n>>
  /\ UNCHANGED <<pc, params, scratch, launch, status>>

-----------------------------------------------------------------------------
(* RunCudnnConvolutionImpl                                                 *)

NativeTypes == {"F16", "F32", "F64"}

\* std::max(2, num_dimensions).
EffectiveDims(nd) == IF nd > 2 THEN nd ELSE 2

\* A descriptor's spatial sizes, DimIndex 0 .. eff-1, zero-filled on
\* construction as BatchDescriptor/FilterDescriptor(ndims) do.
NewSpatial(eff) == [i \in 0..(eff - 1) |-> 0]

\* Defect variant of the loops: the DimIndex not reversed.
SetSpatialInOrder(f, eff, nd, vals) ==
  [i \in DOMAIN f |-> IF i < nd THEN vals[i + 1] ELSE f[i]]

\* for (dim = 0; dim < num_dimensions; ++dim)
\*   d.set_spatial_dim(eff - dim - 1, vals(dim));
SetSpatial(f, eff, nd, vals) ==
  [i \in DOMAIN f |-> IF eff - i - 1 < nd THEN vals[eff - i] ELSE f[i]]

\* The CHECKs of lines 102-118 that precede the layout conversion.
ChecksPass(p) ==
  /\ Len(p.window) <= 3
  /\ Len(p.in.spatial) = Len(p.window)
  /\ Len(p.filter.spatial) = Len(p.window)
  /\ Len(p.out.spatial) = Len(p.window)
  /\ \A k \in 1..Len(p.window) : p.window[k].lo = p.window[k].hi

\* Lines 131-185: the input, filter, convolution and output descriptors,
\* with the singleton dimension of a 1D convolution.
Descriptors(p) ==
  LET nd  == Len(p.window)
      eff == EffectiveDims(nd)
      one(f) == IF nd = 1 THEN [f EXCEPT ![0] = 1] ELSE f
      pad == SetSpatial(NewSpatial(eff), eff, nd, [k \in 1..nd |-> p.window[k].lo])
      str == SetSpatial(NewSpatial(eff), eff, nd, [k \in 1..nd |-> p.window[k].stride])
  IN [in     |-> [count |-> p.in.batch, features |-> p.in.feature,
                  spatial |-> one(SetSpatial(NewSpatial(eff), eff, nd, p.in.spatial))],
      filter |-> [inFeatures |-> p.filter.inFeature, outFeatures |-> p.filter.outFeature,
                  spatial |-> one(SetSpatial(NewSpatial(eff), eff, nd, p.filter.spatial))],
      conv   |-> [groups |-> p.groups,
                  padding |-> IF nd = 1 THEN [pad EXCEPT ![0] = 0] ELSE pad,
                  stride  |-> IF nd = 1 THEN [str EXCEPT ![0] = 1] ELSE str],
      out    |-> [count |-> p.out.batch, features |-> p.out.feature,
                  spatial |-> one(SetSpatial(NewSpatial(eff), eff, nd, p.out.spatial))]]

\* Lines 187-206: the stream call of each kind, and the buffer it writes.
StreamCall ==
  [kForward        |-> [call |-> "ThenConvolveWithAlgorithm", result |-> "output"],
   kBackwardInput  |-> [call |-> "ThenConvolveBackwardDataWithAlgorithm", result |-> "input"],
   kBackwardFilter |-> [call |-> "ThenConvolveBackwardFilterWithAlgorithm", result |-> "filter"]]

\* CudnnConvKindToString.
CudnnConvKindToString ==
  [kForward |-> "forward", kBackwardFilter |-> "backward_filter",
   kBackwardInput |-> "backward_input"]

-----------------------------------------------------------------------------
(* Actions                                                                 *)

\* RunCudnnConvolutionImpl<T>: read the parameters, CHECK the convolution
\* (a failure aborts), convert the layouts (an error is returned), then
\* build the descriptors and enqueue the kind's stream call.
RunCudnnConvolutionImpl(p) ==
  CASE ~ChecksPass(p) ->
         pc' = "aborted" /\ launch' = NoLaunch /\ UNCHANGED status
    [] ~p.layoutOk ->                               \* TF_ASSIGN_OR_RETURN
         pc' = "idle" /\ launch' = NoLaunch /\ status' = "layout_error"
    [] OTHER ->
         /\ pc' = "launching"
         /\ launch' = Descriptors(p) @@ StreamCall[p.kind]
         /\ UNCHANGED status

\* RunCudnnConvolution(params, scratch_buf, ...): construct the allocator,
\* then dispatch on the output type to the Impl; another type is
\* LOG(FATAL).
RunCudnnConvolution(p, s) ==
  /\ pc = "idle"
  /\ params' = p
  /\ scratch' = s
  /\ allocated' = FALSE
  /\ reply' = NoReply
  /\ IF p.type \in NativeTypes
     THEN RunCudnnConvolutionImpl(p)
     ELSE pc' = "aborted" /\ launch' = NoLaunch /\ UNCHANGED status

\* The stream call returns; !stream->ok() becomes an InternalError naming
\* the kind.
Return(ok) ==
  /\ pc = "launching"
  /\ pc' = "idle"
  /\ status' = IF ok THEN "ok"
               ELSE "internal: " \o CudnnConvKindToString[params.kind]
  /\ UNCHANGED <<params, scratch, allocated, reply, launch>>

Init ==
  /\ pc = "idle"
  /\ params \in Params
  /\ scratch \in ScratchSizes
  /\ allocated = FALSE
  /\ reply = NoReply
  /\ launch = NoLaunch
  /\ status = "none"

Next ==
  \/ \E p \in Params, s \in ScratchSizes : RunCudnnConvolution(p, s)
  \/ \E n \in ByteSizes : AllocateBytes(n)
  \/ \E ok \in BOOLEAN : Return(ok)

Spec == Init /\ [][Next]_vars

-----------------------------------------------------------------------------
(* Properties                                                              *)

\* ScratchBufAllocator implements the allocator contract: the scratch
\* memory is handed out whole, at most once per RunCudnnConvolution call,
\* and never to a request that is negative or larger than the buffer, in
\* spite of the library asking as often as it likes (AllocateBytes).
Alloc == INSTANCE ScratchAllocator WITH size <- scratch, inUse <- allocated
AllocatorContract == Alloc!Spec

\* Whatever the number of spatial dimensions, the enqueued stream call
\* describes the XLA convolution (RunCudnnConvolutionImpl's descriptor
\* loops and 1D case): every spatial dimension k of the window lands on
\* one DimIndex, the same in all four descriptors (input, filter and
\* output sizes, padding and stride), the dimensions in reverse order; a
\* DimIndex no dimension lands on is a trivial one (size 1, no padding,
\* stride 1); and the call computes into the operand the kind is named
\* after (CudnnConvKindToString).
LaunchDescribesConvolution ==
  pc = "launching" =>
    LET p   == params
        d   == launch
        nd  == Len(p.window)
        eff == EffectiveDims(nd)
    IN /\ \E sigma \in [1..nd -> 0..(eff - 1)] :
            /\ \A k, k2 \in 1..nd : k < k2 => sigma[k] > sigma[k2]
            /\ \A k \in 1..nd :
                 /\ d.in.spatial[sigma[k]] = p.in.spatial[k]
                 /\ d.filter.spatial[sigma[k]] = p.filter.spatial[k]
                 /\ d.out.spatial[sigma[k]] = p.out.spatial[k]
                 /\ d.conv.padding[sigma[k]] = p.window[k].lo
                 /\ d.conv.stride[sigma[k]] = p.window[k].stride
            /\ \A i \in (0..(eff - 1)) \ {sigma[k] : k \in 1..nd} :
                 /\ d.in.spatial[i] = 1 /\ d.filter.spatial[i] = 1
                 /\ d.out.spatial[i] = 1
                 /\ d.conv.padding[i] = 0 /\ d.conv.stride[i] = 1
       /\ d.in.count = p.in.batch /\ d.in.features = p.in.feature
       /\ d.out.count = p.out.batch /\ d.out.features = p.out.feature
       /\ d.filter.inFeatures = p.filter.inFeature
       /\ d.filter.outFeatures = p.filter.outFeature
       /\ d.conv.groups = p.groups
       /\ CudnnConvKindToString[p.kind]
            = IF d.result = "output" THEN "forward" ELSE "backward_" \o d.result
=============================================================================
