---------------------- MODULE MCCudnnConvolutionRunner ----------------------
(***************************************************************************)
(* Bounded inputs for CudnnConvolutionRunner: every kind, the three native *)
(* element types and one the dispatch rejects, windows of 1 to 4 spatial   *)
(* dimensions (4 trips CHECK_LE), symmetric or asymmetric padding, filter  *)
(* shapes with a matching or an extra spatial dimension, and a layout      *)
(* conversion that succeeds or fails.  Spatial sizes, paddings and strides *)
(* are distinct per dimension and per operand, so that a dimension landing *)
(* on the wrong DimIndex shows.                                            *)
(***************************************************************************)
EXTENDS CudnnConvolutionRunner

\* The library's requests: negative, zero, exactly the buffer, one more.
MCByteSizes == {-1, 0, 4, 5}

Sizes(n, base) == [k \in 1..n |-> base + k]

Window(n, asym) ==
  [k \in 1..n |-> [lo |-> k, hi |-> IF asym /\ k = 1 THEN k + 1 ELSE k,
                   stride |-> 40 + k]]

MCParams ==
  { [kind     |-> kd,
     type     |-> t,
     window   |-> Window(nd, asym),
     in       |-> [batch |-> 2, feature |-> 3, spatial |-> Sizes(nd, 10)],
     filter   |-> [inFeature |-> 3, outFeature |-> 4,
                   spatial |-> Sizes(IF extra THEN nd + 1 ELSE nd, 20)],
     out      |-> [batch |-> 2, feature |-> 4, spatial |-> Sizes(nd, 30)],
     groups   |-> 1,
     layoutOk |-> ok] :
      kd \in {"kForward", "kBackwardInput", "kBackwardFilter"},
      t \in {"F16", "F32", "F64", "S32"},
      nd \in 1..4, asym \in BOOLEAN, extra \in BOOLEAN, ok \in BOOLEAN }
=============================================================================
