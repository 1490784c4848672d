--------------------------- MODULE MCUpgradeBridge ---------------------------
(* HTTPUpstreamRecvStreamTest's setFlowControl(100000, 105000, 110000)     *)
(* against the default window of 65535, scaled to 4, 5, 6 against 3.       *)
EXTENDS UpgradeBridge

MCFlowControl == <<4, 5, 6>>
=============================================================================
