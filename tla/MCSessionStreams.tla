-------------------------- MODULE MCSessionStreams --------------------------
(* Two transactions behind the three virtual priority nodes, with windows *)
(* scaled down to a default of 2.                                          *)
EXTENDS SessionStreams
=============================================================================
