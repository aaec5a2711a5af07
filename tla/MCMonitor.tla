----------------------------- MODULE MCMonitor -----------------------------
(***************************************************************************)
(* An instance of Monitor for TLC: two inbounds, Kboard, one connection    *)
(* that is forwarded and one UDP association.                              *)
(***************************************************************************)
EXTENDS Monitor

CONSTANTS c1, u1
=============================================================================
