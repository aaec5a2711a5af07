------------------------------- MODULE MCRelay -------------------------------
(***************************************************************************)
(* Relay with two targets, so that a UDP association has one it has seen   *)
(* and one it has not, and a datagram for either at any time.              *)
(***************************************************************************)
EXTENDS Relay
=============================================================================
