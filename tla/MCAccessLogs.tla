---------------------------- MODULE MCAccessLogs ----------------------------
(***************************************************************************)
(* AccessLogs on small sizes: a queue of three, batches of two, so that    *)
(* one drain may or may not empty the queue, a batch that comes back may   *)
(* or may not fit, and six entries, one of them without a domain, are      *)
(* enough to fill everything again.                                        *)
(***************************************************************************)
EXTENDS AccessLogs
=============================================================================
