----------------------------- MODULE HandlerLife -----------------------------
(***************************************************************************)
(* What Service takes the handler of one connection to be, between its     *)
(* begin and its end: a set-up that may fail, or last for ever, whatever   *)
(* becomes of the context; then a relay that ends when a peer closes and   *)
(* must end once the context is done.                                      *)
(***************************************************************************)
VARIABLES stage, ctxDone

vars == <<stage, ctxDone>>

Init == stage = "setup" /\ ctxDone \in BOOLEAN

Goes(from, to) == stage = from /\ stage' = to /\ UNCHANGED ctxDone

Establish  == Goes("setup", "relaying")
SetupFails == Goes("setup", "closed")
PeerCloses == Goes("relaying", "closed")
CutOff     == ctxDone /\ Goes("relaying", "closed")
Cancel     == ~ctxDone /\ ctxDone' = TRUE /\ UNCHANGED stage

Next == Establish \/ SetupFails \/ PeerCloses \/ CutOff \/ Cancel

Spec == Init /\ [][Next]_vars /\ WF_vars(CutOff)
=============================================================================
