----------------------------- MODULE MCService -----------------------------
(***************************************************************************)
(* Instances of Service for TLC: two inbounds (the first one limited, the  *)
(* second one not), the admin listener, a reporter, and connections enough *)
(* to fill the limit, to be turned away and to be served elsewhere.        *)
(***************************************************************************)
EXTENDS Service

MCMax == [i \in 1..N |-> IF i = 1 THEN 1 ELSE 0]

\* Two connections for inbound 1, the third, when there is one, for inbound 2.
CONSTANTS c1, c2, c3

MCInboundOf == [c \in Conns |-> IF c = c3 THEN 2 ELSE 1]
=============================================================================
