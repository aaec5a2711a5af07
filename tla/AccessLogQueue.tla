--------------------------- MODULE AccessLogQueue ---------------------------
(***************************************************************************)
(* What the access log of a node promises, whatever Kboard does: a bounded *)
(* first-in first-out queue.  Entries are delivered oldest first, in       *)
(* batches of bounded size; an entry is lost when it is blank, or when the *)
(* queue is at its limit, and then the newest entries are.                 *)
(***************************************************************************)
EXTENDS Integers, Sequences, Functions

CONSTANTS QueueMax, BatchMax, Blank

VARIABLES
    pending,    \* entries that are neither delivered nor lost, in order
    recorded,   \* number of entries ever offered; entry k is the k-th
    delivered,  \* entries of which the node knows that Kboard has them
    lost        \* entries given up

vars == <<pending, recorded, delivered, lost>>

Init ==
    /\ pending = <<>>
    /\ recorded = 0
    /\ delivered = {}
    /\ lost = {}

Enqueue ==
    /\ recorded' = recorded + 1
    /\ recorded' \notin Blank
    /\ pending' = Append(pending, recorded')
    /\ UNCHANGED <<delivered, lost>>

Refuse ==
    /\ recorded' = recorded + 1
    /\ recorded' \in Blank \/ Len(pending) >= QueueMax
    /\ lost' = lost \cup {recorded'}
    /\ UNCHANGED <<pending, delivered>>

Deliver(n) ==
    /\ delivered' = delivered \cup Range(SubSeq(pending, 1, n))
    /\ pending' = SubSeq(pending, n + 1, Len(pending))
    /\ UNCHANGED <<recorded, lost>>

Discard ==
    /\ Len(pending) > QueueMax
    /\ lost' = lost \cup Range(SubSeq(pending, QueueMax + 1, Len(pending)))
    /\ pending' = SubSeq(pending, 1, QueueMax)
    /\ UNCHANGED <<recorded, delivered>>

Next ==
    \/ Enqueue
    \/ Refuse
    \/ \E n \in 1..BatchMax : n <= Len(pending) /\ Deliver(n)
    \/ Discard

Spec == Init /\ [][Next]_vars
=============================================================================
