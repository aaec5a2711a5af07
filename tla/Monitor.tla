------------------------------- MODULE Monitor -------------------------------
(***************************************************************************)
(* What a node says of itself while it works: the counters of Metrics and  *)
(* Snapshot, which reads them one after the other (internal/node/          *)
(* metrics.go), the addresses and the readiness that Run publishes as it   *)
(* opens its listeners, and the two that ask: the admin interface          *)
(* (handleReady, handleMetrics, handleStatus of internal/node/service.go)  *)
(* and the reporter's alive report (internal/node/kboard.go).              *)
(*                                                                         *)
(* Service has begin, end and refusal as single steps of the counters, and *)
(* nobody who reads them.  Here every atomic Add and every Load is a step. *)
(* All that ask share a read lock and change nothing, so one call at a     *)
(* time stands for any number of them.                                     *)
(***************************************************************************)
EXTENDS Integers, Sequences, FiniteSets

CONSTANTS
    N,            \* number of configured inbounds
    Conns,        \* client connections that may arrive
    Associations, \* those that are UDP associations
    HasKboard     \* cfg.Kboard # nil

Inbounds == 1..N

ASSUME MonitorAssumption ==
    /\ N \in Nat \ {0}
    /\ IsFiniteSet(Conns)
    /\ Associations \subseteq Conns
    /\ HasKboard \in BOOLEAN

VARIABLES
    main,      \* where Run is
    next,      \* the inbound Run opens now
    addrs,     \* the keys of Service.inboundAddrs
    started,   \* Service.startedListeners
    adminAddr, \* Service.adminAddr is set
    loop,      \* each accept loop
    errCh,     \* an accept error waits in Run's channel
    asked,     \* who may ask: the admin server serves, the reporter runs
    conn,      \* the place of each connection's handler
    adds,      \* the counters each handler has added to
    metrics,   \* Metrics
    call       \* the call of Snapshot, Status or handleReady in progress

run == <<main, next, addrs, started, adminAddr, loop, errCh, asked>>
handlers == <<conn, adds, metrics>>
vars == <<run, handlers, call>>
-----------------------------------------------------------------------------
\* The fields of MetricsSnapshot in the order in which Snapshot loads them.
Fields == <<"active", "total", "rejected", "transport", "handshake", "proxy",
            "up", "down">>
FieldNames == {Fields[k] : k \in 1..Len(Fields)}
Errors     == {"transport", "handshake", "proxy"}
Copies     == {"up", "down"}

MainStates == {"listen", "publish", "spawn", "admin", "publish-admin", "serve",
               "report", "running", "closing", "returned"}
LoopStates == {"none", "accepts", "failed", "stopped"}
ConnStates == {"new", "half", "begun", "relaying", "failed", "over", "cut",
               "rejected"}

Zeros == [f \in FieldNames |-> 0]

\* No call yet: nothing was answered.
NoCall == [what |-> "nothing", at |-> 0, ready |-> FALSE, inbounds |-> {},
           admin |-> FALSE, seen |-> Zeros, ended |-> {}, half |-> 0]

Init ==
    /\ main = "listen"
    /\ next = 1
    /\ addrs = {}
    /\ started = 0
    /\ adminAddr = FALSE
    /\ loop = [i \in Inbounds |-> "none"]
    /\ errCh = FALSE
    /\ asked = {}
    /\ conn = [c \in Conns |-> "new"]
    /\ adds = [c \in Conns |-> {}]
    /\ metrics = Zeros
    /\ call = NoCall
-----------------------------------------------------------------------------
(* Run *)

\* No snapshot is being taken.
Idle == call.at \notin 1..Len(Fields)

Goes(from, to) == main = from /\ main' = to

\* net.Listen for the next inbound.
Listen ==
    /\ Goes("listen", "publish")
    /\ UNCHANGED <<next, addrs, started, adminAddr, loop, errCh, asked,
                   handlers, call>>

\* setInboundAddress.
Publish ==
    /\ Goes("publish", "spawn")
    /\ addrs' = addrs \cup {next}
    /\ started' = started + 1
    /\ UNCHANGED <<next, adminAddr, loop, errCh, asked, handlers, call>>

\* The accept loop of the inbound starts.
Spawn ==
    /\ Goes("spawn", IF next = N THEN "admin" ELSE "listen")
    /\ loop' = [loop EXCEPT ![next] = "accepts"]
    /\ next' = next + 1
    /\ UNCHANGED <<addrs, started, adminAddr, errCh, asked, handlers, call>>

\* startAdmin: the listener, then setAdminAddress; then Serve.
ListenAdmin ==
    /\ Goes("admin", "publish-admin")
    /\ UNCHANGED <<next, addrs, started, adminAddr, loop, errCh, asked,
                   handlers, call>>

PublishAdmin ==
    /\ Goes("publish-admin", "serve")
    /\ adminAddr' = TRUE
    /\ UNCHANGED <<next, addrs, started, loop, errCh, asked, handlers, call>>

Serve ==
    /\ Goes("serve", "report")
    /\ asked' = asked \cup {"admin"}
    /\ UNCHANGED <<next, addrs, started, adminAddr, loop, errCh, handlers, call>>

\* The reporter, if Kboard is configured; then Run waits in its select.
StartReporter ==
    /\ Goes("report", "running")
    /\ asked' = asked \cup IF HasKboard THEN {"reporter"} ELSE {}
    /\ UNCHANGED <<next, addrs, started, adminAddr, loop, errCh, handlers, call>>

Accepting == \E i \in Inbounds : loop[i] = "accepts"

\* A listener that cannot be opened, the caller's cancel or an accept error:
\* the context is cancelled and the listeners are being closed.
Stop ==
    /\ main \in {"listen", "admin", "running"}
    /\ main' = "closing"
    /\ UNCHANGED <<next, addrs, started, adminAddr, loop, errCh, asked,
                   handlers, call>>

\* Accept in a closed listener, or failing once the context is cancelled.
LoopStops(i) ==
    /\ main = "closing" /\ loop[i] = "accepts"
    /\ loop' = [loop EXCEPT ![i] = "stopped"]
    /\ UNCHANGED <<main, next, addrs, started, adminAddr, errCh, asked, handlers, call>>

\* Shutdown and wg.Wait(): no admin request, no report and no loop is left.
Return ==
    /\ Idle /\ ~Accepting
    /\ Goes("closing", "returned")
    /\ asked' = {}
    /\ UNCHANGED <<next, addrs, started, adminAddr, loop, errCh, handlers, call>>

\* Mutant: an accept error ends the loop and nothing else.
AcceptFailsSilently(i) ==
    /\ main # "closing" /\ loop[i] = "accepts"
    /\ loop' = [loop EXCEPT ![i] = "failed"]
    /\ UNCHANGED <<main, next, addrs, started, adminAddr, errCh, asked, handlers, call>>

\* Accept fails in an open listener: the loop ends with an error for Run.
AcceptFails(i) ==
    /\ main # "closing" /\ loop[i] = "accepts"
    /\ loop' = [loop EXCEPT ![i] = "failed"]
    /\ errCh' = TRUE
    /\ UNCHANGED <<main, next, addrs, started, adminAddr, asked, handlers, call>>
-----------------------------------------------------------------------------
(* The handlers and what they count *)

HandlerGoes(c, from, to) == conn[c] = from /\ conn' = [conn EXCEPT ![c] = to]

\* atomic.Uint64.Add of one counter by the handler of c.
Adds(c, f) ==
    /\ metrics' = [metrics EXCEPT ![f] = @ + 1]
    /\ adds' = [adds EXCEPT ![c] = @ \cup {f}]

\* Mutant: a refused connection is ended as if it had begun.
RejectEnding(c) ==
    /\ Accepting
    /\ HandlerGoes(c, "new", "rejected")
    /\ metrics' = [metrics EXCEPT !.rejected = @ + 1, !.active = @ - 1]
    /\ adds' = [adds EXCEPT ![c] = @ \cup {"rejected"}]
    /\ UNCHANGED <<run, call>>

\* A full inbound: addRejected, then the connection is closed.
Reject(c) ==
    /\ Accepting
    /\ HandlerGoes(c, "new", "rejected")
    /\ Adds(c, "rejected")
    /\ UNCHANGED <<run, call>>

\* beginConnection: active, then total.  The goroutine of an accepted
\* connection may come to it when its loop has ended, or Run has returned.
BeginActive(c) ==
    /\ \E i \in Inbounds : loop[i] # "none"
    /\ HandlerGoes(c, "new", "half")
    /\ Adds(c, "active")
    /\ UNCHANGED <<run, call>>

BeginTotal(c) ==
    /\ HandlerGoes(c, "half", "begun")
    /\ Adds(c, "total")
    /\ UNCHANGED <<run, call>>

\* The set-up fails and is counted as one of the three errors.
Fails(c) ==
    /\ HandlerGoes(c, "begun", "failed")
    /\ \E f \in Errors : Adds(c, f)
    /\ UNCHANGED <<run, call>>

Relays(c) ==
    /\ HandlerGoes(c, "begun", "relaying")
    /\ UNCHANGED <<adds, metrics, run, call>>

\* One direction has ended and its bytes are counted.  Those of a cancelled
\* association may do so after their handler has returned.  An association
\* counts each datagram as it passes; its counts are one Add here, and the
\* properties speak of who has counted, not of how many bytes.
CopyCounts(c, f) ==
    /\ conn[c] \in {"relaying", "cut"}
    /\ f \notin adds[c]
    /\ Adds(c, f)
    /\ UNCHANGED <<conn, run, call>>

\* Both directions are over, and one of them ended with an error.
RelayFails(c) ==
    /\ Copies \subseteq adds[c]
    /\ HandlerGoes(c, "relaying", "failed")
    /\ Adds(c, "proxy")
    /\ UNCHANGED <<run, call>>

\* The deferred endConnection.
Ends(c, from, to) ==
    /\ HandlerGoes(c, from, to)
    /\ metrics' = [metrics EXCEPT !.active = @ - 1]
    /\ UNCHANGED <<adds, run, call>>

EndsFailed(c) == Ends(c, "failed", "over")

EndsRelayed(c) == Copies \subseteq adds[c] /\ Ends(c, "relaying", "over")

\* ctx.Done() in pipeUDPAssociate: the copies are not waited for.
EndsCut(c) ==
    /\ c \in Associations
    /\ main \in {"closing", "returned"}
    /\ Ends(c, "relaying", "cut")
-----------------------------------------------------------------------------
(* The answers *)

\* What a call finds in the maps it copies under the read lock.
Reads(what, at) ==
    call' = [NoCall EXCEPT !.what = what, !.at = at,
                           !.ready = (started = N),
                           !.inbounds = addrs, !.admin = adminAddr]

\* handleReady: one comparison, nothing of the metrics.
AskReady ==
    /\ Idle /\ "admin" \in asked
    /\ Reads("ready", Len(Fields) + 1)
    /\ UNCHANGED <<run, handlers>>

\* handleMetrics and handleStatus, and reportAlive: a Snapshot begins.
AskStatus ==
    /\ Idle
    /\ \/ "admin" \in asked /\ Reads("status", 1)
       \/ "reporter" \in asked /\ Reads("alive", 1)
    /\ UNCHANGED <<run, handlers>>

\* Mutant: the counters are loaded from the last to the first.
LoadBackwards ==
    LET f == Fields[Len(Fields) + 1 - call.at] IN
    /\ ~Idle
    /\ call' = [call EXCEPT
            !.at = @ + 1,
            !.seen[f] = metrics[f],
            !.ended = IF f = "active" THEN {c \in Conns : conn[c] \in {"over", "rejected"}} ELSE @,
            !.half = IF f = "total" THEN Cardinality({c \in Conns : conn[c] = "half"}) ELSE @]
    /\ UNCHANGED <<run, handlers>>

\* The next field of the snapshot is loaded.  "ended" and "half" are history:
\* the connections that were over when active was loaded, and the handlers
\* between their two Adds when total was.
Load ==
    LET f == Fields[call.at] IN
    /\ ~Idle
    /\ call' = [call EXCEPT
            !.at = @ + 1,
            !.seen[f] = metrics[f],
            !.ended = IF f = "active" THEN {c \in Conns : conn[c] \in {"over", "rejected"}} ELSE @,
            !.half = IF f = "total" THEN Cardinality({c \in Conns : conn[c] = "half"}) ELSE @]
    /\ UNCHANGED <<run, handlers>>

\* onlineCount of what the alive report has in its hands.
Online == IF call.seen.active <= 0 THEN 0 ELSE call.seen.active

\* Run has returned; the process is about to end.
Terminated == main = "returned" /\ UNCHANGED vars

RunStep ==
    \/ Listen \/ Publish \/ Spawn
    \/ ListenAdmin \/ PublishAdmin \/ Serve \/ StartReporter
    \/ Stop \/ Return
    \/ \E i \in Inbounds : AcceptFails(i) \/ LoopStops(i)

HandlerStep(c) ==
    \/ Reject(c) \/ BeginActive(c) \/ BeginTotal(c) \/ Fails(c) \/ Relays(c)
    \/ \E f \in Copies : CopyCounts(c, f)
    \/ RelayFails(c) \/ EndsFailed(c) \/ EndsRelayed(c) \/ EndsCut(c)

CallStep == AskReady \/ AskStatus \/ Load

Next == RunStep \/ (\E c \in Conns : HandlerStep(c)) \/ CallStep \/ Terminated

Spec == Init /\ [][Next]_vars
-----------------------------------------------------------------------------
(* Correctness *)

TypeOK ==
    /\ main \in MainStates
    /\ next \in 1..(N + 1)
    /\ addrs \subseteq Inbounds
    /\ started \in 0..N
    /\ adminAddr \in BOOLEAN /\ errCh \in BOOLEAN
    /\ loop \in [Inbounds -> LoopStates]
    /\ asked \subseteq {"admin", "reporter"}
    /\ conn \in [Conns -> ConnStates]
    /\ adds \in [Conns -> SUBSET FieldNames]
    /\ metrics \in [FieldNames -> Nat]
    /\ call.what \in {"nothing", "ready", "status", "alive"}
    /\ call.at \in 0..(Len(Fields) + 1)
    /\ call.seen \in [FieldNames -> Nat]
    /\ call.ended \subseteq Conns

\* A call that has been answered.
Answered == call.at = Len(Fields) + 1

\* Who asks finds the start-up finished: every inbound is listed and the node
\* is ready; and a ready node whose accept loop has died is about to stop, for
\* startedListeners never goes down (service.go:308-361, 137-148).
AnswersAreTrue ==
    call.what # "nothing" =>
        /\ call.ready
        /\ call.inbounds = Inbounds
        /\ call.admin
        /\ \A i \in Inbounds :
               loop[i] # "accepts" => errCh \/ main \in {"closing", "returned"}

\* A snapshot is consistent where its readers rely on it, although its eight
\* loads are apart: what it does not count as active any more it counts in full
\* (each ended connection as total or rejected, with its errors and its bytes),
\* active exceeds total only by handlers between their two Adds, and the online
\* count that Kboard gets hides no negative number (metrics.go:39-64).
SnapshotIsConsistent ==
    Answered /\ call.what \in {"status", "alive"} =>
        /\ \A f \in FieldNames \ {"active"} :
               call.seen[f] >= Cardinality({c \in call.ended : f \in adds[c]})
        /\ call.seen.active <= call.seen.total + call.half
        /\ Online = call.seen.active
=============================================================================
