------------------------------- MODULE Service -------------------------------
(***************************************************************************)
(* The life of one node: Service.Run with its accept loops, the admin      *)
(* server, the Kboard reporter goroutine and one handler goroutine per     *)
(* accepted connection (internal/node/service.go).                         *)
(*                                                                         *)
(* A listener is numbered by its place in Run's list of closers: 1..N are  *)
(* the inbounds in the order of the configuration, N+1 is the admin        *)
(* listener.  What a handler does between its begin and its end (dial,     *)
(* handshake, request, copy) is reduced to two stages: "setup", in which   *)
(* a cancelled context is not watched, and "relaying", in which            *)
(* context.AfterFunc closes both ends as soon as the context is done.      *)
(***************************************************************************)
EXTENDS Integers, Sequences, FiniteSets

CONSTANTS
    N,               \* number of configured inbounds
    MaxConnections,  \* [Inbounds -> Nat], 0 is "no limit" (config.go Validate)
    Conns,           \* client connections that may arrive
    InboundOf,       \* [Conns -> Inbounds], the address the client connects to
    HasKboard        \* cfg.Kboard # nil

Inbounds  == 1..N
Admin     == N + 1
Listeners == 1..Admin

ASSUME NAssumption == N \in Nat \ {0}
ASSUME ConnsAssumption ==
    /\ IsFiniteSet(Conns)
    /\ InboundOf \in [Conns -> Inbounds]
    /\ MaxConnections \in [Inbounds -> Nat]
    /\ HasKboard \in BOOLEAN

VARIABLES
    main,         \* where Run is
    listener,     \* each listener: not yet listening, open or closed
    loop,         \* each accept loop (N+1: http.Server.Serve)
    reporter,     \* the goroutine that runs kboardReporter.run
    callerDone,   \* the context given to Run is done (SIGINT, SIGTERM)
    errCh,        \* Run's buffered error channel
    runErr,       \* what Run is going to return
    conn,         \* each connection's place, from the backlog to the end
    sem,          \* taken slots of each inbound's semaphore channel
    connections,  \* the counter of the connections WaitGroup
    metrics,      \* Metrics.active, .total and .rejected
    forced        \* waitConnections gave up after the grace period

vars == <<main, listener, loop, reporter, callerDone, errCh, runErr,
          conn, sem, connections, metrics, forced>>
-----------------------------------------------------------------------------
MainStates   == {"start", "select", "closing", "shutdown", "shutting",
                 "wait", "drain", "returned"}
LoopStates   == {"none", "accept", "admit", "spawn",
                 "send-failed", "send-closed", "exit"}
MetricsType  == [active : Int, total : Nat, rejected : Nat]
ErrKinds     == {"failed", "closed"}
ConnStates   == {"new", "accepted", "admitted", "rejected", "spawned",
                 "setup", "relaying", "closed", "released", "gone"}

\* Mutant: a channel without room for the admin server's error.
ErrChCapWithoutAdmin == N

\* make(chan error, len(s.cfg.Inbounds)+1)
ErrChCap == N + 1

\* Mutant: an error of a loop cancels the context, as in an errgroup.
CtxDoneOnError ==
    callerDone \/ main \notin {"start", "select"} \/ errCh # <<>>

\* The context Run derives: done once the caller's is, or once Run has called
\* cancel(), which it does as it leaves its start-up or its select.
CtxDone == callerDone \/ main \notin {"start", "select"}

\* Server.Shutdown has been called: Serve then returns ErrServerClosed.
InShutdown == main \in {"shutting", "wait", "drain", "returned"}

\* Between the acquisition of a slot and its deferred release ...
SlotStates == {"admitted", "spawned", "setup", "relaying", "closed"}
\* ... and between connections.Add(1) and the deferred connections.Done().
HandlerStates == {"spawned", "setup", "relaying", "closed", "released"}

Holding(i) == {c \in Conns : InboundOf[c] = i /\ conn[c] \in SlotStates}
Handlers   == {c \in Conns : conn[c] \in HandlerStates}

\* The connections at a place between Accept and the go statement of a loop.
InHand(l, place) == {c \in Conns : InboundOf[c] = l /\ conn[c] = place}

Limited(i) == MaxConnections[i] > 0
-----------------------------------------------------------------------------
Init ==
    /\ main = "start"
    /\ listener = [l \in Listeners |-> "none"]
    /\ loop = [l \in Listeners |-> "none"]
    /\ reporter = "none"
    /\ callerDone = FALSE
    /\ errCh = <<>>
    /\ runErr = "none"
    /\ conn = [c \in Conns |-> "new"]
    /\ sem = [i \in Inbounds |-> 0]
    /\ connections = 0
    /\ metrics = [active |-> 0, total |-> 0, rejected |-> 0]
    /\ forced = FALSE

CallerCancels ==
    /\ ~callerDone
    /\ callerDone' = TRUE
    /\ UNCHANGED <<main, listener, loop, reporter, errCh, runErr,
                   conn, sem, connections, metrics, forced>>
-----------------------------------------------------------------------------
(* Run: start-up *)

\* The listener that Run opens next: inbounds in order, then the admin one.
NextToListen(l) ==
    /\ main = "start"
    /\ listener[l] = "none"
    /\ \A k \in Listeners : k < l => listener[k] # "none"

Listen(l) ==
    /\ NextToListen(l)
    /\ listener' = [listener EXCEPT ![l] = "open"]
    /\ loop' = [loop EXCEPT ![l] = "accept"]
    /\ IF l = Admin
         THEN /\ main' = "select"
              /\ reporter' = IF HasKboard THEN "run" ELSE "none"
         ELSE UNCHANGED <<main, reporter>>
    /\ UNCHANGED <<callerDone, errCh, runErr, conn, sem, connections,
                   metrics, forced>>

\* net.Listen failed (address in use): cancel, close what is open, wait.
ListenFails(l) ==
    /\ NextToListen(l)
    /\ main' = "closing"
    /\ runErr' = "listen"
    /\ UNCHANGED <<listener, loop, reporter, callerDone, errCh, conn, sem,
                   connections, metrics, forced>>
-----------------------------------------------------------------------------
(* Run: the select and the shutdown *)

\* When both cases are ready, select takes either.
SelectDone ==
    /\ main = "select"
    /\ CtxDone
    /\ main' = "closing"
    /\ runErr' = "canceled"
    /\ UNCHANGED <<listener, loop, reporter, callerDone, errCh, conn, sem,
                   connections, metrics, forced>>

SelectError ==
    /\ main = "select"
    /\ errCh # <<>>
    /\ main' = "closing"
    /\ runErr' = Head(errCh)
    /\ errCh' = Tail(errCh)
    /\ UNCHANGED <<listener, loop, reporter, callerDone, conn, sem,
                   connections, metrics, forced>>

\* closeAll closes one listener after the other, in the order of the list.
CloseNext(l) ==
    /\ main = "closing"
    /\ listener[l] = "open"
    /\ \A k \in Listeners : k < l => listener[k] # "open"
    /\ listener' = [listener EXCEPT ![l] = "closed"]
    /\ UNCHANGED <<main, loop, reporter, callerDone, errCh, runErr, conn, sem,
                   connections, metrics, forced>>

\* After a failed start-up there is no admin server to shut down.
CloseDone ==
    /\ main = "closing"
    /\ \A l \in Listeners : listener[l] # "open"
    /\ main' = IF listener[Admin] = "none" THEN "wait" ELSE "shutdown"
    /\ UNCHANGED <<listener, loop, reporter, callerDone, errCh, runErr, conn,
                   sem, connections, metrics, forced>>

MainGoes(from, to) ==
    /\ main = from
    /\ main' = to
    /\ UNCHANGED <<listener, loop, reporter, callerDone, errCh, runErr, conn,
                   sem, connections, metrics, forced>>

\* Shutdown marks the server, then waits for its requests, at most the grace.
ShutdownBegins  == MainGoes("shutdown", "shutting")
ShutdownReturns == MainGoes("shutting", "wait")

\* Mutant: the reporter's goroutine is started without wg.Add(1).
JoinedWithoutReporter == \A l \in Listeners : loop[l] \in {"none", "exit"}

\* wg.Wait(): every accept loop, Serve and the reporter have returned.
Joined == /\ \A l \in Listeners : loop[l] \in {"none", "exit"}
          /\ reporter # "run"

\* Mutant: connections are waited for before the accept loops.
WaitLoopsSkipped == MainGoes("wait", "drain")

WaitLoops == Joined /\ MainGoes("wait", "drain")

\* waitConnections: connections.Wait() returned before the timer ...
Drained == connections = 0 /\ MainGoes("drain", "returned")

\* ... or the timer fired first.
GraceElapses ==
    /\ main = "drain"
    /\ main' = "returned"
    /\ forced' = TRUE
    /\ UNCHANGED <<listener, loop, reporter, callerDone, errCh, runErr, conn,
                   sem, connections, metrics>>

MainStep ==
    \/ \E l \in Listeners : Listen(l) \/ ListenFails(l) \/ CloseNext(l)
    \/ SelectDone \/ SelectError \/ CloseDone
    \/ ShutdownBegins \/ ShutdownReturns \/ WaitLoops \/ Drained \/ GraceElapses
-----------------------------------------------------------------------------
(* Accept loops *)

LoopGoes(l, from, to) == loop[l] = from /\ loop' = [loop EXCEPT ![l] = to]

ConnGoes(c, from, to) == conn[c] = from /\ conn' = [conn EXCEPT ![c] = to]

Accept(c) ==
    /\ listener[InboundOf[c]] = "open"
    /\ LoopGoes(InboundOf[c], "accept", "admit")
    /\ ConnGoes(c, "new", "accepted")
    /\ UNCHANGED <<main, listener, reporter, callerDone, errCh, runErr, sem,
                   connections, metrics, forced>>

\* Mutant: one slot more than max_connections.
AdmitOneMore(c) ==
    LET i == InboundOf[c] IN
    /\ Limited(i) => sem[i] <= MaxConnections[i]
    /\ LoopGoes(i, "admit", "spawn")
    /\ ConnGoes(c, "accepted", "admitted")
    /\ sem' = [sem EXCEPT ![i] = IF Limited(i) THEN @ + 1 ELSE @]
    /\ UNCHANGED <<main, listener, reporter, callerDone, errCh, runErr,
                   connections, metrics, forced>>

\* select { case sem <- struct{}{}: }, or no semaphore at all.
Admit(c) ==
    LET i == InboundOf[c] IN
    /\ Limited(i) => sem[i] < MaxConnections[i]
    /\ LoopGoes(i, "admit", "spawn")
    /\ ConnGoes(c, "accepted", "admitted")
    /\ sem' = [sem EXCEPT ![i] = IF Limited(i) THEN @ + 1 ELSE @]
    /\ UNCHANGED <<main, listener, reporter, callerDone, errCh, runErr,
                   connections, metrics, forced>>

\* Mutant: no default case, the accept loop waits for a slot.
RejectNever(c) == c \notin Conns /\ UNCHANGED vars

\* default: the connection is counted, closed, and the loop goes on.
Reject(c) ==
    LET i == InboundOf[c] IN
    /\ Limited(i) /\ sem[i] >= MaxConnections[i]
    /\ LoopGoes(i, "admit", "accept")
    /\ ConnGoes(c, "accepted", "rejected")
    /\ metrics' = [metrics EXCEPT !.rejected = @ + 1]
    /\ UNCHANGED <<main, listener, reporter, callerDone, errCh, runErr, sem,
                   connections, forced>>

\* s.connections.Add(1) by the loop itself, then the go statement.
Spawn(c) ==
    /\ LoopGoes(InboundOf[c], "spawn", "accept")
    /\ ConnGoes(c, "admitted", "spawned")
    /\ connections' = connections + 1
    /\ UNCHANGED <<main, listener, reporter, callerDone, errCh, runErr, sem,
                   metrics, forced>>

\* Accept fails on an open listener.  A done context makes an inbound's loop
\* return context.Canceled, which is dropped; Serve drops ErrServerClosed.
LoopFails(l) ==
    /\ listener[l] = "open"
    /\ LoopGoes(l, "accept",
                IF l # Admin /\ CtxDone THEN "exit" ELSE "send-failed")
    /\ UNCHANGED <<main, listener, reporter, callerDone, errCh, runErr, conn,
                   sem, connections, metrics, forced>>

\* Accept on a closed listener: net.ErrClosed ends an inbound's loop without
\* an error.  Serve reports it unless Shutdown was called in the meantime,
\* and Run closes the admin listener before it calls Shutdown.
LoopStops(l) ==
    /\ listener[l] = "closed"
    /\ LoopGoes(l, "accept",
                IF l # Admin \/ InShutdown THEN "exit" ELSE "send-closed")
    /\ UNCHANGED <<main, listener, reporter, callerDone, errCh, runErr, conn,
                   sem, connections, metrics, forced>>

\* Mutant: a shadowed err, so that nil is sent.
LoopSendsNil(l) ==
    /\ Len(errCh) < ErrChCap
    /\ LoopGoes(l, "send-failed", "exit") \/ LoopGoes(l, "send-closed", "exit")
    /\ errCh' = Append(errCh, "none")
    /\ UNCHANGED <<main, listener, reporter, callerDone, runErr, conn, sem,
                   connections, metrics, forced>>

\* errCh <- err blocks while the buffer is full; wg.Done follows.
LoopSends(l) ==
    /\ Len(errCh) < ErrChCap
    /\ \/ LoopGoes(l, "send-failed", "exit") /\ errCh' = Append(errCh, "failed")
       \/ LoopGoes(l, "send-closed", "exit") /\ errCh' = Append(errCh, "closed")
    /\ UNCHANGED <<main, listener, reporter, callerDone, runErr, conn, sem,
                   connections, metrics, forced>>

\* The reporter leaves its select on ctx.Done(), after one last upload that
\* the HTTP client's timeout bounds.
ReporterExits ==
    /\ reporter = "run"
    /\ CtxDone
    /\ reporter' = "exit"
    /\ UNCHANGED <<main, listener, loop, callerDone, errCh, runErr, conn, sem,
                   connections, metrics, forced>>
-----------------------------------------------------------------------------
(* Handler goroutines *)

Begin(c) ==
    /\ ConnGoes(c, "spawned", "setup")
    /\ metrics' = [active   |-> metrics.active + 1,
                   total    |-> metrics.total + 1,
                   rejected |-> metrics.rejected]
    /\ UNCHANGED <<main, listener, loop, reporter, callerDone, errCh, runErr,
                   sem, connections, forced>>

\* The upstream is dialled, the request read: AfterFunc is registered.
Establish(c) ==
    /\ ConnGoes(c, "setup", "relaying")
    /\ UNCHANGED <<main, listener, loop, reporter, callerDone, errCh, runErr,
                   sem, connections, metrics, forced>>

\* Mutant: the deferred endConnection is missing.
EndUncounted(c, from) ==
    /\ ConnGoes(c, from, "closed")
    /\ UNCHANGED <<main, listener, loop, reporter, callerDone, errCh, runErr,
                   sem, connections, metrics, forced>>

\* handleConnection returns: local.Close() and endConnection() are deferred.
End(c, from) ==
    /\ ConnGoes(c, from, "closed")
    /\ metrics' = [metrics EXCEPT !.active = @ - 1]
    /\ UNCHANGED <<main, listener, loop, reporter, callerDone, errCh, runErr,
                   sem, connections, forced>>

SetupFails(c) == End(c, "setup")
PeerCloses(c) == End(c, "relaying")

\* Mutant: no AfterFunc.
CutOffNever(c) == c \notin Conns /\ UNCHANGED vars

\* AfterFunc closes both ends when the context is done; the copies return.
CutOff(c) == CtxDone /\ End(c, "relaying")

\* defer func() { <-sem }(), which runs before the deferred Done.
ReleaseSlot(c) ==
    LET i == InboundOf[c] IN
    /\ ConnGoes(c, "closed", "released")
    /\ sem' = [sem EXCEPT ![i] = IF Limited(i) THEN @ - 1 ELSE @]
    /\ UNCHANGED <<main, listener, loop, reporter, callerDone, errCh, runErr,
                   connections, metrics, forced>>

HandlerDone(c) ==
    /\ ConnGoes(c, "released", "gone")
    /\ connections' = connections - 1
    /\ UNCHANGED <<main, listener, loop, reporter, callerDone, errCh, runErr,
                   sem, metrics, forced>>

\* Nothing more needs to happen once Run has returned.
Terminated == main = "returned" /\ UNCHANGED vars

LoopStep(l) == LoopFails(l) \/ LoopStops(l) \/ LoopSends(l)

ConnStep(c) ==
    \/ Accept(c) \/ Admit(c) \/ Reject(c) \/ Spawn(c)
    \/ Begin(c) \/ Establish(c) \/ SetupFails(c) \/ PeerCloses(c) \/ CutOff(c)
    \/ ReleaseSlot(c) \/ HandlerDone(c)

Next ==
    \/ CallerCancels
    \/ MainStep
    \/ \E l \in Listeners : LoopStep(l)
    \/ ReporterExits
    \/ \E c \in Conns : ConnStep(c)
    \/ Terminated

\* The Go scheduler runs every runnable goroutine.  Nothing is assumed of the
\* caller, of the peers, or of a handler in its setup: reading the request of
\* a KLESS client has no deadline and does not watch the context.
Fairness ==
    /\ WF_vars(MainStep)
    /\ \A l \in Listeners : WF_vars(LoopStops(l) \/ LoopSends(l))
    /\ WF_vars(ReporterExits)
    /\ \A c \in Conns :
        /\ WF_vars(Accept(c))
        /\ WF_vars(Admit(c) \/ Reject(c) \/ Spawn(c))
        /\ WF_vars(Begin(c) \/ ReleaseSlot(c) \/ HandlerDone(c))
        /\ WF_vars(CutOff(c))

Spec == Init /\ [][Next]_vars /\ Fairness
-----------------------------------------------------------------------------
(* Correctness *)

\* The variables of Run and of its goroutines hold what the Go types allow.
TypeOK ==
    /\ main \in MainStates
    /\ listener \in [Listeners -> {"none", "open", "closed"}]
    /\ loop \in [Listeners -> LoopStates]
    /\ reporter \in {"none", "run", "exit"}
    /\ callerDone \in BOOLEAN
    /\ errCh \in Seq(ErrKinds)
    /\ runErr \in ErrKinds \cup {"none", "listen", "canceled"}
    /\ conn \in [Conns -> ConnStates]
    /\ sem \in [Inbounds -> Int]
    /\ connections \in Int
    /\ metrics \in MetricsType
    /\ forced \in BOOLEAN

\* The semaphore of acceptLoop counts the connections between their admission
\* and the deferred release: no slot is leaked and none is given back twice.
SlotAccounting ==
    \A i \in Inbounds :
        sem[i] = IF Limited(i) THEN Cardinality(Holding(i)) ELSE 0

\* max_connections is never exceeded by handlers of one inbound that still own
\* their client connection, whatever overlap of accepts and deferred releases,
\* and no early return leaks a slot of the semaphore or gives one back twice,
\* so that the inbound does not shrink either (service.go:224-240).
ConnectionLimit ==
    /\ SlotAccounting
    /\ \A i \in Inbounds :
            Limited(i) => Cardinality(Holding(i)) <= MaxConnections[i]

\* The active counter that /metrics shows and Kboard is told as "online" is
\* the number of handlers at work, and every connection an inbound accepted is
\* counted once, as total or as rejected (metrics.go:53-64).
MetricsAccount ==
    /\ metrics.active = Cardinality(
            {c \in Conns : conn[c] \in {"setup", "relaying"}})
    /\ metrics.total = Cardinality(
            {c \in Conns : conn[c] \in {"setup", "relaying", "closed",
                                        "released", "gone"}})
    /\ metrics.rejected = Cardinality(
            {c \in Conns : conn[c] \in {"rejected"}})

\* An accept loop that has an error to report never blocks on errCh, although
\* nobody reads the channel any more once Run has left its select: otherwise
\* wg.Wait() would never return (service.go:92, 111, 131).
SendNeverBlocks ==
    \A l \in Listeners :
        loop[l] \in {"send-failed", "send-closed"} => Len(errCh) < ErrChCap

\* Whoever wg.Wait() waits for can take a step: its listener is closed, there is
\* room for its error, or it has a connection in hand, which it hands over or
\* turns away without waiting for a slot (service.go:158-165, 224-235).
WaitIsNeverStuck ==
    /\ SendNeverBlocks
    /\ main = "wait" =>
        \A l \in Listeners :
            /\ loop[l] = "accept" => listener[l] = "closed"
            /\ loop[l] = "admit" => InHand(l, "accepted") # {}
            /\ loop[l] = "spawn" => InHand(l, "admitted") # {}

\* No connections.Add starts once connections.Wait may be running: the loops
\* are joined first (service.go:165-166, 233 and the rule of sync.WaitGroup).
NoAddDuringWait ==
    [][(main \in {"drain", "returned"}) => (connections' <= connections)]_vars

\* The listeners are closed and the goroutines of Run's WaitGroup have ended
\* before it waits for the handlers, and no loop has ended with a connection in
\* hand: each one accepted was turned away or has got its handler.
LoopsAreJoined ==
    main \in {"drain", "returned"} =>
        /\ \A l \in Listeners : /\ listener[l] # "open"
                                /\ loop[l] \in {"none", "exit"}
        /\ reporter # "run"
        /\ \A c \in Conns : conn[c] \notin {"accepted", "admitted"}

\* A return without the log line about the grace period leaves no handler.
CleanReturn ==
    main = "returned" /\ ~forced => Handlers = {}

\* Run returns with every listener closed and every goroutine of its WaitGroup
\* ended, on the shutdown path and on both paths of a failed start-up; and no
\* handler of any connection is still at work unless it logged that the grace
\* period had elapsed (service.go:98-104, 117-123, 158-166, 383-394).
NothingRunsAfterReturn == LoopsAreJoined /\ CleanReturn

\* Run's result names the real cause: nil (runErr Canceled) only if the caller
\* asked to stop, and never the accept error that the shutdown itself provokes
\* by closing the admin listener before Shutdown (service.go:128-132, 151-170).
ResultNamesTheCause ==
    /\ runErr = "canceled" => callerDone
    /\ runErr # "closed"

\* Once the context is done or a loop has failed, Run returns, even when a
\* handler never ends (service.go:151-170).
RunReturns ==
    (CtxDone \/ \E l \in Listeners : loop[l] = "send-failed")
        ~> (main = "returned")

\* Cancellation reaches every connection that is being relayed: it is closed
\* on both ends and its goroutine ends (service.go:273-279).
RelaysAreCutOff ==
    \A c \in Conns : (conn[c] = "relaying" /\ CtxDone) ~> (conn[c] = "gone")

\* A client that connects to an inbound is served or turned away: handlers
\* that never end cannot stall the accept loop, whose slot acquisition does
\* not block (service.go:224-232).
EveryClientIsAnswered ==
    \A c \in Conns :
        (conn[c] = "new" /\ listener[InboundOf[c]] = "open")
            ~> (conn[c] \notin {"new", "accepted"} \/ CtxDone)
=============================================================================
