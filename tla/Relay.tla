-------------------------------- MODULE Relay --------------------------------
(***************************************************************************)
(* The handler of one connection, between Service's begin and end: the     *)
(* forwarding of a plain inbound to its upstream (Service.handleConnection *)
(* and pipe, UpstreamDialer.Dial), and serverRelay.Handle with its TCP     *)
(* connect and its UDP association (internal/node/server_relay.go).  The   *)
(* goroutines are the handler, the two copies it starts, and the function  *)
(* it registers with context.AfterFunc.                                    *)
(*                                                                         *)
(* The peers, the KLESS library and the relay protocol are external: a     *)
(* call to them may succeed, fail, or not return.  The "client" is the     *)
(* accepted connection with the KLESS session on top of it, "far" is the   *)
(* upstream, the TCP target or the UDP socket.                             *)
(***************************************************************************)
EXTENDS Integers, Sequences, FiniteSets

CONSTANTS
    Targets,   \* addresses clients ask for, lower case as recordUDPAccess has them
    None       \* no target

ASSUME TargetAssumption == IsFiniteSet(Targets) /\ None \notin Targets

VARIABLES
    kind,     \* what the handler does: "forward", "server" until it is known ...
    at,       \* where the handler goroutine is
    client,   \* the client's connection
    far,      \* the other end
    ctxDone,  \* Run's context is done
    watch,    \* the AfterFunc: not registered, registered, running, over
    copy,     \* the two goroutines, "up" to the far end and "down" to the client
    errCh,    \* the channel on which they report
    errors,   \* what this handler added to each error counter of Metrics
    hand,     \* the target the handler, or a UDP goroutine, is dealing with
    sent,     \* targets that were connected to, or got a datagram
    seen,     \* seenTargets of the UDP association
    offers    \* how often each target was given to accessLogBuffer.Record

logs == <<hand, sent, seen, offers>>
vars == <<kind, at, client, far, ctxDone, watch, copy, errCh, errors, logs>>
-----------------------------------------------------------------------------
Directions == {"up", "down"}
Counters   == {"transport", "handshake", "proxy"}

SetupPlaces == {"dial", "clientHandshake", "handshake", "request", "record",
                "connect", "listen", "respond", "arm"}
RelayPlaces == {"pipe", "second", "return"}

Init ==
    /\ \/ kind = "forward" /\ at = "dial"
       \/ kind = "server" /\ at = "handshake"
    /\ client = "open"
    /\ far = "none"
    /\ ctxDone \in BOOLEAN
    /\ watch = "none"
    /\ copy = [d \in Directions |-> "none"]
    /\ errCh = <<>>
    /\ errors = [e \in Counters |-> 0]
    /\ hand = None
    /\ sent = {}
    /\ seen = {}
    /\ offers = [t \in Targets |-> 0]

Cancel ==
    /\ ~ctxDone
    /\ ctxDone' = TRUE
    /\ UNCHANGED <<kind, at, client, far, watch, copy, errCh, errors, logs>>
-----------------------------------------------------------------------------
(* Set-up.  No step of it waits for the context. *)

HandlerGoes(from, to) == at = from /\ at' = to

\* The handler counts an error and returns; what it had opened is closed by
\* its deferred calls (in Dial, by raw.Close()).
Fails(from, counter) ==
    /\ HandlerGoes(from, "closed")
    /\ errors' = [errors EXCEPT ![counter] = @ + 1]
    /\ client' = "closed"
    /\ far' = IF far = "open" THEN "closed" ELSE far
    /\ UNCHANGED <<kind, ctxDone, watch, copy, errCh, logs>>

Opens(from, to) ==
    /\ HandlerGoes(from, to)
    /\ far' = "open"
    /\ sent' = IF at = "connect" THEN {hand} ELSE sent
    /\ UNCHANGED <<kind, client, ctxDone, watch, copy, errCh, errors,
                   hand, seen, offers>>

Proceeds(from, to) ==
    /\ HandlerGoes(from, to)
    /\ UNCHANGED <<kind, client, far, ctxDone, watch, copy, errCh, errors, logs>>

\* UpstreamDialer.Dial: the transport, then the KLESS handshake.
DialUpstream == Opens("dial", "clientHandshake") \/ Fails("dial", "transport")
HandshakeWithUpstream ==
    Proceeds("clientHandshake", "arm") \/ Fails("clientHandshake", "handshake")

\* Handle: the KLESS handshake, then the request.
ServerHandshake ==
    Proceeds("handshake", "request") \/ Fails("handshake", "handshake")

\* A request that cannot be read or that has an unknown command is an error.
ReadRequest ==
    \/ Fails("request", "proxy")
    \/ /\ \/ /\ HandlerGoes("request", "record")
             /\ kind' = "connect"
             /\ hand' \in Targets
          \/ /\ HandlerGoes("request", "listen")
             /\ kind' = "udp"
             /\ UNCHANGED hand
       /\ UNCHANGED <<client, far, ctxDone, watch, copy, errCh, errors,
                      sent, seen, offers>>

\* handleTCPConnect records the access before it dials.
RecordConnect ==
    /\ HandlerGoes("record", "connect")
    /\ offers' = [offers EXCEPT ![hand] = @ + 1]
    /\ UNCHANGED <<kind, client, far, ctxDone, watch, copy, errCh, errors,
                   hand, sent, seen>>

DialTarget == Opens("connect", "respond") \/ Fails("connect", "transport")
ListenUDP  == Opens("listen", "respond") \/ Fails("listen", "transport")
Respond    == Proceeds("respond", "arm") \/ Fails("respond", "proxy")

\* context.AfterFunc, then the pipe and its two goroutines.
Arm ==
    /\ HandlerGoes("arm", "pipe")
    /\ watch' = "armed"
    /\ copy' = [d \in Directions |-> "run"]
    /\ hand' = None
    /\ UNCHANGED <<kind, client, far, ctxDone, errCh, errors, sent, seen, offers>>

Setup ==
    \/ DialUpstream \/ HandshakeWithUpstream
    \/ ServerHandshake \/ ReadRequest \/ RecordConnect
    \/ DialTarget \/ ListenUDP \/ Respond
-----------------------------------------------------------------------------
(* The AfterFunc, in a goroutine of its own once the context is done *)

WatchCloses(from, to, end) ==
    /\ watch = from
    /\ watch' = to
    /\ IF end = "client"
         THEN client' = "closed" /\ UNCHANGED far
         ELSE far' = "closed" /\ UNCHANGED client
    /\ UNCHANGED <<kind, at, ctxDone, copy, errCh, errors, logs>>

\* handleConnection closes the local end first, serverRelay the far one.
FirstToClose  == IF kind = "forward" THEN "client" ELSE "far"
SecondToClose == IF kind = "forward" THEN "far" ELSE "client"

\* Mutant: the AfterFunc closes one end only.
CancelRunsHalf == ctxDone /\ WatchCloses("armed", "over", FirstToClose)

CancelRuns ==
    \/ ctxDone /\ WatchCloses("armed", "half", FirstToClose)
    \/ WatchCloses("half", "over", SecondToClose)
-----------------------------------------------------------------------------
(* The two copies *)

\* Mutants: no return after an error was sent; a channel without a buffer.
CopyEndsAgain(d, result) ==
    /\ copy[d] = "run"
    /\ d = "up" => hand = None
    /\ copy' = IF result = "nil" THEN [copy EXCEPT ![d] = "over"] ELSE copy
    /\ errCh' = Append(errCh, result)
    /\ UNCHANGED <<kind, at, client, far, ctxDone, watch, errors, logs>>
CopyEndsUnbuffered(d, result) ==
    /\ (at = "pipe" /\ errCh = <<>>) \/ at = "second"
    /\ copy[d] = "run"
    /\ d = "up" => hand = None
    /\ copy' = [copy EXCEPT ![d] = "over"]
    /\ errCh' = Append(errCh, result)
    /\ UNCHANGED <<kind, at, client, far, ctxDone, watch, errors, logs>>

\* A copy, or a loop of the UDP association, ends: its peer closed, something
\* failed (a datagram that cannot be resolved, too), or an end was closed.
CopyEnds(d, result) ==
    /\ copy[d] = "run"
    /\ d = "up" => hand = None
    /\ copy' = [copy EXCEPT ![d] = "over"]
    /\ errCh' = Append(errCh, result)
    /\ UNCHANGED <<kind, at, client, far, ctxDone, watch, errors, logs>>

\* The client's datagram is sent, then recorded if its target is a new one.
SendDatagram(t) ==
    /\ kind = "udp"
    /\ copy["up"] = "run"
    /\ hand = None
    /\ far = "open"
    /\ hand' = t
    /\ sent' = sent \cup {t}
    /\ UNCHANGED <<kind, at, client, far, ctxDone, watch, copy, errCh, errors,
                   seen, offers>>

\* Mutant: every datagram is recorded.
RecordUDPAccessAlways ==
    /\ kind = "udp"
    /\ hand # None
    /\ seen' = seen \cup {hand}
    /\ offers' = [offers EXCEPT ![hand] = @ + 1]
    /\ hand' = None
    /\ UNCHANGED <<kind, at, client, far, ctxDone, watch, copy, errCh, errors, sent>>

RecordUDPAccess ==
    /\ kind = "udp"
    /\ hand # None
    /\ seen' = seen \cup {hand}
    /\ offers' = IF hand \in seen THEN offers ELSE [offers EXCEPT ![hand] = @ + 1]
    /\ hand' = None
    /\ UNCHANGED <<kind, at, client, far, ctxDone, watch, copy, errCh, errors, sent>>

\* Once both ends are closed, nothing can block a copy any more.
CopyUnblocked(d) ==
    /\ client = "closed" /\ far = "closed"
    /\ \E result \in {"nil", "error"} : CopyEnds(d, result)
-----------------------------------------------------------------------------
(* The pipe *)

\* Mutant: the second result is not waited for.
FirstResultOnly ==
    /\ HandlerGoes("pipe", "return")
    /\ errCh # <<>>
    /\ client' = "closed"
    /\ far' = "closed"
    /\ UNCHANGED <<kind, ctxDone, watch, copy, errCh, errors, logs>>

\* The first result closes both ends ...
FirstResult ==
    /\ HandlerGoes("pipe", "second")
    /\ errCh # <<>>
    /\ client' = "closed"
    /\ far' = "closed"
    /\ UNCHANGED <<kind, ctxDone, watch, copy, errCh, errors, logs>>

\* Mutant: each result that is an error is counted.
SecondResultCountsBoth ==
    /\ HandlerGoes("second", "return")
    /\ Len(errCh) = 2
    /\ errors' = [errors EXCEPT !["proxy"] =
                    @ + Cardinality({k \in 1..2 : errCh[k] = "error"})]
    /\ UNCHANGED <<kind, client, far, ctxDone, watch, copy, errCh, logs>>

\* ... and the second one is waited for.  errCh keeps the first result here,
\* for it is the error that counts if there is one.
SecondResult ==
    /\ HandlerGoes("second", "return")
    /\ Len(errCh) = 2
    /\ errors' = [errors EXCEPT !["proxy"] =
                    IF \E k \in 1..2 : errCh[k] = "error" THEN @ + 1 ELSE @]
    /\ UNCHANGED <<kind, client, far, ctxDone, watch, copy, errCh, logs>>

\* A UDP association also looks at the context itself, and then returns without
\* waiting for its goroutines.
CancelAssociation ==
    /\ kind = "udp"
    /\ ctxDone
    /\ HandlerGoes("pipe", "return")
    /\ client' = "closed"
    /\ far' = "closed"
    /\ UNCHANGED <<kind, ctxDone, watch, copy, errCh, errors, logs>>

\* The deferred calls: stopOnCancel and the closing of both ends.
Return ==
    /\ HandlerGoes("return", "closed")
    /\ watch' = IF watch = "armed" THEN "over" ELSE watch
    /\ client' = "closed"
    /\ far' = "closed"
    /\ UNCHANGED <<kind, ctxDone, copy, errCh, errors, logs>>

Pipe == FirstResult \/ SecondResult \/ CancelAssociation \/ Return

\* Everything that was started has ended.
Terminated ==
    /\ at = "closed"
    /\ \A d \in Directions : copy[d] # "run"
    /\ UNCHANGED vars

Next ==
    \/ Cancel
    \/ Setup
    \/ Arm
    \/ CancelRuns
    \/ \E d \in Directions, result \in {"nil", "error"} : CopyEnds(d, result)
    \/ \E t \in Targets : SendDatagram(t)
    \/ RecordUDPAccess
    \/ Pipe
    \/ Terminated

\* Runnable goroutines run.  Nothing is assumed of the peers: a copy need not
\* end before both of its ends are closed, and a set-up need not end at all.
Fairness ==
    /\ WF_vars(CancelRuns)
    /\ \A d \in Directions : WF_vars(CopyUnblocked(d))
    /\ WF_vars(RecordUDPAccess)
    /\ WF_vars(Pipe)

Spec == Init /\ [][Next]_vars /\ Fairness
-----------------------------------------------------------------------------
(* Correctness *)

\* Places, ends and channel contents of the goroutines; two results fit errCh.
TypeOK ==
    /\ kind \in {"forward", "server", "connect", "udp"}
    /\ at \in SetupPlaces \cup RelayPlaces \cup {"closed"}
    /\ client \in {"open", "closed"}
    /\ far \in {"none", "open", "closed"}
    /\ ctxDone \in BOOLEAN
    /\ watch \in {"none", "armed", "half", "over"}
    /\ copy \in [Directions -> {"none", "run", "over"}]
    /\ errCh \in Seq({"nil", "error"}) /\ Len(errCh) <= 2
    /\ errors \in [Counters -> Nat]
    /\ hand \in Targets \cup {None}
    /\ sent \subseteq Targets /\ seen \subseteq Targets
    /\ offers \in [Targets -> Nat]

ErrorCount == errors["transport"] + errors["handshake"] + errors["proxy"]

\* A connection adds at most one to the three error counters together, and a
\* connection that was never relayed adds exactly one: no early return is
\* silent and none is counted twice (service.go:261-282, server_relay.go:82-105,
\* 118-143, 147-171).
OneErrorPerFailure ==
    /\ ErrorCount <= 1
    /\ at = "closed" /\ watch = "none" => ErrorCount = 1

\* Whatever way a handler returns, both ends are closed; except in a cancelled
\* UDP association, its copies have ended as well, so their bytes are counted
\* before the connection stops being active (service.go:272-305,
\* server_relay.go:88, 126, 154, 233-246, 320-327).
NothingIsLeftOpen ==
    at = "closed" =>
        /\ client = "closed"
        /\ far # "open"
        /\ (kind = "udp" /\ ctxDone) \/ \A d \in Directions : copy[d] # "run"

\* The handler never waits for somebody who waits for ever: a copy whose result
\* it still needs is running, and once the context is done, the first result is
\* there or the handler has gone, what may block that copy is closed, or the
\* AfterFunc that closes it has yet to run, which neither its registration after
\* the cancellation nor its stop prevents (service.go:273-305,
\* server_relay.go:134-143, 162-171, 233-246).
HandlerIsNeverStuck ==
    LET running == \E d \in Directions : copy[d] = "run"
        closed  == client = "closed" /\ far = "closed"
    IN /\ at = "pipe" => errCh # <<>> \/ running
       /\ at = "second" => Len(errCh) = 2 \/ running
       /\ running /\ (ctxDone \/ at # "pipe") => closed \/ watch \in {"armed", "half"}
       /\ running /\ at # "pipe" => closed

\* Every target the node opened a connection or sent a datagram to is offered
\* to the access log exactly once per connection, and before the first byte in
\* the TCP case; this covers datagrams in hand when the association is closed
\* under the goroutine (server_relay.go:110-118, 192-200, 249-266).
TargetsAreLoggedOnce ==
    /\ kind # "udp" => \A t \in sent : offers[t] = 1
    /\ kind = "udp" => \A t \in Targets :
            offers[t] = IF t \in sent \ {hand} \/ t \in seen THEN 1 ELSE 0

\* No goroutine outlives its connection for ever, not even those that a
\* cancelled UDP association leaves to themselves (server_relay.go:180-246).
GoroutinesEnd ==
    (at = "closed") ~> (\A d \in Directions : copy[d] # "run")

\* The handler is what Service takes it to be; in particular a relay ends once
\* the context is done, even if that happened between the dial and AfterFunc
\* (service.go:273-279, server_relay.go:134-138, 162-166, 242-246).
Handler == INSTANCE HandlerLife WITH
    stage <- CASE at \in SetupPlaces -> "setup"
               [] at \in RelayPlaces -> "relaying"
               [] at = "closed"      -> "closed"
ImplementsHandlerLife == Handler!Spec
=============================================================================
