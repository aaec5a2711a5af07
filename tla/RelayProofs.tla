----------------------------- MODULE RelayProofs -----------------------------
(***************************************************************************)
(* Proofs about Relay, for any finite set of targets: its invariants, and  *)
(* that every step of it is a step of HandlerLife or none.  That a         *)
(* cancelled relay ends is left to TLC; that nobody is stuck on the way to *)
(* its end is proved here.                                                 *)
(***************************************************************************)
EXTENDS Relay, TLAPS

NoCopies == copy = [d \in Directions |-> "none"]
NoOffers == offers = [t \in Targets |-> 0]

\* Which kind of handler is where, and what it has touched before it relays.
SetupInv ==
    /\ at \in {"dial", "clientHandshake"} => kind = "forward"
    /\ at \in {"handshake", "request"} => kind = "server"
    /\ at \in {"record", "connect"} => kind = "connect" /\ hand \in Targets
    /\ at = "listen" => kind = "udp"
    /\ at \in SetupPlaces => watch = "none"
    /\ at \in RelayPlaces => watch # "none"
    /\ watch = "none" => NoCopies
    /\ NoCopies => errCh = <<>>

\* Each copy that is over has left its result.
CopyInv ==
    Len(errCh) = (IF copy["up"] = "over" THEN 1 ELSE 0)
               + (IF copy["down"] = "over" THEN 1 ELSE 0)

ErrorInv ==
    /\ at \in SetupPlaces \cup {"pipe", "second"} => ErrorCount = 0
    /\ ErrorCount <= 1
    /\ at = "closed" /\ watch = "none" => ErrorCount = 1

\* Both ends stay closed after the first result.
ClosedInv ==
    /\ at \in {"second", "return", "closed"} => client = "closed" /\ far # "open"
    /\ at \in {"return", "closed"} =>
            (kind = "udp" /\ ctxDone) \/ \A d \in Directions : copy[d] # "run"

\* Who is recorded when.  A datagram in hand is sent, but not yet recorded.
LogInv ==
    /\ at \in SetupPlaces \ {"connect", "respond", "arm"} =>
            sent = {} /\ NoOffers
    /\ at = "connect" => sent = {} /\ offers[hand] = 1
    /\ at \in SetupPlaces => seen = {}
    /\ kind = "udp" /\ at \in SetupPlaces => hand = None /\ sent = {} /\ NoOffers
    /\ kind = "server" => hand = None
    /\ kind # "udp" => \A t \in sent : offers[t] = 1
    /\ kind = "udp" =>
            /\ hand \in sent \cup {None}
            /\ sent \ {hand} \subseteq seen /\ seen \subseteq sent
            /\ \A t \in Targets : offers[t] = IF t \in seen THEN 1 ELSE 0

LifeInv == TypeOK /\ SetupInv /\ CopyInv /\ ErrorInv /\ ClosedInv

LEMMA LifeInit == Init => LifeInv
BY DEF Init, LifeInv, TypeOK, SetupInv, CopyInv, ErrorInv, ClosedInv, ErrorCount,
       SetupPlaces, RelayPlaces, Directions, Counters, NoCopies, NoOffers

\* One more error in one of the counters is one more in their sum.
LEMMA OneMore ==
    ASSUME errors \in [Counters -> Nat], NEW e \in Counters,
           errors' = [errors EXCEPT ![e] = @ + 1]
    PROVE  errors' \in [Counters -> Nat] /\ ErrorCount' = ErrorCount + 1
BY DEF Counters, ErrorCount

\* What all set-up steps have in common.
LEMMA FailsKeeps ==
    ASSUME LifeInv, NEW from \in SetupPlaces, NEW e \in Counters, Fails(from, e)
    PROVE  LifeInv'
<1>1. /\ at = from /\ at' = "closed" /\ errors' = [errors EXCEPT ![e] = @ + 1]
      /\ client' = "closed" /\ far' = IF far = "open" THEN "closed" ELSE far
      /\ UNCHANGED <<kind, ctxDone, watch, copy, errCh, hand, sent, seen, offers>>
  BY DEF Fails, HandlerGoes, logs
<1>2. /\ errors' \in [Counters -> Nat] /\ ErrorCount' = ErrorCount + 1
      /\ ErrorCount = 0
  BY <1>1, OneMore DEF LifeInv, TypeOK, ErrorInv
<1>3. TypeOK'
  BY <1>1, <1>2 DEF LifeInv, TypeOK
<1>4. SetupInv' /\ CopyInv'
  BY <1>1 DEF LifeInv, SetupInv, CopyInv, SetupPlaces, RelayPlaces, NoCopies
<1>5. ErrorInv'
  BY <1>1, <1>2 DEF LifeInv, ErrorInv, SetupPlaces
<1>6. ClosedInv'
  BY <1>1 DEF LifeInv, TypeOK, SetupInv, ClosedInv, NoCopies
<1> QED BY <1>3, <1>4, <1>5, <1>6 DEF LifeInv

LEMMA OpensKeeps ==
    ASSUME LifeInv, NEW from \in {"dial", "connect", "listen"},
           NEW to \in {"clientHandshake", "respond"},
           from = "dial" <=> to = "clientHandshake", Opens(from, to)
    PROVE  LifeInv'
<1>1. /\ at = from /\ at' = to /\ far' = "open"
      /\ sent' = (IF at = "connect" THEN {hand} ELSE sent)
      /\ UNCHANGED <<kind, client, ctxDone, watch, copy, errCh, errors, hand,
                     seen, offers>>
  BY DEF Opens, HandlerGoes
<1>2. TypeOK'
  BY <1>1 DEF LifeInv, TypeOK, SetupInv, SetupPlaces
<1> QED BY <1>1, <1>2
        DEF LifeInv, SetupInv, CopyInv, ErrorInv, ErrorCount, ClosedInv,
            SetupPlaces, RelayPlaces, NoCopies

LEMMA ProceedsKeeps ==
    ASSUME LifeInv, NEW from \in {"clientHandshake", "handshake", "respond"},
           NEW to \in {"arm", "request"},
           from = "handshake" <=> to = "request", Proceeds(from, to)
    PROVE  LifeInv'
<1>1. /\ at = from /\ at' = to
      /\ UNCHANGED <<kind, client, far, ctxDone, watch, copy, errCh, errors,
                     hand, sent, seen, offers>>
  BY DEF Proceeds, HandlerGoes, logs
<1> QED BY <1>1
        DEF LifeInv, TypeOK, SetupInv, CopyInv, ErrorInv, ErrorCount, ClosedInv,
            SetupPlaces, RelayPlaces, NoCopies

LEMMA SetupKeeps == LifeInv /\ Setup => LifeInv'
<1> SUFFICES ASSUME LifeInv, Setup PROVE LifeInv'
  OBVIOUS
<1>1. CASE \E from \in SetupPlaces, e \in Counters : Fails(from, e)
  BY <1>1, FailsKeeps
<1>2. CASE DialUpstream \/ DialTarget \/ ListenUDP
  BY <1>1, <1>2, OpensKeeps
     DEF DialUpstream, DialTarget, ListenUDP, SetupPlaces, Counters
<1>3. CASE HandshakeWithUpstream \/ ServerHandshake \/ Respond
  BY <1>1, <1>3, ProceedsKeeps
     DEF HandshakeWithUpstream, ServerHandshake, Respond, SetupPlaces, Counters
<1>4. CASE ReadRequest
  <2>1. CASE Fails("request", "proxy")
    BY <1>1, <2>1 DEF SetupPlaces, Counters
  <2>2. CASE ~Fails("request", "proxy")
    <3>1. /\ at = "request"
          /\ \/ at' = "record" /\ kind' = "connect" /\ hand' \in Targets
             \/ at' = "listen" /\ kind' = "udp" /\ hand' = hand
          /\ UNCHANGED <<client, far, ctxDone, watch, copy, errCh, errors,
                         sent, seen, offers>>
      BY <1>4, <2>2 DEF ReadRequest, HandlerGoes
    <3>2. TypeOK'
      BY <3>1 DEF LifeInv, TypeOK, SetupPlaces
    <3> QED BY <3>1, <3>2
            DEF LifeInv, SetupInv, CopyInv, ErrorInv, ErrorCount, ClosedInv,
                SetupPlaces, RelayPlaces, NoCopies
  <2> QED BY <2>1, <2>2
<1>5. CASE RecordConnect
  <2>1. /\ at = "record" /\ at' = "connect"
        /\ offers' = [offers EXCEPT ![hand] = @ + 1]
        /\ UNCHANGED <<kind, client, far, ctxDone, watch, copy, errCh, errors,
                       hand, sent, seen>>
    BY <1>5 DEF RecordConnect, HandlerGoes
  <2>2. offers' \in [Targets -> Nat]
    BY <2>1 DEF LifeInv, TypeOK, SetupInv
  <2>3. TypeOK'
    BY <2>1, <2>2 DEF LifeInv, TypeOK, SetupPlaces
  <2> QED BY <2>1, <2>3
          DEF LifeInv, SetupInv, CopyInv, ErrorInv, ErrorCount, ClosedInv,
              SetupPlaces, RelayPlaces, NoCopies
<1> QED BY <1>2, <1>3, <1>4, <1>5 DEF Setup

LEMMA LifeNext == LifeInv /\ [Next]_vars => LifeInv'
<1> SUFFICES ASSUME LifeInv, [Next]_vars PROVE LifeInv'
  OBVIOUS
<1> USE DEF LifeInv, HandlerGoes, logs
<1>1. CASE Cancel \/ Terminated \/ UNCHANGED vars
  <2>1. /\ ctxDone' \in BOOLEAN /\ (ctxDone => ctxDone')
        /\ UNCHANGED <<kind, at, client, far, watch, copy, errCh, errors, hand,
                       sent, seen, offers>>
    BY <1>1 DEF Cancel, Terminated, vars, TypeOK
  <2>2. TypeOK'
    BY <2>1 DEF TypeOK
  <2> QED BY <2>1, <2>2 DEF SetupInv, CopyInv, ErrorInv, ErrorCount, ClosedInv, NoCopies
<1>2. CASE Setup
  BY <1>2, SetupKeeps
<1>3. CASE Arm
  <2>1. /\ at = "arm" /\ at' = "pipe" /\ watch' = "armed"
        /\ copy' = [d \in Directions |-> "run"] /\ hand' = None
        /\ UNCHANGED <<kind, client, far, ctxDone, errCh, errors, sent, seen, offers>>
    BY <1>3 DEF Arm
  <2>2. errCh = <<>> /\ copy'["up"] = "run" /\ copy'["down"] = "run"
    BY <2>1 DEF SetupInv, SetupPlaces, Directions
  <2>3. TypeOK'
    BY <2>1 DEF TypeOK, RelayPlaces
  <2>4. SetupInv' /\ CopyInv' /\ ErrorInv' /\ ClosedInv'
    BY <2>1, <2>2 DEF SetupInv, CopyInv, ErrorInv, ErrorCount, ClosedInv,
                      SetupPlaces, RelayPlaces, NoCopies
  <2> QED BY <2>3, <2>4
<1>4. CASE CancelRuns
  <2>1. /\ watch \in {"armed", "half"} /\ watch' \in {"half", "over"}
        /\ client' \in {client, "closed"} /\ far' \in {far, "closed"}
        /\ UNCHANGED <<kind, at, ctxDone, copy, errCh, errors, hand, sent, seen, offers>>
    BY <1>4 DEF CancelRuns, WatchCloses
  <2> QED BY <2>1 DEF TypeOK, SetupInv, CopyInv, ErrorInv, ErrorCount, ClosedInv,
                      SetupPlaces, NoCopies
<1>5. ASSUME NEW d \in Directions, NEW r \in {"nil", "error"}, CopyEnds(d, r)
      PROVE  LifeInv'
  <2>1. /\ copy[d] = "run" /\ copy' = [copy EXCEPT ![d] = "over"]
        /\ errCh' = Append(errCh, r)
        /\ UNCHANGED <<kind, at, client, far, ctxDone, watch, errors, hand, sent,
                       seen, offers>>
    BY <1>5 DEF CopyEnds
  <2>2. /\ Len(errCh') = Len(errCh) + 1 /\ errCh' \in Seq({"nil", "error"})
        /\ copy' \in [Directions -> {"none", "run", "over"}] /\ copy'[d] = "over"
        /\ d \in {"up", "down"}
    BY <2>1 DEF TypeOK, Directions
  <2>3. CopyInv'
    BY <2>1, <2>2 DEF CopyInv, TypeOK, Directions
  <2>4. TypeOK'
    <3>1. Len(errCh') <= 2
      BY <2>3 DEF CopyInv
    <3> QED BY <2>1, <2>2, <3>1 DEF TypeOK
  <2>5. ~NoCopies /\ ~NoCopies' /\ watch # "none"
    BY <2>1, <2>2 DEF NoCopies, SetupInv
  <2>6. SetupInv' /\ ErrorInv' /\ ClosedInv'
    BY <2>1, <2>5 DEF SetupInv, ErrorInv, ErrorCount, ClosedInv, TypeOK
  <2> QED BY <2>3, <2>4, <2>6
<1>6. ASSUME NEW t \in Targets, SendDatagram(t) PROVE LifeInv'
  <2>1. /\ copy["up"] = "run" /\ hand' = t /\ sent' = sent \cup {t}
        /\ UNCHANGED <<kind, at, client, far, ctxDone, watch, copy, errCh, errors,
                       seen, offers>>
    BY <1>6 DEF SendDatagram
  <2>2. ~NoCopies
    BY <2>1 DEF NoCopies, Directions
  <2> QED BY <2>1, <2>2 DEF TypeOK, SetupInv, CopyInv, ErrorInv, ErrorCount,
                            ClosedInv, NoCopies, SetupPlaces
<1>7. CASE RecordUDPAccess
  <2>1. /\ hand # None /\ hand' = None /\ seen' = seen \cup {hand}
        /\ offers' \in {offers, [offers EXCEPT ![hand] = @ + 1]} /\ kind = "udp"
        /\ UNCHANGED <<kind, at, client, far, ctxDone, watch, copy, errCh, errors, sent>>
    BY <1>7 DEF RecordUDPAccess
  <2>2. TypeOK'
    BY <2>1 DEF TypeOK
  <2> QED BY <2>1, <2>2 DEF SetupInv, CopyInv, ErrorInv, ErrorCount, ClosedInv, NoCopies
<1>8. CASE FirstResult \/ CancelAssociation
  BY <1>8 DEF FirstResult, CancelAssociation, TypeOK, SetupInv, CopyInv, ErrorInv,
              ErrorCount, ClosedInv, SetupPlaces, RelayPlaces, NoCopies
<1>9. CASE SecondResult
  <2>1. /\ at = "second" /\ at' = "return" /\ Len(errCh) = 2
        /\ errors' = [errors EXCEPT !["proxy"] = @ + 1] \/ errors' = errors
        /\ UNCHANGED <<kind, client, far, ctxDone, watch, copy, errCh, hand, sent,
                       seen, offers>>
    <3>1. errors = [errors EXCEPT !["proxy"] = errors["proxy"]]
      BY DEF TypeOK
    <3> QED BY <1>9, <3>1 DEF SecondResult
  <2>2. errors' \in [Counters -> Nat] /\ ErrorCount' <= 1
    <3>1. ErrorCount = 0 /\ "proxy" \in Counters
      BY <2>1 DEF ErrorInv, Counters
    <3>2. CASE errors' = errors
      BY <3>1, <3>2 DEF TypeOK, ErrorCount
    <3>3. CASE errors' = [errors EXCEPT !["proxy"] = @ + 1]
      <4>1. errors' \in [Counters -> Nat] /\ ErrorCount' = ErrorCount + 1
        BY <3>1, <3>3, OneMore DEF TypeOK
      <4> QED BY <3>1, <4>1
    <3> QED BY <2>1, <3>2, <3>3
  <2>3. copy["up"] = "over" /\ copy["down"] = "over"
    BY <2>1 DEF CopyInv
  <2>4. TypeOK'
    BY <2>1, <2>2 DEF TypeOK, RelayPlaces
  <2>5. SetupInv' /\ CopyInv' /\ ErrorInv' /\ ClosedInv'
    BY <2>1, <2>2, <2>3 DEF SetupInv, CopyInv, ErrorInv, ClosedInv, SetupPlaces,
                            RelayPlaces, NoCopies, Directions
  <2> QED BY <2>4, <2>5
<1>10. CASE Return
  BY <1>10 DEF Return, TypeOK, SetupInv, CopyInv, ErrorInv, ErrorCount, ClosedInv,
               SetupPlaces, RelayPlaces, NoCopies
<1> QED BY <1>1, <1>2, <1>3, <1>4, <1>5, <1>6, <1>7, <1>8, <1>9, <1>10 DEF Next, Pipe

LEMMA LifeHolds == Spec => []LifeInv
BY LifeInit, LifeNext, PTL DEF Spec

\* The state of the goroutines of a handler is well formed, and two results fit
\* the channel on which the copies report (service.go:285-296).
THEOREM TypeCorrect == Spec => []TypeOK
<1>1. LifeInv => TypeOK
  BY DEF LifeInv
<1> QED BY LifeHolds, <1>1, PTL

\* A connection counts one error at most, and one if it was never relayed
\* (service.go:261-282, server_relay.go:82-171).
THEOREM ErrorsCounted == Spec => []OneErrorPerFailure
<1>1. LifeInv => OneErrorPerFailure
  BY DEF LifeInv, ErrorInv, OneErrorPerFailure
<1> QED BY LifeHolds, <1>1, PTL

\* Whatever way a handler returns, both ends are closed (service.go:272-305,
\* server_relay.go:233-246).
THEOREM NothingLeftOpen == Spec => []NothingIsLeftOpen
<1>1. LifeInv => NothingIsLeftOpen
  BY DEF LifeInv, ClosedInv, NothingIsLeftOpen
<1> QED BY LifeHolds, <1>1, PTL
-----------------------------------------------------------------------------
(* What is recorded *)

LEMMA LogInit == Init => LogInv
BY TargetAssumption DEF Init, LogInv, SetupPlaces, NoOffers

LEMMA LogNext == LifeInv /\ LogInv /\ [Next]_vars => LogInv'
<1> SUFFICES ASSUME LifeInv, LogInv, [Next]_vars PROVE LogInv'
  OBVIOUS
<1> USE DEF LogInv, HandlerGoes, SetupPlaces
<1>0. TypeOK /\ SetupInv
  BY DEF LifeInv
<1>1. ASSUME UNCHANGED <<kind, hand, sent, seen, offers>>,
             at' \in {at, "pipe", "second", "return", "closed"}
      PROVE  LogInv'
  BY <1>1 DEF NoOffers
<1>2. CASE Cancel \/ Terminated \/ CancelRuns \/ Pipe \/ UNCHANGED vars
  <2>1. /\ UNCHANGED <<kind, hand, sent, seen, offers>>
        /\ at' \in {at, "pipe", "second", "return", "closed"}
    BY <1>2 DEF Cancel, Terminated, CancelRuns, WatchCloses, Pipe, FirstResult,
                SecondResult, CancelAssociation, Return, vars, logs
  <2> QED BY <1>1, <2>1
<1>3. ASSUME NEW d \in Directions, NEW r \in {"nil", "error"}, CopyEnds(d, r)
      PROVE  LogInv'
  BY <1>1, <1>3 DEF CopyEnds, logs
<1>4. ASSUME NEW from \in SetupPlaces, NEW e \in Counters, Fails(from, e)
      PROVE  LogInv'
  BY <1>1, <1>4 DEF Fails, logs
<1>5. CASE DialUpstream
  <2>1. CASE Opens("dial", "clientHandshake")
    BY <1>0, <2>1 DEF Opens, SetupInv, NoOffers
  <2> QED BY <1>4, <1>5, <2>1 DEF DialUpstream, Counters
<1>6. CASE HandshakeWithUpstream
  <2>1. CASE Proceeds("clientHandshake", "arm")
    BY <1>0, <2>1 DEF Proceeds, SetupInv, NoOffers, logs
  <2> QED BY <1>4, <1>6, <2>1 DEF HandshakeWithUpstream, Counters
<1>7. CASE ServerHandshake
  <2>1. CASE Proceeds("handshake", "request")
    BY <1>0, <2>1 DEF Proceeds, SetupInv, NoOffers, logs
  <2> QED BY <1>4, <1>7, <2>1 DEF ServerHandshake, Counters
<1>8. CASE ReadRequest
  <2>1. CASE Fails("request", "proxy")
    BY <1>4, <2>1 DEF Counters
  <2>2. CASE ~Fails("request", "proxy")
    <3>1. /\ at = "request"
          /\ \/ at' = "record" /\ kind' = "connect" /\ hand' \in Targets
             \/ at' = "listen" /\ kind' = "udp" /\ hand' = hand
          /\ UNCHANGED <<sent, seen, offers>>
      BY <1>8, <2>2, <1>0 DEF ReadRequest, SetupInv
    <3>2. sent = {} /\ seen = {} /\ NoOffers
      BY <3>1
    <3>3. hand = None
      BY <1>0, <3>1 DEF SetupInv
    <3>4. at' \in SetupPlaces /\ at' \notin {"connect", "respond", "arm"}
      BY <3>1
    <3>5. NoOffers' /\ sent' = {} /\ seen' = {}
      BY <3>1, <3>2 DEF NoOffers
    <3>6. \A t \in Targets : offers'[t] = IF t \in seen' THEN 1 ELSE 0
      BY <3>5 DEF NoOffers
    <3> QED BY <3>1, <3>3, <3>4, <3>5, <3>6
  <2> QED BY <2>1, <2>2
<1>9. CASE RecordConnect
  <2>1. /\ at = "record" /\ at' = "connect" /\ hand \in Targets /\ kind = "connect"
        /\ offers' = [offers EXCEPT ![hand] = @ + 1]
        /\ UNCHANGED <<kind, hand, sent, seen>>
    BY <1>0, <1>9 DEF RecordConnect, SetupInv
  <2>2. offers'[hand'] = 1
    BY <2>1 DEF NoOffers
  <2> QED BY <2>1, <2>2
<1>10. CASE DialTarget
  <2>1. CASE Opens("connect", "respond")
    BY <1>0, <2>1 DEF Opens, SetupInv, NoOffers
  <2> QED BY <1>4, <1>10, <2>1 DEF DialTarget, Counters
<1>11. CASE ListenUDP
  <2>1. CASE Opens("listen", "respond")
    BY <1>0, <2>1 DEF Opens, SetupInv, NoOffers
  <2> QED BY <1>4, <1>11, <2>1 DEF ListenUDP, Counters
<1>12. CASE Respond
  <2>1. CASE Proceeds("respond", "arm")
    BY <1>0, <2>1 DEF Proceeds, SetupInv, NoOffers, logs
  <2> QED BY <1>4, <1>12, <2>1 DEF Respond, Counters
<1>13. CASE Arm
  BY <1>13, <1>0, TargetAssumption DEF Arm, TypeOK, NoOffers
<1>14. ASSUME NEW t \in Targets, SendDatagram(t) PROVE LogInv'
  <2>1. /\ kind = "udp" /\ hand = None /\ hand' = t /\ sent' = sent \cup {t}
        /\ UNCHANGED <<kind, at, seen, offers>> /\ at \notin SetupPlaces
    BY <1>14, <1>0 DEF SendDatagram, SetupInv, NoCopies, Directions
  <2>2. sent \subseteq seen /\ seen \subseteq sent
    BY <1>0, <2>1, TargetAssumption DEF TypeOK
  <2> QED BY <2>1, <2>2
<1>15. CASE RecordUDPAccess
  <2>1. /\ kind = "udp" /\ hand \in Targets /\ hand' = None /\ seen' = seen \cup {hand}
        /\ offers' = IF hand \in seen THEN offers ELSE [offers EXCEPT ![hand] = @ + 1]
        /\ UNCHANGED <<kind, at, sent>> /\ at \notin SetupPlaces
    BY <1>15, <1>0 DEF RecordUDPAccess, TypeOK
  <2>2. hand \in sent /\ None \notin sent
    BY <2>1, <1>0, TargetAssumption DEF TypeOK
  <2>3. seen' \subseteq sent' /\ sent' \ {hand'} \subseteq seen'
    BY <2>1, <2>2
  <2>4. \A t \in Targets : offers'[t] = IF t \in seen' THEN 1 ELSE 0
    BY <2>1, <1>0 DEF TypeOK
  <2> QED BY <2>1, <2>2, <2>3, <2>4
<1> QED BY <1>2, <1>3, <1>5, <1>6, <1>7, <1>8, <1>9, <1>10, <1>11, <1>12, <1>13,
           <1>14, <1>15 DEF Next, Setup

\* Every target that was reached is offered to the access log exactly once
\* (server_relay.go:110-118, 192-200, 249-266).
THEOREM TargetsLogged == Spec => []TargetsAreLoggedOnce
<1>1. LifeInv /\ LogInv => TargetsAreLoggedOnce
  <2> SUFFICES ASSUME LifeInv, LogInv PROVE TargetsAreLoggedOnce
    OBVIOUS
  <2>1. kind = "udp" => \A t \in Targets :
            t \in sent \ {hand} \/ t \in seen <=> t \in seen
    BY DEF LogInv
  <2> QED BY <2>1 DEF LogInv, TargetsAreLoggedOnce
<1> QED BY LifeHolds, LogInit, LogNext, <1>1, PTL DEF Spec
-----------------------------------------------------------------------------
(* Nobody waits for ever *)

\* A handler in its pipe has started both copies.
StartedInv == at \in RelayPlaces => copy["up"] # "none" /\ copy["down"] # "none"

\* What the AfterFunc has closed, and that there is a far end to close.
WatchInv ==
    /\ at \in {"clientHandshake", "respond", "arm"} => far # "none"
    /\ watch # "none" => far # "none"
    /\ watch = "half" => IF kind = "forward" THEN client = "closed" ELSE far = "closed"
    /\ watch = "over" => client = "closed" /\ far = "closed"

LEMMA StartedNext == LifeInv /\ StartedInv /\ [Next]_vars => StartedInv'
<1> SUFFICES ASSUME LifeInv, StartedInv, [Next]_vars PROVE StartedInv'
  OBVIOUS
<1> USE DEF HandlerGoes, logs
<1>1. CASE Setup
  BY <1>1 DEF Setup, DialUpstream, HandshakeWithUpstream, ServerHandshake, ReadRequest,
              RecordConnect, DialTarget, ListenUDP, Respond, Opens, Proceeds, Fails,
              RelayPlaces, StartedInv
<1>2. CASE Arm
  BY <1>2 DEF Arm, Directions, StartedInv
<1>3. ASSUME NEW d \in Directions, NEW r \in {"nil", "error"}, CopyEnds(d, r)
      PROVE  StartedInv'
  BY <1>3 DEF CopyEnds, Directions, StartedInv, LifeInv, TypeOK
<1>4. CASE Pipe
  BY <1>4 DEF Pipe, FirstResult, SecondResult, CancelAssociation, Return, RelayPlaces,
              StartedInv
<1>5. CASE \/ Cancel \/ Terminated \/ CancelRuns \/ RecordUDPAccess \/ UNCHANGED vars
           \/ \E t \in Targets : SendDatagram(t)
  BY <1>5 DEF Cancel, Terminated, CancelRuns, WatchCloses, RecordUDPAccess, SendDatagram,
              vars, StartedInv
<1> QED BY <1>1, <1>2, <1>3, <1>4, <1>5 DEF Next

LEMMA WatchNext == LifeInv /\ WatchInv /\ [Next]_vars => WatchInv'
<1> SUFFICES ASSUME LifeInv, WatchInv, [Next]_vars PROVE WatchInv'
  OBVIOUS
<1> USE DEF HandlerGoes, logs
<1>1. CASE Cancel \/ Terminated \/ UNCHANGED vars
  BY <1>1 DEF Cancel, Terminated, vars, WatchInv
<1>2. ASSUME Setup \/ Arm PROVE WatchInv'
  <2>1. watch = "none"
    BY <1>2 DEF LifeInv, SetupInv, SetupPlaces, Setup, DialUpstream, HandshakeWithUpstream,
                ServerHandshake, ReadRequest, RecordConnect, DialTarget, ListenUDP, Respond,
                Arm, Opens, Proceeds, Fails
  <2>2. CASE Arm
    BY <2>1, <2>2 DEF Arm, WatchInv
  <2>3. CASE \E from \in SetupPlaces, e \in Counters : Fails(from, e)
    BY <2>1, <2>3 DEF Fails, WatchInv
  <2>4. CASE \E from, to \in SetupPlaces : Opens(from, to)
    BY <2>1, <2>4 DEF Opens, WatchInv
  <2>5. CASE \/ Proceeds("clientHandshake", "arm") \/ Proceeds("respond", "arm")
             \/ Proceeds("handshake", "request")
    BY <2>1, <2>5 DEF Proceeds, WatchInv
  <2>6. CASE RecordConnect
    BY <2>1, <2>6 DEF RecordConnect, WatchInv
  <2>7. CASE ReadRequest /\ ~Fails("request", "proxy")
    BY <2>1, <2>7 DEF ReadRequest, WatchInv
  <2> QED BY <1>2, <2>2, <2>3, <2>4, <2>5, <2>6, <2>7
          DEF Setup, DialUpstream, HandshakeWithUpstream, ServerHandshake, DialTarget,
              ListenUDP, Respond, ReadRequest, SetupPlaces, Counters
<1>3. CASE CancelRuns
  BY <1>3 DEF CancelRuns, WatchCloses, FirstToClose, SecondToClose, WatchInv, LifeInv, TypeOK
<1>4. ASSUME NEW d \in Directions, NEW r \in {"nil", "error"}, CopyEnds(d, r)
      PROVE  WatchInv'
  BY <1>4 DEF CopyEnds, WatchInv
<1>5. CASE RecordUDPAccess \/ \E t \in Targets : SendDatagram(t)
  BY <1>5 DEF RecordUDPAccess, SendDatagram, WatchInv
<1>6. CASE Pipe
  BY <1>6 DEF Pipe, FirstResult, SecondResult, CancelAssociation, Return, WatchInv
<1> QED BY <1>1, <1>2, <1>3, <1>4, <1>5, <1>6 DEF Next

\* Whatever the handler, or a copy it left, still waits for will come, provided
\* that goroutines run: the safety half of what the run shows of their ends
\* (service.go:273-305, server_relay.go:134-171, 233-246).
THEOREM HandlerNeverSticks == Spec => []HandlerIsNeverStuck
<1>1. Init => WatchInv /\ StartedInv
  BY DEF Init, WatchInv, StartedInv, RelayPlaces
<1>2. LifeInv /\ WatchInv /\ StartedInv => HandlerIsNeverStuck
  <2> SUFFICES ASSUME LifeInv, WatchInv, StartedInv PROVE HandlerIsNeverStuck
    OBVIOUS
  <2> DEFINE running == \E d \in Directions : copy[d] = "run"
             closed  == client = "closed" /\ far = "closed"
  <2>1. /\ copy["up"] \in {"none", "run", "over"} /\ copy["down"] \in {"none", "run", "over"}
        /\ (running <=> copy["up"] = "run" \/ copy["down"] = "run")
        /\ far \in {"none", "open", "closed"} /\ watch \in {"none", "armed", "half", "over"}
        /\ at \in SetupPlaces \cup RelayPlaces \cup {"closed"}
    BY DEF LifeInv, TypeOK, Directions
  <2>2. running => watch # "none" /\ far # "none"
    BY <2>1 DEF LifeInv, SetupInv, WatchInv, NoCopies
  <2>3. at \in {"pipe", "second"} => Len(errCh) = 2 \/ running
    <3>1. copy["up"] = "over" /\ copy["down"] = "over" => Len(errCh) = 2
      BY DEF LifeInv, CopyInv
    <3> QED BY <2>1, <3>1 DEF StartedInv, RelayPlaces
  <2>4. running /\ at # "pipe" => closed
    BY <2>1, <2>2 DEF LifeInv, SetupInv, ClosedInv, SetupPlaces, RelayPlaces
  <2>5. running => closed \/ watch \in {"armed", "half"}
    BY <2>1, <2>2 DEF WatchInv
  <2>6. Len(errCh) = 2 => errCh # <<>>
    OBVIOUS
  <2> QED BY <2>3, <2>4, <2>5, <2>6 DEF HandlerIsNeverStuck
<1> QED BY LifeHolds, WatchNext, StartedNext, <1>1, <1>2, PTL DEF Spec

-----------------------------------------------------------------------------
(* Refinement *)

\* Every step of a handler in detail is a step of the handler that Service
\* takes it for, or changes nothing of it (service.go:261-306).
THEOREM StepsAreHandlerSteps ==
    Spec => Handler!Init /\ [][Handler!Next]_(Handler!vars)
<1> DEFINE stage == CASE at \in SetupPlaces -> "setup"
                      [] at \in RelayPlaces -> "relaying"
                      [] at = "closed"      -> "closed"
<1>1. Init => Handler!Init
  BY DEF Init, Handler!Init, SetupPlaces, RelayPlaces
<1>2. LifeInv /\ [Next]_vars => [Handler!Next]_(Handler!vars)
  <2> SUFFICES ASSUME LifeInv, [Next]_vars PROVE [Handler!Next]_(Handler!vars)
    OBVIOUS
  <2>1. at \in SetupPlaces \cup RelayPlaces \cup {"closed"}
    BY DEF LifeInv, TypeOK
  <2>2. /\ at \in SetupPlaces => stage = "setup"
        /\ at \in RelayPlaces => stage = "relaying"
        /\ at = "closed" => stage = "closed"
        /\ at' \in SetupPlaces => stage' = "setup"
        /\ at' \in RelayPlaces => stage' = "relaying"
        /\ at' = "closed" => stage' = "closed"
    BY DEF SetupPlaces, RelayPlaces
  <2>3. ASSUME stage' = stage, ctxDone' = ctxDone
        PROVE  [Handler!Next]_(Handler!vars)
    BY <2>3 DEF Handler!vars
  <2>4. CASE Setup
    <3>1. ctxDone' = ctxDone /\ at \in SetupPlaces /\ at' \in SetupPlaces \cup {"closed"}
      BY <2>4 DEF Setup, DialUpstream, HandshakeWithUpstream, ServerHandshake,
                  ReadRequest, RecordConnect, DialTarget, ListenUDP, Respond,
                  Fails, Opens, Proceeds, HandlerGoes, SetupPlaces
    <3> QED BY <2>2, <2>3, <3>1 DEF Handler!Next, Handler!SetupFails, Handler!Goes
  <2>5. CASE Arm
    <3>1. ctxDone' = ctxDone /\ at \in SetupPlaces /\ at' \in RelayPlaces
      BY <2>5 DEF Arm, HandlerGoes, SetupPlaces, RelayPlaces
    <3> QED BY <2>2, <3>1 DEF Handler!Next, Handler!Establish, Handler!Goes
  <2>6. CASE FirstResult \/ SecondResult \/ CancelAssociation
    <3>1. ctxDone' = ctxDone /\ at \in RelayPlaces /\ at' \in RelayPlaces
      BY <2>6 DEF FirstResult, SecondResult, CancelAssociation, HandlerGoes, RelayPlaces
    <3> QED BY <2>2, <2>3, <3>1
  <2>7. CASE Return
    <3>1. ctxDone' = ctxDone /\ at \in RelayPlaces /\ at' = "closed"
      BY <2>7 DEF Return, HandlerGoes, RelayPlaces
    <3> QED BY <2>2, <3>1 DEF Handler!Next, Handler!PeerCloses, Handler!Goes
  <2>8. CASE Cancel
    <3>1. ~ctxDone /\ ctxDone' = TRUE /\ at' = at
      BY <2>8 DEF Cancel
    <3> QED BY <3>1 DEF Handler!Next, Handler!Cancel
  <2>9. CASE \/ CancelRuns \/ RecordUDPAccess \/ Terminated \/ UNCHANGED vars
             \/ \E d \in Directions, r \in {"nil", "error"} : CopyEnds(d, r)
             \/ \E t \in Targets : SendDatagram(t)
    <3>1. at' = at /\ ctxDone' = ctxDone
      BY <2>9 DEF CancelRuns, WatchCloses, RecordUDPAccess, Terminated, vars,
                  CopyEnds, SendDatagram
    <3> QED BY <2>3, <3>1
  <2> QED BY <2>4, <2>5, <2>6, <2>7, <2>8, <2>9 DEF Next, Pipe
<1> QED BY LifeHolds, <1>1, <1>2, PTL DEF Spec
=============================================================================
