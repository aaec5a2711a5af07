---------------------------- MODULE ServiceProofs ----------------------------
(***************************************************************************)
(* Proofs about Service, for every number of inbounds, every set of limits *)
(* and every finite set of connections.                                    *)
(*                                                                         *)
(* TypeOK comes first.  PhaseInv ties Run's place to what the listeners,   *)
(* the loops, the reporter and errCh may be; CountInv ties the semaphores, *)
(* the WaitGroup counter and the metrics to the connections they count.    *)
(***************************************************************************)
EXTENDS Service, FiniteSetTheorems, SequenceTheorems, TLAPS

USE NAssumption, ConnsAssumption

\* The steps of Next that change no variable but main (and possibly runErr,
\* errCh, forced) leave the connections alone; this names what they keep.
ConnVars == <<conn, sem, connections, metrics>>

LEMMA ListenersFacts ==
    /\ Admin \in Listeners
    /\ Inbounds \subseteq Listeners
    /\ IsFiniteSet(Listeners)
    /\ Cardinality(Listeners) = N + 1
<1>1. IsFiniteSet(1..(N+1)) /\ Cardinality(1..(N+1)) = N + 1
  BY FS_Interval
<1> QED BY <1>1 DEF Admin, Inbounds, Listeners

\* Taking one member away takes one from the cardinality.
LEMMA RemoveOne ==
    ASSUME NEW S, NEW R, NEW x, IsFiniteSet(S), x \in S, R = S \ {x}
    PROVE  IsFiniteSet(R) /\ Cardinality(R) = Cardinality(S) - 1
<1>1. IsFiniteSet(S \ {x}) /\ Cardinality(S \ {x}) = Cardinality(S) - 1
  BY FS_RemoveElement
<1> QED BY <1>1

\* Counting a connection in, out or away keeps the metrics well typed.
LEMMA MetricsTyped ==
    ASSUME NEW m \in MetricsType
    PROVE  /\ [active |-> m.active + 1, total |-> m.total + 1,
               rejected |-> m.rejected] \in MetricsType
           /\ [m EXCEPT !.active = @ - 1] \in MetricsType
           /\ [m EXCEPT !.rejected = @ + 1] \in MetricsType
BY DEF MetricsType

-----------------------------------------------------------------------------
(* Types *)

\* The typing invariant of the node (all of service.go's state).
THEOREM TypeCorrect == Spec => []TypeOK
<1>1. Init => TypeOK
  <2> HAVE Init
  <2>1. metrics \in MetricsType
    BY DEF Init, MetricsType
  <2>2. errCh \in Seq(ErrKinds)
    BY DEF Init
  <2>3. conn \in [Conns -> ConnStates]
    BY DEF Init, ConnStates
  <2>4. /\ listener \in [Listeners -> {"none", "open", "closed"}]
        /\ loop \in [Listeners -> LoopStates]
    BY DEF Init, LoopStates
  <2>5. sem \in [Inbounds -> Int] /\ connections \in Int
    BY DEF Init
  <2> QED BY <2>1, <2>2, <2>3, <2>4, <2>5 DEF Init, TypeOK, MainStates
<1>2. TypeOK /\ [Next]_vars => TypeOK'
  <2> SUFFICES ASSUME TypeOK, [Next]_vars PROVE TypeOK'
    OBVIOUS
  <2> USE ListenersFacts DEF TypeOK, MainStates, LoopStates, ErrKinds, ConnStates
  <2>1. CASE CallerCancels
    BY <2>1 DEF CallerCancels
  <2>2. ASSUME NEW l \in Listeners, Listen(l) \/ ListenFails(l) \/ CloseNext(l)
        PROVE  TypeOK'
    BY <2>2 DEF Listen, ListenFails, CloseNext, NextToListen
  <2>3. CASE SelectDone \/ CloseDone \/ GraceElapses
    BY <2>3 DEF SelectDone, CloseDone, GraceElapses
  <2>4. CASE SelectError
    BY <2>4 DEF SelectError
  <2>5. CASE ShutdownBegins \/ ShutdownReturns \/ WaitLoops \/ Drained
    BY <2>5 DEF ShutdownBegins, ShutdownReturns, WaitLoops, Drained, MainGoes
  <2>6. ASSUME NEW l \in Listeners, LoopStep(l) PROVE TypeOK'
    <3>1. CASE LoopFails(l) \/ LoopStops(l)
      BY <3>1 DEF LoopFails, LoopStops, LoopGoes
    <3>2. CASE LoopSends(l)
      <4>1. Append(errCh, "failed") \in Seq(ErrKinds) /\ Append(errCh, "closed") \in Seq(ErrKinds)
        OBVIOUS
      <4> QED BY <3>2, <4>1 DEF LoopSends, LoopGoes
    <3> QED BY <2>6, <3>1, <3>2 DEF LoopStep
  <2>7. CASE ReporterExits
    BY <2>7 DEF ReporterExits
  <2>8. ASSUME NEW c \in Conns, ConnStep(c) PROVE TypeOK'
    <3> InboundOf[c] \in Inbounds
      OBVIOUS
    <3>1. CASE Accept(c)
      BY <3>1 DEF Accept, LoopGoes, ConnGoes
    <3>2. CASE Admit(c)
      BY <3>2 DEF Admit, LoopGoes, ConnGoes
    <3>3. CASE Reject(c)
      BY <3>3, MetricsTyped DEF Reject, LoopGoes, ConnGoes
    <3>4. CASE Spawn(c)
      BY <3>4 DEF Spawn, LoopGoes, ConnGoes
    <3>5. CASE Begin(c)
      <4>1. metrics' \in MetricsType
        BY <3>5, MetricsTyped DEF Begin
      <4>2. conn' \in [Conns -> ConnStates]
        BY <3>5 DEF Begin, ConnGoes
      <4>3. UNCHANGED <<main, listener, loop, reporter, callerDone, errCh,
                        runErr, sem, connections, forced>>
        BY <3>5 DEF Begin
      <4> QED BY <4>1, <4>2, <4>3
    <3>6. CASE Establish(c)
      BY <3>6 DEF Establish, ConnGoes
    <3>7. ASSUME NEW from, End(c, from) PROVE TypeOK'
      <4>1. metrics' \in MetricsType
        BY <3>7, MetricsTyped DEF End
      <4>2. conn' \in [Conns -> ConnStates]
        BY <3>7 DEF End, ConnGoes
      <4>3. UNCHANGED <<main, listener, loop, reporter, callerDone, errCh,
                        runErr, sem, connections, forced>>
        BY <3>7 DEF End
      <4> QED BY <4>1, <4>2, <4>3
    <3>8. CASE ReleaseSlot(c)
      BY <3>8 DEF ReleaseSlot, ConnGoes
    <3>9. CASE HandlerDone(c)
      BY <3>9 DEF HandlerDone, ConnGoes
    <3> QED BY <2>8, <3>1, <3>2, <3>3, <3>4, <3>5, <3>6, <3>7, <3>8, <3>9
            DEF ConnStep, SetupFails, PeerCloses, CutOff
  <2>9. CASE Terminated \/ UNCHANGED vars
    BY <2>9 DEF Terminated, vars
  <2> QED BY <2>1, <2>2, <2>3, <2>4, <2>5, <2>6, <2>7, <2>8, <2>9
          DEF Next, MainStep
<1> QED BY <1>1, <1>2, PTL DEF Spec
-----------------------------------------------------------------------------
(* Run's place and what it says of the other goroutines *)

\* A loop exists exactly for the listeners that were opened.
LoopPerListener ==
    \A l \in Listeners : (listener[l] = "none") <=> (loop[l] = "none")

\* Nothing is closed before Run leaves its select, so no error that a closed
\* listener provokes can be in errCh when Run reads it.
NothingClosedYet ==
    main \in {"start", "select"} =>
        /\ \A l \in Listeners : listener[l] # "closed" /\ loop[l] # "send-closed"
        /\ \A k \in 1..Len(errCh) : errCh[k] # "closed"

AllClosed ==
    main \in {"shutdown", "shutting", "wait", "drain", "returned"} =>
        \A l \in Listeners : listener[l] # "open"

AllJoined == main \in {"drain", "returned"} => Joined

PhaseInv == /\ LoopPerListener
            /\ NothingClosedYet
            /\ AllClosed
            /\ AllJoined
            /\ ResultNamesTheCause

LEMMA PhaseInvInit == Init => PhaseInv
BY ListenersFacts DEF Init, PhaseInv, LoopPerListener, NothingClosedYet, AllClosed,
                      AllJoined, Joined, ResultNamesTheCause

\* No step takes Run to a place that the other goroutines contradict.
LEMMA PhaseInvNext == TypeOK /\ PhaseInv /\ [Next]_vars => PhaseInv'
<1> SUFFICES ASSUME TypeOK, PhaseInv, [Next]_vars PROVE PhaseInv'
  OBVIOUS
<1> USE ListenersFacts DEF TypeOK, PhaseInv, LoopPerListener, NothingClosedYet,
        AllClosed, AllJoined, Joined, ResultNamesTheCause
<1>1. CASE CallerCancels
  BY <1>1 DEF CallerCancels
<1>2. ASSUME NEW l \in Listeners, Listen(l) PROVE PhaseInv'
  BY <1>2 DEF Listen, NextToListen
<1>3. ASSUME NEW l \in Listeners, ListenFails(l) PROVE PhaseInv'
  BY <1>3 DEF ListenFails, NextToListen
<1>4. ASSUME NEW l \in Listeners, CloseNext(l) PROVE PhaseInv'
  BY <1>4 DEF CloseNext
<1>5. CASE SelectDone
  BY <1>5 DEF SelectDone, CtxDone
<1>6. CASE SelectError
  <2>1. Head(errCh) = errCh[1] /\ 1 \in 1..Len(errCh) /\ errCh[1] \in ErrKinds
    BY <1>6 DEF SelectError
  <2>2. errCh[1] = "failed"
    BY <1>6, <2>1 DEF SelectError, ErrKinds
  <2>3. main' = "closing" /\ runErr' = "failed"
    BY <1>6, <2>1, <2>2 DEF SelectError
  <2>4. UNCHANGED <<listener, loop, reporter, callerDone>>
    BY <1>6 DEF SelectError
  <2> QED BY <2>3, <2>4
<1>7. CASE CloseDone
  BY <1>7 DEF CloseDone
<1>8. CASE ShutdownBegins \/ ShutdownReturns \/ WaitLoops \/ Drained \/ GraceElapses
  BY <1>8 DEF ShutdownBegins, ShutdownReturns, WaitLoops, Drained, GraceElapses,
              MainGoes
<1>9. ASSUME NEW l \in Listeners, LoopFails(l) \/ LoopStops(l) PROVE PhaseInv'
  BY <1>9 DEF LoopFails, LoopStops, LoopGoes
<1>10. ASSUME NEW l \in Listeners, LoopSends(l) PROVE PhaseInv'
  <2>1. PICK kind \in ErrKinds : /\ loop[l] = IF kind = "failed" THEN "send-failed"
                                                            ELSE "send-closed"
                                 /\ errCh' = Append(errCh, kind)
                                 /\ loop' = [loop EXCEPT ![l] = "exit"]
    BY <1>10 DEF LoopSends, LoopGoes, ErrKinds
  <2>2. UNCHANGED <<main, listener, reporter, callerDone, runErr>>
    BY <1>10 DEF LoopSends
  <2>3. ASSUME main \in {"start", "select"}, NEW k \in 1..Len(errCh')
        PROVE  errCh'[k] # "closed"
    <3>1. kind = "failed"
      BY <2>1, <2>3 DEF ErrKinds
    <3>2. Len(errCh') = Len(errCh) + 1 /\ errCh'[Len(errCh) + 1] = kind
      BY <2>1, AppendProperties
    <3>3. k \in 1..Len(errCh) => errCh'[k] = errCh[k]
      BY <2>1, AppendProperties
    <3> QED BY <2>3, <3>1, <3>2, <3>3
  <2> QED BY <2>1, <2>2, <2>3
<1>11. CASE ReporterExits
  BY <1>11 DEF ReporterExits
<1>12. ASSUME NEW c \in Conns, Accept(c) \/ Admit(c) \/ Reject(c) \/ Spawn(c)
       PROVE  PhaseInv'
  <2> InboundOf[c] \in Listeners
    OBVIOUS
  <2>1. \E to \in {"accept", "admit", "spawn"} :
            /\ loop[InboundOf[c]] \in {"accept", "admit", "spawn"}
            /\ loop' = [loop EXCEPT ![InboundOf[c]] = to]
    BY <1>12 DEF Accept, Admit, Reject, Spawn, LoopGoes
  <2>2. UNCHANGED <<main, listener, reporter, callerDone, errCh, runErr>>
    BY <1>12 DEF Accept, Admit, Reject, Spawn
  <2> QED BY <2>1, <2>2
<1>13. ASSUME NEW c \in Conns,
              UNCHANGED <<main, listener, loop, reporter, callerDone, errCh, runErr>>
       PROVE  PhaseInv'
  BY <1>13
<1>14. ASSUME NEW c \in Conns, ConnStep(c) PROVE PhaseInv'
  BY <1>12, <1>13, <1>14
     DEF ConnStep, Begin, Establish, SetupFails, PeerCloses, CutOff, End,
         ReleaseSlot, HandlerDone
<1>15. CASE Terminated \/ UNCHANGED vars
  BY <1>15 DEF Terminated, vars
<1> QED BY <1>1, <1>2, <1>3, <1>4, <1>5, <1>6, <1>7, <1>8, <1>9, <1>10, <1>11,
           <1>14, <1>15
        DEF Next, MainStep, LoopStep

\* The listeners, the loops, the reporter and the result agree with where Run
\* is, in every reachable state.
THEOREM PhaseCorrect == Spec => []PhaseInv
BY TypeCorrect, PhaseInvInit, PhaseInvNext, PTL DEF Spec

\* Run's result is the true cause of its end (service.go:151-170).
THEOREM ResultCorrect == Spec => []ResultNamesTheCause
BY PhaseCorrect, PTL DEF PhaseInv

\* connections.Add never races with connections.Wait (service.go:165-166, 233).
THEOREM AddsAreOver == Spec => NoAddDuringWait
<1>1. TypeOK /\ PhaseInv /\ [Next]_vars
        => [(main \in {"drain", "returned"}) => (connections' <= connections)]_vars
  <2> SUFFICES ASSUME TypeOK, PhaseInv, Next, main \in {"drain", "returned"}
               PROVE  connections' <= connections
    OBVIOUS
  <2>1. Joined
    BY DEF PhaseInv, AllJoined
  <2>2. ASSUME NEW c \in Conns, ConnStep(c) PROVE connections' <= connections
    <3>1. ~Spawn(c)
      BY <2>1, ListenersFacts DEF Joined, Spawn, LoopGoes
    <3> QED BY <2>2, <3>1
            DEF ConnStep, Accept, Admit, Reject, Begin, Establish, SetupFails,
                PeerCloses, CutOff, End, ReleaseSlot, HandlerDone, TypeOK
  <2> QED
    BY <2>2 DEF Next, CallerCancels, MainStep, Listen, ListenFails, CloseNext,
                SelectDone, SelectError, CloseDone, ShutdownBegins,
                ShutdownReturns, WaitLoops, Drained, GraceElapses, MainGoes,
                LoopStep, LoopFails, LoopStops, LoopSends, ReporterExits,
                Terminated, vars, TypeOK
<1> QED BY TypeCorrect, PhaseCorrect, <1>1, PTL DEF Spec, NoAddDuringWait
-----------------------------------------------------------------------------
(* errCh never fills up under a sender *)

\* Every loop sends at most once and ends with it: what is in errCh is bounded
\* by the loops that have ended.
Ended   == {l \in Listeners : loop[l] = "exit"}
SendInv == Len(errCh) <= Cardinality(Ended)

\* A step in which one loop ends adds one to Cardinality(Ended).
LEMMA EndedGrows ==
    ASSUME TypeOK, NEW l \in Listeners, loop[l] # "exit",
           loop' = [loop EXCEPT ![l] = "exit"]
    PROVE  /\ IsFiniteSet(Ended)
           /\ Cardinality(Ended) \in Nat
           /\ Cardinality(Ended') = Cardinality(Ended) + 1
<1>1. IsFiniteSet(Ended)
  BY ListenersFacts, FS_Subset DEF Ended
<1>2. Ended' = Ended \cup {l} /\ l \notin Ended
  BY DEF Ended, TypeOK
<1> QED BY <1>1, <1>2, FS_AddElement, FS_CardinalityType

LEMMA SendInvNext == TypeOK /\ PhaseInv /\ SendInv /\ [Next]_vars => SendInv'
<1> SUFFICES ASSUME TypeOK, PhaseInv, SendInv, [Next]_vars PROVE SendInv'
  OBVIOUS
<1>1. Cardinality(Ended) \in Nat
  BY ListenersFacts, FS_Subset, FS_CardinalityType DEF Ended
<1>2. Len(errCh) \in Nat
  BY DEF TypeOK
<1>3. CASE UNCHANGED <<loop, errCh>>
  BY <1>3 DEF SendInv, Ended
<1>4. ASSUME NEW l \in Listeners, NEW to, to # "exit", loop[l] # "exit",
             loop' = [loop EXCEPT ![l] = to], UNCHANGED errCh
      PROVE  SendInv'
  <2>1. Ended' = Ended
    BY <1>4 DEF Ended, TypeOK
  <2> QED BY <1>4, <2>1 DEF SendInv
<1>5. ASSUME NEW l \in Listeners, loop[l] # "exit",
             loop' = [loop EXCEPT ![l] = "exit"],
             Len(errCh') <= Len(errCh) + 1, Len(errCh') \in Nat
      PROVE  SendInv'
  <2>1. Cardinality(Ended') = Cardinality(Ended) + 1
    BY <1>5, EndedGrows
  <2> QED BY <1>1, <1>2, <1>5, <2>1 DEF SendInv
<1>6. ASSUME NEW l \in Listeners, Listen(l) PROVE SendInv'
  BY <1>4, <1>6 DEF Listen, NextToListen, PhaseInv, LoopPerListener
<1>7. ASSUME NEW l \in Listeners, LoopStep(l) PROVE SendInv'
  <2>1. CASE LoopSends(l)
    <3>1. Len(errCh') = Len(errCh) + 1
      BY <2>1, AppendProperties DEF LoopSends, TypeOK, ErrKinds
    <3> QED BY <1>2, <1>5, <2>1, <3>1 DEF LoopSends, LoopGoes
  <2>2. CASE LoopFails(l) \/ LoopStops(l)
    <3>1. /\ loop[l] = "accept" /\ UNCHANGED errCh
          /\ \E to \in {"exit", "send-failed", "send-closed"} :
                loop' = [loop EXCEPT ![l] = to]
      BY <2>2 DEF LoopFails, LoopStops, LoopGoes
    <3>2. CASE loop' = [loop EXCEPT ![l] = "exit"]
      <4>1. Len(errCh') = Len(errCh) /\ loop[l] # "exit"
        BY <3>1
      <4>2. Len(errCh') <= Len(errCh) + 1 /\ Len(errCh') \in Nat
        BY <1>2, <4>1
      <4> QED BY <1>5, <3>2, <4>1, <4>2
    <3>3. CASE loop' # [loop EXCEPT ![l] = "exit"]
      <4>1. PICK to : to # "exit" /\ loop' = [loop EXCEPT ![l] = to]
        BY <3>1, <3>3
      <4> QED BY <1>4, <3>1, <4>1
    <3> QED BY <3>2, <3>3
  <2> QED BY <1>7, <2>1, <2>2 DEF LoopStep
<1>8. CASE SelectError
  <2>1. Len(errCh') <= Len(errCh) /\ Len(errCh') \in Nat /\ UNCHANGED loop
    BY <1>8 DEF SelectError, TypeOK
  <2> QED BY <1>1, <1>2, <2>1 DEF SendInv, Ended
<1>9. ASSUME NEW c \in Conns, ConnStep(c) PROVE SendInv'
  <2> InboundOf[c] \in Listeners
    BY ListenersFacts
  <2>1. CASE Accept(c) \/ Admit(c) \/ Reject(c) \/ Spawn(c)
    BY <1>4, <2>1 DEF Accept, Admit, Reject, Spawn, LoopGoes
  <2> QED BY <1>3, <1>9, <2>1
          DEF ConnStep, Begin, Establish, SetupFails, PeerCloses, CutOff, End,
              ReleaseSlot, HandlerDone
<1> QED BY <1>3, <1>6, <1>7, <1>8, <1>9
        DEF Next, CallerCancels, MainStep, ListenFails, CloseNext, SelectDone,
            CloseDone, ShutdownBegins, ShutdownReturns, WaitLoops, Drained,
            GraceElapses, MainGoes, ReporterExits, Terminated, vars

\* No loop ever blocks on errCh, for any number of inbounds (service.go:92).
THEOREM SendsDoNotBlock == Spec => []SendNeverBlocks
<1>1. Init => SendInv
  <2> HAVE Init
  <2>1. Ended = {} /\ Len(errCh) = 0
    BY DEF Init, Ended
  <2> QED BY <2>1, FS_EmptySet DEF SendInv
<1>2. TypeOK /\ SendInv => SendNeverBlocks
  <2> SUFFICES ASSUME TypeOK, SendInv, NEW l \in Listeners, loop[l] # "exit"
               PROVE  Len(errCh) < ErrChCap
    BY DEF SendNeverBlocks
  <2>1. /\ IsFiniteSet(Listeners \ {l})
        /\ Cardinality(Listeners \ {l}) = N
    <3>1. Cardinality(Listeners \ {l}) = (N + 1) - 1
      BY ListenersFacts, RemoveOne
    <3> QED BY <3>1, ListenersFacts, RemoveOne
  <2>2. Ended \subseteq Listeners \ {l}
    BY DEF Ended
  <2>3. Cardinality(Ended) <= N /\ Cardinality(Ended) \in Nat
    BY <2>1, <2>2, FS_Subset, FS_CardinalityType
  <2> QED BY <2>3 DEF SendInv, ErrChCap, TypeOK
<1> QED BY TypeCorrect, PhaseCorrect, SendInvNext, <1>1, <1>2, PTL DEF Spec

-----------------------------------------------------------------------------
(* What an accept loop has in hand *)

\* A loop that admits or spawns has one connection in hand, any other none.
HandInv ==
    /\ \A l \in Listeners :
        /\ loop[l] = "admit" => InHand(l, "accepted") # {}
        /\ loop[l] = "spawn" => InHand(l, "admitted") # {}
    /\ \A c \in Conns :
        /\ conn[c] = "accepted" => loop[InboundOf[c]] = "admit"
        /\ conn[c] = "admitted" => loop[InboundOf[c]] = "spawn"
    /\ \A c, d \in Conns :
        (/\ conn[c] \in {"accepted", "admitted"} /\ conn[d] \in {"accepted", "admitted"}
         /\ InboundOf[c] = InboundOf[d]) => c = d

\* A loop without a connection in hand goes where it has none either.
LEMMA HandUntouched ==
    ASSUME TypeOK, HandInv, UNCHANGED conn,
           \A l \in Listeners : \/ loop'[l] = loop[l]
                                \/ /\ loop[l] \notin {"admit", "spawn"}
                                   /\ loop'[l] \notin {"admit", "spawn"}
    PROVE  HandInv'
<1>1. \A l \in Listeners : \A place : InHand(l, place)' = InHand(l, place)
  BY DEF InHand
<1>2. \A c \in Conns : InboundOf[c] \in Listeners
  BY ListenersFacts
<1> QED BY <1>1, <1>2 DEF HandInv

LEMMA HandInvNext == TypeOK /\ PhaseInv /\ HandInv /\ [Next]_vars => HandInv'
<1> SUFFICES ASSUME TypeOK, PhaseInv, HandInv, [Next]_vars PROVE HandInv'
  OBVIOUS
<1>1. CASE UNCHANGED <<loop, conn>>
  BY <1>1, HandUntouched
<1>2. ASSUME NEW l \in Listeners, LoopStep(l) \/ Listen(l) PROVE HandInv'
  <2>1. /\ UNCHANGED conn /\ loop[l] \notin {"admit", "spawn"}
        /\ \E to \in LoopStates \ {"admit", "spawn"} : loop' = [loop EXCEPT ![l] = to]
    BY <1>2 DEF LoopStep, LoopFails, LoopStops, LoopSends, LoopGoes, Listen, NextToListen,
                PhaseInv, LoopPerListener, LoopStates
  <2>2. \A k \in Listeners : \/ loop'[k] = loop[k]
                             \/ /\ loop[k] \notin {"admit", "spawn"}
                                /\ loop'[k] \notin {"admit", "spawn"}
    BY <2>1 DEF TypeOK
  <2> QED BY <2>1, <2>2, HandUntouched
<1>3. ASSUME NEW c \in Conns, ConnStep(c) PROVE HandInv'
  <2> DEFINE i == InboundOf[c]
  <2>0. \A d \in Conns : InboundOf[d] \in Listeners
    BY ListenersFacts
  <2>1. CASE Accept(c)
    <3>1. loop[i] = "accept" /\ conn[c] = "new"
          /\ loop' = [loop EXCEPT ![i] = "admit"] /\ conn' = [conn EXCEPT ![c] = "accepted"]
      BY <2>1 DEF Accept, LoopGoes, ConnGoes
    <3> QED BY <2>0, <3>1 DEF HandInv, InHand, TypeOK
  <2>2. CASE Admit(c)
    <3>1. loop[i] = "admit" /\ conn[c] = "accepted"
          /\ loop' = [loop EXCEPT ![i] = "spawn"] /\ conn' = [conn EXCEPT ![c] = "admitted"]
      BY <2>2 DEF Admit, LoopGoes, ConnGoes
    <3> QED BY <2>0, <3>1 DEF HandInv, InHand, TypeOK
  <2>3. CASE Reject(c)
    <3>1. loop[i] = "admit" /\ conn[c] = "accepted"
          /\ loop' = [loop EXCEPT ![i] = "accept"] /\ conn' = [conn EXCEPT ![c] = "rejected"]
      BY <2>3 DEF Reject, LoopGoes, ConnGoes
    <3> QED BY <2>0, <3>1 DEF HandInv, InHand, TypeOK
  <2>4. CASE Spawn(c)
    <3>1. loop[i] = "spawn" /\ conn[c] = "admitted"
          /\ loop' = [loop EXCEPT ![i] = "accept"] /\ conn' = [conn EXCEPT ![c] = "spawned"]
      BY <2>4 DEF Spawn, LoopGoes, ConnGoes
    <3> QED BY <2>0, <3>1 DEF HandInv, InHand, TypeOK
  <2>5. CASE ~(Accept(c) \/ Admit(c) \/ Reject(c) \/ Spawn(c))
    <3>1. UNCHANGED loop /\ conn[c] \notin {"accepted", "admitted"}
          /\ \E to \in ConnStates \ {"accepted", "admitted"} : conn' = [conn EXCEPT ![c] = to]
      BY <1>3, <2>5 DEF ConnStep, Begin, Establish, SetupFails, PeerCloses, CutOff, End,
                        ReleaseSlot, HandlerDone, ConnGoes, ConnStates
    <3> QED BY <2>0, <3>1 DEF HandInv, InHand, TypeOK
  <2> QED BY <2>1, <2>2, <2>3, <2>4, <2>5
<1> QED BY <1>1, <1>2, <1>3
        DEF Next, CallerCancels, MainStep, ListenFails, CloseNext, SelectDone, SelectError,
            CloseDone, ShutdownBegins, ShutdownReturns, WaitLoops, Drained, GraceElapses,
            MainGoes, ReporterExits, Terminated, vars

THEOREM HandCorrect == Spec => []HandInv
<1>1. Init => HandInv
  BY ListenersFacts DEF Init, HandInv
<1> QED BY TypeCorrect, PhaseCorrect, HandInvNext, <1>1, PTL DEF Spec

\* When Run starts to wait for the handlers, and ever after, its listeners are
\* closed, its goroutines have ended, and no connection was dropped between a
\* loop and its handler (service.go:158-166, 224-240).
THEOREM LoopsJoinedFirst == Spec => []LoopsAreJoined
<1>1. PhaseInv /\ HandInv => LoopsAreJoined
  <2> SUFFICES ASSUME PhaseInv, HandInv, main \in {"drain", "returned"}
               PROVE  /\ \A l \in Listeners : listener[l] # "open" /\ loop[l] \in {"none", "exit"}
                      /\ reporter # "run"
                      /\ \A c \in Conns : conn[c] \notin {"accepted", "admitted"}
    BY DEF LoopsAreJoined
  <2>1. /\ \A l \in Listeners : listener[l] # "open" /\ loop[l] \in {"none", "exit"}
        /\ reporter # "run"
    BY DEF PhaseInv, AllClosed, AllJoined, Joined
  <2>2. \A c \in Conns : conn[c] \notin {"accepted", "admitted"}
    BY <2>1, ListenersFacts DEF HandInv
  <2> QED BY <2>1, <2>2
<1> QED BY PhaseCorrect, HandCorrect, <1>1, PTL

\* Whatever wg.Wait() still waits for can move on, so that only a goroutine
\* which is not scheduled could keep Run from returning (service.go:158-165).
THEOREM WaitNeverSticks == Spec => []WaitIsNeverStuck
<1>1. TypeOK /\ PhaseInv /\ HandInv /\ SendNeverBlocks => WaitIsNeverStuck
  <2> SUFFICES ASSUME TypeOK, PhaseInv, HandInv, main = "wait", NEW l \in Listeners
               PROVE  /\ loop[l] = "accept" => listener[l] = "closed"
                      /\ loop[l] = "admit" => InHand(l, "accepted") # {}
                      /\ loop[l] = "spawn" => InHand(l, "admitted") # {}
    BY DEF WaitIsNeverStuck
  <2>1. loop[l] = "accept" => listener[l] = "closed"
    BY DEF PhaseInv, LoopPerListener, AllClosed, TypeOK
  <2> QED BY <2>1 DEF HandInv
<1> QED BY TypeCorrect, PhaseCorrect, HandCorrect, SendsDoNotBlock, <1>1, PTL

\* Rank falls whenever a loop whose listener is not open moves.
Rank(place) == CASE place = "admit" -> 4
                 [] place = "spawn" -> 3
                 [] place = "accept" -> 2
                 [] place \in {"send-failed", "send-closed"} -> 1
                 [] OTHER -> 0

\* Once its listener is closed a loop only comes nearer to its end, by one of at
\* most four steps (service.go:213-240): with WaitNeverSticks, the safety half of
\* the promise that Run returns.
THEOREM ClosedLoopsComeDown ==
    Spec => [][\A l \in Listeners : listener[l] = "closed" =>
                loop'[l] = loop[l] \/ Rank(loop'[l]) < Rank(loop[l])]_vars
<1>1. TypeOK /\ PhaseInv /\ [Next]_vars =>
        [\A l \in Listeners : listener[l] = "closed" =>
                loop'[l] = loop[l] \/ Rank(loop'[l]) < Rank(loop[l])]_vars
  <2> SUFFICES ASSUME TypeOK, PhaseInv, Next, NEW l \in Listeners, listener[l] = "closed",
                      loop'[l] # loop[l]
               PROVE  Rank(loop'[l]) < Rank(loop[l])
    OBVIOUS
  <2>1. ASSUME NEW k \in Listeners, LoopStep(k) \/ Listen(k)
        PROVE  Rank(loop'[l]) < Rank(loop[l])
    <3>1. CASE LoopStep(k)
      <4>1. \/ loop[l] = "accept" /\ loop'[l] \in {"send-failed", "send-closed", "exit"}
            \/ loop[l] \in {"send-failed", "send-closed"} /\ loop'[l] = "exit"
        BY <3>1 DEF LoopStep, LoopFails, LoopStops, LoopSends, LoopGoes, TypeOK
      <4> QED BY <4>1 DEF Rank
    <3>2. CASE Listen(k)
      BY <3>2 DEF Listen, NextToListen, TypeOK
    <3> QED BY <2>1, <3>1, <3>2
  <2>2. ASSUME NEW c \in Conns, ConnStep(c) PROVE Rank(loop'[l]) < Rank(loop[l])
    <3>1. InboundOf[c] \in Listeners
      BY ListenersFacts
    <3>2. ~Accept(c) \/ InboundOf[c] # l
      BY DEF Accept
    <3>3. \/ loop[l] = "admit" /\ loop'[l] \in {"spawn", "accept"}
          \/ loop[l] = "spawn" /\ loop'[l] = "accept"
      BY <2>2, <3>1, <3>2
         DEF ConnStep, Accept, Admit, Reject, Spawn, LoopGoes, Begin, Establish, SetupFails,
             PeerCloses, CutOff, End, ReleaseSlot, HandlerDone, TypeOK
    <3> QED BY <3>3 DEF Rank
  <2> QED BY <2>1, <2>2
          DEF Next, CallerCancels, MainStep, ListenFails, CloseNext, SelectDone, SelectError,
              CloseDone, ShutdownBegins, ShutdownReturns, WaitLoops, Drained, GraceElapses,
              MainGoes, ReporterExits, Terminated, vars
<1> QED BY TypeCorrect, PhaseCorrect, <1>1, PTL DEF Spec

-----------------------------------------------------------------------------
(* Counters *)

Counted(S, f, A) == {d \in S : f[d] \in A}

\* What a move of one connection contributes to the count of the states in A.
Delta(from, to, A) ==
    IF from \in A THEN (IF to \in A THEN 0 ELSE -1)
                  ELSE (IF to \in A THEN 1 ELSE 0)

\* When one connection c moves, the number of connections whose state is in A
\* changes by what c's move contributes.
LEMMA CountMove ==
    ASSUME NEW S, IsFiniteSet(S), NEW f, NEW g, NEW A, NEW c,
           \A d \in S : d # c => g[d] = f[d]
    PROVE  /\ Cardinality(Counted(S, f, A)) \in Nat
           /\ Cardinality(Counted(S, g, A)) =
                IF c \in S THEN Cardinality(Counted(S, f, A)) + Delta(f[c], g[c], A)
                           ELSE Cardinality(Counted(S, f, A))
<1>1. IsFiniteSet(Counted(S, f, A)) /\ Cardinality(Counted(S, f, A)) \in Nat
  BY FS_Subset, FS_CardinalityType DEF Counted
<1>2. CASE c \notin S \/ (f[c] \in A <=> g[c] \in A)
  <2>1. Counted(S, g, A) = Counted(S, f, A)
    BY <1>2 DEF Counted
  <2>2. c \in S => Delta(f[c], g[c], A) = 0
    BY <1>2 DEF Delta
  <2> QED BY <1>1, <2>1, <2>2
<1>3. CASE c \in S /\ f[c] \notin A /\ g[c] \in A
  <2>1. Counted(S, g, A) = Counted(S, f, A) \cup {c} /\ c \notin Counted(S, f, A)
    BY <1>3 DEF Counted
  <2>2. Cardinality(Counted(S, g, A)) = Cardinality(Counted(S, f, A)) + 1
    BY <1>1, <2>1, FS_AddElement
  <2> QED BY <1>1, <1>3, <2>2 DEF Delta
<1>4. CASE c \in S /\ f[c] \in A /\ g[c] \notin A
  <2>1. Counted(S, g, A) = Counted(S, f, A) \ {c} /\ c \in Counted(S, f, A)
    BY <1>4 DEF Counted
  <2>2. Cardinality(Counted(S, g, A)) = Cardinality(Counted(S, f, A)) - 1
    BY <1>1, <2>1, RemoveOne
  <2> QED BY <1>1, <1>4, <2>2 DEF Delta
<1> QED BY <1>2, <1>3, <1>4, <1>1

\* What connections.Wait, the semaphores and the metrics count.
CountInv ==
    /\ SlotAccounting
    /\ \A i \in Inbounds : Limited(i) => sem[i] <= MaxConnections[i]
    /\ connections = Cardinality(Handlers)
    /\ MetricsAccount

ActiveStates == {"setup", "relaying"}
TotalStates  == {"setup", "relaying", "closed", "released", "gone"}
OfInbound(i) == {c \in Conns : InboundOf[c] = i}

\* The counted sets of Service, in the form CountMove speaks of.
LEMMA CountedSets ==
    /\ \A i : Holding(i) = Counted(OfInbound(i), conn, SlotStates)
    /\ Handlers = Counted(Conns, conn, HandlerStates)
    /\ {c \in Conns : conn[c] \in {"setup", "relaying"}}
            = Counted(Conns, conn, ActiveStates)
    /\ {c \in Conns : conn[c] \in {"setup", "relaying", "closed", "released", "gone"}}
            = Counted(Conns, conn, TotalStates)
    /\ {c \in Conns : conn[c] \in {"rejected"}}
            = Counted(Conns, conn, {"rejected"})
BY DEF Holding, Handlers, Counted, OfInbound, ActiveStates, TotalStates

\* The size of each counted set when the connections are as f says.
NSlots(f, i) == Cardinality(Counted(OfInbound(i), f, SlotStates))
NHandlers(f) == Cardinality(Counted(Conns, f, HandlerStates))
NActive(f)   == Cardinality(Counted(Conns, f, ActiveStates))
NTotal(f)    == Cardinality(Counted(Conns, f, TotalStates))
NRejected(f) == Cardinality(Counted(Conns, f, {"rejected"}))

\* CountInv in these terms.
Counts(f, s, w, m) ==
    /\ \A i \in Inbounds : s[i] = IF Limited(i) THEN NSlots(f, i) ELSE 0
    /\ \A i \in Inbounds : Limited(i) => s[i] <= MaxConnections[i]
    /\ w = NHandlers(f)
    /\ m.active = NActive(f)
    /\ m.total = NTotal(f)
    /\ m.rejected = NRejected(f)

LEMMA CountInvIsCounts == CountInv <=> Counts(conn, sem, connections, metrics)
BY CountedSets DEF CountInv, SlotAccounting, MetricsAccount, Counts,
   NSlots, NHandlers, NActive, NTotal, NRejected

LEMMA CountInvInit == Init => CountInv
<1> HAVE Init
<1>1. ASSUME NEW S \in SUBSET Conns,
             NEW A \in {SlotStates, HandlerStates, ActiveStates, TotalStates,
                        {"rejected"}}
      PROVE  Cardinality(Counted(S, conn, A)) = 0
  <2>1. "new" \notin A
    BY DEF SlotStates, HandlerStates, ActiveStates, TotalStates
  <2>2. Counted(S, conn, A) = {}
    BY <2>1 DEF Init, Counted
  <2> QED BY <2>2, FS_EmptySet
<1>2. \A i : OfInbound(i) \in SUBSET Conns
  BY DEF OfInbound
<1>3. /\ \A i : NSlots(conn, i) = 0
      /\ NHandlers(conn) = 0
      /\ NActive(conn) = 0
      /\ NTotal(conn) = 0
      /\ NRejected(conn) = 0
  <2>1. Conns \in SUBSET Conns
    OBVIOUS
  <2> QED BY <1>1, <1>2, <2>1 DEF NSlots, NHandlers, NActive, NTotal, NRejected
<1> QED BY <1>3, CountInvIsCounts DEF Init, Counts

\* How the counts change when c goes from one state to another.
LEMMA MoveEffects ==
    ASSUME TypeOK, NEW c \in Conns, NEW from, NEW to \in ConnStates,
           ConnGoes(c, from, to)
    PROVE  /\ \A i \in Inbounds :
                /\ NSlots(conn, i) \in Nat
                /\ NSlots(conn', i) = IF i = InboundOf[c]
                                        THEN NSlots(conn, i) + Delta(from, to, SlotStates)
                                        ELSE NSlots(conn, i)
           /\ NHandlers(conn') = NHandlers(conn) + Delta(from, to, HandlerStates)
           /\ NActive(conn') = NActive(conn) + Delta(from, to, ActiveStates)
           /\ NTotal(conn') = NTotal(conn) + Delta(from, to, TotalStates)
           /\ NRejected(conn') = NRejected(conn) + Delta(from, to, {"rejected"})
<1>1. /\ \A d \in Conns : d # c => conn'[d] = conn[d]
      /\ conn[c] = from
      /\ conn'[c] = to
  BY DEF ConnGoes, TypeOK
<1>2. ASSUME NEW S \in SUBSET Conns, NEW A
      PROVE  /\ Cardinality(Counted(S, conn, A)) \in Nat
             /\ Cardinality(Counted(S, conn', A)) =
                    IF c \in S THEN Cardinality(Counted(S, conn, A)) + Delta(from, to, A)
                               ELSE Cardinality(Counted(S, conn, A))
  <2>1. IsFiniteSet(S)
    BY FS_Subset
  <2>2. \A d \in S : d # c => conn'[d] = conn[d]
    BY <1>1
  <2>3. conn[c] = from /\ conn'[c] = to
    BY <1>1
  <2> QED BY <2>1, <2>2, <2>3, CountMove
<1>3. \A i \in Inbounds : /\ OfInbound(i) \in SUBSET Conns
                          /\ (c \in OfInbound(i)) <=> (i = InboundOf[c])
  BY DEF OfInbound
<1>4. Conns \in SUBSET Conns
  OBVIOUS
<1>5. \A i \in Inbounds :
        /\ NSlots(conn, i) \in Nat
        /\ NSlots(conn', i) = IF i = InboundOf[c]
                                THEN NSlots(conn, i) + Delta(from, to, SlotStates)
                                ELSE NSlots(conn, i)
  BY <1>2, <1>3 DEF NSlots
<1> QED BY <1>2, <1>4, <1>5 DEF NHandlers, NActive, NTotal, NRejected

\* MoveEffects with the five contributions evaluated.
Moved(c, slots, handlers, active, total, rejected) ==
    /\ \A i \in Inbounds :
        /\ NSlots(conn, i) \in Nat
        /\ NSlots(conn', i) = IF i = InboundOf[c] THEN NSlots(conn, i) + slots
                                                  ELSE NSlots(conn, i)
    /\ NHandlers(conn') = NHandlers(conn) + handlers
    /\ NActive(conn') = NActive(conn) + active
    /\ NTotal(conn') = NTotal(conn) + total
    /\ NRejected(conn') = NRejected(conn) + rejected

LEMMA MoveTable ==
    ASSUME TypeOK, NEW c \in Conns
    PROVE  /\ ConnGoes(c, "new", "accepted")       => Moved(c, 0, 0, 0, 0, 0)
           /\ ConnGoes(c, "accepted", "admitted")  => Moved(c, 1, 0, 0, 0, 0)
           /\ ConnGoes(c, "accepted", "rejected")  => Moved(c, 0, 0, 0, 0, 1)
           /\ ConnGoes(c, "admitted", "spawned")   => Moved(c, 0, 1, 0, 0, 0)
           /\ ConnGoes(c, "spawned", "setup")      => Moved(c, 0, 0, 1, 1, 0)
           /\ ConnGoes(c, "setup", "relaying")     => Moved(c, 0, 0, 0, 0, 0)
           /\ ConnGoes(c, "setup", "closed")       => Moved(c, 0, 0, -1, 0, 0)
           /\ ConnGoes(c, "relaying", "closed")    => Moved(c, 0, 0, -1, 0, 0)
           /\ ConnGoes(c, "closed", "released")    => Moved(c, -1, 0, 0, 0, 0)
           /\ ConnGoes(c, "released", "gone")      => Moved(c, 0, -1, 0, 0, 0)
<1>1. ASSUME NEW from, NEW to \in ConnStates, ConnGoes(c, from, to)
      PROVE  Moved(c, Delta(from, to, SlotStates), Delta(from, to, HandlerStates),
                      Delta(from, to, ActiveStates), Delta(from, to, TotalStates),
                      Delta(from, to, {"rejected"}))
  BY <1>1, MoveEffects DEF Moved
<1> USE DEF Delta, SlotStates, HandlerStates, ActiveStates, TotalStates, ConnStates
<1>2. ConnGoes(c, "new", "accepted") => Moved(c, 0, 0, 0, 0, 0)
  BY <1>1, "accepted" \in ConnStates
<1>3. ConnGoes(c, "accepted", "admitted") => Moved(c, 1, 0, 0, 0, 0)
  BY <1>1, "admitted" \in ConnStates
<1>4. ConnGoes(c, "accepted", "rejected") => Moved(c, 0, 0, 0, 0, 1)
  BY <1>1, "rejected" \in ConnStates
<1>5. ConnGoes(c, "admitted", "spawned") => Moved(c, 0, 1, 0, 0, 0)
  BY <1>1, "spawned" \in ConnStates
<1>6. ConnGoes(c, "spawned", "setup") => Moved(c, 0, 0, 1, 1, 0)
  BY <1>1, "setup" \in ConnStates
<1>7. ConnGoes(c, "setup", "relaying") => Moved(c, 0, 0, 0, 0, 0)
  BY <1>1, "relaying" \in ConnStates
<1>8. ConnGoes(c, "setup", "closed") => Moved(c, 0, 0, -1, 0, 0)
  BY <1>1, "closed" \in ConnStates
<1>9. ConnGoes(c, "relaying", "closed") => Moved(c, 0, 0, -1, 0, 0)
  BY <1>1, "closed" \in ConnStates
<1>10. ConnGoes(c, "closed", "released") => Moved(c, -1, 0, 0, 0, 0)
  BY <1>1, "released" \in ConnStates
<1>11. ConnGoes(c, "released", "gone") => Moved(c, 0, -1, 0, 0, 0)
  BY <1>1, "gone" \in ConnStates
<1> QED BY <1>2, <1>3, <1>4, <1>5, <1>6, <1>7, <1>8, <1>9, <1>10, <1>11

\* The counters follow every step of every connection.
LEMMA CountInvNext == TypeOK /\ CountInv /\ [Next]_vars => CountInv'
<1> SUFFICES ASSUME TypeOK, CountInv, [Next]_vars
             PROVE  Counts(conn', sem', connections', metrics')
  BY CountedSets DEF CountInv, SlotAccounting, MetricsAccount, Counts, Holding,
     Handlers, Counted, OfInbound, ActiveStates, TotalStates, NSlots, NHandlers,
     NActive, NTotal, NRejected
<1>0. Counts(conn, sem, connections, metrics)
  BY CountInvIsCounts
<1>T. /\ connections \in Int /\ sem \in [Inbounds -> Int]
      /\ metrics.active \in Int /\ metrics.total \in Int /\ metrics.rejected \in Int
  BY DEF TypeOK, MetricsType
<1>1. CASE UNCHANGED ConnVars
  BY <1>0, <1>1 DEF ConnVars, Counts
<1>2. ASSUME NEW c \in Conns, ConnStep(c)
      PROVE  Counts(conn', sem', connections', metrics')
  <2> DEFINE k == InboundOf[c]
  <2>0. k \in Inbounds
    OBVIOUS
  <2> USE DEF Counts, Moved
  <2>1. CASE Accept(c)
    <3>1. ConnGoes(c, "new", "accepted") /\ UNCHANGED <<sem, connections, metrics>>
      BY <2>1 DEF Accept
    <3>2. Moved(c, 0, 0, 0, 0, 0)
      BY <3>1, MoveTable
    <3> QED BY <1>0, <1>T, <3>1, <3>2
  <2>2. CASE Admit(c)
    <3>1. /\ ConnGoes(c, "accepted", "admitted")
          /\ sem' = [sem EXCEPT ![k] = IF Limited(k) THEN @ + 1 ELSE @]
          /\ Limited(k) => sem[k] < MaxConnections[k]
          /\ UNCHANGED <<connections, metrics>>
      BY <2>2 DEF Admit
    <3>2. Moved(c, 1, 0, 0, 0, 0)
      BY <3>1, MoveTable
    <3> QED BY <1>0, <1>T, <2>0, <3>1, <3>2
  <2>3. CASE Reject(c)
    <3>1. /\ ConnGoes(c, "accepted", "rejected")
          /\ metrics'.rejected = metrics.rejected + 1
          /\ metrics'.active = metrics.active
          /\ metrics'.total = metrics.total
          /\ UNCHANGED <<sem, connections>>
      BY <2>3 DEF Reject, TypeOK, MetricsType
    <3>2. Moved(c, 0, 0, 0, 0, 1)
      BY <3>1, MoveTable
    <3> QED BY <1>0, <1>T, <3>1, <3>2
  <2>4. CASE Spawn(c)
    <3>1. /\ ConnGoes(c, "admitted", "spawned")
          /\ connections' = connections + 1
          /\ UNCHANGED <<sem, metrics>>
      BY <2>4 DEF Spawn
    <3>2. Moved(c, 0, 1, 0, 0, 0)
      BY <3>1, MoveTable
    <3> QED BY <1>0, <1>T, <3>1, <3>2
  <2>5. CASE Begin(c)
    <3>1. /\ ConnGoes(c, "spawned", "setup")
          /\ metrics'.active = metrics.active + 1
          /\ metrics'.total = metrics.total + 1
          /\ metrics'.rejected = metrics.rejected
          /\ UNCHANGED <<sem, connections>>
      BY <2>5 DEF Begin
    <3>2. Moved(c, 0, 0, 1, 1, 0)
      BY <3>1, MoveTable
    <3> QED BY <1>0, <1>T, <3>1, <3>2
  <2>6. CASE Establish(c)
    <3>1. ConnGoes(c, "setup", "relaying") /\ UNCHANGED <<sem, connections, metrics>>
      BY <2>6 DEF Establish
    <3>2. Moved(c, 0, 0, 0, 0, 0)
      BY <3>1, MoveTable
    <3> QED BY <1>0, <1>T, <3>1, <3>2
  <2>7. ASSUME NEW from \in {"setup", "relaying"}, End(c, from)
        PROVE  Counts(conn', sem', connections', metrics')
    <3>1. /\ ConnGoes(c, from, "closed")
          /\ metrics'.active = metrics.active - 1
          /\ metrics'.total = metrics.total
          /\ metrics'.rejected = metrics.rejected
          /\ UNCHANGED <<sem, connections>>
      BY <2>7 DEF End, TypeOK, MetricsType
    <3>2. Moved(c, 0, 0, -1, 0, 0)
      BY <2>7, <3>1, MoveTable
    <3> QED BY <1>0, <1>T, <3>1, <3>2
  <2>8. CASE ReleaseSlot(c)
    <3>1. /\ ConnGoes(c, "closed", "released")
          /\ sem' = [sem EXCEPT ![k] = IF Limited(k) THEN @ - 1 ELSE @]
          /\ UNCHANGED <<connections, metrics>>
      BY <2>8 DEF ReleaseSlot
    <3>2. Moved(c, -1, 0, 0, 0, 0)
      BY <3>1, MoveTable
    <3> QED BY <1>0, <1>T, <2>0, <3>1, <3>2
  <2>9. CASE HandlerDone(c)
    <3>1. /\ ConnGoes(c, "released", "gone")
          /\ connections' = connections - 1
          /\ UNCHANGED <<sem, metrics>>
      BY <2>9 DEF HandlerDone
    <3>2. Moved(c, 0, -1, 0, 0, 0)
      BY <3>1, MoveTable
    <3> QED BY <1>0, <1>T, <3>1, <3>2
  <2> QED BY <1>2, <2>1, <2>2, <2>3, <2>4, <2>5, <2>6, <2>7, <2>8, <2>9
          DEF ConnStep, SetupFails, PeerCloses, CutOff
<1> QED BY <1>1, <1>2
        DEF Next, ConnVars, CallerCancels, MainStep, Listen, ListenFails,
            CloseNext, SelectDone, SelectError, CloseDone, ShutdownBegins,
            ShutdownReturns, WaitLoops, Drained, GraceElapses, MainGoes,
            LoopStep, LoopFails, LoopStops, LoopSends, ReporterExits,
            Terminated, vars

\* Semaphores, WaitGroup counter and metrics count what they should.
THEOREM CountCorrect == Spec => []CountInv
BY TypeCorrect, CountInvInit, CountInvNext, PTL DEF Spec

\* max_connections is never exceeded, and no slot of a semaphore is leaked or
\* released twice (service.go:224-240).
THEOREM LimitHolds == Spec => []ConnectionLimit
<1>1. CountInv => ConnectionLimit
  BY DEF CountInv, SlotAccounting, ConnectionLimit
<1> QED BY CountCorrect, <1>1, PTL

\* The published counters are exact (metrics.go:53-64).
THEOREM MetricsAreExact == Spec => []MetricsAccount
BY CountCorrect, PTL DEF CountInv

-----------------------------------------------------------------------------
(* No handler survives a clean return *)

LEMMA CleanReturnNext ==
    TypeOK /\ PhaseInv /\ CountInv /\ CleanReturn /\ [Next]_vars => CleanReturn'
<1> SUFFICES ASSUME TypeOK, PhaseInv, CountInv, CleanReturn, [Next]_vars,
                    main' = "returned", ~forced'
             PROVE  Handlers' = {}
  BY DEF CleanReturn
<1>1. CASE Drained
  <2>1. Cardinality(Handlers) = 0 /\ UNCHANGED conn
    BY <1>1 DEF Drained, MainGoes, CountInv
  <2>2. IsFiniteSet(Handlers)
    BY FS_Subset DEF Handlers
  <2>3. Handlers = {}
    BY <2>1, <2>2, FS_EmptySet
  <2> QED BY <2>1, <2>3 DEF Handlers
<1>2. ASSUME main = "returned", UNCHANGED <<conn, forced>> PROVE Handlers' = {}
  BY <1>2 DEF CleanReturn, Handlers
<1>3. ASSUME NEW c \in Conns, ConnStep(c) PROVE Handlers' = {}
  <2>1. main = "returned" /\ ~forced
    BY <1>3 DEF ConnStep, Accept, Admit, Reject, Spawn, Begin, Establish,
                SetupFails, PeerCloses, CutOff, End, ReleaseSlot, HandlerDone
  <2>2. Handlers = {} /\ Joined
    BY <2>1 DEF CleanReturn, PhaseInv, AllJoined
  <2>3. InboundOf[c] \in Listeners
    BY ListenersFacts
  <2>4. ~Spawn(c)
    BY <2>2, <2>3 DEF Joined, Spawn, LoopGoes
  <2>5. \A to : Handlers = {} /\ to \notin HandlerStates
                /\ conn' = [conn EXCEPT ![c] = to] => Handlers' = {}
    BY DEF Handlers, TypeOK
  <2>6. conn[c] \notin HandlerStates
    BY <2>2 DEF Handlers
  <2>7. CASE Accept(c) \/ Admit(c) \/ Reject(c)
    BY <2>2, <2>5, <2>7 DEF Accept, Admit, Reject, ConnGoes, HandlerStates
  <2>8. ~(Begin(c) \/ Establish(c) \/ SetupFails(c) \/ PeerCloses(c) \/ CutOff(c)
          \/ ReleaseSlot(c) \/ HandlerDone(c))
    BY <2>6 DEF Begin, Establish, SetupFails, PeerCloses, CutOff, End,
                ReleaseSlot, HandlerDone, ConnGoes, HandlerStates
  <2> QED BY <1>3, <2>4, <2>7, <2>8 DEF ConnStep
<1>4. CASE GraceElapses
  BY <1>4 DEF GraceElapses
<1>5. ASSUME NEW l \in Listeners, Listen(l) \/ ListenFails(l) \/ CloseNext(l)
      PROVE  FALSE
  BY <1>5 DEF Listen, ListenFails, CloseNext, NextToListen
<1>6. ~(SelectDone \/ SelectError \/ CloseDone \/ ShutdownBegins
        \/ ShutdownReturns \/ WaitLoops)
  BY DEF SelectDone, SelectError, CloseDone, ShutdownBegins, ShutdownReturns,
         WaitLoops, MainGoes
<1>7. CASE CallerCancels \/ ReporterExits \/ Terminated \/ UNCHANGED vars
  BY <1>2, <1>7 DEF CallerCancels, ReporterExits, Terminated, vars
<1>8. ASSUME NEW l \in Listeners, LoopStep(l) PROVE Handlers' = {}
  BY <1>2, <1>8 DEF LoopStep, LoopFails, LoopStops, LoopSends
<1> QED BY <1>1, <1>3, <1>4, <1>5, <1>6, <1>7, <1>8 DEF Next, MainStep

\* A return that did not give up on the grace period leaves no handler behind
\* (service.go:383-394).
THEOREM CleanReturnHolds == Spec => []CleanReturn
<1>1. Init => CleanReturn
  BY DEF Init, CleanReturn
<1> QED BY TypeCorrect, PhaseCorrect, CountCorrect, CleanReturnNext, <1>1, PTL
        DEF Spec

\* Run leaves nothing of its own behind (service.go:98-104, 158-166, 383-394).
THEOREM ShutdownIsComplete == Spec => []NothingRunsAfterReturn
BY LoopsJoinedFirst, CleanReturnHolds, PTL DEF NothingRunsAfterReturn
=============================================================================
