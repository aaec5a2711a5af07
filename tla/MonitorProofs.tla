---------------------------- MODULE MonitorProofs ----------------------------
(***************************************************************************)
(* Proofs about Monitor, for any number of inbounds, of connections and of *)
(* UDP associations, with or without Kboard.                               *)
(***************************************************************************)
EXTENDS Monitor, FiniteSetTheorems, TLAPS

Opening == {"listen", "publish"}
Opened  == {"admin", "publish-admin", "serve", "report", "running"}
Ending  == {"closing", "returned"}

\* The addresses of the inbounds before n, and no others, are published.
Published(n) == addrs = 1..(n - 1) /\ started = n - 1

\* An accept loop that ended by itself has told Run.
LoopsTell(n) == \A i \in 1..(n - 1) : loop[i] # "accepts" => errCh

StartupDone == started = N /\ addrs = Inbounds /\ adminAddr

\* How far Run has come, and that nobody may ask before it is through.
PhaseInv ==
    /\ main \in Opening \cup Opened \cup Ending \cup {"spawn"}
    /\ loop \in [Inbounds -> LoopStates]
    /\ main \in Opening \cup {"spawn"} => next \in Inbounds /\ LoopsTell(next)
    /\ main \in Opening => Published(next)
    /\ main = "spawn" => Published(next + 1)
    /\ main \in Opened => Published(N + 1) /\ LoopsTell(N + 1)
    /\ main \in {"serve", "report", "running"} => adminAddr
    /\ asked # {} \/ call.what # "nothing" =>
            /\ StartupDone
            /\ main \in {"report", "running"} \cup Ending
    /\ call.what # "nothing" =>
            call.ready /\ call.inbounds = Inbounds /\ call.admin

LEMMA PhaseInit == Init => PhaseInv
BY MonitorAssumption
   DEF Init, PhaseInv, Opening, Opened, Ending, Published, LoopsTell, NoCall,
       Inbounds, LoopStates

LEMMA PhaseNext == PhaseInv /\ [Next]_vars => PhaseInv'
<1> SUFFICES ASSUME PhaseInv, [Next]_vars PROVE PhaseInv'
  OBVIOUS
<1> USE MonitorAssumption
    DEF PhaseInv, Opening, Opened, Ending, Published, LoopsTell, StartupDone,
        Inbounds, LoopStates, Goes, handlers
<1>1. CASE Listen
  BY <1>1 DEF Listen
<1>2. CASE Publish
  BY <1>2 DEF Publish
<1>3. CASE Spawn
  <2>1. /\ main = "spawn" /\ main' = (IF next = N THEN "admin" ELSE "listen")
        /\ next' = next + 1 /\ loop' = [loop EXCEPT ![next] = "accepts"]
        /\ UNCHANGED <<addrs, started, adminAddr, errCh, asked, call>>
    BY <1>3 DEF Spawn
  <2>2. \A i \in 1..next : loop'[i] # "accepts" => errCh
    BY <2>1
  <2>3. CASE next = N
    BY <2>1, <2>2, <2>3
  <2>4. CASE next # N
    BY <2>1, <2>2, <2>4
  <2> QED BY <2>3, <2>4
<1>4. CASE ListenAdmin \/ PublishAdmin \/ Serve \/ StartReporter \/ Return
  BY <1>4 DEF ListenAdmin, PublishAdmin, Serve, StartReporter, Return
<1>5. CASE Stop
  BY <1>5 DEF Stop
<1>6. ASSUME NEW i \in Inbounds, AcceptFails(i) \/ LoopStops(i) PROVE PhaseInv'
  <2>1. CASE AcceptFails(i)
    BY <2>1 DEF AcceptFails
  <2>2. CASE LoopStops(i)
    BY <2>2 DEF LoopStops
  <2> QED BY <1>6, <2>1, <2>2
<1>7. ASSUME NEW c \in Conns, HandlerStep(c) PROVE PhaseInv'
  <2>1. UNCHANGED <<run, call>>
    BY <1>7 DEF HandlerStep, Reject, BeginActive, BeginTotal, Fails, Relays,
                CopyCounts, RelayFails, EndsFailed, EndsRelayed, EndsCut, Ends
  <2> QED BY <2>1 DEF run
<1>8. CASE AskReady \/ AskStatus
  <2>1. /\ asked # {} /\ UNCHANGED run
        /\ call'.ready = (started = N) /\ call'.inbounds = addrs
        /\ call'.admin = adminAddr
    BY <1>8 DEF AskReady, AskStatus, Reads, NoCall
  <2> QED BY <2>1 DEF run
<1>9. CASE Load
  <2>1. /\ UNCHANGED run /\ call'.what = call.what /\ call'.ready = call.ready
        /\ call'.inbounds = call.inbounds /\ call'.admin = call.admin
    BY <1>9 DEF Load
  <2> QED BY <2>1 DEF run
<1>10. CASE Terminated \/ UNCHANGED vars
  BY <1>10 DEF Terminated, vars, run
<1> QED BY <1>1, <1>2, <1>3, <1>4, <1>5, <1>6, <1>7, <1>8, <1>9, <1>10
        DEF Next, RunStep, CallStep

\* Whoever asks the node finds its start-up complete (service.go:308-361).
THEOREM AnswersTrue == Spec => []AnswersAreTrue
<1>1. PhaseInv => AnswersAreTrue
  BY MonitorAssumption
     DEF PhaseInv, AnswersAreTrue, StartupDone, Opened, Ending, LoopsTell, Inbounds
<1> QED BY PhaseInit, PhaseNext, <1>1, PTL DEF Spec
-----------------------------------------------------------------------------
(* The counters *)

LEMMA FieldFacts ==
    /\ Len(Fields) = 8
    /\ FieldNames = {"active", "total", "rejected", "transport", "handshake",
                     "proxy", "up", "down"}
    /\ Errors \subseteq FieldNames /\ Copies \subseteq FieldNames
<1>1. Len(Fields) = 8
  BY DEF Fields
<1>2. FieldNames = {Fields[k] : k \in 1..8}
  BY <1>1 DEF FieldNames
<1>3. \A k \in 1..8 : k \in {1, 2, 3, 4, 5, 6, 7, 8}
  OBVIOUS
<1>4. FieldNames = {Fields[k] : k \in {1, 2, 3, 4, 5, 6, 7, 8}}
  BY <1>2, <1>3
<1>5. FieldNames = {"active", "total", "rejected", "transport", "handshake",
                    "proxy", "up", "down"}
  BY <1>4 DEF Fields
<1> QED BY <1>1, <1>5 DEF Errors, Copies

Counted == FieldNames \ {"active"}

Open   == {"half", "begun", "relaying", "failed"}
Active == {c \in Conns : conn[c] \in Open}
Has(f) == {c \in Conns : f \in adds[c]}

\* What a handler has counted where it is: no counter twice.
AddsFit(c) ==
    /\ conn[c] = "new" => adds[c] = {}
    /\ conn[c] = "half" => adds[c] = {"active"}
    /\ conn[c] = "begun" => adds[c] = {"active", "total"}
    /\ conn[c] \in {"relaying", "cut"} =>
            "total" \in adds[c] /\ adds[c] \subseteq {"active", "total"} \cup Copies
    /\ conn[c] \in {"failed", "over"} => "total" \in adds[c]
    /\ conn[c] = "rejected" => adds[c] = {"rejected"}

\* Every counter is the number of those who have counted it; active is the
\* number of handlers between begin and end.
CountInv ==
    /\ conn \in [Conns -> ConnStates]
    /\ adds \in [Conns -> SUBSET FieldNames]
    /\ metrics \in [FieldNames -> Int]
    /\ \A c \in Conns : AddsFit(c)
    /\ metrics["active"] = Cardinality(Active)
    /\ \A f \in Counted : metrics[f] = Cardinality(Has(f))

LEMMA SubsetsFinite ==
    ASSUME NEW S \in SUBSET Conns
    PROVE  IsFiniteSet(S) /\ Cardinality(S) \in Nat
BY FS_Subset, FS_CardinalityType, MonitorAssumption

\* An Add by one that has not counted f yet keeps the sums of all but active.
LEMMA AddKeepsSums ==
    ASSUME CountInv, NEW c \in Conns, NEW f \in FieldNames,
           f \notin adds[c], Adds(c, f)
    PROVE  /\ adds' \in [Conns -> SUBSET FieldNames]
           /\ metrics' \in [FieldNames -> Int]
           /\ metrics'["active"] = metrics["active"] + IF f = "active" THEN 1 ELSE 0
           /\ \A g \in Counted : metrics'[g] = Cardinality(Has(g)')
<1>1. /\ adds' = [adds EXCEPT ![c] = @ \cup {f}]
      /\ metrics' = [metrics EXCEPT ![f] = @ + 1]
  BY DEF Adds
<1>2. adds' \in [Conns -> SUBSET FieldNames] /\ metrics' \in [FieldNames -> Int]
  BY <1>1 DEF CountInv
<1>3. metrics'["active"] = metrics["active"] + IF f = "active" THEN 1 ELSE 0
  BY <1>1, FieldFacts DEF CountInv
<1>4. ASSUME NEW g \in Counted PROVE metrics'[g] = Cardinality(Has(g)')
  <2>1. Has(g) \in SUBSET Conns /\ metrics[g] = Cardinality(Has(g))
    BY <1>4 DEF Has, CountInv
  <2>2. CASE g = f
    <3>1. Has(g)' = Has(g) \cup {c} /\ c \notin Has(g)
      BY <1>1, <2>2 DEF Has, CountInv
    <3>2. Cardinality(Has(g) \cup {c}) = Cardinality(Has(g)) + 1
      BY <2>1, <3>1, SubsetsFinite, FS_AddElement
    <3>3. metrics'[g] = metrics[g] + 1
      BY <1>1, <2>2 DEF CountInv
    <3> QED BY <2>1, <3>1, <3>2, <3>3
  <2>3. CASE g # f
    <3>1. Has(g)' = Has(g)
      BY <1>1, <2>3 DEF Has, CountInv
    <3>2. metrics'[g] = metrics[g]
      BY <1>1, <1>4, <2>3 DEF CountInv, Counted
    <3> QED BY <2>1, <3>1, <3>2
  <2> QED BY <2>2, <2>3
<1> QED BY <1>2, <1>3, <1>4

LEMMA CountInit == Init => CountInv
<1> SUFFICES ASSUME Init PROVE CountInv
  OBVIOUS
<1>1. Active = {} /\ \A f \in Counted : Has(f) = {}
  BY DEF Init, Active, Open, Has
<1>2. metrics \in [FieldNames -> Int] /\ \A f \in FieldNames : metrics[f] = 0
  BY DEF Init, Zeros
<1> QED BY <1>1, <1>2, FS_EmptySet, FieldFacts
        DEF Init, CountInv, Counted, ConnStates, AddsFit

\* A handler that stays on its side of begin and end leaves Active alone.
LEMMA MoveKeepsActive ==
    ASSUME CountInv, NEW c \in Conns, NEW to \in ConnStates,
           conn' = [conn EXCEPT ![c] = to], conn[c] \in Open <=> to \in Open
    PROVE  conn' \in [Conns -> ConnStates] /\ Active' = Active
BY DEF CountInv, Active

\* A handler that counts f for the first time, and may go on.
LEMMA CountStep ==
    ASSUME CountInv, NEW c \in Conns, NEW f \in Counted, NEW to \in ConnStates,
           conn' = [conn EXCEPT ![c] = to], conn[c] \in Open <=> to \in Open,
           f \notin adds[c], Adds(c, f), AddsFit(c)'
    PROVE  CountInv'
<1>1. f \in FieldNames /\ f # "active"
  BY DEF Counted
<1>2. conn' \in [Conns -> ConnStates] /\ Active' = Active
  BY MoveKeepsActive
<1>3. /\ adds' \in [Conns -> SUBSET FieldNames]
      /\ metrics' \in [FieldNames -> Int]
      /\ metrics'["active"] = metrics["active"]
      /\ \A g \in Counted : metrics'[g] = Cardinality(Has(g)')
  <2>1. metrics["active"] \in Int
    BY FieldFacts DEF CountInv
  <2> QED BY <1>1, <2>1, AddKeepsSums
<1>4. ASSUME NEW d \in Conns PROVE AddsFit(d)'
  <2>1. d # c => adds'[d] = adds[d] /\ conn'[d] = conn[d]
    BY DEF Adds, CountInv
  <2> QED BY <2>1 DEF CountInv, AddsFit
<1> QED BY <1>2, <1>3, <1>4 DEF CountInv

LEMMA EndStep ==
    ASSUME CountInv, NEW c \in Conns, NEW from \in {"failed", "relaying"},
           NEW to \in {"over", "cut"}, from = "failed" => to = "over",
           Ends(c, from, to)
    PROVE  CountInv'
<1>1. /\ conn[c] = from /\ conn' = [conn EXCEPT ![c] = to]
      /\ metrics' = [metrics EXCEPT !["active"] = @ - 1] /\ adds' = adds
  BY DEF Ends, HandlerGoes
<1>2. conn' \in [Conns -> ConnStates]
  BY <1>1 DEF CountInv, ConnStates
<1>3. metrics' \in [FieldNames -> Int] /\ metrics'["active"] = metrics["active"] - 1
  BY <1>1, FieldFacts DEF CountInv
<1>4. \A g \in Counted : metrics'[g] = metrics[g] /\ Has(g)' = Has(g)
  BY <1>1, FieldFacts DEF CountInv, Counted, Has
<1>5. Active' = Active \ {c} /\ c \in Active /\ Active \in SUBSET Conns
  BY <1>1 DEF Active, Open, CountInv
<1>6. Cardinality(Active') = Cardinality(Active) - 1
  BY <1>5, SubsetsFinite, FS_RemoveElement
<1>7. ASSUME NEW d \in Conns PROVE AddsFit(d)'
  BY <1>1 DEF AddsFit, CountInv
<1> QED BY <1>1, <1>2, <1>3, <1>4, <1>6, <1>7 DEF CountInv

LEMMA HandlerKeepsCounts ==
    ASSUME CountInv, NEW c \in Conns, HandlerStep(c) PROVE CountInv'
<1> USE FieldFacts DEF HandlerGoes
<1>1. AddsFit(c) /\ conn[c] \in ConnStates /\ adds[c] \subseteq FieldNames
  BY DEF CountInv
<1>2. CASE Reject(c)
  <2>1. /\ conn[c] = "new" /\ conn' = [conn EXCEPT ![c] = "rejected"]
        /\ Adds(c, "rejected") /\ adds[c] = {}
    BY <1>1, <1>2 DEF Reject, AddsFit
  <2>2. AddsFit(c)'
    BY <2>1 DEF AddsFit, Adds, CountInv
  <2> QED BY <2>1, <2>2, CountStep DEF Counted, ConnStates, Open
<1>3. CASE BeginActive(c)
  <2>1. /\ conn[c] = "new" /\ conn' = [conn EXCEPT ![c] = "half"]
        /\ Adds(c, "active") /\ adds[c] = {}
    BY <1>1, <1>3 DEF BeginActive, AddsFit
  <2>2. /\ adds' \in [Conns -> SUBSET FieldNames]
        /\ metrics' \in [FieldNames -> Int]
        /\ metrics'["active"] = metrics["active"] + 1
        /\ \A g \in Counted : metrics'[g] = Cardinality(Has(g)')
    BY <2>1, AddKeepsSums
  <2>3. Active' = Active \cup {c} /\ c \notin Active /\ Active \in SUBSET Conns
    BY <2>1 DEF Active, Open, CountInv
  <2>4. Cardinality(Active') = Cardinality(Active) + 1
    BY <2>3, SubsetsFinite, FS_AddElement
  <2>5. ASSUME NEW d \in Conns PROVE AddsFit(d)'
    BY <2>1 DEF AddsFit, Adds, CountInv
  <2>6. conn' \in [Conns -> ConnStates]
    BY <2>1 DEF CountInv, ConnStates
  <2> QED BY <2>2, <2>4, <2>5, <2>6 DEF CountInv
<1>4. CASE BeginTotal(c)
  <2>1. /\ conn[c] = "half" /\ conn' = [conn EXCEPT ![c] = "begun"]
        /\ Adds(c, "total") /\ adds[c] = {"active"}
    BY <1>1, <1>4 DEF BeginTotal, AddsFit
  <2>2. AddsFit(c)'
    BY <2>1 DEF AddsFit, Adds, CountInv
  <2> QED BY <2>1, <2>2, CountStep DEF Counted, ConnStates, Open
<1>5. CASE Fails(c)
  <2>1. PICK f \in Errors : Adds(c, f)
    BY <1>5 DEF Fails
  <2>2. /\ conn[c] = "begun" /\ conn' = [conn EXCEPT ![c] = "failed"]
        /\ adds[c] = {"active", "total"}
    BY <1>1, <1>5 DEF Fails, AddsFit
  <2>3. AddsFit(c)'
    BY <2>1, <2>2 DEF AddsFit, Adds, CountInv
  <2> QED BY <2>1, <2>2, <2>3, CountStep DEF Counted, ConnStates, Open, Errors
<1>6. CASE Relays(c)
  <2>1. /\ conn[c] = "begun" /\ conn' = [conn EXCEPT ![c] = "relaying"]
        /\ UNCHANGED <<adds, metrics>> /\ adds[c] = {"active", "total"}
    BY <1>1, <1>6 DEF Relays, AddsFit
  <2>2. conn' \in [Conns -> ConnStates] /\ Active' = Active
    BY <2>1, MoveKeepsActive DEF ConnStates, Open
  <2>3. ASSUME NEW d \in Conns PROVE AddsFit(d)'
    BY <2>1 DEF AddsFit, CountInv
  <2>4. \A g \in Counted : Has(g)' = Has(g)
    BY <2>1 DEF Has
  <2> QED BY <2>1, <2>2, <2>3, <2>4 DEF CountInv
<1>7. ASSUME NEW f \in Copies, CopyCounts(c, f) PROVE CountInv'
  <2>1. /\ conn[c] \in {"relaying", "cut"} /\ f \notin adds[c] /\ Adds(c, f)
        /\ conn' = conn
    BY <1>7 DEF CopyCounts
  <2>2. AddsFit(c)'
    BY <1>1, <1>7, <2>1 DEF AddsFit, Adds, CountInv
  <2>3. conn' = [conn EXCEPT ![c] = conn[c]]
    BY <2>1 DEF CountInv
  <2> QED BY <1>1, <1>7, <2>1, <2>2, <2>3, CountStep DEF Counted, Copies
<1>8. CASE RelayFails(c)
  <2>1. /\ conn[c] = "relaying" /\ conn' = [conn EXCEPT ![c] = "failed"]
        /\ Adds(c, "proxy")
    BY <1>8 DEF RelayFails
  <2>2. "proxy" \notin adds[c] /\ "total" \in adds[c]
    BY <1>1, <2>1 DEF AddsFit, Copies
  <2>3. AddsFit(c)'
    BY <2>1, <2>2 DEF AddsFit, Adds, CountInv
  <2> QED BY <2>1, <2>2, <2>3, CountStep DEF Counted, ConnStates, Open
<1>9. CASE EndsFailed(c) \/ EndsRelayed(c) \/ EndsCut(c)
  BY <1>9, EndStep DEF EndsFailed, EndsRelayed, EndsCut
<1> QED BY <1>2, <1>3, <1>4, <1>5, <1>6, <1>7, <1>8, <1>9 DEF HandlerStep

LEMMA CountNext == CountInv /\ [Next]_vars => CountInv'
<1> SUFFICES ASSUME CountInv, [Next]_vars PROVE CountInv'
  OBVIOUS
<1>1. ASSUME NEW c \in Conns, HandlerStep(c) PROVE CountInv'
  BY <1>1, HandlerKeepsCounts
<1>2. ASSUME ~ \E c \in Conns : HandlerStep(c) PROVE CountInv'
  <2>1. UNCHANGED handlers
    BY <1>2 DEF Next, RunStep, CallStep, Listen, Publish, Spawn, ListenAdmin,
                PublishAdmin, Serve, StartReporter, Stop, Return, AcceptFails,
                LoopStops, AskReady, AskStatus, Load, Terminated, vars
  <2> QED BY <2>1 DEF handlers, CountInv, AddsFit, Active, Has
<1> QED BY <1>1, <1>2
-----------------------------------------------------------------------------
(* Snapshots *)

Begun == {c \in Conns : conn[c] \notin {"new", "rejected"}}
Half  == {c \in Conns : conn[c] = "half"}
EndedHas(f) == {c \in call.ended : f \in adds[c]}

Calls ==
    [what : {"nothing", "ready", "status", "alive"}, at : 0..9,
     ready : BOOLEAN, inbounds : SUBSET Inbounds, admin : BOOLEAN,
     seen : [FieldNames -> Nat], ended : SUBSET Conns, half : Nat]

CallFits == call \in Calls

\* A snapshot in progress: active is at most what total and the handlers
\* between their two Adds will give, and what is loaded covers the ended.
SnapInv ==
    /\ CallFits
    /\ call.what \in {"nothing", "ready"} => call.at \in {0, 9}
    /\ call.what \in {"status", "alive"} => call.at # 0
    /\ call.what \in {"status", "alive"} /\ call.at >= 2 =>
            /\ \A c \in call.ended : conn[c] \in {"over", "rejected"}
            /\ call.at = 2 => call.seen["active"] <= Cardinality(Begun)
            /\ call.at >= 3 => call.seen["active"] <= call.seen["total"] + call.half
            /\ \A k \in 2..8 : k < call.at =>
                   call.seen[Fields[k]] >= Cardinality(EndedHas(Fields[k]))

LEMMA FieldsApart ==
    /\ Fields[1] = "active" /\ Fields[2] = "total"
    /\ \A k \in 1..8 : Fields[k] \in FieldNames
    /\ \A k \in 3..8 : Fields[k] \notin {"active", "total"}
    /\ \A k, l \in 1..8 : k # l => Fields[k] # Fields[l]
    /\ \A f \in Counted : \E k \in 2..8 : f = Fields[k]
<1>1. Fields[1] = "active" /\ Fields[2] = "total"
  BY DEF Fields
<1>2. \A k \in 1..8 : Fields[k] \in FieldNames
  BY FieldFacts DEF FieldNames
<1>3. \A k \in 3..8 : k \in {3, 4, 5, 6, 7, 8}
  OBVIOUS
<1>4. \A k \in {3, 4, 5, 6, 7, 8} : Fields[k] \notin {"active", "total"}
  BY DEF Fields
<1>5. \A k \in 1..8 : k \in {1, 2, 3, 4, 5, 6, 7, 8}
  OBVIOUS
<1>6. \A k, l \in {1, 2, 3, 4, 5, 6, 7, 8} : k # l => Fields[k] # Fields[l]
  BY DEF Fields
<1>7. ASSUME NEW f \in Counted PROVE \E k \in 2..8 : f = Fields[k]
  <2>1. PICK k \in 1..8 : f = Fields[k]
    BY <1>7, FieldFacts DEF Counted, FieldNames
  <2>2. k # 1
    BY <1>7, <1>1, <2>1 DEF Counted
  <2> QED BY <2>1, <2>2
<1> QED BY <1>1, <1>2, <1>3, <1>4, <1>5, <1>6, <1>7

\* What the handlers may do to a snapshot in progress.
LEMMA HandlersLeaveEnded ==
    ASSUME CountInv, NEW c \in Conns, HandlerStep(c)
    PROVE  /\ UNCHANGED call
           /\ \A d \in Conns : conn[d] \in {"over", "rejected"} =>
                                  conn'[d] = conn[d] /\ adds'[d] = adds[d]
           /\ Begun \subseteq Begun'
<1> USE DEF CountInv, HandlerGoes, Begun
<1>1. CASE Reject(c) \/ BeginActive(c) \/ BeginTotal(c) \/ Fails(c) \/ RelayFails(c)
  BY <1>1 DEF Reject, BeginActive, BeginTotal, Fails, RelayFails, Adds
<1>2. CASE Relays(c)
  BY <1>2 DEF Relays
<1>3. ASSUME NEW f \in Copies, CopyCounts(c, f)
      PROVE  /\ UNCHANGED call
             /\ \A d \in Conns : conn[d] \in {"over", "rejected"} =>
                                    conn'[d] = conn[d] /\ adds'[d] = adds[d]
             /\ Begun \subseteq Begun'
  BY <1>3 DEF CopyCounts, Adds
<1>4. CASE EndsFailed(c) \/ EndsRelayed(c) \/ EndsCut(c)
  BY <1>4 DEF EndsFailed, EndsRelayed, EndsCut, Ends
<1> QED BY <1>1, <1>2, <1>3, <1>4 DEF HandlerStep

LEMMA HandlerKeepsSnap ==
    ASSUME CountInv, CountInv', SnapInv, NEW c \in Conns, HandlerStep(c)
    PROVE  SnapInv'
<1>1. /\ UNCHANGED call /\ Begun \subseteq Begun'
      /\ \A d \in Conns : conn[d] \in {"over", "rejected"} =>
                             conn'[d] = conn[d] /\ adds'[d] = adds[d]
  BY HandlersLeaveEnded
<1>2. Cardinality(Begun) <= Cardinality(Begun')
  <2>1. IsFiniteSet(Begun') /\ Begun \in SUBSET Begun'
    BY <1>1, SubsetsFinite DEF Begun
  <2> QED BY <2>1, FS_Subset
<1>3. Cardinality(Begun) \in Nat /\ Cardinality(Begun') \in Nat
  BY SubsetsFinite DEF Begun
<1>4. call.seen["active"] \in Nat
  BY FieldFacts DEF SnapInv, CallFits, Calls
<1>5. (\A d \in call.ended : conn[d] \in {"over", "rejected"}) =>
          \A f \in FieldNames : EndedHas(f)' = EndedHas(f)
  BY <1>1 DEF EndedHas, SnapInv, CallFits, Calls
<1>6. \A k \in 2..8 : Fields[k] \in FieldNames
  BY FieldsApart
<1>7. CallFits'
  BY <1>1 DEF SnapInv, CallFits, Calls
<1>8. CASE ~ (call.what \in {"status", "alive"} /\ call.at >= 2)
  BY <1>1, <1>7, <1>8 DEF SnapInv
<1>9. CASE call.what \in {"status", "alive"} /\ call.at >= 2
  <2>1. \A d \in call'.ended : conn'[d] \in {"over", "rejected"}
    BY <1>1, <1>9 DEF SnapInv, CallFits, Calls
  <2>2. call'.at = 2 => call'.seen["active"] <= Cardinality(Begun')
    BY <1>1, <1>2, <1>3, <1>4, <1>9 DEF SnapInv
  <2>3. \A k \in 2..8 : k < call'.at =>
            call'.seen[Fields[k]] >= Cardinality(EndedHas(Fields[k])')
    BY <1>1, <1>5, <1>6, <1>9 DEF SnapInv
  <2> QED BY <1>1, <1>7, <1>9, <2>1, <2>2, <2>3 DEF SnapInv
<1> QED BY <1>8, <1>9

LEMMA LoadKeepsSnap ==
    ASSUME CountInv, SnapInv, Load PROVE SnapInv'
<1> DEFINE f == Fields[call.at]
<1>1. call.at \in 1..8 /\ call.what \in {"status", "alive"}
  BY FieldFacts DEF Load, Idle, SnapInv, CallFits, Calls
<1>2. /\ call'.what = call.what /\ call'.at = call.at + 1
      /\ call'.seen = [call.seen EXCEPT ![f] = metrics[f]]
      /\ call'.ended = IF f = "active"
                       THEN {c \in Conns : conn[c] \in {"over", "rejected"}}
                       ELSE call.ended
      /\ call'.half = IF f = "total" THEN Cardinality(Half) ELSE call.half
      /\ UNCHANGED <<conn, adds, metrics>>
  BY DEF Load, Half, SnapInv, CallFits, Calls, handlers
<1>3. f \in FieldNames
  BY <1>1, FieldsApart
<1>4. /\ IsFiniteSet(Active) /\ Cardinality(Active) \in Nat
      /\ IsFiniteSet(Begun) /\ Cardinality(Begun) \in Nat
      /\ IsFiniteSet(Half) /\ Cardinality(Half) \in Nat
      /\ \A g \in FieldNames : IsFiniteSet(Has(g)) /\ Cardinality(Has(g)) \in Nat
  BY SubsetsFinite DEF Active, Begun, Half, Has
<1>5. metrics[f] \in Nat
  BY <1>3, <1>4 DEF CountInv, Counted
<1>6. CallFits'
  <2>1. call' = [call EXCEPT !.at = call'.at, !.seen = call'.seen,
                             !.ended = call'.ended, !.half = call'.half]
    BY DEF Load, SnapInv, CallFits, Calls
  <2>2. call'.at \in 0..9 /\ call'.half \in Nat
    BY <1>1, <1>2, <1>4 DEF SnapInv, CallFits, Calls
  <2>3. call'.seen \in [FieldNames -> Nat]
    BY <1>2, <1>5 DEF SnapInv, CallFits, Calls
  <2>4. call'.ended \in SUBSET Conns
    BY <1>2 DEF SnapInv, CallFits, Calls
  <2>5. call \in Calls
    BY DEF SnapInv, CallFits, Calls
  <2> QED BY <2>1, <2>2, <2>3, <2>4, <2>5 DEF CallFits, Calls
<1>7. \A c \in call'.ended : conn'[c] \in {"over", "rejected"}
  <2>1. CASE f = "active"
    BY <1>2, <2>1
  <2>2. CASE f # "active"
    <3>1. call.at >= 2
      BY <1>1, <2>2, FieldsApart
    <3> QED BY <1>1, <1>2, <2>2, <3>1 DEF SnapInv
  <2> QED BY <2>1, <2>2
<1>8. \A g \in Counted : Cardinality(EndedHas(g)') <= Cardinality(Has(g))
  <2> SUFFICES ASSUME NEW g \in Counted
               PROVE  Cardinality(EndedHas(g)') <= Cardinality(Has(g))
    OBVIOUS
  <2>1. EndedHas(g)' \in SUBSET Has(g)
    BY <1>2, <1>6 DEF EndedHas, Has, CallFits, Calls
  <2> QED BY <1>4, <2>1, FS_Subset DEF Counted
<1>9. CASE call.at = 1
  <2>1. f = "active" /\ call'.seen["active"] = Cardinality(Active)
    BY <1>2, <1>3, <1>9, FieldsApart DEF CountInv, SnapInv, CallFits, Calls
  <2>2. Active \in SUBSET Begun
    BY DEF Active, Begun, Open
  <2>3. Cardinality(Active) <= Cardinality(Begun) /\ Begun' = Begun
    BY <1>2, <1>4, <2>2, FS_Subset DEF Begun
  <2> QED BY <1>1, <1>2, <1>6, <1>7, <1>9, <2>1, <2>3 DEF SnapInv
<1>10. CASE call.at = 2
  <2>1. f = "total" /\ "total" \in Counted
    BY <1>10, FieldsApart, FieldFacts DEF Counted
  <2>2. /\ call'.seen["total"] = Cardinality(Has("total"))
        /\ call'.seen["active"] = call.seen["active"]
        /\ call'.half = Cardinality(Half)
    BY <1>2, <1>3, <2>1, FieldFacts DEF CountInv, SnapInv, CallFits, Calls
  <2>3. Begun \subseteq Has("total") \cup Half
    BY DEF Begun, Has, Half, CountInv, AddsFit, ConnStates
  <2>4. /\ Cardinality(Begun) <= Cardinality(Has("total") \cup Half)
        /\ Cardinality(Has("total") \cup Half)
              = Cardinality(Has("total")) + Cardinality(Half)
                    - Cardinality(Has("total") \cap Half)
    <3>1. IsFiniteSet(Has("total")) /\ IsFiniteSet(Half)
      BY <1>4, FieldFacts
    <3>2. IsFiniteSet(Has("total") \cup Half)
      BY <3>1, FS_Union
    <3> QED BY <2>3, <3>1, <3>2, FS_Subset, FS_Union
  <2>5. /\ Cardinality(Has("total") \cap Half) \in Nat
        /\ Cardinality(Has("total")) \in Nat /\ Cardinality(Half) \in Nat
    BY SubsetsFinite DEF Has, Half
  <2>6. call.seen["active"] <= Cardinality(Begun) /\ call.seen["active"] \in Nat
    BY <1>1, <1>10, FieldFacts DEF SnapInv, CallFits, Calls
  <2>7. call'.seen["active"] <= call'.seen["total"] + call'.half
    BY <1>4, <2>2, <2>4, <2>5, <2>6
  <2>8. \A k \in 2..8 : k < call'.at =>
            call'.seen[Fields[k]] >= Cardinality(EndedHas(Fields[k])')
    <3>1. \A k \in 2..8 : k < call'.at => k = 2
      BY <1>2, <1>10
    <3>2. Cardinality(EndedHas("total")') \in Nat
      BY <1>6, SubsetsFinite DEF EndedHas, CallFits, Calls
    <3>3. call'.seen["total"] >= Cardinality(EndedHas("total")')
      BY <1>8, <2>1, <2>2, <2>5, <3>2
    <3> QED BY <3>1, <3>3, FieldsApart
  <2> QED BY <1>1, <1>2, <1>6, <1>7, <1>10, <2>7, <2>8 DEF SnapInv
<1>11. CASE call.at \in 3..8
  <2>1. f \in Counted /\ f \notin {"active", "total"}
    BY <1>3, <1>11, FieldsApart DEF Counted
  <2>2. /\ call'.seen["active"] <= call'.seen["total"] + call'.half
        /\ call'.ended = call.ended
    BY <1>1, <1>2, <1>11, <2>1, FieldFacts DEF SnapInv, CallFits, Calls
  <2>3. ASSUME NEW k \in 2..8, k < call'.at
        PROVE  call'.seen[Fields[k]] >= Cardinality(EndedHas(Fields[k])')
    <3>1. CASE k = call.at
      <4>1. call'.seen[f] = Cardinality(Has(f))
        BY <1>2, <1>3, <2>1 DEF CountInv, SnapInv, CallFits, Calls
      <4>2. Cardinality(EndedHas(f)') \in Nat
        BY <1>6, SubsetsFinite DEF EndedHas, CallFits, Calls
      <4> QED BY <1>4, <1>3, <1>8, <2>1, <3>1, <4>1, <4>2
    <3>2. CASE k < call.at
      <4>1. Fields[k] # f /\ Fields[k] \in FieldNames
        BY <1>1, <3>2, FieldsApart
      <4>2. call'.seen[Fields[k]] = call.seen[Fields[k]]
        BY <1>2, <4>1 DEF SnapInv, CallFits, Calls
      <4>3. EndedHas(Fields[k])' = EndedHas(Fields[k])
        BY <1>2, <2>2 DEF EndedHas
      <4> QED BY <1>1, <1>11, <3>2, <4>2, <4>3 DEF SnapInv
    <3> QED BY <1>2, <2>3, <1>1, <3>1, <3>2
  <2> QED BY <1>1, <1>2, <1>6, <1>7, <1>11, <2>2, <2>3 DEF SnapInv
<1> QED BY <1>1, <1>9, <1>10, <1>11

\* The rest of the state of Run is well formed.
RunFits ==
    /\ next \in 1..(N + 1)
    /\ addrs \subseteq Inbounds
    /\ started \in 0..N
    /\ adminAddr \in BOOLEAN /\ errCh \in BOOLEAN
    /\ asked \subseteq {"admin", "reporter"}

LEMMA RunNext == RunFits /\ PhaseInv /\ [Next]_vars => RunFits'
<1> SUFFICES ASSUME RunFits, PhaseInv, [Next]_vars PROVE RunFits'
  OBVIOUS
<1> USE MonitorAssumption DEF RunFits, Inbounds, Goes
<1>1. CASE Publish
  BY <1>1 DEF Publish, PhaseInv, Opening, Published
<1>2. CASE Spawn
  BY <1>2 DEF Spawn, PhaseInv
<1>3. CASE \/ Listen \/ ListenAdmin \/ PublishAdmin \/ Serve \/ StartReporter
           \/ Stop \/ Return
           \/ \E i \in Inbounds : AcceptFails(i) \/ LoopStops(i)
  BY <1>3 DEF Listen, ListenAdmin, PublishAdmin, Serve, StartReporter, Stop,
              Return, AcceptFails, LoopStops
<1>4. CASE (\E c \in Conns : HandlerStep(c)) \/ CallStep \/ Terminated \/ UNCHANGED vars
  <2>1. UNCHANGED run
    BY <1>4 DEF HandlerStep, Reject, BeginActive, BeginTotal, Fails, Relays,
                CopyCounts, RelayFails, EndsFailed, EndsRelayed, EndsCut, Ends,
                CallStep, AskReady, AskStatus, Load, Terminated, vars
  <2> QED BY <2>1 DEF run
<1> QED BY <1>1, <1>2, <1>3, <1>4 DEF Next, RunStep

LEMMA CallUpdate ==
    ASSUME NEW r \in Calls,
           NEW what \in {"ready", "status", "alive"}, NEW at \in 0..9,
           NEW ready \in BOOLEAN, NEW inbounds \in SUBSET Inbounds,
           NEW admin \in BOOLEAN
    PROVE  [r EXCEPT !.what = what, !.at = at, !.ready = ready,
                     !.inbounds = inbounds, !.admin = admin] \in Calls
BY DEF Calls

LEMMA SnapInit == Init => SnapInv
<1>1. Zeros \in [FieldNames -> Nat]
  BY DEF Zeros
<1> QED BY <1>1 DEF Init, SnapInv, CallFits, Calls, NoCall

LEMMA SnapNext ==
    CountInv /\ CountInv' /\ RunFits /\ SnapInv /\ [Next]_vars => SnapInv'
<1> SUFFICES ASSUME CountInv, CountInv', RunFits, SnapInv, [Next]_vars
             PROVE  SnapInv'
  OBVIOUS
<1>1. ASSUME NEW c \in Conns, HandlerStep(c) PROVE SnapInv'
  BY <1>1, HandlerKeepsSnap
<1>2. CASE Load
  BY <1>2, LoadKeepsSnap
<1>3. CASE AskReady \/ AskStatus
  <2>1. PICK what \in {"ready", "status", "alive"}, at \in {1, 9} :
            /\ Reads(what, at)
            /\ at = IF what = "ready" THEN 9 ELSE 1
    BY <1>3, FieldFacts DEF AskReady, AskStatus
  <2>2. NoCall \in Calls
    BY DEF NoCall, Zeros, Calls
  <2>3. PICK ready \in BOOLEAN :
            call' = [NoCall EXCEPT !.what = what, !.at = at, !.ready = ready,
                                   !.inbounds = addrs, !.admin = adminAddr]
    <3>1. (started = N) \in BOOLEAN
      OBVIOUS
    <3> QED BY <2>1, <3>1, Zenon DEF Reads
  <2>4. addrs \in SUBSET Inbounds /\ adminAddr \in BOOLEAN
    BY DEF RunFits
  <2>5. /\ CallFits' /\ call'.what = what /\ call'.at = at
    <3>1. call' \in Calls
      <4>1. at \in 0..9
        OBVIOUS
      <4>2. [NoCall EXCEPT !.what = what, !.at = at, !.ready = ready,
                           !.inbounds = addrs, !.admin = adminAddr] \in Calls
        BY <2>2, <2>4, <4>1, CallUpdate, Zenon
      <4> QED BY <2>3, <4>2, Zenon
    <3>2. call'.what = what /\ call'.at = at
      BY <2>2, <2>3
    <3>3. CallFits'
      BY <3>1 DEF CallFits, Calls
    <3> QED BY <3>2, <3>3
  <2> QED BY <2>1, <2>5 DEF SnapInv
<1>4. CASE RunStep \/ Terminated \/ UNCHANGED vars
  <2>1. UNCHANGED <<handlers, call>>
    BY <1>4 DEF RunStep, Listen, Publish, Spawn, ListenAdmin, PublishAdmin,
                Serve, StartReporter, Stop, Return, AcceptFails, LoopStops,
                Terminated, vars
  <2> QED BY <2>1 DEF handlers, SnapInv, CallFits, Calls, EndedHas, Begun
<1> QED BY <1>1, <1>2, <1>3, <1>4 DEF Next, CallStep

MonitorInv == PhaseInv /\ RunFits /\ CountInv /\ SnapInv

LEMMA MonitorInvariant == Spec => []MonitorInv
<1>1. Init => MonitorInv
  <2>1. Init => RunFits
    <3>1. Init => next \in 1..(N + 1) /\ started \in 0..N
      BY MonitorAssumption DEF Init
    <3>2. Init => addrs \subseteq Inbounds /\ asked \subseteq {"admin", "reporter"}
      BY DEF Init
    <3>3. Init => adminAddr \in BOOLEAN /\ errCh \in BOOLEAN
      BY DEF Init
    <3> QED BY <3>1, <3>2, <3>3 DEF RunFits
  <2> QED BY <2>1, PhaseInit, CountInit, SnapInit DEF MonitorInv
<1>2. MonitorInv /\ [Next]_vars => MonitorInv'
  BY PhaseNext, CountNext, SnapNext, RunNext DEF MonitorInv
<1> QED BY <1>1, <1>2, PTL DEF Spec

\* The state of Run, of the handlers and of a call is well formed, and no
\* counter falls below zero (metrics.go:8-19).
THEOREM TypeCorrect == Spec => []TypeOK
<1>1. ASSUME MonitorInv PROVE TypeOK
  <2>1. main \in MainStates /\ loop \in [Inbounds -> LoopStates]
    BY <1>1 DEF MonitorInv, PhaseInv, Opening, Opened, Ending, MainStates
  <2>2. /\ next \in 1..(N + 1) /\ addrs \subseteq Inbounds /\ started \in 0..N
        /\ adminAddr \in BOOLEAN /\ errCh \in BOOLEAN
        /\ asked \subseteq {"admin", "reporter"}
    BY <1>1 DEF MonitorInv, RunFits
  <2>3. /\ call.what \in {"nothing", "ready", "status", "alive"}
        /\ call.at \in 0..9 /\ call.seen \in [FieldNames -> Nat]
        /\ call.ended \subseteq Conns
    BY <1>1 DEF MonitorInv, SnapInv, CallFits, Calls
  <2>4. \A f \in FieldNames : metrics[f] \in Nat
    <3>1. Cardinality(Active) \in Nat /\ \A f \in Counted : Cardinality(Has(f)) \in Nat
      BY SubsetsFinite DEF Active, Has
    <3> QED BY <1>1, <3>1 DEF MonitorInv, CountInv, Counted
  <2>5. metrics \in [FieldNames -> Nat]
    BY <1>1, <2>4 DEF MonitorInv, CountInv
  <2> QED BY <1>1, <2>1, <2>2, <2>3, <2>5, FieldFacts
          DEF TypeOK, MonitorInv, CountInv
<1> QED BY <1>1, MonitorInvariant, PTL

\* A snapshot accounts for what it does not show as active any more, and hides
\* no negative number (metrics.go:39-64).
THEOREM SnapshotsConsistent == Spec => []SnapshotIsConsistent
<1>1. ASSUME MonitorInv PROVE SnapshotIsConsistent
  <2> SUFFICES ASSUME call.at = 9, call.what \in {"status", "alive"}
               PROVE  /\ \A f \in Counted :
                             call.seen[f] >= Cardinality(EndedHas(f))
                      /\ call.seen["active"] <= call.seen["total"] + call.half
                      /\ Online = call.seen["active"]
    BY FieldFacts DEF SnapshotIsConsistent, Answered, Counted, EndedHas
  <2>1. \A k \in 2..8 : call.seen[Fields[k]] >= Cardinality(EndedHas(Fields[k]))
    BY <1>1 DEF MonitorInv, SnapInv
  <2>2. \A f \in Counted : call.seen[f] >= Cardinality(EndedHas(f))
    BY <2>1, FieldsApart
  <2>3. call.seen["active"] <= call.seen["total"] + call.half
    BY <1>1 DEF MonitorInv, SnapInv
  <2>4. call.seen["active"] \in Nat
    BY <1>1, FieldFacts DEF MonitorInv, SnapInv, CallFits, Calls
  <2> QED BY <2>2, <2>3, <2>4 DEF Online
<1> QED BY <1>1, MonitorInvariant, PTL
=============================================================================
