----------------------- MODULE ReporterScheduleProofs -----------------------
(***************************************************************************)
(* Proofs about ReporterSchedule, for all periods and timeouts.            *)
(***************************************************************************)
EXTENDS ReporterSchedule, TLAPS

LogRequests == {"first logs", "report logs", "flush logs", "final logs"}

LEMMA PeriodsArePositive ==
    /\ Period("report") = ReportInterval /\ Period("flush") = FlushPeriod
    /\ \A t \in Tickers : Period(t) \in Nat /\ Period(t) \in 1..Period(t)
BY DurationAssumption DEF Period, Tickers

LEMMA TypeInit == Init => TypeOK
<1> SUFFICES ASSUME Init PROVE TypeOK
  OBVIOUS
<1>1. left \in [Tickers -> Nat] /\ \A t \in Tickers : left[t] \in 1..Period(t)
  <2>1. left = [t \in Tickers |-> Period(t)]
    BY DEF Init
  <2> QED BY <2>1, PeriodsArePositive
<1>2. tick \in [Tickers -> BOOLEAN] /\ ctxDone \in BOOLEAN
  BY DEF Init
<1>3. at \in Requests \cup {"select", "exit"} /\ age \in 0..Timeout
  <2>1. at = "first users" /\ age = 0
    BY DEF Init
  <2>2. at \in Requests
    BY <2>1 DEF Requests, WithContext, FirstReport
  <2>3. age \in 0..Timeout
    <3>1. age = 0
      BY <2>1
    <3> QED BY <3>1, DurationAssumption
  <2> QED BY <2>2, <2>3
<1>4. sinceDone \in 0..Horizon /\ sinceSync \in 0..Horizon /\ sinceLogs \in 0..Horizon
  <2>1. sinceDone = 0 /\ sinceSync = 0 /\ sinceLogs = 0
    BY DEF Init
  <2> QED BY <2>1, DurationAssumption
<1> QED BY <1>1, <1>2, <1>3, <1>4 DEF TypeOK

\* What time does to the tickers.
LEMMA TickersTurn ==
    ASSUME TypeOK, left' = [t \in Tickers |->
                              IF left[t] = 1 THEN Period(t) ELSE left[t] - 1]
    PROVE  left' \in [Tickers -> Nat] /\ \A t \in Tickers : left'[t] \in 1..Period(t)
<1>1. ASSUME NEW t \in Tickers
      PROVE  left'[t] \in Nat /\ left'[t] \in 1..Period(t)
  <2>1. left'[t] = IF left[t] = 1 THEN Period(t) ELSE left[t] - 1
    OBVIOUS
  <2>2. left[t] \in 1..Period(t) /\ Period(t) \in Nat
    BY PeriodsArePositive DEF TypeOK
  <2> QED BY <2>1, <2>2
<1> QED BY <1>1

LEMMA LaterFits ==
    \A n \in 0..Horizon : Later(n) \in 0..Horizon /\ Later(n) <= n + 1
BY DurationAssumption DEF Later

LEMMA PlacesFollow ==
    \A r \in Requests : AfterRequest(r) \in Requests \cup {"select", "exit"}
BY DEF AfterRequest, Requests, WithContext, FirstReport, Report

LEMMA TypeNext == TypeOK /\ [Next]_vars => TypeOK'
<1> SUFFICES ASSUME TypeOK, [Next]_vars PROVE TypeOK'
  OBVIOUS
<1> USE DurationAssumption DEF clocks
<1>1. CASE Cancel
  BY <1>1 DEF Cancel, TypeOK
<1>2. ASSUME NEW next \in Requests \cup {"select", "exit"}, Enter(next)
      PROVE  /\ at' \in Requests \cup {"select", "exit"} /\ age' \in 0..Timeout
             /\ sinceLogs' \in 0..Horizon /\ sinceSync' \in 0..Horizon
  BY <1>2 DEF Enter, TypeOK
<1>3. CASE RequestEnds
  BY <1>2, <1>3, PlacesFollow DEF RequestEnds, TypeOK
<1>4. ASSUME NEW t \in Tickers, NEW next \in {"users", "flush logs"}, TakeTick(t, next)
      PROVE  TypeOK'
  <2>1. next \in Requests
    BY DEF Requests, WithContext, Report
  <2>2. tick' \in [Tickers -> BOOLEAN]
    BY <1>4 DEF TakeTick, TypeOK
  <2> QED BY <1>2, <1>4, <2>1, <2>2 DEF TakeTick, TypeOK
<1>5. CASE TakeReport \/ TakeFlush
  BY <1>4, <1>5 DEF TakeReport, TakeFlush, Tickers
<1>6. CASE TakeDone
  BY <1>2, <1>6 DEF TakeDone, TypeOK, Requests
<1>7. CASE TimePasses
  <2>1. age' \in 0..Timeout
    <3>1. at # "select" => age < Timeout
      BY <1>7 DEF TimePasses, Waiting
    <3>2. age' = IF at = "select" THEN 0 ELSE age + 1
      BY <1>7 DEF TimePasses
    <3>3. age \in 0..Timeout
      BY DEF TypeOK
    <3> QED BY <3>1, <3>2, <3>3
  <2>2. /\ sinceDone' \in 0..Horizon /\ sinceSync' \in 0..Horizon
        /\ sinceLogs' \in 0..Horizon
    BY <1>7, LaterFits DEF TimePasses, TypeOK
  <2>3. /\ left' \in [Tickers -> Nat] /\ \A t \in Tickers : left'[t] \in 1..Period(t)
        /\ tick' \in [Tickers -> BOOLEAN]
    <3>1. CASE at \in FirstReport
      BY <1>7, <3>1 DEF TimePasses, TypeOK
    <3>2. CASE at \notin FirstReport
      <4>1. tick' = [t \in Tickers |-> tick[t] \/ left[t] = 1]
        BY <1>7, <3>2 DEF TimePasses
      <4>2. \A t \in Tickers : (tick[t] \/ left[t] = 1) \in BOOLEAN
        BY Zenon
      <4>3. tick' \in [Tickers -> BOOLEAN]
        BY <4>1, <4>2
      <4> QED BY <1>7, <3>2, <4>3, TickersTurn DEF TimePasses
    <3> QED BY <3>1, <3>2
  <2>4. at' = at /\ ctxDone' = ctxDone
    BY <1>7 DEF TimePasses
  <2> QED BY <2>1, <2>2, <2>3, <2>4 DEF TypeOK
<1>8. CASE Terminated \/ UNCHANGED vars
  BY <1>8 DEF Terminated, vars, TypeOK
<1> QED BY <1>1, <1>3, <1>5, <1>6, <1>7, <1>8 DEF Next

\* Clocks and tickers stay within their periods and the client's timeout.
THEOREM TypeCorrect == Spec => []TypeOK
BY TypeInit, TypeNext, PTL DEF Spec
-----------------------------------------------------------------------------
(* The end *)

\* Once the context is done time passes for the last upload only.
StopInv ==
    /\ ~ctxDone => sinceDone = 0
    /\ at = "final logs" => ctxDone /\ sinceDone <= age
    /\ ctxDone /\ at \notin {"final logs", "exit"} => sinceDone = 0

LEMMA StopNext == TypeOK /\ StopInv /\ [Next]_vars => StopInv'
<1> SUFFICES ASSUME TypeOK, StopInv, [Next]_vars PROVE StopInv'
  OBVIOUS
<1> USE DEF clocks
<1>1. CASE Cancel
  BY <1>1 DEF Cancel, StopInv
<1>2. CASE RequestEnds
  <2>1. /\ at' # "final logs" /\ UNCHANGED <<ctxDone, sinceDone>>
        /\ at = "final logs" => at' = "exit"
        /\ at # "exit"
    BY <1>2 DEF RequestEnds, Enter, AfterRequest, Requests, WithContext,
                FirstReport, Report
  <2> QED BY <2>1 DEF StopInv
<1>3. CASE TakeReport \/ TakeFlush
  <2>1. /\ at = "select" /\ at' \in {"users", "flush logs"}
        /\ ctxDone' = ctxDone /\ sinceDone' = sinceDone
    BY <1>3 DEF TakeReport, TakeFlush, TakeTick, Enter
  <2> QED BY <2>1, Zenon DEF StopInv
<1>4. CASE TakeDone
  <2>1. /\ at = "select" /\ at' = "final logs" /\ age' = 0 /\ ctxDone
        /\ ctxDone' = ctxDone /\ sinceDone' = sinceDone
    BY <1>4 DEF TakeDone, Enter
  <2>2. sinceDone' = 0
    BY <2>1 DEF StopInv
  <2>3. sinceDone' <= age'
    <3>1. age' = 0
      BY <2>1
    <3> QED BY <2>2, <3>1
  <2> QED BY <2>1, <2>3, Zenon DEF StopInv
<1>5. CASE TimePasses /\ at = "final logs"
  <2>1. /\ at' = at /\ ctxDone' = ctxDone /\ age' = age + 1
        /\ sinceDone' = Later(sinceDone) /\ sinceDone <= age /\ ctxDone
    BY <1>5 DEF TimePasses, StopInv
  <2>2. sinceDone \in 0..Horizon /\ age \in 0..Timeout
    BY DEF TypeOK
  <2>3. sinceDone' <= age'
    <3>1. sinceDone' = Later(sinceDone) /\ sinceDone <= age /\ age' = age + 1
      BY <2>1
    <3> QED BY <2>2, <3>1, LaterFits, DurationAssumption
  <2> QED BY <1>5, <2>1, <2>3, Zenon DEF StopInv
<1>6. CASE TimePasses /\ at # "final logs"
  BY <1>6 DEF TimePasses, Waiting, StopInv
<1>7. CASE Terminated \/ UNCHANGED vars
  BY <1>7 DEF Terminated, vars, StopInv
<1> QED BY <1>1, <1>2, <1>3, <1>4, <1>5, <1>6, <1>7 DEF Next

\* The reporter is gone one client timeout after the context is done
\* (kboard.go:82, 101-104).
THEOREM StoppedInTime == Spec => []StopsInTime
<1>1. Init => StopInv
  BY DEF Init, StopInv
<1>2. TypeOK /\ StopInv => StopsInTime
  <2> SUFFICES ASSUME TypeOK, StopInv, ctxDone, at # "exit"
               PROVE  sinceDone <= Timeout
    BY DEF StopsInTime
  <2>1. age \in 0..Timeout /\ sinceDone \in 0..Horizon
    BY DEF TypeOK
  <2>2. sinceDone = 0 \/ sinceDone <= age
    BY DEF StopInv
  <2> QED BY <2>1, <2>2, DurationAssumption
<1> QED BY TypeCorrect, StopNext, <1>1, <1>2, PTL DEF Spec
-----------------------------------------------------------------------------
(* Access logs *)

Bound == Longer(FlushPeriod, Timeout) + FirstUpload

\* No report tick can come before the next flush tick.
FlushIsNext == ReportInterval > FlushPeriod =>
                   ~tick["report"] /\ left["report"] > left["flush"]

\* In the select: the next flush is due in time, counted from the drain before,
\* or from the end of the first report's upload, which may have timed out.
SelectInv ==
    /\ ~tick["flush"] =>
            \/ sinceLogs + left["flush"] <= FlushPeriod
            \/ sinceLogs + left["flush"] <= Timeout + FlushPeriod /\ FlushIsNext
    /\ tick["flush"] =>
            \/ sinceLogs <= Longer(FlushPeriod, Timeout)
            \/ /\ sinceLogs <= Timeout + FlushPeriod
               /\ ReportInterval > FlushPeriod => ~tick["report"]

FlushInv ==
    /\ at \in FirstReport =>
            /\ ~tick["flush"] /\ ~tick["report"]
            /\ left["flush"] = FlushPeriod /\ left["report"] = ReportInterval
    /\ at \in LogRequests => sinceLogs <= age
    /\ at \in {"report logs", "flush logs"} =>
            (~tick["flush"] => sinceLogs + left["flush"] <= FlushPeriod)
    /\ at = "select" => SelectInv
    /\ at = "users" => sinceLogs <= Bound + age
    /\ at = "alive" => sinceLogs <= Bound + Timeout + age
    /\ at = "traffic" => sinceLogs <= Bound + 2 * Timeout + age

LEMMA Numbers ==
    /\ FlushPeriod \in Nat /\ Timeout \in Nat /\ ReportInterval \in Nat
    /\ FirstUpload \in Nat /\ FirstUpload <= Timeout
    /\ Longer(FlushPeriod, Timeout) \in Nat
    /\ FlushPeriod <= Longer(FlushPeriod, Timeout)
    /\ Timeout <= Longer(FlushPeriod, Timeout)
    /\ Bound \in Nat /\ Longer(FlushPeriod, Timeout) <= Bound
BY DurationAssumption DEF FirstUpload, Longer, Bound

LEMMA Clocks ==
    TypeOK => /\ age \in Nat /\ age <= Timeout /\ sinceLogs \in Nat
              /\ left["flush"] \in Nat /\ left["report"] \in Nat
              /\ left["flush"] >= 1 /\ left["flush"] <= FlushPeriod
              /\ left["report"] >= 1
<1> SUFFICES ASSUME TypeOK
             PROVE  /\ age \in Nat /\ age <= Timeout /\ sinceLogs \in Nat
                    /\ left["flush"] \in Nat /\ left["report"] \in Nat
                    /\ left["flush"] >= 1 /\ left["flush"] <= FlushPeriod
                    /\ left["report"] >= 1
  OBVIOUS
<1>1. age \in 0..Timeout /\ sinceLogs \in 0..Horizon
  BY DEF TypeOK
<1>2. left["flush"] \in 1..FlushPeriod /\ left["report"] \in 1..ReportInterval
  BY PeriodsArePositive DEF TypeOK, Tickers
<1> QED BY <1>1, <1>2, DurationAssumption

\* The requests end one after the other.
LEMMA EndKeepsFlush == ASSUME TypeOK, FlushInv, RequestEnds PROVE FlushInv'
<1>1. /\ at \in Requests /\ at' = AfterRequest(at) /\ age' = 0
      /\ UNCHANGED <<left, tick>>
      /\ DrainsLogs(at') => sinceLogs' = 0
      /\ ~DrainsLogs(at') => sinceLogs' = sinceLogs
  BY DEF RequestEnds, Enter
<1>2. CASE at \in {"first users", "first alive", "first traffic"}
  <2>1. at' \in FirstReport /\ at' \notin {"report logs", "flush logs", "final logs"}
    BY <1>1, <1>2 DEF AfterRequest, FirstReport
  <2>2. /\ ~tick["flush"] /\ ~tick["report"]
        /\ left["flush"] = FlushPeriod /\ left["report"] = ReportInterval
    BY <1>2 DEF FlushInv, FirstReport
  <2>3. at' = "first logs" => sinceLogs' <= age'
    <3>1. at' = "first logs" => sinceLogs' = 0 /\ age' = 0
      BY <1>1 DEF DrainsLogs
    <3>2. 0 <= 0
      OBVIOUS
    <3>3. ASSUME sinceLogs' = 0, age' = 0 PROVE sinceLogs' <= age'
      BY <3>2, <3>3, Zenon
    <3> QED BY <3>1, <3>3, Zenon
  <2> QED BY <1>1, <2>1, <2>2, <2>3 DEF FlushInv, FirstReport, LogRequests
<1>3. CASE at = "first logs"
  <2>1. at' = "select" /\ sinceLogs' = sinceLogs
    BY <1>1, <1>3 DEF AfterRequest, DrainsLogs
  <2>2. /\ ~tick["flush"] /\ ~tick["report"] /\ sinceLogs <= age
        /\ left["flush"] = FlushPeriod /\ left["report"] = ReportInterval
    BY <1>3 DEF FlushInv, FirstReport, LogRequests
  <2>3. sinceLogs' + left'["flush"] <= Timeout + FlushPeriod
    <3>1. sinceLogs' = sinceLogs /\ sinceLogs <= age /\ left'["flush"] = FlushPeriod
      BY <1>1, <2>1, <2>2
    <3> QED BY <3>1, Clocks, Numbers
  <2>4. FlushIsNext'
    BY <1>1, <2>2 DEF FlushIsNext
  <2>5. SelectInv'
    BY <1>1, <2>2, <2>3, <2>4, Zenon DEF SelectInv
  <2> QED BY <2>1, <2>5 DEF FlushInv, FirstReport, LogRequests
<1>4. CASE at \in {"users", "alive"}
  <2>1. /\ at' = (IF at = "users" THEN "alive" ELSE "traffic")
        /\ sinceLogs' = sinceLogs
    BY <1>1, <1>4 DEF AfterRequest, DrainsLogs
  <2>2. at = "users" => sinceLogs' <= Bound + Timeout + age'
    <3> SUFFICES ASSUME at = "users" PROVE sinceLogs' <= Bound + Timeout + age'
      OBVIOUS
    <3>1. sinceLogs <= Bound + age
      BY DEF FlushInv
    <3>2. sinceLogs' = sinceLogs /\ age' = 0
      BY <1>1, <2>1
    <3> QED BY <3>1, <3>2, Clocks, Numbers
  <2>3. at = "alive" => sinceLogs' <= Bound + 2 * Timeout + age'
    <3> SUFFICES ASSUME at = "alive" PROVE sinceLogs' <= Bound + 2 * Timeout + age'
      OBVIOUS
    <3>1. sinceLogs <= Bound + Timeout + age
      BY DEF FlushInv
    <3>2. sinceLogs' = sinceLogs /\ age' = 0
      BY <1>1, <2>1
    <3> QED BY <3>1, <3>2, Clocks, Numbers
  <2> QED BY <1>4, <2>1, <2>2, <2>3 DEF FlushInv, FirstReport, LogRequests
<1>5. CASE at = "traffic"
  <2>1. at' = "report logs" /\ sinceLogs' = 0
    BY <1>1, <1>5 DEF AfterRequest, DrainsLogs
  <2>2. sinceLogs' <= age' /\ sinceLogs' + left'["flush"] <= FlushPeriod
    <3>1. sinceLogs' = 0 /\ age' = 0 /\ left'["flush"] = left["flush"]
      BY <1>1, <2>1
    <3> QED BY <3>1, Clocks, Numbers
  <2> QED BY <2>1, <2>2 DEF FlushInv, FirstReport
<1>6. CASE at \in {"report logs", "flush logs"}
  <2>1. at' = "select" /\ sinceLogs' = sinceLogs
    BY <1>1, <1>6 DEF AfterRequest, DrainsLogs
  <2>2. sinceLogs' <= Longer(FlushPeriod, Timeout)
    <3>1. sinceLogs' = sinceLogs /\ sinceLogs <= age
      BY <1>6, <2>1 DEF FlushInv, LogRequests
    <3> QED BY <3>1, Clocks, Numbers
  <2>3. ~tick'["flush"] => sinceLogs' + left'["flush"] <= FlushPeriod
    BY <1>1, <1>6, <2>1, Zenon DEF FlushInv
  <2>4. SelectInv'
    BY <2>2, <2>3, Zenon DEF SelectInv
  <2> QED BY <2>1, <2>4 DEF FlushInv, FirstReport, LogRequests
<1>7. CASE at = "final logs"
  BY <1>1, <1>7 DEF AfterRequest, FlushInv, FirstReport, LogRequests
<1> QED BY <1>1, <1>2, <1>3, <1>4, <1>5, <1>6, <1>7
        DEF Requests, WithContext, FirstReport, Report

\* A report that is taken comes soon enough to drain in its turn.
LEMMA TakesKeepFlush ==
    ASSUME TypeOK, FlushInv, TakeReport \/ TakeFlush \/ TakeDone PROVE FlushInv'
<1>1. at = "select" /\ SelectInv
  BY DEF TakeReport, TakeFlush, TakeDone, TakeTick, FlushInv
<1>2. CASE TakeReport
  <2>1. at' = "users" /\ age' = 0 /\ sinceLogs' = sinceLogs /\ tick["report"]
    BY <1>2 DEF TakeReport, TakeTick, Enter, DrainsLogs
  <2>2. \/ sinceLogs + left["flush"] <= FlushPeriod
        \/ sinceLogs + left["flush"] <= Timeout + FlushPeriod /\ FirstUpload = Timeout
        \/ sinceLogs <= Longer(FlushPeriod, Timeout)
        \/ sinceLogs <= Timeout + FlushPeriod /\ FirstUpload = Timeout
    <3>1. (ReportInterval > FlushPeriod => ~tick["report"]) => FirstUpload = Timeout
      BY <2>1 DEF FirstUpload
    <3> QED BY <1>1, <3>1, Zenon DEF SelectInv, FlushIsNext
  <2>3. sinceLogs' <= Bound + age'
    <3>1. sinceLogs' = sinceLogs /\ age' = 0
      BY <2>1
    <3>2. Bound = Longer(FlushPeriod, Timeout) + FirstUpload
      BY DEF Bound
    <3> QED BY <2>2, <3>1, <3>2, Clocks, Numbers
  <2> QED BY <2>1, <2>3 DEF FlushInv, FirstReport, LogRequests
<1>3. CASE TakeFlush \/ TakeDone
  <2>1. /\ at' \in {"flush logs", "final logs"} /\ age' = 0 /\ sinceLogs' = 0
        /\ left' = left
    BY <1>3 DEF TakeFlush, TakeDone, TakeTick, Enter, DrainsLogs
  <2>2. sinceLogs' <= age' /\ sinceLogs' + left'["flush"] <= FlushPeriod
    <3>1. sinceLogs' = 0 /\ age' = 0 /\ left'["flush"] = left["flush"]
      BY <2>1
    <3> QED BY <3>1, Clocks, Numbers
  <2> QED BY <2>1, <2>2 DEF FlushInv, FirstReport
<1> QED BY <1>2, <1>3

\* Time in the select brings the next flush nearer.
LEMMA WaitKeepsFlush ==
    ASSUME TypeOK, FlushInv, TimePasses, at = "select" PROVE FlushInv'
<1>1. ~tick["flush"] /\ ~tick["report"] /\ at' = "select"
  BY DEF TimePasses, Waiting, Tickers, WithContext, FirstReport, Report
<1>2. /\ sinceLogs' = Later(sinceLogs)
      /\ left' = [t \in Tickers |-> IF left[t] = 1 THEN Period(t) ELSE left[t] - 1]
      /\ tick' = [t \in Tickers |-> tick[t] \/ left[t] = 1]
  BY DEF TimePasses, FirstReport
<1>3. /\ tick'["flush"] <=> left["flush"] = 1
      /\ tick'["report"] <=> left["report"] = 1
  BY <1>1, <1>2 DEF Tickers
<1>4. /\ left["flush"] # 1 => left'["flush"] = left["flush"] - 1
      /\ left["report"] # 1 => left'["report"] = left["report"] - 1
  BY <1>2 DEF Tickers
<1>5. sinceLogs' \in Nat /\ sinceLogs' <= sinceLogs + 1
  <2>1. sinceLogs \in 0..Horizon
    BY DEF TypeOK
  <2> QED BY <1>2, <2>1, LaterFits
<1>6. \/ sinceLogs + left["flush"] <= FlushPeriod
      \/ /\ sinceLogs + left["flush"] <= Timeout + FlushPeriod
         /\ ReportInterval > FlushPeriod => left["report"] > left["flush"]
  <2>1. SelectInv
    BY DEF FlushInv
  <2> QED BY <1>1, <2>1, Zenon DEF SelectInv, FlushIsNext
<1>7. CASE left["flush"] = 1
  <2>1. \/ sinceLogs' <= Longer(FlushPeriod, Timeout)
        \/ /\ sinceLogs' <= Timeout + FlushPeriod
           /\ ReportInterval > FlushPeriod => left["report"] # 1
    BY <1>5, <1>6, <1>7, Clocks, Numbers
  <2>2. SelectInv'
    BY <1>3, <1>7, <2>1, Zenon DEF SelectInv
  <2> QED BY <1>1, <2>2 DEF FlushInv, FirstReport, LogRequests
<1>8. CASE left["flush"] # 1
  <2>1. left'["flush"] = left["flush"] - 1
    BY <1>4, <1>8
  <2>2. CASE sinceLogs + left["flush"] <= FlushPeriod
    <3>1. sinceLogs' + left'["flush"] <= FlushPeriod
      BY <1>5, <2>1, <2>2, Clocks, Numbers
    <3>2. SelectInv'
      BY <1>3, <1>8, <3>1, Zenon DEF SelectInv
    <3> QED BY <1>1, <3>2 DEF FlushInv, FirstReport, LogRequests
  <2>3. CASE /\ sinceLogs + left["flush"] <= Timeout + FlushPeriod
             /\ ReportInterval > FlushPeriod => left["report"] > left["flush"]
    <3>1. sinceLogs' + left'["flush"] <= Timeout + FlushPeriod
      BY <1>5, <2>1, <2>3, Clocks, Numbers
    <3>2. ReportInterval > FlushPeriod =>
              left["report"] # 1 /\ left'["report"] > left'["flush"]
      BY <1>4, <2>1, <2>3, Clocks
    <3>3. FlushIsNext'
      BY <1>3, <3>2, Zenon DEF FlushIsNext
    <3>4. SelectInv'
      BY <1>3, <1>8, <3>1, <3>3, Zenon DEF SelectInv
    <3> QED BY <1>1, <3>4 DEF FlushInv, FirstReport, LogRequests
  <2> QED BY <1>6, <2>2, <2>3
<1> QED BY <1>7, <1>8

\* Time under a request adds to its age and to that of the logs alike.
LEMMA RequestKeepsFlush ==
    ASSUME TypeOK, FlushInv, TimePasses, at # "select" PROVE FlushInv'
<1>1. at' = at /\ age' = age + 1 /\ sinceLogs' = Later(sinceLogs)
  BY DEF TimePasses
<1>2. sinceLogs' \in Nat /\ sinceLogs' <= sinceLogs + 1
  <2>1. sinceLogs \in 0..Horizon
    BY DEF TypeOK
  <2> QED BY <1>1, <2>1, LaterFits
<1>3. ASSUME NEW b \in Int, sinceLogs <= b + age PROVE sinceLogs' <= b + age'
  <2>1. age' = age + 1
    BY <1>1
  <2> QED BY <1>2, <1>3, <2>1, Clocks
<1>4. sinceLogs <= age => sinceLogs' <= age'
  <2>1. age' = age + 1
    BY <1>1
  <2> QED BY <1>2, <2>1, Clocks
<1>5. /\ at = "users" => sinceLogs' <= Bound + age'
      /\ at = "alive" => sinceLogs' <= Bound + Timeout + age'
      /\ at = "traffic" => sinceLogs' <= Bound + 2 * Timeout + age'
  <2>1. Bound \in Int /\ Bound + Timeout \in Int /\ Bound + 2 * Timeout \in Int
    BY Numbers
  <2> QED BY <1>3, <2>1 DEF FlushInv
<1>6. CASE at \in FirstReport
  <2>1. UNCHANGED <<left, tick>>
    BY <1>6 DEF TimePasses
  <2> QED BY <1>1, <1>4, <1>6, <2>1 DEF FlushInv, FirstReport, LogRequests
<1>7. CASE at \in {"report logs", "flush logs"}
  <2>1. /\ left' = [t \in Tickers |-> IF left[t] = 1 THEN Period(t) ELSE left[t] - 1]
        /\ tick' = [t \in Tickers |-> tick[t] \/ left[t] = 1]
    BY <1>7 DEF TimePasses, FirstReport
  <2>2. /\ tick'["flush"] <=> tick["flush"] \/ left["flush"] = 1
        /\ left["flush"] # 1 => left'["flush"] = left["flush"] - 1
    BY <2>1 DEF Tickers
  <2>3. ~tick'["flush"] =>
            left["flush"] # 1 /\ sinceLogs + left["flush"] <= FlushPeriod
    BY <1>7, <2>2 DEF FlushInv
  <2>4. left["flush"] # 1 /\ sinceLogs + left["flush"] <= FlushPeriod =>
            sinceLogs' + left'["flush"] <= FlushPeriod
    <3> SUFFICES ASSUME left["flush"] # 1, sinceLogs + left["flush"] <= FlushPeriod
                 PROVE  sinceLogs' + left'["flush"] <= FlushPeriod
      OBVIOUS
    <3>1. left'["flush"] = left["flush"] - 1
      BY <2>2
    <3> QED BY <1>2, <3>1, Clocks, Numbers
  <2>5. sinceLogs <= age
    BY <1>7 DEF FlushInv, LogRequests
  <2> QED BY <1>1, <1>4, <1>7, <2>3, <2>4, <2>5 DEF FlushInv, FirstReport
<1>8. CASE at \notin FirstReport \cup {"report logs", "flush logs"}
  BY <1>1, <1>4, <1>5, <1>8 DEF FlushInv, LogRequests, FirstReport
<1> QED BY <1>6, <1>7, <1>8

LEMMA FlushNext == TypeOK /\ FlushInv /\ [Next]_vars => FlushInv'
<1> SUFFICES ASSUME TypeOK, FlushInv, [Next]_vars PROVE FlushInv'
  OBVIOUS
<1>1. CASE Cancel \/ Terminated \/ UNCHANGED vars
  <2>1. UNCHANGED <<at, age, left, tick, sinceLogs>>
    BY <1>1 DEF Cancel, Terminated, vars, clocks
  <2> QED BY <2>1 DEF FlushInv, SelectInv, FlushIsNext
<1> QED BY <1>1, EndKeepsFlush, TakesKeepFlush, WaitKeepsFlush, RequestKeepsFlush
        DEF Next

LEMMA FlushInit == Init => FlushInv
<1> SUFFICES ASSUME Init PROVE FlushInv
  OBVIOUS
<1>1. at = "first users" /\ ~tick["flush"] /\ ~tick["report"]
  BY DEF Init, Tickers
<1>2. left["flush"] = FlushPeriod /\ left["report"] = ReportInterval
  BY PeriodsArePositive DEF Init, Tickers
<1> QED BY <1>1, <1>2 DEF FlushInv, FirstReport, LogRequests

\* Access logs are drained again in time, for all periods, with any behaviour
\* of Kboard and any choice of the select (kboard.go:98-118).
THEOREM LogsFlushedInTime == Spec => []LogsAreFlushedInTime
<1>1. TypeOK /\ FlushInv => LogsAreFlushedInTime
  <2> SUFFICES ASSUME TypeOK, FlushInv, at \notin FirstReport \cup {"exit"}
               PROVE  sinceLogs <= Bound + 3 * Timeout
    BY Numbers DEF LogsAreFlushedInTime, Bound
  <2>1. CASE at \in {"report logs", "flush logs", "final logs"}
    <3>1. sinceLogs <= age
      BY <2>1 DEF FlushInv, LogRequests
    <3> QED BY <3>1, Clocks, Numbers
  <2>2. CASE at = "select"
    <3>1. \/ sinceLogs + left["flush"] <= FlushPeriod
          \/ sinceLogs + left["flush"] <= Timeout + FlushPeriod
          \/ sinceLogs <= Longer(FlushPeriod, Timeout)
          \/ sinceLogs <= Timeout + FlushPeriod
      BY <2>2, Zenon DEF FlushInv, SelectInv
    <3> QED BY <3>1, Clocks, Numbers
  <2>3. CASE at \in {"users", "alive", "traffic"}
    <3>1. \/ sinceLogs <= Bound + age \/ sinceLogs <= Bound + Timeout + age
          \/ sinceLogs <= Bound + 2 * Timeout + age
      BY <2>3 DEF FlushInv
    <3> QED BY <3>1, Clocks, Numbers
  <2> QED BY <2>1, <2>2, <2>3
          DEF TypeOK, Requests, WithContext, FirstReport, Report
<1> QED BY TypeCorrect, FlushInit, FlushNext, <1>1, PTL DEF Spec
=============================================================================
