-------------------------- MODULE ReporterSchedule --------------------------
(***************************************************************************)
(* When the reporter does what: kboardReporter.run with its two tickers,   *)
(* the four requests of a report made one after the other, the timeout of  *)
(* the HTTP client, and the context that ends it all (internal/node/       *)
(* kboard.go:77-118).  What the requests carry is the matter of UserSync   *)
(* and AccessLogs.                                                         *)
(*                                                                         *)
(* Time is discrete.  It passes only while the reporter waits: for a tick, *)
(* or for the answer of Kboard.  A request that is not made, because its   *)
(* endpoint is not configured or there is nothing to send, is one that     *)
(* takes no time.                                                          *)
(***************************************************************************)
EXTENDS Integers

CONSTANTS
    ReportInterval,   \* ReportIntervalDuration()
    FlushPeriod,      \* accessLogFlushPeriod
    Timeout,          \* Timeout of the reporter's http.Client
    RefreshInterval,  \* UsersRefreshIntervalDuration()
    Horizon           \* bound of the clocks the properties read

ASSUME DurationAssumption ==
    /\ ReportInterval \in Nat \ {0}
    /\ FlushPeriod \in Nat \ {0}
    /\ Timeout \in Nat
    /\ RefreshInterval \in Nat \ {0}
    /\ Horizon \in Nat

VARIABLES
    at,          \* where the reporter goroutine is
    age,         \* how long the request under way has taken so far
    left,        \* each ticker: the time until it fires again
    tick,        \* each ticker: its channel, of capacity one, holds a tick
    ctxDone,     \* Run's context is done
    sinceDone,   \* time since then
    sinceSync,   \* time since the users were last asked for
    sinceLogs    \* time since access logs were last drained

clocks == <<sinceDone, sinceSync, sinceLogs>>
vars == <<at, age, left, tick, ctxDone, clocks>>
-----------------------------------------------------------------------------
Tickers == {"report", "flush"}

Period(t) == IF t = "report" THEN ReportInterval ELSE FlushPeriod

\* The requests of report, in its order, first without tickers ("first ...").
FirstReport == {"first users", "first alive", "first traffic", "first logs"}
Report      == {"users", "alive", "traffic", "report logs"}
WithContext == FirstReport \cup Report \cup {"flush logs"}
Requests    == WithContext \cup {"final logs"}

\* Mutant: a report does not send access logs.
AfterRequestWithoutLogs(r) ==
    CASE r = "first users"   -> "first alive"
      [] r = "first alive"   -> "first traffic"
      [] r = "first traffic" -> "first logs"
      [] r = "users"         -> "alive"
      [] r = "alive"         -> "traffic"
      [] r = "final logs"    -> "exit"
      [] OTHER               -> "select"

AfterRequest(r) ==
    CASE r = "first users"   -> "first alive"
      [] r = "first alive"   -> "first traffic"
      [] r = "first traffic" -> "first logs"
      [] r = "users"         -> "alive"
      [] r = "alive"         -> "traffic"
      [] r = "traffic"       -> "report logs"
      [] r = "final logs"    -> "exit"
      [] OTHER               -> "select"

DrainsLogs(r) == r \in {"first logs", "report logs", "flush logs", "final logs"}

Init ==
    /\ at = "first users"
    /\ age = 0
    /\ left = [t \in Tickers |-> Period(t)]
    /\ tick = [t \in Tickers |-> FALSE]
    /\ ctxDone = FALSE
    /\ sinceDone = 0
    /\ sinceSync = 0
    /\ sinceLogs = 0

Cancel ==
    /\ ~ctxDone
    /\ ctxDone' = TRUE
    /\ UNCHANGED <<at, age, left, tick, clocks>>

\* The reporter goes to the next request, or back to its select.
Enter(next) ==
    /\ at' = next
    /\ age' = 0
    /\ sinceLogs' = IF DrainsLogs(next) THEN 0 ELSE sinceLogs
    /\ sinceSync' = IF next = "users" THEN 0 ELSE sinceSync

\* The request under way is answered, fails or times out.
RequestEnds ==
    /\ at \in Requests
    /\ Enter(AfterRequest(at))
    /\ UNCHANGED <<left, tick, ctxDone, sinceDone>>

\* One of the ready cases of the select, any of them.
TakeTick(t, next) ==
    /\ at = "select"
    /\ tick[t]
    /\ tick' = [tick EXCEPT ![t] = FALSE]
    /\ Enter(next)
    /\ UNCHANGED <<left, ctxDone, sinceDone>>

\* Mutant: a ready flush tick is preferred.
TakeReportLast == ~tick["flush"] /\ TakeTick("report", "users")

TakeReport == TakeTick("report", "users")
TakeFlush  == TakeTick("flush", "flush logs")

TakeDone ==
    /\ at = "select"
    /\ ctxDone
    /\ Enter("final logs")
    /\ UNCHANGED <<left, tick, ctxDone, sinceDone>>

\* Mutants: reports are made with context.Background(); a timeout that is one
\* unit too long.
WaitingRegardless ==
    \/ at = "select" /\ ~ctxDone /\ \A t \in Tickers : ~tick[t]
    \/ at \in Requests /\ age < Timeout
WaitingLonger ==
    \/ at = "select" /\ ~ctxDone /\ \A t \in Tickers : ~tick[t]
    \/ at \in WithContext /\ ~ctxDone /\ age <= Timeout
    \/ at = "final logs" /\ age < Timeout

\* Requests made with the context end at once when it is done; the last one
\* is made with context.Background() and has the client's timeout only.
Waiting ==
    \/ at = "select" /\ ~ctxDone /\ \A t \in Tickers : ~tick[t]
    \/ at \in WithContext /\ ~ctxDone /\ age < Timeout
    \/ at = "final logs" /\ age < Timeout

Later(clock) == IF clock < Horizon THEN clock + 1 ELSE clock

\* The tickers are made after the first report.  A tick that finds its channel
\* full is dropped.
TimePasses ==
    /\ Waiting
    /\ age' = IF at = "select" THEN 0 ELSE age + 1
    /\ IF at \in FirstReport
         THEN UNCHANGED <<left, tick>>
         ELSE /\ left' = [t \in Tickers |->
                            IF left[t] = 1 THEN Period(t) ELSE left[t] - 1]
              /\ tick' = [t \in Tickers |-> tick[t] \/ left[t] = 1]
    /\ sinceDone' = IF ctxDone THEN Later(sinceDone) ELSE 0
    /\ sinceSync' = Later(sinceSync)
    /\ sinceLogs' = Later(sinceLogs)
    /\ UNCHANGED <<at, ctxDone>>

Terminated == at = "exit" /\ UNCHANGED vars

Next ==
    \/ Cancel
    \/ RequestEnds
    \/ TakeReport
    \/ TakeFlush
    \/ TakeDone
    \/ TimePasses
    \/ Terminated

\* Time goes on, requests end, and Go's select does not pass over a case that
\* is ready again and again for ever.
Fairness ==
    /\ WF_vars(RequestEnds) /\ WF_vars(TimePasses)
    /\ SF_vars(TakeReport) /\ SF_vars(TakeFlush) /\ SF_vars(TakeDone)

Spec == Init /\ [][Next]_vars /\ Fairness
-----------------------------------------------------------------------------
(* Correctness *)

\* Clocks and tickers stay within their periods and the client's timeout.
TypeOK ==
    /\ at \in Requests \cup {"select", "exit"}
    /\ age \in 0..Timeout
    /\ left \in [Tickers -> Nat] /\ \A t \in Tickers : left[t] \in 1..Period(t)
    /\ tick \in [Tickers -> BOOLEAN]
    /\ ctxDone \in BOOLEAN
    /\ sinceDone \in 0..Horizon
    /\ sinceSync \in 0..Horizon
    /\ sinceLogs \in 0..Horizon

\* The reporter is gone one client timeout after the context is done, whatever
\* it was doing and however many ticks were buffered: only the last upload is
\* worth waiting for, and wg.Wait() in Run is held up no longer than that
\* (kboard.go:82, 101-104; service.go:165).
StopsInTime == ctxDone /\ at # "exit" => sinceDone <= Timeout

Longer(m, n) == IF m > n THEN m ELSE n

\* The first report is made without tickers, so another one, with an upload that
\* may time out first, can come before the first flush.
FirstUpload == IF ReportInterval > FlushPeriod THEN 0 ELSE Timeout

\* However slow Kboard is and whichever ready case the select prefers, access
\* logs are drained again after at most a flush period (or a timed-out upload)
\* and the three requests that a report makes first (kboard.go:98-108, 113-118).
LogsAreFlushedInTime ==
    at \notin FirstReport \cup {"exit"} =>
        sinceLogs <= Longer(FlushPeriod, Timeout) + 3 * Timeout + FirstUpload

\* Uploads that always time out keep the flush ticker ready for ever, and still
\* do not starve the reports: the users are asked for again and again until the
\* context is done (kboard.go:100-109).
ReportsRecur == []<>(at \in {"users", "final logs", "exit"})

\* README.md:158 documents users_refresh_interval as the "dynamic users refresh
\* interval".  The users would be asked for within that interval, give or take
\* the requests that are under way when it elapses (kboard.go:93, 105, 120).
UsersAreRefreshedInTime ==
    at \notin {"final logs", "exit"} =>
        sinceSync <= RefreshInterval + 4 * Timeout
=============================================================================
