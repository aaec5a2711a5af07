# A TLA+ development of Knode

Knode is a node of the KLESS network: it accepts client connections, relays
them to an upstream or to the targets clients ask for, synchronises its users
from a control plane called Kboard, and reports to it. These modules model the
parts of it in which goroutines, timers, a remote service and cancellation
meet. Line numbers refer to the files of the repository.

## The system

| Component | State | Operations | Talks to |
|---|---|---|---|
| Service (`internal/node/service.go`) | listeners, error channel, WaitGroups, one semaphore per inbound | `Run`, `acceptLoop`, `waitConnections`, admin handlers | everything below |
| Connection handler (`service.go`, `server_relay.go`, `dialer.go`, `relay_protocol.go`) | two ends, two copying goroutines, an `AfterFunc` | `handleConnection`, `Dial`, `Handle`, TCP connect, UDP association | client store, access log, metrics |
| Access log (`access_log.go`) | a bounded slice under a mutex | `Record`, `Drain`, `Restore` | written by handlers, drained by the reporter |
| Client store (`client_store.go`) | static and dynamic credentials, user ids | lookups, `ReplaceDynamic`, `AddStatic` | read by handshakes and by logging, written by the reporter |
| Kboard reporter (`kboard.go`) | ETag, two tickers, HTTP client | `run`, `report`, `syncUsers`, uploads | Kboard, over a network that loses and delays |
| Metrics (`metrics.go`) | atomic counters | `beginConnection`, `endConnection`, `add...`, `Snapshot` | read by the admin server and by the reporter |
| Admin interface (`service.go`) | the published addresses, `startedListeners` | `/healthz`, `/readyz`, `/metrics`, `/status` | reads what `Run` publishes, and a `Snapshot` |
| Configuration (`internal/config`) | the configuration, rewritten by its validation | `Load`, `Validate`, defaults | start-up only |
| Command line (`cmd/knode`) | none | `run`, `check`, `check-upstreams`, `init`, `gen-keys` | signals become the context of `Run` |
| Installer and manager (`install.sh`) | binary, configuration, backups, systemd unit | install, upgrade, start, stop, enable, gen-config, edit-config, uninstall, menu | the operator, systemd, GitHub, `knode check` and `knode init` |

What is hard, and where the properties are aimed:

* **interleavings**: accepting against shutting down, `Record` between `Drain`
  and `Restore`, a user list that changes under an open session;
* **cancellation** at any point of `Run`, of a handler, of an upload;
* **partial failure**: the second listener cannot be opened, the dial fails
  after the access was logged, an answer cannot be decoded;
* **an unreliable peer**: uploads whose outcome the node never learns, bodies
  in two forms, or with neither;
* **answers put together step by step**: eight counters loaded one after the
  other while handlers count;
* **commands that stop half-way**: an upgrade interrupted between the binary and
  the restart, and run again;
* **limits**: slots, the queue, the batch, the error channel, the grace period;
* **liveness**: `Run` returns, relays are cut off, users converge, logs arrive.

`PROJECT.json` lists the hazards line by line with the properties for each.

## The modules

| Module | Models |
|---|---|
| `Service` | `Run` as a sequence of steps (start-up, select, closing, shutdown, the two waits), one accept loop per inbound, `Serve` of the admin listener, one handler per connection |
| `HandlerLife` | abstract: what `Service` assumes of a handler between its begin and its end |
| `Relay` | one handler in detail: forwarding, TCP connect, UDP association, with all goroutines; implements `HandlerLife` |
| `AccessLogQueue` | abstract: a bounded FIFO that loses the newest entries only |
| `AccessLogs` | the buffer, its uploads and a Kboard that stores, refuses or stays silent; implements `AccessLogQueue` |
| `KboardUsers` | what the node makes of an answer to the users request: the two forms of a body, credentials, the two maps |
| `UserSync` | the client store, `syncUsers` with ETag and 304, handshakes and attribution of accesses |
| `ReporterSchedule` | `kboardReporter.run` in discrete time: tickers, client timeout, cancellation |
| `Startup` | from a configuration file to a built service: defaults, every `Validate`, capability masks, dialers, relays, static credentials |
| `Monitor` | what a node says of itself: every `Add` of `Metrics`, every `Load` of `Snapshot`, what `Run` publishes, the admin handlers and the alive report |
| `Installer` | `install.sh` on one host: files, unit and process across commands, interruptions, crashes, reboots and new releases |
| `ServiceProofs`, `RelayProofs`, `AccessLogsProofs`, `UserSyncProofs`, `ReporterScheduleProofs`, `MonitorProofs`, `InstallerProofs`, `StartupProofs` | theorems |
| `MC...` | instances for TLC |

### Correspondence with the code

`Service`. `main` is the place of the goroutine that runs `Run`; `listener` and
`loop` are indexed by the order of `closers` (inbounds, then the admin
listener, which always exists because an empty address gets a default). An
accept loop is in `accept`, `admit` (it has a connection and looks at the
semaphore), `spawn` (before `connections.Add`), or about to send on `errCh`.
Each connection goes through `accepted`, `admitted` or `rejected`, `spawned`,
`setup`, `relaying`, `closed`, `released` and `gone`; the last three are the
deferred calls in their order. The derived context is the operator `CtxDone`:
it is done when the caller's is, or once `Run` has called `cancel()`. Closing the
admin listener before `Shutdown`, as the code does, makes `Serve` return an
error that nobody reads: `LoopStops` has that case.

`Relay`. One action per call of the handler goroutine that may fail or block,
and separate ones for the two copies, the UDP record, and the `AfterFunc`, which
closes the two ends in two steps. `errCh` keeps what was received, because the
pipe combines both results. A server relay that is missing for a kless-server
inbound (`service.go:251`) is left out: `New` builds one for each, as
`CheckedConfigRuns` of `Startup` shows.

`AccessLogs`. An entry is the number of the `Record` call; those in `Blank` have a
blank domain and are refused whatever room there is. `Drained`,
`LeftByDrain`, `Restored` and `CutOff` are the buffer's operations; an upload is
`Upload` or `FinalUpload`, then `PostSucceeds` or `PostFails`, and `Record` and
`Cancel` may come in between. A failed upload is unseen by Kboard, stored
without the node knowing, or delivered later.

`KboardUsers` and `UserSync`. A body is what `encoding/json` finds at its top and
under `data`: as in `UnmarshalJSON`, anything of a response at the top (its list or
its metadata) makes `Unmarshal` take the top and ignore `data`, which is looked at only
when the top has nothing. A record gives a credential if it has an id and a secret that
is derived, or decodes to at least 32 bytes (`Usable`); one that does not is
left out, and the rest of the list is loaded. The secret and
the user map are built from the same entries, the later one winning. A secret is
named by its user, 0 for a static one. An ETag is named by the list it stands for.
`owners` and `believed` are history variables.

`ReporterSchedule`. `at` is the request under way; `left` and `tick` are the two
tickers with their channels of capacity one. Time passes only while the
reporter waits.

`Startup`. `Load` is what `knode check` does, `New` to `RelaysBuilt` what
`knode run` adds. `Defaults` stands for the `applyDefaults` methods together
with the trimming in the `Validate` methods, and `Valid` for the checks, whose
order only decides which error is shown; `InboundNormal` is the part of an inbound,
whose listed clients are trimmed only if it is a server. The records (`Config` and
its parts) are the structs of `config.go` with the fields that validation or
`New` look at. Texts are strings with `Trim` and
`Lower` as functions on them, because the three validations must agree on what
these leave. `PublicURL` is the one place where they need not: Kboard's URL is
trimmed (`Trim`) and then loses its slashes (`Unslash`, `config.go:583`), after
which it may end in a blank again. A validation therefore applies `KboardDefaults` twice,
as `Config.applyDefaults` and `KboardConfig.Validate` do (578, 189). `GoodURLs` are the
texts an upstream may have (`url.Parse`, a scheme, a host), `RequestURIs` those
that pass `url.ParseRequestURI`, which also takes `"/ "`. Keys are named by the bytes they
decode to, so the comparison of texts (`sameNonEmptySecret`) and that of bytes are one;
`" "` is a key of blanks only, which an inbound trims away and an upstream refuses. The
durations of one object are a set. `FileGoes` removes a CA file between two validations.

`Monitor`. Where `Service` counts a connection in one step, `Monitor` has
`beginConnection` as its two `Add`s, and a snapshot as eight `Load`s in the
order of the code, with any step of any handler between them. `call` is the
request or report in progress with what it has read; one at a time stands for
any number, because they change nothing and share no state. `ended` and `half`
in it are history variables. The handlers are coarse here: their errors and
copies matter only for what they count, and `Relay` has the rest. `Stop` leaves the
accept loops alone: each ends by itself (`LoopStops`) and may accept or refuse until
then, and the handler of a connection that was accepted may begin at any later time.
The bytes of a direction are one `Add` (`CopyCounts`), also for a UDP association, which
adds those of each datagram as it passes (`server_relay.go:193, 223`): the properties
speak of which handlers have counted, not of how much.

`Installer`. `pc` is the function a command is in, and every file operation or
`systemctl` call that can be interrupted is a step of its own: `install` unlinks
the binary before it copies, `cat` truncates the configuration before it fills
it. `Abandon` is every end of a command before its last step (`die`, `set -e`,
Ctrl-C). From the menu `set -e` is off, because `run_menu_action` is the
condition of an `if`: a failed `install`, `cp` or `write_env_config` goes on there, which is
what `menu` is for (`Place`, `Copy`, `BackupFails`, `WriteImpossible`); `unsaved`
remembers that a backup has failed. The variables (`env`) are only given to the commands
that look at them (`Writers`). `Accepts` is the relation of what `knode check` of a release
accepts. systemd is taken to be there and `KNODE_SYSTEMD` not to be 0.

Operators whose comment starts with "Mutant" are variants of the definition
below them, each with a slip the code could have had. No specification uses
them; each property is violated when one of them takes the place of its
original, which shows that the property depends on that code.

## The runs

| Run | Bounds | What it shows |
|---|---|---|
| `service` | 2 inbounds (limit 1, no limit), admin, reporter, 3 connections | slots, counters, `errCh`, shutdown and the result of `Run` are right in every interleaving, with any listener failing at start-up or later |
| `service_live` | 2 connections for the limited inbound | `Run` returns, relays are cut off, clients are answered |
| `access_logs` | queue 3, batch 2, 6 entries, one of them blank | no loss, what Kboard has and why twice, the last upload, refinement of the queue, entries arrive, few or many |
| `user_sync` | 2 ids (1 static), 4 lists, both forms of a body, 2 sessions, 2 changes | store, ETag and attribution agree, the node's users converge |
| `schedule` | units of 5 s: flush 2, timeout 2, report 6 | stop within a timeout, logs drained within 40 s, no starvation |
| `users_refresh` | report 12, refresh 2 | violated on purpose, see below |
| `startup` | up to 2 upstreams and 2 inbounds from 12 and 15 candidates, 8 Kboard sections | what `check` accepts `run` starts but for a lost CA file or a URL that changes again, every inbound has its dialer or relay, every listed client is known |
| `relay` | 2 targets | resources, errors and logging of each path; refinement of `HandlerLife` |
| `monitor` | 2 inbounds, Kboard, 1 forwarded connection, 1 UDP association | who asks finds the start-up complete and a consistent snapshot |
| `installer` | 2 releases, 2 configurations a person may write, 3 commands, 1 reboot, 1 new release | when a configuration is lost, changes take effect, a running node stays up |
| `installer_keeps`, `installer_backup` | 1 command, no reboot, no release | violated on purpose, see below |

Why the bounds are enough: one inbound with a limit of one and two clients has
every relation of a client to the limit (below, at, turned away, free again), and
a second inbound shows that they do not interfere. The queue of three with
batches of two is full, partly drained and overfull by a returning batch; six
entries fill it again after a loss. Two sessions and an id that changes owner,
disappears and is listed twice cover the relations between a session and a
list. Two upstreams and two inbounds are enough for a name or a client id to
collide, for a reference to miss, and for one inbound's credentials to meet
another's; each rule of validation is broken by a candidate or is a conjunct that
concerns one object alone. A snapshot that is in the middle sees a second
handler at any place, and two handlers have every pair of places. Three
commands are an upgrade that is interrupted, its repetition and one more; two
releases and two configurations have one of each kind for `Accepts` to tell
apart, and the generated ones besides. The theorems below cover all other sizes.
`Horizon` and `MaxRecorded`, `MaxChanges` only bound counters.

Deadlock is checked everywhere but in `Installer`, where a host with no command
left to run may rest. `Terminated` stutters where the code has
finished: start-up has ended, `Run` has returned, the reporter has ended, a handler has returned and
its goroutines are gone.

### Fairness

Goroutines that can run do run (weak fairness per goroutine). Nothing is
assumed of the caller, of listeners failing, of peers closing, of the end of a
handler's set-up (the read of the relay request has no deadline and does not
watch the context), or of Kboard. `FinalUpload` in `AccessLogs` and the three cases of the
select in `ReporterSchedule` are strongly fair, because Go's `select` chooses at
random among ready cases and so does not pass over one for ever. The two
properties that need a Kboard that recovers say so in their premise
(`KboardRecovers`, `SyncRecovers`).

### Disagreements with the documentation

`README.md:158` documents `KNODE_USERS_REFRESH_INTERVAL` as the "dynamic users
refresh interval", and the configuration parses it
(`internal/config/config.go:475`), but nothing calls
`UsersRefreshIntervalDuration`: users are asked for once per report interval
(`kboard.go:93, 105`). `users_refresh` shows users that are older than the refresh
interval and all requests under way allow.

`README.md:117` says that `install` keeps an existing configuration that passes
the check. `ensure_config` (`install.sh:516-522`) backs it up and writes another
one if the Kboard variables are set and it has no `"kboard"` key.
`installer_keeps` shows such an installation; by `ConfigIsKept` the former
configuration is then in a backup, unless that failed.

`install.sh:696` asks whether to back up and overwrite, and `install.sh:484` says
"backed up existing config to". In the menu, where `set -e` is off, both the message and the
overwriting follow a `cp -a` that failed (483, 500): on a full disk the only copy of the
configuration is lost. `installer_backup` shows it.

### What the properties do not say

`StaticClientsAreKnown` promises a client its secret only if one secret is
listed for its id: when two kless-server inbounds list one id with different
secrets the later replaces the earlier in the store they share
(`client_store.go:69`), and the client of the first inbound is turned away. It
also shows that a client listed for one inbound is accepted by all of them. No
document rules either out. `CheckedConfigRuns` allows `run` to refuse what `check`
accepted when Kboard's public URL did not survive one more normalisation: `"/ / /"` is
`"/ "` after `Load`, which `url.ParseRequestURI` takes, and nothing after `New`, which then
says that `public_url` is required (`config.go:189-191, 202, 583`). `"http://k/a / /"`
survives but changes: `knode check` has looked at `"http://k/a "`, the service works with
`"http://k/a"`. Transport `http3` is valid, and every dial over it
fails (`dialer.go:102`).

An answer 200 without an ETag keeps the former ETag (`kboard.go:130`). With a
Kboard that sends ETags only now and then the store and the ETag could
disagree after a later 304; `UserSync` therefore takes Kboard to send them
always or never (`SendsETag`), and `StoreIsWhatKboardSaid` depends on that. A
body 200 that decodes and has no list at either place (`null`, or an answer of
something else) is an empty list to the code and signs everybody off; Kboard is
taken to send lists. `KboardAccount` says where duplicates come from, not that
there are none: every attempt has a new `batch_id`.

`AnswersAreTrue` shows that `/readyz` never answers "starting": the admin server
starts after the last listener, and `startedListeners` never goes down. It says
nothing of the time after the node has begun to stop, when `/readyz` may still say "ready". `SnapshotIsConsistent`
does not cover the bytes of a UDP association that a cancel cut off: its copies may
count them after the handler has ended (`server_relay.go:240`).

`NodeStaysUp` is about commands. After an upgrade to a release that rejects the
configuration the script leaves the old process running, and the next crash or
reboot does not bring it back; nothing is rolled back. `ConfigIsKept` names the two
steps at which a configuration may be lost: a backup within the same second as the one
that holds it (`SameSecond`, `install.sh:482`), and the write that follows a failed backup
in the menu (`unsaved`, 483). Everything else that a command, an interruption or a
failed copy of the binary can do is shown not to lose it. It is about what a
person saved through `edit-config` or had in place, not about generated files.

## The proofs

TLAPS proves the following for all values of the constants that satisfy
`NAssumption`, `ConnsAssumption`, `TargetAssumption`, `SizeAssumption`,
`BlankAssumption`, `NameAssumption`, `KeyAssumption` (one in `KboardUsers`, one in
`Startup`), `NoKeyAssumption`, `DurationAssumption`, `MonitorAssumption`, `InstallerAssumption`, `TextAssumption`
and `FileAssumption`. The last two say of `Startup` that trimming and lower-casing
are idempotent and that a file has the fields of the structs; nothing is assumed of
what the fields hold, nor of `Unslash`.

`ServiceProofs`. `TypeCorrect` first. `PhaseInv` relates the place of `Run` to
the listeners and loops: a listener that is open has a loop, after closing
none is open, after the join no loop runs; it gives `ShutdownIsComplete`,
`ResultCorrect` and, as a step property, `AddsAreOver`. `SendInv` says that the
errors in `errCh` and the loops that have ended account for each other, so that
a loop with something to send always finds room: the channel's length never
exceeds the number of ended loops, of which there are fewer than the capacity
as long as one is left to send (`SendsDoNotBlock`). `HandInv` says that a loop that admits or
spawns has exactly one connection in hand, and no other loop has any. From the two,
every loop that `wg.Wait()` still waits for has its next step
(`WaitNeverSticks`), a loop whose listener is closed takes at most four more
(`ClosedLoopsComeDown`), and once all loops are joined nobody is left between
accept and handler (`LoopsAreJoined`). `CountInv` equates the
semaphores, the WaitGroup and the metrics with the cardinalities of the sets of
connections they count; the invariants about slots, limits and metrics are its
parts. The table of moves (`MoveTable`) states what each action does to a
connection's place, and one counting lemma (`CountMove`) covers all of them.

`RelayProofs`. `SetupInv` says which kind of handler is where and that nothing
watches or copies before it relays. `CopyInv` counts: each copy that is over has
left its result, so a handler that has received two may return. With these,
`ErrorInv` and `ClosedInv` make `OneErrorPerFailure` and `NothingIsLeftOpen`
inductive. `LogInv` does the same for `TargetsAreLoggedOnce`: a UDP datagram in hand
was sent and is not recorded yet, everything else that was sent has been seen.
`HandlerNeverSticks` is the safety half of `GoroutinesEnd`: with `StartedInv` (a
handler in its pipe has both copies) and `WatchInv` (what the `AfterFunc` has closed) a
handler never waits for a result that nobody will send, nor, once the context is
done, for a copy that nobody will unblock. `StepsAreHandlerSteps` is the step simulation of `HandlerLife`; its fairness is
left to the run, so the theorem is the safety half of `ImplementsHandlerLife`.

`AccessLogsProofs`. The limits of queue and batch need `BatchInv` (the batch is
empty outside an upload). `LastUploadInv` follows the queue from the last drain to the
reporter's end: `stop` is what was queued then, and what handlers record meanwhile comes
behind it. So what is left when the reporter has gone begins with the entries of
`stop` that did not fit the last batch, in their order and all of them (`LeftIsTheEnd`);
that is `ExitLeavesOverflowOnly`, for every size of queue and batch. `WaitingInv` says that `batch \o items` is strictly
increasing and that waiting, acknowledged and refused entries partition all
entries. `Drain` splits a sequence and `Restore` joins and cuts one
(`DrainSplits`, `RestoreSplits`); the refinement maps `Drain` and a fitting
`Restore` to stuttering, `Record` to `Enqueue` or `Refuse`, a successful post to
`Deliver`, and a restore that overflows to `Discard`.

`UserSyncProofs`. `TypeCorrect` needs that the entry a list's client is taken from
exists, is usable and has a long enough secret: the largest index of a non-empty
set of indexes (`LargestExists`, by well-foundedness of the naturals, which needs no
induction over data). `AnswerInv` states what a pending answer stands for: its tag is
that of its list, and a 304 is only given for the list whose ETag the node has.
`StoreInv` adds that the two maps of the store are one function, that of the last
list Kboard stood by; `StoreCorrect` follows. `SessionInv` adds that the user a
lookup finds for an open session is always one of the session's owners, which
makes `AttributionCorrect` inductive: the record itself says nothing about the
next lookup.

`ReporterScheduleProofs`. `StopInv` says that no time passes after cancellation
but for the last upload. `FlushInv` bounds the time since the last drain at each
place: in the select the next flush is due soon enough (`SelectInv`), and each
request of a report adds a timeout. The hard case is the first report, whose
upload may have taken a whole timeout while the tickers did not exist yet:
`FlushIsNext` says that the first flush tick then still comes before the first
report tick. That needs a report interval above the flush period; the
configuration does not enforce it, so `LogsAreFlushedInTime` allows one more
timeout otherwise (`FirstUpload`).

`MonitorProofs`. `PhaseInv` says how much of the start-up is published at each
place of `Run` and that nobody may ask before all of it is; an accept loop that
has ended by itself has left an error. `CountInv` equates every counter with the
number of handlers that have added to it, for which it has to know that none adds
twice (`AddsFit`). `SnapInv` follows a snapshot from load to load. Two facts carry
it: connections that have ended when active is loaded never count again, and the
connections that have begun only grow, so that the active ones are still among
those that total and the handlers between their two `Add`s make up when total is
loaded. It needs that active is loaded before total, as the code does.

`InstallerProofs`. `TypeInv` adds to the types that a backup is taken of a file
that exists. `ConfigIsKept` is a step property: `Loses` goes through the steps that change
a file. `KeepInv` says that whoever is about to write has a backup of what is there,
or knows that it failed, and that a file being written is nobody's own; `NoneAhead` that no
backup has a later second than the last one, so that only one of the same second can be
replaced.
`EffectInv` says which commands may be "done" without a restart. `NodeStaysUp` is a
step property: a restart only happens with a ready configuration, and that
gives a process (`ReadyRuns`).

`StartupProofs`. `DefaultsStable`: normalising a configuration again changes nothing,
field by field and entry by entry, but Kboard's public URL, and not that if it is settled.
So the later validations see what the first saw but for that URL (`OnlyURLChanges`, as a
step property), and, since `Validate` depends on the files only through the CA files it finds,
`SecondValidation` has the only two reasons for `New` to refuse what `Load` accepted. From
these `ConfigInv` keeps a loaded configuration in its normal form and `FailInv` gives
the reasons to fail. `DialerInv`, `RelayInv` and `StoreInv` follow the loop of `New`:
what is built so far stands for the upstreams and inbounds whose turn has been
(`Served`, `Given`). `CredentialsSound` says of a validated inbound that its relay
cannot be refused. Names that differ make the map of relays faithful
(`CheckedRuns`). The run `startup` checks the three properties; the invariant was
checked on the same instance before it was proved.

Only model-checked: the liveness properties and the fairness half of
`ImplementsHandlerLife`, which are out of the prover's reach. What is proved of them
is that nobody on the way is stuck (`WaitNeverSticks`, `HandlerNeverSticks`) and
that accept loops only come down (`ClosedLoopsComeDown`).

## Not modelled, and the plan

Not modelled: contents and sizes of what is relayed, TLS and transport options,
`check-upstreams`, signatures of requests to Kboard (`sign`, `hmacSignature`),
formatting of URIs and ids, JSON syntax, the sample file, key generation,
`SetStatic` and `SnapshotSize` of the client store (nothing calls them); of
`install.sh` the firewall rules, its own update, logs, status and the text of
what it generates; the release workflow, which is run by GitHub; the KLESS and
relay libraries (external: their calls succeed, fail or do not return).

What is left of the plan:

1. `Node`: access log, handlers and shutdown composed, for what is recorded
   after the reporter's last upload.
2. `check-upstreams` beside `check` and `run` in `Startup`.
