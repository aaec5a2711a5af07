----------------------------- MODULE AccessLogs -----------------------------
(***************************************************************************)
(* The access log on its way to Kboard: accessLogBuffer with its Record,   *)
(* Drain and Restore (internal/node/access_log.go), the reporter goroutine *)
(* that uploads it, periodically and once more when the context is done    *)
(* (internal/node/kboard.go, run and reportAccessLogs), and a Kboard that  *)
(* may store a batch, refuse it, or store it without the node learning of  *)
(* it, now or when a request the node gave up arrives late.                *)
(*                                                                         *)
(* An entry is the number of the Record call that offered it.              *)
(***************************************************************************)
EXTENDS Integers, Sequences, Functions

CONSTANTS
    QueueMax,     \* maxAccessLogQueueSize
    BatchMax,     \* maxAccessLogBatchSize
    MaxRecorded,  \* bound on the number of Record calls
    HasEndpoint,  \* cfg.AccessLogsEndpoint # ""
    Blank         \* the entries whose Domain is blank

ASSUME SizeAssumption ==
    /\ QueueMax \in Nat
    /\ BatchMax \in Nat \ {0}
    /\ BatchMax <= QueueMax
    /\ MaxRecorded \in Nat
    /\ HasEndpoint \in BOOLEAN

ASSUME BlankAssumption == Blank \subseteq Nat

VARIABLES
    items,      \* accessLogBuffer.items
    batch,      \* the slice reportAccessLogs got from Drain
    reporter,   \* where the reporter goroutine is
    ctxDone,    \* Run's context is done
    recorded,   \* number of Record calls so far
    refused,    \* entries Record refused or Restore cut off
    acked,      \* entries of batches that were answered with a 2xx status
    stored,     \* entries Kboard has stored at least once
    storedTwice,\* entries Kboard has stored more than once
    uncertain,  \* entries whose upload failed although Kboard may have them
    inFlight,   \* requests the node gave up that may still reach Kboard
    stop        \* the entries and the queue's length when the last upload began

kboard == <<stored, storedTwice, uncertain, inFlight>>
vars == <<items, batch, reporter, ctxDone, recorded, refused, acked, stop, kboard>>
-----------------------------------------------------------------------------
\* "select": in run's select; "upload": in a POST made with the context;
\* "final": in the POST made with context.Background(); "exit": returned.
ReporterStates == {"select", "upload", "final", "exit"}

Shorter(m, n) == IF m < n THEN m ELSE n

\* Drain(max): the oldest max entries, all of them if there are fewer.
Drained     == SubSeq(items, 1, Shorter(BatchMax, Len(items)))

\* Mutant: the slice is shortened, but nothing was copied to its front.
LeftWithoutCopy == SubSeq(items, 1, Len(items) - Shorter(BatchMax, Len(items)))

LeftByDrain == SubSeq(items, Shorter(BatchMax, Len(items)) + 1, Len(items))

\* Mutant: the batch replaces the new entries.
RestoredOver == batch

\* Restore(batch): in front of what came in meanwhile, cut at the limit.
Restored == SubSeq(batch \o items, 1, Shorter(QueueMax, Len(batch \o items)))
CutOff   == SubSeq(batch \o items, QueueMax + 1, Len(batch \o items))

Init ==
    /\ items = <<>>
    /\ batch = <<>>
    /\ reporter = "select"
    /\ ctxDone = FALSE
    /\ recorded = 0
    /\ refused = {}
    /\ acked = {}
    /\ stored = {}
    /\ storedTwice = {}
    /\ uncertain = {}
    /\ inFlight = {}
    /\ stop = [last |-> 0, len |-> 0, failed |-> FALSE]

\* Mutant: one entry more than the queue's limit.
RecordOneMore ==
    /\ recorded < MaxRecorded
    /\ recorded' = recorded + 1
    /\ IF recorded' \in Blank \/ Len(items) > QueueMax
         THEN refused' = refused \cup {recorded'} /\ UNCHANGED items
         ELSE items' = Append(items, recorded') /\ UNCHANGED refused
    /\ UNCHANGED <<batch, reporter, ctxDone, acked, stop, kboard>>

\* Record, called by a handler goroutine, which the reporter does not wait for.
Record ==
    /\ recorded < MaxRecorded
    /\ recorded' = recorded + 1
    /\ IF recorded' \in Blank \/ Len(items) >= QueueMax
         THEN refused' = refused \cup {recorded'} /\ UNCHANGED items
         ELSE items' = Append(items, recorded') /\ UNCHANGED refused
    /\ UNCHANGED <<batch, reporter, ctxDone, acked, stop, kboard>>

Cancel ==
    /\ ~ctxDone
    /\ ctxDone' = TRUE
    /\ UNCHANGED <<items, batch, reporter, recorded, refused, acked, stop, kboard>>

\* Mutant: an upload waits for a full batch.
UploadFullBatches ==
    /\ reporter = "select"
    /\ HasEndpoint
    /\ Len(items) >= BatchMax
    /\ batch' = Drained
    /\ items' = LeftByDrain
    /\ reporter' = "upload"
    /\ UNCHANGED <<ctxDone, recorded, refused, acked, stop, kboard>>

\* A ticker fires and reportAccessLogs(ctx) drains the buffer.  It returns at
\* once without an endpoint or when there is nothing to send.
Upload ==
    /\ reporter = "select"
    /\ HasEndpoint
    /\ items # <<>>
    /\ batch' = Drained
    /\ items' = LeftByDrain
    /\ reporter' = "upload"
    /\ UNCHANGED <<ctxDone, recorded, refused, acked, stop, kboard>>

\* Mutant: return without a last upload.
FinalUploadSkipped ==
    /\ reporter = "select"
    /\ ctxDone
    /\ stop' = [last |-> recorded, len |-> Len(items), failed |-> FALSE]
    /\ reporter' = "exit"
    /\ UNCHANGED <<batch, items, ctxDone, recorded, refused, acked, kboard>>

\* case <-ctx.Done(): reportAccessLogs(context.Background()), then return.
FinalUpload ==
    /\ reporter = "select"
    /\ ctxDone
    /\ stop' = [last |-> recorded, len |-> Len(items), failed |-> FALSE]
    /\ IF HasEndpoint /\ items # <<>>
         THEN batch' = Drained /\ items' = LeftByDrain /\ reporter' = "final"
         ELSE reporter' = "exit" /\ UNCHANGED <<batch, items>>
    /\ UNCHANGED <<ctxDone, recorded, refused, acked, kboard>>

Sending == reporter \in {"upload", "final"}

AfterPost == reporter' = IF reporter = "final" THEN "exit" ELSE "select"

\* What Kboard has once it stores the entries of a request.
Stores(ids) ==
    /\ stored' = stored \cup ids
    /\ storedTwice' = storedTwice \cup (stored \cap ids)

\* A 2xx answer: the batch is forgotten.
PostSucceeds ==
    /\ Sending
    /\ AfterPost
    /\ Stores(Range(batch))
    /\ acked' = acked \cup Range(batch)
    /\ batch' = <<>>
    /\ UNCHANGED <<items, ctxDone, recorded, refused, stop, uncertain, inFlight>>

\* Mutant: the status of the answer is not looked at.
PostFailsUnnoticed(outcome) ==
    /\ outcome = "unseen"
    /\ Sending
    /\ AfterPost
    /\ acked' = acked \cup Range(batch)
    /\ batch' = <<>>
    /\ UNCHANGED <<items, ctxDone, recorded, refused, stop, kboard>>

\* An error, a timeout or another status.  Kboard never saw the request, or
\* stored it and the answer was lost, or will see it later.
PostFails(outcome) ==
    /\ Sending
    /\ AfterPost
    /\ items' = Restored
    /\ refused' = refused \cup Range(CutOff)
    /\ batch' = <<>>
    /\ stop' = [stop EXCEPT !.failed = (reporter = "final")]
    /\ \/ outcome = "unseen" /\ UNCHANGED kboard
       \/ /\ outcome = "unanswered"
          /\ Stores(Range(batch))
          /\ uncertain' = uncertain \cup Range(batch)
          /\ UNCHANGED inFlight
       \/ /\ outcome = "late"
          /\ inFlight' = inFlight \cup {batch}
          /\ uncertain' = uncertain \cup Range(batch)
          /\ UNCHANGED <<stored, storedTwice>>
    /\ UNCHANGED <<ctxDone, recorded, acked>>

LateArrival(b) ==
    /\ inFlight' = inFlight \ {b}
    /\ Stores(Range(b))
    /\ UNCHANGED <<items, batch, reporter, ctxDone, recorded, refused, acked,
                   stop, uncertain>>

\* The reporter is gone and every call was made: nothing else can happen.
Terminated == reporter = "exit" /\ UNCHANGED vars

PostEnds ==
    \/ PostSucceeds
    \/ \E outcome \in {"unseen", "unanswered", "late"} : PostFails(outcome)

Next ==
    \/ Record
    \/ Cancel
    \/ Upload
    \/ FinalUpload
    \/ PostEnds
    \/ \E b \in inFlight : LateArrival(b)
    \/ Terminated

\* The tickers keep firing, a POST ends (the HTTP client has a timeout of ten
\* seconds), and a select whose ctx.Done() is ready again and again takes it
\* in the end, for Go chooses among the ready cases at random.
Fairness == WF_vars(Upload) /\ SF_vars(FinalUpload) /\ WF_vars(PostEnds)

Spec == Init /\ [][Next]_vars /\ Fairness
-----------------------------------------------------------------------------
(* Correctness *)

\* The entries that are neither acknowledged nor given up, oldest first.
Waiting == batch \o items

Entries == 1..recorded

\* Types, and the limits of the queue and of a batch (access_log.go:11-13).
TypeOK ==
    /\ items \in Seq(Nat) /\ Len(items) <= QueueMax
    /\ batch \in Seq(Nat) /\ Len(batch) <= BatchMax
    /\ reporter \in ReporterStates
    /\ ctxDone \in BOOLEAN
    /\ recorded \in 0..MaxRecorded
    /\ refused \subseteq Nat /\ acked \subseteq Nat
    /\ stored \subseteq Nat /\ storedTwice \subseteq Nat /\ uncertain \subseteq Nat
    /\ inFlight \subseteq Seq(Nat)
    /\ stop \in [last : Nat, len : Nat, failed : BOOLEAN]

\* Entries wait in the order they were recorded, each of them once, although a
\* failed batch goes back in front of entries recorded during its upload
\* (access_log.go:51-84; ImplementsQueue says so of the abstract queue).
InOrder ==
    \A j, k \in 1..Len(Waiting) : j < k => Waiting[j] < Waiting[k]

\* Every entry is waiting, acknowledged or given up, and in one of these only:
\* no interleaving of Record, Drain and Restore loses or doubles an entry
\* (access_log.go:38-84, kboard.go:178-194).
NothingVanishes ==
    /\ Range(Waiting) \cup acked \cup refused = Entries
    /\ Range(Waiting) \cap acked = {}
    /\ Range(Waiting) \cap refused = {}
    /\ acked \cap refused = {}

\* The node's account and Kboard's agree: the node forgets no batch that Kboard
\* did not store, and Kboard sees an entry twice only after an upload that
\* failed on the node's side while its outcome at Kboard was open (kboard.go:
\* 186-193: every attempt has a new batch_id, so Kboard cannot tell a repeated
\* batch from a new one, and a request given up may still arrive).
KboardAccount ==
    /\ acked \subseteq stored
    /\ storedTwice \subseteq uncertain

\* An entry with a domain is given up only with the queue at its limit, and any
\* entry given up is newer than every one that is kept (access_log.go:39-46,
\* 80-82).
OnlyNewestAreLost ==
    [][\A id \in refused' \ refused :
            /\ id \notin Blank => Len(items') = QueueMax
            /\ \A k \in 1..Len(items') : items'[k] < id]_vars

\* When the reporter has ended with an accepted last upload, the entries from
\* before that upload that nobody will ever send are exactly those that did
\* not fit into one batch, still at the front of the queue (kboard.go:102-104).
ExitLeavesOverflowOnly ==
    (reporter = "exit" /\ HasEndpoint /\ ~stop.failed) =>
        /\ stop.len - BatchMax <= Len(items)
        /\ \A k \in 1..Len(items) :
            items[k] <= stop.last <=> k <= stop.len - BatchMax

\* If Kboard does not refuse for ever, every entry that waits on a running node
\* is acknowledged or given up, however often batches come back and however
\* few entries there are to send (kboard.go:105-109, 178-194).
KboardRecovers == SF_vars(PostSucceeds)

EntriesAreDelivered ==
    KboardRecovers =>
        \A id \in 1..MaxRecorded :
            (id \in Range(Waiting)) ~> (id \in acked \cup refused \/ ctxDone)

\* The detailed log implements the bounded queue: a batch under way still
\* counts as pending, so Drain and a Restore that fits change nothing.
Queue == INSTANCE AccessLogQueue WITH
            pending <- Waiting, delivered <- acked, lost <- refused
ImplementsQueue == Queue!Spec
=============================================================================
