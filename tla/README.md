# A TLA+ model of submission-triage

submission-triage is one Go process that watches a mailbox of insurance
submissions, works out what each submission still lacks, asks the broker for it
in a threaded reply, files the messages, and chases or closes the submissions
that go quiet. All durable state is one SQLite database. This directory models
its parts in TLA+, checks them with TLC on small instances, and proves the
safety properties with TLAPS for every instance.

Source lines are given as `path:line`, relative to the repository root.

## The system and its parts

| Goroutine | Code | What it does |
|---|---|---|
| mail poller (one) | `internal/delivery/imap/poller.go` | reads unread mail, calls `IngestEmail` for one message at a time, marks it read, files and stars it; then reads the Hold folder and calls `ReconcileHold` |
| reply workers (4) | `internal/service/submissions.go:242` | take jobs off a channel of 64 and send them over SMTP |
| outbox sweeper (one) | `internal/service/outbox_worker.go` | every 30 s sends the pending outbox rows nobody else is sending |
| escalation worker (one) | `internal/service/escalation.go` | `CheckEscalations`, `CheckClosures` and the daily digest |
| retention worker (one) | `internal/service/retention.go` | expires and deletes old rows |
| HTTP server | `internal/delivery/http` | the health endpoint |

They share the database, each statement or transaction of which is atomic, and
two things in memory: the map of dispatch claims and the channel of reply jobs.
Nothing else is shared; the interesting behaviour is that a goroutine reads a
row in one statement, works for a while (a classification by an LLM, an SMTP
session), and writes in another statement what it derived from the old read.
The process can be killed at any point, and what is in memory is gone.

Around these are parts with no state of their own that other goroutines can
see: MIME parsing, attachment extraction, classification, the checklist
evaluation, the reply text, configuration. `PROJECT.json` lists every part with
what is modelled of it.

## Modules

| Module | Models | Role |
|---|---|---|
| `Outbox` | the reply outbox, the claims, the channel, the reply workers, `deliver`, the sweeper, the reply side of an ingest, the Hold folder, retention of outbox rows, the escalation worker's stale copy, crashes | state machine |
| `Delivery` | what the outbox promises, without rows, claims and goroutines | abstract specification |
| `Lifecycle` | the submission state machine, recording mail on a submission, every pass of the escalation worker | state machine |
| `Poller` | the IMAP poller: cutoff, batches, processing, failure counts, quarantine, read flag, star, filing | state machine |
| `Ingest` | the steps of an ingest (threading, duplicates, line of business, documents, content match, evaluation, choice of the reply, commit, audit flush) between the steps of the reply worker and the escalation worker, failures and crashes | state machine |
| `Checklist` | `EvaluateChecklist` and what follows from its result | operators used by `Ingest` |
| `Spend` | calls to the language model under the daily cap, `retry.Do`, the cap audit | state machine |
| `App` | start, migrations, the reply pool against `Shutdown`, the time limits, the exit status | state machine |
| `MCOutbox`, `MCLifecycle`, `MCPoller`, `MCIngest`, `MCSpend` | instances of the above for TLC: budgets for what could happen without end, constants, symmetry | model checking |
| `OutboxTypes`, `OutboxSteps`, `OutboxProofs` | the outbox, and that it implements `Delivery` | proofs |
| `LifecycleProofs`, `PollerProofs`, `IngestProofs`, `SpendProofs`, `AppProofs` | the module of that name | proofs |

A definition has the name the code uses where there is one, and `map` in
`PROJECT.json` gives the lines it stands for. Definitions marked "Mutant" are
wrong variants of the definition below them; no specification uses them. They
document which mistake each property would catch.

### Outbox

State: `rows` is the outbox table; `hash`, `bounced`, `onHold` and `cool` are
columns of the submissions table; `dispatching` is the claim map and `queue` the
channel; `sender`, `sweep`, `poll`, `recon` and `esc` are what each goroutine
holds in its local variables; `folder` is the Hold folder. `delivered`,
`unrecorded`, `lastGot` and `preHold` are history that only properties read.

Every statement or transaction against the database, and every access to the
claim map or the channel, is one action. A reply is therefore several actions:
`IngestLoad` (read the submission, decide), `IngestClaim`, `IngestCommit` (email
and row in one transaction), `IngestEnqueue` or `IngestLeave`, then `Take`,
`Send`, `Record` and `Mark` of a worker; or `SweepList`, `SweepBlocked`,
`SweepClaim`, `SweepReread`, `Send`, ... of the sweeper. Each has an action for
its failure (`IngestCommitFails`, `SendFails`, `MarkFails`, ...), which follows
the error path of the code. A send may also be accepted and reported as failed.
`Crash` clears everything in memory and may change `REPLIES_ENABLED`.

A row carries `gen`, which text of the row it is (a superseding reply increments
it), and `ver`, the version `MarkSent` compares. Time is kept as countdowns to
the moment a comparison flips, so no absolute clock is needed.

### Lifecycle

State: `subs` is the submissions table, `poll` and `esc` are the copies the two
goroutines work on. `MailLoad` or `MailMatch` reads a row, `MailCommit` or
`BounceCommit` writes the whole row back, as `upsertSubmissionRow` does.
The escalation worker goes through its five passes: `CheckBegin`, then for every
pass the query (`List`) and for every row `Write` or `Skip`, and `CheckAdvance`
to the next pass; `WriteFails` and `CheckFails` are the error paths. Timestamps
are ages in ticks that stop at `Horizon`, beyond which no comparison changes.

### Poller

State: `box` is the mailbox with its flags, `emails` the ingested ids, `fails`
the `poll_failures` table, `boot` the stored first boot, `poll` the goroutine.
One action per step of `pollOnce` and `process`, and one for each way the step
fails. What an ingest does is not repeated here: it succeeds, fails, panics or
outlasts the poll timeout, according to the `Nature` of the message.

### Ingest

State: `subs`, `emails`, `docs` and `replies` are tables, `audit` the audit
entries about ambiguous threads, `unread` the messages to come, `job` the ingest in
progress and `listed` the rows the escalation worker holds copies of.

An ingest is several steps. `IngestEmail` (or `IngestBounce`) loads a copy of the
submission the headers lead to and evaluates it; `FindMatch` and `Merge` are the two
queries of the content match; `Commit` writes the whole row, the email, the documents
and the reply in one transaction; `Flush` writes the audit entries buffered since the
start, and the poller marks the message read or does not. `MergeFails`,
`IngestFails` and `FlushFails` are the error paths: a failed flush is only logged.
Between any two steps the reply worker sends, records or gives up a reply
(`SendReply`, `RecordReply`, `DeadLetter`, where each of the two writes after the last
attempt may fail, and a cleared `last_reply_hash` may be that of a newer reply), and the
escalation worker lists rows (`List`) or writes a listed copy back (`escalate`,
`closeQuiet`, both `Upsert`): the whole row, except the columns an upsert leaves alone.
`Crash` drops `job` and `listed`.

`hist` is history: `stale` are the submissions whose row was replaced by an older copy
and no email was evaluated into since, `forgot` those whose row was ever replaced or
whose `last_reply_hash` was cleared, `lost` the messages whose audit entry was lost
after the commit. No step depends on it; the properties name with it exactly what the
code gives up.

The functions of the code are operators of the same names:
`findSubmissionIDsByRefs`, `resolvePolicyType`, `classifyAttachments`,
`contentMatch`, `evaluate`, `buildReply`. A message has headers, a sender, the line of
business its subject or body names, and attachments; an attachment has the item the
classifier finds in it, its quality, the outcome of the field extraction and the
insured it names. `FindContentMatch` chooses by creation (`born`). Which of several
matching threads `pickMostRecentlyUpdated` takes is a choice, because the worker stamps
`updated_at` with the time its check began.

### Spend

State: `spend` is the `llm_spend` table, `call` the call under way, `cappedDay`
the day `auditCapOnce` remembers, `audits` the audit log. `Midnight`, `Expire`
(the caller's context ends) and `Crash` come between any two steps.

### App

State: the migration files `shipped`, the bodies executed (`schema`), the rows of
`schema_migrations` (`recorded`), `phase` (where `main` is), the goroutines that
run, the reply pool `svc` with its wait group, and the exit status. Every wait of
the shutdown may end by its timer, and a goroutine may be stuck forever.

### How they fit together

Each module keeps the columns its properties are about: `Outbox` the outbox table, the
reply columns and the hold; `Lifecycle` the state and the timestamps; `Ingest` threads,
documents, gaps and the fingerprint of the last reply; `Poller` the mailbox; `App` the
life of the process. The columns are not disjoint in the code: the poller and the
escalation worker write whole submission rows from older copies. That is why
`Outbox`, `Lifecycle` and `Ingest` each have the copies of both goroutines and their
whole-row writes, for the columns they keep.
Where one needs the other's result it is a choice: the ask
of an email in `Outbox`, the outstanding items in `Lifecycle`, the outcome of an
ingest in `Poller`. A property that holds for every choice holds for the one the
other module makes. The composition that matters most, the poller with the
workers, the sweeper, the hold, escalation and retention over one outbox, is one
module, because its properties are about their interleaving.

## Runs

Each configuration is run as `tlc -config <cfg> <module>`. The state counts are
those of distinct states.

| Run | Module, configuration | Question | States |
|---|---|---|---|
| `races` | `MCOutbox`, `Outbox_races` | can any interleaving around one submission's reply send it twice, lose it, leak its claim, or send while replies are off? | 1.4 million |
| `timed` | `MCOutbox`, `Outbox_timed` | the same of two submissions that share the channel, with backoff, spacing, expiry, bounces and merged mail; does the outbox implement `Delivery`? | 470,000 |
| `liveness` | `MCOutbox`, `Outbox_liveness` | does a queued reply go out, is every claim given back, does the hold follow the folder? Does the outbox implement `Delivery` also across crashes and holds? | 224,000 |
| `stranded` | `MCOutbox`, `Outbox_stranded` | counterexample, see below | |
| `lifecycle_races` | `MCLifecycle`, `Lifecycle_races` | do stale whole-row writes of the poller and the worker break a row, and is every submission closed in the end? | 341,000 |
| `quiet` | `MCLifecycle`, `Lifecycle_quiet` | is a quiet submission escalated if no sweep closes it first, and what can keep it from being so? | 286,000 |
| `poller` | `MCPoller`, `Poller_mailbox` | is a message ever hidden unprocessed, and is what can be processed or quarantined so, behind a batch that fails? | 160,000 |
| `poller_retry` | `MCPoller`, `Poller_retry` | counterexample, see below | |
| `ingest` | `MCIngest`, `Ingest_threads` | do threads, documents, gaps and questions stay consistent in every order of arrival, with stale writes, dead letters, failures and crashes in between? | 662,000 |
| `bounced` | `MCIngest`, `Ingest_bounced` | counterexample, see below | |
| `spend` | `MCSpend`, `Spend_cap` | how far can a day's total pass the cap, and is every answer accounted for? | 482,000 |
| `app` | `App`, `App_life` | are migrations executed once, and does the process stop, cleanly where it says so? | 218,000 |

### What the properties say

*Outbox.* `SingleOwner`: a reply is committed, queued or sent by one goroutine at
a time. `ClaimsAccounted`: the claim map holds exactly the replies that someone
owns, on every error path too. `NoUnexplainedRepeat`: a text is sent again only
if the first sending could not be recorded. `SentWasDelivered`: a row marked sent
holds a text that was sent. `KillSwitchSilent`: with `REPLIES_ENABLED=false`
nothing is sent or queued. `ReplyGoesOut`, `ClaimsReleased`, `HoldFollowsFolder`:
the liveness questions above. `KeepsPromise`: every step is a step of `Delivery`
or leaves what it speaks of alone. `OutboxInv`: the inductive invariant of the
proofs.

*Lifecycle.* `StampsMatchState`: complete and escalated rows carry the stamp by
which their sweep finds them, and no other. `MailAlwaysFits`: the state machine
refuses no email. `CompletionDateKept`: the completion date of a complete
submission is never moved forward. `EventuallyClosed`: a submission that stays
off hold is closed. `QuietIsEscalated`: one that awaits the broker does not stay
so, unless as many submissions as `ListStale` returns, idle at least as long and
waiting for the agency only (`Crowded`), are ahead of it again and again. The code does
starve it then (see below); nothing else does.

*Poller.* `ReadMeansHandled`: a read message was ingested or given up for a
reason. `FiledIsRead`: a filed message is read and ingested. `GoodMailIngested`
and `PoisonQuarantined`: what is good is ingested, also behind whole batches of
messages that fail until they are quarantined, and what always fails with an error is
quarantined. Both are about messages with none before them that is never given up
(`Unobstructed`): a message that panics or outlasts the poll timeout keeps its place in
every batch, and the latter ends the batch.

*Ingest.* `MissingMatchesDocuments`: the stored gaps are those of the stored
documents, except in a row the escalation worker has replaced by an older copy, until
the next email is evaluated. `OnlyRelatedMail`: when an email is filed under an
existing submission, they share a thread, or the sender and the insured are the same
at that moment, although the row may have been replaced since the match.
`SplitIsAudited`: an email and its answer are in one submission unless the audit log
says otherwise, is about to, or lost the entry after the commit. `ClarifiedOnce`: the
line of business is asked for once, unless the fingerprint of the question was cleared
with a dead letter or undone by a stale row.
`IngestInv`: the inductive invariant of the proofs, types included.

*Spend.* `CapHolds`: a day passes the cap by less than one call, and one more for
every call admitted while the total could not be read. `AnswersRecorded`: the
table and the failed recordings together account for every answer.
`CappedIsAudited`: the day remembered as audited was audited. `CallEnds`: the
retries end. `SpendInv`: the inductive invariant of the proofs.

*App.* `MigratedOnce`: the service runs only on a database on which each migration
was executed exactly once. `NoSendOnClosed`: nobody sends on the closed channel.
`CleanExit`: without a timeout nothing is left running or queued.
`ListenFailureShows`: a failed listener is visible in the exit status.
`ExitsOnSignal`: a signal ends the process. `AppInv`: the inductive invariant of
the proofs, types included.

### Bounds

What the environment may do without end is limited by budgets in the MC modules
(emails, faults, crashes, folder moves, retention sweeps, hold toggles); the
goroutines themselves are not limited.

- `races`, `liveness`, `stranded`: one submission, one worker beside the sweeper,
  two asks, two or three rows. The claims, the one-pending index and the repeat
  gate all work per submission, so its owners are what must race. Three emails
  and three rows are enough for a reply to be superseded during its send and
  followed by a new row; two faults for a send that was accepted and reported as
  failed, followed by a failed statement. Escalation copies and retention are left
  to `timed`, which has one of either.
- `timed`: two submissions, two workers and a channel of one, so that the channel
  is full while a second reply is committed. `RetryAfter`, `Window` and `TTL` are
  one tick: a row is due, not due or expired. Rows, asks, workers and submissions
  are symmetric; no liveness property is checked there.
- `lifecycle_races`: one submission, since every pass acts on its rows one by one.
  Thresholds are 0 to 2 ticks and ages stop at 4, past the largest sum compared.
- `quiet`: two submissions and a batch of one, so that either can be kept out of the
  list by the other; two emails, a fault, a crash and a hold. The bind-date pass, which
  can only add nudges, is off.
- `poller`: eight messages: a batch of two poisoned ones, a good one behind them and its
  redelivery, one too large, one unparseable, and last one that panics and one that
  outlasts the timeout. Two attempts, one fault and one crash, at any step.
- `ingest`: four sets of four out of nine messages: the first of an account, a
  second one about the same account without thread headers and for the other line
  of business, answers that overtake what they answer or cite two threads, mail
  that names no line, a hard bounce, an automatic reply and a question without
  attachments. One thing besides happens, at any point: a message is not marked read,
  a statement fails, a reply is dead-lettered, the process crashes, or the worker lists
  a row, which it then writes back at any later point.
- `spend`: three days, a cap of 3, answers that cost up to 2, three attempts, two
  faults of the table.
- `app`: three migrations that may ship in any order of versions, all five
  goroutines, two reply workers and a channel of two, over any number of starts.
  Deadlock is checked here, in `spend` and in the lifecycle runs; elsewhere the
  budgets or the messages run out.

## Fairness

Nothing is assumed of brokers, of people at the agency, of the mail server or of
failures; each may stop at any time. What is assumed:

- `Outbox`: weak fairness of the poller, of each worker, of the sweeper with its
  sends, and of time. The goroutines are scheduled by the Go runtime, every
  blocking call has a time limit, the tickers fire. A send that fails may do so
  only as often as the fault budget says, which is below `MaxAttempts`.
- `Lifecycle`: weak fairness of the poller's commit, of the worker's check and of
  time, for the same reason.
- `Poller`: weak fairness of the polling loop. After a crash this includes the
  restart, which `Restart=always` of the systemd unit provides.
- `Spend`: weak fairness of the call and of its start.
- `App`: weak fairness of `main` while it migrates and while it shuts down, and of
  `enqueueReply`, which never blocks; strong fairness of `Close`, because a
  `sync.RWMutex` lets no reader overtake a waiting writer forever. Nothing is
  assumed of the other goroutines: each may be stuck in a call for good, which
  is what the time limits of the shutdown are for.

## Proofs

`tlapm <module>.tla` checks the proofs of a module. They hold for every number of
submissions, asks, rows, workers, messages and days, every channel size and every
threshold, under the assumptions named in the modules that declare the constants
(`BoundsAssumption`, `NoneAssumption`, `CountsAssumption` and so on: bounds are
naturals, sentinels are not members of the sets they stand beside). Two say more:
`MailAssumption` of `Ingest`, that finitely many messages arrive and that a message
either has no `Message-ID` or one of its own; and `AppAssumption` of `App`, that
migration files are numbered from 1, as the repository's are. The proof needed the
latter: the model starts its pass over the files behind file 0. No budget limits
the theorems: they are about `Spec`, not about the MC modules.

| Theorem | Module | Establishes |
|---|---|---|
| `OutboxInvariant`, `TypeCorrect` | `OutboxProofs` | `OutboxInv` and the types |
| `ClaimsSound`, `OneOwner` | `OutboxProofs` | `ClaimsAccounted`, `SingleOwner` |
| `NoRepeat` | `OutboxProofs` | `NoUnexplainedRepeat` |
| `NoLostReply` | `OutboxProofs` | `SentWasDelivered` |
| `KillSwitch` | `OutboxProofs` | `KillSwitchSilent` |
| `OutboxKeepsPromise` | `OutboxProofs` | the outbox implements `Delivery` |
| `LifecycleInvariant`, `StampsCorrect` | `LifecycleProofs` | `LifecycleInv`, `StampsMatchState` |
| `MailFits`, `CompletionKept` | `LifecycleProofs` | `MailAlwaysFits`, `CompletionDateKept` |
| `PollerInvariant`, `PollerTypes` | `PollerProofs` | `PollerInv` and the types |
| `NoMessageHidden`, `FiledAfterRead` | `PollerProofs` | `ReadMeansHandled`, `FiledIsRead` |
| `IngestInvariant`, `IngestTypes` | `IngestProofs` | `IngestInv` and the types |
| `MissingIsRight`, `MailIsRelated` | `IngestProofs` | `MissingMatchesDocuments`, `OnlyRelatedMail` |
| `SplitsAudited`, `AskedOnce` | `IngestProofs` | `SplitIsAudited`, `ClarifiedOnce` |
| `SpendInvariant`, `AnswersAccounted` | `SpendProofs` | `SpendInv`, `AnswersRecorded` |
| `CapIsKept`, `CapIsAudited` | `SpendProofs` | `CapHolds`, `CappedIsAudited` |
| `AppInvariant`, `MigrationsRunOnce` | `AppProofs` | `AppInv`, `MigratedOnce` |
| `ChannelSafe`, `ExitIsClean` | `AppProofs` | `NoSendOnClosed`, `CleanExit` |
| `ListenFailureExits` | `AppProofs` | `ListenFailureShows` |

### The arguments

*Outbox.* `ClaimsAccounted` is not inductive: that a claim is released by its
owner only follows if owners are distinct (`SingleOwner`), and that nobody sends a
text twice only if one knows what each goroutine's copy still says about the row
it came from. `OutboxInv` therefore adds `RowsWellFormed` and `OnePending` (the
table and its unique index); `PollCoherent`, `QueueCoherent` and `SenderCoherent`,
which relate the copy of a row in each goroutine to the table by version and
text; `PendingUnsent`, that the text of a pending row was not sent except
unrecorded; and `SilentWhenDisabled`. `OutboxTypes` proves that each action keeps
the types and the sentinels, `OutboxSteps` what the steps of the claims and copies
and the steps that write rows preserve, and `OutboxProofs` puts them together, one
step per action.

*Delivery.* The mapping takes `asked` to the texts some row has held, `waiting`
and `recorded` to the last texts of pending and sent rows, `received` to
`delivered` and `forgotten` to `unrecorded`. Each action of `Outbox` is shown to
be one abstract step or a stutter; the invariant is used for the stale copies,
for which the code's comparison of versions decides that the abstract state is
unchanged.

*Lifecycle.* A stale write can put an old state into a row together with old
stamps, so the invariant needs that every copy in flight (`PollCoherent`,
`ListCoherent`) is itself a row whose stamps match its state.

*Poller.* `InHand` says what is known of the message between two steps of
`process`: that it was ingested or is hopeless before it is marked, and read
before it is filed.

*Ingest.* The lemmas follow the functions of the code: what `EvaluateChecklist` leaves
open (`ChecklistLacks`), what `evaluate` and `contentMatch` return (`EvaluatedRow`,
`MergedRow`), which submission an email ends up in (`Resolved`); then one lemma per
step (`EmailStep`, `FindStep`, `MergeStep`, `CommitStep`, `UpsertStep`, ...).

None of the properties is inductive, because a commit writes what was computed steps
before. `JobInv` says of the ingest in progress what its commit needs: that the gaps in
its copy are those of the documents the submission will have (`RowInv`), that the
emails it answers or that answer it are under its submission or the thread is
recorded as ambiguous (`Unsplit`), and that the sender and insured by which it was
matched are still those of the row, or the row has lost its insured (`Named`). The
last holds across the worker's writes because of `ListedInv`: every copy the worker
holds has the sender of its row and the row's insured or none, so a stale write can
take the name back, and never bring another one. `JobKept` states once which writes of the
other goroutines keep all this.

`SplitIsAudited` also needs that a stored email has the headers it came with and that
every submission has an email (`EmailInv`): an answer that comes second finds the row
of the first by its id, and one that comes first is found by the id it cites.
`ClarifiedOnce` needs `AskInv`: as long as the line of business is unknown the
submission remembers the question, by which the repeat gate suppresses the next one,
and once it is known it is not forgotten; both end where the row was replaced or its
fingerprint cleared (`hist.forgot`), and nowhere else. `OnlyRelatedMail` is about the
step that files an email; only `Commit` does (`OnlyCommitFiles`).
That a latest submission exists among those that match is shown by induction over
finite sets (`SetInduction`), which is itself derived from the well-foundedness of
strict inclusion.

*Spend.* A call that was admitted below the cap may be recorded later, after
midnight too; `SpendInv` keeps room for the running call, says that later days
are still empty and that the attempts left are bounded. `AnswersRecorded` speaks of
the sum of the daily totals. It is stated as the number of units in the table, one
pair of a day and a number for each, so that a recording adds that many elements
to a finite set and no recursive sum is needed.

*App.* `MigrationInv` ties `schema_migrations` to what was executed: a body in an
open transaction is the only one executed and not recorded, and the files up to the
current one are done. `PoolInv` says what the wait group counts and that whoever
hands a reply over holds the lock that `Close` needs, so `Shutdown` closes the
channel only when nobody is between the check and the send. `ShutdownInv` keeps what
each wait has seen: what ended is not started again, unless a timer ended the wait.

### Only model-checked

Every safety invariant and action property that a passing run checks is also a
theorem. Liveness is checked by TLC only, because it needs fairness and `ENABLED`,
which the provers do not handle: `ReplyGoesOut`, `ClaimsReleased`,
`HoldFollowsFolder`, `EventuallyClosed`, `QuietIsEscalated`, `GoodMailIngested`,
`PoisonQuarantined`, `CallEnds` and `ExitsOnSignal`. The three counterexamples below
are TLC's, too.

## Where code and documentation disagree

Three runs end in a counterexample, to something the repository itself says:

- `stranded`: releasing a hold expires the pending reply but keeps
  `last_reply_hash` (`internal/service/submissions.go:1178`). The next email with
  the same gaps is then taken for a repeat and not answered, although the broker
  never got the request; line 1176 says "The next inbound email or escalation
  queues a reply that reflects where the case is now."
- `poller_retry`: an ingest that outlasts the poll timeout fails, and
  `RecordFailure` then runs on the same expired context
  (`internal/delivery/imap/poller.go:292`). The failure is never counted, so the
  message is retried at every poll; lines 284-285 want to exclude that it "would
  reprocess, and re-pay its LLM cost, every tick forever".
- `bounced`: a hard bounce keeps `last_reply_hash`, so the broker's next email with
  the same gaps clears the bounce and is suppressed as unchanged
  (`internal/service/submissions.go:425`); lines 352-353 promise that it "lets one
  reply through". The test of this (`control_identity_test.go:143`) starts from a
  submission without a last reply.

The following was met while modelling and follows from the models' actions, but
has no run of its own. `S` is `internal/service/submissions.go`.

| Where | What the code does |
|---|---|
| S:1172 | between clearing `on_hold` and expiring the pending rows, the sweeper may send the reply that was pending before the hold |
| S:915 | the sweeper reads the holds once per batch; a hold set during the batch does not stop it |
| S:464 | the spacing of replies uses `last_reply_at` as it was when the ingest read the submission; a reply that goes out meanwhile does not delay the next |
| S:431 | the repeat gate knows the last reply queued: A sent, B queued and replaced by A sends A again |
| S:1066 | `escalate` writes a stale copy, so a submission completed meanwhile becomes escalated, and its missing items, line of business, insured and `last_reply_hash` are again those of the copy, although its documents stay |
| S:1134 | `closeQuiet` does the same to a submission an email has just arrived for |
| S:961, S:1066 | a dead-lettered reply may have reached the broker, and `ClearReplyHash` clears whatever reply was queued last; after either, or after a stale write, the question for the line of business goes out again, although `.env.example:143-144` says "repeat suppression means one" |
| S:1763 | the audit entries of an ingest are written after its commit and a failure is only logged; a crash in between loses them too, and the message is a duplicate when it is read again. S:183-190 calls a dropped trail unrecoverable |
| S:1017 | a hold set after the listing does not stop escalation or closing in that pass |
| S:1012 | 100 awaiting submissions that only the agency can act on, idle longest, fill `ListStale` and keep the others from being nudged until they are closed, which `AWAITING_AUTO_CLOSE_AFTER_HOURS=0` turns off; `README.md:122` says "it nudges submissions that go quiet" |
| `internal/delivery/imap/client.go:149` | messages that panic, or one that outlasts the poll timeout, stay at the front of every batch, and the mail behind them is not reached |
| S:556 | a redelivered email with an ambiguous thread may be filed, with its documents, under a second submission, although `poller.go:255` relies on "ingest is idempotent" |
| S:723 | documents of an email whose line of business is unknown are not stored |
| S:796 | past its time limits the shutdown closes the database beside running replies |
| `internal/repository/submissions.go:700` | the hash cleared for a dead-lettered reply comes back if a goroutine with an older copy writes the row |
| `internal/repository/outbox.go:91` | a superseding text inherits the attempts of the one it replaces |
| `internal/repository/outbox.go:119` | 100 due rows on hold or bounced keep the sweeper from all later ones |
| `internal/delivery/imap/client.go:260` | an unavailable Hold folder counts as empty and releases every hold |
| `internal/delivery/imap/poller.go:272` | a message ingested in a poll that failed to mark it is a duplicate at the next and is not filed |
| `internal/infrastructure/llm/anthropic.go:384` | the total is compared before a call and the cost added after it, so a day passes its cap by up to one call (`CapHolds`), and the cap is not enforced while the total cannot be read; `README.md:222-225` calls it "a hard ceiling per day" |
| the same file, `auditCapOnce` | after a restart the same day is audited once more |
| `internal/app/app.go:163` | an error of `server.Shutdown` is only logged: handlers past its timeout run on beside the rest of the shutdown |
| `internal/service/retention.go:77` | "prunes at startup": the first sweep comes after one interval |

## Not modelled

Of the modelled parts:

- *Outbox*: rows that do not decode and are dead-lettered by `ListPending`; the
  batch limit of 100 (it matters only with that many blocked rows, see above); the
  order of the channel, which is a set here because no property depends on it; the
  retries inside one SMTP session; the scan limit of the Hold folder.
- *Lifecycle*: the rounding of the bind date to midnight UTC; the reason codes
  recorded with a transition.
- *Poller*: a change of `UIDVALIDITY`; people moving messages out of the inbox;
  the probe window of 500 messages.
- *Ingest*: what a classifier, a text extractor or the model answers is part of the
  message or a choice. Which application names the insured, if several do, is a
  choice. Which rows the escalation worker lists, and when it acts on them, is any; the
  conditions are in `Lifecycle`.
- *Spend*: the length of a delay and its jitter, prompts, decoding.
- *App*: the wiring in `build.go` is one step that succeeds or fails. Of the HTTP handlers,
  which only read, nothing is kept but that some may outlast `server.Shutdown`; then
  `late` is set and `CleanExit` and `ListenFailureShows` promise nothing.
- *Audit log*: only the entries about ambiguous threads (`Ingest`) and refused model calls
  (`Spend`) are modelled; no other part reads the rest back.

Not modelled at all: the digest, which no other part reads back;
attachment extraction, classification scores and MIME parsing, which are stateless
conversions of bytes by libraries or keyword tables; the loading of checklists and
configuration, which are the constants of the models; OAuth, which is an exchange
with a third party; the health endpoint, which only reads. These hold no state that
a step of another goroutine could find changed.

The widths of integers play no role: counters are attempts and versions, far from
64 bits. Amounts of money are floating-point in the code and natural numbers here;
rounding is not modelled.
