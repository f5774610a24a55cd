------------------------------- MODULE Outbox -------------------------------
(***************************************************************************)
(* The durable reply outbox of the triage service: the mail poller that    *)
(* queues a reply in the same transaction as the inbound email, the pool   *)
(* of reply workers that sends it at once, the outbox sweeper that sends   *)
(* what the pool did not, the Hold folder, the escalation worker that      *)
(* rewrites a submission row from an older read, retention, and crashes.   *)
(*                                                                         *)
(* Every statement against the database is one step; what a goroutine read *)
(* in an earlier statement it keeps in its own record, so other goroutines *)
(* may change the row in between.                                          *)
(*                                                                         *)
(* Time is kept as countdowns: a timestamp the code compares with "now" is *)
(* the time left until the comparison flips, and Tick lets time pass.      *)
(***************************************************************************)
EXTENDS Naturals, FiniteSets

CONSTANTS
  Subs,         \* submissions
  Asks,         \* what a reply asks for: its fingerprint stands for its text
  RowIds,       \* ids of outbox rows (fresh UUIDs)
  Workers,      \* goroutines of the reply pool
  Sweeper,      \* the outbox worker's goroutine
  None,         \* "no submission", "no ask", "no row"
  QueueSize,    \* capacity of the replyJobs channel
  MaxAttempts,  \* outboxMaxAttempts
  RetryAfter,   \* outboxRetryAfter, in ticks
  Window,       \* coalesceWindow, in ticks
  TTL           \* OutboxPendingTTL, in ticks; 0 turns expiry off

ASSUME NoneAssumption == None \notin Subs \cup Asks \cup RowIds

ASSUME SweeperAssumption == Sweeper \notin Workers

ASSUME BoundsAssumption ==
  /\ QueueSize \in Nat
  /\ MaxAttempts \in Nat \ {0}
  /\ RetryAfter \in Nat
  /\ Window \in Nat
  /\ TTL \in Nat

VARIABLES
  \* the database
  rows,         \* the outbox table
  hash,         \* submissions.last_reply_hash
  bounced,      \* submissions.delivery_failed
  onHold,       \* submissions.on_hold
  cool,         \* time until submissions.last_reply_at + coalesceWindow
  \* the process
  dispatching,  \* the claim map: submissions whose reply somebody owns
  queue,        \* jobs in the replyJobs channel
  sender,       \* what each worker, and the sweeper, is sending
  sweep,        \* RedeliverOutbox: the listed rows and the blocked submissions
  poll,         \* the poller's email, and its copy of the submission
  recon,        \* ReconcileHold: what is left to do
  esc,          \* the escalation worker's copy of a submission
  enabled,      \* REPLIES_ENABLED, fixed while the process runs
  \* the mail server's Hold folder, as the submissions with a message in it
  folder,
  \* history, read by the properties only
  delivered,    \* texts the broker has been sent, as <<row, generation>>
  unrecorded,   \* those of them whose sending the service failed to record
  lastGot,      \* the ask of the last reply sent on each submission
  preHold       \* texts that were pending when their submission was put on hold

db == <<rows, hash, bounced, onHold, cool>>
hist == <<delivered, unrecorded, lastGot, preHold>>
vars == <<db, dispatching, queue, sender, sweep, poll, recon, esc, enabled,
          folder, hist>>

Senders == Workers \cup {Sweeper}

-----------------------------------------------------------------------------
(* The outbox table.                                                       *)

\* "gen" counts the texts the row has held; it is history, no column of the
\* table.  "ver" stands for updated_at, which every write advances.
NoRow == [status |-> "none", sub |-> None, ask |-> None, attempts |-> 0,
          ver |-> 0, gen |-> 0, wait |-> 0, backoff |-> 0, life |-> 0]

Pending(r) == rows[r].status = "pending"

PendingOf(s) == {r \in RowIds : Pending(r) /\ rows[r].sub = s}

\* ListPending: due, and past the retry backoff if it was attempted before.
Due(r) ==
  /\ Pending(r)
  /\ rows[r].wait = 0
  /\ rows[r].attempts = 0 \/ rows[r].backoff = 0

\* created_at < now - TTL is strict, hence the extra tick.
Life == IF TTL > 0 THEN TTL + 1 ELSE 0

\* insertOutboxRow without a conflict: a new pending row.
NewRow(s, a, w) ==
  [status |-> "pending", sub |-> s, ask |-> a, attempts |-> 0, ver |-> 1,
   gen |-> 1, wait |-> w, backoff |-> RetryAfter, life |-> Life]

\* insertOutboxRow on the pending row of the same submission: the text and
\* the schedule change; id, attempts and created_at stay.
Superseded(row, a, w) ==
  [row EXCEPT !.ask = a, !.wait = w, !.backoff = RetryAfter,
              !.ver = @ + 1, !.gen = @ + 1]

\* Where insertOutboxRow writes: the pending row of s, or a fresh id.
InsertTargets(s) ==
  IF PendingOf(s) # {} THEN PendingOf(s)
                       ELSE {r \in RowIds : rows[r].status = "none"}

Inserted(r, s, a, w) ==
  IF Pending(r) THEN Superseded(rows[r], a, w) ELSE NewRow(s, a, w)

\* Mutant: no unique index on the pending rows of a submission.
UpdatedUnindexed(r, status, n) ==
  IF rows[r].status = "pruned"
    THEN rows
    ELSE [rows EXCEPT ![r].status = status, ![r].attempts = n,
                      ![r].backoff = RetryAfter, ![r].ver = @ + 1]

\* Update, by row id alone: whatever the row's status is by now, unless the
\* row is gone.  A second pending row of the submission breaks the unique
\* index, and the caller ignores the error.
Updated(r, status, n) ==
  IF \/ rows[r].status = "pruned"
     \/ status = "pending" /\ PendingOf(rows[r].sub) \ {r} # {}
    THEN rows
    ELSE [rows EXCEPT ![r].status = status, ![r].attempts = n,
                      ![r].backoff = RetryAfter, ![r].ver = @ + 1]

\* Mutant: MarkSent without the version guard.
MarkedSentAnyVersion(r, v) ==
  IF Pending(r)
    THEN [rows EXCEPT ![r].status = "sent", ![r].ver = @ + 1]
    ELSE rows

\* MarkSent: only while the row is pending and unchanged since it was read.
MarkedSent(r, v) ==
  IF Pending(r) /\ rows[r].ver = v
    THEN [rows EXCEPT ![r].status = "sent", ![r].ver = @ + 1]
    ELSE rows

\* ExpirePending and ExpirePendingForSubmissions.
Expired(R) ==
  [r \in RowIds |->
     IF r \in R /\ Pending(r)
       THEN [rows[r] EXCEPT !.status = "failed", !.ver = @ + 1]
       ELSE rows[r]]

-----------------------------------------------------------------------------
(* The process's memory at start.                                          *)

NoJob == [pc |-> "idle", sub |-> None, row |-> None, ver |-> 0, gen |-> 0,
          ask |-> None, attempts |-> 0]

NoSweep == [pc |-> "idle", list |-> {}, blocked |-> {}]

NoMail == [pc |-> "idle", sub |-> None, ask |-> None, hash |-> None,
           bounced |-> FALSE, held |-> FALSE, cool |-> 0, owns |-> FALSE,
           due |-> FALSE, row |-> None, ver |-> 0, gen |-> 0]

NoRecon == [pc |-> "idle", hold |-> {}, release |-> {}]

NoCopy == [sub |-> None, hash |-> None, bounced |-> FALSE]

Init ==
  /\ rows = [r \in RowIds |-> NoRow]
  /\ hash = [s \in Subs |-> None]
  /\ bounced = [s \in Subs |-> FALSE]
  /\ onHold = [s \in Subs |-> FALSE]
  /\ cool = [s \in Subs |-> 0]
  /\ dispatching = {}
  /\ queue = {}
  /\ sender = [x \in Senders |-> NoJob]
  /\ sweep = NoSweep
  /\ poll = NoMail
  /\ recon = NoRecon
  /\ esc = NoCopy
  /\ enabled \in BOOLEAN
  /\ folder = {}
  /\ delivered = {}
  /\ unrecorded = {}
  /\ lastGot = [s \in Subs |-> None]
  /\ preHold = {}

-----------------------------------------------------------------------------
(* The poller: one email at a time (ingestEmailInner).                     *)

PollerIdle == poll.pc = "idle" /\ recon.pc = "idle"

Release(s) == dispatching' = dispatching \ {s}

\* delivery_failed as the email leaves it in the poller's copy: a permanent
\* bounce sets it, any other mail on the thread clears it.  A transient
\* bounce, and a new thread merged by content, keep what they found.
BouncedAfter(kind, was) ==
  CASE kind = "bounce" -> TRUE
    [] kind = "transient" -> was
    [] kind = "merged" -> was
    [] OTHER -> FALSE

\* Only mail from a person can lead to a reply.
MayAsk(kind) == kind \in {"broker", "merged"}

\* The submission is loaded; classifying and checking the email then takes
\* as long as it takes.  "a" is the reply buildReply makes of it, if any.
IngestLoad(s, kind, a) ==
  /\ PollerIdle
  /\ MayAsk(kind) \/ a = None
  /\ poll' = [NoMail EXCEPT !.pc = "loaded", !.sub = s, !.ask = a,
                !.hash = hash[s], !.bounced = BouncedAfter(kind, bounced[s]),
                !.held = onHold[s], !.cool = cool[s]]
  /\ UNCHANGED <<db, dispatching, queue, sender, sweep, recon, esc, enabled,
                 folder, hist>>

\* Mutant: the kill switch is not consulted.
SuppressedUnlessDisabled ==
  \/ poll.bounced
  \/ poll.held
  \/ poll.ask = poll.hash

\* replySuppressed, and the repeat gate.
Suppressed ==
  \/ ~enabled
  \/ poll.bounced
  \/ poll.held
  \/ poll.ask = poll.hash

\* Mutant: a submission with nothing to ask for is not kept from the outbox.
NoReplyOnlyWhenSuppressed == Suppressed

NoReply == poll.ask = None \/ Suppressed

\* persistBounce, persistSuppressed, persistNoReply: the submission row is
\* written back from the poller's copy.
IngestPersist ==
  /\ poll.pc = "loaded"
  /\ NoReply
  /\ hash' = [hash EXCEPT ![poll.sub] = poll.hash]
  /\ bounced' = [bounced EXCEPT ![poll.sub] = poll.bounced]
  /\ poll' = NoMail
  /\ UNCHANGED <<rows, onHold, cool, dispatching, queue, sender, sweep, recon,
                 esc, enabled, folder, hist>>

\* The transaction failed: nothing is stored, the email stays unread.
IngestPersistFails ==
  /\ poll.pc = "loaded"
  /\ NoReply
  /\ poll' = NoMail
  /\ UNCHANGED <<db, dispatching, queue, sender, sweep, recon, esc, enabled,
                 folder, hist>>

\* Mutant: the result of claimDispatch is ignored.
IngestClaimAlways ==
  /\ poll.pc = "loaded"
  /\ ~NoReply
  /\ poll' = [poll EXCEPT !.pc = "claimed", !.due = (poll.cool = 0),
                          !.owns = TRUE]
  /\ dispatching' = dispatching \cup {poll.sub}
  /\ UNCHANGED <<db, queue, sender, sweep, recon, esc, enabled, folder, hist>>

\* claimDispatch, before the row exists.
IngestClaim ==
  /\ poll.pc = "loaded"
  /\ ~NoReply
  /\ poll' = [poll EXCEPT !.pc = "claimed", !.due = (poll.cool = 0),
                          !.owns = (poll.sub \notin dispatching)]
  /\ dispatching' = dispatching \cup {poll.sub}
  /\ UNCHANGED <<db, queue, sender, sweep, recon, esc, enabled, folder, hist>>

\* UpsertSubmissionWithReply: submission and outbox row in one transaction.
\* The whole copy is written except on_hold and last_reply_at.
IngestCommit ==
  /\ poll.pc = "claimed"
  /\ \E r \in InsertTargets(poll.sub) :
       LET row == Inserted(r, poll.sub, poll.ask, poll.cool)
       IN  /\ rows' = [rows EXCEPT ![r] = row]
           /\ poll' = [poll EXCEPT !.pc = "committed", !.row = r,
                                   !.ver = row.ver, !.gen = row.gen]
  /\ hash' = [hash EXCEPT ![poll.sub] = poll.ask]
  /\ bounced' = [bounced EXCEPT ![poll.sub] = poll.bounced]
  /\ UNCHANGED <<onHold, cool, dispatching, queue, sender, sweep, recon, esc,
                 enabled, folder, hist>>

\* Mutant: a failed commit keeps the claim.
IngestCommitFailsKeepsClaim ==
  /\ poll.pc = "claimed"
  /\ poll' = NoMail
  /\ UNCHANGED <<db, dispatching, queue, sender, sweep, recon, esc, enabled,
                 folder, hist>>

IngestCommitFails ==
  /\ poll.pc = "claimed"
  /\ IF poll.owns THEN Release(poll.sub) ELSE UNCHANGED dispatching
  /\ poll' = NoMail
  /\ UNCHANGED <<db, queue, sender, sweep, recon, esc, enabled, folder, hist>>

\* A reply that is due goes to the pool, the claim with it ...
CanEnqueue ==
  /\ poll.owns
  /\ poll.due
  /\ Cardinality(queue) < QueueSize

IngestEnqueue ==
  /\ poll.pc = "committed"
  /\ CanEnqueue
  /\ queue' = queue \cup
       {[sub |-> poll.sub, row |-> poll.row, ver |-> poll.ver,
         gen |-> poll.gen, ask |-> poll.ask]}
  /\ poll' = NoMail
  /\ UNCHANGED <<db, dispatching, sender, sweep, recon, esc, enabled, folder,
                 hist>>

\* ... any other is left to the sweeper, and a claim taken is given back.
IngestLeave ==
  /\ poll.pc = "committed"
  /\ ~CanEnqueue
  /\ IF poll.owns THEN Release(poll.sub) ELSE UNCHANGED dispatching
  /\ poll' = NoMail
  /\ UNCHANGED <<db, queue, sender, sweep, recon, esc, enabled, folder, hist>>

-----------------------------------------------------------------------------
(* The poller: the Hold folder, after the inbox (ReconcileHold).           *)

\* Mutant: nothing is ever released.
HoldScanNeverReleases(found) ==
  LET held == {s \in Subs : onHold[s]}
  IN  /\ PollerIdle
      /\ found \ held # {}
      /\ recon' = [pc |-> "hold", hold |-> found \ held, release |-> {}]
      /\ UNCHANGED <<db, dispatching, queue, sender, sweep, poll, esc, enabled,
                     folder, hist>>

\* The scan, then the submissions to hold and to release.
HoldScan(found) ==
  LET held == {s \in Subs : onHold[s]}
  IN  /\ PollerIdle
      /\ found # held
      /\ recon' = [pc |-> "hold", hold |-> found \ held,
                   release |-> held \ found]
      /\ UNCHANGED <<db, dispatching, queue, sender, sweep, poll, esc, enabled,
                     folder, hist>>

\* A folder the server will not select counts as empty (ScanFolder).
HoldScanUnavailable == HoldScan({})

HoldSet ==
  /\ recon.pc = "hold"
  /\ onHold' = [s \in Subs |-> onHold[s] \/ s \in recon.hold]
  /\ preHold' = preHold \cup
       {<<r, rows[r].gen>> : r \in {q \in RowIds : /\ Pending(q)
                                                  /\ rows[q].sub \in recon.hold}}
  /\ recon' = [recon EXCEPT !.pc = "release"]
  /\ UNCHANGED <<rows, hash, bounced, cool, dispatching, queue, sender, sweep,
                 poll, esc, enabled, folder, delivered, unrecorded, lastGot>>

HoldRelease ==
  /\ recon.pc = "release"
  /\ onHold' = [s \in Subs |-> onHold[s] /\ s \notin recon.release]
  /\ recon' = [recon EXCEPT !.pc = "expire"]
  /\ UNCHANGED <<rows, hash, bounced, cool, dispatching, queue, sender, sweep,
                 poll, esc, enabled, folder, hist>>

\* What was queued before the hold is dropped.
HoldExpire ==
  /\ recon.pc = "expire"
  /\ rows' = Expired({r \in RowIds : rows[r].sub \in recon.release})
  /\ recon' = NoRecon
  /\ UNCHANGED <<hash, bounced, onHold, cool, dispatching, queue, sender,
                 sweep, poll, esc, enabled, folder, hist>>

\* A failed statement ends this tick's reconciliation; the next tick starts
\* over from the folder.
HoldFails ==
  /\ recon.pc # "idle"
  /\ recon' = NoRecon
  /\ UNCHANGED <<db, dispatching, queue, sender, sweep, poll, esc, enabled,
                 folder, hist>>

-----------------------------------------------------------------------------
(* Sending, in a reply worker or in the sweeper.                           *)

\* A worker takes a job off the channel.
Take(w, job) ==
  /\ sender[w].pc = "idle"
  /\ queue' = queue \ {job}
  /\ sender' = [sender EXCEPT ![w] =
       [pc |-> "sending", sub |-> job.sub, row |-> job.row, ver |-> job.ver,
        gen |-> job.gen, ask |-> job.ask, attempts |-> 0]]
  /\ UNCHANGED <<db, dispatching, sweep, poll, recon, esc, enabled, folder,
                 hist>>

Text(x) == <<sender[x].row, sender[x].gen>>

\* The mail server has the reply.
Accepted(x) ==
  /\ delivered' = delivered \cup {Text(x)}
  /\ lastGot' = [lastGot EXCEPT ![sender[x].sub] = sender[x].ask]

\* The deferred releaseDispatch.
Finish(x) ==
  /\ sender' = [sender EXCEPT ![x] = NoJob]
  /\ Release(sender[x].sub)

\* deliver: SendThreadedReply succeeds.
Send(x) ==
  /\ sender[x].pc = "sending"
  /\ Accepted(x)
  /\ sender' = [sender EXCEPT ![x].pc = "recording"]
  /\ UNCHANGED <<db, dispatching, queue, sweep, poll, recon, esc, enabled,
                 folder, unrecorded, preHold>>

\* deliver fails.  The server may still have taken the message: its answer
\* was lost.  A worker leaves the row to the sweeper, the sweeper counts the
\* attempt.
SendFails(x, taken) ==
  /\ sender[x].pc = "sending"
  /\ IF taken
       THEN Accepted(x) /\ unrecorded' = unrecorded \cup {Text(x)}
       ELSE UNCHANGED <<delivered, unrecorded, lastGot>>
  /\ IF x = Sweeper
       THEN /\ sender' = [sender EXCEPT ![x].pc = "updating"]
            /\ UNCHANGED dispatching
       ELSE Finish(x)
  /\ UNCHANGED <<db, queue, sweep, poll, recon, esc, enabled, folder, preHold>>

\* deliver: SetLastReplyAt.  A failure is only logged.
Record(x) ==
  /\ sender[x].pc = "recording"
  /\ cool' = [cool EXCEPT ![sender[x].sub] = Window]
  /\ sender' = [sender EXCEPT ![x].pc = "marking"]
  /\ UNCHANGED <<rows, hash, bounced, onHold, dispatching, queue, sweep, poll,
                 recon, esc, enabled, folder, hist>>

RecordFails(x) ==
  /\ sender[x].pc = "recording"
  /\ sender' = [sender EXCEPT ![x].pc = "marking"]
  /\ UNCHANGED <<db, dispatching, queue, sweep, poll, recon, esc, enabled,
                 folder, hist>>

\* MarkSent with the version the sender read, then the claim is released.
Mark(x) ==
  /\ sender[x].pc = "marking"
  /\ rows' = MarkedSent(sender[x].row, sender[x].ver)
  /\ Finish(x)
  /\ UNCHANGED <<hash, bounced, onHold, cool, queue, sweep, poll, recon, esc,
                 enabled, folder, hist>>

MarkFails(x) ==
  /\ sender[x].pc = "marking"
  /\ unrecorded' = unrecorded \cup {Text(x)}
  /\ Finish(x)
  /\ UNCHANGED <<db, queue, sweep, poll, recon, esc, enabled, folder,
                 delivered, lastGot, preHold>>

-----------------------------------------------------------------------------
(* The sweeper: RedeliverOutbox and redeliverOne.                          *)

SweepList ==
  /\ sweep.pc = "idle"
  /\ enabled
  /\ \E r \in RowIds : Due(r)
  /\ sweep' = [pc |-> "listed", list |-> {r \in RowIds : Due(r)},
               blocked |-> {}]
  /\ UNCHANGED <<db, dispatching, queue, sender, poll, recon, esc, enabled,
                 folder, hist>>

\* blockedSubmissions, once for the whole batch.
SweepBlocked ==
  /\ sweep.pc = "listed"
  /\ sweep' = [sweep EXCEPT !.pc = "walking",
       !.blocked = {s \in Subs : /\ \E r \in sweep.list : rows[r].sub = s
                                 /\ onHold[s] \/ bounced[s]}]
  /\ UNCHANGED <<db, dispatching, queue, sender, poll, recon, esc, enabled,
                 folder, hist>>

Walking == sweep.pc = "walking" /\ sender[Sweeper].pc = "idle"

\* Mutant: the sweeper does not look at the claims.
PassedIfBlocked(r) == rows[r].sub \in sweep.blocked

Passed(r) == rows[r].sub \in sweep.blocked \cup dispatching

SweepSkip(r) ==
  /\ Walking
  /\ r \in sweep.list
  /\ Passed(r)
  /\ sweep' = [sweep EXCEPT !.list = @ \ {r}]
  /\ UNCHANGED <<db, dispatching, queue, sender, poll, recon, esc, enabled,
                 folder, hist>>

SweepClaim(r) ==
  /\ Walking
  /\ r \in sweep.list
  /\ ~Passed(r)
  /\ sweep' = [sweep EXCEPT !.list = @ \ {r}]
  /\ dispatching' = dispatching \cup {rows[r].sub}
  /\ sender' = [sender EXCEPT ![Sweeper] =
       [NoJob EXCEPT !.pc = "claimed", !.sub = rows[r].sub, !.row = r]]
  /\ UNCHANGED <<db, queue, poll, recon, esc, enabled, folder, hist>>

SweepDone ==
  /\ Walking
  /\ sweep.list = {}
  /\ sweep' = NoSweep
  /\ UNCHANGED <<db, dispatching, queue, sender, poll, recon, esc, enabled,
                 folder, hist>>

\* Mutant: the row is sent as listed, whatever became of it since.
SweepSendListed ==
  LET job == sender[Sweeper]
      row == rows[job.row]
  IN  /\ job.pc = "claimed"
      /\ sender' = [sender EXCEPT ![Sweeper] =
           [job EXCEPT !.pc = "sending", !.ver = row.ver, !.gen = row.gen,
                       !.ask = row.ask, !.attempts = row.attempts]]
      /\ UNCHANGED <<db, dispatching, queue, sweep, poll, recon, esc, enabled,
                     folder, hist>>

\* GetPending, under the claim: the row as it is now.
SweepReread ==
  LET job == sender[Sweeper]
      row == rows[job.row]
  IN  /\ job.pc = "claimed"
      /\ IF Pending(job.row)
           THEN /\ sender' = [sender EXCEPT ![Sweeper] =
                     [job EXCEPT !.pc = "sending", !.ver = row.ver,
                                 !.gen = row.gen, !.ask = row.ask,
                                 !.attempts = row.attempts]]
                /\ UNCHANGED dispatching
           ELSE Finish(Sweeper)
      /\ UNCHANGED <<db, queue, sweep, poll, recon, esc, enabled, folder, hist>>

\* Either lookup can fail: the batch, or the row, waits for the next sweep.
SweepBlockedFails ==
  /\ sweep.pc = "listed"
  /\ sweep' = NoSweep
  /\ UNCHANGED <<db, dispatching, queue, sender, poll, recon, esc, enabled,
                 folder, hist>>

SweepRereadFails ==
  /\ sender[Sweeper].pc = "claimed"
  /\ Finish(Sweeper)
  /\ UNCHANGED <<db, queue, sweep, poll, recon, esc, enabled, folder, hist>>

LastAttempt == sender[Sweeper].attempts + 1 >= MaxAttempts

\* The failed attempt is counted; the last one dead-letters the row.
SweepUpdate ==
  LET job == sender[Sweeper]
      status == IF LastAttempt THEN "failed" ELSE "pending"
  IN  /\ job.pc = "updating"
      /\ rows' = Updated(job.row, status, job.attempts + 1)
      /\ IF LastAttempt
           THEN /\ sender' = [sender EXCEPT ![Sweeper].pc = "clearing"]
                /\ UNCHANGED dispatching
           ELSE Finish(Sweeper)
      /\ UNCHANGED <<hash, bounced, onHold, cool, queue, sweep, poll, recon,
                     esc, enabled, folder, hist>>

SweepUpdateFails ==
  /\ sender[Sweeper].pc = "updating"
  /\ IF LastAttempt
       THEN /\ sender' = [sender EXCEPT ![Sweeper].pc = "clearing"]
            /\ UNCHANGED dispatching
       ELSE Finish(Sweeper)
  /\ UNCHANGED <<db, queue, sweep, poll, recon, esc, enabled, folder, hist>>

\* ClearReplyHash: the ask never reached the broker, so it may be made again.
SweepClear ==
  /\ sender[Sweeper].pc = "clearing"
  /\ hash' = [hash EXCEPT ![sender[Sweeper].sub] = None]
  /\ Finish(Sweeper)
  /\ UNCHANGED <<rows, bounced, onHold, cool, queue, sweep, poll, recon, esc,
                 enabled, folder, hist>>

SweepClearFails ==
  /\ sender[Sweeper].pc = "clearing"
  /\ Finish(Sweeper)
  /\ UNCHANGED <<db, queue, sweep, poll, recon, esc, enabled, folder, hist>>

-----------------------------------------------------------------------------
(* The escalation worker, retention, restarts and time.                    *)

\* CheckEscalations and CheckClosures list whole submission rows ...
EscalationList(s) ==
  /\ ~onHold[s]
  /\ esc' = [sub |-> s, hash |-> hash[s], bounced |-> bounced[s]]
  /\ UNCHANGED <<db, dispatching, queue, sender, sweep, poll, recon, enabled,
                 folder, hist>>

\* ... and write the changed copy back, all but on_hold and last_reply_at.
EscalationUpsert ==
  /\ esc # NoCopy
  /\ hash' = [hash EXCEPT ![esc.sub] = esc.hash]
  /\ bounced' = [bounced EXCEPT ![esc.sub] = esc.bounced]
  /\ esc' = NoCopy
  /\ UNCHANGED <<rows, onHold, cool, dispatching, queue, sender, sweep, poll,
                 recon, enabled, folder, hist>>

\* PruneRetention, first half: pending rows created more than TTL ago.
RetentionExpire ==
  LET old == {r \in RowIds : Pending(r) /\ rows[r].life = 0}
  IN  /\ TTL > 0
      /\ old # {}
      /\ rows' = Expired(old)
      /\ UNCHANGED <<hash, bounced, onHold, cool, dispatching, queue, sender,
                     sweep, poll, recon, esc, enabled, folder, hist>>

\* PruneRetention, second half: a settled row past the audit retention is
\* deleted.  That retention is not timed here; any settled row may be old.
RetentionPrune(r) ==
  /\ rows[r].status \in {"sent", "failed"}
  /\ rows' = [rows EXCEPT ![r].status = "pruned"]
  /\ UNCHANGED <<hash, bounced, onHold, cool, dispatching, queue, sender,
                 sweep, poll, recon, esc, enabled, folder, hist>>

\* Somebody drags a message of s into the Hold folder, or out of it.
FolderMove(s) ==
  /\ folder' = IF s \in folder THEN folder \ {s} ELSE folder \cup {s}
  /\ UNCHANGED <<db, dispatching, queue, sender, sweep, poll, recon, esc,
                 enabled, hist>>

\* The process dies and starts again, perhaps with another REPLIES_ENABLED.
\* A reply sent but not yet marked is one whose sending went unrecorded.
Crash ==
  /\ dispatching' = {}
  /\ queue' = {}
  /\ sender' = [x \in Senders |-> NoJob]
  /\ sweep' = NoSweep
  /\ poll' = NoMail
  /\ recon' = NoRecon
  /\ esc' = NoCopy
  /\ enabled' \in BOOLEAN
  /\ unrecorded' = unrecorded \cup
       {Text(x) : x \in {y \in Senders : sender[y].pc \in {"recording", "marking"}}}
  /\ UNCHANGED <<db, folder, delivered, lastGot, preHold>>

Less(n) == IF n > 0 THEN n - 1 ELSE 0

TimeMatters ==
  \/ \E r \in RowIds : rows[r].wait + rows[r].backoff + rows[r].life > 0
  \/ \E s \in Subs : cool[s] > 0
  \/ poll.cool > 0

Tick ==
  /\ TimeMatters
  /\ rows' = [r \in RowIds |->
       [rows[r] EXCEPT !.wait = Less(@), !.backoff = Less(@), !.life = Less(@)]]
  /\ cool' = [s \in Subs |-> Less(cool[s])]
  /\ poll' = [poll EXCEPT !.cool = Less(@)]
  /\ UNCHANGED <<hash, bounced, onHold, dispatching, queue, sender, sweep,
                 recon, esc, enabled, folder, hist>>

-----------------------------------------------------------------------------
(* The system.                                                             *)

Kinds == {"broker", "merged", "auto", "bounce", "transient"}

\* An email arrives and the poller picks it up.
Mail(kinds) ==
  \E s \in Subs, kind \in kinds, a \in Asks \cup {None} : IngestLoad(s, kind, a)

Poller ==
  \/ IngestPersist
  \/ IngestClaim
  \/ IngestCommit
  \/ IngestEnqueue
  \/ IngestLeave
  \/ HoldScan(folder)
  \/ HoldSet
  \/ HoldRelease
  \/ HoldExpire

Worker(w) == \E job \in queue : Take(w, job)

Deliver(x) ==
  \/ Send(x)
  \/ Record(x)
  \/ Mark(x)

Sweep ==
  \/ SweepList
  \/ SweepBlocked
  \/ \E r \in RowIds : SweepSkip(r) \/ SweepClaim(r)
  \/ SweepDone
  \/ SweepReread
  \/ SweepUpdate
  \/ SweepClear

\* What the process does when nothing fails.
Work ==
  \/ Poller
  \/ \E w \in Workers : Worker(w)
  \/ \E x \in Senders : Deliver(x)
  \/ Sweep
  \/ EscalationUpsert
  \/ RetentionExpire

\* One statement, or one send, fails.
Fault ==
  \/ IngestPersistFails
  \/ IngestCommitFails
  \/ HoldScanUnavailable
  \/ HoldFails
  \/ \E x \in Senders : \/ \E taken \in BOOLEAN : SendFails(x, taken)
                        \/ RecordFails(x)
                        \/ MarkFails(x)
  \/ SweepBlockedFails
  \/ SweepRereadFails
  \/ SweepUpdateFails
  \/ SweepClearFails

Next ==
  \/ Mail(Kinds)
  \/ Work
  \/ Fault
  \/ \E s \in Subs : EscalationList(s)
  \/ \E r \in RowIds : RetentionPrune(r)
  \/ \E s \in Subs : FolderMove(s)
  \/ Crash
  \/ Tick

Spec == Init /\ [][Next]_vars

\* Goroutines are scheduled and the tickers fire: the poller, each worker,
\* the sweeper and the clock keep going.  Nothing is assumed of the broker,
\* of the people at the agency, or of failures.
Fairness ==
  /\ WF_vars(Poller)
  /\ \A w \in Workers : WF_vars(Worker(w) \/ Deliver(w))
  /\ WF_vars(Sweep \/ Deliver(Sweeper))
  /\ WF_vars(Tick)

FairSpec == Spec /\ Fairness

-----------------------------------------------------------------------------
(* Properties.                                                             *)

Rows == [status : {"none", "pending", "sent", "failed", "pruned"},
         sub : Subs \cup {None}, ask : Asks \cup {None}, attempts : Nat,
         ver : Nat, gen : Nat, wait : Nat, backoff : Nat, life : Nat]

JobRecords == [sub : Subs, row : RowIds, ver : Nat, gen : Nat, ask : Asks]

SenderRecords ==
  [pc : {"idle", "claimed", "sending", "recording", "marking", "updating",
         "clearing"},
   sub : Subs \cup {None}, row : RowIds \cup {None}, ver : Nat, gen : Nat,
   ask : Asks \cup {None}, attempts : Nat]

MailRecords ==
  [pc : {"idle", "loaded", "claimed", "committed"}, sub : Subs \cup {None},
   ask : Asks \cup {None}, hash : Asks \cup {None}, bounced : BOOLEAN,
   held : BOOLEAN, cool : Nat, owns : BOOLEAN, due : BOOLEAN,
   row : RowIds \cup {None}, ver : Nat, gen : Nat]

\* Every variable keeps its type.
TypeOK ==
  /\ rows \in [RowIds -> Rows]
  /\ hash \in [Subs -> Asks \cup {None}]
  /\ bounced \in [Subs -> BOOLEAN]
  /\ onHold \in [Subs -> BOOLEAN]
  /\ cool \in [Subs -> Nat]
  /\ dispatching \subseteq Subs
  /\ queue \subseteq JobRecords
  /\ sender \in [Senders -> SenderRecords]
  /\ sweep \in [pc : {"idle", "listed", "walking"}, list : SUBSET RowIds,
                blocked : SUBSET Subs]
  /\ poll \in MailRecords
  /\ recon \in [pc : {"idle", "hold", "release", "expire"},
                hold : SUBSET Subs, release : SUBSET Subs]
  /\ esc \in [sub : Subs \cup {None}, hash : Asks \cup {None},
              bounced : BOOLEAN]
  /\ enabled \in BOOLEAN
  /\ folder \subseteq Subs
  /\ delivered \subseteq RowIds \X Nat
  /\ unrecorded \subseteq RowIds \X Nat
  /\ lastGot \in [Subs -> Asks \cup {None}]
  /\ preHold \subseteq RowIds \X Nat

Busy == {x \in Senders : sender[x].pc # "idle"}

\* The reply of a submission has one owner at a time: the poller that is
\* committing it, a job in the channel, a worker, or the sweeper
\* (claimDispatch: "exclusive ownership of a submission's outbound reply").
SingleOwner ==
  /\ \A x, y \in Busy : sender[x].sub = sender[y].sub => x = y
  /\ \A j, k \in queue : j.sub = k.sub => j = k
  /\ \A x \in Busy, j \in queue : sender[x].sub # j.sub
  /\ poll.owns => /\ \A x \in Busy : sender[x].sub # poll.sub
                  /\ \A j \in queue : j.sub # poll.sub

\* No claim outlives its owner and no owner lacks one: on every path, error
\* paths included, the claim map holds exactly the submissions whose reply
\* is being committed, queued or sent.  A leaked claim would silence its
\* submission until the next restart.
ClaimsAccounted ==
  dispatching = {s \in Subs : \/ poll.owns /\ poll.sub = s
                              \/ \E j \in queue : j.sub = s
                              \/ \E x \in Busy : sender[x].sub = s}

\* A text is about to be sent a second time only if the first sending went
\* unrecorded: the process died, or the database failed, between the send
\* and MarkSent, or the mail server's answer was lost.  Neither the sweeper's
\* stale list nor a superseded or resurrected row repeats a reply.
NoUnexplainedRepeat ==
  \A x \in Senders :
    sender[x].pc = "sending" => Text(x) \notin delivered \ unrecorded

\* A row is marked sent only if the text it holds now was sent: a follow-up
\* that replaced the text during the send "stays pending rather than being
\* lost to a stale mark-sent" (MarkSent).
SentWasDelivered ==
  \A r \in RowIds :
    rows[r].status = "sent" => <<r, rows[r].gen>> \in delivered

\* While REPLIES_ENABLED is false nothing is sent, and nothing is queued that
\* a later start could send.
KillSwitchSilent ==
  [][~enabled => /\ delivered' = delivered
                 /\ \A r \in RowIds : rows'[r].gen = rows[r].gen]_vars

\* "If it's mid-reply when the machine restarts, the reply still goes out"
\* (README.md:127).  A queued reply, or the text that replaces it, is sent in
\* the end, across crashes and lost races for the claim, if fewer sends fail
\* than MaxAttempts, the submission did not bounce, and the text was not
\* pending when a hold was set.
ReplyGoesOut ==
  \A r \in RowIds :
    Pending(r) ~> \/ <<r, rows[r].gen>> \in delivered
                  \/ ~enabled
                  \/ <<r, rows[r].gen>> \in preHold
                  \/ \E s \in Subs : rows[r].sub = s /\ bounced[s]

\* Every claim is given back: nobody stays the owner of a reply forever.
ClaimsReleased == \A s \in Subs : s \in dispatching ~> s \notin dispatching

\* "Folder membership is the state" (ReconcileHold): once people stop moving
\* the messages, on_hold follows the Hold folder for good, whatever failed
\* in between.
HoldFollowsFolder ==
  \A s \in Subs : /\ <>[](s \in folder) => <>[]onHold[s]
                  /\ <>[](s \notin folder) => <>[]~onHold[s]

-----------------------------------------------------------------------------
(* What the outbox promises (Delivery).                                    *)

\* The texts a row has held; the last one of a pending row waits, that of a
\* sent row is recorded.
Asked ==
  UNION {{<<rows[r].sub, <<r, g>>>> : g \in 1 .. rows[r].gen} : r \in RowIds}

LastTexts(status) ==
  {<<r, rows[r].gen>> : r \in {q \in RowIds : rows[q].status = status}}

Promise == INSTANCE Delivery WITH
  asked <- Asked, waiting <- LastTexts("pending"), recorded <- LastTexts("sent"),
  received <- delivered, forgotten <- unrecorded

\* The outbox keeps the promise of Delivery: across crashes, failed statements,
\* stale lists, superseded and resurrected rows, every step of the goroutines is
\* a step of the abstract service or changes nothing that it speaks of.
KeepsPromise == Promise!Spec

-----------------------------------------------------------------------------
(* What the documentation says, and the code does not keep.                *)

\* The repeat gate suppresses only what the broker has, or is about to get
\* (redeliverOne: let the ask be made again "rather than having the
\* repeat-suppression gate strand the submission"): when nobody is at work
\* on the submission, the ask in last_reply_hash was sent or is pending.
AskNotStranded ==
  \A s \in Subs :
    hash[s] # None /\ s \notin dispatching /\ PollerIdle =>
      \/ lastGot[s] = hash[s]
      \/ \E r \in PendingOf(s) : rows[r].ask = hash[s]

-----------------------------------------------------------------------------
(* The inductive invariant behind those properties.                        *)

\* The texts whose sending the service could not have forgotten.
Known == delivered \ unrecorded

\* A row id is used for one submission; its texts are numbered from 1 and
\* only a text the row has held was ever sent.
RowsWellFormed ==
  /\ \A r \in RowIds : rows[r].status # "none" =>
       rows[r].sub \in Subs /\ rows[r].ask \in Asks
  /\ \A d \in delivered : /\ rows[d[1]].status # "none"
                          /\ d[2] <= rows[d[1]].gen
  /\ \A r \in sweep.list : rows[r].status # "none"

\* The partial unique index on the pending rows.
OnePending ==
  \A r, q \in RowIds :
    Pending(r) /\ Pending(q) /\ rows[r].sub = rows[q].sub => r = q

\* What the holder of a claim read of row r, with the row as it is now: the
\* version it read is still current exactly when the text is.
ReadOf(s, r, v, g) ==
  /\ r \in RowIds
  /\ rows[r].status # "none"
  /\ rows[r].sub = s
  /\ g <= rows[r].gen
  /\ v <= rows[r].ver
  /\ v = rows[r].ver => g = rows[r].gen
  /\ Pending(r) /\ g = rows[r].gen => v = rows[r].ver

\* A reply with an owner but not yet being sent.
JobCoherent(s, r, v, g) == ReadOf(s, r, v, g) /\ <<r, g>> \notin Known

PollCoherent ==
  /\ poll.owns => poll.pc \in {"claimed", "committed"}
  /\ poll.pc # "idle" => poll.sub \in Subs
  /\ poll.pc \in {"claimed", "committed"} => poll.ask \in Asks
  /\ poll.pc = "committed" => poll.row \in RowIds
  /\ poll.pc = "committed" /\ poll.owns =>
       JobCoherent(poll.sub, poll.row, poll.ver, poll.gen)

QueueCoherent == \A j \in queue : JobCoherent(j.sub, j.row, j.ver, j.gen)

\* The last conjunct keeps the sweeper from bringing back, by counting a
\* failed attempt, a row whose text has been sent.
SenderCoherentAt(x) ==
  LET job == sender[x]
  IN  /\ job.sub \in Subs
      /\ job.row \in RowIds
      /\ rows[job.row].status # "none"
      /\ rows[job.row].sub = job.sub
      /\ job.pc \in {"claimed", "updating", "clearing"} => x = Sweeper
      /\ job.pc \in {"sending", "recording", "marking"} =>
           job.ask \in Asks /\ ReadOf(job.sub, job.row, job.ver, job.gen)
      /\ job.pc = "sending" => Text(x) \notin Known
      /\ job.pc \in {"recording", "marking"} => Text(x) \in delivered
      /\ x = Sweeper /\ job.pc \in {"sending", "updating"} =>
           <<job.row, rows[job.row].gen>> \notin Known

SenderCoherent == \A x \in Busy : SenderCoherentAt(x)

\* A pending row whose text was sent is about to be marked by its sender.
PendingUnsent ==
  \A r \in RowIds :
    Pending(r) /\ <<r, rows[r].gen>> \in Known =>
      \E x \in Senders : /\ sender[x].pc \in {"recording", "marking"}
                         /\ sender[x].row = r
                         /\ sender[x].gen = rows[r].gen

SilentWhenDisabled ==
  ~enabled => /\ queue = {}
              /\ Busy = {}
              /\ sweep.pc = "idle"
              /\ poll.pc \in {"idle", "loaded"}

\* The strengthening of NoUnexplainedRepeat and SentWasDelivered that every
\* step of the service preserves.
OutboxInv ==
  /\ TypeOK
  /\ RowsWellFormed
  /\ OnePending
  /\ SingleOwner
  /\ ClaimsAccounted
  /\ PollCoherent
  /\ QueueCoherent
  /\ SenderCoherent
  /\ PendingUnsent
  /\ SentWasDelivered
  /\ SilentWhenDisabled

=============================================================================
