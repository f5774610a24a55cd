------------------------------- MODULE Poller -------------------------------
(***************************************************************************)
(* The mail poller (internal/delivery/imap): one goroutine that fetches    *)
(* unread messages in batches, ingests them one at a time, marks them      *)
(* read, stars and files them, and gives up on a message that fails too    *)
(* often.  The mailbox, the table of ingested emails, the failure counts   *)
(* and the first-boot time are durable; the rest is lost in a crash.       *)
(*                                                                         *)
(* Messages are numbered in the order of delivery, which is also the order *)
(* of their UIDs, and a point in time is the number of messages delivered  *)
(* before it.  What ingesting an email does is the subject of the modules  *)
(* Outbox and Lifecycle; here it succeeds, fails, panics or takes too long.*)
(***************************************************************************)
EXTENDS Naturals, FiniteSets

CONSTANTS
  N,              \* messages that arrive
  EmailID,        \* the deterministic id of each message: redeliveries share it
  Nature,         \* what becomes of an attempt to process each message
  IgnoreBefore,   \* IMAP_IGNORE_BEFORE; Unset if not configured
  BatchLimit,     \* messages fetched in one poll
  MaxAttempts,    \* POLL_MAX_ATTEMPTS; 0 turns quarantine off
  Unset           \* no time, no message

Msgs == 1 .. N

\* "refused" is an ErrInvalidTransition, "poison" any other error that comes
\* back at every attempt, "slow" an email that outlasts IMAP_POLL_TIMEOUT.
Natures == {"good", "unparseable", "oversize", "refused", "poison", "panic",
            "slow"}

ASSUME CountsAssumption ==
  N \in Nat /\ BatchLimit \in Nat \ {0} /\ MaxAttempts \in Nat

ASSUME MessagesAssumption ==
  /\ DOMAIN EmailID = Msgs
  /\ Nature \in [Msgs -> Natures]
  /\ Unset \notin Nat
  /\ IgnoreBefore \in 0 .. N \cup {Unset}

VARIABLES
  arrived,   \* messages delivered so far
  box,       \* their flags, whether they are in the inbox, and the filed copy
  emails,    \* deterministic ids of the ingested emails
  fails,     \* the poll_failures table
  boot,      \* the first-boot time in service_meta
  poll       \* the goroutine

vars == <<arrived, box, emails, fails, boot, poll>>

Idle == [pc |-> "idle", cutoff |-> 0, batch |-> {}, msg |-> Unset,
         duplicate |-> FALSE, review |-> FALSE]

Down == [Idle EXCEPT !.pc = "down"]

Init ==
  /\ arrived = 0
  /\ box = [m \in Msgs |-> [inbox |-> FALSE, seen |-> FALSE, flagged |-> FALSE,
                            copy |-> "none"]]
  /\ emails = {}
  /\ fails = [m \in Msgs |-> 0]
  /\ boot = Unset
  /\ poll = Down

-----------------------------------------------------------------------------
(* Start, and the batch.                                                   *)

\* Mutant: the first boot is stored and not returned.
StartStamps(day) ==
  /\ poll.pc = "down"
  /\ boot' = IF boot = Unset THEN day ELSE boot
  /\ poll' = [Idle EXCEPT !.cutoff = boot]
  /\ UNCHANGED <<arrived, box, emails, fails>>

\* resolveCutoff and FirstBootAt.  IMAP compares dates, so the stored time
\* excludes the messages delivered before that day only.
Start(day) ==
  /\ poll.pc = "down"
  /\ IF IgnoreBefore # Unset
       THEN /\ boot' = boot
            /\ poll' = [Idle EXCEPT !.cutoff = IgnoreBefore]
       ELSE /\ boot' = IF boot = Unset THEN day ELSE boot
            /\ poll' = [Idle EXCEPT !.cutoff = boot']
  /\ UNCHANGED <<arrived, box, emails, fails>>

\* FirstBootAt fails: every unseen message will be ingested.
StartUncut ==
  /\ poll.pc = "down"
  /\ IgnoreBefore = Unset
  /\ poll' = Idle
  /\ UNCHANGED <<arrived, box, emails, fails, boot>>

Unseen == {m \in Msgs : box[m].inbox /\ ~box[m].seen /\ m > poll.cutoff}

Oversize == {m \in Msgs : Nature[m] = "oversize"}

\* The messages of S with the smallest numbers, up to the batch limit.
First(S) == {m \in S : Cardinality({k \in S : k < m}) < BatchLimit}

\* underCap stops early when the kept messages fill the batch's memory, with
\* one kept at least.
Probes ==
  {Unseen} \cup {P \in {{m \in Unseen : m <= k} : k \in Msgs} : P \ Oversize # {}}

\* FetchUnseen: the probed messages over the size cap are marked read, the
\* others fetched.
Fetch(P, marked) ==
  /\ poll.pc = "idle"
  /\ Unseen # {}
  /\ box' = [m \in Msgs |->
               IF m \in marked THEN [box[m] EXCEPT !.seen = TRUE] ELSE box[m]]
  /\ poll' = [poll EXCEPT !.pc = "next", !.batch = First(P \ Oversize)]
  /\ UNCHANGED <<arrived, emails, fails, boot>>

\* The size probe fails, and nothing is filtered.
FetchUnprobed ==
  /\ poll.pc = "idle"
  /\ Unseen # {}
  /\ poll' = [poll EXCEPT !.pc = "next", !.batch = First(Unseen)]
  /\ UNCHANGED <<arrived, box, emails, fails, boot>>

\* The batch is done (ReconcileHold follows, see Outbox).
BatchDone ==
  /\ poll.pc = "next"
  /\ poll.batch = {}
  /\ poll' = [Idle EXCEPT !.cutoff = poll.cutoff]
  /\ UNCHANGED <<arrived, box, emails, fails, boot>>

\* The poll timeout runs out between two messages.
Timeout ==
  /\ poll.pc = "next"
  /\ poll' = [Idle EXCEPT !.cutoff = poll.cutoff]
  /\ UNCHANGED <<arrived, box, emails, fails, boot>>

-----------------------------------------------------------------------------
(* process.                                                                *)

\* The poller turns to message m with the batch that remains.
At(pc, m) == [poll EXCEPT !.pc = pc, !.msg = m, !.batch = @ \ {m},
                          !.duplicate = FALSE, !.review = FALSE]

Turn(m) ==
  /\ poll.pc = "next"
  /\ m \in poll.batch
  /\ \A k \in poll.batch : m <= k

NextMsg == [poll EXCEPT !.pc = "next", !.msg = Unset]

\* Unparseable mail is marked read, and so is mail that its submission's state
\* does not admit (handleIngestFailure).
GiveUp(m) ==
  /\ Turn(m)
  /\ Nature[m] \in {"unparseable", "refused"}
  /\ Nature[m] = "refused" => EmailID[m] \notin emails
  /\ poll' = At("quarantine", m)
  /\ UNCHANGED <<arrived, box, emails, fails, boot>>

Parsed(m) == Turn(m) /\ Nature[m] # "unparseable"

\* resolveSubmission: the email was ingested before.
IngestDuplicate(m) ==
  /\ Parsed(m)
  /\ EmailID[m] \in emails
  /\ poll' = [At("mark", m) EXCEPT !.duplicate = TRUE]
  /\ UNCHANGED <<arrived, box, emails, fails, boot>>

IngestCommit(m, review) ==
  /\ Parsed(m)
  /\ Nature[m] \in {"good", "oversize"}
  /\ EmailID[m] \notin emails
  /\ emails' = emails \cup {EmailID[m]}
  /\ poll' = [At("mark", m) EXCEPT !.review = review]
  /\ UNCHANGED <<arrived, box, fails, boot>>

\* IngestEmail returns an error.
IngestError(m) ==
  /\ Parsed(m)
  /\ poll' = At("failed", m)
  /\ UNCHANGED <<arrived, box, emails, fails, boot>>

\* recover: the panic costs the poller this message only.
IngestPanic(m) ==
  /\ Turn(m)
  /\ poll' = [At("next", m) EXCEPT !.msg = Unset]
  /\ UNCHANGED <<arrived, box, emails, fails, boot>>

\* The poll timeout runs out during the ingest: the write fails, RecordFailure
\* fails on the same expired context, and the rest of the batch is left.
IngestTimeout(m) ==
  /\ Parsed(m)
  /\ poll' = [Idle EXCEPT !.cutoff = poll.cutoff]
  /\ UNCHANGED <<arrived, box, emails, fails, boot>>

\* Mutant: the new count is compared and not stored.
RecordFailureForgets ==
  /\ poll.pc = "failed"
  /\ poll' = IF MaxAttempts > 0 /\ fails[poll.msg] + 1 >= MaxAttempts
               THEN [poll EXCEPT !.pc = "quarantine"] ELSE NextMsg
  /\ UNCHANGED <<arrived, box, emails, fails, boot>>

\* Mutant: the message is given up one failure early.
RecordFailureEarly ==
  /\ poll.pc = "failed"
  /\ fails' = [fails EXCEPT ![poll.msg] = @ + 1]
  /\ poll' = IF MaxAttempts > 0 /\ fails'[poll.msg] + 1 >= MaxAttempts
               THEN [poll EXCEPT !.pc = "quarantine"] ELSE NextMsg
  /\ UNCHANGED <<arrived, box, emails, boot>>

\* handleIngestFailure: the durable count decides between retry and quarantine.
RecordFailure ==
  /\ poll.pc = "failed"
  /\ fails' = [fails EXCEPT ![poll.msg] = @ + 1]
  /\ poll' = IF MaxAttempts > 0 /\ fails'[poll.msg] >= MaxAttempts
               THEN [poll EXCEPT !.pc = "quarantine"] ELSE NextMsg
  /\ UNCHANGED <<arrived, box, emails, boot>>

RecordFailureFails ==
  /\ poll.pc = "failed"
  /\ poll' = NextMsg
  /\ UNCHANGED <<arrived, box, emails, fails, boot>>

Quarantine ==
  /\ poll.pc = "quarantine"
  /\ box' = [box EXCEPT ![poll.msg].seen = TRUE]
  /\ poll' = NextMsg
  /\ UNCHANGED <<arrived, emails, fails, boot>>

QuarantineFails ==
  /\ poll.pc = "quarantine"
  /\ poll' = NextMsg
  /\ UNCHANGED <<arrived, box, emails, fails, boot>>

MarkSeen ==
  /\ poll.pc = "mark"
  /\ box' = [box EXCEPT ![poll.msg].seen = TRUE]
  /\ poll' = [poll EXCEPT !.pc = "clear"]
  /\ UNCHANGED <<arrived, emails, fails, boot>>

\* Mutant: a failed mark-seen does not keep the message from being filed.
MarkSeenFailsAndFiles ==
  /\ poll.pc = "mark"
  /\ poll' = [poll EXCEPT !.pc = "clear"]
  /\ UNCHANGED <<arrived, box, emails, fails, boot>>

\* The message stays unread for the next poll.
MarkSeenFails ==
  /\ poll.pc = "mark"
  /\ poll' = NextMsg
  /\ UNCHANGED <<arrived, box, emails, fails, boot>>

\* ClearFailure, and on to the star or the folder.
ClearFailure ==
  /\ poll.pc = "clear"
  /\ fails' = [fails EXCEPT ![poll.msg] = 0]
  /\ poll' = [poll EXCEPT !.pc = IF poll.review THEN "flag" ELSE "file"]
  /\ UNCHANGED <<arrived, box, emails, boot>>

ClearFailureFails ==
  /\ poll.pc = "clear"
  /\ poll' = [poll EXCEPT !.pc = IF poll.review THEN "flag" ELSE "file"]
  /\ UNCHANGED <<arrived, box, emails, fails, boot>>

Flag ==
  /\ poll.pc = "flag"
  /\ box' = [box EXCEPT ![poll.msg].flagged = TRUE]
  /\ poll' = [poll EXCEPT !.pc = "file"]
  /\ UNCHANGED <<arrived, emails, fails, boot>>

FlagFails ==
  /\ poll.pc = "flag"
  /\ poll' = [poll EXCEPT !.pc = "file"]
  /\ UNCHANGED <<arrived, box, emails, fails, boot>>

\* A copy keeps the flags of the message.
Copied(b) == [b EXCEPT !.copy = IF b.seen THEN "read" ELSE "unread"]

\* No folder for this result, a duplicate, or filing fails at the first step.
Leave ==
  /\ poll.pc = "file"
  /\ poll' = NextMsg
  /\ UNCHANGED <<arrived, box, emails, fails, boot>>

\* fileByLadder with MOVE.
Move ==
  /\ poll.pc = "file"
  /\ ~poll.duplicate
  /\ box' = [box EXCEPT ![poll.msg] = [Copied(@) EXCEPT !.inbox = FALSE]]
  /\ poll' = NextMsg
  /\ UNCHANGED <<arrived, emails, fails, boot>>

\* fileByLadder with UIDPLUS copies, then expunges the original; a server
\* with neither only gets the copy.
Copy(uidplus) ==
  /\ poll.pc = "file"
  /\ ~poll.duplicate
  /\ box' = [box EXCEPT ![poll.msg] = Copied(@)]
  /\ poll' = IF uidplus THEN [poll EXCEPT !.pc = "expunge"] ELSE NextMsg
  /\ UNCHANGED <<arrived, emails, fails, boot>>

Expunge ==
  /\ poll.pc = "expunge"
  /\ box' = [box EXCEPT ![poll.msg].inbox = FALSE]
  /\ poll' = NextMsg
  /\ UNCHANGED <<arrived, emails, fails, boot>>

ExpungeFails ==
  /\ poll.pc = "expunge"
  /\ poll' = NextMsg
  /\ UNCHANGED <<arrived, box, emails, fails, boot>>

-----------------------------------------------------------------------------
(* Arrivals, crashes, and the system.                                      *)

Deliver ==
  /\ arrived < N
  /\ arrived' = arrived + 1
  /\ box' = [box EXCEPT ![arrived'].inbox = TRUE]
  /\ UNCHANGED <<emails, fails, boot, poll>>

Crash ==
  /\ poll.pc # "down"
  /\ poll' = Down
  /\ UNCHANGED <<arrived, box, emails, fails, boot>>

\* An error, a panic or a timeout that every attempt at the message meets.
Doomed(m) ==
  /\ EmailID[m] \notin emails
  /\ \/ Nature[m] = "poison" /\ IngestError(m)
     \/ Nature[m] = "panic" /\ IngestPanic(m)
     \/ Nature[m] = "slow" /\ IngestTimeout(m)

Begin ==
  \/ \E day \in 0 .. arrived : Start(day)
  \/ \E P \in Probes : Fetch(P, P \cap Oversize)

Process(m) ==
  \/ GiveUp(m)
  \/ IngestDuplicate(m)
  \/ \E review \in BOOLEAN : IngestCommit(m, review)
  \/ Doomed(m)

Finish ==
  \/ RecordFailure \/ Quarantine
  \/ MarkSeen \/ ClearFailure \/ Flag
  \/ Leave \/ Move \/ (\E uidplus \in BOOLEAN : Copy(uidplus)) \/ Expunge
  \/ BatchDone

Work == Begin \/ (\E m \in Msgs : Process(m)) \/ Finish

Fault ==
  \/ StartUncut
  \/ \E P \in Probes : \E marked \in SUBSET (P \cap Oversize) : Fetch(P, marked)
  \/ FetchUnprobed
  \/ Timeout
  \/ \E m \in Msgs : IngestError(m) \/ IngestPanic(m) \/ IngestTimeout(m)
  \/ RecordFailureFails \/ QuarantineFails
  \/ MarkSeenFails \/ ClearFailureFails \/ FlagFails \/ ExpungeFails

Next == Work \/ Deliver \/ Fault \/ Crash

Spec == Init /\ [][Next]_vars

\* The poller's ticker fires and its goroutine goes on; after a crash the
\* process is started again.
Fairness == WF_vars(Work)

FairSpec == Spec /\ Fairness

-----------------------------------------------------------------------------
(* Properties.                                                             *)

Flags == [inbox : BOOLEAN, seen : BOOLEAN, flagged : BOOLEAN,
          copy : {"none", "read", "unread"}]

\* Every variable keeps its type.
TypeOK ==
  /\ arrived \in 0 .. N
  /\ box \in [Msgs -> Flags]
  /\ emails \subseteq {EmailID[m] : m \in Msgs}
  /\ fails \in [Msgs -> Nat]
  /\ boot \in 0 .. N \cup {Unset}
  /\ poll \in [pc : {"down", "idle", "next", "failed", "quarantine", "mark",
                     "clear", "flag", "file", "expunge"},
               cutoff : 0 .. N, batch : SUBSET Msgs, msg : Msgs \cup {Unset},
               duplicate : BOOLEAN, review : BOOLEAN]

\* What the poller may give up without ingesting it: what cannot be read, what
\* is over the size cap or refused by its submission's state, and what was
\* counted as failed POLL_MAX_ATTEMPTS times.
Hopeless(m) ==
  \/ Nature[m] \in {"unparseable", "oversize", "refused"}
  \/ MaxAttempts > 0 /\ fails[m] >= MaxAttempts

\* A message is only marked read when its email is recorded or hopeless: no
\* order of errors, redeliveries, timeouts and crashes hides an unprocessed
\* message from later polls.
ReadMeansHandled ==
  \A m \in Msgs : box[m].seen => EmailID[m] \in emails \/ Hopeless(m)

\* "Mark \Seen BEFORE filing [...] so the filed copy stays read" (process): a
\* message in a status folder is read, was ingested, and is not fetched again
\* even where the original stays in the inbox.
FiledIsRead ==
  \A m \in Msgs : box[m].copy # "none" =>
    box[m].copy = "read" /\ box[m].seen /\ EmailID[m] \in emails

\* Mail the poller must look at: delivered since the day of the first boot,
\* or since IMAP_IGNORE_BEFORE.
Wanted(m) ==
  /\ m <= arrived
  /\ IF IgnoreBefore # Unset THEN m > IgnoreBefore ELSE boot # Unset /\ m > boot

\* A message that comes back at every poll, since its failures are not counted or
\* the count has no limit: it keeps its place in the batch, and one that takes too
\* long ends the batch.
Stuck(k) ==
  \/ Nature[k] \in {"panic", "slow"}
  \/ Nature[k] = "poison" /\ MaxAttempts = 0

\* Messages are fetched in their order, and a batch may be filled by one.
Unobstructed(m) == \A k \in Msgs : k < m => ~Stuck(k)

\* "Deriving it would make a restart after a week of downtime skip a week of
\* real mail" (resolveCutoff): mail that can be ingested is ingested in the
\* end, also if it was delivered while the process was down, and behind batches
\* of messages that fail until they are quarantined.  Only a message that is
\* never given up can keep it from being fetched.
GoodMailIngested ==
  \A m \in {k \in Msgs : Nature[k] = "good" /\ Unobstructed(k)} :
    Wanted(m) ~> EmailID[m] \in emails

\* POLL_MAX_ATTEMPTS: "one poisoned message can't reprocess every tick forever"
\* (config.go:100).  A message whose every attempt ends in an error is read in
\* the end, also if marking it fails at first, and behind others like it.
PoisonQuarantined ==
  \A m \in {k \in Msgs : /\ Nature[k] \in {"poison", "unparseable", "refused"}
                         /\ ~Stuck(k) /\ Unobstructed(k)} :
    Wanted(m) ~> box[m].seen

\* The same of every message, one whose processing panics or outlasts the poll
\* timeout included: none may "reprocess, and re-pay its LLM cost, every tick
\* forever" (handleIngestFailure).
NothingRetriedForever == \A m \in Msgs : Wanted(m) ~> box[m].seen

-----------------------------------------------------------------------------
(* The inductive invariant behind those properties.                        *)

\* What is known of the message the poller has in hand.
InHand ==
  /\ poll.pc \in {"failed", "quarantine", "mark", "clear", "flag", "file",
                  "expunge"} => poll.msg \in Msgs
  /\ poll.pc = "quarantine" =>
       EmailID[poll.msg] \in emails \/ Hopeless(poll.msg)
  /\ poll.pc \in {"mark", "clear", "flag", "file", "expunge"} =>
       EmailID[poll.msg] \in emails
  /\ poll.pc \in {"clear", "flag", "file", "expunge"} => box[poll.msg].seen

PollerInv ==
  /\ TypeOK
  /\ ReadMeansHandled
  /\ FiledIsRead
  /\ InHand

=============================================================================
