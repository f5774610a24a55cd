------------------------------ MODULE Lifecycle ------------------------------
(***************************************************************************)
(* The life of a submission: the poller that records mail on it, and the   *)
(* escalation worker that nudges, escalates and closes the quiet ones      *)
(* (CheckEscalations, CheckClosures).  Both read whole submission rows in  *)
(* one statement and write them back in a later one.                       *)
(*                                                                         *)
(* A timestamp is kept as its age in ticks, which stops at Horizon; the    *)
(* requested effective date as the ticks left until it.                    *)
(***************************************************************************)
EXTENDS Integers, FiniteSets

CONSTANTS
  Subs,           \* submissions
  Never,          \* a timestamp or date that is not set
  BindDates,      \* effective dates an application names, in ticks from now
  QuietAfter,     \* the escalation threshold of each submission's policy
  MinQuiet,       \* the smallest threshold of all policies
  BindWindow,     \* ESCALATION_BIND_WINDOW_DAYS; 0 turns the pass off
  BindGrace,      \* ESCALATION_BIND_GRACE_DAYS
  MinGap,         \* ESCALATION_MIN_GAP_HOURS
  AutoClose,      \* ESCALATION_AUTO_CLOSE_AFTER_HOURS; 0 turns it off
  StalledClose,   \* AWAITING_AUTO_CLOSE_AFTER_HOURS; 0 turns it off
  StaleBatch,     \* rows ListStale returns at most
  SweepBatch,     \* rows the other lists return at most
  MaxLag,         \* ticks that pass during one check at most
  Horizon         \* ages are not told apart beyond it

Limits == {QuietAfter[s] : s \in Subs} \cup
          {MinQuiet, BindWindow, BindGrace, MinGap, AutoClose, StalledClose}

ASSUME NeverAssumption == Never \notin Int

ASSUME DatesAssumption == BindDates \subseteq Nat

ASSUME LimitsAssumption ==
  /\ Limits \subseteq Nat
  /\ \A s \in Subs : MinQuiet <= QuietAfter[s]
  /\ StaleBatch \in Nat \ {0}
  /\ SweepBatch \in Nat \ {0}
  /\ MaxLag \in Nat
  /\ Horizon \in Nat
  /\ \A n \in Limits : Horizon > n + MaxLag

VARIABLES
  subs,   \* the submissions table
  poll,   \* the poller's email, and its copy of the submission
  esc     \* the escalation worker: the pass it is in, and the rows it listed

vars == <<subs, poll, esc>>

-----------------------------------------------------------------------------
(* Submissions.                                                            *)

States == {"open", "awaiting", "complete", "escalated", "closed"}

\* What the last checklist evaluation left outstanding: nothing, something the
\* broker can act on, or only what the agency has to look at.
Gaps == {"none", "broker", "agency"}

\* No row yet.
Absent == [state |-> "none", missing |-> "none", idle |-> 0, done |-> Never,
           escalated |-> Never, nudged |-> Never, named |-> FALSE,
           bind |-> Never, hold |-> FALSE, failed |-> FALSE]

\* NewSubmission.
NewSubmission == [Absent EXCEPT !.state = "open"]

Allowed ==
  [open      |-> {"awaiting", "complete", "escalated", "closed"},
   awaiting  |-> {"awaiting", "complete", "escalated", "closed"},
   complete  |-> {"awaiting", "closed"},
   escalated |-> {"awaiting", "complete", "closed"},
   closed    |-> {"awaiting", "complete"}]

\* Mutant: a closed submission cannot be reopened.
CanMoveUnlessClosed(sub, next) ==
  \/ sub.state = next
  \/ sub.state # "closed" /\ next \in Allowed[sub.state]

CanMove(sub, next) == sub.state = next \/ next \in Allowed[sub.state]

\* Mutant: staying in a state counts as entering it.
MovedAlways(sub, next, ago) ==
  [sub EXCEPT !.state = next,
              !.idle = ago,
              !.escalated = IF next = "escalated" THEN ago
                            ELSE IF next = "closed" THEN @ ELSE Never,
              !.done = IF next = "complete" THEN ago
                       ELSE IF next = "awaiting" THEN Never ELSE @]

\* Mutant: reopening keeps the completion date.
MovedKeepsStamps(sub, next, ago) ==
  IF sub.state = next THEN sub ELSE
    [sub EXCEPT !.state = next,
                !.idle = ago,
                !.escalated = IF next = "escalated" THEN ago
                              ELSE IF next = "closed" THEN @ ELSE Never,
                !.done = IF next = "complete" THEN ago ELSE @]

\* TransitionTo, with the time it is given "ago" ticks in the past.  Staying in
\* a state moves none of the timestamps.
Moved(sub, next, ago) ==
  IF sub.state = next THEN sub ELSE
    [sub EXCEPT !.state = next,
                !.idle = ago,
                !.escalated = IF next = "escalated" THEN ago
                              ELSE IF next = "closed" THEN @ ELSE Never,
                !.done = IF next = "complete" THEN ago
                         ELSE IF next = "awaiting" THEN Never ELSE @]

\* Mutant: the upsert leaves completed_at out.
StoredWithoutStamps(sub, copy) ==
  [copy EXCEPT !.hold = sub.hold, !.done = sub.done]

\* upsertSubmissionRow: everything but on_hold comes from the copy.
Stored(sub, copy) == [copy EXCEPT !.hold = sub.hold]

NoMail == [pc |-> "idle", sub |-> Never, kind |-> Never, copy |-> Absent]

NoCheck == [pc |-> "idle", since |-> 0, list |-> {}, handled |-> {}]

Init ==
  /\ subs = [s \in Subs |-> Absent]
  /\ poll = NoMail
  /\ esc = NoCheck

-----------------------------------------------------------------------------
(* The poller.                                                             *)

Bounces == {"bounce", "transient"}

Kinds == {"broker", "auto"} \cup Bounces

\* FindContentMatch: new mail without thread headers is merged with the open or
\* awaiting submission of the same sender and named insured.  The row itself is
\* read by a second query.
MailMatch(s) ==
  /\ poll.pc = "idle"
  /\ subs[s].state \in {"open", "awaiting"}
  /\ subs[s].named
  /\ poll' = [NoMail EXCEPT !.pc = "matched", !.sub = s, !.kind = "merged"]
  /\ UNCHANGED <<subs, esc>>

\* The submission is found or created, and the email noted in the copy:
\* MarkAction unless a machine sent it, and the hard bounce is forgotten
\* unless it is a bounce.  Merging marks an action whoever sent the mail, and
\* leaves the bounce alone.
MailLoad(s, kind) ==
  LET found == IF subs[s].state = "none" THEN NewSubmission ELSE subs[s]
  IN  /\ IF kind = "merged" THEN poll.pc = "matched" /\ poll.sub = s
                            ELSE poll.pc = "idle"
      /\ poll' = [pc |-> "loaded", sub |-> s, kind |-> kind,
                  copy |-> [found EXCEPT
                    !.idle = IF kind \in {"broker", "merged"} THEN 0 ELSE @,
                    !.failed = @ /\ kind \notin {"broker", "auto"}]]
      /\ UNCHANGED <<subs, esc>>

\* What an application document tells: nothing, or the named insured with or
\* without an effective date.
Identities == [named : {FALSE}, bind : {Never}] \cup
              [named : {TRUE}, bind : BindDates \cup {Never}]

\* evaluate and extractIdentity: what is missing now, and the account's
\* identity unless it is known already.
Evaluated(m, id) ==
  [poll.copy EXCEPT !.missing = m,
                    !.bind = IF poll.copy.named THEN @ ELSE id.bind,
                    !.named = @ \/ id.named]

\* transitionState.
StateFor(m) == IF m = "none" THEN "complete" ELSE "awaiting"

MailCommit(m, id) ==
  /\ poll.pc = "loaded"
  /\ poll.kind \notin Bounces
  /\ CanMove(poll.copy, StateFor(m))
  /\ subs' = [subs EXCEPT ![poll.sub] =
                Stored(@, Moved(Evaluated(m, id), StateFor(m), 0))]
  /\ poll' = NoMail
  /\ UNCHANGED esc

\* persistBounce: a bounce moves no state.
BounceCommit ==
  /\ poll.pc = "loaded"
  /\ poll.kind \in Bounces
  /\ subs' = [subs EXCEPT ![poll.sub] = Stored(@,
                [poll.copy EXCEPT !.failed = @ \/ poll.kind = "bounce"])]
  /\ poll' = NoMail
  /\ UNCHANGED esc

\* The transaction fails and the email stays unread, or the matched row cannot
\* be read and the email goes on as the first of a submission of its own, which
\* is another MailLoad.
MailFails ==
  /\ poll.pc # "idle"
  /\ poll' = NoMail
  /\ UNCHANGED <<subs, esc>>

\* SetOnHold, by the poller between two emails.
HoldToggle(s) ==
  /\ poll.pc = "idle"
  /\ subs[s].state # "none"
  /\ subs' = [subs EXCEPT ![s].hold = ~@]
  /\ UNCHANGED <<poll, esc>>

-----------------------------------------------------------------------------
(* The escalation worker.  A check runs its passes in order; each pass     *)
(* lists rows in one query and then walks the copies.                      *)

Following == [quiet |-> "bind", bind |-> "settled", settled |-> "escalated",
              escalated |-> "stalled", stalled |-> "idle"]

\* The two escalating passes, against the three that close.
Nudging == {"quiet", "bind"}

\* Mutant: the sweep of stalled submissions looks at awaiting ones only.
SelectedNotOpen(pass, sub, since) ==
  /\ ~sub.hold
  /\ CASE pass = "settled" ->
            AutoClose > 0 /\ sub.state = "complete" /\ sub.done - since > AutoClose
       [] pass = "escalated" -> AutoClose > 0 /\ sub.state = "escalated"
       [] pass = "stalled" ->
            /\ StalledClose > 0
            /\ sub.state = "awaiting"
            /\ sub.idle - since > StalledClose
       [] OTHER -> FALSE

\* Mutant: the list of quiet submissions has those of every state.
SelectedAnyState(pass, sub, since) ==
  /\ ~sub.hold
  /\ CASE pass = "quiet" -> sub.idle - since > MinQuiet /\ ~sub.failed
       [] pass = "bind" ->
            /\ BindWindow > 0
            /\ sub.state = "awaiting" /\ ~sub.failed
            /\ sub.bind # Never
            /\ sub.bind + since >= -BindGrace
            /\ sub.bind + since <= BindWindow
       [] OTHER -> FALSE

\* The WHERE clauses, at the time the check took for "now".
Selected(pass, sub, since) ==
  /\ ~sub.hold
  /\ CASE pass = "quiet" ->
            sub.state = "awaiting" /\ sub.idle - since > MinQuiet /\ ~sub.failed
       [] pass = "bind" ->
            /\ BindWindow > 0
            /\ sub.state = "awaiting" /\ ~sub.failed
            /\ sub.bind # Never
            /\ sub.bind + since >= -BindGrace
            /\ sub.bind + since <= BindWindow
       [] pass = "settled" ->
            /\ AutoClose > 0
            /\ sub.state = "complete"
            /\ sub.done # Never
            /\ sub.done - since > AutoClose
       [] pass = "escalated" ->
            AutoClose > 0 /\ sub.state = "escalated" /\ sub.escalated # Never
       [] pass = "stalled" ->
            /\ StalledClose > 0
            /\ sub.state \in {"open", "awaiting"}
            /\ sub.idle - since > StalledClose
       [] OTHER -> FALSE

\* The ORDER BY column: what is larger is listed first.
Rank(pass, sub) ==
  CASE pass = "bind" -> -sub.bind
    [] pass = "settled" -> sub.done
    [] pass = "escalated" -> sub.escalated
    [] OTHER -> sub.idle

Batch(pass) == IF pass = "quiet" THEN StaleBatch ELSE SweepBatch

\* The results a query may have: the first rows of the order, up to the LIMIT.
Results(pass, since) ==
  LET hits == {s \in Subs : Selected(pass, subs[s], since)}
      size == IF Cardinality(hits) < Batch(pass) THEN Cardinality(hits)
                                                ELSE Batch(pass)
  IN  {R \in SUBSET hits :
         /\ Cardinality(R) = size
         /\ \A s \in R, t \in hits \ R : Rank(pass, subs[s]) >= Rank(pass, subs[t])}

\* CheckEscalations and CheckClosures each take the time once.
Since(pass) == IF pass \in {"quiet", "settled", "idle"} THEN 0 ELSE esc.since

List(pass) ==
  \E R \in Results(pass, Since(pass)) :
    esc' = [esc EXCEPT !.pc = pass, !.since = Since(pass),
              !.list = {[sub |-> s, copy |-> subs[s]] : s \in R},
              !.handled = IF pass = "bind" THEN @ ELSE {}]

\* The ticker fires.
CheckBegin ==
  /\ esc.pc = "idle"
  /\ List("quiet")
  /\ UNCHANGED <<subs, poll>>

CheckAdvance ==
  /\ esc.pc # "idle"
  /\ esc.list = {}
  /\ List(Following[esc.pc])
  /\ UNCHANGED <<subs, poll>>

\* A query fails: the rest of CheckEscalations, or of CheckClosures, is left
\* to the next check.
CheckFails ==
  /\ \/ esc.pc = "idle" /\ esc' = [esc EXCEPT !.pc = "bind", !.since = 0,
                                              !.handled = {}]
     \/ esc.pc = "quiet" /\ esc.list = {} /\ esc' = [esc EXCEPT !.pc = "bind"]
     \/ /\ esc.pc \in {"bind", "settled", "escalated"}
        /\ esc.list = {}
        /\ esc' = NoCheck
  /\ UNCHANGED <<subs, poll>>

\* What the loop bodies look at before they act, in the copy.
Due(c) ==
  CASE esc.pc = "quiet" -> c.copy.idle - esc.since >= QuietAfter[c.sub]
    [] esc.pc = "bind" ->
         /\ c.sub \notin esc.handled
         /\ c.copy.nudged # Never => c.copy.nudged - esc.since >= MinGap
    [] esc.pc = "escalated" -> c.copy.idle - esc.since >= AutoClose
    [] OTHER -> TRUE

Target == IF esc.pc \in Nudging THEN "escalated" ELSE "closed"

\* Only what the broker can act on is escalated.
Acts(c) ==
  /\ Due(c)
  /\ esc.pc \in Nudging => c.copy.missing = "broker"
  /\ CanMove(c.copy, Target)

Walked(c) == [esc EXCEPT !.list = @ \ {c}]

\* escalate, closeQuiet: the changed copy is written back.
Write(c) ==
  LET moved == Moved(c.copy, Target, esc.since)
  IN  /\ Acts(c)
      /\ subs' = [subs EXCEPT ![c.sub] = Stored(@,
                    [moved EXCEPT !.nudged = IF esc.pc \in Nudging THEN esc.since
                                                                  ELSE @])]
      /\ esc' = [Walked(c) EXCEPT !.handled = IF esc.pc = "quiet" THEN @ \cup {c.sub}
                                                                 ELSE @]
      /\ UNCHANGED poll

WriteFails(c) ==
  /\ Acts(c)
  /\ esc' = Walked(c)
  /\ UNCHANGED <<subs, poll>>

Skip(c) ==
  /\ ~Acts(c)
  /\ esc' = Walked(c)
  /\ UNCHANGED <<subs, poll>>

-----------------------------------------------------------------------------
(* Time, restarts, and the system.                                         *)

Older(n) == IF n = Never \/ n = Horizon THEN n ELSE n + 1

Nearer(n) == IF n = Never \/ n = -Horizon THEN n ELSE n - 1

Aged(sub) == [sub EXCEPT !.idle = Older(@), !.done = Older(@),
                         !.escalated = Older(@), !.nudged = Older(@),
                         !.bind = Nearer(@)]

Tick ==
  /\ esc.pc # "idle" => esc.since < MaxLag
  /\ subs' = [s \in Subs |-> IF subs[s].state = "none" THEN Absent
                                                       ELSE Aged(subs[s])]
  /\ poll' = IF poll.pc # "loaded" THEN poll ELSE [poll EXCEPT !.copy = Aged(@)]
  /\ esc' = IF esc.pc = "idle" THEN esc ELSE
              [esc EXCEPT !.since = @ + 1,
                          !.list = {[c EXCEPT !.copy = Aged(@)] : c \in @}]

Crash ==
  /\ poll' = NoMail
  /\ esc' = NoCheck
  /\ UNCHANGED subs

Mail(kinds) ==
  \E s \in Subs : MailMatch(s) \/ \E kind \in kinds : MailLoad(s, kind)

Poller ==
  \/ \E s \in Subs : MailLoad(s, "merged")
  \/ \E m \in Gaps, id \in Identities : MailCommit(m, id)
  \/ BounceCommit

Check ==
  \/ CheckBegin
  \/ CheckAdvance
  \/ \E c \in esc.list : Write(c) \/ Skip(c)

Fault ==
  \/ MailFails
  \/ CheckFails
  \/ \E c \in esc.list : WriteFails(c)

Next ==
  \/ Mail(Kinds)
  \/ Poller
  \/ Check
  \/ Fault
  \/ \E s \in Subs : HoldToggle(s)
  \/ Crash
  \/ Tick

Spec == Init /\ [][Next]_vars

\* The poller finishes the email it has, the worker's ticker fires and its
\* check goes on, time passes.  Nothing is assumed of brokers or faults.
Fairness ==
  /\ WF_vars(Poller)
  /\ WF_vars(Check)
  /\ WF_vars(Tick)

FairSpec == Spec /\ Fairness

-----------------------------------------------------------------------------
(* Properties.                                                             *)

Ages == 0 .. Horizon

Records ==
  [state : States \cup {"none"}, missing : Gaps, idle : Ages,
   done : Ages \cup {Never}, escalated : Ages \cup {Never},
   nudged : Ages \cup {Never}, named : BOOLEAN, bind : Int \cup {Never},
   hold : BOOLEAN, failed : BOOLEAN]

\* Every variable keeps its type.
TypeOK ==
  /\ subs \in [Subs -> Records]
  /\ poll \in [pc : {"idle", "matched", "loaded"}, sub : Subs \cup {Never},
               kind : Kinds \cup {"merged", Never}, copy : Records]
  /\ esc \in [pc : {"idle"} \cup DOMAIN Following, since : 0 .. MaxLag,
              list : SUBSET [sub : Subs, copy : Records],
              handled : SUBSET Subs]

\* The timestamps a row must have, and must not have, in its state.
Stamped(sub) ==
  /\ sub.state \in {"none", "open", "awaiting"} =>
       sub.done = Never /\ sub.escalated = Never
  /\ sub.state = "complete" => sub.done # Never /\ sub.escalated = Never
  /\ sub.state = "escalated" => sub.done = Never /\ sub.escalated # Never

\* A row is always visible to the sweep that has to close it, and to no other:
\* ListCompletedBefore and ListEscalatedSince skip rows without their stamp,
\* and "reopening clears it, so a reopened case isn't closed on its old stamp"
\* (loop_prevention_test.go:274).  This holds although the poller and the
\* escalation worker overwrite each other's rows from older copies.
StampsMatchState == \A s \in Subs : Stamped(subs[s])

\* "A broker thanking us every day would otherwise defer auto-close
\* indefinitely" (ListCompletedBefore): while a submission stays complete its
\* completion date is never moved forward, whoever writes the row.
CompletionDateKept ==
  [][\A s \in Subs : subs[s].state = "complete" /\ subs'[s].state = "complete"
       => subs'[s].done >= subs[s].done]_vars

\* "Without these the message loops" (the closed state in allowed): no email
\* is ever refused because of the state its submission is in, so none is
\* retried for that reason.
MailAlwaysFits ==
  poll.pc = "loaded" /\ poll.kind \notin Bounces =>
    \A m \in Gaps : CanMove(poll.copy, StateFor(m))

\* CheckClosures: no submission "sits in every digest forever".  One that is
\* not on hold is closed in the end, whatever its state, a bounce-created open
\* one and one that no broker can help included.
EventuallyClosed ==
  \A s \in Subs : subs[s].state # "none" /\ ~subs[s].hold
                     ~> subs[s].state = "closed" \/ subs[s].hold

\* ListStale returns no more than a batch, the longest idle first, and among
\* them are submissions that escalate leaves alone, since their gaps are the
\* agency's: as many as a batch has rows, idle at least as long as s.
Crowded(s) ==
  LET ahead == {t \in Subs : /\ Selected("quiet", subs[t], 0)
                             /\ subs[t].missing = "agency"
                             /\ subs[t].idle >= subs[s].idle}
  IN  Cardinality(ahead) >= StaleBatch

\* "It nudges submissions that go quiet" (README.md:122): an awaiting
\* submission the broker can act on does not stay so in silence, whatever others
\* there are, unless those that no nudge can help fill the batch ahead of it
\* time and again.
QuietIsEscalated ==
  \A s \in Subs :
    subs[s].state = "awaiting" /\ subs[s].missing = "broker" ~>
      \/ subs[s].state # "awaiting"
      \/ subs[s].missing # "broker"
      \/ subs[s].hold
      \/ subs[s].failed
      \/ Crowded(s)

-----------------------------------------------------------------------------
(* The inductive invariant behind those properties.                        *)

\* A submission becomes complete only through the poller, so a copy it has
\* loaded is never older than the completion it would overwrite.
PollCoherent ==
  poll.pc = "loaded" =>
    /\ poll.sub \in Subs
    /\ poll.kind \in Kinds \cup {"merged"}
    /\ poll.copy.state \in States
    /\ Stamped(poll.copy)
    /\ subs[poll.sub].state = "complete" =>
         /\ poll.copy.state = "complete"
         /\ poll.copy.done = subs[poll.sub].done

\* The worker's copies carry the stamps of the state they were listed in.
ListCoherent ==
  \A c \in esc.list : c.copy.state \in States /\ Stamped(c.copy)

LifecycleInv ==
  /\ TypeOK
  /\ StampsMatchState
  /\ PollCoherent
  /\ ListCoherent

=============================================================================
