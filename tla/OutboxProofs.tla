---------------------------- MODULE OutboxProofs ----------------------------
(***************************************************************************)
(* Proofs about the reply outbox: OutboxInv is inductive, and with it every*)
(* claim has one owner, no reply is repeated unless its sending went       *)
(* unrecorded, no superseding reply is lost to a stale mark-sent, and the  *)
(* kill switch silences the service.  The outbox implements Delivery: its  *)
(* initial states map to the initial state of the abstract service, and    *)
(* each of its steps to a step of the service or to a stutter; OutboxInv   *)
(* and PromiseInv carry the argument.                                      *)
(***************************************************************************)
EXTENDS OutboxSteps

-----------------------------------------------------------------------------
(* Committing a reply.                                                     *)

\* UpsertSubmissionWithReply: the new text is unsent, and a sender of the
\* text it replaces holds a version that is no longer current.
LEMMA IngestCommitStep ==
  ASSUME OutboxInv, TypeOK', IngestCommit
  PROVE  OutboxInv'
<1> USE DEF OutboxInv
<1>1. Types /\ Types'
  BY Zenon DEF Types, TypeOK
<1>2. /\ poll.pc = "claimed"
      /\ poll.sub \in Subs
      /\ poll.ask \in Asks
      /\ poll.cool \in Nat
      /\ UNCHANGED <<delivered, unrecorded, sender, queue, dispatching, enabled, sweep>>
  BY Zenon, <1>1 DEF IngestCommit, PollCoherent, Types, MailRecords, hist
<1> DEFINE row(q) == Inserted(q, poll.sub, poll.ask, poll.cool)
<1>3. PICK r \in InsertTargets(poll.sub) :
        /\ rows' = [rows EXCEPT ![r] = row(r)]
        /\ poll' = [poll EXCEPT !.pc = "committed", !.row = r,
                                !.ver = row(r).ver, !.gen = row(r).gen]
  BY Zenon DEF IngestCommit
<1>4. /\ r \in RowIds
      /\ \A q \in RowIds \ {r} : rows'[q] = rows[q]
      /\ rows'[r].status = "pending"
      /\ rows'[r].sub = poll.sub
      /\ rows'[r].ask = poll.ask
      /\ rows'[r] = row(r)
      /\ \/ /\ Pending(r)
            /\ rows[r].sub = poll.sub
            /\ rows'[r].gen = rows[r].gen + 1
            /\ rows'[r].ver = rows[r].ver + 1
         \/ /\ rows[r].status = "none"
            /\ \A q \in RowIds : Pending(q) => rows[q].sub # poll.sub
  <2>1. rows \in [RowIds -> Rows]
    BY Zenon, <1>1 DEF Types
  <2>2. rows' = [rows EXCEPT ![r] = Inserted(r, poll.sub, poll.ask, poll.cool)]
    BY Zenon, <1>3
  <2> QED BY Zenon, <1>2, <2>1, <2>2, InsertedEffect
<1>5. /\ poll'.pc = "committed"
      /\ poll'.sub = poll.sub
      /\ poll'.ask = poll.ask
      /\ poll'.owns = poll.owns
      /\ poll'.row = r
      /\ poll'.ver = rows'[r].ver
      /\ poll'.gen = rows'[r].gen
  <2> HIDE DEF row
  <2> QED BY Zenon, <1>1, <1>3, <1>4 DEF Types, MailRecords
<1> HIDE DEF row
<1>6. /\ rows[r].gen \in Nat
      /\ rows[r].ver \in Nat
      /\ rows'[r].gen \in Nat
      /\ rows'[r].ver \in Nat
  BY Zenon, <1>1, <1>4 DEF Types, Rows
<1>7. <<r, rows'[r].gen>> \notin delivered
  BY <1>4, <1>6 DEF RowsWellFormed
<1>8. Known' = Known /\ <<r, rows'[r].gen>> \notin Known
  BY Zenon, <1>2, <1>7 DEF Known
<1>9. ASSUME NEW s, NEW q, NEW v \in Nat, NEW g \in Nat, ReadOf(s, q, v, g)
      PROVE  ReadOf(s, q, v, g)'
  BY <1>4, <1>6, <1>9 DEF ReadOf, Pending
<1>10. RowsWellFormed'
  <2>1. \A q \in RowIds : rows'[q].status # "none" =>
          rows'[q].sub \in Subs /\ rows'[q].ask \in Asks
    BY Zenon, <1>2, <1>4 DEF RowsWellFormed
  <2>2. \A d \in delivered' : /\ rows'[d[1]].status # "none"
                              /\ d[2] <= rows'[d[1]].gen
    <3> SUFFICES ASSUME NEW d \in delivered
                 PROVE  rows'[d[1]].status # "none" /\ d[2] <= rows'[d[1]].gen
      BY Zenon, <1>2
    <3>1. d[1] \in RowIds /\ d[2] \in Nat
      BY Zenon, <1>1 DEF Types
    <3>2. rows[d[1]].status # "none" /\ d[2] <= rows[d[1]].gen
      BY Zenon DEF RowsWellFormed
    <3>3. CASE d[1] = r
      BY <1>4, <1>6, <3>1, <3>2, <3>3
    <3>4. CASE d[1] # r
      BY Zenon, <1>4, <3>1, <3>2, <3>4
    <3> QED BY Zenon, <3>3, <3>4
  <2>3. \A q \in sweep'.list : rows'[q].status # "none"
    BY Zenon, <1>1, <1>2, <1>4 DEF RowsWellFormed, Types
  <2> QED BY Zenon, <2>1, <2>2, <2>3 DEF RowsWellFormed
<1>11. OnePending'
  <2>1. \A q \in RowIds : Pending(q)' /\ q # r => Pending(q) /\ rows'[q].sub = rows[q].sub
    BY Zenon, <1>4 DEF Pending
  <2>2. \A q \in RowIds : Pending(q) /\ q # r => rows[q].sub # rows'[r].sub
    BY Zenon, <1>4 DEF OnePending
  <2> QED BY Zenon, <1>4, <2>1, <2>2 DEF OnePending
<1>12. SingleOwner' /\ ClaimsAccounted'
  <2>1. Busy' = Busy
    BY Zenon, <1>2 DEF Busy
  <2>2. SingleOwner'
    BY Zenon, <1>2, <1>5, <2>1 DEF SingleOwner
  <2>3. ClaimsAccounted'
    BY Zenon, <1>2, <1>5, <2>1 DEF ClaimsAccounted
  <2> QED BY Zenon, <2>2, <2>3
<1>13. PollCoherent'
  <2>1. ReadOf(poll.sub, poll.row, poll.ver, poll.gen)'
    BY <1>4, <1>5, <1>6 DEF ReadOf
  <2>2. <<poll'.row, poll'.gen>> \notin Known'
    BY Zenon, <1>5, <1>8
  <2> QED BY Zenon, <1>2, <1>4, <1>5, <2>1, <2>2 DEF PollCoherent, JobCoherent
<1>14. QueueCoherent'
  BY Zenon, <1>1, <1>2, <1>8, <1>9 DEF QueueCoherent, JobCoherent, Types, JobRecords
<1>15. SenderCoherent'
  <2> SUFFICES ASSUME NEW x \in Busy PROVE SenderCoherentAt(x)'
    BY Zenon, <1>2 DEF SenderCoherent, Busy
  <2>1. SenderCoherentAt(x) /\ sender[x] \in SenderRecords
    BY Zenon, <1>1 DEF SenderCoherent, Busy, Types
  <2>2. /\ rows'[sender[x].row].status # "none"
        /\ rows'[sender[x].row].sub = sender[x].sub
    BY Zenon, <1>4, <2>1 DEF SenderCoherentAt
  <2>3. x = Sweeper /\ sender[x].pc \in {"sending", "updating"} =>
          <<sender[x].row, rows'[sender[x].row].gen>> \notin Known
    BY Zenon, <1>4, <1>8, <2>1 DEF SenderCoherentAt
  <2> QED BY Zenon, <1>2, <1>8, <1>9, <2>1, <2>2, <2>3
          DEF SenderCoherentAt, Text, SenderRecords
<1>16. PendingUnsent'
  BY <1>2, <1>4, <1>8 DEF PendingUnsent, Pending
<1>17. SentWasDelivered'
  BY Zenon, <1>2, <1>4 DEF SentWasDelivered
<1>18. SilentWhenDisabled'
  BY Zenon, <1>2, <1>5 DEF SilentWhenDisabled, Busy
<1> QED BY Zenon, <1>10, <1>11, <1>12, <1>13, <1>14, <1>15, <1>16, <1>17, <1>18

-----------------------------------------------------------------------------
(* The inductive invariant.                                                *)

\* Every step of the poller preserves the invariant.
LEMMA PollerStep ==
  ASSUME OutboxInv, TypeOK', Poller
  PROVE  OutboxInv'
<1>1. CASE IngestPersist
  <2>1. /\ poll.pc = "loaded"
        /\ poll' = NoMail
        /\ UNCHANGED <<rows, delivered, unrecorded, sender, queue, dispatching,
                       enabled, sweep>>
    BY Zenon, <1>1 DEF IngestPersist, hist
  <2>2. ~poll.owns
    BY Zenon, <2>1 DEF OutboxInv, PollCoherent
  <2>3. ~poll'.owns /\ poll'.pc = "idle"
    BY Zenon, <2>1 DEF NoMail
  <2> QED BY Zenon, <2>1, <2>2, <2>3, PollOnlyStep
<1>2. CASE IngestClaim
  BY Zenon, <1>2, IngestClaimStep
<1>3. CASE IngestCommit
  BY Zenon, <1>3, IngestCommitStep
<1>4. CASE IngestEnqueue
  BY Zenon, <1>4, IngestEnqueueStep
<1>5. CASE IngestLeave
  BY Zenon, <1>5, PollDropStep DEF IngestLeave, Release, NoMail, db, hist
<1>6. CASE HoldScan(folder) \/ HoldSet \/ HoldRelease
  BY Zenon, <1>6, FrameStep DEF HoldScan, HoldSet, HoldRelease, core, db, hist
<1>7. CASE HoldExpire
  <2>1. PICK R : rows' = Expired(R)
    BY Zenon, <1>7 DEF HoldExpire
  <2>2. rows \in [RowIds -> Rows]
    BY Zenon DEF OutboxInv, TypeOK
  <2>3. /\ RowsKept /\ RowsSettled
        /\ \A q \in RowIds : rows'[q].status = "sent" => rows[q].status = "sent"
    BY Zenon, <2>1, <2>2, ExpiredEffect
  <2> QED BY Zenon, <1>7, <2>3, SettleStep DEF HoldExpire, hist
<1> QED BY Zenon, <1>1, <1>2, <1>3, <1>4, <1>5, <1>6, <1>7 DEF Poller

\* Every step of a sender preserves the invariant, failures included.
LEMMA SenderStep ==
  ASSUME OutboxInv, TypeOK', NEW x \in Senders,
         \/ Deliver(x) \/ RecordFails(x) \/ MarkFails(x)
         \/ \E taken \in BOOLEAN : SendFails(x, taken)
  PROVE  OutboxInv'
<1>1. CASE Send(x)
  BY Zenon, <1>1, SendStep
<1>2. CASE Mark(x)
  BY Zenon, <1>2, MarkStep
<1>3. CASE Record(x) \/ RecordFails(x)
  <2>1. /\ x \in Busy
        /\ sender[x].pc = "recording"
        /\ sender' = [sender EXCEPT ![x].pc = "marking"]
        /\ UNCHANGED <<rows, dispatching, queue, enabled, sweep, poll,
                       delivered, unrecorded>>
    BY Zenon, <1>3 DEF Record, RecordFails, Busy, db, hist
  <2>2. Known' = Known
    BY Zenon, <2>1 DEF Known
  <2> QED BY Zenon, <2>1, <2>2, AdvanceStep
<1>4. CASE MarkFails(x)
  <2>1. /\ x \in Busy
        /\ sender[x].pc = "marking"
        /\ Finish(x)
        /\ unrecorded' = unrecorded \cup {Text(x)}
        /\ UNCHANGED <<rows, queue, poll, sweep, enabled, delivered>>
    BY Zenon, <1>4 DEF MarkFails, Busy, db
  <2>2. Known' \subseteq Known /\ Text(x) \notin Known'
    BY Zenon, <2>1 DEF Known
  <2> QED BY Zenon, <2>1, <2>2, FinishStep
<1>5. ASSUME NEW taken \in BOOLEAN, SendFails(x, taken) PROVE OutboxInv'
  <2>1. /\ x \in Busy
        /\ sender[x].pc = "sending"
        /\ UNCHANGED <<rows, queue, poll, sweep, enabled>>
    BY Zenon, <1>5 DEF SendFails, Busy, db
  <2>2. Text(x) \notin Known
    BY Zenon, <2>1 DEF OutboxInv, SenderCoherent, SenderCoherentAt
  <2>3. /\ delivered \subseteq delivered'
        /\ delivered' \subseteq delivered \cup {Text(x)}
        /\ Known' = Known
    BY Zenon, <1>5, <2>2 DEF SendFails, Accepted, Known
  <2>4. CASE x = Sweeper
    <3>1. /\ sender' = [sender EXCEPT ![x].pc = "updating"]
          /\ UNCHANGED dispatching
      BY Zenon, <1>5, <2>4 DEF SendFails
    <3> QED BY Zenon, <2>1, <2>3, <2>4, <3>1, AdvanceStep
  <2>5. CASE x # Sweeper
    <3>1. Finish(x)
      BY Zenon, <1>5, <2>5 DEF SendFails
    <3> QED BY Zenon, <2>1, <2>3, <3>1, FinishStep
  <2> QED BY Zenon, <2>4, <2>5
<1> QED BY Zenon, <1>1, <1>2, <1>3, <1>4, <1>5 DEF Deliver

\* Every step of the sweeper preserves the invariant, failures included.
LEMMA SweeperStep ==
  ASSUME OutboxInv, TypeOK',
         \/ Sweep \/ SweepBlockedFails \/ SweepRereadFails
         \/ SweepUpdateFails \/ SweepClearFails
  PROVE  OutboxInv'
<1>1. Sweeper \in Senders /\ RowsWellFormed /\ TypeOK
  BY Zenon DEF Senders, OutboxInv
<1>2. ASSUME sender[Sweeper].pc \in {"claimed", "updating", "clearing"},
             Finish(Sweeper),
             UNCHANGED <<rows, queue, poll, sweep, enabled, delivered, unrecorded>>
      PROVE  OutboxInv'
  <2>1. Sweeper \in Busy
    BY Zenon, <1>1, <1>2 DEF Busy
  <2>2. Known' = Known
    BY Zenon, <1>2 DEF Known
  <2> QED BY Zenon, <1>2, <2>1, <2>2, FinishStep
<1>3. CASE SweepList \/ SweepBlocked \/ SweepDone \/ SweepBlockedFails
  <2>1. /\ UNCHANGED <<rows, delivered, unrecorded, sender, queue, dispatching,
                       enabled, poll>>
        /\ enabled \/ sweep.pc # "idle" \/ sweep'.pc = "idle"
    BY Zenon, <1>3 DEF SweepList, SweepBlocked, SweepDone, SweepBlockedFails, Walking,
                db, hist
  <2>2. \A r \in sweep'.list : rows[r].status # "none"
    <3>1. CASE SweepList
      BY Zenon, <3>1 DEF SweepList, Due, Pending
    <3>2. CASE SweepBlocked
      BY Zenon, <1>1, <3>2 DEF SweepBlocked, RowsWellFormed, TypeOK
    <3>3. CASE SweepDone \/ SweepBlockedFails
      BY <3>3 DEF SweepDone, SweepBlockedFails, NoSweep
    <3> QED BY Zenon, <1>3, <3>1, <3>2, <3>3
  <2>3. ~enabled => sweep'.pc = "idle"
    BY Zenon, <2>1 DEF OutboxInv, SilentWhenDisabled
  <2> QED BY Zenon, <2>1, <2>2, <2>3, SweepOnlyStep
<1>4. ASSUME NEW r \in RowIds, SweepSkip(r) PROVE OutboxInv'
  <2>1. /\ UNCHANGED <<rows, delivered, unrecorded, sender, queue, dispatching,
                       enabled, poll>>
        /\ sweep.pc = "walking"
        /\ sweep'.list \subseteq sweep.list
    BY Zenon, <1>1, <1>4 DEF SweepSkip, Walking, TypeOK, db, hist
  <2>2. \A q \in sweep'.list : rows[q].status # "none"
    BY Zenon, <1>1, <2>1 DEF RowsWellFormed
  <2>3. enabled
    BY Zenon, <2>1 DEF OutboxInv, SilentWhenDisabled
  <2> QED BY Zenon, <2>1, <2>2, <2>3, SweepOnlyStep
<1>5. ASSUME NEW r \in RowIds, SweepClaim(r) PROVE OutboxInv'
  BY Zenon, <1>5, SweepClaimStep
<1>6. CASE SweepReread
  <2>1. CASE Pending(sender[Sweeper].row)
    BY Zenon, <1>6, <2>1, SweepRereadStep
  <2>2. CASE ~Pending(sender[Sweeper].row)
    BY Zenon, <1>2, <1>6, <2>2 DEF SweepReread, db, hist
  <2> QED BY Zenon, <2>1, <2>2
<1>7. CASE SweepUpdate
  BY Zenon, <1>7, SweepUpdateStep
<1>8. CASE SweepUpdateFails
  <2>1. CASE LastAttempt
    <3>1. /\ Sweeper \in Busy
          /\ sender[Sweeper].pc = "updating"
          /\ sender' = [sender EXCEPT ![Sweeper].pc = "clearing"]
          /\ UNCHANGED <<rows, dispatching, queue, enabled, sweep, poll,
                         delivered, unrecorded>>
      BY Zenon, <1>1, <1>8, <2>1 DEF SweepUpdateFails, Busy, db, hist
    <3>2. Known' = Known
      BY Zenon, <3>1 DEF Known
    <3> QED BY Zenon, <3>1, <3>2, AdvanceStep
  <2>2. CASE ~LastAttempt
    BY Zenon, <1>2, <1>8, <2>2 DEF SweepUpdateFails, db, hist
  <2> QED BY Zenon, <2>1, <2>2
<1>9. CASE SweepRereadFails \/ SweepClear \/ SweepClearFails
  BY Zenon, <1>2, <1>9 DEF SweepRereadFails, SweepClear, SweepClearFails, db, hist
<1> QED BY Zenon, <1>3, <1>4, <1>5, <1>6, <1>7, <1>8, <1>9 DEF Sweep

\* The remaining steps preserve the invariant.
LEMMA OtherStep ==
  ASSUME OutboxInv, TypeOK',
         \/ Mail(Kinds) \/ IngestPersistFails \/ IngestCommitFails
         \/ HoldScanUnavailable \/ HoldFails
         \/ EscalationUpsert \/ RetentionExpire \/ Tick
         \/ \E r \in RowIds : RetentionPrune(r)
         \/ \E s \in Subs : EscalationList(s) \/ FolderMove(s)
  PROVE  OutboxInv'
<1>1. rows \in [RowIds -> Rows]
  BY Zenon DEF OutboxInv, TypeOK
<1>2. CASE Mail(Kinds) \/ IngestPersistFails
  <2>1. /\ UNCHANGED <<rows, delivered, unrecorded, sender, queue, dispatching,
                       enabled, sweep>>
        /\ ~poll'.owns
        /\ poll'.pc \in {"idle", "loaded"}
        /\ poll'.pc # "idle" => poll'.sub \in Subs
        /\ poll.pc \in {"idle", "loaded"}
    <3>1. CASE Mail(Kinds)
      <4>1. PICK s \in Subs, kind \in Kinds, a \in Asks \cup {None} :
              IngestLoad(s, kind, a)
        BY Zenon, <3>1 DEF Mail
      <4>2. /\ UNCHANGED <<rows, delivered, unrecorded, sender, queue,
                           dispatching, enabled, sweep>>
            /\ poll.pc = "idle"
        BY Zenon, <4>1 DEF IngestLoad, PollerIdle, db, hist
      <4>3. poll'.pc = "loaded" /\ poll'.sub = s /\ poll'.owns = FALSE
        BY Zenon, <4>1 DEF IngestLoad, NoMail
      <4> QED BY Zenon, <4>2, <4>3
    <3>2. CASE IngestPersistFails
      BY Zenon, <3>2 DEF IngestPersistFails, NoMail, db, hist
    <3> QED BY Zenon, <1>2, <3>1, <3>2
  <2>2. ~poll.owns
    BY Zenon, <2>1 DEF OutboxInv, PollCoherent
  <2> QED BY Zenon, <2>1, <2>2, PollOnlyStep
<1>3. CASE IngestCommitFails
  BY Zenon, <1>3, PollDropStep DEF IngestCommitFails, Release, NoMail, db, hist
<1>4. CASE \/ HoldScanUnavailable \/ HoldFails \/ EscalationUpsert
           \/ \E s \in Subs : EscalationList(s) \/ FolderMove(s)
  BY Zenon, <1>4, FrameStep DEF HoldScanUnavailable, HoldScan, HoldFails,
     EscalationUpsert, EscalationList, FolderMove, core, db, hist
<1>5. CASE RetentionExpire
  <2>1. PICK R : rows' = Expired(R)
    BY Zenon, <1>5 DEF RetentionExpire
  <2>2. /\ RowsKept /\ RowsSettled
        /\ \A q \in RowIds : rows'[q].status = "sent" => rows[q].status = "sent"
    BY Zenon, <1>1, <2>1, ExpiredEffect
  <2> QED BY Zenon, <1>5, <2>2, SettleStep DEF RetentionExpire, hist
<1>6. CASE Tick
  <2>1. /\ RowsKept /\ RowsSettled
        /\ \A q \in RowIds : rows'[q].status = "sent" => rows[q].status = "sent"
    BY Zenon, <1>1, <1>6, TickEffect DEF RowsSettled
  <2>2. poll \in MailRecords
    BY Zenon DEF OutboxInv, TypeOK
  <2>3. UNCHANGED <<poll.pc, poll.sub, poll.ask, poll.owns, poll.row, poll.ver,
                    poll.gen>>
    BY Zenon, <1>6, <2>2 DEF Tick, MailRecords
  <2> QED BY Zenon, <1>6, <2>1, <2>3, SettleStep DEF Tick, hist
<1>7. ASSUME NEW r \in RowIds, RetentionPrune(r) PROVE OutboxInv'
  <2>1. /\ RowsKept /\ RowsSettled
        /\ \A q \in RowIds : rows'[q].status = "sent" => rows[q].status = "sent"
    BY Zenon, <1>1, <1>7, PrunedEffect
  <2> QED BY Zenon, <1>7, <2>1, SettleStep DEF RetentionPrune, hist
<1> QED BY Zenon, <1>2, <1>3, <1>4, <1>5, <1>6, <1>7

\* The invariant holds at start.
LEMMA InitOK ==
  ASSUME Init
  PROVE  OutboxInv
<1>1. NoRow \in Rows
  BY Zenon DEF NoRow, Rows
<1>2. NoJob \in SenderRecords /\ NoMail \in MailRecords
  BY Zenon DEF NoJob, NoMail, SenderRecords, MailRecords
<1>3. TypeOK
  BY Zenon, <1>1, <1>2 DEF Init, TypeOK, NoSweep, NoRecon, NoCopy
<1>4. /\ Busy = {} /\ queue = {} /\ ~poll.owns /\ poll.pc = "idle"
      /\ dispatching = {} /\ delivered = {} /\ sweep.pc = "idle"
      /\ sweep.list = {}
      /\ \A r \in RowIds : rows[r].status = "none"
  BY Zenon DEF Init, Busy, NoRow, NoJob, NoMail, NoSweep
<1> QED BY Zenon, <1>3, <1>4
    DEF OutboxInv, RowsWellFormed, OnePending, SingleOwner, ClaimsAccounted,
        PollCoherent, QueueCoherent, SenderCoherent, PendingUnsent,
        SentWasDelivered, SilentWhenDisabled, Pending, Known

\* OutboxInv is an invariant of the service, for any number of submissions,
\* workers, outbox rows and asks, any queue size and any time limits.
THEOREM OutboxInvariant == Spec => []OutboxInv
<1>1. Init => OutboxInv
  BY Zenon, InitOK
<1>2. OutboxInv /\ [Next]_vars => OutboxInv'
  <2> SUFFICES ASSUME OutboxInv, [Next]_vars PROVE OutboxInv'
    BY Zenon
  <2>1. CASE UNCHANGED vars
    <3>1. UNCHANGED core
      BY Zenon, <2>1 DEF vars, core, db, hist
    <3>2. TypeOK'
      BY Zenon, <2>1 DEF OutboxInv, TypeOK, vars, db, hist
    <3> QED BY Zenon, <3>1, <3>2, FrameStep
  <2>2. CASE Next
    <3>1. TypeOK'
      BY Zenon, <2>2, TypeStep
    <3>2. CASE Poller
      BY Zenon, <3>1, <3>2, PollerStep
    <3>3. ASSUME NEW w \in Workers, Worker(w) PROVE OutboxInv'
      BY Zenon, <3>1, <3>3, TakeStep DEF Worker
    <3>4. ASSUME NEW x \in Senders,
                 \/ Deliver(x) \/ RecordFails(x) \/ MarkFails(x)
                 \/ \E taken \in BOOLEAN : SendFails(x, taken)
          PROVE  OutboxInv'
      BY Zenon, <3>1, <3>4, SenderStep
    <3>5. CASE \/ Sweep \/ SweepBlockedFails \/ SweepRereadFails
               \/ SweepUpdateFails \/ SweepClearFails
      BY Zenon, <3>1, <3>5, SweeperStep
    <3>6. CASE \/ Mail(Kinds) \/ IngestPersistFails \/ IngestCommitFails
               \/ HoldScanUnavailable \/ HoldFails
               \/ EscalationUpsert \/ RetentionExpire \/ Tick
               \/ \E r \in RowIds : RetentionPrune(r)
               \/ \E s \in Subs : EscalationList(s) \/ FolderMove(s)
      BY Zenon, <3>1, <3>6, OtherStep
    <3>7. CASE Crash
      BY Zenon, <3>1, <3>7, CrashStep
    <3> QED BY Zenon, <2>2, <3>2, <3>3, <3>4, <3>5, <3>6, <3>7 DEF Next, Work, Fault
  <2> QED BY Zenon, <2>1, <2>2
<1> QED BY <1>1, <1>2, PTL DEF Spec

\* Type correctness.
THEOREM TypeCorrect == Spec => []TypeOK
<1>1. OutboxInv => TypeOK
  BY Zenon DEF OutboxInv
<1> QED BY <1>1, OutboxInvariant, PTL

\* claimDispatch gives every reply a single owner.
THEOREM OneOwner == Spec => []SingleOwner
<1>1. OutboxInv => SingleOwner
  BY Zenon DEF OutboxInv
<1> QED BY <1>1, OutboxInvariant, PTL

\* No error path leaks a claim or drops one that is in use (claimDispatch,
\* releaseDispatch).
THEOREM ClaimsSound == Spec => []ClaimsAccounted
<1>1. OutboxInv => ClaimsAccounted
  BY Zenon DEF OutboxInv
<1> QED BY <1>1, OutboxInvariant, PTL

\* No text is sent again once its sending was recorded: the re-read under
\* the claim and the version guard suffice, whatever the interleaving of
\* poller, workers, sweeper, retention and restarts.
THEOREM NoRepeat == Spec => []NoUnexplainedRepeat
<1>1. OutboxInv => NoUnexplainedRepeat
  BY Zenon DEF OutboxInv, SenderCoherent, SenderCoherentAt, NoUnexplainedRepeat,
         Known, Busy
<1> QED BY <1>1, OutboxInvariant, PTL

\* MarkSent never marks a text sent that was not: no superseding reply is
\* lost to a stale mark-sent.
THEOREM NoLostReply == Spec => []SentWasDelivered
<1>1. OutboxInv => SentWasDelivered
  BY Zenon DEF OutboxInv
<1> QED BY <1>1, OutboxInvariant, PTL

\* With REPLIES_ENABLED off the service neither sends a reply nor queues one.
THEOREM KillSwitch == Spec => KillSwitchSilent
<1>1. OutboxInv /\ [Next]_vars =>
        [~enabled => /\ delivered' = delivered
                     /\ \A r \in RowIds : rows'[r].gen = rows[r].gen]_vars
  <2> SUFFICES ASSUME OutboxInv, Next, ~enabled
               PROVE  /\ delivered' = delivered
                      /\ \A r \in RowIds : rows'[r].gen = rows[r].gen
    BY Zenon DEF vars
  <2>1. /\ Busy = {} /\ queue = {} /\ poll.pc \in {"idle", "loaded"}
        /\ rows \in [RowIds -> Rows]
    BY Zenon DEF OutboxInv, SilentWhenDisabled, TypeOK
  <2>2. \A x \in Senders : sender[x].pc = "idle"
    BY Zenon, <2>1 DEF Busy
  <2>3. Sweeper \in Senders
    BY Zenon DEF Senders
  <2>4. CASE RetentionExpire \/ HoldExpire
    <3>1. PICK R : rows' = Expired(R)
      BY Zenon, <2>4 DEF RetentionExpire, HoldExpire
    <3>2. RowsKept
      BY Zenon, <2>1, <3>1, ExpiredEffect
    <3> QED BY Zenon, <2>4, <3>2 DEF RetentionExpire, HoldExpire, RowsKept, hist
  <2>5. CASE Tick
    <3>1. RowsKept
      BY Zenon, <2>1, <2>5, TickEffect
    <3> QED BY Zenon, <2>5, <3>1 DEF Tick, RowsKept, hist
  <2>6. ASSUME NEW r \in RowIds, RetentionPrune(r)
        PROVE  /\ delivered' = delivered
               /\ \A q \in RowIds : rows'[q].gen = rows[q].gen
    <3>1. RowsKept
      BY Zenon, <2>1, <2>6, PrunedEffect
    <3> QED BY Zenon, <2>6, <3>1 DEF RetentionPrune, RowsKept, hist
  <2>7. CASE Mail(Kinds) \/ Crash
             \/ \E s \in Subs : EscalationList(s) \/ FolderMove(s)
    BY Zenon, <2>7 DEF Mail, IngestLoad, Crash, EscalationList, FolderMove, db, hist
  <2>8. CASE Fault
    BY Zenon, <2>1, <2>2, <2>3, <2>8
       DEF Fault, IngestPersistFails, IngestCommitFails, HoldScanUnavailable,
           HoldScan, HoldFails, SendFails, RecordFails, MarkFails,
           SweepBlockedFails, SweepRereadFails, SweepUpdateFails,
           SweepClearFails, db, hist
  <2>9. CASE Work /\ ~RetentionExpire /\ ~HoldExpire
    <3>1. CASE Poller
      BY Zenon, <2>1, <2>9, <3>1
         DEF Poller, IngestPersist, IngestClaim, IngestCommit, IngestEnqueue,
             IngestLeave, HoldScan, HoldSet, HoldRelease, db, hist
    <3>2. CASE Sweep
      BY Zenon, <2>2, <2>3, <3>2
         DEF Sweep, SweepList, SweepBlocked, SweepSkip, SweepClaim, SweepDone,
             SweepReread, SweepUpdate, SweepClear, db, hist
    <3>3. CASE \/ \E w \in Workers : Worker(w)
               \/ \E x \in Senders : Deliver(x)
               \/ EscalationUpsert
      BY Zenon, <2>1, <2>2, <3>3
         DEF Worker, Deliver, Send, Record, Mark, EscalationUpsert, hist
    <3> QED BY Zenon, <2>9, <3>1, <3>2, <3>3 DEF Work
  <2> QED BY Zenon, <2>4, <2>5, <2>7, <2>8, <2>9, <2>6 DEF Next
<1> QED BY <1>1, OutboxInvariant, PTL DEF Spec, KillSwitchSilent

-----------------------------------------------------------------------------
(* Steps that are steps of Delivery.                                       *)

\* The elements of the mapped sets, before and after a step.
LEMMA Mapped ==
  /\ \A p : p \in Asked <=>
       \E r \in RowIds : \E g \in 1 .. rows[r].gen : p = <<rows[r].sub, <<r, g>>>>
  /\ \A p : p \in Asked' <=>
       \E r \in RowIds : \E g \in 1 .. rows'[r].gen : p = <<rows'[r].sub, <<r, g>>>>
  /\ \A s, t : t \in LastTexts(s) <=>
       \E r \in RowIds : rows[r].status = s /\ t = <<r, rows[r].gen>>
  /\ \A s, t : t \in LastTexts(s)' <=>
       \E r \in RowIds : rows'[r].status = s /\ t = <<r, rows'[r].gen>>
BY DEF Asked, LastTexts

\* The texts of a submission are those of its rows.
LEMMA MappedOf ==
  ASSUME NEW s
  PROVE  \A t : t \in Promise!Of(s) <=>
           \E r \in RowIds : /\ rows[r].sub = s
                             /\ \E g \in 1 .. rows[r].gen : t = <<r, g>>
<1>1. \A t : t \in Promise!Of(s) <=> \E p \in Asked : p[1] = s /\ p[2] = t
  BY Zenon DEF Promise!Of
<1>2. ASSUME NEW t, NEW p \in Asked, p[1] = s, p[2] = t
      PROVE  \E r \in RowIds : /\ rows[r].sub = s
                              /\ \E g \in 1 .. rows[r].gen : t = <<r, g>>
  <2>1. PICK r \in RowIds : \E g \in 1 .. rows[r].gen : p = <<rows[r].sub, <<r, g>>>>
    BY <1>2, Mapped
  <2>2. PICK g \in 1 .. rows[r].gen : p = <<rows[r].sub, <<r, g>>>>
    BY Zenon, <2>1
  <2> QED BY Zenon, <1>2, <2>2
<1>3. ASSUME NEW r \in RowIds, NEW g \in 1 .. rows[r].gen, rows[r].sub = s
      PROVE  <<r, g>> \in Promise!Of(s)
  <2>1. <<s, <<r, g>>>> \in Asked
    BY Zenon, <1>3, Mapped
  <2>2. <<s, <<r, g>>>>[1] = s /\ <<s, <<r, g>>>>[2] = <<r, g>>
    BY Zenon
  <2> QED BY Zenon, <1>1, <2>1, <2>2
<1> QED BY Zenon, <1>1, <1>2, <1>3

\* insertOutboxRow: the new text waits in the place of the old one.
LEMMA QueueStep ==
  ASSUME OutboxInv, PromiseInv, IngestCommit
  PROVE  PromiseInv' /\ Promise!Next
<1>1. Types
  BY Zenon DEF OutboxInv, TypeOK, Types
<1>2. /\ poll.pc = "claimed" /\ poll.sub \in Subs /\ poll.ask \in Asks
      /\ poll.cool \in Nat
      /\ UNCHANGED <<delivered, unrecorded, sender, queue>>
  BY Zenon, <1>1 DEF IngestCommit, OutboxInv, PollCoherent, Types, MailRecords, hist
<1> DEFINE row(q) == Inserted(q, poll.sub, poll.ask, poll.cool)
<1>3. PICK r \in InsertTargets(poll.sub) :
        /\ rows' = [rows EXCEPT ![r] = row(r)]
        /\ poll' = [poll EXCEPT !.pc = "committed", !.row = r,
                                !.ver = row(r).ver, !.gen = row(r).gen]
  BY Zenon DEF IngestCommit
<1>4. /\ r \in RowIds
      /\ \A q \in RowIds \ {r} : rows'[q] = rows[q]
      /\ rows'[r].status = "pending"
      /\ rows'[r].sub = poll.sub
      /\ rows'[r] = row(r)
      /\ \/ Pending(r) /\ rows[r].sub = poll.sub /\ rows'[r].gen = rows[r].gen + 1
         \/ /\ rows[r].status = "none"
            /\ \A q \in RowIds : Pending(q) => rows[q].sub # poll.sub
  BY Zenon, <1>1, <1>2, <1>3, InsertedEffect DEF Types
<1>5. rows[r].gen \in Nat /\ rows'[r].gen = rows[r].gen + 1
  <2>1. rows[r].gen \in Nat
    BY Zenon, <1>1, <1>4 DEF Types, Rows
  <2>2. CASE rows[r].status = "none"
    <3>1. rows[r].gen = 0
      BY Zenon, <1>4, <2>2 DEF PromiseInv, TextsNumbered
    <3>2. rows'[r] = NewRow(poll.sub, poll.ask, poll.cool)
      BY Zenon, <1>4, <2>2 DEF Inserted, Pending
    <3> QED BY <3>1, <3>2 DEF NewRow
  <2> QED BY Zenon, <1>4, <2>1, <2>2
<1>6. PromiseInv'
  <2>1. poll'.gen = rows'[r].gen
    BY Zenon, <1>1, <1>3, <1>4 DEF Types, MailRecords
  <2>2. TextsNumbered'
    BY <1>2, <1>4, <1>5, <2>1 DEF PromiseInv, TextsNumbered
  <2>3. Unsettled'
    <3>1. ASSUME sender[Sweeper].pc \in {"sending", "updating"}
          PROVE  sender[Sweeper].row \in RowIds
      BY Zenon, <3>1 DEF OutboxInv, SenderCoherent, SenderCoherentAt, Busy, Senders
    <3> QED BY Zenon, <1>2, <1>4, <3>1 DEF PromiseInv, Unsettled
  <2> QED BY Zenon, <2>2, <2>3 DEF PromiseInv
<1> DEFINE t == <<r, rows'[r].gen>>
<1>7. \A p \in Asked : p[2] # t
  BY <1>5, Mapped
<1>8. Asked' = Asked \cup {<<poll.sub, t>>}
  <2>1. \A g : g \in 1 .. rows'[r].gen <=> g \in 1 .. rows[r].gen \/ g = rows'[r].gen
    BY <1>5
  <2>2. ASSUME NEW p \in Asked' PROVE p \in Asked \cup {<<poll.sub, t>>}
    <3>1. PICK q \in RowIds : \E g \in 1 .. rows'[q].gen : p = <<rows'[q].sub, <<q, g>>>>
      BY Mapped
    <3>2. CASE q # r
      BY Zenon, <1>4, <3>1, <3>2, Mapped
    <3>3. CASE q = r
      <4>1. PICK g \in 1 .. rows'[r].gen : p = <<poll.sub, <<r, g>>>>
        BY Zenon, <1>4, <3>1, <3>3
      <4>2. CASE g \in 1 .. rows[r].gen
        <5>1. rows[r].sub = poll.sub
          <6>1. rows[r].gen # 0
            BY <1>5, <4>2
          <6> QED BY Zenon, <1>4, <6>1 DEF PromiseInv, TextsNumbered
        <5> QED BY Zenon, <1>4, <4>1, <4>2, <5>1, Mapped
      <4> QED BY Zenon, <2>1, <4>1, <4>2
    <3> QED BY Zenon, <3>2, <3>3
  <2>3. ASSUME NEW p \in Asked PROVE p \in Asked'
    <3>1. PICK q \in RowIds : \E g \in 1 .. rows[q].gen : p = <<rows[q].sub, <<q, g>>>>
      BY Mapped
    <3>2. CASE q # r
      BY Zenon, <1>4, <3>1, <3>2, Mapped
    <3>3. CASE q = r
      <4>1. PICK g \in 1 .. rows[r].gen : p = <<rows[r].sub, <<r, g>>>>
        BY Zenon, <3>1, <3>3
      <4>2. rows[r].sub = poll.sub
        <5>1. rows[r].gen # 0
          BY <1>5, <4>1
        <5> QED BY Zenon, <1>4, <5>1 DEF PromiseInv, TextsNumbered
      <4> QED BY Zenon, <1>4, <2>1, <4>1, <4>2, Mapped
    <3> QED BY Zenon, <3>2, <3>3
  <2>4. <<poll.sub, t>> \in Asked'
    <3>1. rows'[r].gen \in 1 .. rows'[r].gen
      BY <1>5
    <3> QED BY Zenon, <1>4, <3>1, Mapped
  <2> QED BY Zenon, <2>2, <2>3, <2>4
<1>9. LastTexts("pending")' = (LastTexts("pending") \ Promise!Of(poll.sub)) \cup {t}
  <2>1. ASSUME NEW u \in LastTexts("pending")'
        PROVE  u \in (LastTexts("pending") \ Promise!Of(poll.sub)) \cup {t}
    <3>1. PICK q \in RowIds : rows'[q].status = "pending" /\ u = <<q, rows'[q].gen>>
      BY Mapped
    <3>2. CASE q # r
      <4>1. rows[q].status = "pending" /\ u = <<q, rows[q].gen>>
        BY Zenon, <1>4, <3>1, <3>2
      <4>2. rows[q].sub # poll.sub
        BY Zenon, <1>4, <3>2, <4>1 DEF OutboxInv, OnePending, Pending
      <4>3. u \notin Promise!Of(poll.sub)
        BY <4>1, <4>2, MappedOf
      <4> QED BY Zenon, <4>1, <4>3, Mapped
    <3> QED BY Zenon, <3>1, <3>2
  <2>2. ASSUME NEW u \in LastTexts("pending") \ Promise!Of(poll.sub)
        PROVE  u \in LastTexts("pending")'
    <3>1. PICK q \in RowIds : rows[q].status = "pending" /\ u = <<q, rows[q].gen>>
      BY Mapped
    <3>2. rows[q].gen \in 1 .. rows[q].gen
      BY <1>1, <3>1 DEF PromiseInv, TextsNumbered, Types, Rows
    <3>3. rows[q].sub # poll.sub
      BY Zenon, <3>1, <3>2, MappedOf
    <3>4. q # r
      BY Zenon, <1>4, <3>1, <3>3
    <3> QED BY Zenon, <1>4, <3>1, <3>4, Mapped
  <2>3. t \in LastTexts("pending")'
    BY Zenon, <1>4, Mapped
  <2> QED BY Zenon, <2>1, <2>2, <2>3
<1>10. LastTexts("sent")' = LastTexts("sent")
  <2>1. \A q \in RowIds : /\ rows'[q].status = "sent" <=> rows[q].status = "sent"
                          /\ rows[q].status = "sent" => rows'[q] = rows[q]
    BY Zenon, <1>4 DEF Pending
  <2>2. \A u : u \in LastTexts("sent")' <=> u \in LastTexts("sent")
    BY <2>1, Mapped
  <2> QED BY Zenon, <2>2
<1>11. Promise!Queue(poll.sub, t)
  BY Zenon, <1>2, <1>7, <1>8, <1>9, <1>10 DEF Promise!Queue
<1>12. t \in LastTexts("pending")'
  BY Zenon, <1>9
<1> QED BY Zenon, <1>2, <1>6, <1>11, <1>12 DEF Promise!Next

\* A step that only settles or deletes rows keeps PromiseInv, if none of the rows
\* it marks sent is the sweeper's.
LEMMA SettleKeeps ==
  ASSUME OutboxInv, PromiseInv, RowsKept, RowsSettled,
         UNCHANGED <<queue, poll>>,
         \A y \in Senders : sender'[y] = sender[y] \/ sender'[y].pc = "idle",
         sender[Sweeper].pc \in {"sending", "updating"} =>
           LET r == sender[Sweeper].row
           IN  rows'[r].status = "sent" => rows[r].status = "sent"
  PROVE  PromiseInv'
<1>1. TextsNumbered'
  BY DEF PromiseInv, TextsNumbered, RowsKept, RowsSettled, Pending
<1>2. Unsettled'
  BY Zenon DEF PromiseInv, Unsettled, Senders
<1> QED BY Zenon, <1>1, <1>2 DEF PromiseInv

\* ExpirePending and ExpirePendingForSubmissions give texts up.
LEMMA DropStep ==
  ASSUME OutboxInv, PromiseInv, NEW R, rows' = Expired(R),
         UNCHANGED <<queue, poll, sender, delivered, unrecorded>>
  PROVE  PromiseInv' /\ Promise!Next
<1>1. rows \in [RowIds -> Rows]
  BY Zenon DEF OutboxInv, TypeOK
<1>2. /\ RowsKept /\ RowsSettled
      /\ \A q \in RowIds : rows'[q].status = "sent" => rows[q].status = "sent"
  BY Zenon, <1>1, ExpiredEffect
<1>3. \A q \in RowIds : rows'[q].status = "pending" => rows[q].status = "pending"
  BY Zenon, <1>2 DEF RowsSettled, Pending
<1>4. \A q \in RowIds : rows[q].status = "sent" => rows'[q].status = "sent"
  BY Zenon, <1>1 DEF Expired, Pending
<1>5. PromiseInv'
  <2>1. ASSUME sender[Sweeper].pc \in {"sending", "updating"}
        PROVE  sender[Sweeper].row \in RowIds
    BY Zenon, <2>1 DEF OutboxInv, SenderCoherent, SenderCoherentAt, Busy, Senders
  <2> QED BY Zenon, <1>2, <2>1, SettleKeeps
<1>6. Asked' = Asked /\ LastTexts("sent")' = LastTexts("sent")
  BY Zenon, <1>2, <1>4, AskedKept, LastKept
<1>7. LastTexts("pending")' \subseteq LastTexts("pending")
  BY <1>2, <1>3, Mapped DEF RowsKept
<1> DEFINE T == LastTexts("pending") \ LastTexts("pending")'
<1>8. Promise!Drop(T) /\ T \in SUBSET LastTexts("pending")
  BY Zenon, <1>6, <1>7 DEF Promise!Drop
<1> QED BY Zenon, <1>5, <1>8 DEF Promise!Next

\* The mail server takes the text: it was queued, and it is not known to have
\* been received.
LEMMA ReceiveStep ==
  ASSUME OutboxInv, PromiseInv, NEW x \in Senders, NEW lost \in BOOLEAN,
         sender[x].pc = "sending",
         UNCHANGED <<rows, queue, poll>>,
         \A y \in Senders \ {x} : sender'[y] = sender[y],
         \/ sender'[x].pc \in {"idle", "clearing"}
         \/ /\ sender'[x].pc \in {"recording", "updating"}
            /\ sender'[x].row = sender[x].row
            /\ sender'[x].gen = sender[x].gen,
         delivered' = delivered \cup {Text(x)},
         unrecorded' = IF lost THEN unrecorded \cup {Text(x)} ELSE unrecorded
  PROVE  PromiseInv' /\ Promise!Next
<1>1. /\ Types /\ SenderCoherentAt(x) /\ x \in Busy
      /\ sender[x].gen \in Nat /\ sender[x].gen >= 1
  BY Zenon DEF OutboxInv, TypeOK, Types, SenderCoherent, Busy, PromiseInv, TextsNumbered,
         SenderRecords
<1>2. RowsKept /\ SameStatus
  BY Zenon, RowsUnchanged
<1>3. /\ Asked' = Asked
      /\ LastTexts("pending")' = LastTexts("pending")
      /\ LastTexts("sent")' = LastTexts("sent")
  BY Zenon, <1>2, AskedKept, LastKept DEF SameStatus
<1>4. PromiseInv'
  <2>1. TextsNumbered'
    BY Zenon, <1>1 DEF PromiseInv, TextsNumbered
  <2>2. Unsettled'
    BY Zenon DEF PromiseInv, Unsettled, Senders
  <2> QED BY Zenon, <2>1, <2>2 DEF PromiseInv
<1>5. /\ sender[x].sub \in Subs
      /\ sender[x].row \in RowIds
      /\ rows[sender[x].row].sub = sender[x].sub
      /\ sender[x].gen <= rows[sender[x].row].gen
      /\ Text(x) \notin delivered \ unrecorded
  BY Zenon, <1>1 DEF SenderCoherentAt, ReadOf, Known
<1>6. sender[x].gen \in 1 .. rows[sender[x].row].gen
  BY <1>1, <1>5 DEF Types, Rows
<1>7. <<sender[x].sub, Text(x)>> \in Asked /\ Text(x) \in Promise!Of(sender[x].sub)
  BY Zenon, <1>5, <1>6, Mapped, MappedOf DEF Text
<1>8. Promise!Receive(sender[x].sub, Text(x), lost)
  BY Zenon, <1>3, <1>5, <1>7 DEF Promise!Receive
<1> QED BY Zenon, <1>4, <1>5, <1>7, <1>8 DEF Promise!Next

\* A send that succeeds, fails, or is taken for a failure.
LEMMA SendSteps ==
  ASSUME OutboxInv, PromiseInv, NEW x \in Senders
  PROVE  /\ Send(x) => PromiseInv' /\ Promise!Next
         /\ \A taken \in BOOLEAN : SendFails(x, taken) =>
              PromiseInv' /\ (Promise!Next \/ UNCHANGED Promise!vars)
<1>1. Types
  BY Zenon DEF OutboxInv, TypeOK, Types
<1>2. ASSUME Send(x) PROVE PromiseInv' /\ Promise!Next
  <2>1. /\ sender[x].pc = "sending"
        /\ UNCHANGED <<rows, queue, poll, unrecorded>>
        /\ \A y \in Senders \ {x} : sender'[y] = sender[y]
        /\ sender'[x].pc = "recording"
        /\ sender'[x].row = sender[x].row
        /\ sender'[x].gen = sender[x].gen
        /\ delivered' = delivered \cup {Text(x)}
    BY Zenon, <1>1, <1>2 DEF Send, Accepted, Types, SenderRecords, db
  <2> QED BY Zenon, <2>1, ReceiveStep
<1>3. ASSUME NEW taken \in BOOLEAN, SendFails(x, taken)
      PROVE  PromiseInv' /\ (Promise!Next \/ UNCHANGED Promise!vars)
  <2>1. /\ sender[x].pc = "sending"
        /\ UNCHANGED <<rows, queue, poll>>
        /\ \A y \in Senders \ {x} : sender'[y] = sender[y]
        /\ \/ sender'[x].pc = "idle"
           \/ /\ sender'[x].pc = "updating"
              /\ sender'[x].row = sender[x].row
              /\ sender'[x].gen = sender[x].gen
    BY <1>1, <1>3 DEF SendFails, Finish, NoJob, Types, SenderRecords, db
  <2>2. CASE taken
    <3>1. /\ delivered' = delivered \cup {Text(x)}
          /\ unrecorded' = unrecorded \cup {Text(x)}
      BY Zenon, <1>3, <2>2 DEF SendFails, Accepted
    <3> QED BY Zenon, <2>1, <3>1, ReceiveStep
  <2>3. CASE ~taken
    <3>1. UNCHANGED <<delivered, unrecorded>>
      BY Zenon, <1>3, <2>3 DEF SendFails
    <3>2. x = Sweeper /\ sender'[x].pc = "updating" =>
            rows[sender'[x].row].status # "sent"
      BY Zenon, <2>1 DEF PromiseInv, Unsettled
    <3> QED BY Zenon, <2>1, <3>1, <3>2, HandoverStep
  <2> QED BY Zenon, <2>2, <2>3
<1> QED BY Zenon, <1>2, <1>3

\* MarkSent records a text that was received, or changes nothing.
LEMMA RecordStep ==
  ASSUME OutboxInv, PromiseInv, NEW x \in Senders, Mark(x)
  PROVE  PromiseInv' /\ (Promise!Next \/ UNCHANGED Promise!vars)
<1>1. Types
  BY Zenon DEF OutboxInv, TypeOK, Types
<1>2. /\ sender[x].pc = "marking" /\ x \in Busy
      /\ UNCHANGED <<queue, poll, delivered, unrecorded>>
      /\ \A y \in Senders \ {x} : sender'[y] = sender[y]
      /\ sender'[x].pc = "idle"
      /\ rows' = MarkedSent(sender[x].row, sender[x].ver)
  BY Zenon, <1>1 DEF Mark, Finish, NoJob, Types, Busy, hist
<1>3. SenderCoherentAt(x)
  BY Zenon, <1>2 DEF OutboxInv, SenderCoherent
<1>4. PICK r \in RowIds : r = sender[x].row
  BY Zenon, <1>3 DEF SenderCoherentAt
<1>5. CASE ~(Pending(r) /\ rows[r].ver = sender[x].ver)
  <2>1. UNCHANGED rows
    BY Zenon, <1>2, <1>4, <1>5 DEF MarkedSent
  <2> QED BY Zenon, <1>2, <2>1, HandoverStep
<1>6. CASE Pending(r) /\ rows[r].ver = sender[x].ver
  <2>1. RowsKept /\ RowsSettled
    BY Zenon, <1>1, <1>2, <1>4, MarkedSentEffect DEF Types
  <2>2. /\ rows'[r].status = "sent"
        /\ \A q \in RowIds \ {r} : rows'[q] = rows[q]
    BY Zenon, <1>1, <1>2, <1>4, <1>6 DEF MarkedSent, Types, Rows
  <2>3. PromiseInv'
    <3>1. ASSUME sender[Sweeper].pc \in {"sending", "updating"}
          PROVE  sender[Sweeper].row \in RowIds \ {r}
      <4>1. Sweeper \in Busy /\ Sweeper # x
        BY Zenon, <1>2, <3>1 DEF Busy, Senders
      <4>2. sender[Sweeper].sub # sender[x].sub
        BY Zenon, <1>2, <4>1 DEF OutboxInv, SingleOwner
      <4>3. SenderCoherentAt(Sweeper)
        BY Zenon, <4>1 DEF OutboxInv, SenderCoherent
      <4> QED BY Zenon, <1>3, <1>4, <4>2, <4>3 DEF SenderCoherentAt
    <3> QED BY Zenon, <1>2, <2>1, <2>2, <3>1, SettleKeeps
  <2> DEFINE t == <<r, rows[r].gen>>
  <2>4. t \in delivered
    <3>1. sender[x].gen = rows[r].gen
      BY Zenon, <1>2, <1>3, <1>4, <1>6 DEF SenderCoherentAt, ReadOf
    <3> QED BY Zenon, <1>2, <1>3, <1>4, <3>1 DEF SenderCoherentAt, Text
  <2>5. t \in LastTexts("pending")
    BY Zenon, <1>6, Mapped DEF Pending
  <2>6. LastTexts("pending")' = LastTexts("pending") \ {t}
    <3>1. \A u : u \in LastTexts("pending")' <=> u \in LastTexts("pending") \ {t}
      BY <1>6, <2>1, <2>2, Mapped DEF RowsKept, Pending
    <3> QED BY Zenon, <3>1
  <2>7. LastTexts("sent")' = LastTexts("sent") \cup {t}
    <3>1. \A u : u \in LastTexts("sent")' <=> u \in LastTexts("sent") \cup {t}
      BY <1>6, <2>1, <2>2, Mapped DEF RowsKept, Pending
    <3> QED BY Zenon, <3>1
  <2>8. Promise!Record(t)
    BY Zenon, <1>2, <2>1, <2>4, <2>5, <2>6, <2>7, AskedKept DEF Promise!Record
  <2> QED BY Zenon, <2>3, <2>5, <2>8 DEF Promise!Next
<1> QED BY Zenon, <1>5, <1>6

\* A sending that goes unrecorded, because MarkSent failed or the process died.
LEMMA ForgetSteps ==
  ASSUME OutboxInv, PromiseInv
  PROVE  /\ \A x \in Senders : MarkFails(x) => PromiseInv' /\ Promise!Next
         /\ Crash => PromiseInv' /\ Promise!Next
<1>1. Types
  BY Zenon DEF OutboxInv, TypeOK, Types
<1>2. ASSUME UNCHANGED <<rows, delivered>>, NEW T \in SUBSET delivered,
             unrecorded' = unrecorded \cup T
      PROVE  Promise!Next
  <2>1. RowsKept /\ SameStatus
    BY Zenon, <1>2, RowsUnchanged
  <2>2. Promise!Forget(T)
    BY Zenon, <1>2, <2>1, AskedKept, LastKept DEF SameStatus, Promise!Forget
  <2> QED BY Zenon, <1>2, <2>2 DEF Promise!Next
<1>3. ASSUME NEW x \in Senders, sender[x].pc \in {"recording", "marking"}
      PROVE  Text(x) \in delivered
  BY Zenon, <1>3 DEF OutboxInv, SenderCoherent, SenderCoherentAt, Busy
<1>4. ASSUME NEW x \in Senders, MarkFails(x) PROVE PromiseInv' /\ Promise!Next
  <2>1. /\ sender[x].pc = "marking"
        /\ UNCHANGED <<rows, queue, poll, delivered>>
        /\ \A y \in Senders \ {x} : sender'[y] = sender[y]
        /\ sender'[x].pc = "idle"
        /\ unrecorded' = unrecorded \cup {Text(x)}
    BY Zenon, <1>1, <1>4 DEF MarkFails, Finish, NoJob, Types, db
  <2>2. TextsNumbered' /\ Unsettled'
    BY Zenon, <2>1 DEF PromiseInv, TextsNumbered, Unsettled, Senders
  <2> QED BY Zenon, <1>2, <1>3, <2>1, <2>2 DEF PromiseInv
<1>5. ASSUME Crash PROVE PromiseInv' /\ Promise!Next
  <2> DEFINE T == {Text(x) : x \in {y \in Senders : sender[y].pc \in {"recording", "marking"}}}
  <2>1. /\ UNCHANGED <<rows, delivered>>
        /\ queue' = {}
        /\ poll'.pc = "idle"
        /\ \A y \in Senders : sender'[y].pc = "idle"
        /\ unrecorded' = unrecorded \cup T
    BY Zenon, <1>5 DEF Crash, NoMail, NoJob, db
  <2>2. T \in SUBSET delivered
    BY Zenon, <1>3
  <2>3. TextsNumbered' /\ Unsettled'
    BY Zenon, <2>1 DEF PromiseInv, TextsNumbered, Unsettled, Senders
  <2>4. Promise!Next
    <3> HIDE DEF T
    <3> QED BY Zenon, <1>2, <2>1, <2>2
  <2> QED BY Zenon, <2>3, <2>4 DEF PromiseInv
<1> QED BY Zenon, <1>4, <1>5

\* Counting a failed attempt: the text goes on waiting, is given up, or - if it
\* was given up meanwhile, and nothing else waits - comes back.
LEMMA UpdateStep ==
  ASSUME OutboxInv, PromiseInv, SweepUpdate
  PROVE  PromiseInv' /\ (Promise!Next \/ UNCHANGED Promise!vars)
<1>1. Types /\ Sweeper \in Senders
  BY Zenon DEF OutboxInv, TypeOK, Types, Senders
<1>2. /\ sender[Sweeper].pc = "updating" /\ Sweeper \in Busy
      /\ UNCHANGED <<queue, poll, delivered, unrecorded>>
      /\ \A y \in Senders \ {Sweeper} : sender'[y] = sender[y]
      /\ sender'[Sweeper].pc \in {"idle", "clearing"}
  BY <1>1 DEF SweepUpdate, Finish, NoJob, Types, SenderRecords, Busy, hist
<1>3. SenderCoherentAt(Sweeper)
  BY Zenon, <1>2 DEF OutboxInv, SenderCoherent
<1>4. PICK r \in RowIds : r = sender[Sweeper].row
  BY Zenon, <1>3 DEF SenderCoherentAt
<1>5. PICK n \in Nat, status \in {"pending", "failed"} : rows' = Updated(r, status, n)
  <2>1. sender[Sweeper].attempts + 1 \in Nat
    BY <1>1 DEF Types, SenderRecords
  <2> QED BY Zenon, <1>4, <2>1 DEF SweepUpdate
<1>6. /\ RowsKept
      /\ \A q \in RowIds \ {r} : rows'[q] = rows[q]
      /\ \/ rows' = rows
         \/ /\ rows'[r].status = status
            /\ status = "pending" =>
                 \A q \in RowIds \ {r} : Pending(q) => rows[q].sub # rows[r].sub
  BY Zenon, <1>1, <1>5, UpdatedEffect DEF Types
<1>7. rows[r].status \notin {"none", "sent"}
  BY Zenon, <1>2, <1>3, <1>4 DEF SenderCoherentAt, PromiseInv, Unsettled
<1>8. rows'[r].status # "sent" /\ rows'[r].status # "none"
  BY Zenon, <1>6, <1>7
<1>9. PromiseInv'
  <2>1. TextsNumbered'
    BY Zenon, <1>2, <1>6, <1>7, <1>8 DEF PromiseInv, TextsNumbered, RowsKept
  <2> QED BY Zenon, <1>2, <2>1 DEF PromiseInv, Unsettled
<1>10. Asked' = Asked /\ LastTexts("sent")' = LastTexts("sent")
  <2>1. \A q \in RowIds : rows'[q].status = "sent" <=> rows[q].status = "sent"
    BY Zenon, <1>6, <1>7, <1>8
  <2> QED BY Zenon, <1>6, <2>1, AskedKept, LastKept
<1> DEFINE t == <<r, rows[r].gen>>
<1>11. CASE rows'[r].status # "pending"
  <2>1. LastTexts("pending")' = LastTexts("pending") \ {t}
    <3>1. \A u : u \in LastTexts("pending")' <=> u \in LastTexts("pending") \ {t}
      BY <1>6, <1>11, Mapped DEF RowsKept
    <3> QED BY Zenon, <3>1
  <2>2. Promise!Drop(LastTexts("pending") \cap {t})
    BY Zenon, <1>2, <1>10, <2>1 DEF Promise!Drop
  <2> QED BY Zenon, <1>9, <2>2 DEF Promise!Next
<1>12. CASE rows'[r].status = "pending" /\ rows[r].status = "pending"
  <2>1. SameStatus
    BY Zenon, <1>6, <1>12 DEF SameStatus
  <2> QED BY Zenon, <1>2, <1>6, <1>9, <2>1, Unseen
<1>13. CASE rows'[r].status = "pending" /\ rows[r].status # "pending"
  <2>1. status = "pending" /\ rows' # rows
    BY Zenon, <1>6, <1>13
  <2>2. LastTexts("pending")' = LastTexts("pending") \cup {t}
    <3>1. \A u : u \in LastTexts("pending")' <=> u \in LastTexts("pending") \cup {t}
      BY <1>6, <1>13, Mapped DEF RowsKept
    <3> QED BY Zenon, <3>1
  <2>3. rows[r].sub \in Subs /\ rows[r].gen \in 1 .. rows[r].gen
    <3>1. rows[r].gen \in Nat /\ rows[r].gen # 0
      BY Zenon, <1>1, <1>7 DEF PromiseInv, TextsNumbered, Types, Rows
    <3> QED BY <1>3, <1>4, <3>1 DEF SenderCoherentAt
  <2>4. <<rows[r].sub, t>> \in Asked /\ t \in Promise!Of(rows[r].sub)
    BY Zenon, <2>3, Mapped, MappedOf
  <2>5. t \notin LastTexts("sent") \cup (delivered \ unrecorded)
    <3>1. t \notin LastTexts("sent")
      BY <1>7, Mapped
    <3>2. t \notin delivered \ unrecorded
      BY Zenon, <1>2, <1>3, <1>4 DEF SenderCoherentAt, Known
    <3> QED BY Zenon, <3>1, <3>2
  <2>6. Promise!Of(rows[r].sub) \cap LastTexts("pending") = {}
    <3>1. \A q \in RowIds : rows[q].status = "pending" => rows[q].sub # rows[r].sub
      BY Zenon, <1>6, <1>13, <2>1 DEF Pending
    <3>2. ASSUME NEW u \in Promise!Of(rows[r].sub), u \in LastTexts("pending")
          PROVE  FALSE
      <4>1. PICK q \in RowIds : rows[q].status = "pending" /\ u = <<q, rows[q].gen>>
        BY <3>2, Mapped
      <4>2. PICK p \in RowIds : /\ rows[p].sub = rows[r].sub
                                /\ \E g \in 1 .. rows[p].gen : u = <<p, g>>
        BY MappedOf
      <4>3. p = q
        BY Zenon, <4>1, <4>2
      <4> QED BY Zenon, <3>1, <4>1, <4>2, <4>3
    <3> QED BY Zenon, <3>2
  <2>7. Promise!Requeue(rows[r].sub, t)
    BY Zenon, <1>2, <1>10, <2>2, <2>4, <2>5, <2>6 DEF Promise!Requeue
  <2> QED BY Zenon, <1>9, <2>3, <2>4, <2>7 DEF Promise!Next
<1> QED BY Zenon, <1>11, <1>12, <1>13

\* Retention deletes the record of a text, or the row of one given up.
LEMMA PruneStep ==
  ASSUME OutboxInv, PromiseInv, NEW r \in RowIds, RetentionPrune(r)
  PROVE  PromiseInv' /\ (Promise!Next \/ UNCHANGED Promise!vars)
<1>1. Types
  BY Zenon DEF OutboxInv, TypeOK, Types
<1>2. /\ RowsKept /\ RowsSettled
      /\ \A q \in RowIds : rows'[q].status = "sent" => rows[q].status = "sent"
  BY Zenon, <1>1, PrunedEffect DEF Types
<1>3. /\ rows[r].status \in {"sent", "failed"}
      /\ rows'[r].status = "pruned"
      /\ \A q \in RowIds \ {r} : rows'[q] = rows[q]
      /\ UNCHANGED <<queue, poll, sender, delivered, unrecorded>>
  BY Zenon, <1>1 DEF RetentionPrune, Types, Rows, hist
<1>4. PromiseInv'
  <2>1. ASSUME sender[Sweeper].pc \in {"sending", "updating"}
        PROVE  sender[Sweeper].row \in RowIds
    BY Zenon, <2>1 DEF OutboxInv, SenderCoherent, SenderCoherentAt, Busy, Senders
  <2> QED BY Zenon, <1>2, <1>3, <2>1, SettleKeeps
<1>5. Asked' = Asked /\ LastTexts("pending")' = LastTexts("pending")
  <2>1. \A q \in RowIds : rows'[q].status = "pending" <=> rows[q].status = "pending"
    BY Zenon, <1>3
  <2> QED BY Zenon, <1>2, <2>1, AskedKept, LastKept
<1>6. CASE rows[r].status = "failed"
  <2>1. \A q \in RowIds : rows'[q].status = "sent" <=> rows[q].status = "sent"
    BY Zenon, <1>3, <1>6
  <2>2. LastTexts("sent")' = LastTexts("sent")
    BY Zenon, <1>2, <2>1, LastKept
  <2> QED BY Zenon, <1>3, <1>4, <1>5, <2>2 DEF Promise!vars
<1>7. CASE rows[r].status = "sent"
  <2> DEFINE t == <<r, rows[r].gen>>
  <2>1. t \in LastTexts("sent")
    BY Zenon, <1>7, Mapped
  <2>2. LastTexts("sent")' = LastTexts("sent") \ {t}
    <3>1. \A u : u \in LastTexts("sent")' <=> u \in LastTexts("sent") \ {t}
      BY <1>2, <1>3, <1>7, Mapped DEF RowsKept
    <3> QED BY Zenon, <3>1
  <2>3. Promise!Prune(t)
    BY Zenon, <1>3, <1>5, <2>2 DEF Promise!Prune
  <2> QED BY Zenon, <1>4, <2>1, <2>3 DEF Promise!Next
<1> QED BY Zenon, <1>3, <1>6, <1>7

\* The poller, the sweeper's list, the escalation worker and the clock where they
\* do not touch a text.
LEMMA QuietSteps ==
  ASSUME OutboxInv, PromiseInv,
         \/ Mail(Kinds)
         \/ IngestPersist \/ IngestPersistFails \/ IngestClaim
         \/ IngestCommitFails \/ IngestLeave
         \/ HoldScan(folder) \/ HoldScanUnavailable \/ HoldSet \/ HoldRelease
         \/ HoldFails
         \/ SweepList \/ SweepBlocked \/ SweepBlockedFails \/ SweepDone
         \/ (\E r \in RowIds : SweepSkip(r))
         \/ (\E s \in Subs : EscalationList(s) \/ FolderMove(s))
         \/ EscalationUpsert
         \/ Tick
  PROVE  PromiseInv' /\ UNCHANGED Promise!vars
<1>1. Types
  BY Zenon DEF OutboxInv, TypeOK, Types
<1>2. CASE Tick
  <2>1. RowsKept /\ SameStatus
    BY Zenon, <1>1, <1>2, TickEffect DEF Types, SameStatus
  <2>2. /\ UNCHANGED <<queue, sender, delivered, unrecorded>>
        /\ poll'.pc = poll.pc /\ poll'.gen = poll.gen
    BY Zenon, <1>1, <1>2 DEF Tick, Types, MailRecords, hist
  <2> QED BY Zenon, <2>1, <2>2, IdleStep
<1>3. CASE ~Tick
  <2>1. /\ UNCHANGED <<rows, queue, sender, delivered, unrecorded>>
        /\ poll'.pc = "committed" => poll' = poll
    <3>1. CASE Mail(Kinds)
      <4>1. PICK s \in Subs, kind \in Kinds, a \in Asks \cup {None} : IngestLoad(s, kind, a)
        BY Zenon, <3>1 DEF Mail
      <4>2. UNCHANGED <<rows, queue, sender, delivered, unrecorded>>
        BY Zenon, <4>1 DEF IngestLoad, db, hist
      <4>3. poll'.pc = "loaded"
        BY Zenon, <4>1 DEF IngestLoad, NoMail
      <4> QED BY Zenon, <4>2, <4>3
    <3>2. CASE \/ IngestPersist \/ IngestPersistFails \/ IngestCommitFails \/ IngestLeave
      <4>1. CASE IngestPersist
        BY Zenon, <4>1 DEF IngestPersist, NoMail, db, hist
      <4>2. CASE IngestPersistFails \/ IngestCommitFails \/ IngestLeave
        <5>1. UNCHANGED <<rows, queue, sender, delivered, unrecorded>>
          BY Zenon, <4>2 DEF IngestPersistFails, IngestCommitFails, IngestLeave, db, hist
        <5>2. poll' = NoMail
          BY Zenon, <4>2 DEF IngestPersistFails, IngestCommitFails, IngestLeave
        <5>3. poll'.pc = "idle"
          BY Zenon, <5>2 DEF NoMail
        <5> QED BY Zenon, <5>1, <5>3
      <4> QED BY Zenon, <3>2, <4>1, <4>2
    <3>3. CASE IngestClaim
      BY Zenon, <1>1, <3>3 DEF IngestClaim, Types, MailRecords, db, hist
    <3>4. CASE \/ HoldScan(folder) \/ HoldScanUnavailable \/ HoldSet \/ HoldRelease
               \/ HoldFails
      BY Zenon, <3>4 DEF HoldScan, HoldScanUnavailable, HoldSet, HoldRelease,
                              HoldFails, db, hist
    <3>5. CASE \/ SweepList \/ SweepBlocked \/ SweepBlockedFails \/ SweepDone
               \/ (\E r \in RowIds : SweepSkip(r))
      BY Zenon, <3>5 DEF SweepList, SweepBlocked, SweepBlockedFails, SweepDone,
                              SweepSkip, db, hist
    <3>6. CASE \/ (\E s \in Subs : EscalationList(s) \/ FolderMove(s)) \/ EscalationUpsert
      BY Zenon, <3>6 DEF EscalationList, FolderMove, EscalationUpsert, db, hist
    <3> QED BY Zenon, <1>3, <3>1, <3>2, <3>3, <3>4, <3>5, <3>6
  <2> QED BY Zenon, <2>1, RowsUnchanged, IdleStep
<1> QED BY Zenon, <1>2, <1>3

-----------------------------------------------------------------------------

\* The outbox implements Delivery, for any number of submissions, rows and
\* workers: whatever the goroutines do in whichever order, across faults and
\* restarts, a reply is queued, sent, recorded, given up or forgotten only as
\* Delivery allows (insertOutboxRow, deliver, MarkSent, Update, ExpirePending).
THEOREM OutboxKeepsPromise == Spec => KeepsPromise
<1>1. Init => PromiseInv /\ Promise!Init
  <2> SUFFICES ASSUME Init PROVE PromiseInv /\ Promise!Init
    BY Zenon
  <2>1. /\ \A r \in RowIds : rows[r].status = "none" /\ rows[r].gen = 0
        /\ poll.pc = "idle" /\ queue = {}
        /\ \A x \in Senders : sender[x].pc = "idle"
        /\ delivered = {} /\ unrecorded = {}
    BY Zenon DEF Init, NoRow, NoMail, NoJob
  <2>2. PromiseInv
    BY Zenon, <2>1 DEF PromiseInv, TextsNumbered, Unsettled, Senders
  <2>3. Asked = {}
    <3>1. \A r \in RowIds : 1 .. rows[r].gen = {}
      BY <2>1
    <3> QED BY Zenon, <3>1, Mapped
  <2>4. LastTexts("pending") = {} /\ LastTexts("sent") = {}
    BY Zenon, <2>1 DEF LastTexts
  <2> QED BY Zenon, <2>1, <2>2, <2>3, <2>4 DEF Promise!Init
<1>2. OutboxInv /\ PromiseInv /\ [Next]_vars =>
        PromiseInv' /\ [Promise!Next]_(Promise!vars)
  <2> SUFFICES ASSUME OutboxInv, PromiseInv, [Next]_vars
               PROVE  PromiseInv' /\ (Promise!Next \/ UNCHANGED Promise!vars)
    BY Zenon
  <2>1. CASE UNCHANGED vars
    <3>1. UNCHANGED <<rows, queue, sender, poll, delivered, unrecorded>>
      BY Zenon, <2>1 DEF vars, db, hist
    <3> QED BY Zenon, <3>1, RowsUnchanged, IdleStep
  <2>2. CASE Poller
    <3>1. CASE HoldExpire
      <4>1. PICK R : rows' = Expired(R)
        BY Zenon, <3>1 DEF HoldExpire
      <4>2. UNCHANGED <<queue, poll, sender, delivered, unrecorded>>
        BY Zenon, <3>1 DEF HoldExpire, hist
      <4> QED BY Zenon, <4>1, <4>2, DropStep
    <3> QED BY Zenon, <2>2, <3>1, QuietSteps, QueueStep, EnqueueStep DEF Poller
  <2>3. CASE Sweep
    <3>1. CASE SweepList \/ SweepBlocked \/ SweepDone
      BY Zenon, <3>1, QuietSteps
    <3>2. CASE \E r \in RowIds : SweepSkip(r)
      BY Zenon, <3>2, QuietSteps
    <3>3. CASE \E r \in RowIds : SweepClaim(r)
      BY Zenon, <3>3, SenderMoves
    <3>4. CASE SweepReread \/ SweepClear
      BY Zenon, <3>4, SenderMoves
    <3>5. CASE SweepUpdate
      BY Zenon, <3>5, UpdateStep
    <3> QED BY Zenon, <2>3, <3>1, <3>2, <3>3, <3>4, <3>5 DEF Sweep
  <2>4. ASSUME NEW x \in Senders, Deliver(x)
        PROVE  PromiseInv' /\ (Promise!Next \/ UNCHANGED Promise!vars)
    BY Zenon, <2>4, SendSteps, SenderMoves, RecordStep DEF Deliver
  <2>5. CASE RetentionExpire
    <3>1. PICK R : rows' = Expired(R)
      BY Zenon, <2>5 DEF RetentionExpire
    <3>2. UNCHANGED <<queue, poll, sender, delivered, unrecorded>>
      BY Zenon, <2>5 DEF RetentionExpire, hist
    <3> QED BY Zenon, <3>1, <3>2, DropStep
  <2>6. CASE Work
    BY Zenon, <2>2, <2>3, <2>4, <2>5, <2>6, SenderMoves, QuietSteps DEF Work
  <2>7. CASE Fault
    <3>1. CASE \/ IngestPersistFails \/ IngestCommitFails \/ HoldScanUnavailable
               \/ HoldFails \/ SweepBlockedFails
      BY Zenon, <3>1, QuietSteps
    <3>2. ASSUME NEW x \in Senders,
                 \/ RecordFails(x) \/ MarkFails(x)
                 \/ \E taken \in BOOLEAN : SendFails(x, taken)
          PROVE  PromiseInv' /\ (Promise!Next \/ UNCHANGED Promise!vars)
      BY Zenon, <3>2, SendSteps, SenderMoves, ForgetSteps
    <3>3. CASE SweepRereadFails \/ SweepUpdateFails \/ SweepClearFails
      BY Zenon, <3>3, SenderMoves
    <3> QED BY Zenon, <2>7, <3>1, <3>2, <3>3 DEF Fault
  <2>8. CASE Next
    BY Zenon, <2>6, <2>7, <2>8, QuietSteps, PruneStep, ForgetSteps DEF Next
  <2> QED BY Zenon, <2>1, <2>8
<1>3. Spec => []PromiseInv
  BY <1>1, <1>2, OutboxInvariant, PTL DEF Spec
<1> QED BY <1>1, <1>2, <1>3, OutboxInvariant, PTL DEF Spec, KeepsPromise, Promise!Spec

=============================================================================
