---------------------------- MODULE OutboxSteps -----------------------------
(***************************************************************************)
(* The steps of the outbox keep its invariant, given that they keep the    *)
(* types: those that leave the outbox or its owners alone, a restart, the  *)
(* claim of a reply and its handover, taking it up, sending it, marking it *)
(* sent and counting a failed attempt.                                     *)
(***************************************************************************)
EXTENDS OutboxTypes

-----------------------------------------------------------------------------
(* Steps that several actions have in common.                              *)

\* While the table and the senders stay as they are, so does what relates
\* them, and what a job in the channel has read.
LEMMA OwnersKept ==
  ASSUME OutboxInv, UNCHANGED <<rows, delivered, unrecorded, sender>>
  PROVE  /\ OnePending' /\ SenderCoherent' /\ PendingUnsent'
         /\ SentWasDelivered'
         /\ \A s, r, v, g : JobCoherent(s, r, v, g)' = JobCoherent(s, r, v, g)
         /\ queue' = queue => QueueCoherent'
<1> USE DEF OutboxInv
<1>1. Known' = Known /\ Busy' = Busy
  BY Zenon DEF Known, Busy
<1>2. \A r \in RowIds : Pending(r)' = Pending(r)
  BY Zenon DEF Pending
<1>3. \A s, r, v, g : ReadOf(s, r, v, g)' = ReadOf(s, r, v, g)
  BY DEF ReadOf, Pending
<1>4. OnePending' /\ SentWasDelivered'
  BY Zenon DEF OnePending, SentWasDelivered, Pending
<1>5. \A s, r, v, g : JobCoherent(s, r, v, g)' = JobCoherent(s, r, v, g)
  BY Zenon, <1>1, <1>3 DEF JobCoherent
<1>6. queue' = queue => QueueCoherent'
  BY Zenon, <1>5 DEF QueueCoherent
<1>7. SenderCoherent'
  BY Zenon, <1>1, <1>3 DEF SenderCoherent, SenderCoherentAt, Text
<1>8. PendingUnsent'
  BY Zenon, <1>1, <1>2 DEF PendingUnsent
<1> QED BY Zenon, <1>4, <1>5, <1>6, <1>7, <1>8

\* A step outside the outbox and its owners: Hold folder, escalation, mail
\* being moved.
LEMMA FrameStep ==
  ASSUME OutboxInv, TypeOK', UNCHANGED core
  PROVE  OutboxInv'
<1>1. UNCHANGED <<rows, delivered, unrecorded, sender, queue, dispatching,
                  enabled, poll, sweep>>
  BY Zenon DEF core
<1>2. RowsWellFormed' /\ SingleOwner' /\ ClaimsAccounted' /\ SilentWhenDisabled'
  BY Zenon, <1>1 DEF OutboxInv, RowsWellFormed, SingleOwner, ClaimsAccounted,
              SilentWhenDisabled, Busy
<1>3. PollCoherent'
  BY <1>1, OwnersKept DEF OutboxInv, PollCoherent
<1> QED BY Zenon, <1>1, <1>2, <1>3, OwnersKept DEF OutboxInv

\* Rows are settled as failed, or only their timers change; the owners and
\* what was sent stay as they are.
LEMMA SettleStep ==
  ASSUME OutboxInv, TypeOK', RowsKept, RowsSettled,
         \A q \in RowIds : rows'[q].status = "sent" => rows[q].status = "sent",
         UNCHANGED <<delivered, unrecorded, sender, queue, dispatching,
                     enabled, sweep, poll.pc, poll.sub, poll.ask, poll.owns,
                     poll.row, poll.ver, poll.gen>>
  PROVE  OutboxInv'
<1> USE DEF OutboxInv
<1>1. Types /\ Types'
  BY Zenon DEF Types, TypeOK
<1>2. ASSUME NEW s, NEW r, NEW v \in Nat, NEW g \in Nat, ReadOf(s, r, v, g)
      PROVE  ReadOf(s, r, v, g)'
  <2>1. r \in RowIds /\ rows[r] \in Rows /\ rows'[r] \in Rows
    BY Zenon, <1>1, <1>2 DEF Types, ReadOf
  <2> QED BY <1>2, <2>1 DEF RowsKept, RowsSettled, ReadOf, Pending, Rows
<1>3. Known' = Known
  BY Zenon DEF Known
<1>4. RowsWellFormed'
  <2>1. \A r \in RowIds : rows[r].status # "none" <=> rows'[r].status # "none"
    BY Zenon DEF RowsSettled, Pending
  <2>2. \A d \in delivered : d[1] \in RowIds
    BY Zenon, <1>1 DEF Types
  <2> QED BY Zenon, <1>1, <2>1, <2>2 DEF RowsWellFormed, RowsKept, Types
<1>5. OnePending'
  BY DEF OnePending, RowsKept, RowsSettled, Pending
<1>6. SingleOwner' /\ ClaimsAccounted' /\ SilentWhenDisabled'
  BY Zenon DEF SingleOwner, ClaimsAccounted, SilentWhenDisabled, Busy
<1>7. PollCoherent'
  BY Zenon, <1>1, <1>2, <1>3 DEF PollCoherent, JobCoherent, Types, MailRecords
<1>8. QueueCoherent'
  BY Zenon, <1>1, <1>2, <1>3 DEF QueueCoherent, JobCoherent, Types, JobRecords
<1>9. SenderCoherent'
  <2> SUFFICES ASSUME NEW x \in Busy PROVE SenderCoherentAt(x)'
    BY Zenon DEF SenderCoherent, Busy
  <2>1. SenderCoherentAt(x) /\ sender[x] \in SenderRecords
    BY Zenon, <1>1 DEF SenderCoherent, Busy, Types
  <2>2. rows'[sender[x].row].status # "none"
    BY Zenon, <2>1 DEF SenderCoherentAt, RowsSettled
  <2> QED BY Zenon, <1>2, <1>3, <2>1, <2>2
          DEF SenderCoherentAt, RowsKept, Text, SenderRecords
<1>10. PendingUnsent'
  BY <1>3 DEF PendingUnsent, RowsKept, RowsSettled, Pending
<1>11. SentWasDelivered'
  BY Zenon DEF SentWasDelivered, RowsKept
<1> QED BY Zenon, <1>4, <1>5, <1>6, <1>7, <1>8, <1>9, <1>10, <1>11

\* The poller takes up or puts down an email without touching the outbox.
LEMMA PollOnlyStep ==
  ASSUME OutboxInv, TypeOK',
         UNCHANGED <<rows, delivered, unrecorded, sender, queue, dispatching,
                     enabled, sweep>>,
         ~poll.owns, ~poll'.owns, poll'.pc \in {"idle", "loaded"},
         poll'.pc # "idle" => poll'.sub \in Subs
  PROVE  OutboxInv'
<1>1. RowsWellFormed' /\ SingleOwner' /\ ClaimsAccounted' /\ SilentWhenDisabled'
  BY Zenon DEF OutboxInv, RowsWellFormed, SingleOwner, ClaimsAccounted,
         SilentWhenDisabled, Busy
<1>2. PollCoherent'
  BY Zenon DEF PollCoherent
<1> QED BY Zenon, <1>1, <1>2, OwnersKept DEF OutboxInv

\* The sweeper lists rows or crosses one off its list.
LEMMA SweepOnlyStep ==
  ASSUME OutboxInv, TypeOK',
         UNCHANGED <<rows, delivered, unrecorded, sender, queue, dispatching,
                     enabled, poll>>,
         \A r \in sweep'.list : rows[r].status # "none",
         ~enabled => sweep'.pc = "idle"
  PROVE  OutboxInv'
<1>1. RowsWellFormed' /\ SingleOwner' /\ ClaimsAccounted' /\ SilentWhenDisabled'
  BY Zenon DEF OutboxInv, RowsWellFormed, SingleOwner, ClaimsAccounted,
         SilentWhenDisabled, Busy
<1>2. PollCoherent'
  BY OwnersKept DEF OutboxInv, PollCoherent
<1> QED BY Zenon, <1>1, <1>2, OwnersKept DEF OutboxInv

\* A sender is done with its job and releases the claim; if it had sent the
\* text without marking the row, the sending goes unrecorded.
LEMMA FinishStep ==
  ASSUME OutboxInv, TypeOK', NEW x \in Busy, Finish(x),
         UNCHANGED <<rows, queue, poll, sweep, enabled>>,
         delivered \subseteq delivered',
         delivered' \subseteq delivered \cup {Text(x)},
         delivered' # delivered => sender[x].pc = "sending",
         Known' \subseteq Known,
         sender[x].pc \in {"recording", "marking"} => Text(x) \notin Known'
  PROVE  OutboxInv'
<1> USE DEF OutboxInv
<1>1. Types /\ Types'
  BY Zenon DEF Types, TypeOK
<1>2. /\ x \in Senders
      /\ sender'[x].pc = "idle"
      /\ \A y \in Senders \ {x} : sender'[y] = sender[y]
      /\ Busy' = Busy \ {x}
      /\ dispatching' = dispatching \ {sender[x].sub}
  BY Zenon, <1>1 DEF Finish, Release, NoJob, Busy, Types
<1>3. SenderCoherentAt(x)
  BY Zenon DEF SenderCoherent
<1>4. RowsWellFormed'
  <2> SUFFICES ASSUME NEW d \in delivered'
               PROVE  rows[d[1]].status # "none" /\ d[2] <= rows[d[1]].gen
    BY Zenon DEF RowsWellFormed
  <2>1. CASE d \in delivered
    BY Zenon, <2>1 DEF RowsWellFormed
  <2>2. CASE d \notin delivered
    BY <1>3, <2>2 DEF SenderCoherentAt, ReadOf, Text
  <2> QED BY Zenon, <2>1, <2>2
<1>5. OnePending'
  BY Zenon DEF OnePending, Pending
<1>6. SingleOwner'
  BY <1>2 DEF SingleOwner, Busy
<1>7. ClaimsAccounted'
  BY <1>2 DEF ClaimsAccounted, SingleOwner, Busy
<1>8. PollCoherent' /\ QueueCoherent'
  BY Zenon DEF PollCoherent, QueueCoherent, JobCoherent, ReadOf, Pending
<1>9. SenderCoherent'
  <2> SUFFICES ASSUME NEW y \in Busy \ {x} PROVE SenderCoherentAt(y)'
    BY Zenon, <1>2 DEF SenderCoherent
  <2>1. SenderCoherentAt(y) /\ sender'[y] = sender[y]
    BY Zenon, <1>2 DEF SenderCoherent, Busy
  <2> QED BY Zenon, <2>1 DEF SenderCoherentAt, ReadOf, Pending, Text
<1>10. PendingUnsent'
  <2> SUFFICES ASSUME NEW r \in RowIds, Pending(r), <<r, rows[r].gen>> \in Known'
               PROVE  \E y \in Senders :
                        /\ sender'[y].pc \in {"recording", "marking"}
                        /\ sender'[y].row = r
                        /\ sender'[y].gen = rows[r].gen
    BY Zenon DEF PendingUnsent, Pending
  <2>1. PICK y \in Senders : /\ sender[y].pc \in {"recording", "marking"}
                             /\ sender[y].row = r
                             /\ sender[y].gen = rows[r].gen
    BY Zenon DEF PendingUnsent
  <2>2. y # x
    BY Zenon, <2>1 DEF Text
  <2> QED BY Zenon, <1>2, <2>1, <2>2
<1>11. SentWasDelivered'
  BY Zenon DEF SentWasDelivered
<1>12. SilentWhenDisabled'
  BY Zenon, <1>2 DEF SilentWhenDisabled
<1> QED BY Zenon, <1>4, <1>5, <1>6, <1>7, <1>8, <1>9, <1>10, <1>11, <1>12

\* A restart leaves no owner and no claim, and what was sent but not marked
\* counts as unrecorded.
LEMMA CrashStep ==
  ASSUME OutboxInv, TypeOK', Crash
  PROVE  OutboxInv'
<1> USE DEF OutboxInv
<1>1. /\ Busy' = {}
      /\ queue' = {}
      /\ dispatching' = {}
      /\ ~poll'.owns /\ poll'.pc = "idle"
      /\ sweep'.pc = "idle" /\ sweep'.list = {}
      /\ UNCHANGED <<rows, delivered>>
  BY Zenon DEF Crash, Busy, NoJob, NoMail, NoSweep, db
<1>2. RowsWellFormed' /\ OnePending' /\ SentWasDelivered'
  BY Zenon, <1>1 DEF RowsWellFormed, OnePending, SentWasDelivered, Pending
<1>3. SingleOwner' /\ ClaimsAccounted' /\ SilentWhenDisabled'
  BY Zenon, <1>1 DEF SingleOwner, ClaimsAccounted, SilentWhenDisabled
<1>4. PollCoherent' /\ QueueCoherent' /\ SenderCoherent'
  BY Zenon, <1>1 DEF PollCoherent, QueueCoherent, SenderCoherent
<1>5. PendingUnsent'
  <2> SUFFICES ASSUME NEW r \in RowIds, Pending(r), <<r, rows[r].gen>> \in Known'
               PROVE  FALSE
    BY Zenon, <1>1 DEF PendingUnsent, Pending
  <2>1. <<r, rows[r].gen>> \in Known
    BY Zenon, <1>1 DEF Known, Crash
  <2>2. PICK x \in Senders : /\ sender[x].pc \in {"recording", "marking"}
                             /\ sender[x].row = r
                             /\ sender[x].gen = rows[r].gen
    BY Zenon, <2>1 DEF PendingUnsent
  <2>3. Text(x) \in unrecorded'
    BY Zenon, <2>2 DEF Crash
  <2> QED BY Zenon, <2>2, <2>3 DEF Known, Text
<1> QED BY Zenon, <1>2, <1>3, <1>4, <1>5

-----------------------------------------------------------------------------
(* The steps of the poller that move a claim.                              *)

\* claimDispatch: the poller becomes the owner only of a free submission.
LEMMA IngestClaimStep ==
  ASSUME OutboxInv, TypeOK', IngestClaim
  PROVE  OutboxInv'
<1> USE DEF OutboxInv
<1>1. Types /\ Types'
  BY Zenon DEF Types, TypeOK
<1>2. /\ poll.pc = "loaded"
      /\ ~poll.owns
      /\ poll.sub \in Subs
      /\ poll.ask \in Asks
      /\ enabled
      /\ poll'.pc = "claimed"
      /\ poll'.sub = poll.sub
      /\ poll'.ask = poll.ask
      /\ poll'.owns = (poll.sub \notin dispatching)
      /\ dispatching' = dispatching \cup {poll.sub}
      /\ UNCHANGED <<rows, delivered, unrecorded, sender, queue, enabled, sweep>>
  BY Zenon, <1>1 DEF IngestClaim, NoReply, Suppressed, PollCoherent, Types,
              MailRecords, db, hist
<1>3. RowsWellFormed'
  BY Zenon, <1>2 DEF RowsWellFormed
<1>4. SingleOwner'
  BY Zenon, <1>2 DEF SingleOwner, ClaimsAccounted, Busy
<1>5. ClaimsAccounted'
  BY Zenon, <1>2 DEF ClaimsAccounted, Busy
<1>6. PollCoherent'
  BY Zenon, <1>2 DEF PollCoherent
<1>7. /\ OnePending' /\ QueueCoherent' /\ SenderCoherent' /\ PendingUnsent'
      /\ SentWasDelivered'
  BY Zenon, <1>2, OwnersKept
<1>8. SilentWhenDisabled'
  BY Zenon, <1>2 DEF SilentWhenDisabled
<1> QED BY Zenon, <1>3, <1>4, <1>5, <1>6, <1>7, <1>8

\* The poller drops its email, giving back the claim if it has one.
LEMMA PollDropStep ==
  ASSUME OutboxInv, TypeOK', poll' = NoMail, poll.pc # "idle",
         IF poll.owns THEN Release(poll.sub) ELSE UNCHANGED dispatching,
         UNCHANGED <<rows, delivered, unrecorded, sender, queue, enabled, sweep>>
  PROVE  OutboxInv'
<1> USE DEF OutboxInv
<1>1. ~poll'.owns /\ poll'.pc = "idle"
  BY Zenon DEF NoMail
<1>2. RowsWellFormed'
  BY Zenon DEF RowsWellFormed
<1>3. SingleOwner'
  BY Zenon, <1>1 DEF SingleOwner, Busy
<1>4. ClaimsAccounted'
  BY Zenon, <1>1 DEF ClaimsAccounted, SingleOwner, Release, Busy
<1>5. PollCoherent'
  BY Zenon, <1>1 DEF PollCoherent
<1>6. /\ OnePending' /\ QueueCoherent' /\ SenderCoherent' /\ PendingUnsent'
      /\ SentWasDelivered'
  BY Zenon, OwnersKept
<1>7. SilentWhenDisabled'
  BY Zenon, <1>1 DEF SilentWhenDisabled, Busy
<1> QED BY Zenon, <1>2, <1>3, <1>4, <1>5, <1>6, <1>7

\* enqueueReply hands the claim over to the job in the channel.
LEMMA IngestEnqueueStep ==
  ASSUME OutboxInv, TypeOK', IngestEnqueue
  PROVE  OutboxInv'
<1> USE DEF OutboxInv
<1> DEFINE job == [sub |-> poll.sub, row |-> poll.row, ver |-> poll.ver,
                   gen |-> poll.gen, ask |-> poll.ask]
<1>1. Types
  BY Zenon DEF Types, TypeOK
<1>2. /\ poll.pc = "committed"
      /\ poll.owns
      /\ poll.sub \in Subs
      /\ ~poll'.owns
      /\ poll'.pc = "idle"
      /\ queue' = queue \cup {job}
      /\ UNCHANGED <<rows, delivered, unrecorded, sender, dispatching, enabled, sweep>>
  BY Zenon DEF IngestEnqueue, CanEnqueue, NoMail, PollCoherent, db, hist
<1>3. /\ job.sub = poll.sub
      /\ job.row = poll.row
      /\ job.ver = poll.ver
      /\ job.gen = poll.gen
  BY Zenon
<1> HIDE DEF job
<1>4. RowsWellFormed'
  BY Zenon, <1>2 DEF RowsWellFormed
<1>5. SingleOwner'
  BY <1>2, <1>3 DEF SingleOwner, Busy
<1>6. ClaimsAccounted'
  BY Zenon, <1>2, <1>3 DEF ClaimsAccounted, Busy
<1>7. PollCoherent'
  BY Zenon, <1>2 DEF PollCoherent
<1>8. QueueCoherent'
  <2>1. \A j \in queue' : JobCoherent(j.sub, j.row, j.ver, j.gen)
    BY Zenon, <1>2, <1>3 DEF QueueCoherent, PollCoherent
  <2> QED BY <1>2, <2>1, OwnersKept DEF QueueCoherent
<1>9. OnePending' /\ SenderCoherent' /\ PendingUnsent' /\ SentWasDelivered'
  BY Zenon, <1>2, OwnersKept
<1>10. SilentWhenDisabled'
  BY Zenon, <1>2 DEF SilentWhenDisabled
<1> QED BY Zenon, <1>4, <1>5, <1>6, <1>7, <1>8, <1>9, <1>10

-----------------------------------------------------------------------------
(* A sender takes up a reply, and moves on with it.                        *)


\* While the table stays as it is, a reply sent but not yet marked keeps the
\* sender that is about to mark it, if those senders do not move.
LEMMA MarkersKept ==
  ASSUME PendingUnsent, UNCHANGED <<rows, delivered, unrecorded>>,
         \A x \in Senders : sender[x].pc \in {"recording", "marking"} =>
                              sender'[x] = sender[x]
  PROVE  PendingUnsent'
<1>1. Known' = Known
  BY Zenon DEF Known
<1> QED BY <1>1 DEF PendingUnsent, Pending

\* While the table stays as it is, what a sender that does not move has read
\* of it holds.
LEMMA ReaderKept ==
  ASSUME NEW x, SenderCoherentAt(x), sender'[x] = sender[x],
         UNCHANGED <<rows, delivered, unrecorded>>
  PROVE  SenderCoherentAt(x)'
<1>1. Known' = Known
  BY Zenon DEF Known
<1> QED BY Zenon, <1>1 DEF SenderCoherentAt, ReadOf, Pending, Text

\* A sender takes up a reply it has read and nobody has sent.
LEMMA ReaderStarts ==
  ASSUME NEW x, sender'[x].pc = "sending", sender'[x].sub \in Subs,
         sender'[x].ask \in Asks,
         JobCoherent(sender[x].sub, sender[x].row, sender[x].ver, sender[x].gen)',
         x = Sweeper => sender'[x].gen = rows'[sender'[x].row].gen
  PROVE  SenderCoherentAt(x)'
BY Zenon DEF SenderCoherentAt, JobCoherent, ReadOf, Text

\* What is known of the table alone does not change with it unchanged.
LEMMA TableKept ==
  ASSUME RowsWellFormed, OnePending, SentWasDelivered,
         UNCHANGED <<rows, delivered, unrecorded>>,
         sweep'.list \subseteq sweep.list
  PROVE  RowsWellFormed' /\ OnePending' /\ SentWasDelivered'
BY Zenon DEF RowsWellFormed, OnePending, SentWasDelivered, Pending

\* The text a row holds now, if nobody has sent it, may be taken up.
LEMMA CurrentText ==
  ASSUME NEW r \in RowIds, rows[r].status # "none",
         rows[r].ver \in Nat, rows[r].gen \in Nat,
         <<r, rows[r].gen>> \notin Known
  PROVE  JobCoherent(rows[r].sub, r, rows[r].ver, rows[r].gen)
BY DEF JobCoherent, ReadOf

\* A worker takes the claim over with the job.
LEMMA TakeStep ==
  ASSUME OutboxInv, TypeOK', NEW w \in Workers, NEW job \in queue, Take(w, job)
  PROVE  OutboxInv'
<1> USE DEF OutboxInv
<1>1. Types /\ Types'
  BY Zenon DEF Types, TypeOK
<1>2. /\ w \in Senders
      /\ w # Sweeper
      /\ sender[w].pc = "idle"
      /\ sender'[w].pc = "sending"
      /\ sender'[w].sub = job.sub
      /\ sender'[w].row = job.row
      /\ sender'[w].ver = job.ver
      /\ sender'[w].gen = job.gen
      /\ sender'[w].ask = job.ask
      /\ \A y \in Senders \ {w} : sender'[y] = sender[y]
      /\ queue' = queue \ {job}
      /\ UNCHANGED <<rows, delivered, unrecorded, dispatching, enabled, sweep, poll>>
  BY Zenon, <1>1, SweeperAssumption DEF Take, Types, SenderRecords, Senders, db, hist
<1>3. Busy' = Busy \cup {w}
  BY Zenon, <1>2 DEF Busy
<1>4. RowsWellFormed' /\ OnePending' /\ SentWasDelivered'
  BY Zenon, <1>2, TableKept
<1>5. SingleOwner'
  BY <1>2, <1>3 DEF SingleOwner, Busy
<1>6. ClaimsAccounted'
  BY <1>2, <1>3 DEF ClaimsAccounted, Busy
<1>7. PollCoherent' /\ QueueCoherent'
  BY Zenon, <1>2 DEF PollCoherent, QueueCoherent, JobCoherent, ReadOf, Known, Pending
<1>8. SenderCoherent'
  <2>1. SenderCoherentAt(w)'
    <3>1. job \in JobRecords /\ JobCoherent(job.sub, job.row, job.ver, job.gen)
      BY Zenon, <1>1 DEF QueueCoherent, Types
    <3>2. job.sub \in Subs /\ job.ask \in Asks
      BY Zenon, <3>1 DEF JobRecords
    <3>3. JobCoherent(sender[w].sub, sender[w].row, sender[w].ver, sender[w].gen)'
      BY Zenon, <1>2, <3>1 DEF JobCoherent, ReadOf, Known, Pending
    <3> QED BY Zenon, <1>2, <3>2, <3>3, ReaderStarts
  <2>2. ASSUME NEW y \in Busy PROVE SenderCoherentAt(y)'
    <3>1. sender'[y] = sender[y] /\ SenderCoherentAt(y)
      BY Zenon, <1>2, <1>3 DEF SenderCoherent, Busy
    <3> QED BY Zenon, <1>2, <3>1, ReaderKept
  <2> QED BY Zenon, <1>3, <2>1, <2>2 DEF SenderCoherent
<1>9. PendingUnsent'
  <2>1. \A x \in Senders : sender[x].pc \in {"recording", "marking"} =>
                             sender'[x] = sender[x]
    BY Zenon, <1>2
  <2> QED BY Zenon, <1>2, <2>1, MarkersKept
<1>10. SilentWhenDisabled'
  BY Zenon, <1>2 DEF SilentWhenDisabled
<1> QED BY Zenon, <1>4, <1>5, <1>6, <1>7, <1>8, <1>9, <1>10

\* The sweeper becomes the owner only of a free submission.
LEMMA SweepClaimStep ==
  ASSUME OutboxInv, TypeOK', NEW r \in RowIds, SweepClaim(r)
  PROVE  OutboxInv'
<1> USE DEF OutboxInv
<1>1. Types /\ Types'
  BY Zenon DEF Types, TypeOK
<1>2. /\ Sweeper \in Senders
      /\ sender[Sweeper].pc = "idle"
      /\ sender'[Sweeper].pc = "claimed"
      /\ sender'[Sweeper].sub = rows[r].sub
      /\ sender'[Sweeper].row = r
      /\ \A y \in Senders \ {Sweeper} : sender'[y] = sender[y]
      /\ r \in sweep.list
      /\ sweep'.list \subseteq sweep.list
      /\ sweep'.pc = sweep.pc
      /\ sweep.pc = "walking"
      /\ rows[r].sub \notin dispatching
      /\ dispatching' = dispatching \cup {rows[r].sub}
      /\ UNCHANGED <<rows, delivered, unrecorded, queue, enabled, poll>>
  BY Zenon, <1>1 DEF SweepClaim, Walking, Passed, NoJob, Senders, Types, TypeOK, db, hist
<1>3. Busy' = Busy \cup {Sweeper} /\ Sweeper \notin Busy
  BY Zenon, <1>2 DEF Busy
<1>4. rows[r].status # "none" /\ rows[r].sub \in Subs
  BY Zenon, <1>2 DEF RowsWellFormed
<1>5. RowsWellFormed' /\ OnePending' /\ SentWasDelivered'
  BY Zenon, <1>2, TableKept
<1>6. SingleOwner'
  <2>1. /\ \A y \in Busy : sender[y].sub # rows[r].sub
        /\ \A j \in queue : j.sub # rows[r].sub
        /\ poll.owns => poll.sub # rows[r].sub
    BY Zenon, <1>2, <1>4 DEF ClaimsAccounted
  <2> QED BY <1>2, <1>3, <2>1 DEF SingleOwner, Busy
<1>7. ClaimsAccounted'
  BY <1>2, <1>3, <1>4 DEF ClaimsAccounted, Busy
<1>8. PollCoherent' /\ QueueCoherent'
  BY Zenon, <1>2 DEF PollCoherent, QueueCoherent, JobCoherent, ReadOf, Known, Pending
<1>9. SenderCoherent'
  <2>1. SenderCoherentAt(Sweeper)'
    BY Zenon, <1>2, <1>4 DEF SenderCoherentAt
  <2>2. ASSUME NEW y \in Busy PROVE SenderCoherentAt(y)'
    <3>1. sender'[y] = sender[y] /\ SenderCoherentAt(y)
      BY Zenon, <1>2, <1>3 DEF SenderCoherent, Busy
    <3> QED BY Zenon, <1>2, <3>1, ReaderKept
  <2> QED BY Zenon, <1>3, <2>1, <2>2 DEF SenderCoherent
<1>10. PendingUnsent'
  <2>1. \A x \in Senders : sender[x].pc \in {"recording", "marking"} =>
                             sender'[x] = sender[x]
    BY Zenon, <1>2
  <2> QED BY Zenon, <1>2, <2>1, MarkersKept
<1>11. SilentWhenDisabled'
  BY Zenon, <1>2 DEF SilentWhenDisabled
<1> QED BY Zenon, <1>5, <1>6, <1>7, <1>8, <1>9, <1>10, <1>11

\* GetPending found the row pending: its text is not known to be sent, for
\* the sender that sent it would still hold the claim the sweeper has.
LEMMA SweepRereadStep ==
  ASSUME OutboxInv, TypeOK', SweepReread, Pending(sender[Sweeper].row)
  PROVE  OutboxInv'
<1> USE DEF OutboxInv
<1> DEFINE r == sender[Sweeper].row
<1>1. Types /\ Types'
  BY Zenon DEF Types, TypeOK
<1>2. /\ Sweeper \in Senders
      /\ sender[Sweeper].pc = "claimed"
      /\ sender'[Sweeper].pc = "sending"
      /\ sender'[Sweeper].sub = sender[Sweeper].sub
      /\ sender'[Sweeper].row = r
      /\ sender'[Sweeper].ver = rows[r].ver
      /\ sender'[Sweeper].gen = rows[r].gen
      /\ sender'[Sweeper].ask = rows[r].ask
      /\ \A y \in Senders \ {Sweeper} : sender'[y] = sender[y]
      /\ UNCHANGED <<rows, delivered, unrecorded, dispatching, queue, enabled, sweep, poll>>
  <2>1. /\ Sweeper \in Senders
        /\ sender \in [Senders -> SenderRecords]
        /\ sender[Sweeper] \in SenderRecords
    BY Zenon, <1>1 DEF Types, Senders
  <2>2. /\ sender[Sweeper].pc = "claimed"
        /\ sender' = [sender EXCEPT ![Sweeper] =
             [sender[Sweeper] EXCEPT !.pc = "sending", !.ver = rows[r].ver,
                                     !.gen = rows[r].gen, !.ask = rows[r].ask,
                                     !.attempts = rows[r].attempts]]
        /\ UNCHANGED <<rows, delivered, unrecorded, dispatching, queue, enabled, sweep, poll>>
    BY Zenon DEF SweepReread, db, hist
  <2>3. /\ sender'[Sweeper] =
             [sender[Sweeper] EXCEPT !.pc = "sending", !.ver = rows[r].ver,
                                     !.gen = rows[r].gen, !.ask = rows[r].ask,
                                     !.attempts = rows[r].attempts]
        /\ \A y \in Senders \ {Sweeper} : sender'[y] = sender[y]
    BY Zenon, <2>1, <2>2
  <2> QED BY Zenon, <2>1, <2>2, <2>3 DEF SenderRecords
<1>3. Busy' = Busy /\ Sweeper \in Busy
  BY Zenon, <1>2 DEF Busy
<1>4. SenderCoherentAt(Sweeper)
  BY Zenon, <1>3 DEF SenderCoherent
<1>5. <<r, rows[r].gen>> \notin Known
  <2> SUFFICES ASSUME <<r, rows[r].gen>> \in Known PROVE FALSE
    BY Zenon
  <2>1. r \in RowIds
    BY Zenon, <1>4 DEF SenderCoherentAt
  <2>2. PICK y \in Senders : /\ sender[y].pc \in {"recording", "marking"}
                             /\ sender[y].row = r
    BY Zenon, <2>1 DEF PendingUnsent
  <2>3. y \in Busy /\ y # Sweeper
    BY Zenon, <1>2, <2>2 DEF Busy
  <2>4. SenderCoherentAt(y)
    BY Zenon, <2>3 DEF SenderCoherent
  <2> QED BY Zenon, <1>3, <1>4, <2>2, <2>3, <2>4 DEF SenderCoherentAt, SingleOwner
<1>6. RowsWellFormed' /\ OnePending' /\ SentWasDelivered'
  BY Zenon, <1>2, TableKept
<1>7. SingleOwner' /\ ClaimsAccounted'
  BY <1>2, <1>3 DEF SingleOwner, ClaimsAccounted, Busy
<1>8. PollCoherent' /\ QueueCoherent'
  BY Zenon, <1>2 DEF PollCoherent, QueueCoherent, JobCoherent, ReadOf, Known, Pending
<1>9. SenderCoherent'
  <2> SUFFICES ASSUME NEW y \in Busy PROVE SenderCoherentAt(y)'
    BY Zenon, <1>3 DEF SenderCoherent
  <2>1. SenderCoherentAt(y) /\ y \in Senders
    BY Zenon DEF SenderCoherent, Busy
  <2>2. CASE y = Sweeper
    <3>1. rows[r] \in Rows /\ rows[r].ask \in Asks
      BY Zenon, <1>1, <1>4 DEF SenderCoherentAt, RowsWellFormed, Types
    <3>2. rows[r].ver \in Nat /\ rows[r].gen \in Nat
      BY Zenon, <3>1 DEF Rows
    <3>3. /\ r \in RowIds /\ rows[r].status # "none"
          /\ rows[r].sub = sender[Sweeper].sub /\ sender[Sweeper].sub \in Subs
      BY Zenon, <1>2, <1>4 DEF SenderCoherentAt
    <3>4. JobCoherent(sender[Sweeper].sub, r, rows[r].ver, rows[r].gen)
      BY Zenon, <1>5, <3>2, <3>3, CurrentText
    <3>5. JobCoherent(sender[Sweeper].sub, sender[Sweeper].row, sender[Sweeper].ver,
                      sender[Sweeper].gen)'
      BY Zenon, <1>2, <3>4 DEF JobCoherent, ReadOf, Known, Pending
    <3> QED BY Zenon, <1>2, <2>2, <3>1, <3>3, <3>5, ReaderStarts
  <2>3. CASE y # Sweeper
    BY Zenon, <1>2, <2>1, <2>3, ReaderKept
  <2> QED BY Zenon, <2>2, <2>3
<1>10. PendingUnsent'
  <2>1. \A x \in Senders : sender[x].pc \in {"recording", "marking"} =>
                             sender'[x] = sender[x]
    BY Zenon, <1>2
  <2> QED BY Zenon, <1>2, <2>1, MarkersKept
<1>11. SilentWhenDisabled'
  BY Zenon, <1>2, <1>3 DEF SilentWhenDisabled
<1> QED BY Zenon, <1>6, <1>7, <1>8, <1>9, <1>10, <1>11

\* A sender moves on within its job; what it has read stays, and no text
\* becomes known to be sent.
LEMMA AdvanceStep ==
  ASSUME OutboxInv, TypeOK', NEW x \in Busy, NEW pc,
         sender' = [sender EXCEPT ![x].pc = pc],
         \/ sender[x].pc = "recording" /\ pc = "marking"
         \/ sender[x].pc = "sending" /\ pc = "updating" /\ x = Sweeper
         \/ sender[x].pc = "updating" /\ pc = "clearing" /\ x = Sweeper,
         UNCHANGED <<rows, dispatching, queue, enabled, sweep, poll>>,
         delivered \subseteq delivered',
         delivered' \subseteq delivered \cup {Text(x)},
         delivered' # delivered => sender[x].pc = "sending",
         Known' = Known
  PROVE  OutboxInv'
<1> USE DEF OutboxInv
<1>1. Types /\ Types'
  BY Zenon DEF Types, TypeOK
<1>2. /\ x \in Senders
      /\ sender'[x].pc = pc
      /\ sender'[x].sub = sender[x].sub
      /\ sender'[x].row = sender[x].row
      /\ sender'[x].ver = sender[x].ver
      /\ sender'[x].gen = sender[x].gen
      /\ sender'[x].ask = sender[x].ask
      /\ \A y \in Senders \ {x} : sender'[y] = sender[y]
  BY Zenon, <1>1 DEF Types, SenderRecords, Busy
<1>3. Busy' = Busy
  BY Zenon, <1>2 DEF Busy
<1>4. SenderCoherentAt(x)
  BY Zenon DEF SenderCoherent
<1>5. RowsWellFormed'
  <2> SUFFICES ASSUME NEW d \in delivered'
               PROVE  rows[d[1]].status # "none" /\ d[2] <= rows[d[1]].gen
    BY Zenon DEF RowsWellFormed
  <2>1. CASE d \in delivered
    BY Zenon, <2>1 DEF RowsWellFormed
  <2>2. CASE d \notin delivered
    BY <1>4, <2>2 DEF SenderCoherentAt, ReadOf, Text
  <2> QED BY Zenon, <2>1, <2>2
<1>6. OnePending' /\ SentWasDelivered'
  BY Zenon DEF OnePending, SentWasDelivered, Pending
<1>7. SingleOwner' /\ ClaimsAccounted'
  BY <1>2, <1>3 DEF SingleOwner, ClaimsAccounted, Busy
<1>8. PollCoherent' /\ QueueCoherent'
  BY Zenon DEF PollCoherent, QueueCoherent, JobCoherent, ReadOf, Pending
<1>9. SenderCoherent'
  <2> SUFFICES ASSUME NEW y \in Busy PROVE SenderCoherentAt(y)'
    BY Zenon, <1>3 DEF SenderCoherent
  <2>1. SenderCoherentAt(y) /\ y \in Senders
    BY Zenon DEF SenderCoherent, Busy
  <2>2. CASE y = x
    BY <1>2, <1>4, <2>2 DEF SenderCoherentAt, ReadOf, Pending, Text
  <2>3. CASE y # x
    BY <1>2, <2>1, <2>3 DEF SenderCoherentAt, ReadOf, Pending, Text
  <2> QED BY Zenon, <2>2, <2>3
<1>10. PendingUnsent'
  BY <1>2 DEF PendingUnsent, Pending
<1>11. SilentWhenDisabled'
  BY Zenon, <1>3 DEF SilentWhenDisabled
<1> QED BY Zenon, <1>5, <1>6, <1>7, <1>8, <1>9, <1>10, <1>11

-----------------------------------------------------------------------------
(* Sending a reply and recording what became of it.                        *)

\* The text is sent; only its sender could be sending it.
LEMMA SendStep ==
  ASSUME OutboxInv, TypeOK', NEW x \in Senders, Send(x)
  PROVE  OutboxInv'
<1> USE DEF OutboxInv
<1>1. Types /\ Types'
  BY Zenon DEF Types, TypeOK
<1>2. /\ sender[x].pc = "sending"
      /\ sender'[x].pc = "recording"
      /\ sender'[x].sub = sender[x].sub
      /\ sender'[x].row = sender[x].row
      /\ sender'[x].ver = sender[x].ver
      /\ sender'[x].gen = sender[x].gen
      /\ sender'[x].ask = sender[x].ask
      /\ \A y \in Senders \ {x} : sender'[y] = sender[y]
      /\ delivered' = delivered \cup {<<sender[x].row, sender[x].gen>>}
      /\ UNCHANGED <<rows, unrecorded, dispatching, queue, enabled, sweep, poll>>
  BY Zenon, <1>1 DEF Send, Accepted, Types, SenderRecords, Text, db
<1>3. Busy' = Busy /\ x \in Busy
  BY Zenon, <1>2 DEF Busy
<1>4. SenderCoherentAt(x)
  BY Zenon, <1>3 DEF SenderCoherent
<1>5. ReadOf(sender[x].sub, sender[x].row, sender[x].ver, sender[x].gen)
  BY Zenon, <1>2, <1>4 DEF SenderCoherentAt
<1>6. RowsWellFormed'
  BY <1>1, <1>2, <1>5 DEF RowsWellFormed, ReadOf, Types
<1>7. OnePending' /\ SentWasDelivered'
  BY Zenon, <1>2 DEF OnePending, SentWasDelivered, Pending
<1>8. SingleOwner' /\ ClaimsAccounted'
  BY <1>2, <1>3 DEF SingleOwner, ClaimsAccounted, Busy
<1>9. ASSUME NEW s, NEW r, NEW v, NEW g, s # sender[x].sub,
             JobCoherent(s, r, v, g)
      PROVE  JobCoherent(s, r, v, g)'
  <2>1. r # sender[x].row
    BY Zenon, <1>5, <1>9 DEF JobCoherent, ReadOf
  <2> QED BY Zenon, <1>2, <1>9, <2>1 DEF JobCoherent, ReadOf, Known, Pending
<1>10. PollCoherent'
  BY Zenon, <1>2, <1>3, <1>9 DEF PollCoherent, SingleOwner
<1>11. QueueCoherent'
  BY Zenon, <1>2, <1>3, <1>9 DEF QueueCoherent, SingleOwner
<1>12. SenderCoherent'
  <2> SUFFICES ASSUME NEW y \in Busy PROVE SenderCoherentAt(y)'
    BY Zenon, <1>3 DEF SenderCoherent
  <2>1. SenderCoherentAt(y) /\ y \in Senders
    BY Zenon DEF SenderCoherent, Busy
  <2>2. CASE y = x
    BY Zenon, <1>2, <1>4, <2>2 DEF SenderCoherentAt, ReadOf, Known, Pending, Text
  <2>3. CASE y # x
    <3>1. sender[y].row # sender[x].row
      BY Zenon, <1>3, <1>4, <2>1, <2>3 DEF SingleOwner, SenderCoherentAt
    <3> QED BY Zenon, <1>2, <2>1, <2>3, <3>1
            DEF SenderCoherentAt, ReadOf, Known, Pending, Text
  <2> QED BY Zenon, <2>2, <2>3
<1>13. PendingUnsent'
  BY <1>1, <1>2 DEF PendingUnsent, Known, Pending, Types
<1>14. SilentWhenDisabled'
  BY Zenon, <1>2, <1>3 DEF SilentWhenDisabled
<1> QED BY Zenon, <1>6, <1>7, <1>8, <1>10, <1>11, <1>12, <1>13, <1>14

\* MarkSent settles the row only if it still holds the text that was sent;
\* otherwise the superseding text stays pending and unsent.
LEMMA MarkStep ==
  ASSUME OutboxInv, TypeOK', NEW x \in Senders, Mark(x)
  PROVE  OutboxInv'
<1> USE DEF OutboxInv
<1>1. Types /\ Types'
  BY Zenon DEF Types, TypeOK
<1>2. /\ sender[x].pc = "marking"
      /\ sender'[x].pc = "idle"
      /\ \A y \in Senders \ {x} : sender'[y] = sender[y]
      /\ dispatching' = dispatching \ {sender[x].sub}
      /\ UNCHANGED <<delivered, unrecorded, queue, enabled, sweep, poll>>
  BY Zenon, <1>1 DEF Mark, Finish, Release, NoJob, Types, hist
<1>3. x \in Busy /\ Busy' = Busy \ {x}
  BY Zenon, <1>2 DEF Busy
<1>4. SenderCoherentAt(x)
  BY Zenon, <1>3 DEF SenderCoherent
<1>5. /\ ReadOf(sender[x].sub, sender[x].row, sender[x].ver, sender[x].gen)
      /\ Text(x) \in delivered
  BY Zenon, <1>2, <1>4 DEF SenderCoherentAt
<1>6. PICK r \in RowIds, v \in Nat : r = sender[x].row /\ v = sender[x].ver
  BY Zenon, <1>1, <1>5 DEF ReadOf, Types, SenderRecords
<1>7. rows' = MarkedSent(r, v)
  BY Zenon, <1>6 DEF Mark
<1>8. RowsKept /\ RowsSettled
  BY Zenon, <1>1, <1>7, MarkedSentEffect DEF Types
<1>9. /\ \A q \in RowIds \ {r} : rows'[q] = rows[q]
      /\ rows'[r].status = "sent" \/ rows'[r].status = rows[r].status
      /\ Pending(r) /\ rows[r].ver = v => rows'[r].status = "sent"
      /\ ~(Pending(r) /\ rows[r].ver = v) => rows' = rows
  BY <1>1, <1>7 DEF MarkedSent, Types, Rows, Pending
<1>10. Known' = Known
  BY Zenon, <1>2 DEF Known
<1>11. ASSUME NEW s, NEW q, NEW u \in Nat, NEW g \in Nat, ReadOf(s, q, u, g)
       PROVE  ReadOf(s, q, u, g)'
  <2>1. q \in RowIds /\ rows[q] \in Rows /\ rows'[q] \in Rows
    BY Zenon, <1>1, <1>11 DEF Types, ReadOf
  <2> QED BY <1>8, <1>11, <2>1 DEF RowsKept, RowsSettled, ReadOf, Pending, Rows
<1>12. RowsWellFormed'
  <2>1. \A q \in RowIds : rows[q].status # "none" <=> rows'[q].status # "none"
    BY Zenon, <1>8 DEF RowsSettled, Pending
  <2>2. \A d \in delivered : d[1] \in RowIds
    BY Zenon, <1>1 DEF Types
  <2> QED BY Zenon, <1>1, <1>2, <1>8, <2>1, <2>2 DEF RowsWellFormed, RowsKept, Types
<1>13. OnePending'
  BY <1>8 DEF OnePending, RowsKept, RowsSettled, Pending
<1>14. SingleOwner'
  BY <1>2, <1>3 DEF SingleOwner, Busy
<1>15. ClaimsAccounted'
  BY <1>2, <1>3 DEF ClaimsAccounted, SingleOwner, Busy
<1>16. PollCoherent'
  BY Zenon, <1>1, <1>2, <1>10, <1>11 DEF PollCoherent, JobCoherent, Types, MailRecords
<1>17. QueueCoherent'
  BY Zenon, <1>1, <1>2, <1>10, <1>11 DEF QueueCoherent, JobCoherent, Types, JobRecords
<1>18. SenderCoherent'
  <2> SUFFICES ASSUME NEW y \in Busy \ {x} PROVE SenderCoherentAt(y)'
    BY Zenon, <1>3 DEF SenderCoherent
  <2>1. /\ SenderCoherentAt(y)
        /\ sender[y] \in SenderRecords
        /\ sender'[y] = sender[y]
    BY Zenon, <1>1, <1>2 DEF SenderCoherent, Busy, Types
  <2>2. rows'[sender[y].row].status # "none"
    BY Zenon, <1>8, <2>1 DEF SenderCoherentAt, RowsSettled
  <2> QED BY Zenon, <1>2, <1>8, <1>10, <1>11, <2>1, <2>2
          DEF SenderCoherentAt, RowsKept, Text, SenderRecords
<1>19. PendingUnsent'
  <2> SUFFICES ASSUME NEW q \in RowIds, Pending(q)', <<q, rows'[q].gen>> \in Known
               PROVE  \E y \in Senders :
                        /\ sender'[y].pc \in {"recording", "marking"}
                        /\ sender'[y].row = q
                        /\ sender'[y].gen = rows'[q].gen
    BY Zenon, <1>10 DEF PendingUnsent
  <2>1. Pending(q) /\ rows'[q].gen = rows[q].gen
    BY Zenon, <1>8 DEF RowsKept, RowsSettled, Pending
  <2>2. PICK y \in Senders : /\ sender[y].pc \in {"recording", "marking"}
                             /\ sender[y].row = q
                             /\ sender[y].gen = rows[q].gen
    BY Zenon, <2>1 DEF PendingUnsent
  <2>3. y # x
    <3> SUFFICES ASSUME y = x PROVE FALSE
      BY Zenon
    <3>1. Pending(r) /\ rows[r].ver = v
      BY Zenon, <1>5, <1>6, <2>1, <2>2 DEF ReadOf
    <3> QED BY Zenon, <1>6, <1>9, <2>2, <3>1 DEF Pending
  <2> QED BY Zenon, <1>2, <2>1, <2>2, <2>3
<1>20. SentWasDelivered'
  <2> SUFFICES ASSUME NEW q \in RowIds, rows'[q].status = "sent"
               PROVE  <<q, rows'[q].gen>> \in delivered
    BY Zenon, <1>2 DEF SentWasDelivered
  <2>1. CASE rows[q].status = "sent"
    BY Zenon, <1>8, <2>1 DEF SentWasDelivered, RowsKept
  <2>2. CASE rows[q].status # "sent"
    <3>1. q = r /\ Pending(r) /\ rows[r].ver = v
      BY Zenon, <1>9, <2>2
    <3>2. sender[x].gen = rows[r].gen
      BY Zenon, <1>5, <1>6, <3>1 DEF ReadOf
    <3> QED BY Zenon, <1>5, <1>6, <1>8, <3>1, <3>2 DEF RowsKept, Text
  <2> QED BY Zenon, <2>1, <2>2
<1>21. SilentWhenDisabled'
  BY Zenon, <1>2, <1>3 DEF SilentWhenDisabled
<1> QED BY Zenon, <1>12, <1>13, <1>14, <1>15, <1>16, <1>17, <1>18, <1>19, <1>20, <1>21

\* A failed attempt is counted on a row only the sweeper owns.
LEMMA SweepUpdateStep ==
  ASSUME OutboxInv, TypeOK', SweepUpdate
  PROVE  OutboxInv'
<1> USE DEF OutboxInv
<1>1. Types /\ Types' /\ Sweeper \in Senders
  BY Zenon DEF Types, TypeOK, Senders
<1>2. sender[Sweeper].pc = "updating" /\ Sweeper \in Busy
  BY Zenon, <1>1 DEF SweepUpdate, Busy
<1>3. SenderCoherentAt(Sweeper)
  BY Zenon, <1>2 DEF SenderCoherent
<1>4. sender[Sweeper].attempts + 1 \in Nat
  BY <1>1 DEF Types, SenderRecords
<1>5. PICK r \in RowIds, n \in Nat, status \in {"pending", "failed"} :
        /\ r = sender[Sweeper].row
        /\ rows' = Updated(r, status, n)
  BY Zenon, <1>3, <1>4 DEF SweepUpdate, SenderCoherentAt
<1>6. /\ RowsKept
      /\ \A q \in RowIds \ {r} : rows'[q] = rows[q]
      /\ \/ rows' = rows
         \/ /\ rows'[r].status = status
            /\ rows'[r].ver = rows[r].ver + 1
            /\ status = "pending" =>
                 \A q \in RowIds \ {r} : Pending(q) => rows[q].sub # rows[r].sub
  BY Zenon, <1>1, <1>5, UpdatedEffect DEF Types
<1>7. /\ \A y \in Senders \ {Sweeper} : sender'[y] = sender[y]
      /\ \/ /\ sender'[Sweeper].pc = "clearing"
            /\ sender'[Sweeper].sub = sender[Sweeper].sub
            /\ sender'[Sweeper].row = r
            /\ dispatching' = dispatching
         \/ /\ sender'[Sweeper].pc = "idle"
            /\ dispatching' = dispatching \ {sender[Sweeper].sub}
      /\ UNCHANGED <<delivered, unrecorded, queue, enabled, sweep, poll>>
  BY <1>1, <1>5 DEF SweepUpdate, Finish, Release, NoJob, Types, SenderRecords, hist
<1>8. /\ \A y \in Busy \ {Sweeper} : sender'[y] = sender[y] /\ y \in Busy'
      /\ Busy' \subseteq Busy
      /\ Known' = Known
  BY Zenon, <1>1, <1>2, <1>7 DEF Busy, Known
<1>9. /\ rows[r].status # "none"
      /\ rows'[r].status # "none"
      /\ rows[r].sub = sender[Sweeper].sub
      /\ <<r, rows[r].gen>> \notin Known
  BY <1>2, <1>3, <1>5, <1>6 DEF SenderCoherentAt
<1>10. ASSUME NEW s, NEW q, NEW v, NEW g, s # sender[Sweeper].sub,
              ReadOf(s, q, v, g)
       PROVE  ReadOf(s, q, v, g)'
  <2>1. q # r
    BY Zenon, <1>9, <1>10 DEF ReadOf
  <2> QED BY Zenon, <1>6, <1>10, <2>1 DEF ReadOf, Pending
<1>11. RowsWellFormed'
  <2>1. \A q \in RowIds : rows[q].status # "none" <=> rows'[q].status # "none"
    BY Zenon, <1>6, <1>9
  <2>2. \A d \in delivered : d[1] \in RowIds
    BY Zenon, <1>1 DEF Types
  <2> QED BY Zenon, <1>1, <1>6, <1>7, <2>1, <2>2 DEF RowsWellFormed, RowsKept, Types
<1>12. OnePending'
  BY <1>6 DEF OnePending, RowsKept, Pending
<1>13. SingleOwner'
  BY <1>7, <1>8 DEF SingleOwner, Busy
<1>14. ClaimsAccounted'
  BY <1>2, <1>7, <1>8 DEF ClaimsAccounted, SingleOwner, Busy
<1>15. PollCoherent'
  BY Zenon, <1>2, <1>7, <1>8, <1>10 DEF PollCoherent, JobCoherent, SingleOwner
<1>16. QueueCoherent'
  BY Zenon, <1>2, <1>7, <1>8, <1>10 DEF QueueCoherent, JobCoherent, SingleOwner
<1>17. SenderCoherent'
  <2> SUFFICES ASSUME NEW y \in Busy, y \in Busy' PROVE SenderCoherentAt(y)'
    BY Zenon, <1>8 DEF SenderCoherent
  <2>1. SenderCoherentAt(y)
    BY Zenon DEF SenderCoherent
  <2>2. CASE y = Sweeper
    BY Zenon, <1>3, <1>5, <1>6, <1>7, <1>9, <2>2
       DEF SenderCoherentAt, RowsKept, Busy
  <2>3. CASE y # Sweeper
    <3>1. sender[y].sub # sender[Sweeper].sub
      BY Zenon, <1>2, <2>3 DEF SingleOwner
    <3>2. rows'[sender[y].row] = rows[sender[y].row]
      BY Zenon, <1>6, <1>9, <2>1, <3>1 DEF SenderCoherentAt
    <3> QED BY Zenon, <1>7, <1>8, <1>10, <2>1, <2>3, <3>1, <3>2
            DEF SenderCoherentAt, Text
  <2> QED BY Zenon, <2>2, <2>3
<1>18. PendingUnsent'
  <2> SUFFICES ASSUME NEW q \in RowIds, Pending(q)', <<q, rows'[q].gen>> \in Known
               PROVE  \E y \in Senders :
                        /\ sender'[y].pc \in {"recording", "marking"}
                        /\ sender'[y].row = q
                        /\ sender'[y].gen = rows'[q].gen
    BY Zenon, <1>8 DEF PendingUnsent
  <2>1. q # r
    BY Zenon, <1>6, <1>9 DEF RowsKept
  <2>2. Pending(q) /\ rows'[q].gen = rows[q].gen
    BY Zenon, <1>6, <2>1 DEF Pending
  <2>3. PICK y \in Senders : /\ sender[y].pc \in {"recording", "marking"}
                             /\ sender[y].row = q
                             /\ sender[y].gen = rows[q].gen
    BY Zenon, <2>2 DEF PendingUnsent
  <2> QED BY Zenon, <1>2, <1>7, <2>2, <2>3
<1>19. SentWasDelivered'
  BY Zenon, <1>5, <1>6, <1>7 DEF SentWasDelivered, RowsKept
<1>20. SilentWhenDisabled'
  BY Zenon, <1>7, <1>8 DEF SilentWhenDisabled
<1> QED BY Zenon, <1>11, <1>12, <1>13, <1>14, <1>15, <1>16, <1>17, <1>18, <1>19, <1>20

-----------------------------------------------------------------------------
(* The table as Delivery sees it, and the steps that change nothing in     *)
(* that view.  What the mapping needs besides OutboxInv is PromiseInv.     *)

\* The texts of a row in use are numbered from 1, and so are the texts the
\* poller, the channel and the senders hold.
TextsNumbered ==
  /\ \A r \in RowIds : rows[r].status = "none" <=> rows[r].gen = 0
  /\ poll.pc = "committed" => poll.gen >= 1
  /\ \A j \in queue : j.gen >= 1
  /\ \A x \in Senders : sender[x].pc \in {"sending", "recording", "marking"} =>
       sender[x].gen >= 1

\* Nobody settles as sent the row the sweeper is sending: it holds the claim.
Unsettled ==
  sender[Sweeper].pc \in {"sending", "updating"} =>
    rows[sender[Sweeper].row].status # "sent"

PromiseInv == TextsNumbered /\ Unsettled

SameStatus == \A q \in RowIds : rows'[q].status = rows[q].status

-----------------------------------------------------------------------------
(* What a change of the table looks like from Delivery.                    *)

\* Rows that keep submission and generation have held the same texts.
LEMMA AskedKept ==
  ASSUME RowsKept
  PROVE  Asked' = Asked
<1>1. \A p : p \in Asked <=>
        \E r \in RowIds : \E g \in 1 .. rows[r].gen : p = <<rows[r].sub, <<r, g>>>>
  BY DEF Asked
<1>2. \A p : p \in Asked' <=>
        \E r \in RowIds : \E g \in 1 .. rows'[r].gen : p = <<rows'[r].sub, <<r, g>>>>
  BY DEF Asked
<1>3. \A p : p \in Asked <=> p \in Asked'
  BY Zenon, <1>1, <1>2 DEF RowsKept
<1> QED BY Zenon, <1>3

\* Rows that keep generation and status have the same last text.
LEMMA LastKept ==
  ASSUME RowsKept, NEW status,
         \A q \in RowIds : rows'[q].status = status <=> rows[q].status = status
  PROVE  LastTexts(status)' = LastTexts(status)
<1>1. \A t : t \in LastTexts(status) <=>
        \E r \in RowIds : rows[r].status = status /\ t = <<r, rows[r].gen>>
  BY Zenon DEF LastTexts
<1>2. \A t : t \in LastTexts(status)' <=>
        \E r \in RowIds : rows'[r].status = status /\ t = <<r, rows'[r].gen>>
  BY Zenon DEF LastTexts
<1>3. \A t : t \in LastTexts(status) <=> t \in LastTexts(status)'
  BY Zenon, <1>1, <1>2 DEF RowsKept
<1> QED BY Zenon, <1>3

\* Delivery does not see a step that changes no text and no status.
LEMMA Unseen ==
  ASSUME RowsKept, SameStatus, UNCHANGED <<delivered, unrecorded>>
  PROVE  UNCHANGED Promise!vars
<1>1. Asked' = Asked
  BY Zenon, AskedKept
<1>2. /\ LastTexts("pending")' = LastTexts("pending")
      /\ LastTexts("sent")' = LastTexts("sent")
  BY Zenon, LastKept DEF SameStatus
<1> QED BY Zenon, <1>1, <1>2 DEF Promise!vars

\* A step that leaves the table alone keeps its texts.
LEMMA RowsUnchanged ==
  ASSUME UNCHANGED rows
  PROVE  RowsKept /\ SameStatus
BY Zenon DEF RowsKept, SameStatus

-----------------------------------------------------------------------------
(* Steps Delivery does not see.                                            *)

\* Steps of the poller, of the sweeper's list and of the escalation worker that
\* leave the outbox and its senders alone, and the clock.
LEMMA IdleStep ==
  ASSUME PromiseInv, RowsKept, SameStatus,
         UNCHANGED <<queue, sender, delivered, unrecorded>>,
         poll'.pc = "committed" => poll.pc = "committed" /\ poll'.gen = poll.gen,
         OutboxInv
  PROVE  PromiseInv' /\ UNCHANGED Promise!vars
<1>1. UNCHANGED Promise!vars
  BY Zenon, Unseen
<1>2. TextsNumbered'
  BY Zenon DEF PromiseInv, TextsNumbered, RowsKept, SameStatus
<1>3. Unsettled'
  <2>1. ASSUME sender[Sweeper].pc \in {"sending", "updating"}
        PROVE  sender[Sweeper].row \in RowIds
    BY Zenon, <2>1 DEF OutboxInv, SenderCoherent, SenderCoherentAt, Busy, Senders
  <2> QED BY Zenon, <2>1 DEF PromiseInv, Unsettled, SameStatus
<1> QED BY Zenon, <1>1, <1>2, <1>3 DEF PromiseInv

\* The poller hands its text to the channel.
LEMMA EnqueueStep ==
  ASSUME OutboxInv, PromiseInv, IngestEnqueue
  PROVE  PromiseInv' /\ UNCHANGED Promise!vars
<1>1. /\ UNCHANGED <<rows, sender, delivered, unrecorded>>
      /\ poll.pc = "committed"
      /\ poll'.pc = "idle"
      /\ queue' = queue \cup
           {[sub |-> poll.sub, row |-> poll.row, ver |-> poll.ver,
             gen |-> poll.gen, ask |-> poll.ask]}
  BY Zenon DEF IngestEnqueue, NoMail, db, hist
<1>2. UNCHANGED Promise!vars
  BY Zenon, <1>1, RowsUnchanged, Unseen
<1>3. \A j \in queue' : j.gen >= 1
  BY <1>1 DEF PromiseInv, TextsNumbered
<1>4. TextsNumbered'
  BY Zenon, <1>1, <1>3 DEF PromiseInv, TextsNumbered
<1> QED BY Zenon, <1>1, <1>2, <1>4 DEF PromiseInv, Unsettled

\* A sender that takes up a text takes one that was numbered; the sweeper one
\* that is pending.
LEMMA HandoverStep ==
  ASSUME OutboxInv, PromiseInv, NEW x \in Senders,
         UNCHANGED <<rows, poll, delivered, unrecorded>>,
         queue' \subseteq queue,
         \A y \in Senders \ {x} : sender'[y] = sender[y],
         sender'[x].pc \in {"sending", "recording", "marking"} => sender'[x].gen >= 1,
         x = Sweeper /\ sender'[x].pc \in {"sending", "updating"} =>
           rows[sender'[x].row].status # "sent"
  PROVE  PromiseInv' /\ UNCHANGED Promise!vars
<1>1. UNCHANGED Promise!vars
  BY Zenon, RowsUnchanged, Unseen
<1>2. TextsNumbered'
  BY Zenon DEF PromiseInv, TextsNumbered
<1>3. Unsettled'
  BY Zenon DEF PromiseInv, Unsettled, Senders
<1> QED BY Zenon, <1>1, <1>2, <1>3 DEF PromiseInv

\* Taking a job, recording the time of a reply, and the sweeper's claim, lookup
\* and error paths.
LEMMA SenderMoves ==
  ASSUME OutboxInv, PromiseInv
  PROVE  /\ \A w \in Workers : Worker(w) => PromiseInv' /\ UNCHANGED Promise!vars
         /\ \A x \in Senders : Record(x) \/ RecordFails(x) =>
              PromiseInv' /\ UNCHANGED Promise!vars
         /\ \A r \in RowIds : SweepClaim(r) => PromiseInv' /\ UNCHANGED Promise!vars
         /\ SweepReread => PromiseInv' /\ UNCHANGED Promise!vars
         /\ SweepRereadFails \/ SweepUpdateFails \/ SweepClear \/ SweepClearFails =>
              PromiseInv' /\ UNCHANGED Promise!vars
<1>1. Types /\ Sweeper \in Senders
  BY Zenon DEF OutboxInv, TypeOK, Types, Senders
<1>2. ASSUME NEW w \in Workers, Worker(w)
      PROVE  PromiseInv' /\ UNCHANGED Promise!vars
  <2>1. PICK job \in queue : Take(w, job)
    BY Zenon, <1>2 DEF Worker
  <2>2. /\ w \in Senders /\ w # Sweeper
        /\ UNCHANGED <<rows, poll, delivered, unrecorded>>
        /\ queue' \subseteq queue
        /\ \A y \in Senders \ {w} : sender'[y] = sender[y]
        /\ sender'[w].gen = job.gen
    BY Zenon, <1>1, <2>1, SweeperAssumption DEF Take, Types, Senders, SenderRecords, db, hist
  <2>3. job.gen >= 1
    BY Zenon DEF PromiseInv, TextsNumbered
  <2> QED BY Zenon, <2>2, <2>3, HandoverStep
<1>3. ASSUME NEW x \in Senders, Record(x) \/ RecordFails(x)
      PROVE  PromiseInv' /\ UNCHANGED Promise!vars
  <2>1. /\ UNCHANGED <<rows, poll, delivered, unrecorded, queue>>
        /\ \A y \in Senders \ {x} : sender'[y] = sender[y]
        /\ sender[x].pc = "recording"
        /\ sender'[x].pc = "marking"
        /\ sender'[x].gen = sender[x].gen
    BY Zenon, <1>1, <1>3 DEF Record, RecordFails, Types, SenderRecords, db, hist
  <2>2. sender'[x].gen >= 1
    BY Zenon, <2>1 DEF PromiseInv, TextsNumbered
  <2> QED BY Zenon, <2>1, <2>2, HandoverStep
<1>4. ASSUME NEW r \in RowIds, SweepClaim(r)
      PROVE  PromiseInv' /\ UNCHANGED Promise!vars
  <2>1. /\ UNCHANGED <<rows, poll, delivered, unrecorded, queue>>
        /\ \A y \in Senders \ {Sweeper} : sender'[y] = sender[y]
        /\ sender'[Sweeper].pc = "claimed"
    BY Zenon, <1>1, <1>4 DEF SweepClaim, NoJob, Types, db, hist
  <2> QED BY Zenon, <1>1, <2>1, HandoverStep
<1>5. ASSUME SweepReread PROVE PromiseInv' /\ UNCHANGED Promise!vars
  <2>1. /\ UNCHANGED <<rows, poll, delivered, unrecorded, queue>>
        /\ \A y \in Senders \ {Sweeper} : sender'[y] = sender[y]
        /\ sender[Sweeper].pc = "claimed"
    BY Zenon, <1>1, <1>5 DEF SweepReread, Finish, Types, db, hist
  <2>2. CASE ~Pending(sender[Sweeper].row)
    <3>1. sender'[Sweeper].pc = "idle"
      BY <1>1, <1>5, <2>2 DEF SweepReread, Finish, NoJob, Types
    <3> QED BY Zenon, <1>1, <2>1, <3>1, HandoverStep
  <2>3. CASE Pending(sender[Sweeper].row)
    <3>1. sender[Sweeper].row \in RowIds
      BY Zenon, <1>1, <2>1 DEF OutboxInv, SenderCoherent, SenderCoherentAt, Busy
    <3>2. /\ sender'[Sweeper].row = sender[Sweeper].row
          /\ sender'[Sweeper].gen = rows[sender[Sweeper].row].gen
      BY Zenon, <1>1, <1>5, <2>3 DEF SweepReread, Types, SenderRecords
    <3>3. rows[sender[Sweeper].row].status = "pending"
      BY Zenon, <2>3 DEF Pending
    <3>4. rows[sender[Sweeper].row].gen >= 1
      <4>1. rows[sender[Sweeper].row].gen \in Nat /\ rows[sender[Sweeper].row].gen # 0
        BY Zenon, <1>1, <3>1, <3>3 DEF PromiseInv, TextsNumbered, Types, Rows
      <4> QED BY <4>1
    <3> QED BY Zenon, <1>1, <2>1, <3>2, <3>3, <3>4, HandoverStep
  <2> QED BY Zenon, <2>2, <2>3
<1>6. ASSUME \/ SweepRereadFails \/ SweepUpdateFails \/ SweepClear \/ SweepClearFails
      PROVE  PromiseInv' /\ UNCHANGED Promise!vars
  <2>1. /\ UNCHANGED <<rows, poll, delivered, unrecorded, queue>>
        /\ \A y \in Senders \ {Sweeper} : sender'[y] = sender[y]
        /\ sender'[Sweeper].pc \in {"idle", "clearing"}
    BY <1>1, <1>6
       DEF SweepRereadFails, SweepUpdateFails, SweepClear, SweepClearFails, Finish,
           NoJob, Types, SenderRecords, db, hist
  <2> QED BY Zenon, <1>1, <2>1, HandoverStep
<1> QED BY Zenon, <1>2, <1>3, <1>4, <1>5, <1>6

=============================================================================
