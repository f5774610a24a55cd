---------------------------- MODULE OutboxTypes ----------------------------
(***************************************************************************)
(* What the operations on the outbox table do to it, and that every step of*)
(* the outbox keeps the types of its variables.                            *)
(***************************************************************************)
EXTENDS Outbox, TLAPS

\* The part of TypeOK the proofs of the other conjuncts need.
Types ==
  /\ rows \in [RowIds -> Rows]
  /\ queue \subseteq JobRecords
  /\ sender \in [Senders -> SenderRecords]
  /\ poll \in MailRecords
  /\ delivered \subseteq RowIds \X Nat
  /\ sweep.list \subseteq RowIds

\* A step that changes no row's submission, text or generation ...
RowsKept ==
  \A q \in RowIds : /\ rows'[q].sub = rows[q].sub
                    /\ rows'[q].ask = rows[q].ask
                    /\ rows'[q].gen = rows[q].gen

\* ... and at most settles pending rows, advancing their versions, or
\* deletes settled ones.
RowsSettled ==
  \A q \in RowIds :
    \/ rows'[q].status = rows[q].status /\ rows'[q].ver = rows[q].ver
    \/ /\ Pending(q)
       /\ rows'[q].status \in {"sent", "failed"}
       /\ rows'[q].ver > rows[q].ver
    \/ /\ rows[q].status \in {"sent", "failed"}
       /\ rows'[q].status = "pruned"
       /\ rows'[q].ver = rows[q].ver

\* The variables OutboxInv is about, apart from TypeOK.
core == <<rows, delivered, unrecorded, sender, queue, dispatching, enabled,
          poll, sweep>>

-----------------------------------------------------------------------------
(* What the operations on the table do to it.                              *)

\* MarkSent settles the row or leaves the table alone.
LEMMA MarkedSentEffect ==
  ASSUME rows \in [RowIds -> Rows], NEW r \in RowIds, NEW v,
         rows' = MarkedSent(r, v)
  PROVE  rows' \in [RowIds -> Rows] /\ RowsKept /\ RowsSettled
<1>1. rows' \in [RowIds -> Rows]
  BY DEF MarkedSent, Rows, Pending
<1>2. RowsKept
  BY ZenonT(60) DEF MarkedSent, Rows, RowsKept
<1>3. RowsSettled
  BY DEF MarkedSent, Rows, RowsSettled, Pending
<1> QED BY ZenonT(60), <1>1, <1>2, <1>3

\* Expiry settles the pending rows among R as failed.
LEMMA ExpiredEffect ==
  ASSUME rows \in [RowIds -> Rows], NEW R, rows' = Expired(R)
  PROVE  /\ rows' \in [RowIds -> Rows]
         /\ RowsKept
         /\ RowsSettled
         /\ \A q \in RowIds :
              rows'[q].status = "sent" => rows[q].status = "sent"
<1>1. ASSUME NEW q \in RowIds
      PROVE  /\ rows'[q] \in Rows
             /\ rows'[q].sub = rows[q].sub
             /\ rows'[q].ask = rows[q].ask
             /\ rows'[q].gen = rows[q].gen
             /\ \/ rows'[q].status = rows[q].status /\ rows'[q].ver = rows[q].ver
                \/ /\ Pending(q)
                   /\ rows'[q].status = "failed"
                   /\ rows'[q].ver > rows[q].ver
  <2>1. CASE q \in R /\ Pending(q)
    <3>1. rows'[q] = [rows[q] EXCEPT !.status = "failed", !.ver = rows[q].ver + 1]
      BY ZenonT(60), <2>1 DEF Expired
    <3>2. rows'[q] \in Rows
      <4>1. rows[q] \in Rows /\ rows[q].ver + 1 \in Nat
        BY DEF Rows
      <4> QED BY ZenonT(60), <3>1, <4>1 DEF Rows
    <3>3. /\ rows'[q].sub = rows[q].sub
          /\ rows'[q].ask = rows[q].ask
          /\ rows'[q].gen = rows[q].gen
          /\ rows'[q].status = "failed"
          /\ rows'[q].ver = rows[q].ver + 1
      BY <3>1 DEF Rows
    <3>4. rows[q].ver \in Nat
      BY ZenonT(60) DEF Rows
    <3> QED BY <2>1, <3>2, <3>3, <3>4
  <2>2. CASE ~(q \in R /\ Pending(q))
    BY ZenonT(60), <2>2 DEF Expired
  <2> QED BY ZenonT(60), <2>1, <2>2
<1>2. rows' \in [RowIds -> Rows]
  BY ZenonT(60), <1>1 DEF Expired
<1>3. RowsKept
  BY ZenonT(60), <1>1 DEF RowsKept
<1>4. RowsSettled
  BY ZenonT(60), <1>1 DEF RowsSettled
<1> QED BY ZenonT(60), <1>1, <1>2, <1>3, <1>4

\* The passing of time changes no column but the timers.
LEMMA TickEffect ==
  ASSUME rows \in [RowIds -> Rows], Tick
  PROVE  /\ rows' \in [RowIds -> Rows]
         /\ RowsKept
         /\ \A q \in RowIds : /\ rows'[q].status = rows[q].status
                              /\ rows'[q].ver = rows[q].ver
<1>1. ASSUME NEW q \in RowIds
      PROVE  /\ rows'[q] \in Rows
             /\ rows'[q].sub = rows[q].sub
             /\ rows'[q].ask = rows[q].ask
             /\ rows'[q].gen = rows[q].gen
             /\ rows'[q].status = rows[q].status
             /\ rows'[q].ver = rows[q].ver
  <2>1. rows'[q] = [rows[q] EXCEPT !.wait = Less(rows[q].wait),
                                   !.backoff = Less(rows[q].backoff),
                                   !.life = Less(rows[q].life)]
    BY ZenonT(60) DEF Tick
  <2>2. /\ Less(rows[q].wait) \in Nat
        /\ Less(rows[q].backoff) \in Nat
        /\ Less(rows[q].life) \in Nat
    BY DEF Rows, Less
  <2>3. rows'[q] \in Rows
    BY ZenonT(60), <2>1, <2>2 DEF Rows
  <2>4. /\ rows'[q].sub = rows[q].sub
        /\ rows'[q].ask = rows[q].ask
        /\ rows'[q].gen = rows[q].gen
        /\ rows'[q].status = rows[q].status
        /\ rows'[q].ver = rows[q].ver
    BY <2>1 DEF Rows
  <2> QED BY ZenonT(60), <2>3, <2>4
<1>2. rows' \in [RowIds -> Rows]
  BY ZenonT(60), <1>1 DEF Tick
<1> QED BY ZenonT(60), <1>1, <1>2 DEF RowsKept

\* Retention deletes a settled row.
LEMMA PrunedEffect ==
  ASSUME rows \in [RowIds -> Rows], NEW r \in RowIds, RetentionPrune(r)
  PROVE  /\ rows' \in [RowIds -> Rows]
         /\ RowsKept
         /\ RowsSettled
         /\ \A q \in RowIds :
              rows'[q].status = "sent" => rows[q].status = "sent"
<1>1. rows' \in [RowIds -> Rows]
  BY ZenonT(60) DEF RetentionPrune, Rows
<1>2. RowsKept
  BY ZenonT(60) DEF RetentionPrune, Rows, RowsKept
<1>3. RowsSettled
  BY ZenonT(60) DEF RetentionPrune, Rows, RowsSettled
<1>4. \A q \in RowIds : rows'[q].status = "sent" => rows[q].status = "sent"
  BY ZenonT(60) DEF RetentionPrune, Rows
<1> QED BY ZenonT(60), <1>1, <1>2, <1>3, <1>4

\* Update by id changes one row; it makes a row pending only if its
\* submission has no other pending row.
LEMMA UpdatedEffect ==
  ASSUME rows \in [RowIds -> Rows], NEW r \in RowIds, NEW n \in Nat,
         NEW status \in {"pending", "failed"}, rows' = Updated(r, status, n)
  PROVE  /\ rows' \in [RowIds -> Rows]
         /\ RowsKept
         /\ \A q \in RowIds \ {r} : rows'[q] = rows[q]
         /\ \/ rows' = rows
            \/ /\ rows'[r].status = status
               /\ rows'[r].ver = rows[r].ver + 1
               /\ status = "pending" =>
                    \A q \in RowIds \ {r} :
                      Pending(q) => rows[q].sub # rows[r].sub
<1>1. rows' \in [RowIds -> Rows]
  BY BoundsAssumption DEF Updated, Rows
<1>2. RowsKept
  BY ZenonT(60) DEF Updated, Rows, RowsKept
<1>3. \A q \in RowIds \ {r} : rows'[q] = rows[q]
  BY ZenonT(60) DEF Updated, Rows
<1>4. CASE \/ rows[r].status = "pruned"
           \/ status = "pending" /\ PendingOf(rows[r].sub) \ {r} # {}
  BY ZenonT(60), <1>1, <1>2, <1>3, <1>4 DEF Updated
<1>5. CASE ~(\/ rows[r].status = "pruned"
             \/ status = "pending" /\ PendingOf(rows[r].sub) \ {r} # {})
  <2>1. rows'[r].status = status /\ rows'[r].ver = rows[r].ver + 1
    BY ZenonT(60), <1>5 DEF Updated, Rows
  <2>2. status = "pending" =>
          \A q \in RowIds \ {r} : Pending(q) => rows[q].sub # rows[r].sub
    BY ZenonT(60), <1>5 DEF PendingOf
  <2> QED BY ZenonT(60), <1>1, <1>2, <1>3, <2>1, <2>2
<1> QED BY ZenonT(60), <1>4, <1>5

\* insertOutboxRow starts a row for a submission without a pending one, or
\* gives the pending row a new version and a new generation.
LEMMA InsertedEffect ==
  ASSUME rows \in [RowIds -> Rows], poll.sub \in Subs, poll.ask \in Asks,
         poll.cool \in Nat, NEW r \in InsertTargets(poll.sub),
         rows' = [rows EXCEPT ![r] = Inserted(r, poll.sub, poll.ask, poll.cool)]
  PROVE  /\ r \in RowIds
         /\ rows' \in [RowIds -> Rows]
         /\ \A q \in RowIds \ {r} : rows'[q] = rows[q]
         /\ rows'[r].status = "pending"
         /\ rows'[r].sub = poll.sub
         /\ rows'[r].ask = poll.ask
         /\ rows'[r] = Inserted(r, poll.sub, poll.ask, poll.cool)
         /\ \/ /\ Pending(r)
               /\ rows[r].sub = poll.sub
               /\ rows'[r].gen = rows[r].gen + 1
               /\ rows'[r].ver = rows[r].ver + 1
            \/ /\ rows[r].status = "none"
               /\ \A q \in RowIds : Pending(q) => rows[q].sub # poll.sub
<1>1. r \in RowIds /\ rows[r] \in Rows
  BY ZenonT(60) DEF InsertTargets, PendingOf
<1>2. CASE Pending(r)
  <2>1. rows[r].sub = poll.sub
    BY ZenonT(60), <1>2 DEF InsertTargets, PendingOf, Pending
  <2>2. rows'[r] = Superseded(rows[r], poll.ask, poll.cool)
    BY ZenonT(60), <1>1, <1>2 DEF Inserted
  <2>3. /\ rows'[r].status = "pending"
        /\ rows'[r].sub = poll.sub
        /\ rows'[r].ask = poll.ask
        /\ rows'[r].gen = rows[r].gen + 1
        /\ rows'[r].ver = rows[r].ver + 1
    BY ZenonT(60), <1>1, <1>2, <2>1, <2>2 DEF Superseded, Rows, Pending
  <2>4. rows'[r] \in Rows
    <3>1. rows[r].ver + 1 \in Nat /\ rows[r].gen + 1 \in Nat /\ RetryAfter \in Nat
      BY <1>1, BoundsAssumption DEF Rows
    <3> QED BY ZenonT(60), <1>1, <2>2, <3>1 DEF Superseded, Rows
  <2> QED BY ZenonT(60), <1>1, <1>2, <2>1, <2>3, <2>4
<1>3. CASE ~Pending(r)
  <2>1. rows[r].status = "none" /\ PendingOf(poll.sub) = {}
    BY ZenonT(60), <1>3 DEF InsertTargets, PendingOf
  <2>2. rows'[r] = NewRow(poll.sub, poll.ask, poll.cool)
    BY ZenonT(60), <1>1, <1>3 DEF Inserted
  <2>3. NewRow(poll.sub, poll.ask, poll.cool) \in Rows
    BY BoundsAssumption DEF NewRow, Life, Rows
  <2>4. /\ rows'[r].status = "pending"
        /\ rows'[r].sub = poll.sub
        /\ rows'[r].ask = poll.ask
    BY <2>2 DEF NewRow
  <2>5. \A q \in RowIds : Pending(q) => rows[q].sub # poll.sub
    BY ZenonT(60), <2>1 DEF PendingOf
  <2> QED BY ZenonT(60), <1>1, <2>1, <2>2, <2>3, <2>4, <2>5
<1> QED BY ZenonT(60), <1>2, <1>3

-----------------------------------------------------------------------------
(* Type correctness of every step.                                         *)

\* The poller's steps on an email keep the types.
LEMMA IngestTypes ==
  ASSUME OutboxInv
  PROVE  /\ \A s \in Subs, kind \in Kinds, a \in Asks \cup {None} :
              IngestLoad(s, kind, a) => TypeOK'
         /\ IngestPersist \/ IngestPersistFails \/ IngestClaim => TypeOK'
         /\ IngestCommit => TypeOK'
         /\ IngestCommitFails \/ IngestEnqueue \/ IngestLeave => TypeOK'
<1>1. TypeOK /\ PollCoherent /\ poll \in MailRecords
  BY ZenonT(60) DEF OutboxInv, TypeOK
<1>2. NoMail \in MailRecords
  BY ZenonT(60) DEF NoMail, MailRecords
<1>3. ASSUME NEW s \in Subs, NEW kind \in Kinds, NEW a \in Asks \cup {None},
             IngestLoad(s, kind, a)
      PROVE  TypeOK'
  <2>1. BouncedAfter(kind, bounced[s]) \in BOOLEAN
    BY ZenonT(60), <1>1 DEF BouncedAfter, TypeOK
  <2>2. hash[s] \in Asks \cup {None} /\ onHold[s] \in BOOLEAN /\ cool[s] \in Nat
    BY ZenonT(60), <1>1 DEF TypeOK
  <2>3. poll' \in MailRecords
    BY ZenonT(60), <1>3, <2>1, <2>2 DEF IngestLoad, NoMail, MailRecords
  <2> QED BY ZenonT(60), <1>1, <1>3, <2>3 DEF IngestLoad, TypeOK, db, hist
<1>4. ASSUME IngestPersist \/ IngestPersistFails PROVE TypeOK'
  BY ZenonT(60), <1>1, <1>2, <1>4
     DEF IngestPersist, IngestPersistFails, MailRecords, TypeOK, db, hist
<1>5. ASSUME IngestClaim PROVE TypeOK'
  <2>1. poll' \in MailRecords
    BY ZenonT(60), <1>1, <1>5 DEF IngestClaim, MailRecords
  <2>2. poll.sub \in Subs
    BY ZenonT(60), <1>1, <1>5 DEF IngestClaim, PollCoherent
  <2> QED BY ZenonT(60), <1>1, <1>5, <2>1, <2>2 DEF IngestClaim, TypeOK, db, hist
<1>6. ASSUME IngestCommit PROVE TypeOK'
  <2>1. PICK r \in InsertTargets(poll.sub) :
          /\ rows' = [rows EXCEPT ![r] = Inserted(r, poll.sub, poll.ask, poll.cool)]
          /\ poll' = [poll EXCEPT
               !.pc = "committed", !.row = r,
               !.ver = Inserted(r, poll.sub, poll.ask, poll.cool).ver,
               !.gen = Inserted(r, poll.sub, poll.ask, poll.cool).gen]
    BY ZenonT(60), <1>6 DEF IngestCommit
  <2>2. poll.sub \in Subs /\ poll.ask \in Asks /\ poll.cool \in Nat
    BY ZenonT(60), <1>1, <1>6 DEF IngestCommit, PollCoherent, MailRecords
  <2>3. /\ r \in RowIds
        /\ rows' \in [RowIds -> Rows]
        /\ rows'[r] = Inserted(r, poll.sub, poll.ask, poll.cool)
    BY ZenonT(60), <1>1, <2>1, <2>2, InsertedEffect DEF TypeOK
  <2>4. rows'[r].ver \in Nat /\ rows'[r].gen \in Nat
    BY ZenonT(60), <2>3 DEF Rows
  <2>5. poll' = [poll EXCEPT !.pc = "committed", !.row = r,
                             !.ver = rows'[r].ver, !.gen = rows'[r].gen]
    BY ZenonT(60), <2>1, <2>3
  <2>6. poll' \in MailRecords
    BY ZenonT(60), <1>1, <2>3, <2>4, <2>5 DEF MailRecords
  <2>7. hash' \in [Subs -> Asks \cup {None}] /\ bounced' \in [Subs -> BOOLEAN]
    BY ZenonT(60), <1>1, <1>6, <2>2 DEF IngestCommit, TypeOK, MailRecords
  <2> QED BY ZenonT(60), <1>1, <1>6, <2>3, <2>6, <2>7 DEF IngestCommit, TypeOK, hist
<1>7. ASSUME IngestCommitFails \/ IngestLeave PROVE TypeOK'
  BY ZenonT(60), <1>1, <1>2, <1>7
     DEF IngestCommitFails, IngestLeave, Release, TypeOK, db, hist
<1>8. ASSUME IngestEnqueue PROVE TypeOK'
  <2>1. /\ poll.sub \in Subs /\ poll.ask \in Asks /\ poll.row \in RowIds
        /\ poll.ver \in Nat /\ poll.gen \in Nat
    BY ZenonT(60), <1>1, <1>8 DEF IngestEnqueue, PollCoherent, MailRecords
  <2>2. queue' \subseteq JobRecords
    BY <1>1, <1>8, <2>1 DEF IngestEnqueue, JobRecords, TypeOK
  <2> QED BY ZenonT(60), <1>1, <1>2, <1>8, <2>2 DEF IngestEnqueue, TypeOK, db, hist
<1> QED BY ZenonT(60), <1>3, <1>4, <1>5, <1>6, <1>7, <1>8

\* The poller's steps on the Hold folder keep the types.
LEMMA HoldTypes ==
  ASSUME OutboxInv
  PROVE  /\ HoldScan(folder) \/ HoldScanUnavailable => TypeOK'
         /\ HoldSet \/ HoldRelease \/ HoldExpire \/ HoldFails => TypeOK'
<1>1. TypeOK
  BY ZenonT(60) DEF OutboxInv
<1> USE DEF NoRecon
<1>2. ASSUME HoldScan(folder) \/ HoldScanUnavailable PROVE TypeOK'
  BY <1>1, <1>2 DEF HoldScan, HoldScanUnavailable, TypeOK, db, hist
<1>3. ASSUME HoldSet PROVE TypeOK'
  <2>1. preHold' \subseteq RowIds \X Nat
    BY <1>1, <1>3 DEF HoldSet, TypeOK, Rows
  <2>2. onHold' \in [Subs -> BOOLEAN]
    BY ZenonT(60), <1>1, <1>3 DEF HoldSet, TypeOK
  <2> QED BY ZenonT(60), <1>1, <1>3, <2>1, <2>2 DEF HoldSet, TypeOK, db, hist
<1>4. ASSUME HoldRelease \/ HoldFails PROVE TypeOK'
  <2>1. CASE HoldRelease
    <3>1. onHold' \in [Subs -> BOOLEAN]
      BY ZenonT(60), <1>1, <2>1 DEF HoldRelease, TypeOK
    <3>2. recon' \in [pc : {"idle", "hold", "release", "expire"},
                      hold : SUBSET Subs, release : SUBSET Subs]
      BY ZenonT(60), <1>1, <2>1 DEF HoldRelease, TypeOK
    <3> QED BY ZenonT(60), <1>1, <2>1, <3>1, <3>2 DEF HoldRelease, TypeOK, hist
  <2>2. CASE HoldFails
    BY ZenonT(60), <1>1, <2>2 DEF HoldFails, TypeOK, db, hist
  <2> QED BY ZenonT(60), <1>4, <2>1, <2>2
<1>5. ASSUME HoldExpire PROVE TypeOK'
  <2>1. PICK R : R = {r \in RowIds : rows[r].sub \in recon.release}
    BY ZenonT(60)
  <2>2. rows' \in [RowIds -> Rows]
    BY ZenonT(60), <1>1, <1>5, <2>1, ExpiredEffect DEF HoldExpire, TypeOK
  <2> QED BY ZenonT(60), <1>1, <1>5, <2>2 DEF HoldExpire, TypeOK, db, hist
<1> QED BY ZenonT(60), <1>2, <1>3, <1>4, <1>5

\* A sender that goes on to its next statement keeps what it holds.
LEMMA SenderAdvances ==
  ASSUME sender \in [Senders -> SenderRecords], NEW x \in Senders,
         NEW pc \in {"recording", "marking", "updating", "clearing"},
         sender' = [sender EXCEPT ![x].pc = pc]
  PROVE  sender' \in [Senders -> SenderRecords]
<1>1. PICK b \in SenderRecords : b = sender[x]
  BY Zenon
<1>2. [b EXCEPT !.pc = pc] \in SenderRecords
  BY Zenon DEF SenderRecords
<1>3. sender' = [sender EXCEPT ![x] = [b EXCEPT !.pc = pc]]
  BY Zenon, <1>1
<1> QED
  BY Zenon, <1>2, <1>3

\* Sending keeps the types.
LEMMA DeliverTypes ==
  ASSUME OutboxInv
  PROVE  /\ \A w \in Workers : Worker(w) => TypeOK'
         /\ \A x \in Senders : Deliver(x) => TypeOK'
         /\ \A x \in Senders, taken \in BOOLEAN : SendFails(x, taken) => TypeOK'
         /\ \A x \in Senders : RecordFails(x) \/ MarkFails(x) => TypeOK'
<1>1. TypeOK /\ SenderCoherent
  BY ZenonT(60) DEF OutboxInv
<1>2. NoJob \in SenderRecords
  BY ZenonT(60) DEF NoJob, SenderRecords
<1>3. ASSUME NEW w \in Workers, NEW job \in queue, Take(w, job) PROVE TypeOK'
  <2>1. sender' \in [Senders -> SenderRecords]
    BY ZenonT(60), <1>1, <1>3 DEF Take, TypeOK, JobRecords, SenderRecords
  <2> QED BY ZenonT(60), <1>1, <1>3, <2>1 DEF Take, TypeOK, db, hist
<1>4. ASSUME NEW x \in Senders,
             sender[x].pc \in {"sending", "recording", "marking"}
      PROVE  /\ sender[x].sub \in Subs /\ sender[x].row \in RowIds
             /\ sender[x].ask \in Asks /\ sender[x].gen \in Nat
             /\ sender[x].ver \in Nat /\ sender[x] \in SenderRecords
             /\ Text(x) \in RowIds \X Nat
  <2>1. SenderCoherentAt(x)
    BY ZenonT(60), <1>1, <1>4 DEF SenderCoherent, Busy
  <2> QED BY ZenonT(60), <1>1, <1>4, <2>1 DEF SenderCoherentAt, TypeOK, SenderRecords, Text
<1>5. ASSUME NEW x \in Senders, NEW pc \in {"recording", "marking", "updating"},
             sender' = [sender EXCEPT ![x].pc = pc]
      PROVE  sender' \in [Senders -> SenderRecords]
  BY Zenon, <1>1, <1>5, SenderAdvances DEF TypeOK
<1>6. ASSUME NEW x \in Senders, Finish(x)
      PROVE  sender' \in [Senders -> SenderRecords] /\ dispatching' \subseteq Subs
  BY ZenonT(60), <1>1, <1>2, <1>6 DEF Finish, Release, TypeOK
<1>7. ASSUME NEW x \in Senders, Accepted(x), sender[x].pc = "sending"
      PROVE  /\ delivered' \subseteq RowIds \X Nat
             /\ lastGot' \in [Subs -> Asks \cup {None}]
  BY ZenonT(60), <1>1, <1>4, <1>7 DEF Accepted, TypeOK
<1>8. ASSUME NEW x \in Senders, Send(x) PROVE TypeOK'
  BY ZenonT(60), <1>1, <1>5, <1>7, <1>8 DEF Send, TypeOK, db
<1>9. ASSUME NEW x \in Senders, NEW taken \in BOOLEAN, SendFails(x, taken)
      PROVE  TypeOK'
  <2>1. /\ delivered' \subseteq RowIds \X Nat
        /\ unrecorded' \subseteq RowIds \X Nat
        /\ lastGot' \in [Subs -> Asks \cup {None}]
    BY ZenonT(60), <1>1, <1>4, <1>7, <1>9 DEF SendFails, TypeOK
  <2>2. sender' \in [Senders -> SenderRecords] /\ dispatching' \subseteq Subs
    BY ZenonT(60), <1>1, <1>5, <1>6, <1>9 DEF SendFails, TypeOK
  <2> QED BY ZenonT(60), <1>1, <1>9, <2>1, <2>2 DEF SendFails, TypeOK, db
<1>10. ASSUME NEW x \in Senders, Record(x) \/ RecordFails(x) PROVE TypeOK'
  <2>1. sender' \in [Senders -> SenderRecords]
    BY ZenonT(60), <1>5, <1>10 DEF Record, RecordFails
  <2>2. cool' \in [Subs -> Nat]
    BY ZenonT(60), <1>1, <1>4, <1>10, BoundsAssumption DEF Record, RecordFails, TypeOK, db
  <2> QED BY ZenonT(60), <1>1, <1>10, <2>1, <2>2 DEF Record, RecordFails, TypeOK, db, hist
<1>11. ASSUME NEW x \in Senders, Mark(x) PROVE TypeOK'
  <2>1. PICK r \in RowIds, v \in Nat : r = sender[x].row /\ v = sender[x].ver
    BY ZenonT(60), <1>4, <1>11 DEF Mark
  <2>2. rows' \in [RowIds -> Rows]
    BY ZenonT(60), <1>1, <1>11, <2>1, MarkedSentEffect DEF Mark, TypeOK
  <2> QED BY ZenonT(60), <1>1, <1>6, <1>11, <2>2 DEF Mark, TypeOK, hist
<1>12. ASSUME NEW x \in Senders, MarkFails(x) PROVE TypeOK'
  <2>1. unrecorded' \subseteq RowIds \X Nat
    BY ZenonT(60), <1>1, <1>4, <1>12 DEF MarkFails, TypeOK
  <2> QED BY ZenonT(60), <1>1, <1>6, <1>12, <2>1 DEF MarkFails, TypeOK, db
<1> QED BY ZenonT(60), <1>3, <1>8, <1>9, <1>10, <1>11, <1>12 DEF Worker, Deliver

\* The sweeper's steps keep the types.
LEMMA SweepTypes ==
  ASSUME OutboxInv
  PROVE  /\ Sweep => TypeOK'
         /\ SweepBlockedFails \/ SweepRereadFails => TypeOK'
         /\ SweepUpdateFails \/ SweepClearFails => TypeOK'
<1>1. TypeOK /\ RowsWellFormed /\ SenderCoherent /\ Sweeper \in Senders
  BY ZenonT(60) DEF OutboxInv, Senders
<1>2. NoJob \in SenderRecords
  BY ZenonT(60) DEF NoJob, SenderRecords
<1>3. ASSUME Finish(Sweeper)
      PROVE  sender' \in [Senders -> SenderRecords] /\ dispatching' \subseteq Subs
  BY ZenonT(60), <1>1, <1>2, <1>3 DEF Finish, Release, TypeOK
<1>4. ASSUME sender[Sweeper].pc # "idle"
      PROVE  /\ sender[Sweeper].sub \in Subs /\ sender[Sweeper].row \in RowIds
             /\ sender[Sweeper] \in SenderRecords
  <2>1. SenderCoherentAt(Sweeper)
    BY ZenonT(60), <1>1, <1>4 DEF SenderCoherent, Busy
  <2> QED BY ZenonT(60), <1>1, <2>1 DEF SenderCoherentAt, TypeOK
<1>5. ASSUME SweepList \/ SweepBlocked \/ SweepDone \/ SweepBlockedFails
      PROVE  TypeOK'
  <2>1. sweep' \in [pc : {"idle", "listed", "walking"}, list : SUBSET RowIds,
                    blocked : SUBSET Subs]
    <3>1. CASE SweepBlocked
      <4>1. PICK B \in SUBSET Subs : sweep' = [sweep EXCEPT !.pc = "walking",
                                                            !.blocked = B]
        BY ZenonT(60), <3>1 DEF SweepBlocked
      <4> QED BY ZenonT(60), <1>1, <4>1 DEF TypeOK
    <3>2. CASE SweepList \/ SweepDone \/ SweepBlockedFails
      BY <3>2 DEF SweepList, SweepDone, SweepBlockedFails, NoSweep
    <3> QED BY ZenonT(60), <1>5, <3>1, <3>2
  <2> QED BY ZenonT(60), <1>1, <1>5, <2>1
          DEF SweepList, SweepBlocked, SweepDone, SweepBlockedFails, TypeOK, db, hist
<1>6. ASSUME NEW r \in RowIds, SweepSkip(r) \/ SweepClaim(r) PROVE TypeOK'
  <2>1. sweep' \in [pc : {"idle", "listed", "walking"}, list : SUBSET RowIds,
                    blocked : SUBSET Subs]
    BY <1>1, <1>6 DEF SweepSkip, SweepClaim, TypeOK
  <2>2. CASE SweepSkip(r)
    BY ZenonT(60), <1>1, <2>1, <2>2 DEF SweepSkip, TypeOK, db, hist
  <2>3. CASE SweepClaim(r)
    <3>1. rows[r].sub \in Subs
      BY ZenonT(60), <1>1, <2>3 DEF SweepClaim, RowsWellFormed
    <3>2. [NoJob EXCEPT !.pc = "claimed", !.sub = rows[r].sub, !.row = r]
            \in SenderRecords
      BY ZenonT(60), <1>2, <3>1 DEF SenderRecords
    <3>3. sender' \in [Senders -> SenderRecords]
      BY ZenonT(60), <1>1, <2>3, <3>2 DEF SweepClaim, TypeOK
    <3> QED BY ZenonT(60), <1>1, <2>1, <2>3, <3>1, <3>3 DEF SweepClaim, TypeOK, db, hist
  <2> QED BY ZenonT(60), <1>6, <2>2, <2>3
<1>7. ASSUME SweepReread PROVE TypeOK'
  <2>1. sender' \in [Senders -> SenderRecords] /\ dispatching' \subseteq Subs
    <3>1. CASE Pending(sender[Sweeper].row)
      <4> DEFINE job == sender[Sweeper]
                 row == rows[job.row]
                 new == [job EXCEPT !.pc = "sending", !.ver = row.ver,
                                    !.gen = row.gen, !.ask = row.ask,
                                    !.attempts = row.attempts]
      <4>1. job \in SenderRecords /\ row \in Rows
        BY ZenonT(60), <1>1, <1>4, <1>7 DEF SweepReread, TypeOK
      <4>2. new \in SenderRecords
        BY ZenonT(60), <4>1 DEF SenderRecords, Rows
      <4>3. sender' = [sender EXCEPT ![Sweeper] = new] /\ UNCHANGED dispatching
        BY ZenonT(60), <1>7, <3>1 DEF SweepReread
      <4> HIDE DEF new
      <4> QED BY ZenonT(60), <1>1, <4>2, <4>3 DEF TypeOK
    <3>2. CASE ~Pending(sender[Sweeper].row)
      BY ZenonT(60), <1>3, <1>7, <3>2 DEF SweepReread
    <3> QED BY ZenonT(60), <3>1, <3>2
  <2> QED BY ZenonT(60), <1>1, <1>7, <2>1 DEF SweepReread, TypeOK, db, hist
<1>8. ASSUME SweepRereadFails \/ SweepClearFails PROVE TypeOK'
  BY ZenonT(60), <1>1, <1>3, <1>8 DEF SweepRereadFails, SweepClearFails, TypeOK, db, hist
<1>9. ASSUME SweepUpdate \/ SweepUpdateFails PROVE TypeOK'
  <2>1. sender[Sweeper].pc = "updating"
    BY ZenonT(60), <1>9 DEF SweepUpdate, SweepUpdateFails
  <2>2. sender' \in [Senders -> SenderRecords] /\ dispatching' \subseteq Subs
    <3>1. CASE LastAttempt
      <4>1. sender' = [sender EXCEPT ![Sweeper].pc = "clearing"]
            /\ UNCHANGED dispatching
        BY ZenonT(60), <1>9, <3>1 DEF SweepUpdate, SweepUpdateFails
      <4>2. /\ Sweeper \in Senders
            /\ sender \in [Senders -> SenderRecords]
            /\ dispatching \subseteq Subs
        BY Zenon, <1>1 DEF Senders, TypeOK
      <4>3. sender' \in [Senders -> SenderRecords]
        BY Zenon, <4>1, <4>2, SenderAdvances
      <4> QED BY Zenon, <4>1, <4>2, <4>3
    <3>2. CASE ~LastAttempt
      BY ZenonT(60), <1>3, <1>9, <3>2 DEF SweepUpdate, SweepUpdateFails
    <3> QED BY ZenonT(60), <3>1, <3>2
  <2>3. rows' \in [RowIds -> Rows]
    <3>1. CASE SweepUpdate
      <4>1. sender[Sweeper].attempts + 1 \in Nat
        BY <1>4, <2>1 DEF SenderRecords
      <4>2. PICK r \in RowIds, n \in Nat, status \in {"pending", "failed"} :
              rows' = Updated(r, status, n)
        BY ZenonT(60), <1>4, <2>1, <3>1, <4>1 DEF SweepUpdate
      <4> QED BY ZenonT(60), <1>1, <4>2, UpdatedEffect DEF TypeOK
    <3>2. CASE SweepUpdateFails
      BY ZenonT(60), <1>1, <3>2 DEF SweepUpdateFails, TypeOK, db
    <3> QED BY ZenonT(60), <1>9, <3>1, <3>2
  <2> QED BY ZenonT(60), <1>1, <1>9, <2>2, <2>3
          DEF SweepUpdate, SweepUpdateFails, TypeOK, db, hist
<1>10. ASSUME SweepClear PROVE TypeOK'
  <2>1. hash' \in [Subs -> Asks \cup {None}]
    BY ZenonT(60), <1>1, <1>10 DEF SweepClear, TypeOK
  <2> QED BY ZenonT(60), <1>1, <1>3, <1>10, <2>1 DEF SweepClear, TypeOK, hist
<1> QED BY ZenonT(60), <1>5, <1>6, <1>7, <1>8, <1>9, <1>10 DEF Sweep

\* The other workers, a restart and the passing of time keep the types.
LEMMA OtherTypes ==
  ASSUME OutboxInv
  PROVE  /\ \A s \in Subs : EscalationList(s) \/ FolderMove(s) => TypeOK'
         /\ EscalationUpsert \/ RetentionExpire \/ Crash \/ Tick => TypeOK'
         /\ \A r \in RowIds : RetentionPrune(r) => TypeOK'
<1>1. TypeOK /\ SenderCoherent
  BY ZenonT(60) DEF OutboxInv
<1>2. ASSUME NEW s \in Subs, EscalationList(s) \/ FolderMove(s) PROVE TypeOK'
  BY <1>1, <1>2 DEF EscalationList, FolderMove, TypeOK, db, hist
<1>3. ASSUME EscalationUpsert PROVE TypeOK'
  <2>1. hash' \in [Subs -> Asks \cup {None}] /\ bounced' \in [Subs -> BOOLEAN]
    BY ZenonT(60), <1>1, <1>3 DEF EscalationUpsert, TypeOK
  <2>2. NoCopy \in [sub : Subs \cup {None}, hash : Asks \cup {None},
                    bounced : BOOLEAN]
    BY ZenonT(60) DEF NoCopy
  <2> QED BY ZenonT(60), <1>1, <1>3, <2>1, <2>2 DEF EscalationUpsert, TypeOK, hist
<1>4. ASSUME RetentionExpire PROVE TypeOK'
  <2>1. PICK R : rows' = Expired(R)
    BY ZenonT(60), <1>4 DEF RetentionExpire
  <2>2. rows' \in [RowIds -> Rows]
    BY ZenonT(60), <1>1, <2>1, ExpiredEffect DEF TypeOK
  <2> QED BY ZenonT(60), <1>1, <1>4, <2>2 DEF RetentionExpire, TypeOK, hist
<1>5. ASSUME Crash PROVE TypeOK'
  <2>1. /\ NoJob \in SenderRecords
        /\ NoMail \in MailRecords
        /\ NoCopy \in [sub : Subs \cup {None}, hash : Asks \cup {None},
                       bounced : BOOLEAN]
        /\ NoRecon \in [pc : {"idle", "hold", "release", "expire"},
                        hold : SUBSET Subs, release : SUBSET Subs]
        /\ NoSweep \in [pc : {"idle", "listed", "walking"},
                        list : SUBSET RowIds, blocked : SUBSET Subs]
    BY ZenonT(60) DEF NoJob, NoMail, NoCopy, NoRecon, NoSweep, SenderRecords, MailRecords
  <2>2. unrecorded' \subseteq RowIds \X Nat
    <3>1. ASSUME NEW x \in Senders, sender[x].pc \in {"recording", "marking"}
          PROVE  Text(x) \in RowIds \X Nat
      <4>1. SenderCoherentAt(x)
        BY ZenonT(60), <1>1, <3>1 DEF SenderCoherent, Busy
      <4> QED BY ZenonT(60), <1>1, <4>1 DEF SenderCoherentAt, TypeOK, SenderRecords, Text
    <3> QED BY <1>1, <1>5, <3>1 DEF Crash, TypeOK
  <2> QED BY ZenonT(60), <1>1, <1>5, <2>1, <2>2 DEF Crash, TypeOK, db
<1>6. ASSUME Tick PROVE TypeOK'
  <2>1. rows' \in [RowIds -> Rows]
    BY ZenonT(60), <1>1, <1>6, TickEffect DEF TypeOK
  <2>2. \A n \in Nat : Less(n) \in Nat
    BY DEF Less
  <2>3. cool' \in [Subs -> Nat]
    BY ZenonT(60), <1>1, <1>6, <2>2 DEF Tick, TypeOK
  <2>4. poll' \in MailRecords
    <3>1. poll \in MailRecords /\ Less(poll.cool) \in Nat
      BY ZenonT(60), <1>1, <2>2 DEF TypeOK, MailRecords
    <3> QED BY ZenonT(60), <1>6, <3>1 DEF Tick, MailRecords
  <2> QED BY ZenonT(60), <1>1, <1>6, <2>1, <2>3, <2>4 DEF Tick, TypeOK, hist
<1>7. ASSUME NEW r \in RowIds, RetentionPrune(r) PROVE TypeOK'
  BY ZenonT(60), <1>1, <1>7, PrunedEffect DEF RetentionPrune, TypeOK, hist
<1> QED BY ZenonT(60), <1>2, <1>3, <1>4, <1>5, <1>6, <1>7

\* Type correctness is preserved by every step.
LEMMA TypeStep ==
  ASSUME OutboxInv, Next
  PROVE  TypeOK'
<1>1. CASE Mail(Kinds)
  BY ZenonT(60), <1>1, IngestTypes DEF Mail
<1>2. CASE Work
  BY ZenonT(60), <1>2, IngestTypes, HoldTypes, DeliverTypes, SweepTypes, OtherTypes
     DEF Work, Poller
<1>3. CASE Fault
  BY ZenonT(60), <1>3, IngestTypes, HoldTypes, DeliverTypes, SweepTypes DEF Fault
<1>4. CASE \E s \in Subs : EscalationList(s) \/ FolderMove(s)
  BY ZenonT(60), <1>4, OtherTypes
<1>5. CASE Crash \/ Tick \/ \E r \in RowIds : RetentionPrune(r)
  BY ZenonT(60), <1>5, OtherTypes
<1> QED BY ZenonT(60), <1>1, <1>2, <1>3, <1>4, <1>5 DEF Next

=============================================================================
