---------------------------- MODULE PollerProofs ----------------------------
(***************************************************************************)
(* The mail poller loses no message, for every mailbox, batch size and     *)
(* attempt limit: PollerInv is inductive.                                  *)
(***************************************************************************)
EXTENDS Poller, TLAPS

\* A step that leaves the mailbox, the emails and the failure counts alone
\* keeps what PollerInv says of the messages.
LEMMA MessagesKept ==
  ASSUME PollerInv, UNCHANGED <<box, emails, fails>>
  PROVE  ReadMeansHandled' /\ FiledIsRead' /\ \A m \in Msgs : Hopeless(m) = Hopeless(m)'
  BY Zenon DEF PollerInv, ReadMeansHandled, FiledIsRead, Hopeless

\* What changes when the flags of one message are replaced.
LEMMA OneMessage ==
  ASSUME TypeOK, NEW m \in Msgs, NEW b \in Flags, box' = [box EXCEPT ![m] = b]
  PROVE  /\ box' \in [Msgs -> Flags]
         /\ box'[m] = b
         /\ \A k \in Msgs : k # m => box'[k] = box[k]
  BY Zenon DEF TypeOK

\* The records the poller's steps make of one message's flags.
LEMMA FlagUpdates ==
  ASSUME NEW b \in Flags
  PROVE  /\ [b EXCEPT !.seen = TRUE] \in Flags
         /\ [b EXCEPT !.seen = TRUE].seen
         /\ [b EXCEPT !.seen = TRUE].copy = b.copy
         /\ [b EXCEPT !.inbox = FALSE] \in Flags
         /\ [b EXCEPT !.inbox = FALSE].seen = b.seen
         /\ [b EXCEPT !.inbox = FALSE].copy = b.copy
         /\ [b EXCEPT !.copy = "read"] \in Flags
         /\ [b EXCEPT !.copy = "read"].seen = b.seen
         /\ [b EXCEPT !.copy = "read"].copy = "read"
  BY Zenon DEF Flags

\* Marking one message read changes nothing else.
LEMMA OneMarked ==
  ASSUME TypeOK, NEW m \in Msgs, box' = [box EXCEPT ![m].seen = TRUE]
  PROVE  /\ box' \in [Msgs -> Flags]
         /\ box'[m].seen
         /\ \A k \in Msgs : /\ box'[k].copy = box[k].copy
                            /\ box[k].seen => box'[k].seen
                            /\ box'[k].seen => box[k].seen \/ k = m
  <1>1. PICK b \in Flags : b = box[m]
    BY Zenon DEF TypeOK
  <1>2. box' = [box EXCEPT ![m] = [b EXCEPT !.seen = TRUE]]
    BY Zenon, <1>1
  <1>3. /\ box' \in [Msgs -> Flags]
        /\ box'[m] = [b EXCEPT !.seen = TRUE]
        /\ \A k \in Msgs : k # m => box'[k] = box[k]
    <2>1. PICK d \in Flags : d = [b EXCEPT !.seen = TRUE]
      BY Zenon, FlagUpdates
    <2> QED
      BY Zenon, <1>2, <2>1, OneMessage
  <1> QED
    BY Zenon, <1>1, <1>3, FlagUpdates

\* The empty mailbox of a process that was never started satisfies PollerInv.
LEMMA InitInv == Init => PollerInv
  <1> SUFFICES ASSUME Init PROVE PollerInv
    BY Zenon
  <1>1. box \in [Msgs -> Flags] /\ fails \in [Msgs -> Nat]
    BY Zenon DEF Init, Flags
  <1>2. 0 \in 0 .. N
    BY CountsAssumption
  <1>3. TypeOK
    BY Zenon, <1>1, <1>2 DEF Init, TypeOK, Down, Idle
  <1> QED
    BY Zenon, <1>3 DEF Init, PollerInv, ReadMeansHandled, FiledIsRead, InHand, Down, Idle

\* Resolving the cutoff and fetching a batch (resolveCutoff, FetchUnseen): only
\* messages over the size cap are marked read.
LEMMA BeginStep ==
  ASSUME PollerInv,
         \/ \E day \in 0 .. arrived : Start(day)
         \/ StartUncut
         \/ \E P \in Probes : \E marked \in SUBSET (P \cap Oversize) : Fetch(P, marked)
         \/ FetchUnprobed \/ BatchDone \/ Timeout
  PROVE  PollerInv'
  <1>1. ASSUME NEW day \in 0 .. arrived, Start(day) PROVE PollerInv'
    <2>1. day \in 0 .. N
      BY CountsAssumption DEF PollerInv, TypeOK
    <2>2. boot' \in 0 .. N \cup {Unset} /\ poll'.cutoff \in 0 .. N
      BY Zenon, <1>1, <2>1, MessagesAssumption DEF Start, PollerInv, TypeOK, Idle
    <2>3. PICK c \in 0 .. N : poll' = [Idle EXCEPT !.cutoff = c]
      BY Zenon, <1>1, <2>2 DEF Start, Idle
    <2>4. TypeOK'
      BY ZenonT(60), <1>1, <2>2, <2>3 DEF Start, PollerInv, TypeOK, Idle
    <2>5. InHand'
      BY Zenon, <2>3 DEF InHand, Idle
    <2> QED
      BY Zenon, <1>1, <2>4, <2>5, MessagesKept DEF Start, PollerInv
  <1>2. CASE StartUncut
    <2>1. TypeOK'
      BY <1>2, CountsAssumption DEF StartUncut, PollerInv, TypeOK, Idle
    <2>2. InHand'
      BY Zenon, <1>2 DEF StartUncut, InHand, Idle
    <2> QED
      BY Zenon, <1>2, <2>1, <2>2, MessagesKept DEF StartUncut, PollerInv
  <1>3. ASSUME NEW P \in Probes, NEW marked \in SUBSET (P \cap Oversize), Fetch(P, marked)
        PROVE  PollerInv'
    <2>1. P \subseteq Msgs
      BY Zenon DEF Probes, Unseen
    <2>2. First(P \ Oversize) \subseteq Msgs
      BY Zenon, <2>1 DEF First
    <2>3. ASSUME NEW m \in Msgs
          PROVE  /\ box'[m] \in Flags
                 /\ box'[m].copy = box[m].copy
                 /\ box[m].seen => box'[m].seen
                 /\ box'[m].seen => box[m].seen \/ m \in Oversize
      <3>1. PICK b \in Flags : b = box[m]
        BY Zenon DEF PollerInv, TypeOK
      <3>2. box'[m] = IF m \in marked THEN [b EXCEPT !.seen = TRUE] ELSE b
        BY Zenon, <1>3, <3>1 DEF Fetch
      <3>3. CASE m \in marked
        <4>1. m \in Oversize
          BY Zenon, <3>3
        <4>2. /\ [b EXCEPT !.seen = TRUE] \in Flags
              /\ [b EXCEPT !.seen = TRUE].seen
              /\ [b EXCEPT !.seen = TRUE].copy = b.copy
          BY Zenon, FlagUpdates
        <4> DEFINE d == [b EXCEPT !.seen = TRUE]
        <4>3. box'[m] = d
          BY Zenon, <3>2, <3>3
        <4>4. d \in Flags /\ d.seen /\ d.copy = b.copy
          BY Zenon, <4>2
        <4> HIDE DEF d
        <4> QED
          BY Zenon, <3>1, <4>1, <4>3, <4>4
      <3>4. CASE m \notin marked
        <4>1. box'[m] = b
          BY Zenon, <3>2, <3>4
        <4> QED
          BY Zenon, <3>1, <4>1
      <3> QED
        BY Zenon, <3>3, <3>4
    <2>4. TypeOK'
      <3>1. box' \in [Msgs -> Flags]
        BY Zenon, <1>3, <2>3 DEF Fetch
      <3> QED
        BY Zenon, <1>3, <2>2, <3>1 DEF Fetch, PollerInv, TypeOK
    <2>5. ReadMeansHandled'
      BY Zenon, <1>3, <2>3 DEF Fetch, PollerInv, ReadMeansHandled, Hopeless, Oversize
    <2>6. FiledIsRead'
      BY Zenon, <1>3, <2>3 DEF Fetch, PollerInv, FiledIsRead
    <2>7. InHand'
      BY Zenon, <1>3 DEF Fetch, PollerInv, TypeOK, InHand
    <2> QED
      BY Zenon, <2>4, <2>5, <2>6, <2>7 DEF PollerInv
  <1>4. CASE FetchUnprobed
    <2>1. First(Unseen) \subseteq Msgs
      BY Zenon DEF First, Unseen
    <2>2. TypeOK'
      BY Zenon, <1>4, <2>1 DEF FetchUnprobed, PollerInv, TypeOK
    <2>3. InHand'
      BY Zenon, <1>4 DEF FetchUnprobed, PollerInv, TypeOK, InHand
    <2> QED
      BY Zenon, <1>4, <2>2, <2>3, MessagesKept DEF FetchUnprobed, PollerInv
  <1>5. CASE BatchDone \/ Timeout
    <2>1. TypeOK'
      BY Zenon, <1>5 DEF BatchDone, Timeout, PollerInv, TypeOK, Idle
    <2>2. InHand'
      BY Zenon, <1>5 DEF BatchDone, Timeout, InHand, Idle
    <2> QED
      BY Zenon, <1>5, <2>1, <2>2, MessagesKept DEF BatchDone, Timeout, PollerInv
  <1> QED
    BY Zenon, <1>1, <1>2, <1>3, <1>4, <1>5

\* Ingesting one message (process): what goes on to be marked read is recorded,
\* or can never be.
LEMMA IngestStep ==
  ASSUME PollerInv, NEW m \in Msgs,
         \/ GiveUp(m) \/ IngestDuplicate(m)
         \/ \E review \in BOOLEAN : IngestCommit(m, review)
         \/ IngestError(m) \/ IngestPanic(m) \/ IngestTimeout(m)
  PROVE  PollerInv'
  <1>1. CASE GiveUp(m)
    <2>1. TypeOK'
      BY Zenon, <1>1 DEF GiveUp, At, PollerInv, TypeOK
    <2>2. poll'.pc = "quarantine" /\ poll'.msg = m
      BY Zenon, <1>1 DEF GiveUp, At, PollerInv, TypeOK
    <2>3. Hopeless(m)'
      BY Zenon, <1>1 DEF GiveUp, Hopeless
    <2>4. InHand'
      BY Zenon, <2>2, <2>3 DEF InHand
    <2> QED
      BY Zenon, <1>1, <2>1, <2>4, MessagesKept DEF GiveUp, PollerInv
  <1>2. CASE IngestDuplicate(m)
    <2>1. TypeOK'
      BY Zenon, <1>2 DEF IngestDuplicate, At, PollerInv, TypeOK
    <2>2. poll'.pc = "mark" /\ poll'.msg = m
      BY Zenon, <1>2 DEF IngestDuplicate, At, PollerInv, TypeOK
    <2>3. InHand'
      BY <1>2, <2>2 DEF IngestDuplicate, InHand
    <2> QED
      BY Zenon, <1>2, <2>1, <2>3, MessagesKept DEF IngestDuplicate, PollerInv
  <1>3. ASSUME NEW review \in BOOLEAN, IngestCommit(m, review) PROVE PollerInv'
    <2>1. TypeOK'
      BY Zenon, <1>3 DEF IngestCommit, At, PollerInv, TypeOK
    <2>2. poll'.pc = "mark" /\ poll'.msg = m
      BY Zenon, <1>3 DEF IngestCommit, At, PollerInv, TypeOK
    <2>3. InHand'
      BY <1>3, <2>2 DEF IngestCommit, InHand
    <2>4. ReadMeansHandled'
      BY Zenon, <1>3 DEF IngestCommit, PollerInv, ReadMeansHandled, Hopeless
    <2>5. FiledIsRead'
      BY Zenon, <1>3 DEF IngestCommit, PollerInv, FiledIsRead
    <2> QED
      BY Zenon, <2>1, <2>3, <2>4, <2>5 DEF PollerInv
  <1>4. CASE IngestError(m)
    <2>1. TypeOK'
      BY Zenon, <1>4 DEF IngestError, At, PollerInv, TypeOK
    <2>2. poll'.pc = "failed" /\ poll'.msg = m
      BY Zenon, <1>4 DEF IngestError, At, PollerInv, TypeOK
    <2>3. InHand'
      BY Zenon, <2>2 DEF InHand
    <2> QED
      BY Zenon, <1>4, <2>1, <2>3, MessagesKept DEF IngestError, PollerInv
  <1>5. CASE IngestPanic(m)
    <2>1. TypeOK'
      BY Zenon, <1>5 DEF IngestPanic, At, PollerInv, TypeOK
    <2>2. poll'.pc = "next"
      BY Zenon, <1>5 DEF IngestPanic, At, PollerInv, TypeOK
    <2>3. InHand'
      BY Zenon, <2>2 DEF InHand
    <2> QED
      BY Zenon, <1>5, <2>1, <2>3, MessagesKept DEF IngestPanic, PollerInv
  <1>6. CASE IngestTimeout(m)
    <2>1. TypeOK'
      BY Zenon, <1>6 DEF IngestTimeout, PollerInv, TypeOK, Idle
    <2>2. InHand'
      BY Zenon, <1>6 DEF IngestTimeout, InHand, Idle
    <2> QED
      BY Zenon, <1>6, <2>1, <2>2, MessagesKept DEF IngestTimeout, PollerInv
  <1> QED
    BY Zenon, <1>1, <1>2, <1>3, <1>4, <1>5, <1>6

\* Counting a failure and giving the message up (handleIngestFailure): the
\* count that decides is the one on record, so a quarantined message has
\* failed POLL_MAX_ATTEMPTS times.
LEMMA FailureStep ==
  ASSUME PollerInv,
         RecordFailure \/ RecordFailureFails \/ Quarantine \/ QuarantineFails
  PROVE  PollerInv'
  <1>1. CASE RecordFailure
    <2>1. PICK m \in Msgs : m = poll.msg
      BY Zenon, <1>1 DEF RecordFailure, PollerInv, InHand
    <2>2. fails' = [fails EXCEPT ![m] = fails[m] + 1] /\ fails[m] \in Nat
      BY Zenon, <1>1, <2>1 DEF RecordFailure, PollerInv, TypeOK
    <2>3. \A k \in Msgs : fails'[k] \in Nat /\ fails'[k] >= fails[k]
      BY <2>2 DEF PollerInv, TypeOK
    <2>4. TypeOK'
      <3>1. fails' \in [Msgs -> Nat]
        BY <2>2 DEF PollerInv, TypeOK
      <3>2. poll' = [poll EXCEPT !.pc = "quarantine"] \/ poll' = NextMsg
        BY Zenon, <1>1 DEF RecordFailure
      <3> QED
        BY Zenon, <1>1, <3>1, <3>2 DEF RecordFailure, NextMsg, PollerInv, TypeOK
    <2>5. \A k \in Msgs : Hopeless(k) => Hopeless(k)'
      BY <2>3, CountsAssumption DEF Hopeless, PollerInv, TypeOK
    <2>6. ReadMeansHandled'
      BY Zenon, <1>1, <2>5 DEF RecordFailure, PollerInv, ReadMeansHandled
    <2>7. FiledIsRead'
      BY Zenon, <1>1 DEF RecordFailure, PollerInv, FiledIsRead
    <2>8. \/ poll'.pc = "next"
          \/ poll'.pc = "quarantine" /\ poll'.msg = m
             /\ MaxAttempts > 0 /\ fails'[m] >= MaxAttempts
      BY Zenon, <1>1, <2>1 DEF RecordFailure, NextMsg, PollerInv, TypeOK
    <2>9. InHand'
      BY Zenon, <2>8 DEF InHand, Hopeless
    <2> QED
      BY Zenon, <2>4, <2>6, <2>7, <2>9 DEF PollerInv
  <1>2. CASE RecordFailureFails \/ QuarantineFails
    <2>1. TypeOK'
      BY Zenon, <1>2 DEF RecordFailureFails, QuarantineFails, NextMsg, PollerInv, TypeOK
    <2>2. poll'.pc = "next"
      BY Zenon, <1>2 DEF RecordFailureFails, QuarantineFails, NextMsg, PollerInv, TypeOK
    <2>3. InHand'
      BY Zenon, <2>2 DEF InHand
    <2> QED
      BY Zenon, <1>2, <2>1, <2>3, MessagesKept
      DEF RecordFailureFails, QuarantineFails, PollerInv
  <1>3. CASE Quarantine
    <2>1. PICK m \in Msgs : m = poll.msg /\ (EmailID[m] \in emails \/ Hopeless(m))
      BY Zenon, <1>3 DEF Quarantine, PollerInv, InHand
    <2>2. box' = [box EXCEPT ![m].seen = TRUE]
      BY Zenon, <1>3, <2>1 DEF Quarantine
    <2>4. /\ box' \in [Msgs -> Flags]
          /\ \A k \in Msgs : /\ box'[k].copy = box[k].copy
                             /\ box[k].seen => box'[k].seen
                             /\ box'[k].seen => box[k].seen \/ k = m
      BY Zenon, <2>2, OneMarked DEF PollerInv
    <2>3. TypeOK'
      BY Zenon, <1>3, <2>4 DEF Quarantine, NextMsg, PollerInv, TypeOK
    <2>5. ReadMeansHandled'
      BY Zenon, <1>3, <2>1, <2>4 DEF Quarantine, PollerInv, ReadMeansHandled, Hopeless
    <2>6. FiledIsRead'
      BY Zenon, <1>3, <2>4 DEF Quarantine, PollerInv, FiledIsRead
    <2>7. poll'.pc = "next"
      BY Zenon, <1>3 DEF Quarantine, NextMsg, PollerInv, TypeOK
    <2>8. InHand'
      BY Zenon, <2>7 DEF InHand
    <2> QED
      BY Zenon, <2>3, <2>5, <2>6, <2>8 DEF PollerInv
  <1> QED
    BY Zenon, <1>1, <1>2, <1>3

\* Marking an ingested message read, clearing its count and starring it
\* (process).
LEMMA MarkStep ==
  ASSUME PollerInv,
         \/ MarkSeen \/ MarkSeenFails \/ ClearFailure \/ ClearFailureFails
         \/ Flag \/ FlagFails
  PROVE  PollerInv'
  <1>1. CASE MarkSeen
    <2>1. PICK m \in Msgs : m = poll.msg /\ EmailID[m] \in emails
      BY Zenon, <1>1 DEF MarkSeen, PollerInv, InHand
    <2>2. box' = [box EXCEPT ![m].seen = TRUE]
      BY Zenon, <1>1, <2>1 DEF MarkSeen
    <2>4. /\ box' \in [Msgs -> Flags]
          /\ box'[m].seen
          /\ \A k \in Msgs : /\ box'[k].copy = box[k].copy
                             /\ box[k].seen => box'[k].seen
                             /\ box'[k].seen => box[k].seen \/ k = m
      BY Zenon, <2>2, OneMarked DEF PollerInv
    <2>3. TypeOK'
      BY Zenon, <1>1, <2>4 DEF MarkSeen, PollerInv, TypeOK
    <2>5. ReadMeansHandled'
      BY Zenon, <1>1, <2>1, <2>4 DEF MarkSeen, PollerInv, ReadMeansHandled, Hopeless
    <2>6. FiledIsRead'
      BY Zenon, <1>1, <2>4 DEF MarkSeen, PollerInv, FiledIsRead
    <2>7. poll'.pc = "clear" /\ poll'.msg = m /\ box'[m].seen
      BY Zenon, <1>1, <2>1, <2>4 DEF MarkSeen, PollerInv, TypeOK
    <2>8. InHand'
      BY <1>1, <2>1, <2>7 DEF MarkSeen, InHand
    <2> QED
      BY Zenon, <2>3, <2>5, <2>6, <2>8 DEF PollerInv
  <1>2. CASE MarkSeenFails
    <2>1. TypeOK'
      BY Zenon, <1>2 DEF MarkSeenFails, NextMsg, PollerInv, TypeOK
    <2>2. poll'.pc = "next"
      BY Zenon, <1>2 DEF MarkSeenFails, NextMsg, PollerInv, TypeOK
    <2>3. InHand'
      BY Zenon, <2>2 DEF InHand
    <2> QED
      BY Zenon, <1>2, <2>1, <2>3, MessagesKept DEF MarkSeenFails, PollerInv
  <1>3. CASE ClearFailure
    <2>1. PICK m \in Msgs : m = poll.msg /\ EmailID[m] \in emails /\ box[m].seen
      BY Zenon, <1>3 DEF ClearFailure, PollerInv, InHand
    <2>2. TypeOK' /\ \A k \in Msgs : k # m => fails'[k] = fails[k]
      BY Zenon, <1>3, <2>1 DEF ClearFailure, PollerInv, TypeOK
    <2>3. ReadMeansHandled'
      BY Zenon, <1>3, <2>1, <2>2 DEF ClearFailure, PollerInv, ReadMeansHandled, Hopeless
    <2>4. FiledIsRead'
      BY Zenon, <1>3 DEF ClearFailure, PollerInv, FiledIsRead
    <2>5. poll'.pc \in {"flag", "file"} /\ poll'.msg = m
      BY Zenon, <1>3, <2>1 DEF ClearFailure, PollerInv, TypeOK
    <2>6. InHand'
      BY <1>3, <2>1, <2>5 DEF ClearFailure, InHand
    <2> QED
      BY Zenon, <2>2, <2>3, <2>4, <2>6 DEF PollerInv
  <1>4. CASE ClearFailureFails \/ FlagFails
    <2>1. PICK m \in Msgs : m = poll.msg /\ EmailID[m] \in emails /\ box[m].seen
      BY Zenon, <1>4 DEF ClearFailureFails, FlagFails, PollerInv, InHand
    <2>2. TypeOK'
      BY Zenon, <1>4 DEF ClearFailureFails, FlagFails, PollerInv, TypeOK
    <2>3. poll'.pc \in {"flag", "file"} /\ poll'.msg = m
      BY Zenon, <1>4, <2>1 DEF ClearFailureFails, FlagFails, PollerInv, TypeOK
    <2>4. InHand'
      BY Zenon, <1>4, <2>1, <2>3 DEF ClearFailureFails, FlagFails, InHand
    <2> QED
      BY Zenon, <1>4, <2>2, <2>4, MessagesKept DEF ClearFailureFails, FlagFails, PollerInv
  <1>5. CASE Flag
    <2>1. PICK m \in Msgs : m = poll.msg /\ EmailID[m] \in emails /\ box[m].seen
      BY Zenon, <1>5 DEF Flag, PollerInv, InHand
    <2>2. PICK b \in Flags : /\ box' = [box EXCEPT ![m] = b]
                             /\ b.copy = box[m].copy /\ b.seen = box[m].seen
      <3>1. PICK c \in Flags : c = box[m]
        BY Zenon DEF PollerInv, TypeOK
      <3>2. /\ [c EXCEPT !.flagged = TRUE] \in Flags
            /\ [c EXCEPT !.flagged = TRUE].copy = c.copy
            /\ [c EXCEPT !.flagged = TRUE].seen = c.seen
        BY Zenon DEF Flags
      <3>3. box' = [box EXCEPT ![m] = [c EXCEPT !.flagged = TRUE]]
        BY Zenon, <1>5, <2>1, <3>1 DEF Flag
      <3> QED
        BY Zenon, <3>1, <3>2, <3>3
    <2>4. /\ box' \in [Msgs -> Flags]
          /\ \A k \in Msgs : box'[k].copy = box[k].copy /\ box'[k].seen = box[k].seen
      BY Zenon, <2>2, OneMessage DEF PollerInv
    <2>3. TypeOK'
      BY Zenon, <1>5, <2>4 DEF Flag, PollerInv, TypeOK
    <2>5. ReadMeansHandled' /\ FiledIsRead'
      BY Zenon, <1>5, <2>4 DEF Flag, PollerInv, ReadMeansHandled, FiledIsRead, Hopeless
    <2>6. poll'.pc = "file" /\ poll'.msg = m
      BY Zenon, <1>5, <2>1 DEF Flag, PollerInv, TypeOK
    <2>7. InHand'
      BY <1>5, <2>1, <2>4, <2>6 DEF Flag, InHand
    <2> QED
      BY Zenon, <2>3, <2>5, <2>7 DEF PollerInv
  <1> QED
    BY Zenon, <1>1, <1>2, <1>3, <1>4, <1>5

\* Filing (fileByLadder): the copy is made of a message that is read already.
LEMMA FileStep ==
  ASSUME PollerInv,
         \/ Leave \/ Move \/ (\E uidplus \in BOOLEAN : Copy(uidplus))
         \/ Expunge \/ ExpungeFails
  PROVE  PollerInv'
  <1>1. PICK m \in Msgs : m = poll.msg /\ EmailID[m] \in emails /\ box[m].seen
    BY Zenon DEF Leave, Move, Copy, Expunge, ExpungeFails, PollerInv, InHand
  <1>2. CASE Leave \/ ExpungeFails
    <2>1. TypeOK'
      BY Zenon, <1>2 DEF Leave, ExpungeFails, NextMsg, PollerInv, TypeOK
    <2>2. poll'.pc = "next"
      BY Zenon, <1>2 DEF Leave, ExpungeFails, NextMsg, PollerInv, TypeOK
    <2>3. InHand'
      BY Zenon, <2>2 DEF InHand
    <2> QED
      BY Zenon, <1>2, <2>1, <2>3, MessagesKept DEF Leave, ExpungeFails, PollerInv
  <1>3. CASE ~(Leave \/ ExpungeFails)
    <2>1. UNCHANGED <<arrived, emails, fails, boot>>
      BY Zenon, <1>3 DEF Move, Copy, Expunge
    <2>2. PICK c \in Flags : c = box[m]
      BY Zenon DEF PollerInv, TypeOK
    <2>3. PICK b \in Flags : /\ box' = [box EXCEPT ![m] = b]
                             /\ b.seen /\ b.copy \in {c.copy, "read"}
      <3>1. CASE Move
        <4>1. PICK d \in Flags : d = [c EXCEPT !.copy = "read"] /\ d.seen
                                 /\ d.copy = "read"
          BY ZenonT(60), <1>1, <2>2, FlagUpdates
        <4> DEFINE r == [d EXCEPT !.inbox = FALSE]
        <4>4. r \in Flags /\ r.seen = d.seen /\ r.copy = d.copy
          BY Zenon, FlagUpdates
        <4> HIDE DEF r
        <4>2. PICK e \in Flags : e = r /\ e.seen /\ e.copy = "read"
          BY Zenon, <4>1, <4>4
        <4>3. box' = [box EXCEPT ![m] = e]
          BY Zenon, <1>1, <2>2, <3>1, <4>1, <4>2 DEF Move, Copied, r
        <4> QED
          BY Zenon, <4>2, <4>3
      <3>2. CASE \E uidplus \in BOOLEAN : Copy(uidplus)
        <4>1. PICK d \in Flags : d = [c EXCEPT !.copy = "read"] /\ d.seen
                                 /\ d.copy = "read"
          BY ZenonT(60), <1>1, <2>2, FlagUpdates
        <4>2. box' = [box EXCEPT ![m] = d]
          BY Zenon, <1>1, <2>2, <3>2, <4>1 DEF Copy, Copied
        <4> QED
          BY Zenon, <4>1, <4>2
      <3>3. CASE Expunge
        <4>1. PICK d \in Flags : d = [c EXCEPT !.inbox = FALSE] /\ d.seen
                                 /\ d.copy = c.copy
          BY ZenonT(60), <1>1, <2>2, FlagUpdates
        <4>2. box' = [box EXCEPT ![m] = d]
          BY Zenon, <1>1, <2>2, <3>3, <4>1 DEF Expunge
        <4> QED
          BY Zenon, <4>1, <4>2
      <3> QED
        BY Zenon, <1>3, <3>1, <3>2, <3>3
    <2>4. /\ box' \in [Msgs -> Flags]
          /\ \A k \in Msgs : /\ box'[k].seen = box[k].seen
                             /\ \/ box'[k].copy = box[k].copy
                                \/ k = m /\ box'[k].copy = "read"
      <3>1. box' \in [Msgs -> Flags] /\ box'[m] = b
            /\ \A k \in Msgs : k # m => box'[k] = box[k]
        BY Zenon, <2>3, OneMessage DEF PollerInv
      <3>2. b.seen = box[m].seen
        BY Zenon, <1>1, <2>2, <2>3 DEF Flags
      <3> QED
        BY Zenon, <2>2, <2>3, <3>1, <3>2
    <2>5. ReadMeansHandled'
      BY Zenon, <2>1, <2>4 DEF PollerInv, ReadMeansHandled, Hopeless
    <2>6. FiledIsRead'
      BY Zenon, <1>1, <2>1, <2>4 DEF PollerInv, FiledIsRead
    <2>7. \/ poll' = NextMsg
          \/ poll' = [poll EXCEPT !.pc = "expunge"]
      BY Zenon, <1>3 DEF Move, Copy, Expunge
    <2>8. TypeOK'
      BY Zenon, <2>1, <2>4, <2>7 DEF NextMsg, PollerInv, TypeOK
    <2>9. poll'.pc = "next" \/ (poll'.pc = "expunge" /\ poll'.msg = m)
      <3>1. poll' = NextMsg => poll'.pc = "next"
        BY Zenon DEF NextMsg, PollerInv, TypeOK
      <3>2. poll' = [poll EXCEPT !.pc = "expunge"]
              => poll'.pc = "expunge" /\ poll'.msg = m
        BY Zenon, <1>1 DEF PollerInv, TypeOK
      <3> QED
        BY Zenon, <2>7, <3>1, <3>2
    <2>10. InHand'
      BY Zenon, <1>1, <2>1, <2>4, <2>9 DEF InHand
    <2> QED
      BY Zenon, <2>5, <2>6, <2>8, <2>10 DEF PollerInv
  <1> QED
    BY Zenon, <1>2, <1>3

\* A delivery adds an unread message, a crash loses the goroutine's state.
LEMMA WorldStep ==
  ASSUME PollerInv, Deliver \/ Crash
  PROVE  PollerInv'
  <1>1. CASE Deliver
    <2>1. arrived' \in Msgs
      BY <1>1, CountsAssumption DEF Deliver, PollerInv, TypeOK, Msgs
    <2>2. box' \in [Msgs -> Flags]
          /\ \A k \in Msgs : box'[k].copy = box[k].copy /\ box'[k].seen = box[k].seen
      <3>1. PICK m \in Msgs : m = arrived'
        BY Zenon, <2>1
      <3>2. PICK c \in Flags : c = box[m]
        BY Zenon DEF PollerInv, TypeOK
      <3>3. /\ [c EXCEPT !.inbox = TRUE] \in Flags
            /\ [c EXCEPT !.inbox = TRUE].copy = c.copy
            /\ [c EXCEPT !.inbox = TRUE].seen = c.seen
        BY Zenon DEF Flags
      <3>4. box' = [box EXCEPT ![m] = [c EXCEPT !.inbox = TRUE]]
        BY Zenon, <1>1, <3>1, <3>2 DEF Deliver
      <3> QED
        BY Zenon, <3>2, <3>3, <3>4, OneMessage DEF PollerInv
    <2>3. TypeOK'
      BY <1>1, <2>1, <2>2, CountsAssumption DEF Deliver, PollerInv, TypeOK, Msgs
    <2>4. ReadMeansHandled' /\ FiledIsRead'
      BY Zenon, <1>1, <2>2 DEF Deliver, PollerInv, ReadMeansHandled, FiledIsRead, Hopeless
    <2>5. InHand'
      BY Zenon, <1>1, <2>2 DEF Deliver, PollerInv, InHand, Hopeless
    <2> QED
      BY Zenon, <2>3, <2>4, <2>5 DEF PollerInv
  <1>2. CASE Crash
    <2>3. 0 \in 0 .. N
      BY CountsAssumption
    <2>4. poll' = [pc |-> "down", cutoff |-> 0, batch |-> {}, msg |-> Unset,
                   duplicate |-> FALSE, review |-> FALSE]
      BY Zenon, <1>2 DEF Crash, Down, Idle
    <2>1. TypeOK'
      BY <1>2, <2>3, <2>4 DEF Crash, PollerInv, TypeOK
    <2>2. InHand'
      BY Zenon, <1>2 DEF Crash, Down, Idle, InHand
    <2> QED
      BY Zenon, <1>2, <2>1, <2>2, MessagesKept DEF Crash, PollerInv
  <1> QED
    BY Zenon, <1>1, <1>2

\* PollerInv holds in every state: no order of fetches, failures, redeliveries,
\* timeouts and crashes breaks it.
THEOREM PollerInvariant == Spec => []PollerInv
  <1>1. Init => PollerInv
    BY Zenon, InitInv
  <1>2. PollerInv /\ [Next]_vars => PollerInv'
    <2> SUFFICES ASSUME PollerInv, [Next]_vars PROVE PollerInv'
      BY Zenon
    <2>1. CASE UNCHANGED vars
      BY Zenon, <2>1
      DEF vars, PollerInv, TypeOK, ReadMeansHandled, FiledIsRead, InHand, Hopeless
    <2>2. CASE Work
      <3>1. CASE Begin
        <4>1. ASSUME NEW P \in Probes, Fetch(P, P \cap Oversize) PROVE PollerInv'
          <5>1. P \cap Oversize \in SUBSET (P \cap Oversize)
            BY Zenon
          <5> QED
            BY Zenon, <4>1, <5>1, BeginStep
        <4> QED
          BY Zenon, <3>1, <4>1, BeginStep DEF Begin
      <3>2. CASE \E m \in Msgs : Process(m)
        BY Zenon, <3>2, IngestStep DEF Process, Doomed
      <3>3. CASE Finish
        BY Zenon, <3>3, FailureStep, MarkStep, FileStep, BeginStep DEF Finish
      <3> QED
        BY Zenon, <2>2, <3>1, <3>2, <3>3 DEF Work
    <2>3. CASE Fault
      BY Zenon, <2>3, BeginStep, IngestStep, FailureStep, MarkStep, FileStep DEF Fault
    <2>4. CASE Deliver \/ Crash
      BY Zenon, <2>4, WorldStep
    <2> QED
      BY Zenon, <2>1, <2>2, <2>3, <2>4 DEF Next
  <1> QED
    BY <1>1, <1>2, PTL DEF Spec

\* Every variable of the poller keeps its type.
THEOREM PollerTypes == Spec => []TypeOK
  <1>1. PollerInv => TypeOK
    BY Zenon DEF PollerInv
  <1> QED
    BY <1>1, PollerInvariant, PTL

\* A message is only marked read when its email is recorded or hopeless
\* (process, handleIngestFailure, underCap).
THEOREM NoMessageHidden == Spec => []ReadMeansHandled
  <1>1. PollerInv => ReadMeansHandled
    BY Zenon DEF PollerInv
  <1> QED
    BY <1>1, PollerInvariant, PTL

\* A message is filed only after it was ingested and marked read (process).
THEOREM FiledAfterRead == Spec => []FiledIsRead
  <1>1. PollerInv => FiledIsRead
    BY Zenon DEF PollerInv
  <1> QED
    BY <1>1, PollerInvariant, PTL

=============================================================================
