------------------------------- MODULE Ingest -------------------------------
(***************************************************************************)
(* From an email to its submission (internal/service/submissions.go):      *)
(* recognising a redelivered email, finding the thread it belongs to or    *)
(* the submission it continues, resolving the line of business, filing its *)
(* documents, evaluating the checklist and choosing the reply.             *)
(*                                                                         *)
(* One goroutine ingests one email at a time: it loads a copy of the       *)
(* submission, works on the copy, commits it in one transaction and then   *)
(* flushes the audit entries of the ingest.  Between its steps the reply   *)
(* worker sends, records or gives up replies, and the escalation worker    *)
(* writes back the whole rows it listed earlier.  Sending is the subject   *)
(* of Outbox, the states and clocks that of Lifecycle.  A submission is    *)
(* named by the message that created it.                                   *)
(***************************************************************************)
EXTENDS Naturals, Sequences, FiniteSets, Checklist

CONSTANTS
  Mails,          \* the messages that arrive
  Traffic,        \* headers, text and attachments of each
  Applications,   \* applicationItemIDs
  MaxAsks,        \* POLICY_CLARIFY_MAX_ASKS
  NoItem,         \* an attachment no item matches
  NoName          \* no named insured

\* The message a number stands for.
Mail == [m \in Mails |-> Traffic[m]]

\* A message id is that of an inbound message, or of a submission's reply to it.
NoId == <<>>

Inbound(m) == <<"mail", m>>

Outbound(s, m) == <<"reply", s, m>>

Kinds == {"broker", "auto", "bounce", "transient"}

ASSUME AsksAssumption == MaxAsks \in Nat

ASSUME MailAssumption ==
  /\ IsFiniteSet(Mails)
  /\ \A m \in Mails :
       /\ Mail[m].mid \in {NoId, Inbound(m)}
       /\ Mail[m].kind \in Kinds
       /\ {Mail[m].subject, Mail[m].body} \subseteq Lines \cup {Unknown}
       /\ \A a \in Mail[m].atts :
            a.field \in Fields \cup {"null"} /\ a.quality \in Qualities

VARIABLES
  unread,    \* messages yet to arrive or to be marked read
  subs,      \* the submissions table
  emails,    \* the emails table
  docs,      \* the documents table
  replies,   \* the replies: queued, sent, recorded as an email too, dead
             \* lettered, or dead lettered though the server had taken them
  audit,     \* the messages with an ambiguous thread in the audit log
  job,       \* the ingest in progress, if any
  listed,    \* the rows the escalation worker holds copies of
  hist       \* history no step depends on

tables == <<subs, emails, docs, replies>>

vars == <<unread, tables, audit, job, listed, hist>>

Absent == [state |-> "absent", policy |-> Unknown, from |-> NoName,
           insured |-> NoName, missing |-> {}, review |-> FALSE,
           bounced |-> FALSE, hash |-> <<"none", {}>>, asks |-> 0,
           born |-> 0]

\* hist.stale: the submissions whose row the worker has replaced by an older
\* copy and no email was evaluated into since.  hist.forgot: those whose row was
\* ever replaced so, or whose last_reply_hash was cleared.  hist.lost: the
\* messages whose entry in the audit log was not written after the commit.
NoHistory == [stale |-> {}, forgot |-> {}, lost |-> {}]

Init ==
  /\ unread \in SUBSET Mails
  /\ subs = [s \in Mails |-> Absent]
  /\ emails = {}
  /\ docs = {}
  /\ replies = {}
  /\ audit = {}
  /\ job = {}
  /\ listed = {}
  /\ hist = NoHistory

Stored == {s \in Mails : subs[s].state # "absent"}

-----------------------------------------------------------------------------
(* The submission an email belongs to.                                     *)

\* The ids in the headers of m.
cleanThreadRefs(m) ==
  ({Mail[m].mid, Mail[m].irt} \cup Mail[m].refs) \ {NoId}

\* Mutant: only the ids of the stored emails are looked up.
findSubmissionIDsByMessageID(refs) ==
  {e.sub : e \in {f \in emails : f.mid \in refs}}

\* A thread is known by the ids of its emails and by what they answer, so that
\* an answer may be ingested before the email it answers.
findSubmissionIDsByRefs(refs) ==
  {e.sub : e \in {f \in emails : f.mid \in refs \/ f.irt \in refs}}

Matches(m) == findSubmissionIDsByRefs(cleanThreadRefs(m))

\* The submission the email is recorded under (FindByDeterministicID).
Owners(m) == {e.sub : e \in {f \in emails : f.id = Inbound(m)}}

\* pickMostRecentlyUpdated: the worker stamps a row with the time its check
\* began, so the order of updated_at is not that of the writes, and any of
\* several matches may be the last.  Without a match the email creates one.
Bases(m) == IF Matches(m) = {} THEN {m} ELSE Matches(m)

\* resolveSubmission: the email is looked for in the submission s its headers
\* lead to and, only if they lead nowhere, in the whole table.
Duplicate(m, s) ==
  IF Matches(m) = {} THEN Owners(m) # {} ELSE s \in Owners(m)

createSubmission(m) ==
  [Absent EXCEPT !.state = "open", !.policy = Mail[m].subject,
                 !.from = Mail[m].from, !.born = Cardinality(Stored) + 1]

-----------------------------------------------------------------------------
(* evaluate, and the identity of the account.                              *)

resolvePolicyType(sub, m) ==
  IF sub.policy # Unknown THEN sub.policy
  ELSE IF Mail[m].subject # Unknown THEN Mail[m].subject
  ELSE Mail[m].body

\* classifyAttachment under one line's checklist.  A field the model returns no
\* value for is stored like one that was never extracted.
classifyAttachments(m, s, line, llm) ==
  LET itemOf(a) == IF a.item \in Required[line] THEN a.item ELSE NoItem
      fieldOf(a) == IF itemOf(a) \in FieldItems /\ llm /\ a.field # "null"
                      THEN a.field ELSE "unrun"
  IN {[sub |-> s, email |-> Inbound(m), item |-> itemOf(a), quality |-> a.quality,
       field |-> fieldOf(a), insured |-> a.insured] : a \in Mail[m].atts}

DocsOf(s) == {d \in docs : d.sub = s}

\* The documents of submission s once m is ingested.
WithNew(s, m, line, llm) ==
  DocsOf(s) \cup classifyAttachments(m, s, line, llm)

evaluate(sub, s, m, llm) ==
  LET line == resolvePolicyType(sub, m)
  IN IF line = Unknown
       THEN [sub EXCEPT !.asks = @ + 1, !.missing = {PolicyUnknownItem}]
       ELSE [sub EXCEPT !.policy = line,
                        !.missing = EvaluateChecklist(WithNew(s, m, line, llm), line)]

\* extractIdentity reads one application that can be read; neither the model
\* nor the label need yield a name.
Names(sub, all) ==
  LET apps == {d \in all : d.item \in Applications
                            /\ d.quality \notin {"unreadable", "encrypted"}}
  IN IF sub.insured # NoName THEN {sub.insured}
     ELSE IF sub.policy = Unknown THEN {NoName}
     ELSE {NoName} \cup {d.insured : d \in apps}

-----------------------------------------------------------------------------
(* contentMatch.                                                           *)

\* Mutant: any broker's submission of the account.
FindContentMatchAnySender(sub, cutoff) ==
  {t \in Stored : /\ sub.insured # NoName
                  /\ subs[t].insured = sub.insured
                  /\ subs[t].state \in {"open", "awaiting"}
                  /\ subs[t].born >= cutoff}

\* The submissions of the same sender and named insured that are still open,
\* within THREAD_MATCH_WINDOW_DAYS; the last created of them is taken.
FindContentMatch(sub, cutoff) ==
  {t \in Stored : /\ sub.insured # NoName
                  /\ subs[t].insured = sub.insured
                  /\ subs[t].from = sub.from
                  /\ subs[t].state \in {"open", "awaiting"}
                  /\ subs[t].born >= cutoff}

Latest(T) == CHOOSE t \in T : \A u \in T : subs[u].born <= subs[t].born

\* Mutant: they keep the id of that submission.
MovedNowhere(new, t) == new

\* The documents of m, classified for the submission it would have created,
\* move to t, which is evaluated again.
Moved(new, t) == {[d EXCEPT !.sub = t] : d \in new}

\* Mutant: the submission keeps its missing items.
contentMatchUnevaluated(t, name, new) ==
  [subs[t] EXCEPT !.insured = IF @ = NoName THEN name ELSE @]

\* The row of t is read after the query that found t, and may have changed.
contentMatch(t, name, new) ==
  [subs[t] EXCEPT
     !.insured = IF @ = NoName THEN name ELSE @,
     !.missing = IF subs[t].policy = Unknown THEN @
                 ELSE EvaluateChecklist(DocsOf(t) \cup Moved(new, t), subs[t].policy)]

-----------------------------------------------------------------------------
(* The outcome.                                                            *)

policyClarifyExhausted(sub) == MaxAsks > 0 /\ sub.asks > MaxAsks

\* transitionState and the review flag.
Settled(sub) ==
  [sub EXCEPT !.review = RequiresReview(sub.missing) \/ policyClarifyExhausted(sub),
              !.state = IF sub.missing = {} THEN "complete" ELSE "awaiting"]

looksLikeMissingAttachment(m) == Mail[m].atts = {} /\ Mail[m].mentions

NoReply == <<"none", {}>>

\* The fingerprint of the reply, NoReply if there is nothing to say.
buildReply(sub, m) ==
  LET broker == BrokerActionable(sub.missing)
  IN CASE sub.policy = Unknown ->
            IF policyClarifyExhausted(sub) THEN NoReply
            ELSE ReplyFingerprint("policy_unknown", sub.missing)
       [] sub.policy # Unknown /\ sub.missing = {} ->
            ReplyFingerprint("completion", {})
       [] OTHER ->
            IF broker = {} THEN NoReply
            ELSE IF looksLikeMissingAttachment(m)
              THEN ReplyFingerprint("missing_items", {<<"attachment", "missing_attachment">>})
            ELSE ReplyFingerprint("missing_items", broker)

\* Mutant: every email is answered.
AnswersAlways(sub, m) ==
  /\ Mail[m].kind = "broker"
  /\ buildReply(sub, m) # NoReply
  /\ ~sub.bounced

\* A reply is queued: it says something, it is not suppressed and not the one
\* queued last.
Answers(sub, m) ==
  /\ Mail[m].kind = "broker"
  /\ buildReply(sub, m) # NoReply
  /\ ~sub.bounced
  /\ buildReply(sub, m) # sub.hash

\* upsertEmailRow: a row that exists is left alone.
Recorded(m, s) ==
  IF Owners(m) # {} THEN emails
  ELSE emails \cup {[id |-> Inbound(m), sub |-> s, mid |-> Mail[m].mid,
                     irt |-> Mail[m].irt]}

\* The poller marks the message read, or fails to and ingests it again.
MarkRead(m) == unread' \in {unread, unread \ {m}}

\* insertOutboxRow supersedes what is still queued for the submission.
Queued(s, m, ask) ==
  {r \in replies : r.sub # s \/ r.status # "queued"}
    \cup {[sub |-> s, mail |-> m, status |-> "queued", ask |-> ask]}

-----------------------------------------------------------------------------
(* The poller: one ingest at a time.                                       *)

\* Messages arrive in any order, an answer to our reply once that was sent.
Arrived(m) ==
  /\ m \in unread
  /\ \A id \in cleanThreadRefs(m) : id[1] = "reply" =>
       \E r \in replies : /\ id = Outbound(r.sub, r.mail)
                          /\ r.status \in {"sent", "recorded", "lapsed"}

IngestDuplicate(m) ==
  /\ job = {}
  /\ Arrived(m)
  /\ \E s \in Bases(m) : Duplicate(m, s)
  /\ MarkRead(m)
  /\ UNCHANGED <<tables, audit, job, listed, hist>>

bounceKinds == {"bounce", "transient"}

\* The copy of submission s the ingest of m works on.
Before(m, s) ==
  LET sub == IF Matches(m) = {} THEN createSubmission(m) ELSE subs[s]
  IN IF Mail[m].kind \in bounceKinds THEN sub ELSE [sub EXCEPT !.bounced = FALSE]

Load(m, s) ==
  /\ job = {}
  /\ Arrived(m)
  /\ s \in Bases(m)
  /\ ~Duplicate(m, s)
  /\ UNCHANGED <<unread, tables, audit, listed, hist>>

Job(m, s, pc, row, new, checked) ==
  [mail |-> m, sub |-> s, pc |-> pc, row |-> row, new |-> new,
   checked |-> checked, many |-> Cardinality(Matches(m)) > 1]

\* persistBounce, up to its transaction.
IngestBounce(m, s) ==
  LET hard == Mail[m].kind = "bounce"
      row == [Before(m, s) EXCEPT !.bounced = @ \/ hard, !.review = @ \/ hard]
  IN /\ Mail[m].kind \in bounceKinds
     /\ Load(m, s)
     /\ job' = {Job(m, s, "commit", row, {}, FALSE)}

\* ingestEmailInner, up to the content match.  The model answers or not.  Only
\* an email that created its submission is matched by content.
IngestEmail(m, s) ==
  /\ Mail[m].kind \notin bounceKinds
  /\ Load(m, s)
  /\ \E llm \in BOOLEAN :
       LET sub == evaluate(Before(m, s), s, m, llm)
           new == IF sub.policy = Unknown THEN {}
                  ELSE classifyAttachments(m, s, sub.policy, llm)
       IN \E name \in Names(sub, DocsOf(s) \cup new) :
            job' = {Job(m, s, IF Matches(m) = {} /\ name # NoName THEN "find" ELSE "commit",
                        [sub EXCEPT !.insured = name], new, TRUE)}

\* The first query of FindContentMatch; the window spans all submissions or
\* none.  A lookup that fails finds nothing.
FindMatch(j) ==
  /\ j.pc = "find"
  /\ \E cutoff \in {1, Cardinality(Stored) + 1} :
       LET T == FindContentMatch(j.row, cutoff)
       IN job' = {IF T = {} THEN [j EXCEPT !.pc = "commit"]
                  ELSE [j EXCEPT !.pc = "merge", !.sub = Latest(T)]}
  /\ UNCHANGED <<unread, tables, audit, listed, hist>>

\* Its second query, and the rest of contentMatch.
Merge(j) ==
  /\ j.pc = "merge"
  /\ LET row == contentMatch(j.sub, j.row.insured, j.new)
     IN job' = {[j EXCEPT !.pc = "commit", !.row = row, !.new = Moved(@, j.sub),
                          !.checked = row.policy # Unknown]}
  /\ UNCHANGED <<unread, tables, audit, listed, hist>>

MergeFails(j) ==
  /\ j.pc = "merge"
  /\ job' = {[j EXCEPT !.pc = "commit", !.sub = j.mail]}
  /\ UNCHANGED <<unread, tables, audit, listed, hist>>

\* What the ingest writes to the submission's row.
Outcome(j) == IF Mail[j.mail].kind \in bounceKinds THEN j.row ELSE Settled(j.row)

\* UpsertSubmission or UpsertSubmissionWithReply.
Commit(j) ==
  LET sub == Outcome(j)
      ask == buildReply(sub, j.mail)
  IN /\ j.pc = "commit"
     /\ subs' = [subs EXCEPT ![j.sub] = IF Answers(sub, j.mail)
                                         THEN [sub EXCEPT !.hash = ask] ELSE sub]
     /\ emails' = Recorded(j.mail, j.sub)
     /\ docs' = docs \cup j.new
     /\ replies' = IF Answers(sub, j.mail) THEN Queued(j.sub, j.mail, ask) ELSE replies
     /\ job' = {[j EXCEPT !.pc = "flush"]}
     /\ hist' = IF j.checked THEN [hist EXCEPT !.stale = @ \ {j.sub}] ELSE hist
     /\ UNCHANGED <<unread, audit, listed>>

\* The buffered entry of an ambiguous thread.
Entry(j) == IF j.many THEN {j.mail} ELSE {}

\* An error before the commit, or of it: the message stays unread, and what the
\* ingest did is audited all the same.
IngestFails(j) ==
  /\ j.pc # "flush"
  /\ job' = {}
  /\ audit' \in {audit, audit \cup Entry(j)}
  /\ UNCHANGED <<unread, tables, listed, hist>>

\* The entries are written, and the poller marks the message read.
Flush(j) ==
  /\ j.pc = "flush"
  /\ job' = {}
  /\ audit' = audit \cup Entry(j)
  /\ MarkRead(j.mail)
  /\ UNCHANGED <<tables, listed, hist>>

\* A failed Append is only logged.
FlushFails(j) ==
  /\ j.pc = "flush"
  /\ job' = {}
  /\ hist' = [hist EXCEPT !.lost = @ \cup Entry(j)]
  /\ MarkRead(j.mail)
  /\ UNCHANGED <<tables, audit, listed>>

-----------------------------------------------------------------------------
(* The reply worker and the escalation worker.                             *)

Becomes(r, status) == (replies \ {r}) \cup {[r EXCEPT !.status = status]}

\* deliver: the reply goes out, and then its copy is stored with its id.
SendReply(r) ==
  /\ r.status = "queued"
  /\ replies' = Becomes(r, "sent")
  /\ UNCHANGED <<unread, subs, emails, docs, audit, job, listed, hist>>

RecordReply(r) ==
  /\ r.status = "sent"
  /\ replies' = Becomes(r, "recorded")
  /\ emails' = emails \cup {[id |-> Outbound(r.sub, r.mail), sub |-> r.sub,
                             mid |-> Outbound(r.sub, r.mail),
                             irt |-> Mail[r.mail].mid]}
  /\ UNCHANGED <<unread, subs, docs, audit, job, listed, hist>>

\* The last attempt of redeliverOne fails, perhaps after the server took the
\* reply.  The row becomes failed and ClearReplyHash forgets the ask; either of
\* the two writes may fail.
DeadLetter(r) ==
  /\ r.status = "queued"
  /\ \E status \in {"queued", "dead", "lapsed"}, cleared \in BOOLEAN :
       /\ replies' = Becomes(r, status)
       /\ subs' = IF cleared THEN [subs EXCEPT ![r.sub].hash = NoReply] ELSE subs
       /\ hist' = IF cleared THEN [hist EXCEPT !.forgot = @ \cup {r.sub}] ELSE hist
  /\ UNCHANGED <<unread, emails, docs, audit, job, listed>>

\* ListStale, ListBindSoon, ListCompletedBefore, ListEscalatedSince and
\* ListStalledBefore: some rows, which of them is the subject of Lifecycle.
List(S) ==
  /\ \A s \in S : subs[s].state # "closed"
  /\ listed' = {[sub |-> s, row |-> subs[s]] : s \in S}
  /\ UNCHANGED <<unread, tables, audit, job, hist>>

\* upsertSubmissionRow writes every column of the copy.
Upsert(c, state) ==
  /\ subs' = [subs EXCEPT ![c.sub] = [c.row EXCEPT !.state = state]]
  /\ listed' = listed \ {c}
  /\ hist' = IF c.row = subs[c.sub] THEN hist
             ELSE [hist EXCEPT !.stale = @ \cup {c.sub}, !.forgot = @ \cup {c.sub}]
  /\ UNCHANGED <<unread, emails, docs, replies, audit, job>>

escalate(c) ==
  /\ c.row.state = "awaiting"
  /\ ~c.row.bounced
  /\ BrokerActionable(c.row.missing) # {}
  /\ Upsert(c, "escalated")

closeQuiet(c) == Upsert(c, "closed")

Unflushed == UNION {Entry(j) : j \in {k \in job : k.pc = "flush"}}

\* The process dies; between a commit and its flush the entries are lost.
Crash ==
  /\ job' = {}
  /\ listed' = {}
  /\ hist' = [hist EXCEPT !.lost = @ \cup Unflushed]
  /\ UNCHANGED <<unread, tables, audit>>

Starts(m) ==
  \/ IngestDuplicate(m)
  \/ \E s \in Bases(m) : IngestBounce(m, s) \/ IngestEmail(m, s)

Continues(j) == FindMatch(j) \/ Merge(j) \/ Commit(j) \/ Flush(j)

Fails(j) == MergeFails(j) \/ IngestFails(j) \/ FlushFails(j)

Next ==
  \/ \E m \in unread : Starts(m)
  \/ \E j \in job : Continues(j) \/ Fails(j)
  \/ \E r \in replies : SendReply(r) \/ RecordReply(r) \/ DeadLetter(r)
  \/ \E S \in SUBSET Stored : List(S)
  \/ \E c \in listed : escalate(c) \/ closeQuiet(c)
  \/ Crash

Spec == Init /\ [][Next]_vars

-----------------------------------------------------------------------------
(* Properties.                                                             *)

Ids == {Inbound(m) : m \in Mails} \cup {Outbound(s, m) : s, m \in Mails}

Gaps == ((UNION {Required[l] : l \in Lines}) \X Codes)
          \cup {PolicyUnknownItem, <<"attachment", "missing_attachment">>}

Asks == {"none", "policy_unknown", "completion", "missing_items"} \X SUBSET Gaps

Senders == {NoName} \cup {Mail[m].from : m \in Mails}

Insureds == {NoName} \cup UNION {{a.insured : a \in Mail[m].atts} : m \in Mails}

Submissions ==
  [state : {"absent", "open", "awaiting", "complete", "escalated", "closed"},
   policy : Lines \cup {Unknown}, from : Senders, insured : Insureds,
   missing : SUBSET Gaps, review : BOOLEAN, bounced : BOOLEAN, hash : Asks,
   asks : Nat, born : Nat]

Rows == {row \in Submissions : row.state # "absent"}

Documents(S) ==
  [sub : S, email : Ids, item : {NoItem} \cup UNION {Required[l] : l \in Lines},
   quality : Qualities, field : Fields, insured : Insureds]

Replies(S) ==
  [sub : S, mail : Mails, ask : Asks,
   status : {"queued", "sent", "recorded", "dead", "lapsed"}]

Jobs ==
  [mail : Mails, sub : Mails, pc : {"find", "merge", "commit", "flush"}, row : Rows,
   new : SUBSET Documents(Mails), checked : BOOLEAN, many : BOOLEAN]

\* Every variable keeps its type, and the tables name submissions that exist.
TypeOK ==
  /\ unread \subseteq Mails
  /\ audit \subseteq Mails
  /\ subs \in [Mails -> Submissions]
  /\ \A e \in emails : e.id \in Ids /\ e.sub \in Stored
  /\ docs \subseteq Documents(Stored)
  /\ replies \subseteq Replies(Stored)
  /\ job \subseteq Jobs
  /\ \A j, k \in job : j = k
  /\ listed \subseteq [sub : Stored, row : Rows]
  /\ hist \in [stale : SUBSET Mails, forgot : SUBSET Mails, lost : SUBSET Mails]

\* The items the documents D leave open for a line of business.
Open(line, D) ==
  LET good(item) == {d.field : d \in {e \in D : e.item = item /\ e.quality = "good"}}
      short(item) == /\ item \in FieldItems
                     /\ "fails" \in good(item)
                     /\ "meets" \notin good(item)
  IN IF line = Unknown THEN {PolicyUnknownItem[1]}
     ELSE {item \in Required[line] : good(item) = {} \/ short(item)}

\* The row says what the documents D say.
RowRight(row, D) ==
  /\ row.state = "complete" => row.missing = {}
  /\ row.state \in {"awaiting", "complete", "escalated"} \/ row.insured # NoName
     => {g[1] : g \in row.missing} = Open(row.policy, D)

\* missing_items says what the stored documents say (EvaluateChecklist), also
\* after emails were merged, redelivered, classified with and without the
\* model, or ingested before the line of business was known: an item is asked
\* for exactly if no stored document that could be read and identified meets
\* it, or one fails its rule and none is confirmed; and only a submission
\* without gaps is complete.  An escalation or closing that writes back a row
\* listed before an ingest undoes this, until the next email is evaluated.
MissingMatchesDocuments ==
  \A s \in Stored \ hist.stale : RowRight(subs[s], DocsOf(s))

\* m came from the sender of row with an application for the same account.
SameAccount(m, row) ==
  /\ Mail[m].from = row.from
  /\ row.insured # NoName
  /\ \E a \in Mail[m].atts : a.insured = row.insured

\* The thread of m shares an id with an email of s.
SameThread(m, s) ==
  \E e \in emails : /\ e.sub = s /\ e.id # Inbound(m)
                    /\ {e.mid, e.irt} \cap cleanThreadRefs(m) # {}

\* "The conditions are strict on purpose" (contentMatch): when an email is
\* filed under a submission it did not create, their threads share an id, or
\* it comes from the same sender with an application for the same account.
OnlyRelatedMail ==
  [][\A m \in Mails : \A s \in (Owners(m)' \ Owners(m)) \ {m} :
       SameAccount(m, subs'[s]) \/ SameThread(m, s)]_vars

\* An email and its answer are in one submission, whichever is ingested first,
\* unless the thread of one of them was ambiguous (findSubmissionIDsByRefs).
\* The audit log says so as soon as that ingest is over, unless the entry could
\* not be written or the process died between the commit and the flush.
SplitIsAudited ==
  LET known == audit \cup hist.lost \cup Unflushed
  IN \A answer, asked \in {e \in emails : e.id[1] = "mail"} :
       answer.irt = asked.mid /\ asked.mid # NoId /\ answer.sub # asked.sub
       => known \cap {answer.id[2], asked.id[2]} # {}

\* "NOT how many clarification emails go out - repeat suppression means one"
\* (.env.example:143): a broker is asked for the line of business once, unless
\* the fingerprint of the question was lost, to a dead letter or to an older
\* row written back.
ClarifiedOnce ==
  LET asked == {r \in replies : /\ r.status \in {"sent", "recorded", "lapsed"}
                                /\ r.ask[1] = "policy_unknown"}
  IN \A r, q \in asked : r.sub = q.sub /\ r.sub \notin hist.forgot => r = q

\* "A fresh message from the broker clears a prior hard bounce and lets one
\* reply through, rather than staying mute forever on a since-fixed address"
\* (ingestEmailInner).
BounceLetsOneThrough ==
  [][\A j \in job :
       /\ j.pc = "commit" /\ j \notin job' /\ Mail[j.mail].kind = "broker"
       /\ subs[j.sub].bounced /\ ~subs'[j.sub].bounced
       /\ BrokerActionable(subs'[j.sub].missing) # {}
       => \E r \in replies' \ replies : r.sub = j.sub]_vars

-----------------------------------------------------------------------------
(* The inductive invariant behind the safety properties.                   *)

\* The email that created a submission is stored, and a stored email has the
\* headers it came with.
EmailInv ==
  /\ \A s \in Stored : Owners(s) # {}
  /\ \A e \in emails, m \in Mails :
       e.id = Inbound(m) => e.mid = Mail[m].mid /\ e.irt = Mail[m].irt

Question == ReplyFingerprint("policy_unknown", {PolicyUnknownItem})

Asked(s) == \E r \in replies : r.sub = s /\ r.ask[1] = "policy_unknown"

\* A row with a named insured has a line of business; one of a submission that
\* was asked for its line and has none remembers the question.
AskedRow(s, row) ==
  /\ row.insured # NoName => row.policy # Unknown
  /\ Asked(s) /\ row.policy = Unknown => row.hash = Question

\* While its fingerprint is not lost, the question is queued for a submission
\* once.
AskInv ==
  /\ \A s \in Stored \ hist.forgot : AskedRow(s, subs[s])
  /\ \A r, q \in replies :
       /\ r.ask[1] = "policy_unknown" /\ q.ask[1] = "policy_unknown"
       /\ r.sub = q.sub /\ r.sub \notin hist.forgot
       => r = q
  /\ hist.stale \subseteq hist.forgot

\* The row of s and the worker's copies of it have the sender `from', and the
\* named insured `name' or none.
Named(s, from, name) ==
  /\ subs[s].from = from /\ subs[s].insured \in {NoName, name}
  /\ \A c \in listed : c.sub = s => c.row.from = from /\ c.row.insured \in {NoName, name}

\* The worker holds one copy of a row, with the name the row has or none.
ListedInv ==
  /\ \A s \in Stored : Named(s, subs[s].from, subs[s].insured)
  /\ \A c, d \in listed : c.sub = d.sub => c = d

\* Emails that answer m or are answered by it are stored under S.
Unsplit(m, S) ==
  \A e \in emails :
    /\ e.id[1] = "mail" /\ e.id # Inbound(m)
    /\ \/ Mail[m].irt = e.mid /\ e.mid # NoId
       \/ e.irt = Mail[m].mid /\ Mail[m].mid # NoId
    => e.sub \in S

\* What j would commit to s.
RowInv(j, s) ==
  /\ \A d \in j.new : d.sub = s
  /\ j.checked \/ s \notin hist.stale => RowRight(Outcome(j), DocsOf(s) \cup j.new)
  /\ s \notin hist.forgot =>
       /\ AskedRow(s, j.row)
       /\ Mail[j.mail].kind \notin bounceKinds /\ j.row.policy = Unknown
          => j.row.missing = {PolicyUnknownItem}

\* A new submission, before its content is matched.
SearchInv(j) ==
  /\ RowInv(j, j.mail)
  /\ Mail[j.mail].kind \notin bounceKinds
  /\ Owners(j.mail) = {}
  /\ Unsplit(j.mail, {})
  /\ SameAccount(j.mail, j.row)
  /\ j.pc = "find" => j.sub = j.mail
  /\ j.pc = "merge" =>
       /\ j.sub \in Stored
       /\ Named(j.sub, j.row.from, j.row.insured)
       /\ j.sub \notin hist.stale => subs[j.sub].insured # NoName

\* The submission an email goes to.
TargetInv(j) ==
  /\ RowInv(j, j.sub)
  /\ j.many \/ Unsplit(j.mail, {j.sub})
  /\ IF j.sub \in Stored THEN Named(j.sub, j.row.from, j.row.insured)
     ELSE j.sub = j.mail /\ Owners(j.mail) = {}
  /\ j.sub # j.mail /\ Owners(j.mail) = {} =>
       SameAccount(j.mail, j.row) \/ SameThread(j.mail, j.sub)

JobInv ==
  \A j \in job :
    /\ j.pc \in {"find", "merge"} => SearchInv(j)
    /\ j.pc = "commit" => TargetInv(j)

IngestInv ==
  /\ TypeOK /\ EmailInv /\ AskInv /\ ListedInv /\ JobInv
  /\ MissingMatchesDocuments /\ SplitIsAudited

=============================================================================
