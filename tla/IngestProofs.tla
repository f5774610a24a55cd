----------------------------- MODULE IngestProofs ---------------------------
(***************************************************************************)
(* Filing emails under submissions, for every set of messages, checklist   *)
(* and order of arrival.                                                   *)
(***************************************************************************)
EXTENDS Ingest, FiniteSetTheorems, WellFoundedInduction, TLAPS

-----------------------------------------------------------------------------
(* Finite sets of submissions.                                             *)

\* Induction over a finite set: every subset is reached from the empty one by
\* adding elements.  A smallest subset that is not would lack one of them.
LEMMA SetInduction ==
  ASSUME NEW T, IsFiniteSet(T), NEW Good,
         {} \in Good,
         \A U \in SUBSET T, x \in T : U \in Good => U \cup {x} \in Good
  PROVE  T \in Good
<1> SUFFICES ASSUME T \notin Good PROVE FALSE
  OBVIOUS
<1> DEFINE Bad == {U \in FiniteSubsetsOf(T) : U \notin Good}
<1>1. T \in Bad /\ Bad \subseteq FiniteSubsetsOf(T)
  BY DEF FiniteSubsetsOf
<1>2. IsWellFoundedOn(StrictSubsetOrdering(T), FiniteSubsetsOf(T))
  BY FS_StrictSubsetOrderingWellFounded
<1>3. PICK U \in Bad : \A V \in Bad : ~(<<V, U>> \in StrictSubsetOrdering(T))
  <2> HIDE DEF Bad
  <2> QED
    BY <1>1, <1>2, WFMin
<1>4. PICK x : x \in U
  BY Zenon
<1> DEFINE V == U \ {x}
<1>5. V \in FiniteSubsetsOf(T) /\ V \in SUBSET T
  BY FS_Subset DEF FiniteSubsetsOf
<1>6. <<V, U>> \in StrictSubsetOrdering(T)
  BY <1>4, <1>5 DEF StrictSubsetOrdering, FiniteSubsetsOf
<1>7. V \in Good
  BY <1>3, <1>5, <1>6
<1>8. U = V \cup {x} /\ x \in T
  BY <1>4 DEF FiniteSubsetsOf
<1> QED
  BY <1>5, <1>7, <1>8

\* ORDER BY ... DESC LIMIT 1 finds a row if there is one.
LEMMA Greatest ==
  ASSUME NEW T, IsFiniteSet(T), T # {}, NEW R,
         \A x, y \in T : x = y \/ <<x, y>> \in R \/ <<y, x>> \in R,
         \A x, y, z \in T : <<x, y>> \in R /\ <<y, z>> \in R => <<x, z>> \in R
  PROVE  \E t \in T : \A u \in T \ {t} : <<u, t>> \in R
<1> DEFINE Top(U, t) == t \in U /\ \A u \in U \ {t} : <<u, t>> \in R
           Good == {U \in SUBSET T : U = {} \/ \E t \in T : Top(U, t)}
<1>1. {} \in Good
  OBVIOUS
<1>2. ASSUME NEW U \in SUBSET T, NEW x \in T, U \in Good PROVE U \cup {x} \in Good
  <2>1. CASE U = {} \/ x \in U
    <3>1. U = {} => Top(U \cup {x}, x)
      BY Zenon
    <3>2. x \in U => U \cup {x} = U
      BY Zenon
    <3> QED
      BY <1>2, <2>1, <3>1, <3>2
  <2>2. CASE U # {} /\ x \notin U
    <3>1. PICK t \in T : Top(U, t)
      BY Zenon, <1>2, <2>2
    <3>2. <<t, x>> \in R => Top(U \cup {x}, x)
      BY Zenon, <2>2, <3>1
    <3>3. <<x, t>> \in R => Top(U \cup {x}, t)
      BY Zenon, <2>2, <3>1
    <3>4. <<t, x>> \in R \/ <<x, t>> \in R
      BY Zenon, <2>2, <3>1
    <3> QED
      BY Zenon, <1>2, <3>2, <3>3, <3>4
  <2> QED
    BY Zenon, <2>1, <2>2
<1>3. T \in Good
  <2> HIDE DEF Good
  <2> QED
    BY Zenon, <1>1, <1>2, SetInduction
<1> QED
  BY Zenon, <1>3

\* The tables are finite.
LEMMA FiniteStored ==
  /\ IsFiniteSet(Stored) /\ Cardinality(Stored) \in Nat
  /\ \A T \in SUBSET Stored : IsFiniteSet(T)
<1>1. Stored \in SUBSET Mails /\ IsFiniteSet(Mails)
  BY Zenon, MailAssumption DEF Stored
<1>2. IsFiniteSet(Stored)
  BY Zenon, <1>1, FS_Subset
<1> QED
  BY Zenon, <1>2, FS_Subset, FS_CardinalityType

\* The last created of FindContentMatch is one of them.
LEMMA LatestIsMatch ==
  ASSUME TypeOK, NEW T \in SUBSET Stored, T # {}
  PROVE  Latest(T) \in T
<1> DEFINE R == {p \in T \X T : subs[p[1]].born <= subs[p[2]].born}
<1>1. IsFiniteSet(T)
  BY Zenon, FiniteStored
<1>2. \A t \in T : subs[t].born \in Nat
  BY Zenon DEF TypeOK, Submissions, Stored
<1>3. /\ \A x, y \in T : x = y \/ <<x, y>> \in R \/ <<y, x>> \in R
      /\ \A x, y, z \in T : <<x, y>> \in R /\ <<y, z>> \in R => <<x, z>> \in R
  BY <1>2
<1>4. \E t \in T : \A u \in T \ {t} : <<u, t>> \in R
  <2> HIDE DEF R
  <2> QED
    BY Zenon, <1>1, <1>3, Greatest
<1>5. \A u, t \in T : <<u, t>> \in R => subs[u].born <= subs[t].born
  BY Zenon
<1>6. \A t \in T : subs[t].born <= subs[t].born
  BY <1>2
<1>7. \E t \in T : \A u \in T : subs[u].born <= subs[t].born
  <2> HIDE DEF R
  <2> QED
    BY Zenon, <1>4, <1>5, <1>6
<1> QED
  BY Zenon, <1>7 DEF Latest

\* A thread that is not ambiguous leads to one submission.
LEMMA OneMatch ==
  ASSUME NEW ids, IsFiniteSet(ids), ~(Cardinality(ids) > 1), NEW x \in ids, NEW y \in ids
  PROVE  x = y
<1> SUFFICES ASSUME x # y PROVE FALSE
  OBVIOUS
<1>1. IsFiniteSet({x}) /\ Cardinality({x}) = 1
  BY Zenon, FS_Singleton
<1>2. Cardinality({x} \cup {y}) = Cardinality({x}) + 1
  BY Zenon, <1>1, FS_AddElement
<1>3. {x} \cup {y} \in SUBSET ids
  BY Zenon
<1>4. Cardinality({x} \cup {y}) <= Cardinality(ids)
  BY Zenon, <1>3, FS_Subset
<1>5. Cardinality(ids) \in Nat
  BY Zenon, FS_CardinalityType
<1> QED
  BY <1>1, <1>2, <1>4, <1>5

-----------------------------------------------------------------------------
(* The checklist.                                                          *)

Good(D, item) == {d.field : d \in {e \in D : e.item = item /\ e.quality = "good"}}

Lacking(D, line) ==
  {item \in Required[line] :
     \/ Good(D, item) = {}
     \/ item \in FieldItems /\ "fails" \in Good(D, item) /\ "meets" \notin Good(D, item)}

ItemsOf(missing) == {g[1] : g \in missing}

\* EvaluateChecklist names the items no document meets or one fails.
LEMMA ChecklistLacks ==
  ASSUME NEW D, \A d \in D : d.field \in Fields, NEW line
  PROVE  ItemsOf(EvaluateChecklist(D, line)) = Lacking(D, line)
<1>1. \A item : itemDocs(D, item).qualifying = Good(D, item)
  BY Zenon DEF itemDocs, Good
<1>2. \A item : Good(D, item) \subseteq Fields
  BY Zenon DEF Good
<1>3. \A item : ~Satisfied(item, itemDocs(D, item)) <=>
        \/ Good(D, item) = {}
        \/ item \in FieldItems /\ "fails" \in Good(D, item) /\ "meets" \notin Good(D, item)
  BY <1>1, <1>2 DEF Satisfied, Fields
<1>4. ItemsOf(EvaluateChecklist(D, line)) =
        {i \in Required[line] : ~Satisfied(i, itemDocs(D, i))}
  <2> DEFINE X == {i \in Required[line] : ~Satisfied(i, itemDocs(D, i))}
             code(b) == IF b.qualifying = {} THEN unsatisfiedItem(b) ELSE "field_shortfall"
             E == {<<i, code(itemDocs(D, i))>> : i \in X}
  <2>1. EvaluateChecklist(D, line) = E
    BY Zenon DEF EvaluateChecklist
  <2> HIDE DEF X, code
  <2>2. ASSUME NEW g \in E PROVE g[1] \in X
    OBVIOUS
  <2>3. ASSUME NEW i \in X PROVE \E g \in E : g[1] = i
    <3>1. <<i, code(itemDocs(D, i))>> \in E /\ <<i, code(itemDocs(D, i))>>[1] = i
      OBVIOUS
    <3> QED
      BY Zenon, <3>1
  <2>4. {g[1] : g \in E} = X
    <3> HIDE DEF E
    <3> QED
      BY Zenon, <2>2, <2>3
  <2> QED
    BY Zenon, <2>1, <2>4 DEF ItemsOf, X
<1> QED
  BY Zenon, <1>3, <1>4 DEF Lacking

\* EvaluateChecklist returns items of the line with a code.
LEMMA ChecklistType ==
  ASSUME NEW D, NEW line \in Lines
  PROVE  EvaluateChecklist(D, line) \subseteq Gaps
<1>1. \A b : unsatisfiedItem(b) \in Codes /\ "field_shortfall" \in Codes
  BY DEF unsatisfiedItem, Codes
<1>2. Required[line] \subseteq UNION {Required[l] : l \in Lines}
  BY Zenon
<1>3. \A g \in EvaluateChecklist(D, line) :
        \E i \in Required[line], c \in Codes : g = <<i, c>>
  BY Zenon, <1>1 DEF EvaluateChecklist
<1> SUFFICES ASSUME NEW g \in EvaluateChecklist(D, line) PROVE g \in Gaps
  BY Zenon
<1>4. PICK i \in Required[line], c \in Codes : g = <<i, c>>
  BY Zenon, <1>3
<1>5. i \in UNION {Required[l] : l \in Lines}
  BY Zenon, <1>2
<1> QED
  BY Zenon, <1>4, <1>5 DEF Gaps

\* RowRight in terms of what the documents lack.
LEMMA RightIs ==
  ASSUME NEW row, NEW D
  PROVE  RowRight(row, D) <=>
           /\ row.state = "complete" => row.missing = {}
           /\ row.state \in {"awaiting", "complete", "escalated"} \/ row.insured # NoName =>
                ItemsOf(row.missing) = IF row.policy = Unknown THEN {PolicyUnknownItem[1]}
                                       ELSE Lacking(D, row.policy)
<1>1. Open(row.policy, D) = IF row.policy = Unknown THEN {PolicyUnknownItem[1]}
                            ELSE Lacking(D, row.policy)
  BY Zenon DEF Open, Lacking, Good
<1> QED
  BY Zenon, <1>1 DEF RowRight, ItemsOf

-----------------------------------------------------------------------------
(* The row an ingest computes.                                             *)

\* Every document is of its type (TypeOK).
LEMMA DocumentFields ==
  ASSUME NEW S, NEW d \in Documents(S)
  PROVE  d.sub \in S /\ d.field \in Fields /\ d.insured \in Insureds
  BY DEF Documents

\* A document of the email names an insured of the email.
LEMMA NewInsured ==
  ASSUME NEW m \in Mails, NEW a \in Mail[m].atts
  PROVE  a.insured \in Insureds
<1> DEFINE I(n) == {c.insured : c \in Mail[n].atts}
<1>1. a.insured \in I(m)
  BY Zenon
<1>2. a.insured \in UNION {I(n) : n \in Mails}
  <2> HIDE DEF I
  <2> QED
    BY Zenon, <1>1
<1> QED
  BY Zenon, <1>2 DEF Insureds

\* The documents of an email are filed under one submission (classifyAttachments).
LEMMA NewDocs ==
  ASSUME NEW m \in Mails, NEW s, NEW line \in Lines, NEW llm,
         NEW d \in classifyAttachments(m, s, line, llm)
  PROVE  /\ d.sub = s /\ d \in Documents({s})
         /\ \E a \in Mail[m].atts : d.insured = a.insured
<1> DEFINE itemOf(a) == IF a.item \in Required[line] THEN a.item ELSE NoItem
           fieldOf(a) == IF itemOf(a) \in FieldItems /\ llm /\ a.field # "null"
                           THEN a.field ELSE "unrun"
<1>1. PICK a \in Mail[m].atts :
        d = [sub |-> s, email |-> Inbound(m), item |-> itemOf(a), quality |-> a.quality,
             field |-> fieldOf(a), insured |-> a.insured]
  BY Zenon DEF classifyAttachments
<1>2. fieldOf(a) \in Fields /\ a.quality \in Qualities
  <2>1. a.field \in Fields \cup {"null"} /\ "unrun" \in Fields /\ a.quality \in Qualities
    BY Zenon, MailAssumption DEF Fields
  <2> QED
    BY Zenon, <2>1
<1>3. itemOf(a) \in {NoItem} \cup UNION {Required[l] : l \in Lines}
  <2>1. Required[line] \subseteq UNION {Required[l] : l \in Lines}
    BY Zenon
  <2> QED
    BY Zenon, <2>1
<1>4. a.insured \in Insureds /\ Inbound(m) \in Ids
  BY NewInsured DEF Ids
<1> HIDE DEF itemOf, fieldOf
<1> QED
  BY Zenon, <1>1, <1>2, <1>3, <1>4 DEF Documents

\* They keep their type when they move to another submission (Moved).
LEMMA MovedDocs ==
  ASSUME NEW new \in SUBSET Documents(Mails), NEW t, NEW d \in Moved(new, t)
  PROVE  d.sub = t /\ d \in Documents({t})
<1>1. PICK c \in new : d = [c EXCEPT !.sub = t]
  BY Zenon DEF Moved
<1> QED
  BY Zenon, <1>1 DEF Documents

\* Those of a set are those of its members.
LEMMA MoreDocuments ==
  ASSUME NEW S, NEW T, S \subseteq T
  PROVE  Documents(S) \subseteq Documents(T)
  BY Zenon DEF Documents

\* A submission keeps its sender, and its named insured and its line of business
\* once it has them.
Keeps(old, sub) ==
  /\ sub.from = old.from
  /\ old.insured # NoName => sub.insured = old.insured
  /\ old.policy # Unknown => sub.policy = old.policy

\* evaluate under the line that was resolved.
LEMMA Evaluated ==
  ASSUME NEW b \in Submissions, NEW s, NEW m \in Mails, NEW llm,
         b.state # "absent"
  PROVE  LET sub == evaluate(b, s, m, llm)
         IN /\ sub \in Submissions /\ Keeps(b, sub) /\ sub.state = b.state
            /\ sub.insured = b.insured /\ sub.hash = b.hash
            /\ sub.policy = Unknown => sub.missing = {PolicyUnknownItem}
            /\ sub.policy # Unknown =>
                 /\ sub.policy \in Lines
                 /\ sub.missing = EvaluateChecklist(WithNew(s, m, sub.policy, llm), sub.policy)
<1> DEFINE line == resolvePolicyType(b, m)
           E == EvaluateChecklist(WithNew(s, m, line, llm), line)
<1>1. line \in Lines \cup {Unknown} /\ (b.policy # Unknown => line = b.policy)
  BY Zenon, MailAssumption DEF resolvePolicyType, Submissions
<1>2. CASE line = Unknown
  <2>1. evaluate(b, s, m, llm) = [b EXCEPT !.asks = @ + 1, !.missing = {PolicyUnknownItem}]
    BY Zenon, <1>2 DEF evaluate
  <2>2. b.asks + 1 \in Nat
    BY DEF Submissions
  <2>3. {PolicyUnknownItem} \in SUBSET Gaps
    BY Zenon DEF Gaps
  <2>4. b.policy = Unknown
    BY Zenon, <1>1, <1>2
  <2> HIDE DEF line, E
  <2> QED
    BY Zenon, <2>1, <2>2, <2>3, <2>4 DEF Submissions, Keeps
<1>3. CASE line # Unknown
  <2>1. evaluate(b, s, m, llm) = [b EXCEPT !.policy = line, !.missing = E]
    BY Zenon, <1>3 DEF evaluate
  <2>2. line \in Lines
    BY Zenon, <1>1, <1>3
  <2>3. E \in SUBSET Gaps
    BY Zenon, <2>2, ChecklistType
  <2> HIDE DEF line
  <2>4. evaluate(b, s, m, llm) \in Submissions
    BY Zenon, <2>1, <2>2, <2>3 DEF Submissions
  <2> QED
    BY Zenon, <1>1, <1>3, <2>1, <2>2, <2>4 DEF Submissions, Keeps
<1> QED
  BY Zenon, <1>2, <1>3

\* transitionState: complete if and only if nothing is missing.
LEMMA SettledFacts ==
  ASSUME NEW sub \in Submissions
  PROVE  LET f == Settled(sub)
         IN /\ f \in Submissions
            /\ f.state = IF sub.missing = {} THEN "complete" ELSE "awaiting"
            /\ f.policy = sub.policy /\ f.from = sub.from /\ f.insured = sub.insured
            /\ f.missing = sub.missing /\ f.hash = sub.hash /\ f.bounced = sub.bounced
<1>1. (RequiresReview(sub.missing) \/ policyClarifyExhausted(sub)) \in BOOLEAN
  BY Zenon DEF RequiresReview, policyClarifyExhausted
<1> QED
  BY Zenon, <1>1 DEF Settled, Submissions

\* A submission that was evaluated and settled fits its documents.
LEMMA SettledRight ==
  ASSUME NEW sub \in Submissions, NEW D, \A d \in D : d.field \in Fields,
         sub.policy = Unknown => sub.missing = {PolicyUnknownItem},
         sub.policy # Unknown => sub.missing = EvaluateChecklist(D, sub.policy)
  PROVE  RowRight(Settled(sub), D)
<1>1. /\ Settled(sub).missing = sub.missing /\ Settled(sub).policy = sub.policy
      /\ Settled(sub).state = IF sub.missing = {} THEN "complete" ELSE "awaiting"
  BY Zenon, SettledFacts
<1>2. ItemsOf({PolicyUnknownItem}) = {PolicyUnknownItem[1]}
  BY Zenon DEF ItemsOf
<1>3. sub.policy # Unknown => ItemsOf(sub.missing) = Lacking(D, sub.policy)
  BY Zenon, ChecklistLacks
<1> QED
  BY Zenon, <1>1, <1>2, <1>3, RightIs

\* The fields of an ingest in progress.
LEMMA JobFields ==
  ASSUME NEW j \in Jobs
  PROVE  /\ j.mail \in Mails /\ j.sub \in Mails /\ j.row \in Submissions
         /\ j.row.state # "absent" /\ j.new \in SUBSET Documents(Mails)
         /\ j.pc \in {"find", "merge", "commit", "flush"}
         /\ j.checked \in BOOLEAN /\ j.many \in BOOLEAN
<1>1. /\ j.mail \in Mails /\ j.sub \in Mails /\ j.row \in Rows
      /\ j.new \in SUBSET Documents(Mails)
      /\ j.pc \in {"find", "merge", "commit", "flush"}
      /\ j.checked \in BOOLEAN /\ j.many \in BOOLEAN
  BY Zenon DEF Jobs
<1> QED
  BY Zenon, <1>1 DEF Rows

\* What an ingest writes has the account, the gaps and the fingerprint of its copy
\* (transitionState).
LEMMA OutcomeFacts ==
  ASSUME NEW j \in Jobs
  PROVE  LET f == Outcome(j)
         IN /\ f \in Submissions /\ f.state # "absent"
            /\ f.policy = j.row.policy /\ f.from = j.row.from /\ f.insured = j.row.insured
            /\ f.missing = j.row.missing /\ f.hash = j.row.hash
<1>1. j.row \in Submissions /\ j.row.state # "absent"
  BY Zenon, JobFields
<1>2. Outcome(j) = j.row \/ Outcome(j) = Settled(j.row)
  BY Zenon DEF Outcome
<1> QED
  BY Zenon, <1>1, <1>2, SettledFacts

-----------------------------------------------------------------------------
(* Loading the submission of an email.                                     *)

\* The headers of an email lead to stored submissions.
LEMMA MatchesStored ==
  ASSUME TypeOK, NEW m
  PROVE  Matches(m) \subseteq Stored /\ IsFiniteSet(Matches(m)) /\ Stored \subseteq Mails
<1>1. \A e \in emails : e.sub \in Stored
  BY Zenon DEF TypeOK
<1>2. Matches(m) \subseteq Stored
  BY Zenon, <1>1 DEF Matches, findSubmissionIDsByRefs
<1>3. IsFiniteSet(Matches(m))
  BY Zenon, <1>2, FiniteStored
<1> QED
  BY Zenon, <1>2, <1>3 DEF Stored

\* createSubmission has no account yet and the sender of its email.
LEMMA Created ==
  ASSUME NEW m \in Mails
  PROVE  LET c == createSubmission(m)
         IN /\ c \in Submissions /\ c.insured = NoName /\ c.state = "open"
            /\ c.from = Mail[m].from
<1>1. Cardinality(Stored) + 1 \in Nat
  BY FiniteStored
<1>2. {} \in SUBSET Gaps /\ <<"none", {}>> \in Asks
  BY Zenon DEF Asks
<1>3. Mail[m].subject \in Lines \cup {Unknown} /\ Mail[m].from \in Senders
      /\ NoName \in Senders /\ NoName \in Insureds /\ 0 \in Nat
  BY Zenon, MailAssumption DEF Senders, Insureds
<1>4. Absent \in Submissions
  BY Zenon, <1>2, <1>3 DEF Absent, Submissions
<1>5. createSubmission(m) \in Submissions
  BY Zenon, <1>1, <1>3, <1>4 DEF createSubmission, Submissions
<1>6. /\ createSubmission(m).insured = NoName /\ createSubmission(m).state = "open"
      /\ createSubmission(m).from = Mail[m].from
  BY Zenon DEF createSubmission, Absent
<1> QED
  BY Zenon, <1>5, <1>6

\* resolveSubmission: the thread of the email, or a submission that is not there
\* yet, because the email that creates a submission is stored with it.
LEMMA Resolved ==
  ASSUME IngestInv, NEW m \in Mails, NEW s, Load(m, s)
  PROVE  LET b == Before(m, s)
         IN /\ s \in Mails /\ b \in Submissions /\ b.state # "absent"
            /\ Matches(m) = {} => /\ s = m /\ s \notin Stored /\ Owners(m) = {}
                                  /\ b.insured = NoName /\ b.from = Mail[m].from
                                  /\ b.state = "open"
            /\ Matches(m) # {} => /\ s \in Matches(m) /\ s \in Stored /\ s \notin Owners(m)
                                  /\ b.state = subs[s].state /\ b.policy = subs[s].policy
                                  /\ b.from = subs[s].from /\ b.insured = subs[s].insured
                                  /\ b.missing = subs[s].missing /\ b.hash = subs[s].hash
<1> DEFINE old == IF Matches(m) = {} THEN createSubmission(m) ELSE subs[s]
<1>1. TypeOK /\ EmailInv
  BY Zenon DEF IngestInv
<1>2. Matches(m) \subseteq Stored /\ Stored \subseteq Mails
  BY Zenon, <1>1, MatchesStored
<1>3. s \in Bases(m) /\ ~Duplicate(m, s)
  BY Zenon DEF Load
<1>4. Matches(m) = {} => s = m /\ s \notin Stored /\ Owners(m) = {}
  BY Zenon, <1>1, <1>3 DEF Bases, Duplicate, EmailInv
<1>5. Matches(m) # {} => s \in Matches(m) /\ s \in Stored /\ s \notin Owners(m)
  BY Zenon, <1>2, <1>3 DEF Bases, Duplicate
<1>6. s \in Mails
  BY Zenon, <1>2, <1>4, <1>5
<1>7. /\ Matches(m) = {} => /\ old.insured = NoName /\ old.state = "open"
                            /\ old.from = Mail[m].from
      /\ Matches(m) # {} => old = subs[s]
  BY Zenon, Created
<1>8. old \in Submissions /\ old.state # "absent"
  <2>1. Matches(m) = {} => old \in Submissions
    BY Zenon, Created
  <2>2. Matches(m) # {} => subs[s] \in Submissions /\ subs[s].state # "absent"
    BY Zenon, <1>1, <1>5, <1>6 DEF TypeOK, Stored
  <2>3. "open" # "absent"
    OBVIOUS
  <2> HIDE DEF old
  <2> QED
    BY Zenon, <1>7, <2>1, <2>2, <2>3
<1>9. LET b == Before(m, s)
      IN /\ b \in Submissions /\ b.from = old.from /\ b.insured = old.insured
         /\ b.policy = old.policy /\ b.state = old.state
         /\ b.missing = old.missing /\ b.hash = old.hash
  <2>1. Before(m, s) \in {old, [old EXCEPT !.bounced = FALSE]}
    BY Zenon DEF Before
  <2> HIDE DEF old
  <2> QED
    BY Zenon, <1>8, <2>1 DEF Submissions
<1> HIDE DEF old
<1> QED
  BY Zenon, <1>4, <1>5, <1>6, <1>7, <1>8, <1>9

\* The emails that answer m or that m answers are in the submission its headers
\* lead to, unless they lead to several (findSubmissionIDsByRefs).
LEMMA LoadedThread ==
  ASSUME IngestInv, NEW m \in Mails, NEW s, Load(m, s)
  PROVE  /\ Cardinality(Matches(m)) > 1 \/ Unsplit(m, {s})
         /\ Matches(m) = {} => Unsplit(m, {})
         /\ s # m /\ Owners(m) = {} => SameThread(m, s)
<1>1. TypeOK
  BY Zenon DEF IngestInv
<1>2. \A e \in emails : \A id \in {e.mid, e.irt} :
        id \in cleanThreadRefs(m) => e.sub \in Matches(m)
  BY Zenon DEF Matches, findSubmissionIDsByRefs
<1>3. \A id \in {Mail[m].mid, Mail[m].irt} : id # NoId => id \in cleanThreadRefs(m)
  BY Zenon DEF cleanThreadRefs
<1>4. Unsplit(m, Matches(m))
  BY Zenon, <1>2, <1>3 DEF Unsplit
<1>5. Matches(m) = {} => s = m /\ Unsplit(m, {s})
  <2>1. Matches(m) = {} => s = m
    BY Zenon, Resolved
  <2>2. Matches(m) = {} => Unsplit(m, {s})
    BY Zenon, <1>4 DEF Unsplit
  <2> QED
    BY Zenon, <2>1, <2>2
<1>6. Matches(m) # {} => s \in Matches(m)
  BY Zenon, Resolved
<1>7. IsFiniteSet(Matches(m))
  BY Zenon, <1>1, MatchesStored
<1>8. ASSUME Matches(m) # {}, ~(Cardinality(Matches(m)) > 1) PROVE Unsplit(m, {s})
  <2>1. \A x \in Matches(m) : x = s
    BY Zenon, <1>6, <1>7, <1>8, OneMatch
  <2> QED
    BY Zenon, <1>4, <2>1 DEF Unsplit
<1>9. ASSUME s # m, Owners(m) = {} PROVE SameThread(m, s)
  <2>1. s \in Matches(m)
    BY Zenon, <1>5, <1>6, <1>9
  <2>2. PICK e \in emails :
          e.sub = s /\ (e.mid \in cleanThreadRefs(m) \/ e.irt \in cleanThreadRefs(m))
    BY Zenon, <2>1 DEF Matches, findSubmissionIDsByRefs
  <2>3. \A c \in emails : c.id = Inbound(m) => c.sub \in Owners(m)
    BY Zenon DEF Owners
  <2>4. e.id # Inbound(m)
    BY Zenon, <1>9, <2>3
  <2> QED
    BY Zenon, <2>2, <2>4 DEF SameThread
<1> QED
  BY Zenon, <1>4, <1>5, <1>8, <1>9

\* A reply belongs to a stored submission.
LEMMA ReplyRows ==
  ASSUME TypeOK
  PROVE  \A r \in replies : r.sub \in Stored /\ r \in Replies(Stored)
<1>1. replies \subseteq Replies(Stored)
  BY Zenon DEF TypeOK
<1>2. \A S : \A r \in Replies(S) : r.sub \in S
  BY DEF Replies
<1> QED
  BY Zenon, <1>1, <1>2

\* The copy remembers what was asked for, and has the account of the row and of
\* the worker's copies.
LEMMA LoadedRow ==
  ASSUME IngestInv, NEW m \in Mails, NEW s, Load(m, s)
  PROVE  LET b == Before(m, s)
         IN /\ s \notin hist.forgot => AskedRow(s, b)
            /\ s \in Stored => Named(s, b.from, b.insured)
<1> DEFINE b == Before(m, s)
<1>1. TypeOK /\ AskInv /\ ListedInv
  BY Zenon DEF IngestInv
<1>2. CASE Matches(m) = {}
  <2>1. s \notin Stored /\ b.insured = NoName
    BY Zenon, <1>2, Resolved
  <2>2. ~Asked(s)
    BY Zenon, <1>1, <2>1, ReplyRows DEF Asked
  <2> QED
    BY Zenon, <2>1, <2>2 DEF AskedRow
<1>3. CASE Matches(m) # {}
  <2>1. /\ s \in Stored /\ b.policy = subs[s].policy /\ b.from = subs[s].from
        /\ b.insured = subs[s].insured /\ b.hash = subs[s].hash
    BY Zenon, <1>3, Resolved
  <2>2. s \notin hist.forgot => AskedRow(s, subs[s])
    BY Zenon, <1>1, <2>1 DEF AskInv
  <2>3. Named(s, subs[s].from, subs[s].insured)
    BY Zenon, <1>1, <2>1 DEF ListedInv
  <2> HIDE DEF b
  <2>4. s \notin hist.forgot => AskedRow(s, b)
    BY Zenon, <2>1, <2>2 DEF AskedRow
  <2>5. Named(s, b.from, b.insured)
    BY Zenon, <2>1, <2>3
  <2> QED
    BY Zenon, <2>4, <2>5 DEF b
<1> QED
  BY Zenon, <1>2, <1>3

-----------------------------------------------------------------------------
(* The steps of the poller that write no table.                            *)

\* What is known of an ingest depends on the tables, the worker's copies and the
\* history only.
LEMMA JobStays ==
  ASSUME UNCHANGED tables, listed' = listed,
         hist'.stale = hist.stale, hist'.forgot = hist.forgot, NEW j
  PROVE  (SearchInv(j) => SearchInv(j)') /\ (TargetInv(j) => TargetInv(j)')
<1>1. subs' = subs /\ emails' = emails /\ docs' = docs /\ replies' = replies
  BY Zenon DEF tables
<1>2. /\ Stored' = Stored
      /\ \A t : DocsOf(t)' = DocsOf(t) /\ Owners(t)' = Owners(t)
  BY Zenon, <1>1 DEF Stored, DocsOf, Owners
<1>3. \A t, row : AskedRow(t, row)' <=> AskedRow(t, row)
  BY Zenon, <1>1 DEF AskedRow, Asked
<1>4. \A t, from, name : Named(t, from, name)' <=> Named(t, from, name)
  BY Zenon, <1>1 DEF Named
<1>5. \A m, S : Unsplit(m, S)' <=> Unsplit(m, S)
  BY Zenon, <1>1 DEF Unsplit
<1>6. \A m, t : SameThread(m, t)' <=> SameThread(m, t)
  BY Zenon, <1>1 DEF SameThread
<1>7. \A t : RowInv(j, t)' <=> RowInv(j, t)
  BY Zenon, <1>2, <1>3 DEF RowInv
<1>8. SearchInv(j) => SearchInv(j)'
  BY Zenon, <1>1, <1>2, <1>4, <1>5, <1>7 DEF SearchInv
<1>9. TargetInv(j) => TargetInv(j)'
  BY Zenon, <1>1, <1>2, <1>4, <1>6, <1>5, <1>7 DEF TargetInv
<1> QED
  BY Zenon, <1>8, <1>9

\* A split thread stays in the audit log where no message is filed and no entry
\* forgotten.
LEMMA SplitStays ==
  ASSUME SplitIsAudited, \A e \in emails' : e.id[1] = "mail" => e \in emails,
         audit \cup hist.lost \cup Unflushed \subseteq (audit \cup hist.lost \cup Unflushed)'
  PROVE  SplitIsAudited'
<1> SUFFICES ASSUME NEW answer \in emails', NEW asked \in emails',
                    answer.id[1] = "mail", asked.id[1] = "mail",
                    answer.irt = asked.mid, asked.mid # NoId, answer.sub # asked.sub
             PROVE  (audit \cup hist.lost \cup Unflushed)' \cap {answer.id[2], asked.id[2]} # {}
  BY Zenon DEF SplitIsAudited
<1>1. answer \in emails /\ asked \in emails
  BY Zenon
<1>2. (audit \cup hist.lost \cup Unflushed) \cap {answer.id[2], asked.id[2]} # {}
  BY Zenon, <1>1 DEF SplitIsAudited
<1>3. PICK x \in {answer.id[2], asked.id[2]} : x \in audit \cup hist.lost \cup Unflushed
  BY Zenon, <1>2
<1>4. x \in (audit \cup hist.lost \cup Unflushed)'
  BY Zenon, <1>3
<1> QED
  BY Zenon, <1>4

\* A step that writes no table keeps the invariant if it does of the ingest, and
\* no entry of the audit log is forgotten.
LEMMA PollerStep ==
  ASSUME IngestInv, UNCHANGED tables, listed' = listed, unread' \subseteq unread,
         audit' \subseteq Mails, job' \subseteq Jobs, \A j, k \in job' : j = k,
         hist' \in [stale : SUBSET Mails, forgot : SUBSET Mails, lost : SUBSET Mails],
         hist'.stale = hist.stale, hist'.forgot = hist.forgot,
         \A j \in job' : /\ j.pc \in {"find", "merge"} => SearchInv(j)
                         /\ j.pc = "commit" => TargetInv(j),
         audit \cup hist.lost \cup Unflushed \subseteq (audit \cup hist.lost \cup Unflushed)'
  PROVE  IngestInv'
<1>1. subs' = subs /\ emails' = emails /\ docs' = docs /\ replies' = replies
  BY Zenon DEF tables
<1>2. /\ Stored' = Stored
      /\ \A t : DocsOf(t)' = DocsOf(t) /\ Owners(t)' = Owners(t)
  BY Zenon, <1>1 DEF Stored, DocsOf, Owners
<1>3. TypeOK'
  BY Zenon, <1>1, <1>2 DEF IngestInv, TypeOK
<1>4. EmailInv'
  BY Zenon, <1>1, <1>2 DEF IngestInv, EmailInv
<1>5. AskInv'
  BY Zenon, <1>1, <1>2 DEF IngestInv, AskInv, AskedRow, Asked
<1>6. ListedInv'
  BY Zenon, <1>1, <1>2 DEF IngestInv, ListedInv, Named
<1>7. JobInv'
  BY Zenon, JobStays DEF JobInv
<1>8. MissingMatchesDocuments'
  BY Zenon, <1>1, <1>2 DEF IngestInv, MissingMatchesDocuments
<1>9. SplitIsAudited'
  BY Zenon, <1>1, SplitStays DEF IngestInv
<1> QED
  BY Zenon, <1>3, <1>4, <1>5, <1>6, <1>7, <1>8, <1>9 DEF IngestInv

\* The buffered entries are those of a committed ingest (auditCollector).
LEMMA InUnflushed ==
  /\ \A x : x \in Unflushed <=> \E k \in job : k.pc = "flush" /\ x \in Entry(k)
  /\ job = {} => Unflushed = {}
<1>1. \A x : x \in Unflushed <=> \E k \in job : k.pc = "flush" /\ x \in Entry(k)
  BY Zenon DEF Unflushed
<1> QED
  BY Zenon, <1>1

\* They name messages.
LEMMA EntryType ==
  ASSUME TypeOK, NEW j \in job
  PROVE  j \in Jobs /\ j.mail \in Mails /\ Entry(j) \subseteq Mails
<1>1. j \in Jobs
  BY Zenon DEF TypeOK
<1>2. j.mail \in Mails
  BY Zenon, <1>1, JobFields
<1> QED
  BY Zenon, <1>1, <1>2 DEF Entry

\* An email is ingested already, or nothing happens.
LEMMA DuplicateStep ==
  ASSUME IngestInv, unread' \subseteq unread,
         UNCHANGED <<tables, audit, job, listed, hist>>
  PROVE  IngestInv'
<1>1. UNCHANGED tables /\ audit' = audit /\ job' = job /\ listed' = listed /\ hist' = hist
  BY Zenon
<1>2. TypeOK /\ JobInv
  BY Zenon DEF IngestInv
<1>3. /\ audit' \subseteq Mails /\ job' \subseteq Jobs /\ \A j, k \in job' : j = k
      /\ hist' \in [stale : SUBSET Mails, forgot : SUBSET Mails, lost : SUBSET Mails]
  BY Zenon, <1>1, <1>2 DEF TypeOK
<1>4. \A j \in job' : /\ j.pc \in {"find", "merge"} => SearchInv(j)
                      /\ j.pc = "commit" => TargetInv(j)
  BY Zenon, <1>1, <1>2 DEF JobInv
<1>5. audit \cup hist.lost \cup Unflushed \subseteq (audit \cup hist.lost \cup Unflushed)'
  BY Zenon, <1>1 DEF Unflushed
<1> QED
  BY Zenon, <1>1, <1>3, <1>4, <1>5, PollerStep

\* The ingest goes on with k, before its commit.
LEMMA WorkStep ==
  ASSUME IngestInv, UNCHANGED <<unread, tables, audit, listed, hist>>,
         NEW k \in Jobs, job' = {k}, \A j \in job : j.pc # "flush",
         k.pc \in {"find", "merge"} => SearchInv(k),
         k.pc = "commit" => TargetInv(k)
  PROVE  IngestInv'
<1>1. UNCHANGED tables /\ unread' = unread /\ audit' = audit /\ listed' = listed /\ hist' = hist
  BY Zenon
<1>2. TypeOK
  BY Zenon DEF IngestInv
<1>3. /\ audit' \subseteq Mails /\ job' \subseteq Jobs /\ \A j, i \in job' : j = i
      /\ hist' \in [stale : SUBSET Mails, forgot : SUBSET Mails, lost : SUBSET Mails]
      /\ unread' \subseteq unread
  BY Zenon, <1>1, <1>2 DEF TypeOK
<1>4. Unflushed = {}
  BY Zenon, InUnflushed
<1>5. audit \cup hist.lost \cup Unflushed \subseteq (audit \cup hist.lost \cup Unflushed)'
  BY Zenon, <1>1, <1>4
<1>6. \A j \in job' : /\ j.pc \in {"find", "merge"} => SearchInv(j)
                      /\ j.pc = "commit" => TargetInv(j)
  BY Zenon
<1> QED
  BY Zenon, <1>1, <1>3, <1>5, <1>6, PollerStep

\* A bounce changes only flags of the row (persistBounce).
LEMMA BounceStep ==
  ASSUME IngestInv, NEW m \in Mails, NEW s, IngestBounce(m, s)
  PROVE  IngestInv'
<1> DEFINE b == Before(m, s)
           hard == Mail[m].kind = "bounce"
           row == [b EXCEPT !.bounced = @ \/ hard, !.review = @ \/ hard]
           k == Job(m, s, "commit", row, {}, FALSE)
<1>1. TypeOK /\ MissingMatchesDocuments
  BY Zenon DEF IngestInv
<1>2. Mail[m].kind \in bounceKinds /\ Load(m, s) /\ job' = {k}
  BY Zenon DEF IngestBounce
<1>3. /\ s \in Mails /\ b \in Submissions /\ b.state # "absent"
      /\ Matches(m) = {} => /\ s = m /\ s \notin Stored /\ Owners(m) = {}
                            /\ b.insured = NoName /\ b.state = "open"
      /\ Matches(m) # {} => /\ s \in Stored /\ b.state = subs[s].state
                            /\ b.policy = subs[s].policy /\ b.insured = subs[s].insured
                            /\ b.missing = subs[s].missing
  BY Zenon, <1>2, Resolved
<1>4. /\ s \notin hist.forgot => AskedRow(s, b)
      /\ s \in Stored => Named(s, b.from, b.insured)
  BY Zenon, <1>2, LoadedRow
<1>5. /\ Cardinality(Matches(m)) > 1 \/ Unsplit(m, {s})
      /\ s # m /\ Owners(m) = {} => SameThread(m, s)
  BY Zenon, <1>2, LoadedThread
<1> HIDE DEF b
<1>6. /\ row \in Submissions /\ row.state = b.state /\ row.policy = b.policy
      /\ row.from = b.from /\ row.insured = b.insured
      /\ row.missing = b.missing /\ row.hash = b.hash
  BY Zenon, <1>3 DEF Submissions
<1> HIDE DEF row
<1>7. /\ k \in Jobs /\ k.mail = m /\ k.sub = s /\ k.pc = "commit" /\ k.row = row /\ k.new = {}
      /\ ~k.checked /\ (k.many <=> Cardinality(Matches(m)) > 1)
  <2>1. row \in Rows /\ {} \in SUBSET Documents(Mails)
    BY Zenon, <1>3, <1>6 DEF Rows
  <2>2. (Cardinality(Matches(m)) > 1) \in BOOLEAN
    OBVIOUS
  <2> QED
    BY Zenon, <1>3, <2>1, <2>2 DEF Job, Jobs
<1> HIDE DEF k
<1>8. Outcome(k) = row
  BY Zenon, <1>2, <1>7 DEF Outcome
<1>9. s \notin hist.stale => RowRight(row, DocsOf(s))
  <2>1. CASE Matches(m) = {}
    <3>1. row.state = "open" /\ row.insured = NoName
      BY Zenon, <1>3, <1>6, <2>1
    <3> QED
      BY <3>1 DEF RowRight
  <2>2. CASE Matches(m) # {}
    <3>1. s \in Stored /\ row.state = subs[s].state /\ row.policy = subs[s].policy
          /\ row.insured = subs[s].insured /\ row.missing = subs[s].missing
      BY Zenon, <1>3, <1>6, <2>2
    <3>2. s \notin hist.stale => RowRight(subs[s], DocsOf(s))
      BY Zenon, <1>1, <3>1 DEF MissingMatchesDocuments
    <3> QED
      BY Zenon, <3>1, <3>2 DEF RowRight
  <2> QED
    BY Zenon, <2>1, <2>2
<1>10. s \notin hist.forgot => AskedRow(s, row)
  BY Zenon, <1>4, <1>6 DEF AskedRow
<1>11. RowInv(k, s)
  <2>1. DocsOf(s) \cup {} = DocsOf(s)
    BY Zenon
  <2> QED
    BY Zenon, <1>2, <1>7, <1>8, <1>9, <1>10, <2>1 DEF RowInv
<1>12. IF s \in Stored THEN Named(s, row.from, row.insured) ELSE s = m /\ Owners(m) = {}
  BY Zenon, <1>3, <1>4, <1>6
<1>13. TargetInv(k)
  BY Zenon, <1>5, <1>7, <1>11, <1>12 DEF TargetInv
<1> QED
  BY Zenon, <1>2, <1>7, <1>13, WorkStep DEF Load

\* What an ingest of m evaluates, and the documents it brings.
Evaluation(m, s, llm) == evaluate(Before(m, s), s, m, llm)

Brings(m, s, llm) ==
  IF Evaluation(m, s, llm).policy = Unknown THEN {}
  ELSE classifyAttachments(m, s, Evaluation(m, s, llm).policy, llm)

NamedRow(m, s, llm, name) == [Evaluation(m, s, llm) EXCEPT !.insured = name]

\* The row of an email that was evaluated and named is right, and remembers what
\* was asked for (evaluate, extractIdentity).
LEMMA EvaluatedRow ==
  ASSUME IngestInv, NEW m \in Mails, NEW s, Load(m, s), NEW llm,
         NEW name \in Names(Evaluation(m, s, llm), DocsOf(s) \cup Brings(m, s, llm))
  PROVE  LET row == NamedRow(m, s, llm, name)
             new == Brings(m, s, llm)
         IN /\ s \in Mails /\ row \in Rows /\ row.insured = name /\ row.from = Before(m, s).from
            /\ Before(m, s).insured \in {NoName, name}
            /\ new \in SUBSET Documents(Mails) /\ \A d \in new : d.sub = s
            /\ RowRight(Settled(row), DocsOf(s) \cup new)
            /\ s \notin hist.forgot => AskedRow(s, row)
            /\ row.policy = Unknown => row.missing = {PolicyUnknownItem}
            /\ Matches(m) = {} /\ name # NoName => SameAccount(m, row)
<1> DEFINE sub == Evaluation(m, s, llm)
           new == Brings(m, s, llm)
           row == NamedRow(m, s, llm, name)
<1>a. /\ sub = evaluate(Before(m, s), s, m, llm)
      /\ new = IF sub.policy = Unknown THEN {} ELSE classifyAttachments(m, s, sub.policy, llm)
      /\ name \in Names(sub, DocsOf(s) \cup new)
      /\ row = [sub EXCEPT !.insured = name]
  BY Zenon DEF Evaluation, Brings, NamedRow
<1> HIDE DEF sub, new, row
<1> DEFINE b == Before(m, s)
<1>1. TypeOK
  BY Zenon DEF IngestInv
<1>2. /\ s \in Mails /\ b \in Submissions /\ b.state # "absent"
      /\ Matches(m) = {} => /\ s = m /\ s \notin Stored
                            /\ b.insured = NoName /\ b.from = Mail[m].from
  BY Zenon, Resolved
<1>3. s \notin hist.forgot => AskedRow(s, b)
  BY Zenon, LoadedRow
<1> HIDE DEF b
<1>4. /\ sub \in Submissions /\ Keeps(b, sub) /\ sub.state = b.state
      /\ sub.insured = b.insured /\ sub.hash = b.hash
      /\ sub.policy = Unknown => sub.missing = {PolicyUnknownItem}
      /\ sub.policy # Unknown =>
           /\ sub.policy \in Lines
           /\ sub.missing = EvaluateChecklist(WithNew(s, m, sub.policy, llm), sub.policy)
  <2>1. sub = evaluate(b, s, m, llm)
    BY Zenon, <1>a DEF b
  <2> QED
    BY <1>2, <2>1, Evaluated
<1>5. ASSUME NEW d \in new
      PROVE  /\ d.sub = s /\ d \in Documents({s})
             /\ \E a \in Mail[m].atts : d.insured = a.insured
  <2>1. sub.policy \in Lines /\ d \in classifyAttachments(m, s, sub.policy, llm)
    BY Zenon, <1>a, <1>4, <1>5
  <2> QED
    BY <2>1, NewDocs
<1>6. sub.policy # Unknown => WithNew(s, m, sub.policy, llm) = DocsOf(s) \cup new
  BY Zenon, <1>a DEF WithNew
<1>7. new \in SUBSET Documents(Mails) /\ \A d \in new : d.sub = s
  <2>1. Documents({s}) \subseteq Documents(Mails)
    BY Zenon, <1>2, MoreDocuments
  <2> QED
    BY Zenon, <1>5, <2>1
<1>8. /\ \A d \in DocsOf(s) : d.sub = s /\ d.sub \in Stored
      /\ \A d \in DocsOf(s) \cup new : d.field \in Fields /\ d.insured \in Insureds
  <2>1. \A d \in docs : d \in Documents(Stored)
    BY Zenon, <1>1 DEF TypeOK
  <2> QED
    BY Zenon, <1>7, <2>1, DocumentFields DEF DocsOf
<1>9. /\ name \in Insureds
      /\ sub.insured # NoName => name = sub.insured
      /\ sub.insured = NoName /\ name # NoName => sub.policy # Unknown
      /\ Matches(m) = {} /\ name # NoName => \E a \in Mail[m].atts : a.insured = name
  <2>1. \/ sub.insured # NoName /\ name = sub.insured
        \/ sub.insured = NoName /\ name = NoName
        \/ /\ sub.insured = NoName /\ sub.policy # Unknown
           /\ \E d \in DocsOf(s) \cup new : name = d.insured
    BY Zenon, <1>a DEF Names
  <2>2. NoName \in Insureds /\ sub.insured \in Insureds
    BY Zenon, <1>4 DEF Insureds, Submissions
  <2>3. Matches(m) = {} => DocsOf(s) = {} /\ sub.insured = NoName
    BY Zenon, <1>2, <1>4, <1>8
  <2>4. name \in Insureds
    BY Zenon, <1>8, <2>1, <2>2
  <2>5. Matches(m) = {} /\ name # NoName => \E a \in Mail[m].atts : a.insured = name
    BY Zenon, <1>5, <2>1, <2>3
  <2> QED
    BY Zenon, <2>1, <2>4, <2>5
<1>10. /\ row \in Submissions /\ row.from = sub.from /\ row.insured = name
       /\ row.policy = sub.policy /\ row.missing = sub.missing /\ row.hash = sub.hash
       /\ row.state = sub.state
  BY Zenon, <1>a, <1>4, <1>9 DEF Submissions
<1>11. row \in Rows
  BY Zenon, <1>2, <1>4, <1>10 DEF Rows
<1>12. RowRight(Settled(row), DocsOf(s) \cup new)
  BY Zenon, <1>4, <1>6, <1>8, <1>10, SettledRight
<1>13. s \notin hist.forgot => AskedRow(s, row)
  <2>1. b.policy # Unknown => row.policy # Unknown
    BY Zenon, <1>4, <1>10 DEF Keeps
  <2>2. row.hash = b.hash /\ (row.insured # NoName /\ b.insured = NoName => row.policy # Unknown)
    BY Zenon, <1>4, <1>9, <1>10
  <2> QED
    BY Zenon, <1>3, <2>1, <2>2 DEF AskedRow
<1>14. row.from = b.from /\ b.insured \in {NoName, name}
  BY Zenon, <1>4, <1>9, <1>10 DEF Keeps
<1>15. Matches(m) = {} /\ name # NoName => SameAccount(m, row)
  BY Zenon, <1>2, <1>9, <1>10, <1>14 DEF SameAccount
<1> QED
  BY Zenon, <1>2, <1>4, <1>7, <1>10, <1>11, <1>12, <1>13, <1>14, <1>15 DEF b, sub, new, row

\* An email is evaluated into the submission its headers lead to
\* (ingestEmailInner).
LEMMA EmailStep ==
  ASSUME IngestInv, NEW m \in Mails, NEW s, IngestEmail(m, s)
  PROVE  IngestInv'
<1> DEFINE Pc(name) == IF Matches(m) = {} /\ name # NoName THEN "find" ELSE "commit"
           K(llm, name) == Job(m, s, Pc(name), NamedRow(m, s, llm, name), Brings(m, s, llm), TRUE)
<1>1. Mail[m].kind \notin bounceKinds /\ Load(m, s)
  BY Zenon DEF IngestEmail
<1>2. PICK llm \in BOOLEAN :
        \E name \in Names(Evaluation(m, s, llm), DocsOf(s) \cup Brings(m, s, llm)) :
          job' = {K(llm, name)}
  BY Zenon DEF IngestEmail, Evaluation, Brings, NamedRow
<1>3. PICK name \in Names(Evaluation(m, s, llm), DocsOf(s) \cup Brings(m, s, llm)) :
        job' = {K(llm, name)}
  BY Zenon, <1>2
<1> DEFINE row == NamedRow(m, s, llm, name)
           new == Brings(m, s, llm)
           pc == Pc(name)
           k == K(llm, name)
<1>4. /\ s \in Mails /\ row \in Rows /\ row.insured = name /\ row.from = Before(m, s).from
      /\ Before(m, s).insured \in {NoName, name}
      /\ new \in SUBSET Documents(Mails) /\ \A d \in new : d.sub = s
      /\ RowRight(Settled(row), DocsOf(s) \cup new)
      /\ s \notin hist.forgot => AskedRow(s, row)
      /\ row.policy = Unknown => row.missing = {PolicyUnknownItem}
      /\ Matches(m) = {} /\ name # NoName => SameAccount(m, row)
  BY Zenon, <1>1, <1>3, EvaluatedRow
<1>5. pc = (IF Matches(m) = {} /\ name # NoName THEN "find" ELSE "commit")
      /\ job' = {k} /\ k = Job(m, s, pc, row, new, TRUE)
  BY Zenon, <1>3
<1> HIDE DEF row, new, pc, k
<1>6. /\ k \in Jobs /\ k.mail = m /\ k.sub = s /\ k.pc = pc /\ k.row = row /\ k.new = new
      /\ k.checked /\ (k.many <=> Cardinality(Matches(m)) > 1)
  <2>1. pc \in {"find", "merge", "commit", "flush"}
    BY Zenon, <1>5
  <2>2. (Cardinality(Matches(m)) > 1) \in BOOLEAN
    OBVIOUS
  <2> QED
    BY Zenon, <1>4, <1>5, <2>1, <2>2 DEF Job, Jobs
<1>7. /\ Matches(m) = {} => s = m /\ s \notin Stored /\ Owners(m) = {}
      /\ Matches(m) # {} => s \in Stored
  BY Zenon, <1>1, Resolved
<1>8. s \in Stored => Named(s, row.from, row.insured)
  <2>1. s \in Stored => Named(s, Before(m, s).from, Before(m, s).insured)
    BY Zenon, <1>1, LoadedRow
  <2> QED
    BY Zenon, <1>4, <2>1 DEF Named
<1>9. /\ Cardinality(Matches(m)) > 1 \/ Unsplit(m, {s})
      /\ Matches(m) = {} => Unsplit(m, {})
      /\ s # m /\ Owners(m) = {} => SameThread(m, s)
  BY Zenon, <1>1, LoadedThread
<1>10. RowInv(k, s)
  <2>1. Outcome(k) = Settled(row)
    BY Zenon, <1>1, <1>6 DEF Outcome
  <2> QED
    BY Zenon, <1>4, <1>6, <2>1 DEF RowInv
<1>11. k.pc \in {"find", "merge"} => SearchInv(k)
  <2>1. k.pc \in {"find", "merge"} => Matches(m) = {} /\ name # NoName /\ k.pc = "find"
    BY <1>5, <1>6
  <2>2. "find" # "merge"
    OBVIOUS
  <2> QED
    BY Zenon, <1>1, <1>4, <1>6, <1>7, <1>9, <1>10, <2>1, <2>2 DEF SearchInv
<1>12. k.pc = "commit" => TargetInv(k)
  <2>1. IF s \in Stored THEN Named(s, row.from, row.insured) ELSE s = m /\ Owners(m) = {}
    BY Zenon, <1>7, <1>8
  <2> QED
    BY Zenon, <1>6, <1>9, <1>10, <2>1 DEF TargetInv
<1> QED
  BY Zenon, <1>1, <1>5, <1>6, <1>11, <1>12, WorkStep DEF Load

\* What would be committed depends on the row and the documents only.
LEMMA SameRow ==
  ASSUME NEW j, NEW k, NEW s, RowInv(j, s), k.mail = j.mail, k.row = j.row,
         k.new = j.new, k.checked = j.checked
  PROVE  RowInv(k, s)
<1>1. Outcome(k) = Outcome(j)
  BY Zenon DEF Outcome
<1> QED
  BY Zenon, <1>1 DEF RowInv

\* The one ingest in progress.
LEMMA OneJob ==
  ASSUME IngestInv, NEW j \in job
  PROVE  /\ j \in Jobs /\ TypeOK /\ \A k \in job : k = j
         /\ j.pc \in {"find", "merge"} => SearchInv(j)
         /\ j.pc = "commit" => TargetInv(j)
  BY Zenon DEF IngestInv, TypeOK, JobInv

\* No submission continues: the email creates its own (resolveSubmission).
LEMMA Unmatched ==
  ASSUME IngestInv, NEW j \in job, j.pc \in {"find", "merge"},
         NEW k \in Jobs, k.pc = "commit", k.sub = j.mail, k.mail = j.mail, k.row = j.row,
         k.new = j.new, k.checked = j.checked
  PROVE  TargetInv(k)
<1>1. SearchInv(j) /\ EmailInv
  BY Zenon, OneJob DEF IngestInv
<1>2. /\ RowInv(j, j.mail) /\ Owners(j.mail) = {} /\ Unsplit(j.mail, {})
  BY Zenon, <1>1 DEF SearchInv
<1>3. j.mail \notin Stored
  BY Zenon, <1>1, <1>2 DEF EmailInv
<1>4. RowInv(k, k.sub)
  BY Zenon, <1>2, SameRow
<1>5. Unsplit(j.mail, {j.mail})
  BY Zenon, <1>2 DEF Unsplit
<1> QED
  BY Zenon, <1>2, <1>3, <1>4, <1>5 DEF TargetInv

\* The first query finds a submission of the same sender and account, or none.
LEMMA FindStep ==
  ASSUME IngestInv, NEW j \in job, FindMatch(j)
  PROVE  IngestInv'
<1>1. /\ j \in Jobs /\ TypeOK /\ \A k \in job : k = j
      /\ j.pc = "find" /\ SearchInv(j) /\ ListedInv
  BY Zenon, OneJob DEF FindMatch, IngestInv
<1>2. j.sub = j.mail
  BY Zenon, <1>1 DEF SearchInv
<1>3. PICK cutoff \in {1, Cardinality(Stored) + 1} :
        job' = {IF FindContentMatch(j.row, cutoff) = {} THEN [j EXCEPT !.pc = "commit"]
                ELSE [j EXCEPT !.pc = "merge", !.sub = Latest(FindContentMatch(j.row, cutoff))]}
  BY Zenon DEF FindMatch
<1> DEFINE T == FindContentMatch(j.row, cutoff)
           t == Latest(T)
<1>4. UNCHANGED <<unread, tables, audit, listed, hist>> /\ \A i \in job : i.pc # "flush"
  <2>1. "find" # "flush"
    OBVIOUS
  <2> QED
    BY Zenon, <1>1, <2>1 DEF FindMatch
<1>5. CASE T = {}
  <2> DEFINE k == [j EXCEPT !.pc = "commit"]
  <2>1. job' = {k}
    BY Zenon, <1>3, <1>5
  <2>2. /\ k \in Jobs /\ k.pc = "commit" /\ k.sub = j.sub /\ k.mail = j.mail /\ k.row = j.row
        /\ k.new = j.new /\ k.checked = j.checked
    BY Zenon, <1>1 DEF Jobs
  <2> HIDE DEF k
  <2>3. TargetInv(k)
    BY Zenon, <1>1, <1>2, <2>2, Unmatched
  <2>4. k.pc \notin {"find", "merge"}
    BY <2>2
  <2> QED
    BY Zenon, <1>4, <2>1, <2>2, <2>3, <2>4, WorkStep
<1>6. CASE T # {}
  <2> DEFINE k == [j EXCEPT !.pc = "merge", !.sub = t]
  <2>1. job' = {k}
    BY Zenon, <1>3, <1>6
  <2>2. T \subseteq Stored /\ Stored \subseteq Mails
    BY Zenon DEF FindContentMatch, Stored
  <2>3. t \in T
    BY Zenon, <1>1, <1>6, <2>2, LatestIsMatch
  <2>4. /\ t \in Stored /\ t \in Mails /\ j.row.insured # NoName
        /\ subs[t].insured = j.row.insured /\ subs[t].from = j.row.from
    BY Zenon, <2>2, <2>3 DEF FindContentMatch
  <2> HIDE DEF T, t
  <2>5. /\ k \in Jobs /\ k.pc = "merge" /\ k.sub = t /\ k.mail = j.mail /\ k.row = j.row
        /\ k.new = j.new /\ k.checked = j.checked
    BY Zenon, <1>1, <2>4 DEF Jobs
  <2> HIDE DEF k
  <2>6. RowInv(k, k.mail)
    <3>1. RowInv(j, j.mail)
      BY Zenon, <1>1 DEF SearchInv
    <3> QED
      BY Zenon, <2>5, <3>1, SameRow
  <2>7. Named(t, j.row.from, j.row.insured)
    BY Zenon, <1>1, <2>4 DEF ListedInv
  <2>8. k.pc # "find" /\ k.pc # "commit"
    BY <2>5
  <2>9. SearchInv(k)
    BY Zenon, <1>1, <2>4, <2>5, <2>6, <2>7, <2>8 DEF SearchInv
  <2> QED
    BY Zenon, <1>4, <2>1, <2>5, <2>8, <2>9, WorkStep
<1> QED
  BY Zenon, <1>5, <1>6

\* The row contentMatch reads is that of the submission it found, which may have
\* lost its named insured to an older copy meanwhile.
LEMMA MergedRow ==
  ASSUME IngestInv, NEW j \in job, j.pc = "merge", NEW row,
         row = contentMatch(j.sub, j.row.insured, j.new)
  PROVE  /\ row \in Rows /\ row.from = j.row.from /\ row.insured = j.row.insured
         /\ row.policy = subs[j.sub].policy
         /\ row.policy # Unknown =>
              row.missing = EvaluateChecklist(DocsOf(j.sub) \cup Moved(j.new, j.sub), row.policy)
         /\ row.policy = Unknown => row.missing = subs[j.sub].missing
<1> DEFINE t == j.sub
           E == EvaluateChecklist(DocsOf(t) \cup Moved(j.new, t), subs[t].policy)
<1>1. j \in Jobs /\ TypeOK /\ SearchInv(j)
  BY Zenon, OneJob
<1>2. /\ t \in Stored /\ subs[t].from = j.row.from
      /\ subs[t].insured \in {NoName, j.row.insured}
  BY Zenon, <1>1 DEF SearchInv, Named
<1>3. subs[t] \in Submissions /\ subs[t].state # "absent" /\ j.row \in Submissions
  BY Zenon, <1>1, <1>2, JobFields DEF TypeOK, Stored
<1>4. j.row.insured \in Insureds /\ subs[t].policy \in Lines \cup {Unknown}
  BY Zenon, <1>3 DEF Submissions
<1>5. subs[t].policy # Unknown => E \in SUBSET Gaps
  BY Zenon, <1>4, ChecklistType
<1> DEFINE name == IF subs[t].insured = NoName THEN j.row.insured ELSE subs[t].insured
           gaps == IF subs[t].policy = Unknown THEN subs[t].missing ELSE E
<1>6. row = [subs[t] EXCEPT !.insured = name, !.missing = gaps]
  BY Zenon DEF contentMatch
<1>7. name = j.row.insured
  BY Zenon, <1>2
<1>8. gaps \in SUBSET Gaps
  BY Zenon, <1>3, <1>5 DEF Submissions
<1>9. (subs[t].policy # Unknown => gaps = E) /\ (subs[t].policy = Unknown => gaps = subs[t].missing)
  BY Zenon
<1> HIDE DEF name, gaps, E
<1>10. /\ row \in Submissions /\ row.state = subs[t].state /\ row.from = subs[t].from
       /\ row.insured = name /\ row.policy = subs[t].policy /\ row.missing = gaps
  BY Zenon, <1>3, <1>4, <1>6, <1>7, <1>8 DEF Submissions
<1> HIDE DEF t
<1>11. row \in Rows
  BY Zenon, <1>3, <1>10 DEF Rows
<1> QED
  BY Zenon, <1>2, <1>7, <1>9, <1>10, <1>11 DEF t, E

\* The merged row says what the documents say.  A row without a line of business
\* is not evaluated again; it is right if no older copy replaced it.
LEMMA MergedRight ==
  ASSUME IngestInv, NEW j \in job, j.pc = "merge", NEW row,
         row = contentMatch(j.sub, j.row.insured, j.new),
         row.policy # Unknown \/ j.sub \notin hist.stale
  PROVE  RowRight(Settled(row), DocsOf(j.sub) \cup Moved(j.new, j.sub))
<1> DEFINE D == DocsOf(j.sub) \cup Moved(j.new, j.sub)
<1>1. j \in Jobs /\ TypeOK /\ SearchInv(j) /\ MissingMatchesDocuments
  BY Zenon, OneJob DEF IngestInv
<1>2. /\ row \in Rows /\ row.policy = subs[j.sub].policy
      /\ row.policy # Unknown => row.missing = EvaluateChecklist(D, row.policy)
      /\ row.policy = Unknown => row.missing = subs[j.sub].missing
  BY Zenon, MergedRow
<1>3. row \in Submissions
  BY Zenon, <1>2 DEF Rows
<1>4. \A d \in D : d.field \in Fields
  <2>1. \A d \in docs : d \in Documents(Stored)
    BY Zenon, <1>1 DEF TypeOK
  <2>2. j.new \in SUBSET Documents(Mails)
    BY Zenon, <1>1, JobFields
  <2>3. ASSUME NEW d \in Moved(j.new, j.sub) PROVE d \in Documents({j.sub})
    BY Zenon, <2>2, <2>3, MovedDocs
  <2> QED
    BY Zenon, <2>1, <2>3, DocumentFields DEF DocsOf
<1> HIDE DEF D
<1>5. CASE row.policy # Unknown
  <2>1. RowRight(Settled(row), D)
    BY Zenon, <1>2, <1>3, <1>4, <1>5, SettledRight
  <2> QED
    BY Zenon, <2>1 DEF D
<1>6. CASE row.policy = Unknown
  <2>1. j.sub \in Stored \ hist.stale /\ subs[j.sub].insured # NoName
    BY Zenon, <1>1, <1>6 DEF SearchInv
  <2>2. RowRight(subs[j.sub], DocsOf(j.sub))
    BY Zenon, <1>1, <2>1 DEF MissingMatchesDocuments
  <2>3. ItemsOf(row.missing) = {PolicyUnknownItem[1]}
    BY Zenon, <1>2, <1>6, <2>1, <2>2, RightIs
  <2>4. /\ Settled(row).missing = row.missing /\ Settled(row).policy = Unknown
        /\ Settled(row).state = IF row.missing = {} THEN "complete" ELSE "awaiting"
    BY Zenon, <1>3, <1>6, SettledFacts
  <2>5. RowRight(Settled(row), D)
    BY Zenon, <2>3, <2>4, RightIs
  <2> QED
    BY Zenon, <2>5 DEF D
<1> QED
  BY Zenon, <1>5, <1>6

\* The second query, and the documents move to the submission that was found.
LEMMA MergeStep ==
  ASSUME IngestInv, NEW j \in job, Merge(j)
  PROVE  IngestInv'
<1> DEFINE t == j.sub
           row == contentMatch(t, j.row.insured, j.new)
           new == Moved(j.new, t)
           checked == row.policy # Unknown
           k == [j EXCEPT !.pc = "commit", !.row = row, !.new = new, !.checked = checked]
<1>1. /\ j \in Jobs /\ TypeOK /\ \A i \in job : i = j
      /\ j.pc = "merge" /\ SearchInv(j) /\ AskInv
  BY Zenon, OneJob DEF Merge, IngestInv
<1>2. job' = {k} /\ UNCHANGED <<unread, tables, audit, listed, hist>>
  BY Zenon, <1>1 DEF Merge, Jobs
<1>3. /\ row \in Rows /\ row.from = j.row.from /\ row.insured = j.row.insured
      /\ row.policy = subs[t].policy
  BY Zenon, <1>1, MergedRow
<1>4. checked \/ t \notin hist.stale => RowRight(Settled(row), DocsOf(t) \cup new)
  BY Zenon, <1>1, MergedRight
<1>5. /\ RowInv(j, j.mail) /\ Mail[j.mail].kind \notin bounceKinds /\ Owners(j.mail) = {}
      /\ Unsplit(j.mail, {}) /\ SameAccount(j.mail, j.row) /\ t \in Stored
      /\ Named(t, j.row.from, j.row.insured)
      /\ t \notin hist.stale => subs[t].insured # NoName
  BY Zenon, <1>1 DEF SearchInv
<1>6. j.new \in SUBSET Documents(Mails) /\ t \in Mails
  BY Zenon, <1>1, JobFields
<1>7. \A d \in new : d.sub = t /\ d \in Documents({t})
  <2> HIDE DEF t
  <2> QED
    BY Zenon, <1>6, MovedDocs
<1>8. new \in SUBSET Documents(Mails)
  <2>1. Documents({t}) \subseteq Documents(Mails)
    BY Zenon, <1>6, MoreDocuments
  <2> QED
    BY Zenon, <1>7, <2>1
<1>9. checked \in BOOLEAN /\ (checked <=> row.policy # Unknown)
  OBVIOUS
<1> HIDE DEF row, new, checked
<1>10. /\ k \in Jobs /\ k.pc = "commit" /\ k.sub = t /\ k.mail = j.mail /\ k.row = row
       /\ k.new = new /\ k.checked = checked
  BY Zenon, <1>1, <1>3, <1>8, <1>9 DEF Jobs
<1> HIDE DEF k, t
<1>11. t \notin hist.forgot => AskedRow(t, row) /\ row.policy # Unknown
  <2>1. t \notin hist.forgot => t \notin hist.stale /\ AskedRow(t, subs[t])
    BY Zenon, <1>1, <1>5 DEF AskInv
  <2> QED
    BY Zenon, <1>3, <1>5, <2>1 DEF AskedRow
<1>12. RowInv(k, t)
  <2>1. Outcome(k) = Settled(row)
    BY Zenon, <1>5, <1>10 DEF Outcome
  <2> QED
    BY Zenon, <1>4, <1>7, <1>10, <1>11, <2>1 DEF RowInv
<1>13. SameAccount(j.mail, row) /\ Unsplit(j.mail, {t}) /\ Named(t, row.from, row.insured)
  BY Zenon, <1>3, <1>5 DEF SameAccount, Unsplit
<1>14. TargetInv(k)
  BY Zenon, <1>5, <1>10, <1>12, <1>13 DEF TargetInv
<1>15. k.pc \notin {"find", "merge"} /\ j.pc # "flush"
  BY <1>1, <1>10
<1> QED
  BY Zenon, <1>1, <1>2, <1>10, <1>14, <1>15, WorkStep

\* A content match that fails is no match (contentMatch).
LEMMA MergeFailsStep ==
  ASSUME IngestInv, NEW j \in job, MergeFails(j)
  PROVE  IngestInv'
<1> DEFINE k == [j EXCEPT !.pc = "commit", !.sub = j.mail]
<1>1. j \in Jobs /\ j.pc = "merge" /\ \A i \in job : i = j
  BY Zenon, OneJob DEF MergeFails
<1>2. job' = {k} /\ UNCHANGED <<unread, tables, audit, listed, hist>>
  BY Zenon DEF MergeFails
<1>3. /\ k \in Jobs /\ k.pc = "commit" /\ k.sub = j.mail /\ k.mail = j.mail /\ k.row = j.row
      /\ k.new = j.new /\ k.checked = j.checked
  BY Zenon, <1>1 DEF Jobs
<1> HIDE DEF k
<1>4. TargetInv(k)
  BY Zenon, <1>1, <1>3, Unmatched
<1>5. k.pc \notin {"find", "merge"} /\ j.pc # "flush"
  BY <1>1, <1>3
<1> QED
  BY Zenon, <1>1, <1>2, <1>3, <1>4, <1>5, WorkStep

\* An ingest ends: its entries are in the log, or nothing was committed, or they
\* are lost (flushAudit).
LEMMA EndStep ==
  ASSUME IngestInv, NEW j \in job, IngestFails(j) \/ Flush(j) \/ FlushFails(j)
  PROVE  IngestInv'
<1>1. TypeOK /\ (\A i \in job : i = j) /\ Entry(j) \subseteq Mails
  BY Zenon, OneJob, EntryType
<1>2. /\ job' = {} /\ UNCHANGED tables /\ listed' = listed /\ unread' \subseteq unread
      /\ audit' \in {audit, audit \cup Entry(j)}
      /\ hist' \in {hist, [hist EXCEPT !.lost = @ \cup Entry(j)]}
      /\ j.pc = "flush" => \/ audit' = audit \cup Entry(j)
                            \/ hist' = [hist EXCEPT !.lost = @ \cup Entry(j)]
  BY Zenon DEF IngestFails, Flush, FlushFails, MarkRead
<1>3. hist \in [stale : SUBSET Mails, forgot : SUBSET Mails, lost : SUBSET Mails]
  BY Zenon, <1>1 DEF TypeOK
<1>4. hist.lost \cup Entry(j) \in SUBSET Mails
  BY Zenon, <1>1, <1>3
<1>5. /\ hist' \in [stale : SUBSET Mails, forgot : SUBSET Mails, lost : SUBSET Mails]
      /\ hist'.stale = hist.stale /\ hist'.forgot = hist.forgot
      /\ hist.lost \subseteq hist'.lost
      /\ hist' = [hist EXCEPT !.lost = @ \cup Entry(j)] => Entry(j) \subseteq hist'.lost
  BY Zenon, <1>2, <1>3, <1>4
<1>6. \A x \in Unflushed : j.pc = "flush" /\ x \in Entry(j)
  BY Zenon, <1>1, InUnflushed
<1>7. audit \cup hist.lost \cup Unflushed \subseteq (audit \cup hist.lost \cup Unflushed)'
  <2>1. \A x \in Unflushed : x \in audit' \cup hist'.lost
    BY Zenon, <1>2, <1>5, <1>6
  <2>2. audit \subseteq audit'
    BY Zenon, <1>2
  <2> QED
    BY Zenon, <1>5, <2>1, <2>2
<1>8. /\ audit' \subseteq Mails /\ job' \subseteq Jobs /\ \A i, k \in job' : i = k
      /\ \A i \in job' : /\ i.pc \in {"find", "merge"} => SearchInv(i)
                         /\ i.pc = "commit" => TargetInv(i)
  <2>1. audit \subseteq Mails
    BY Zenon, <1>1 DEF TypeOK
  <2> QED
    BY Zenon, <1>1, <1>2, <2>1
<1> QED
  BY Zenon, <1>2, <1>5, <1>7, <1>8, PollerStep

-----------------------------------------------------------------------------
(* The commit.                                                             *)

\* A submission is inserted or replaced; the others stay as they are.
LEMMA StoredAfter ==
  ASSUME TypeOK, NEW s \in Mails, NEW f \in Submissions, f.state # "absent",
         subs' = [subs EXCEPT ![s] = f]
  PROVE  /\ Stored' = Stored \cup {s} /\ subs' \in [Mails -> Submissions]
         /\ subs'[s] = f /\ \A t \in Mails \ {s} : subs'[t] = subs[t]
<1>1. subs \in [Mails -> Submissions]
  BY Zenon DEF TypeOK
<1>2. /\ subs' \in [Mails -> Submissions]
      /\ subs'[s] = f /\ \A t \in Mails \ {s} : subs'[t] = subs[t]
  BY Zenon, <1>1
<1>3. Stored' = {t \in Mails : subs'[t].state # "absent"}
  BY Zenon DEF Stored
<1>4. Stored' = Stored \cup {s}
  BY Zenon, <1>2, <1>3 DEF Stored
<1> QED
  BY Zenon, <1>2, <1>4

\* The row of the email that is ingested, and those that were there (upsertEmailRow).
LEMMA RecordedRows ==
  ASSUME NEW m \in Mails, NEW s
  PROVE  /\ emails \subseteq Recorded(m, s)
         /\ \A e \in Recorded(m, s) \ emails :
              /\ Owners(m) = {} /\ e.id = Inbound(m) /\ e.sub = s
              /\ e.mid = Mail[m].mid /\ e.irt = Mail[m].irt
         /\ \E e \in Recorded(m, s) : e.id = Inbound(m)
<1> DEFINE row == [id |-> Inbound(m), sub |-> s, mid |-> Mail[m].mid, irt |-> Mail[m].irt]
<1>1. /\ row.id = Inbound(m) /\ row.sub = s
      /\ row.mid = Mail[m].mid /\ row.irt = Mail[m].irt
  BY Zenon
<1>2. \/ Owners(m) # {} /\ Recorded(m, s) = emails
      \/ Owners(m) = {} /\ Recorded(m, s) = emails \cup {row}
  BY Zenon DEF Recorded
<1>3. Owners(m) # {} => \E e \in emails : e.id = Inbound(m)
  BY Zenon DEF Owners
<1> HIDE DEF row
<1> QED
  BY Zenon, <1>1, <1>2, <1>3

\* Two message ids are one only if the messages are.
LEMMA InboundIds ==
  /\ \A m, n : Inbound(m) = Inbound(n) => m = n
  /\ \A m, s, r : Inbound(m) # Outbound(s, r)
  /\ \A m : Inbound(m)[1] = "mail" /\ Inbound(m)[2] = m
  /\ \A s, r : Outbound(s, r)[1] = "reply"
<1>1. \A m, n : Inbound(m) = Inbound(n) => m = n
  BY Zenon DEF Inbound
<1>2. \A m : Inbound(m)[1] = "mail" /\ Inbound(m)[2] = m
  BY DEF Inbound
<1>3. \A s, r : Outbound(s, r)[1] = "reply"
  BY DEF Outbound
<1>4. \A m, s, r : Inbound(m) # Outbound(s, r)
  BY <1>2, <1>3
<1> QED
  BY Zenon, <1>1, <1>2, <1>3, <1>4

\* buildReply asks for the line of business exactly if it is not known.
LEMMA ReplyFacts ==
  ASSUME NEW sub \in Submissions, NEW m
  PROVE  /\ buildReply(sub, m) \in Asks
         /\ sub.policy = Unknown =>
              buildReply(sub, m) \in {NoReply, ReplyFingerprint("policy_unknown", sub.missing)}
         /\ sub.policy # Unknown => buildReply(sub, m)[1] # "policy_unknown"
<1> DEFINE broker == BrokerActionable(sub.missing)
           attach == {<<"attachment", "missing_attachment">>}
<1>1. sub.missing \in SUBSET Gaps
  BY Zenon DEF Submissions
<1>2. broker \in SUBSET Gaps /\ attach \in SUBSET Gaps /\ {} \in SUBSET Gaps
  BY Zenon, <1>1 DEF BrokerActionable, Gaps
<1>3. CASE sub.policy = Unknown
  <2>1. buildReply(sub, m) \in {NoReply, ReplyFingerprint("policy_unknown", sub.missing)}
    BY Zenon, <1>3 DEF buildReply
  <2>2. NoReply \in Asks /\ ReplyFingerprint("policy_unknown", sub.missing) \in Asks
    BY Zenon, <1>1, <1>2 DEF NoReply, Asks, ReplyFingerprint
  <2> QED
    BY Zenon, <1>3, <2>1, <2>2
<1>4. CASE sub.policy # Unknown
  <2>1. buildReply(sub, m) \in {NoReply, ReplyFingerprint("completion", {}),
                                ReplyFingerprint("missing_items", attach),
                                ReplyFingerprint("missing_items", broker)}
    BY <1>4 DEF buildReply
  <2> HIDE DEF attach, broker
  <2>2. /\ NoReply \in Asks /\ ReplyFingerprint("completion", {}) \in Asks
        /\ ReplyFingerprint("missing_items", attach) \in Asks
        /\ ReplyFingerprint("missing_items", broker) \in Asks
    BY Zenon, <1>2 DEF NoReply, Asks, ReplyFingerprint
  <2>3. /\ NoReply[1] = "none" /\ ReplyFingerprint("completion", {})[1] = "completion"
        /\ ReplyFingerprint("missing_items", attach)[1] = "missing_items"
        /\ ReplyFingerprint("missing_items", broker)[1] = "missing_items"
    BY DEF NoReply, ReplyFingerprint
  <2>4. buildReply(sub, m) \in Asks
    BY Zenon, <2>1, <2>2
  <2>5. buildReply(sub, m)[1] \in {"none", "completion", "missing_items"}
    BY Zenon, <2>1, <2>3
  <2> QED
    BY Zenon, <1>4, <2>4, <2>5
<1> QED
  BY Zenon, <1>3, <1>4

\* The row that is committed is that of the ingest, with the fingerprint of the
\* reply that is queued (UpsertSubmissionWithReply).
LEMMA CommitRow ==
  ASSUME IngestInv, NEW j \in job, Commit(j)
  PROVE  LET s == j.sub
             f == subs'[s]
             sub == Outcome(j)
             ask == buildReply(sub, j.mail)
         IN /\ j \in Jobs /\ TypeOK /\ TargetInv(j) /\ \A i \in job : i = j
            /\ s \in Mails /\ j.mail \in Mails /\ sub \in Submissions
            /\ f \in Submissions /\ f.state = sub.state /\ f.policy = j.row.policy
            /\ f.from = j.row.from /\ f.insured = j.row.insured /\ f.missing = sub.missing
            /\ f.hash = IF Answers(sub, j.mail) THEN ask ELSE j.row.hash
            /\ Stored' = Stored \cup {s} /\ subs' \in [Mails -> Submissions]
            /\ \A t \in Mails \ {s} : subs'[t] = subs[t]
<1> DEFINE s == j.sub
           sub == Outcome(j)
           ask == buildReply(sub, j.mail)
           f == IF Answers(sub, j.mail) THEN [sub EXCEPT !.hash = ask] ELSE sub
<1>1. j \in Jobs /\ TypeOK /\ TargetInv(j) /\ \A i \in job : i = j
  BY Zenon, OneJob DEF Commit
<1>2. s \in Mails /\ j.mail \in Mails
  BY Zenon, <1>1, JobFields
<1>3. /\ sub \in Submissions /\ sub.state # "absent"
      /\ sub.policy = j.row.policy /\ sub.from = j.row.from /\ sub.insured = j.row.insured
      /\ sub.hash = j.row.hash
  BY Zenon, <1>1, OutcomeFacts
<1>4. subs' = [subs EXCEPT ![s] = f]
  BY Zenon DEF Commit
<1> HIDE DEF s, sub
<1>5. ask \in Asks
  BY Zenon, <1>3, ReplyFacts
<1> HIDE DEF ask
<1>6. /\ f \in Submissions /\ f.state = sub.state /\ f.policy = sub.policy
      /\ f.from = sub.from /\ f.insured = sub.insured /\ f.missing = sub.missing
      /\ f.hash = IF Answers(sub, j.mail) THEN ask ELSE sub.hash
  BY Zenon, <1>3, <1>5 DEF Submissions
<1> HIDE DEF f
<1>7. /\ Stored' = Stored \cup {s} /\ subs' \in [Mails -> Submissions]
      /\ subs'[s] = f /\ \A t \in Mails \ {s} : subs'[t] = subs[t]
  BY Zenon, <1>1, <1>2, <1>3, <1>4, <1>6, StoredAfter
<1> QED
  BY Zenon, <1>1, <1>2, <1>3, <1>6, <1>7 DEF s, sub, ask

\* The email that creates a submission is stored with it (upsertEmailRow).
LEMMA CommitEmails ==
  ASSUME IngestInv, NEW j \in job, Commit(j)
  PROVE  /\ EmailInv'
         /\ \A e \in emails' : e.id \in Ids /\ e.sub \in Stored'
<1> DEFINE m == j.mail
           s == j.sub
<1>1. TypeOK /\ EmailInv
  BY Zenon DEF IngestInv
<1>2. /\ TargetInv(j) /\ m \in Mails /\ s \in Mails /\ Stored' = Stored \cup {s}
  BY Zenon, CommitRow
<1>3. /\ emails \subseteq emails'
      /\ \A e \in emails' \ emails :
           /\ Owners(m) = {} /\ e.id = Inbound(m) /\ e.sub = s
           /\ e.mid = Mail[m].mid /\ e.irt = Mail[m].irt
      /\ \E e \in emails' : e.id = Inbound(m)
  <2>1. emails' = Recorded(m, s)
    BY Zenon DEF Commit
  <2> HIDE DEF m, s
  <2> QED
    BY Zenon, <1>2, <2>1, RecordedRows
<1>4. s \in Stored \/ s = m
  BY Zenon, <1>2 DEF TargetInv
<1> HIDE DEF m, s
<1>5. \A t : Owners(t)' # {} <=> \E e \in emails' : e.id = Inbound(t)
  BY Zenon DEF Owners
<1>6. \A t : Owners(t) # {} => \E e \in emails : e.id = Inbound(t)
  BY Zenon DEF Owners
<1>7. \A t \in Stored' : Owners(t)' # {}
  BY Zenon, <1>1, <1>2, <1>3, <1>4, <1>5, <1>6 DEF EmailInv
<1>8. ASSUME NEW e \in emails', NEW n \in Mails, e.id = Inbound(n)
      PROVE  e.mid = Mail[n].mid /\ e.irt = Mail[n].irt
  <2>1. CASE e \in emails
    BY Zenon, <1>1, <1>8, <2>1 DEF EmailInv
  <2>2. CASE e \notin emails
    <3>1. e.id = Inbound(m) /\ e.mid = Mail[m].mid /\ e.irt = Mail[m].irt
      BY Zenon, <1>3, <2>2
    <3>2. m = n
      BY Zenon, <1>8, <3>1, InboundIds
    <3> QED
      BY Zenon, <3>1, <3>2
  <2> QED
    BY Zenon, <2>1, <2>2
<1>9. \A e \in emails' : e.id \in Ids /\ e.sub \in Stored'
  <2>1. Inbound(m) \in Ids
    BY <1>2 DEF Ids
  <2>2. \A e \in emails : e.id \in Ids /\ e.sub \in Stored
    BY Zenon, <1>1 DEF TypeOK
  <2> QED
    BY Zenon, <1>2, <1>3, <2>1, <2>2
<1> QED
  BY Zenon, <1>7, <1>8, <1>9 DEF EmailInv

\* The missing items fit the documents: those of the submission were evaluated
\* with its new documents, those of the others have no new ones.
LEMMA CommitMissing ==
  ASSUME IngestInv, NEW j \in job, Commit(j)
  PROVE  MissingMatchesDocuments' /\ docs' \subseteq Documents(Stored')
<1> DEFINE s == j.sub
           f == subs'[s]
           sub == Outcome(j)
<1>1. TypeOK /\ MissingMatchesDocuments
  BY Zenon DEF IngestInv
<1>2. /\ j \in Jobs /\ TargetInv(j) /\ s \in Mails /\ sub \in Submissions
      /\ f.state = sub.state /\ f.policy = j.row.policy
      /\ f.insured = j.row.insured /\ f.missing = sub.missing
      /\ Stored' = Stored \cup {s} /\ \A t \in Mails \ {s} : subs'[t] = subs[t]
  BY Zenon, CommitRow
<1>3. sub.policy = j.row.policy /\ sub.insured = j.row.insured
  BY Zenon, <1>2, OutcomeFacts
<1>4. docs' = docs \cup j.new
  BY Zenon DEF Commit
<1>5. /\ \A d \in j.new : d.sub = s
      /\ j.checked \/ s \notin hist.stale => RowRight(sub, DocsOf(s) \cup j.new)
  BY Zenon, <1>2 DEF TargetInv, RowInv
<1> HIDE DEF s, f, sub
<1>6. docs' \subseteq Documents(Stored')
  <2>1. Documents(Stored) \subseteq Documents(Stored')
    BY Zenon, <1>2, MoreDocuments
  <2>2. docs \subseteq Documents(Stored) /\ j.new \subseteq Documents(Mails)
    BY Zenon, <1>1, <1>2, JobFields DEF TypeOK
  <2>3. ASSUME NEW d \in Documents(Mails), d.sub = s PROVE d \in Documents(Stored')
    <3>1. d.sub \in Stored'
      BY Zenon, <1>2, <2>3
    <3> QED
      BY Zenon, <3>1 DEF Documents
  <2> QED
    BY Zenon, <1>4, <1>5, <2>1, <2>2, <2>3
<1>7. \A t : DocsOf(t)' = {d \in docs' : d.sub = t}
  BY Zenon DEF DocsOf
<1>8. DocsOf(s)' = DocsOf(s) \cup j.new /\ \A t : t # s => DocsOf(t)' = DocsOf(t)
  BY Zenon, <1>4, <1>5, <1>7 DEF DocsOf
<1>9. hist'.stale \cup {s} = hist.stale \cup {s} /\ (s \notin hist'.stale => j.checked \/ s \notin hist.stale)
  <2>1. hist' = IF j.checked THEN [hist EXCEPT !.stale = @ \ {s}] ELSE hist
    BY Zenon DEF Commit, s
  <2>2. hist \in [stale : SUBSET Mails, forgot : SUBSET Mails, lost : SUBSET Mails]
    BY Zenon, <1>1 DEF TypeOK
  <2>3. CASE j.checked
    <3>1. hist'.stale = hist.stale \ {s}
      BY Zenon, <2>1, <2>2, <2>3
    <3> QED
      BY Zenon, <2>3, <3>1
  <2>4. CASE ~j.checked
    BY Zenon, <2>1, <2>4
  <2> QED
    BY Zenon, <2>3, <2>4
<1>10. ASSUME NEW t \in Stored' \ hist'.stale PROVE RowRight(subs'[t], DocsOf(t)')
  <2>1. CASE t = s
    <3>1. RowRight(sub, DocsOf(s) \cup j.new)
      BY Zenon, <1>5, <1>9, <1>10, <2>1
    <3>2. RowRight(f, DocsOf(s)')
      BY Zenon, <1>2, <1>3, <1>8, <3>1 DEF RowRight
    <3> QED
      BY Zenon, <2>1, <3>2 DEF f
  <2>2. CASE t # s
    <3>1. t \in Stored \ hist.stale /\ t \in Mails
      BY Zenon, <1>2, <1>9, <1>10, <2>2 DEF Stored
    <3>2. RowRight(subs[t], DocsOf(t))
      BY Zenon, <1>1, <3>1 DEF MissingMatchesDocuments
    <3> QED
      BY Zenon, <1>2, <1>8, <2>2, <3>1, <3>2
  <2> QED
    BY Zenon, <2>1, <2>2
<1> QED
  BY Zenon, <1>6, <1>10 DEF MissingMatchesDocuments

\* A reply that is queued is not the one the submission remembers, so the line of
\* business is not asked for again (buildReply, insertOutboxRow).
LEMMA CommitAsk ==
  ASSUME IngestInv, NEW j \in job, Commit(j)
  PROVE  AskInv' /\ replies' \subseteq Replies(Stored')
<1> DEFINE s == j.sub
           m == j.mail
           f == subs'[s]
           sub == Outcome(j)
           ask == buildReply(sub, m)
           row == [sub |-> s, mail |-> m, status |-> "queued", ask |-> ask]
           old == {r \in replies : r.sub # s \/ r.status # "queued"}
<1>1. TypeOK /\ AskInv
  BY Zenon DEF IngestInv
<1>2. /\ j \in Jobs /\ TargetInv(j) /\ s \in Mails /\ m \in Mails /\ sub \in Submissions
      /\ f.policy = j.row.policy /\ f.insured = j.row.insured
      /\ f.hash = IF Answers(sub, m) THEN ask ELSE j.row.hash
      /\ Stored' = Stored \cup {s} /\ \A t \in Mails \ {s} : subs'[t] = subs[t]
  BY Zenon, CommitRow
<1>3. sub.policy = j.row.policy /\ sub.hash = j.row.hash /\ sub.missing = j.row.missing
  BY Zenon, <1>2, OutcomeFacts
<1>4. s \notin hist.forgot =>
        /\ AskedRow(s, j.row)
        /\ Mail[m].kind \notin bounceKinds /\ j.row.policy = Unknown
           => j.row.missing = {PolicyUnknownItem}
  BY Zenon, <1>2 DEF TargetInv, RowInv
<1>5. /\ Answers(sub, m) => replies' = old \cup {row}
      /\ ~Answers(sub, m) => replies' = replies
  BY Zenon DEF Commit, Queued
<1>6. /\ hist'.forgot = hist.forgot /\ hist'.stale \subseteq hist.stale
  <2>1. hist' = hist \/ hist' = [hist EXCEPT !.stale = @ \ {s}]
    BY Zenon DEF Commit
  <2>2. hist \in [stale : SUBSET Mails, forgot : SUBSET Mails, lost : SUBSET Mails]
    BY Zenon, <1>1 DEF TypeOK
  <2> QED
    BY Zenon, <2>1, <2>2
<1>7. /\ ask \in Asks
      /\ ask[1] = "policy_unknown" => sub.policy = Unknown
      /\ Answers(sub, m) /\ sub.policy = Unknown /\ s \notin hist.forgot => ask = Question
      /\ Answers(sub, m) => ask # sub.hash
  <2>1. Answers(sub, m) => /\ ask # NoReply /\ ask # sub.hash /\ Mail[m].kind \notin bounceKinds
    BY DEF Answers, bounceKinds
  <2>2. /\ ask \in Asks
        /\ sub.policy = Unknown =>
             ask \in {NoReply, ReplyFingerprint("policy_unknown", sub.missing)}
        /\ sub.policy # Unknown => ask[1] # "policy_unknown"
    <3> HIDE DEF sub, m
    <3> QED
      BY Zenon, <1>2, ReplyFacts
  <2> HIDE DEF sub, m, s, ask
  <2> QED
    BY Zenon, <1>3, <1>4, <2>1, <2>2 DEF Question
<1> HIDE DEF s, m, f, sub, ask
<1>8. row.sub = s /\ row.ask = ask /\ row \in Replies(Stored')
  BY Zenon, <1>2, <1>7 DEF Replies
<1>9. old \subseteq replies
  BY Zenon
<1> HIDE DEF row, old
<1>10. \A r \in replies' : r \in replies \/ (Answers(sub, m) /\ r = row)
  BY Zenon, <1>5, <1>9
<1>11. ASSUME Answers(sub, m), ask[1] = "policy_unknown", s \notin hist.forgot PROVE ~Asked(s)
  <2>1. sub.policy = Unknown /\ ask = Question /\ ask # sub.hash
    BY Zenon, <1>7, <1>11
  <2> QED
    BY Zenon, <1>3, <1>4, <1>11, <2>1 DEF AskedRow
<1>12. ASSUME NEW t \in Stored' \ hist'.forgot PROVE AskedRow(t, subs[t])'
  <2>1. CASE t = s
    <3>1. AskedRow(s, j.row)
      BY Zenon, <1>4, <1>6, <1>12, <2>1
    <3>2. f.insured # NoName => f.policy # Unknown
      BY Zenon, <1>2, <3>1 DEF AskedRow
    <3>3. ASSUME Asked(s)', f.policy = Unknown PROVE f.hash = Question
      <4>1. CASE Answers(sub, m)
        BY Zenon, <1>2, <1>3, <1>6, <1>7, <1>12, <2>1, <3>3, <4>1
      <4>2. CASE ~Answers(sub, m)
        <5>1. Asked(s)
          BY Zenon, <1>5, <3>3, <4>2 DEF Asked
        <5> QED
          BY Zenon, <1>2, <3>1, <3>3, <4>2, <5>1 DEF AskedRow
      <4> QED
        BY Zenon, <4>1, <4>2
    <3>4. subs'[t] = f
      BY Zenon, <2>1 DEF f
    <3> QED
      BY Zenon, <2>1, <3>2, <3>3, <3>4 DEF AskedRow
  <2>2. CASE t # s
    <3>1. t \in Stored \ hist.forgot /\ t \in Mails
      BY Zenon, <1>2, <1>6, <1>12, <2>2 DEF Stored
    <3>2. AskedRow(t, subs[t]) /\ subs'[t] = subs[t]
      BY Zenon, <1>1, <1>2, <2>2, <3>1 DEF AskInv
    <3>3. Asked(t)' => Asked(t)
      BY Zenon, <1>8, <1>10, <2>2 DEF Asked
    <3> QED
      BY Zenon, <3>2, <3>3 DEF AskedRow
  <2> QED
    BY Zenon, <2>1, <2>2
<1>13. ASSUME NEW r \in replies', NEW q \in replies',
              r.ask[1] = "policy_unknown", q.ask[1] = "policy_unknown",
              r.sub = q.sub, r.sub \notin hist'.forgot
       PROVE  r = q
  <2>1. CASE r \in replies /\ q \in replies
    BY Zenon, <1>1, <1>6, <1>13, <2>1 DEF AskInv
  <2>2. CASE ~(r \in replies /\ q \in replies)
    <3>1. Answers(sub, m) /\ (r = row \/ q = row)
      BY Zenon, <1>10, <2>2
    <3>2. r.sub = s /\ s \notin hist.forgot /\ ask[1] = "policy_unknown"
      BY Zenon, <1>6, <1>8, <1>13, <3>1
    <3>3. ~Asked(s)
      BY Zenon, <1>11, <3>1, <3>2
    <3> QED
      BY Zenon, <1>10, <1>13, <3>2, <3>3 DEF Asked
  <2> QED
    BY Zenon, <2>1, <2>2
<1>14. replies' \subseteq Replies(Stored')
  <2>1. replies \subseteq Replies(Stored')
    BY Zenon, <1>1, <1>2 DEF TypeOK, Replies
  <2> QED
    BY Zenon, <1>8, <1>10, <2>1
<1>15. hist'.stale \subseteq hist'.forgot
  BY Zenon, <1>1, <1>6 DEF AskInv
<1> QED
  BY Zenon, <1>12, <1>13, <1>14, <1>15 DEF AskInv

\* The account of the row is the one its copies have, or they have none.
LEMMA CommitListed ==
  ASSUME IngestInv, NEW j \in job, Commit(j)
  PROVE  ListedInv' /\ listed' \subseteq [sub : Stored', row : Rows]
<1> DEFINE s == j.sub
           f == subs'[s]
<1>1. TypeOK /\ ListedInv
  BY Zenon DEF IngestInv
<1>2. /\ TargetInv(j) /\ s \in Mails
      /\ f.from = j.row.from /\ f.insured = j.row.insured
      /\ Stored' = Stored \cup {s} /\ \A t \in Mails \ {s} : subs'[t] = subs[t]
  BY Zenon, CommitRow
<1>3. listed' = listed
  BY Zenon DEF Commit
<1>4. s \in Stored => Named(s, f.from, f.insured)
  BY Zenon, <1>2 DEF TargetInv
<1> HIDE DEF s
<1>5. listed \subseteq [sub : Stored', row : Rows] /\ \A c \in listed : c.sub \in Stored
  <2>1. listed \subseteq [sub : Stored, row : Rows]
    BY Zenon, <1>1 DEF TypeOK
  <2> QED
    BY Zenon, <1>2, <2>1
<1>6. ASSUME NEW t \in Stored' PROVE Named(t, subs[t].from, subs[t].insured)'
  <2>1. CASE t = s
    BY Zenon, <1>3, <1>4, <1>5, <2>1 DEF Named
  <2>2. CASE t # s
    <3>1. t \in Stored /\ subs'[t] = subs[t]
      BY Zenon, <1>2, <2>2 DEF Stored
    <3>2. Named(t, subs[t].from, subs[t].insured)
      BY Zenon, <1>1, <3>1 DEF ListedInv
    <3> QED
      BY Zenon, <1>3, <3>1, <3>2 DEF Named
  <2> QED
    BY Zenon, <2>1, <2>2
<1> QED
  BY Zenon, <1>1, <1>3, <1>5, <1>6 DEF ListedInv

\* An email goes to the one submission its thread is in, or its ambiguity is to be
\* audited.
LEMMA CommitSplit ==
  ASSUME IngestInv, NEW j \in job, Commit(j)
  PROVE  SplitIsAudited' /\ job' \subseteq Jobs /\ (\A i, k \in job' : i = k) /\ JobInv'
<1> DEFINE m == j.mail
           s == j.sub
           k == [j EXCEPT !.pc = "flush"]
           known == audit \cup hist.lost \cup Unflushed
<1>1. TypeOK /\ SplitIsAudited
  BY Zenon DEF IngestInv
<1>2. j \in Jobs /\ TargetInv(j) /\ m \in Mails /\ \A i \in job : i = j
  BY Zenon, CommitRow
<1>3. j.pc = "commit" /\ job' = {k} /\ audit' = audit
  BY Zenon DEF Commit
<1>4. k \in Jobs /\ k.pc = "flush" /\ k.mail = m /\ k.many = j.many
  BY Zenon, <1>2 DEF Jobs
<1>5. hist'.lost = hist.lost
  <2>1. hist' = hist \/ hist' = [hist EXCEPT !.stale = @ \ {s}]
    BY Zenon DEF Commit
  <2>2. hist \in [stale : SUBSET Mails, forgot : SUBSET Mails, lost : SUBSET Mails]
    BY Zenon, <1>1 DEF TypeOK
  <2> QED
    BY Zenon, <2>1, <2>2
<1>6. /\ emails \subseteq emails'
      /\ \A e \in emails' \ emails :
           /\ Owners(m) = {} /\ e.id = Inbound(m) /\ e.sub = s
           /\ e.mid = Mail[m].mid /\ e.irt = Mail[m].irt
  <2>1. emails' = Recorded(m, s)
    BY Zenon DEF Commit
  <2> HIDE DEF m, s
  <2> QED
    BY Zenon, <1>2, <2>1, RecordedRows
<1>7. j.many \/ Unsplit(m, {s})
  BY Zenon, <1>2 DEF TargetInv
<1> HIDE DEF m, s, k
<1>8. JobInv' /\ job' \subseteq Jobs /\ \A i, l \in job' : i = l
  <2>1. k.pc \notin {"find", "merge"} /\ k.pc # "commit"
    BY <1>4
  <2> QED
    BY Zenon, <1>3, <1>4, <2>1 DEF JobInv
<1>9. Unflushed = {}
  <2>1. "commit" # "flush"
    OBVIOUS
  <2> QED
    BY Zenon, <1>2, <1>3, <2>1, InUnflushed
<1>10. j.many => m \in Unflushed'
  <2>1. j.many => m \in Entry(k)
    BY Zenon, <1>4 DEF Entry
  <2>2. Entry(k)' = Entry(k)
    BY Zenon DEF Entry
  <2>3. Unflushed' = UNION {Entry(i) : i \in {l \in job' : l.pc = "flush"}}
    BY Zenon DEF Unflushed, Entry
  <2> QED
    BY Zenon, <1>3, <1>4, <2>1, <2>3
<1>11. \A x \in known : x \in known'
  BY Zenon, <1>3, <1>5, <1>9
<1>12. j.many => m \in known'
  BY Zenon, <1>10
<1> HIDE DEF known
<1>13. ASSUME NEW answer \in emails', NEW asked \in emails',
              answer.id[1] = "mail", asked.id[1] = "mail",
              answer.irt = asked.mid, asked.mid # NoId, answer.sub # asked.sub
       PROVE  answer.id[2] \in known' \/ asked.id[2] \in known'
  <2>1. CASE answer \in emails /\ asked \in emails
    <3>1. known \cap {answer.id[2], asked.id[2]} # {}
      BY Zenon, <1>1, <1>13, <2>1 DEF SplitIsAudited, known
    <3> QED
      BY Zenon, <1>11, <3>1
  <2>2. CASE answer \notin emails /\ asked \in emails
    <3>1. /\ answer.id = Inbound(m) /\ answer.id[2] = m /\ answer.sub = s
          /\ answer.irt = Mail[m].irt /\ Owners(m) = {}
      BY Zenon, <1>6, <2>2, InboundIds
    <3>2. asked.id # Inbound(m)
      BY Zenon, <2>2, <3>1 DEF Owners
    <3>3. Unsplit(m, {s}) => asked.sub \in {s}
      BY Zenon, <1>13, <2>2, <3>1, <3>2 DEF Unsplit
    <3> QED
      BY Zenon, <1>7, <1>12, <1>13, <3>1, <3>3
  <2>3. CASE answer \in emails /\ asked \notin emails
    <3>1. /\ asked.id = Inbound(m) /\ asked.id[2] = m /\ asked.sub = s
          /\ asked.mid = Mail[m].mid /\ Owners(m) = {}
      BY Zenon, <1>6, <2>3, InboundIds
    <3>2. answer.id # Inbound(m)
      BY Zenon, <2>3, <3>1 DEF Owners
    <3>3. Unsplit(m, {s}) => answer.sub \in {s}
      BY Zenon, <1>13, <2>3, <3>1, <3>2 DEF Unsplit
    <3> QED
      BY Zenon, <1>7, <1>12, <1>13, <3>1, <3>3
  <2>4. CASE answer \notin emails /\ asked \notin emails
    BY Zenon, <1>6, <1>13, <2>4
  <2> QED
    BY Zenon, <2>1, <2>2, <2>3, <2>4
<1>14. SplitIsAudited'
  BY Zenon, <1>13 DEF SplitIsAudited, known
<1> QED
  BY Zenon, <1>8, <1>14

\* The transaction of an ingest.
LEMMA CommitStep ==
  ASSUME IngestInv, NEW j \in job, Commit(j)
  PROVE  IngestInv'
<1>1. EmailInv' /\ \A e \in emails' : e.id \in Ids /\ e.sub \in Stored'
  BY Zenon, CommitEmails
<1>2. MissingMatchesDocuments' /\ docs' \subseteq Documents(Stored')
  BY Zenon, CommitMissing
<1>3. AskInv' /\ replies' \subseteq Replies(Stored')
  BY Zenon, CommitAsk
<1>4. ListedInv' /\ listed' \subseteq [sub : Stored', row : Rows]
  BY Zenon, CommitListed
<1>5. SplitIsAudited' /\ job' \subseteq Jobs /\ (\A i, k \in job' : i = k) /\ JobInv'
  BY Zenon, CommitSplit
<1>6. TypeOK /\ subs' \in [Mails -> Submissions]
  BY Zenon, CommitRow
<1>7. unread' = unread /\ audit' = audit
      /\ (hist' = hist \/ hist' = [hist EXCEPT !.stale = @ \ {j.sub}])
  BY Zenon DEF Commit
<1>8. hist' \in [stale : SUBSET Mails, forgot : SUBSET Mails, lost : SUBSET Mails]
  <2>1. hist \in [stale : SUBSET Mails, forgot : SUBSET Mails, lost : SUBSET Mails]
    BY Zenon, <1>6 DEF TypeOK
  <2> QED
    BY Zenon, <1>7, <2>1
<1>9. unread' \subseteq Mails /\ audit' \subseteq Mails
  BY Zenon, <1>6, <1>7 DEF TypeOK
<1>10. TypeOK'
  BY Zenon, <1>1, <1>2, <1>3, <1>4, <1>5, <1>6, <1>8, <1>9 DEF TypeOK
<1> QED
  BY Zenon, <1>1, <1>2, <1>3, <1>4, <1>5, <1>10 DEF IngestInv

-----------------------------------------------------------------------------
(* The workers and the crash.                                              *)

Histories == [stale : SUBSET Mails, forgot : SUBSET Mails, lost : SUBSET Mails]

\* An ingest in progress is not disturbed by a worker that files no message and
\* leaves the account of a row alone, or replaces the row by a copy of its own.
LEMMA JobKept ==
  ASSUME IngestInv, job' = job, docs' = docs, Stored' = Stored, emails \subseteq emails',
         \A e \in emails' \ emails : e.id[1] # "mail",
         \A t : Asked(t)' => Asked(t),
         hist.stale \subseteq hist'.stale, hist.forgot \subseteq hist'.forgot,
         \A t \in Stored : \A from, name : Named(t, from, name) => Named(t, from, name)',
         \A t \in Stored \ hist'.stale : subs'[t].insured = subs[t].insured
  PROVE  JobInv' /\ \A m : Owners(m)' = Owners(m)
<1>1. \A t : DocsOf(t)' = DocsOf(t)
  BY Zenon DEF DocsOf
<1>2. \A m : Owners(m)' = Owners(m)
  <2>1. \A m : \A e \in emails' \ emails : e.id # Inbound(m)
    BY Zenon, InboundIds
  <2>2. \A m : {e \in emails' : e.id = Inbound(m)} = {e \in emails : e.id = Inbound(m)}
    BY Zenon, <2>1
  <2> QED
    BY Zenon, <2>2 DEF Owners
<1>3. \A t, row : AskedRow(t, row) => AskedRow(t, row)'
  BY Zenon DEF AskedRow
<1>4. \A m, S : Unsplit(m, S) => Unsplit(m, S)'
  BY Zenon DEF Unsplit
<1>5. \A m, t : SameThread(m, t) => SameThread(m, t)'
  BY Zenon DEF SameThread
<1> SUFFICES ASSUME NEW j \in job
             PROVE  /\ j.pc \in {"find", "merge"} => SearchInv(j)'
                    /\ j.pc = "commit" => TargetInv(j)'
  BY Zenon, <1>2 DEF JobInv
<1>6. \A t : RowInv(j, t) => RowInv(j, t)'
  BY Zenon, <1>1, <1>3 DEF RowInv
<1>7. ASSUME SearchInv(j) PROVE SearchInv(j)'
  <2>1. /\ RowInv(j, j.mail)' /\ Mail[j.mail].kind \notin bounceKinds
        /\ Owners(j.mail)' = {} /\ Unsplit(j.mail, {})' /\ SameAccount(j.mail, j.row)
        /\ j.pc = "find" => j.sub = j.mail
    BY Zenon, <1>2, <1>4, <1>6, <1>7 DEF SearchInv
  <2>2. ASSUME j.pc = "merge"
        PROVE  /\ j.sub \in Stored' /\ Named(j.sub, j.row.from, j.row.insured)'
               /\ j.sub \notin hist'.stale => subs'[j.sub].insured # NoName
    BY Zenon, <1>7, <2>2 DEF SearchInv
  <2> QED
    BY Zenon, <2>1, <2>2 DEF SearchInv
<1>8. ASSUME TargetInv(j) PROVE TargetInv(j)'
  BY Zenon, <1>2, <1>4, <1>5, <1>6, <1>8 DEF TargetInv
<1> QED
  BY Zenon, <1>7, <1>8, OneJob

\* The reply worker moves a reply on, may store its copy, and may clear the
\* fingerprint of the submission (deliver, redeliverOne).
LEMMA ReplyStep ==
  ASSUME IngestInv, NEW r \in replies,
         NEW status \in {"queued", "sent", "recorded", "dead", "lapsed"},
         replies' = Becomes(r, status),
         \/ subs' = subs /\ hist' = hist
         \/ /\ subs' = [subs EXCEPT ![r.sub].hash = NoReply]
            /\ hist' = [hist EXCEPT !.forgot = @ \cup {r.sub}],
         emails \subseteq emails',
         \A e \in emails' \ emails :
           /\ e.id \in Ids /\ e.id[1] # "mail" /\ e.sub = r.sub,
         UNCHANGED <<unread, docs, audit, job, listed>>
  PROVE  IngestInv'
<1> DEFINE row == [r EXCEPT !.status = status]
<1>1. TypeOK /\ EmailInv /\ AskInv /\ ListedInv /\ MissingMatchesDocuments /\ SplitIsAudited
  BY Zenon DEF IngestInv
<1>2. unread' = unread /\ docs' = docs /\ audit' = audit /\ job' = job /\ listed' = listed
  BY Zenon
<1>3. /\ r.sub \in Stored /\ r \in Replies(Stored) /\ replies \subseteq Replies(Stored)
      /\ r.sub \in Mails
  BY Zenon, <1>1, ReplyRows DEF TypeOK, Stored
<1>4. row \in Replies(Stored) /\ row.sub = r.sub /\ row.ask = r.ask
  BY Zenon, <1>3 DEF Replies
<1>5. replies' = (replies \ {r}) \cup {row}
  BY Zenon DEF Becomes
<1> HIDE DEF row
<1>6. hist \in Histories /\ subs \in [Mails -> Submissions]
  BY Zenon, <1>1 DEF TypeOK, Histories
<1>7. /\ hist' \in Histories /\ hist'.stale = hist.stale /\ hist'.lost = hist.lost
      /\ hist.forgot \subseteq hist'.forgot
      /\ hist' = hist \/ r.sub \in hist'.forgot
  <2>1. CASE hist' = hist
    BY Zenon, <1>6, <2>1
  <2>2. CASE hist' = [hist EXCEPT !.forgot = @ \cup {r.sub}]
    <3>1. hist.forgot \cup {r.sub} \in SUBSET Mails
      BY Zenon, <1>3, <1>6 DEF Histories
    <3>2. /\ hist' \in Histories /\ hist'.stale = hist.stale /\ hist'.lost = hist.lost
          /\ hist'.forgot = hist.forgot \cup {r.sub}
      BY Zenon, <1>6, <2>2, <3>1 DEF Histories
    <3> QED
      BY Zenon, <3>2
  <2> QED
    BY Zenon, <2>1, <2>2
<1>8. /\ subs' \in [Mails -> Submissions]
      /\ \A t \in Mails : /\ subs'[t].state = subs[t].state /\ subs'[t].policy = subs[t].policy
                          /\ subs'[t].from = subs[t].from /\ subs'[t].insured = subs[t].insured
                          /\ subs'[t].missing = subs[t].missing
                          /\ t \notin hist'.forgot => subs'[t] = subs[t]
  <2>1. CASE subs' = subs
    BY Zenon, <1>6, <2>1
  <2>2. CASE subs' # subs
    <3> DEFINE f == [subs[r.sub] EXCEPT !.hash = NoReply]
    <3>1. subs' = [subs EXCEPT ![r.sub] = f] /\ r.sub \in hist'.forgot
      BY Zenon, <1>6, <1>3, <2>2 DEF Histories
    <3>2. subs[r.sub] \in Submissions /\ NoReply \in Asks
      BY Zenon, <1>3, <1>6 DEF NoReply, Asks
    <3>3. /\ f \in Submissions /\ f.state = subs[r.sub].state /\ f.policy = subs[r.sub].policy
          /\ f.from = subs[r.sub].from /\ f.insured = subs[r.sub].insured
          /\ f.missing = subs[r.sub].missing
      BY Zenon, <3>2 DEF Submissions
    <3> HIDE DEF f
    <3>4. \A t \in Mails : subs'[t] = IF t = r.sub THEN f ELSE subs[t]
      BY Zenon, <1>6, <3>1
    <3>5. subs' \in [Mails -> Submissions]
      BY Zenon, <1>6, <3>1, <3>3
    <3> QED
      BY Zenon, <3>1, <3>3, <3>4, <3>5
  <2> QED
    BY Zenon, <2>1, <2>2
<1>9. Stored' = Stored /\ Stored \subseteq Mails
  <2>1. Stored' = {t \in Mails : subs'[t].state # "absent"}
    BY Zenon DEF Stored
  <2> QED
    BY <1>8, <2>1 DEF Stored
<1>10. ASSUME NEW p \in replies'
       PROVE  \E q \in replies : p.sub = q.sub /\ p.ask = q.ask /\ (p = q \/ (p = row /\ q = r))
  BY Zenon, <1>4, <1>5
<1>11. \A t : Asked(t)' => Asked(t)
  BY Zenon, <1>10 DEF Asked
<1>12. \A t \in Stored : \A from, name : Named(t, from, name) => Named(t, from, name)'
  BY Zenon, <1>2, <1>8, <1>9 DEF Named
<1>13. JobInv' /\ \A m : Owners(m)' = Owners(m)
  <2>1. \A t \in Stored \ hist'.stale : subs'[t].insured = subs[t].insured
    BY Zenon, <1>8, <1>9
  <2> QED
    BY Zenon, <1>2, <1>7, <1>9, <1>11, <1>12, <2>1, JobKept
<1>14. TypeOK'
  <2>1. \A e \in emails' : e.id \in Ids /\ e.sub \in Stored'
    BY Zenon, <1>1, <1>3, <1>9 DEF TypeOK
  <2>2. replies' \subseteq Replies(Stored')
    BY Zenon, <1>3, <1>4, <1>5, <1>9
  <2> QED
    BY Zenon, <1>1, <1>2, <1>7, <1>8, <1>9, <2>1, <2>2 DEF TypeOK, Histories
<1>15. EmailInv'
  <2>1. \A m : \A e \in emails' \ emails : e.id # Inbound(m)
    BY Zenon, InboundIds
  <2> QED
    BY Zenon, <1>1, <1>9, <1>13, <2>1 DEF EmailInv
<1>16. AskInv'
  <2>1. ASSUME NEW t \in Stored' \ hist'.forgot PROVE AskedRow(t, subs[t])'
    <3>1. t \in Stored \ hist.forgot /\ subs'[t] = subs[t]
      BY Zenon, <1>7, <1>8, <1>9, <2>1
    <3>2. AskedRow(t, subs[t])
      BY Zenon, <1>1, <3>1 DEF AskInv
    <3> QED
      BY Zenon, <1>11, <3>1, <3>2 DEF AskedRow
  <2>2. ASSUME NEW p \in replies', NEW q \in replies',
               p.ask[1] = "policy_unknown", q.ask[1] = "policy_unknown",
               p.sub = q.sub, p.sub \notin hist'.forgot
        PROVE  p = q
    <3>1. \A x, y \in replies :
            /\ x.ask[1] = "policy_unknown" /\ y.ask[1] = "policy_unknown"
            /\ x.sub = y.sub /\ x.sub \notin hist.forgot
            => x = y
      BY Zenon, <1>1 DEF AskInv
    <3>2. p = row \/ (p \in replies /\ p # r)
      BY Zenon, <1>5
    <3>3. q = row \/ (q \in replies /\ q # r)
      BY Zenon, <1>5
    <3>4. p.sub \notin hist.forgot
      BY Zenon, <1>7, <2>2
    <3> QED
      <4>1. CASE p = row /\ q # row
        <5>1. r = q
          BY Zenon, <1>4, <2>2, <3>1, <3>3, <3>4, <4>1
        <5> QED
          BY Zenon, <3>3, <4>1, <5>1
      <4>2. CASE p # row /\ q = row
        <5>1. p = r
          BY Zenon, <1>4, <2>2, <3>1, <3>2, <3>4, <4>2
        <5> QED
          BY Zenon, <3>2, <4>2, <5>1
      <4>3. CASE p # row /\ q # row
        BY Zenon, <2>2, <3>1, <3>2, <3>3, <3>4, <4>3
      <4> QED
        BY Zenon, <4>1, <4>2, <4>3
  <2>3. hist'.stale \subseteq hist'.forgot
    BY Zenon, <1>1, <1>7 DEF AskInv
  <2> QED
    BY Zenon, <2>1, <2>2, <2>3 DEF AskInv
<1>17. ListedInv'
  <2>1. ASSUME NEW t \in Stored PROVE Named(t, subs[t].from, subs[t].insured)'
    <3>1. Named(t, subs[t].from, subs[t].insured)
      BY Zenon, <1>1 DEF ListedInv
    <3>2. subs'[t].from = subs[t].from /\ subs'[t].insured = subs[t].insured
      BY Zenon, <1>8, <1>9
    <3> QED
      BY Zenon, <1>2, <3>1, <3>2 DEF Named
  <2> QED
    BY Zenon, <1>1, <1>2, <1>9, <2>1 DEF ListedInv
<1>18. MissingMatchesDocuments'
  <2>1. \A t : DocsOf(t)' = DocsOf(t)
    BY Zenon, <1>2 DEF DocsOf
  <2>2. ASSUME NEW t \in Stored' \ hist'.stale PROVE RowRight(subs'[t], DocsOf(t)')
    <3>1. RowRight(subs[t], DocsOf(t))
      BY Zenon, <1>1, <1>7, <1>9, <2>2 DEF MissingMatchesDocuments
    <3>2. /\ subs'[t].state = subs[t].state /\ subs'[t].policy = subs[t].policy
          /\ subs'[t].insured = subs[t].insured /\ subs'[t].missing = subs[t].missing
      BY Zenon, <1>8, <1>9, <2>2
    <3> QED
      BY Zenon, <2>1, <3>1, <3>2 DEF RowRight
  <2> QED
    BY Zenon, <2>2 DEF MissingMatchesDocuments
<1>19. SplitIsAudited'
  <2>1. Unflushed' = Unflushed
    BY Zenon, <1>2 DEF Unflushed
  <2> QED
    BY Zenon, <1>1, <1>2, <1>7, <2>1, SplitStays
<1> QED
  BY Zenon, <1>13, <1>14, <1>15, <1>16, <1>17, <1>18, <1>19 DEF IngestInv

\* A reply that goes out, whose copy is stored under an id of its own, or that is
\* given up.
LEMMA RepliesStep ==
  ASSUME IngestInv, NEW r \in replies, SendReply(r) \/ RecordReply(r) \/ DeadLetter(r)
  PROVE  IngestInv'
<1>1. CASE SendReply(r)
  <2>1. /\ replies' = Becomes(r, "sent") /\ subs' = subs /\ hist' = hist /\ emails' = emails
        /\ UNCHANGED <<unread, docs, audit, job, listed>>
    BY Zenon, <1>1 DEF SendReply
  <2> QED
    BY Zenon, <2>1, ReplyStep
<1>2. CASE RecordReply(r)
  <2> DEFINE id == Outbound(r.sub, r.mail)
             row == [id |-> id, sub |-> r.sub, mid |-> id, irt |-> Mail[r.mail].mid]
  <2>1. /\ replies' = Becomes(r, "recorded") /\ subs' = subs /\ hist' = hist
        /\ emails' = emails \cup {row} /\ UNCHANGED <<unread, docs, audit, job, listed>>
    BY Zenon, <1>2 DEF RecordReply
  <2>2. r.sub \in Mails /\ r.mail \in Mails
    <3>1. r.sub \in Stored /\ r \in Replies(Stored)
      BY Zenon, ReplyRows DEF IngestInv
    <3> QED
      BY Zenon, <3>1 DEF Replies, Stored
  <2>3. id \in Ids /\ id[1] # "mail"
    <3>1. id \in Ids
      BY <2>2 DEF Ids
    <3>2. id[1] = "reply" /\ "reply" # "mail"
      BY InboundIds
    <3> QED
      BY Zenon, <3>1, <3>2
  <2>4. row.id = id /\ row.sub = r.sub
    BY Zenon
  <2> HIDE DEF id, row
  <2>5. emails \subseteq emails'
        /\ \A e \in emails' \ emails : e.id \in Ids /\ e.id[1] # "mail" /\ e.sub = r.sub
    BY Zenon, <2>1, <2>3, <2>4
  <2> QED
    BY Zenon, <2>1, <2>5, ReplyStep
<1>3. CASE DeadLetter(r)
  <2>1. PICK status \in {"queued", "dead", "lapsed"}, cleared \in BOOLEAN :
          /\ replies' = Becomes(r, status)
          /\ subs' = IF cleared THEN [subs EXCEPT ![r.sub].hash = NoReply] ELSE subs
          /\ hist' = IF cleared THEN [hist EXCEPT !.forgot = @ \cup {r.sub}] ELSE hist
    BY Zenon, <1>3 DEF DeadLetter
  <2>2. \/ subs' = subs /\ hist' = hist
        \/ /\ subs' = [subs EXCEPT ![r.sub].hash = NoReply]
           /\ hist' = [hist EXCEPT !.forgot = @ \cup {r.sub}]
    BY <2>1
  <2>3. emails' = emails /\ UNCHANGED <<unread, docs, audit, job, listed>>
    BY Zenon, <1>3 DEF DeadLetter
  <2>4. status \in {"queued", "sent", "recorded", "dead", "lapsed"}
    BY Zenon
  <2>5. /\ emails \subseteq emails'
        /\ \A e \in emails' \ emails : e.id \in Ids /\ e.id[1] # "mail" /\ e.sub = r.sub
    BY Zenon, <2>3
  <2> QED
    BY Zenon, <2>1, <2>2, <2>3, <2>4, <2>5, ReplyStep
<1> QED
  BY Zenon, <1>1, <1>2, <1>3

\* The worker lists rows: its copies are what the rows are now (ListStale).
LEMMA ListStep ==
  ASSUME IngestInv, NEW S \in SUBSET Stored, List(S)
  PROVE  IngestInv'
<1>1. TypeOK /\ EmailInv /\ AskInv /\ ListedInv /\ MissingMatchesDocuments /\ SplitIsAudited
  BY Zenon DEF IngestInv
<1>2. /\ unread' = unread /\ UNCHANGED tables /\ audit' = audit /\ job' = job /\ hist' = hist
      /\ listed' = {[sub |-> s, row |-> subs[s]] : s \in S}
  BY Zenon DEF List
<1>3. subs' = subs /\ emails' = emails /\ docs' = docs /\ replies' = replies
  BY Zenon, <1>2 DEF tables
<1>4. /\ Stored' = Stored
      /\ \A t : DocsOf(t)' = DocsOf(t) /\ Asked(t)' = Asked(t)
  BY Zenon, <1>3 DEF Stored, DocsOf, Asked
<1>5. \A t \in Stored : subs[t] \in Rows
  BY Zenon, <1>1 DEF TypeOK, Stored, Rows
<1>6. ASSUME NEW c \in listed'
      PROVE  c.sub \in Stored /\ c.row = subs[c.sub] /\ c = [sub |-> c.sub, row |-> subs[c.sub]]
  <2>1. PICK s \in S : c = [sub |-> s, row |-> subs[s]]
    BY Zenon, <1>2, <1>6
  <2> QED
    BY Zenon, <2>1
<1>7. \A t \in Stored : \A from, name : Named(t, from, name) => Named(t, from, name)'
  BY Zenon, <1>3, <1>6 DEF Named
<1>8. ListedInv'
  <2>1. ASSUME NEW c \in listed', NEW d \in listed', c.sub = d.sub PROVE c = d
    <3>1. /\ c = [sub |-> c.sub, row |-> subs[c.sub]]
          /\ d = [sub |-> d.sub, row |-> subs[d.sub]]
      BY Zenon, <1>6, <2>1
    <3> QED
      BY <2>1, <3>1
  <2>2. \A t \in Stored : Named(t, subs[t].from, subs[t].insured)'
    BY Zenon, <1>3, <1>6 DEF Named
  <2> QED
    BY Zenon, <1>4, <2>1, <2>2 DEF ListedInv
<1>9. JobInv' /\ \A m : Owners(m)' = Owners(m)
  BY Zenon, <1>2, <1>3, <1>4, <1>7, JobKept
<1>10. TypeOK'
  <2>1. ASSUME NEW c \in listed' PROVE c \in [sub : Stored, row : Rows]
    <3>1. c = [sub |-> c.sub, row |-> subs[c.sub]] /\ c.sub \in Stored /\ subs[c.sub] \in Rows
      BY Zenon, <1>5, <1>6, <2>1
    <3> QED
      BY <3>1
  <2> QED
    BY Zenon, <1>1, <1>2, <1>3, <1>4, <2>1 DEF TypeOK
<1>11. EmailInv' /\ AskInv' /\ MissingMatchesDocuments'
  BY Zenon, <1>1, <1>2, <1>3, <1>4, <1>9 DEF EmailInv, AskInv, AskedRow, MissingMatchesDocuments
<1>12. SplitIsAudited'
  <2>1. Unflushed' = Unflushed
    BY Zenon, <1>2 DEF Unflushed
  <2> QED
    BY Zenon, <1>1, <1>2, <1>3, <2>1, SplitStays
<1> QED
  BY Zenon, <1>8, <1>9, <1>10, <1>11, <1>12 DEF IngestInv

\* The worker writes a copy back: if the row has changed meanwhile, the copy is
\* older, and what it undoes is remembered (upsertSubmissionRow).
LEMMA UpsertStep ==
  ASSUME IngestInv, NEW c \in listed, NEW state \in {"escalated", "closed"}, Upsert(c, state),
         state = "escalated" => c.row.state = "awaiting"
  PROVE  IngestInv'
<1> DEFINE s == c.sub
           f == [c.row EXCEPT !.state = state]
<1>1. TypeOK /\ EmailInv /\ AskInv /\ ListedInv /\ MissingMatchesDocuments /\ SplitIsAudited
  BY Zenon DEF IngestInv
<1>2. /\ subs' = [subs EXCEPT ![s] = f] /\ listed' = listed \ {c}
      /\ hist' = IF c.row = subs[s] THEN hist
                 ELSE [hist EXCEPT !.stale = @ \cup {s}, !.forgot = @ \cup {s}]
      /\ unread' = unread /\ emails' = emails /\ docs' = docs /\ replies' = replies
      /\ audit' = audit /\ job' = job
  BY Zenon DEF Upsert
<1>3. s \in Stored /\ s \in Mails /\ c.row \in Submissions
  <2>1. c \in [sub : Stored, row : Rows]
    BY Zenon, <1>1 DEF TypeOK
  <2> QED
    BY Zenon, <2>1 DEF Rows, Stored
<1> HIDE DEF s
<1>4. /\ f \in Submissions /\ f.state = state /\ f.policy = c.row.policy
      /\ f.from = c.row.from /\ f.insured = c.row.insured
      /\ f.missing = c.row.missing /\ f.hash = c.row.hash
  BY Zenon, <1>3 DEF Submissions
<1> HIDE DEF f
<1>5. /\ Stored' = Stored /\ Stored \subseteq Mails /\ subs' \in [Mails -> Submissions]
      /\ subs'[s] = f /\ \A t \in Mails \ {s} : subs'[t] = subs[t]
  <2>1. f.state # "absent"
    BY <1>4
  <2>2. /\ Stored' = Stored \cup {s} /\ subs' \in [Mails -> Submissions]
        /\ subs'[s] = f /\ \A t \in Mails \ {s} : subs'[t] = subs[t]
    BY Zenon, <1>1, <1>2, <1>3, <1>4, <2>1, StoredAfter
  <2> QED
    BY Zenon, <1>3, <2>2 DEF Stored
<1>6. hist \in Histories
  BY Zenon, <1>1 DEF TypeOK, Histories
<1>7. /\ hist' \in Histories /\ hist'.lost = hist.lost
      /\ hist.stale \subseteq hist'.stale /\ hist.forgot \subseteq hist'.forgot
      /\ hist'.stale \subseteq hist.stale \cup {s}
      /\ c.row # subs[s] => s \in hist'.stale /\ s \in hist'.forgot
      /\ hist'.stale \subseteq hist'.forgot
  <2>1. hist.stale \subseteq hist.forgot
    BY Zenon, <1>1 DEF AskInv
  <2>2. CASE c.row = subs[s]
    BY Zenon, <1>2, <1>6, <2>1, <2>2
  <2>3. CASE c.row # subs[s]
    <3>1. hist.stale \cup {s} \in SUBSET Mails /\ hist.forgot \cup {s} \in SUBSET Mails
      BY Zenon, <1>3, <1>6 DEF Histories
    <3>2. /\ hist' \in Histories /\ hist'.lost = hist.lost
          /\ hist'.stale = hist.stale \cup {s} /\ hist'.forgot = hist.forgot \cup {s}
      BY Zenon, <1>2, <1>6, <2>3, <3>1 DEF Histories
    <3> QED
      BY Zenon, <2>1, <2>3, <3>2
  <2> QED
    BY Zenon, <2>2, <2>3
<1>8. \A t : DocsOf(t)' = DocsOf(t) /\ Asked(t)' = Asked(t)
  BY Zenon, <1>2 DEF DocsOf, Asked
<1>9. ASSUME NEW t \in Stored, NEW from, NEW name, Named(t, from, name)
      PROVE  Named(t, from, name)'
  <2>1. c.sub = t => c.row.from = from /\ c.row.insured \in {NoName, name}
    BY Zenon, <1>9 DEF Named
  <2>2. subs'[t].from = from /\ subs'[t].insured \in {NoName, name}
    BY Zenon, <1>4, <1>5, <1>9, <2>1 DEF Named, s
  <2> QED
    BY Zenon, <1>2, <1>9, <2>2 DEF Named
<1>10. \A t \in Stored \ hist'.stale : subs'[t].insured = subs[t].insured
  BY Zenon, <1>4, <1>5, <1>7
<1>11. JobInv' /\ \A m : Owners(m)' = Owners(m)
  BY Zenon, <1>2, <1>5, <1>7, <1>8, <1>9, <1>10, JobKept
<1>12. TypeOK'
  BY Zenon, <1>1, <1>2, <1>5, <1>7 DEF TypeOK, Histories
<1>13. EmailInv'
  BY Zenon, <1>1, <1>2, <1>5, <1>11 DEF EmailInv
<1>14. AskInv'
  <2>1. ASSUME NEW t \in Stored' \ hist'.forgot PROVE AskedRow(t, subs[t])'
    <3>1. t \in Stored \ hist.forgot
      BY Zenon, <1>5, <1>7, <2>1
    <3>2. AskedRow(t, subs[t])
      BY Zenon, <1>1, <3>1 DEF AskInv
    <3>3. /\ subs'[t].insured = subs[t].insured /\ subs'[t].policy = subs[t].policy
          /\ subs'[t].hash = subs[t].hash
      BY Zenon, <1>4, <1>5, <1>7, <2>1
    <3> QED
      BY Zenon, <1>8, <3>2, <3>3 DEF AskedRow
  <2> QED
    BY Zenon, <1>1, <1>2, <1>7, <2>1 DEF AskInv
<1>15. ListedInv'
  <2>1. \A d \in listed' : d.sub # s /\ d \in listed
    BY Zenon, <1>1, <1>2 DEF ListedInv, s
  <2>2. ASSUME NEW t \in Stored PROVE Named(t, subs[t].from, subs[t].insured)'
    <3>1. CASE t = s
      BY Zenon, <2>1, <3>1 DEF Named
    <3>2. CASE t # s
      <4>1. subs'[t] = subs[t] /\ Named(t, subs[t].from, subs[t].insured)
        BY Zenon, <1>1, <1>5, <3>2 DEF ListedInv
      <4> QED
        BY Zenon, <2>1, <4>1 DEF Named
    <3> QED
      BY Zenon, <3>1, <3>2
  <2> QED
    BY Zenon, <1>1, <1>5, <2>1, <2>2 DEF ListedInv
<1>16. MissingMatchesDocuments'
  <2>1. ASSUME NEW t \in Stored' \ hist'.stale PROVE RowRight(subs'[t], DocsOf(t)')
    <3>1. RowRight(subs[t], DocsOf(t))
      BY Zenon, <1>1, <1>5, <1>7, <2>1 DEF MissingMatchesDocuments
    <3>2. CASE t = s
      <4>1. c.row = subs[s]
        BY Zenon, <1>7, <2>1, <3>2
      <4>2. RowRight(f, DocsOf(s))
        <5>1. RowRight(c.row, DocsOf(s))
          BY Zenon, <3>1, <3>2, <4>1
        <5>2. f.state \in {"awaiting", "complete", "escalated"} => c.row.state = "awaiting"
          BY <1>4
        <5>3. f.state # "complete"
          BY <1>4
        <5> QED
          BY Zenon, <1>4, <5>1, <5>2, <5>3 DEF RowRight
      <4> QED
        BY Zenon, <1>5, <1>8, <3>2, <4>2
    <3>3. CASE t # s
      BY Zenon, <1>5, <1>8, <2>1, <3>1, <3>3
    <3> QED
      BY Zenon, <3>2, <3>3
  <2> QED
    BY Zenon, <2>1 DEF MissingMatchesDocuments
<1>17. SplitIsAudited'
  <2>1. Unflushed' = Unflushed
    BY Zenon, <1>2 DEF Unflushed
  <2> QED
    BY Zenon, <1>1, <1>2, <1>7, <2>1, SplitStays
<1> QED
  BY Zenon, <1>11, <1>12, <1>13, <1>14, <1>15, <1>16, <1>17 DEF IngestInv

\* A crash loses the ingest in progress and the worker's copies; an entry that was
\* not flushed is lost with them.
LEMMA CrashStep ==
  ASSUME IngestInv, Crash
  PROVE  IngestInv'
<1>1. TypeOK /\ EmailInv /\ AskInv /\ ListedInv /\ MissingMatchesDocuments /\ SplitIsAudited
  BY Zenon DEF IngestInv
<1>2. /\ unread' = unread /\ UNCHANGED tables /\ audit' = audit /\ job' = {} /\ listed' = {}
      /\ hist' = [hist EXCEPT !.lost = @ \cup Unflushed]
  BY Zenon DEF Crash
<1>3. subs' = subs /\ emails' = emails /\ docs' = docs /\ replies' = replies
  BY Zenon, <1>2 DEF tables
<1>4. /\ Stored' = Stored
      /\ \A t : DocsOf(t)' = DocsOf(t) /\ Asked(t)' = Asked(t) /\ Owners(t)' = Owners(t)
  BY Zenon, <1>3 DEF Stored, DocsOf, Asked, Owners
<1>5. hist \in Histories /\ Unflushed \subseteq Mails
  <2>1. \A j \in job : Entry(j) \subseteq Mails
    BY Zenon, <1>1, EntryType
  <2> QED
    BY Zenon, <1>1, <2>1, InUnflushed DEF TypeOK, Histories
<1>6. /\ hist' \in Histories /\ hist'.stale = hist.stale /\ hist'.forgot = hist.forgot
      /\ hist'.lost = hist.lost \cup Unflushed
  <2>1. hist.lost \cup Unflushed \in SUBSET Mails
    BY Zenon, <1>5 DEF Histories
  <2> QED
    BY Zenon, <1>2, <1>5, <2>1 DEF Histories
<1>7. TypeOK'
  BY Zenon, <1>1, <1>2, <1>3, <1>4, <1>6 DEF TypeOK, Histories
<1>8. EmailInv' /\ AskInv' /\ MissingMatchesDocuments'
  BY Zenon, <1>1, <1>3, <1>4, <1>6 DEF EmailInv, AskInv, AskedRow, MissingMatchesDocuments
<1>9. ListedInv' /\ JobInv'
  BY Zenon, <1>1, <1>2, <1>3, <1>4 DEF ListedInv, Named, JobInv
<1>10. SplitIsAudited'
  <2>1. audit \cup hist.lost \cup Unflushed \subseteq (audit \cup hist.lost \cup Unflushed)'
    BY Zenon, <1>2, <1>6
  <2> QED
    BY Zenon, <1>1, <1>3, <2>1, SplitStays
<1> QED
  BY Zenon, <1>7, <1>8, <1>9, <1>10 DEF IngestInv

-----------------------------------------------------------------------------
(* The theorems.                                                           *)

\* Nothing is stored at first.
LEMMA IngestInit ==
  Init => IngestInv
<1> SUFFICES ASSUME Init PROVE IngestInv
  OBVIOUS
<1>1. /\ unread \subseteq Mails /\ subs = [s \in Mails |-> Absent] /\ emails = {} /\ docs = {}
      /\ replies = {} /\ audit = {} /\ job = {} /\ listed = {} /\ hist = NoHistory
  BY Zenon DEF Init
<1>2. Stored = {}
  BY Zenon, <1>1 DEF Stored, Absent
<1>3. Absent \in Submissions
  <2>1. {} \in SUBSET Gaps /\ <<"none", {}>> \in Asks /\ 0 \in Nat
    BY Zenon DEF Asks
  <2>2. NoName \in Senders /\ NoName \in Insureds
    BY Zenon DEF Senders, Insureds
  <2> QED
    BY Zenon, <2>1, <2>2 DEF Absent, Submissions
<1>4. hist \in Histories /\ hist.stale = {}
  BY Zenon, <1>1 DEF NoHistory, Histories
<1>5. TypeOK
  BY Zenon, <1>1, <1>2, <1>3, <1>4 DEF TypeOK, Histories
<1>6. EmailInv /\ AskInv /\ ListedInv /\ JobInv
  BY Zenon, <1>1, <1>2, <1>4 DEF EmailInv, AskInv, ListedInv, JobInv
<1>7. MissingMatchesDocuments /\ SplitIsAudited
  BY Zenon, <1>1, <1>2 DEF MissingMatchesDocuments, SplitIsAudited
<1> QED
  BY Zenon, <1>5, <1>6, <1>7 DEF IngestInv

\* Every step of the program keeps the invariant.
LEMMA IngestNext ==
  IngestInv /\ [Next]_vars => IngestInv'
<1> SUFFICES ASSUME IngestInv, [Next]_vars PROVE IngestInv'
  OBVIOUS
<1>1. ASSUME NEW m \in unread, Starts(m) PROVE IngestInv'
  <2>1. m \in Mails
    BY Zenon DEF IngestInv, TypeOK
  <2>2. CASE IngestDuplicate(m)
    BY Zenon, <2>2, DuplicateStep DEF IngestDuplicate, MarkRead
  <2>3. ASSUME NEW s, IngestBounce(m, s) \/ IngestEmail(m, s) PROVE IngestInv'
    BY Zenon, <2>1, <2>3, BounceStep, EmailStep
  <2> QED
    BY Zenon, <1>1, <2>2, <2>3 DEF Starts
<1>2. ASSUME NEW j \in job, Continues(j) PROVE IngestInv'
  BY Zenon, <1>2, FindStep, MergeStep, CommitStep, EndStep DEF Continues
<1>3. ASSUME NEW j \in job, Fails(j) PROVE IngestInv'
  BY Zenon, <1>3, MergeFailsStep, EndStep DEF Fails
<1>4. ASSUME NEW r \in replies, SendReply(r) \/ RecordReply(r) \/ DeadLetter(r) PROVE IngestInv'
  BY Zenon, <1>4, RepliesStep
<1>5. ASSUME NEW S \in SUBSET Stored, List(S) PROVE IngestInv'
  BY Zenon, <1>5, ListStep
<1>6. ASSUME NEW c \in listed, escalate(c) \/ closeQuiet(c) PROVE IngestInv'
  <2>1. CASE escalate(c)
    BY Zenon, <2>1, UpsertStep DEF escalate
  <2>2. CASE closeQuiet(c)
    <3>1. Upsert(c, "closed") /\ "closed" # "escalated"
      BY <2>2 DEF closeQuiet
    <3> QED
      BY Zenon, <3>1, UpsertStep
  <2> QED
    BY Zenon, <1>6, <2>1, <2>2
<1>7. CASE Crash
  BY Zenon, <1>7, CrashStep
<1>8. CASE UNCHANGED vars
  BY Zenon, <1>8, DuplicateStep DEF vars
<1> QED
  BY Zenon, <1>1, <1>2, <1>3, <1>4, <1>5, <1>6, <1>7, <1>8 DEF Next

\* Only a commit files a message: of the other steps, only the copy of a reply is
\* stored, under an id that is not a message's.
LEMMA OnlyCommitFiles ==
  ASSUME IngestInv, [Next]_vars
  PROVE  \/ \A m : Owners(m)' = Owners(m)
         \/ \E j \in job : Commit(j)
<1>1. emails' = emails => \A m : Owners(m)' = Owners(m)
  BY Zenon DEF Owners
<1>2. ASSUME NEW m, Starts(m) PROVE emails' = emails
  BY Zenon, <1>2 DEF Starts, IngestDuplicate, IngestBounce, IngestEmail, Load, tables
<1>3. ASSUME NEW j \in job, Continues(j) \/ Fails(j) PROVE emails' = emails \/ Commit(j)
  BY Zenon, <1>3
     DEF Continues, Fails, FindMatch, Merge, MergeFails, Flush, FlushFails, IngestFails, tables
<1>4. ASSUME NEW r, SendReply(r) \/ DeadLetter(r) PROVE emails' = emails
  BY Zenon, <1>4 DEF SendReply, DeadLetter
<1>5. ASSUME NEW r, RecordReply(r) PROVE \A m : Owners(m)' = Owners(m)
  <2> DEFINE id == Outbound(r.sub, r.mail)
             row == [id |-> id, sub |-> r.sub, mid |-> id, irt |-> Mail[r.mail].mid]
  <2>1. emails' = emails \cup {row} /\ row.id = id
    BY Zenon, <1>5 DEF RecordReply
  <2>2. \A m : id # Inbound(m)
    BY Zenon, InboundIds
  <2> HIDE DEF id, row
  <2>3. \A m : {e \in emails' : e.id = Inbound(m)} = {e \in emails : e.id = Inbound(m)}
    BY Zenon, <2>1, <2>2
  <2> QED
    BY Zenon, <2>3 DEF Owners
<1>6. ASSUME NEW S, List(S) PROVE emails' = emails
  BY Zenon, <1>6 DEF List, tables
<1>7. ASSUME NEW c, escalate(c) \/ closeQuiet(c) PROVE emails' = emails
  BY Zenon, <1>7 DEF escalate, closeQuiet, Upsert
<1>8. Crash \/ UNCHANGED vars => emails' = emails
  BY Zenon DEF Crash, vars, tables
<1> QED
  BY Zenon, <1>1, <1>2, <1>3, <1>4, <1>5, <1>6, <1>7, <1>8 DEF Next

\* A commit files its message under its submission, which is related.
LEMMA CommitRelated ==
  ASSUME IngestInv, NEW j \in job, Commit(j), NEW m \in Mails,
         NEW s \in (Owners(m)' \ Owners(m)) \ {m}
  PROVE  SameAccount(m, subs'[s]) \/ SameThread(m, s)
<1>1. /\ TargetInv(j) /\ j.mail \in Mails
      /\ subs'[j.sub].from = j.row.from /\ subs'[j.sub].insured = j.row.insured
  BY Zenon, CommitRow
<1>2. \A e \in emails' \ emails : Owners(j.mail) = {} /\ e.id = Inbound(j.mail) /\ e.sub = j.sub
  <2>1. emails' = Recorded(j.mail, j.sub)
    BY Zenon DEF Commit
  <2>2. \A e \in emails' \ emails :
          /\ Owners(j.mail) = {} /\ e.id = Inbound(j.mail) /\ e.sub = j.sub
          /\ e.mid = Mail[j.mail].mid /\ e.irt = Mail[j.mail].irt
    BY Zenon, <1>1, <2>1, RecordedRows
  <2> QED
    BY Zenon, <2>2
<1>3. PICK e \in emails' : e.id = Inbound(m) /\ e.sub = s
  BY Zenon DEF Owners
<1>4. e \notin emails
  BY Zenon, <1>3 DEF Owners
<1>5. m = j.mail /\ s = j.sub /\ Owners(m) = {}
  BY Zenon, <1>2, <1>3, <1>4, InboundIds
<1>6. SameAccount(m, j.row) \/ SameThread(m, s)
  BY Zenon, <1>1, <1>5 DEF TargetInv
<1> QED
  BY Zenon, <1>1, <1>5, <1>6 DEF SameAccount

\* The inductive invariant of filing holds in every reachable state, with the
\* workers' writes, failures and crashes between any two steps of an ingest.
THEOREM IngestInvariant ==
  Spec => []IngestInv
<1> QED
  BY IngestInit, IngestNext, PTL DEF Spec

\* Every variable keeps its type, and the tables name submissions that exist.
THEOREM IngestTypes ==
  Spec => []TypeOK
<1>1. IngestInv => TypeOK
  BY Zenon DEF IngestInv
<1> QED
  BY <1>1, IngestInvariant, PTL

\* missing_items names exactly the items that the stored documents leave open,
\* but where the escalation worker wrote an older row back and no email was
\* evaluated since (upsertSubmissionRow).
THEOREM MissingIsRight ==
  Spec => []MissingMatchesDocuments
<1>1. IngestInv => MissingMatchesDocuments
  BY Zenon DEF IngestInv
<1> QED
  BY <1>1, IngestInvariant, PTL

\* When an email is filed, it is where its thread, or its sender and account,
\* belong (contentMatch).
THEOREM MailIsRelated ==
  Spec => OnlyRelatedMail
<1> DEFINE A == \A m \in Mails : \A s \in (Owners(m)' \ Owners(m)) \ {m} :
                  SameAccount(m, subs'[s]) \/ SameThread(m, s)
<1>1. IngestInv /\ [Next]_vars => [A]_vars
  <2> SUFFICES ASSUME IngestInv, [Next]_vars PROVE A
    OBVIOUS
  <2>1. CASE \A m : Owners(m)' = Owners(m)
    BY Zenon, <2>1
  <2>2. CASE \E j \in job : Commit(j)
    BY Zenon, <2>2, CommitRelated
  <2> QED
    BY Zenon, <2>1, <2>2, OnlyCommitFiles
<1> QED
  BY <1>1, IngestInvariant, PTL DEF Spec, OnlyRelatedMail

\* A thread in two submissions is in the audit log, its entry is about to be
\* written, or it was lost after the commit (flushAudit).
THEOREM SplitsAudited ==
  Spec => []SplitIsAudited
<1>1. IngestInv => SplitIsAudited
  BY Zenon DEF IngestInv
<1> QED
  BY <1>1, IngestInvariant, PTL

\* A broker is asked for the line of business once, unless the fingerprint of the
\* question was lost (ClearReplyHash, upsertSubmissionRow).
THEOREM AskedOnce ==
  Spec => []ClarifiedOnce
<1>1. IngestInv => ClarifiedOnce
  BY Zenon DEF IngestInv, AskInv, ClarifiedOnce
<1> QED
  BY <1>1, IngestInvariant, PTL

=============================================================================
