---------------------------- MODULE SpendProofs -----------------------------
(***************************************************************************)
(* The daily cap holds for every cap, cost, number of attempts and days.   *)
(***************************************************************************)
EXTENDS Spend, FiniteSetTheorems, TLAPS

\* The room a call admitted without a total takes (fail open on a read error).
LEMMA ExcessGrows ==
  ASSUME MaxCost \in Nat, NEW b \in Nat
  PROVE  /\ MaxCost * b \in Nat
         /\ MaxCost * (b + 1) = MaxCost * b + MaxCost
  OBVIOUS

\* The records a call begins and ends with (callMessages).
LEMMA CallTypes ==
  ASSUME Attempts \in Nat, MaxCost \in Nat
  PROVE  LET R == [pc : {"idle", "try", "wait", "add", "capped"},
                   try : 0 .. Attempts, cost : 0 .. MaxCost, expired : BOOLEAN]
         IN /\ Idle \in R /\ Idle.pc = "idle"
            /\ [Idle EXCEPT !.pc = "try"] \in R
            /\ [Idle EXCEPT !.pc = "try"].try = 0
            /\ [Idle EXCEPT !.pc = "capped"] \in R
            /\ [Idle EXCEPT !.pc = "capped"].pc = "capped"
<1>1. 0 \in 0 .. Attempts /\ 0 \in 0 .. MaxCost
  OBVIOUS
<1> QED
  BY Zenon, <1>1 DEF Idle

\* The cap is kept by every initial state (an empty llm_spend table).
LEMMA SpendInit ==
  Init => SpendInv
<1> SUFFICES ASSUME Init PROVE SpendInv
  BY Zenon
<1> USE SpendAssumption
<1>1. 0 \in Days /\ 0 \in 0 .. Attempts /\ 0 \in 0 .. MaxCost
  BY DEF Days
<1>2. TypeOK
  BY Zenon, <1>1 DEF Init, TypeOK, Idle, Days, NoDay
<1>3. Excess \in Nat
  BY Zenon, ExcessGrows, <1>2 DEF Excess, TypeOK
<1>4. CappedIsAudited
  BY Zenon DEF Init, CappedIsAudited
<1>5. \A d \in Days : spend[d] = 0
  BY Zenon DEF Init
<1>6. call.pc = "idle"
  BY Zenon DEF Init, Idle
<1>7. Cap > 0 => \A d \in Days : spend[d] < Cap + Excess + MaxCost
  BY <1>3, <1>5
<1> QED
  BY Zenon, <1>2, <1>4, <1>5, <1>6, <1>7 DEF SpendInv

\* Admission reads a total below the cap (callMessages), or fails open.
LEMMA StartStep ==
  ASSUME SpendInv, Start \/ AdmitBlind
  PROVE  SpendInv'
<1> USE SpendAssumption DEF SpendInv
<1>1. Excess \in Nat /\ 0 \in 0 .. Attempts /\ 0 \in 0 .. MaxCost
  BY ExcessGrows DEF Excess, TypeOK
<1>2. CASE Admit
  <2>1. TypeOK'
    BY Zenon, CallTypes, <1>2 DEF Admit, TypeOK
  <2>2. Excess' = Excess /\ spend' = spend /\ day' = day
    BY Zenon, <1>2 DEF Admit, Excess
  <2>3. Cap > 0 => spend[day] < Cap
    BY <1>2 DEF Admit, Capped, TypeOK
  <2>4. CappedIsAudited'
    BY Zenon, <1>2 DEF Admit, CappedIsAudited
  <2>5. call'.try < Attempts
    BY CallTypes, <1>2 DEF Admit
  <2> QED
    BY <1>1, <2>1, <2>2, <2>3, <2>4, <2>5 DEF TypeOK
<1>3. CASE Refuse
  <2>1. TypeOK'
    BY Zenon, CallTypes, <1>3 DEF Refuse, TypeOK
  <2>2. Excess' = Excess /\ spend' = spend /\ day' = day /\ call'.pc = "capped"
    BY Zenon, <1>3 DEF Refuse, Excess, Idle
  <2>3. CappedIsAudited'
    BY Zenon, <1>3 DEF Refuse, CappedIsAudited
  <2> QED
    BY Zenon, <2>1, <2>2, <2>3
<1>4. CASE AdmitBlind
  <2>1. TypeOK'
    BY CallTypes, <1>4 DEF AdmitBlind, TypeOK
  <2>2. spend' = spend /\ day' = day
    BY Zenon, <1>4 DEF AdmitBlind
  <2>3. Excess' = Excess + MaxCost
    BY Zenon, <1>4, ExcessGrows DEF AdmitBlind, Excess, TypeOK
  <2>4. CappedIsAudited'
    BY Zenon, <1>4 DEF AdmitBlind, CappedIsAudited
  <2>5. (Cap > 0 => \A d \in Days : spend[d] < Cap + Excess + MaxCost + MaxCost)
    BY <1>1 DEF TypeOK
  <2>6. call'.try < Attempts
    BY CallTypes, <1>4 DEF AdmitBlind
  <2> QED
    BY <1>1, <2>1, <2>2, <2>3, <2>4, <2>5, <2>6 DEF TypeOK
<1> QED
  BY Zenon, <1>2, <1>3, <1>4 DEF Start

\* Attempts, their failures and the end of the context leave the totals alone
\* (retry.Do).
LEMMA AttemptStep ==
  ASSUME SpendInv,
         \/ Stop \/ (\E cost \in 0 .. MaxCost : Answer(cost)) \/ Backoff
         \/ Transient \/ PermanentError \/ Expire
  PROVE  SpendInv'
<1> USE SpendAssumption DEF SpendInv
<1>1. 0 \in 0 .. Attempts /\ 0 \in 0 .. MaxCost
  OBVIOUS
<1>2. /\ spend' = spend /\ day' = day /\ Excess' = Excess
      /\ cappedDay' = cappedDay /\ audits' = audits
  BY Zenon DEF Stop, Answer, Backoff, Transient, PermanentError, Expire, Excess
<1>3. call.try \in Nat /\ (call.pc \in {"try", "wait"} => call.try + 1 \in 0 .. Attempts)
  <2>1. call.try \in 0 .. Attempts
    BY Zenon DEF TypeOK
  <2> QED
    BY <2>1
<1>4. /\ call'.pc \in {"try", "wait", "add"} => call.pc \in {"try", "wait", "add"}
      /\ call'.pc \in {"try", "wait"} => call'.try < Attempts
  <2>1. CASE Stop \/ PermanentError
    BY Zenon, CallTypes, <2>1 DEF Stop, PermanentError
  <2>2. CASE \E cost \in 0 .. MaxCost : Answer(cost)
    BY Zenon, <2>2 DEF Answer, TypeOK
  <2>3. CASE Backoff
    BY Zenon, <2>3 DEF Backoff, TypeOK
  <2>4. CASE Transient
    <3>1. CASE call.try + 1 = Attempts
      BY Zenon, CallTypes, <2>4, <3>1 DEF Transient
    <3>2. CASE call.try + 1 # Attempts
      BY <1>3, <2>4, <3>2 DEF Transient, TypeOK
    <3> QED
      BY Zenon, <3>1, <3>2
  <2>5. CASE Expire
    BY Zenon, <2>5 DEF Expire, TypeOK
  <2> QED
    BY Zenon, <2>1, <2>2, <2>3, <2>4, <2>5
<1>5. TypeOK'
  <2>1. CASE Stop \/ PermanentError
    BY Zenon, CallTypes, <2>1 DEF Stop, PermanentError, TypeOK
  <2>2. CASE \E cost \in 0 .. MaxCost : Answer(cost)
    <3>1. PICK cost \in 0 .. MaxCost : Answer(cost)
      BY Zenon, <2>2
    <3>2. call.try + 1 \in 0 .. Attempts
      BY Zenon, <1>3, <3>1 DEF Answer
    <3> QED
      BY Zenon, <3>1, <3>2 DEF Answer, TypeOK
  <2>3. CASE Backoff
    BY Zenon, <2>3 DEF Backoff, TypeOK
  <2>4. CASE Transient
    <3>1. call.try + 1 \in 0 .. Attempts
      BY Zenon, <1>3, <2>4 DEF Transient
    <3> QED
      BY Zenon, CallTypes, <2>4, <3>1 DEF Transient, TypeOK
  <2>5. CASE Expire
    BY Zenon, <2>5 DEF Expire, TypeOK
  <2> QED
    BY Zenon, <2>1, <2>2, <2>3, <2>4, <2>5
<1>6. CappedIsAudited'
  BY Zenon, <1>2 DEF CappedIsAudited
<1> QED
  BY Zenon, <1>2, <1>4, <1>5, <1>6

\* What an answer cost is added to the total of the day on which it is recorded
\* (LLMSpendRepository.Add), or is lost.
LEMMA AddStep ==
  ASSUME SpendInv, Add \/ AddFails
  PROVE  SpendInv'
<1> USE SpendAssumption DEF SpendInv
<1>1. Excess \in Nat /\ 0 \in 0 .. Attempts /\ 0 \in 0 .. MaxCost
  BY ExcessGrows DEF Excess, TypeOK
<1>2. Excess' = Excess /\ day' = day /\ call'.pc = "idle"
  BY DEF Add, AddFails, Excess, Idle
<1>3. TypeOK'
  <2>1. call.cost \in Nat /\ spend[day] + call.cost \in Nat
    BY DEF TypeOK
  <2>2. CASE Add
    BY CallTypes, <2>1, <2>2 DEF Add, TypeOK
  <2>3. CASE AddFails
    BY CallTypes, <2>1, <2>3 DEF AddFails, TypeOK
  <2> QED
    BY Zenon, <2>2, <2>3
<1>4. CappedIsAudited'
  BY DEF Add, AddFails, CappedIsAudited
<1>5. CASE AddFails
  BY Zenon, <1>2, <1>3, <1>4, <1>5 DEF AddFails
<1>6. CASE Add
  <2>1. /\ spend'[day] = spend[day] + call.cost
        /\ \A d \in Days : d # day => spend'[d] = spend[d]
    BY Zenon, <1>6 DEF Add, TypeOK
  <2>2. Cap > 0 => spend[day] < Cap + Excess
    BY Zenon, <1>6 DEF Add
  <2>3. Cap > 0 => spend'[day] < Cap + Excess + MaxCost
    BY <1>1, <2>1, <2>2 DEF TypeOK
  <2>4. Cap > 0 => \A d \in Days : spend'[d] < Cap + Excess + MaxCost
    BY Zenon, <2>1, <2>3
  <2>5. \A d \in Days : d > day => spend'[d] = 0
    BY <2>1 DEF TypeOK, Days
  <2> QED
    BY Zenon, <1>2, <1>3, <1>4, <2>4, <2>5
<1> QED
  BY Zenon, <1>5, <1>6

\* The memory of the audited day is only kept with the entry (auditCapOnce).
LEMMA AuditStep ==
  ASSUME SpendInv, auditCapOnce \/ auditCapFails \/ Crash
  PROVE  SpendInv'
<1> USE SpendAssumption DEF SpendInv
<1>1. 0 \in 0 .. Attempts /\ 0 \in 0 .. MaxCost
  OBVIOUS
<1>2. spend' = spend /\ day' = day /\ Excess' = Excess /\ call'.pc = "idle"
  BY DEF auditCapOnce, auditCapFails, Crash, Excess, Idle
<1>3. TypeOK'
  BY Zenon, CallTypes DEF auditCapOnce, auditCapFails, Crash, TypeOK
<1>4. CappedIsAudited'
  BY DEF auditCapOnce, auditCapFails, Crash, CappedIsAudited
<1> QED
  BY Zenon, <1>2, <1>3, <1>4

\* A new day has no total: the call under way has room (utcDay).
LEMMA MidnightStep ==
  ASSUME SpendInv, Midnight
  PROVE  SpendInv'
<1> USE SpendAssumption DEF SpendInv
<1>1. Excess \in Nat
  BY Zenon, ExcessGrows DEF Excess, TypeOK
<1>2. /\ spend' = spend /\ day' = day + 1 /\ Excess' = Excess /\ call' = call
      /\ day' \in Days
  BY DEF Midnight, Excess, TypeOK, Days
<1>3. TypeOK'
  BY Zenon, <1>2 DEF Midnight, TypeOK
<1>4. CappedIsAudited'
  BY Zenon DEF Midnight, CappedIsAudited
<1>5. spend[day + 1] = 0
  BY <1>2 DEF TypeOK, Days
<1>6. \A d \in Days : d > day + 1 => spend[d] = 0
  BY DEF TypeOK, Days
<1> QED
  BY <1>1, <1>2, <1>3, <1>4, <1>5, <1>6

\* The inductive invariant of the spend tracking (callMessages, retry.Do,
\* LLMSpendRepository, auditCapOnce) holds in every reachable state.
THEOREM SpendInvariant ==
  Spec => []SpendInv
<1>1. Init => SpendInv
  BY Zenon, SpendInit
<1>2. SpendInv /\ [Next]_vars => SpendInv'
  <2> SUFFICES ASSUME SpendInv, [Next]_vars PROVE SpendInv'
    BY Zenon
  <2>1. CASE UNCHANGED vars
    BY Zenon, <2>1 DEF vars, SpendInv, TypeOK, CappedIsAudited, Excess
  <2>2. CASE Next
    BY Zenon, <2>2, StartStep, AttemptStep, AddStep, AuditStep, MidnightStep
       DEF Next, Start, Step, Fault, TableFault
  <2> QED
    BY Zenon, <2>1, <2>2
<1> QED
  BY <1>1, <1>2, PTL DEF Spec

\* A day's recorded total passes LLM_DAILY_USD_CAP by at most the cost of one
\* call and of those admitted without a total, over any midnight and restart.
THEOREM CapIsKept ==
  Spec => []CapHolds
<1>1. SpendInv => CapHolds
  BY SpendAssumption, ExcessGrows DEF SpendInv, CapHolds, Excess, TypeOK
<1> QED
  BY <1>1, SpendInvariant, PTL

\* If the process remembers having audited the cap on a day, the audit log has
\* the entry (auditCapOnce).
THEOREM CapIsAudited ==
  Spec => []CappedIsAudited
<1>1. SpendInv => CappedIsAudited
  BY Zenon DEF SpendInv
<1> QED
  BY <1>1, SpendInvariant, PTL

-----------------------------------------------------------------------------
(* The table accounts for the answers.                                     *)

\* A finite number of days has a finite number of units.
LEMMA UnitsFinite ==
  ASSUME NEW f \in [Days -> Nat]
  PROVE  IsFiniteSet(Units(f))
<1> DEFINE of(d) == {d} \X (1 .. f[d])
           S == {of(d) : d \in Days}
           g == [d \in Days |-> of(d)]
<1>1. IsFiniteSet(Days)
  BY SpendAssumption, FS_Interval DEF Days
<1>2. ASSUME NEW d \in Days PROVE IsFiniteSet(of(d))
  <2>1. IsFiniteSet({d})
    BY Zenon, FS_Singleton
  <2>2. IsFiniteSet(1 .. f[d])
    <3>1. 1 \in Int /\ f[d] \in Int
      OBVIOUS
    <3> QED
      BY Zenon, <3>1, FS_Interval
  <2> QED
    BY Zenon, <2>1, <2>2, FS_Product
<1> HIDE DEF of
<1>3. g \in Surjection(Days, S)
  BY Zenon DEF Surjection
<1>4. IsFiniteSet(S)
  <2> HIDE DEF g, S
  <2> QED
    BY Zenon, <1>1, <1>3, FS_Surjection
<1>5. \A T \in S : IsFiniteSet(T)
  BY Zenon, <1>2
<1>6. IsFiniteSet(UNION S)
  <2> HIDE DEF S
  <2> QED
    BY Zenon, <1>4, <1>5, FS_UNION
<1> QED
  BY Zenon, <1>6 DEF Units, of

\* A day without a total adds nothing.
LEMMA NoUnits ==
  Cardinality(Units([d \in Days |-> 0])) = 0
<1>1. 1 .. 0 = {}
  OBVIOUS
<1>2. Units([d \in Days |-> 0]) = {}
  BY Zenon, <1>1 DEF Units
<1> QED
  BY Zenon, <1>2, FS_EmptySet

\* A cost that is added to the total of one day adds as many units.
LEMMA UnitsAdded ==
  ASSUME NEW f \in [Days -> Nat], NEW e \in Days, NEW c \in Nat
  PROVE  /\ Cardinality(Units(f)) \in Nat
         /\ Cardinality(Units([f EXCEPT ![e] = @ + c])) = Cardinality(Units(f)) + c
<1> DEFINE g == [f EXCEPT ![e] = @ + c]
           N == (f[e] + 1) .. (f[e] + c)
           X == {e} \X N
<1>1. /\ f[e] \in Nat /\ g \in [Days -> Nat] /\ g[e] = f[e] + c
      /\ \A d \in Days : d # e => g[d] = f[d]
  OBVIOUS
<1>2. IsFiniteSet(N) /\ Cardinality(N) = c
  <2>1. f[e] + 1 \in Int /\ f[e] + c \in Int
    BY <1>1
  <2>2. /\ IsFiniteSet(N)
        /\ Cardinality(N) = IF f[e] + 1 > f[e] + c THEN 0 ELSE (f[e] + c) - (f[e] + 1) + 1
    BY Zenon, <2>1, FS_Interval
  <2> QED
    BY <1>1, <2>2
<1>3. IsFiniteSet(X) /\ Cardinality(X) = c
  <2> HIDE DEF N
  <2>1. IsFiniteSet({e}) /\ Cardinality({e}) = 1
    BY Zenon, FS_Singleton
  <2>2. IsFiniteSet(X) /\ Cardinality(X) = Cardinality({e}) * Cardinality(N)
    BY Zenon, <1>2, <2>1, FS_Product
  <2> QED
    BY <1>2, <2>1, <2>2
<1>4. 1 .. g[e] = (1 .. f[e]) \cup N /\ (1 .. f[e]) \cap N = {}
  BY <1>1
<1> HIDE DEF N, g
<1>5. \A u : u \in Units(f) <=> \E d \in Days : u \in {d} \X (1 .. f[d])
  BY Zenon DEF Units
<1>6. \A u : u \in Units(g) <=> \E d \in Days : u \in {d} \X (1 .. g[d])
  BY Zenon DEF Units
<1>7. {e} \X (1 .. g[e]) = ({e} \X (1 .. f[e])) \cup X
  BY Zenon, <1>4
<1>8. Units(g) = Units(f) \cup X
  <2> HIDE DEF X
  <2> QED
    BY Zenon, <1>1, <1>5, <1>6, <1>7
<1>9. Units(f) \cap X = {}
  <2> SUFFICES ASSUME NEW u \in Units(f), u \in X PROVE FALSE
    BY Zenon
  <2>1. PICK d \in Days : u \in {d} \X (1 .. f[d])
    BY Zenon, <1>5
  <2>2. u[1] = d /\ u[2] \in 1 .. f[d]
    BY <2>1
  <2>3. u[1] = e /\ u[2] \in N
    BY Zenon
  <2> QED
    BY Zenon, <1>4, <2>2, <2>3
<1>10. IsFiniteSet(Units(f)) /\ Cardinality(Units(f)) \in Nat
  BY Zenon, UnitsFinite, FS_CardinalityType
<1> HIDE DEF X
<1>11. Cardinality(Units(g)) = Cardinality(Units(f)) + Cardinality(X) - Cardinality({})
  BY Zenon, <1>3, <1>8, <1>9, <1>10, FS_Union
<1>12. Cardinality(Units(g)) = Cardinality(Units(f)) + c
  BY <1>3, <1>10, <1>11, FS_EmptySet
<1> QED
  BY Zenon, <1>10, <1>12 DEF g

\* Only an answer that is recorded, or whose recording fails, moves the accounts.
LEMMA RecordedStep ==
  ASSUME SpendInv, AnswersRecorded, [Next]_vars
  PROVE  AnswersRecorded'
<1>1. /\ spend \in [Days -> Nat] /\ day \in Days /\ call.cost \in Nat
      /\ answered \in Nat /\ dropped \in Nat
  BY SpendAssumption DEF SpendInv, TypeOK
<1>2. /\ Cardinality(Units(spend)) \in Nat
      /\ Cardinality(Units([spend EXCEPT ![day] = @ + call.cost])) =
           Cardinality(Units(spend)) + call.cost
  BY Zenon, <1>1, UnitsAdded
<1>3. CASE Add
  <2>1. /\ spend' = [spend EXCEPT ![day] = @ + call.cost]
        /\ answered' = answered + call.cost /\ dropped' = dropped
    BY Zenon, <1>3 DEF Add
  <2>2. Cardinality(Units(spend')) = Cardinality(Units(spend)) + call.cost
    BY Zenon, <1>2, <2>1
  <2>3. Cardinality(Units(spend')) + dropped' = answered'
    BY <1>1, <1>2, <2>1, <2>2 DEF AnswersRecorded
  <2> QED
    BY Zenon, <2>3 DEF AnswersRecorded, Units
<1>4. CASE AddFails
  <2>1. /\ spend' = spend
        /\ answered' = answered + call.cost /\ dropped' = dropped + call.cost
    BY Zenon, <1>4 DEF AddFails
  <2>2. Cardinality(Units(spend)) + dropped' = answered'
    BY <1>1, <1>2, <2>1 DEF AnswersRecorded
  <2> QED
    BY Zenon, <2>1, <2>2 DEF AnswersRecorded, Units
<1>5. CASE UNCHANGED <<spend, answered, dropped>>
  BY Zenon, <1>5 DEF AnswersRecorded, Units
<1>6. Add \/ AddFails \/ UNCHANGED <<spend, answered, dropped>>
  BY Zenon DEF Next, Start, Step, Fault, TableFault, Admit, Refuse, Stop, Answer, Backoff,
               auditCapOnce, Transient, PermanentError, auditCapFails, Expire, Crash,
               AdmitBlind, Midnight, vars
<1> QED
  BY Zenon, <1>3, <1>4, <1>5, <1>6

\* The llm_spend table accounts for every answer the ingest was given, over any
\* midnight and restart, except those whose recording failed.
THEOREM AnswersAccounted ==
  Spec => []AnswersRecorded
<1>1. Init => AnswersRecorded
  <2> SUFFICES ASSUME Init PROVE AnswersRecorded
    BY Zenon
  <2>1. Cardinality(Units(spend)) = 0 /\ dropped = 0 /\ answered = 0
    BY Zenon, NoUnits DEF Init
  <2> QED
    BY <2>1 DEF AnswersRecorded
<1>2. SpendInv /\ AnswersRecorded /\ [Next]_vars => AnswersRecorded'
  BY Zenon, RecordedStep
<1> QED
  BY <1>1, <1>2, SpendInvariant, PTL DEF Spec

=============================================================================
