------------------------------- MODULE Spend --------------------------------
(***************************************************************************)
(* Calls to the language model under the daily cap                         *)
(* (internal/infrastructure/llm/anthropic.go callMessages, pkg/retry Do,   *)
(* internal/repository/llm_spend.go, auditCapOnce of the service).         *)
(*                                                                         *)
(* Only the ingesting goroutine calls the model, so there is one call at a *)
(* time.  It is admitted against today's recorded total, tried up to       *)
(* Attempts times, and its cost is added to the total of the day on which  *)
(* it ends.  Midnight, the end of the caller's context and a crash come    *)
(* between any two steps; the totals survive a crash, the memory of the    *)
(* last audited day does not.                                              *)
(***************************************************************************)
EXTENDS Naturals, FiniteSets

CONSTANTS
  Cap,        \* LLM_DAILY_USD_CAP, 0 for none
  MaxCost,    \* the cost of the dearest answer
  Attempts,   \* retryAttempts
  LastDay     \* bound on the days that pass

ASSUME SpendAssumption ==
  /\ Cap \in Nat
  /\ MaxCost \in Nat
  /\ Attempts \in Nat \ {0}
  /\ LastDay \in Nat

Days == 0 .. LastDay

NoDay == LastDay + 1

VARIABLES
  day,         \* the UTC day
  spend,       \* the llm_spend table
  call,        \* the call in progress
  blind,       \* calls admitted because the total could not be read
  answered,    \* the cost of all answers given to the ingest
  dropped,     \* the part of it whose recording failed
  cappedDay,   \* the day audited last, in memory
  audits       \* days with an llm.capped entry in the audit log

vars == <<day, spend, call, blind, answered, dropped, cappedDay, audits>>

\* try counts the requests sent, cost is usage.EstimatedCostUSD.
Idle == [pc |-> "idle", try |-> 0, cost |-> 0, expired |-> FALSE]

Init ==
  /\ day = 0
  /\ spend = [d \in Days |-> 0]
  /\ call = Idle
  /\ blind = 0
  /\ answered = 0
  /\ dropped = 0
  /\ cappedDay = NoDay
  /\ audits = {}

-----------------------------------------------------------------------------
(* callMessages.                                                           *)

Capped == Cap > 0 /\ spend[day] >= Cap

\* Mutant: a call may start that takes the total to the cap and beyond.
AdmitAtCap ==
  /\ call.pc = "idle"
  /\ ~(Cap > 0 /\ spend[day] > Cap)
  /\ call' = [Idle EXCEPT !.pc = "try"]
  /\ UNCHANGED <<day, spend, blind, answered, dropped, cappedDay, audits>>

Admit ==
  /\ call.pc = "idle"
  /\ ~Capped
  /\ call' = [Idle EXCEPT !.pc = "try"]
  /\ UNCHANGED <<day, spend, blind, answered, dropped, cappedDay, audits>>

\* "fail open on a read error"
AdmitBlind ==
  /\ call.pc = "idle"
  /\ Cap > 0
  /\ call' = [Idle EXCEPT !.pc = "try"]
  /\ blind' = blind + 1
  /\ UNCHANGED <<day, spend, answered, dropped, cappedDay, audits>>

Refuse ==
  /\ call.pc = "idle"
  /\ Capped
  /\ call' = [Idle EXCEPT !.pc = "capped"]
  /\ UNCHANGED <<day, spend, blind, answered, dropped, cappedDay, audits>>

\* retry.Do: the context is looked at before every attempt and while waiting.
Stop ==
  /\ call.pc \in {"try", "wait"}
  /\ call.expired
  /\ call' = Idle
  /\ UNCHANGED <<day, spend, blind, answered, dropped, cappedDay, audits>>

\* The answer of the model, which costs what its usage says.
Answer(cost) ==
  /\ call.pc = "try"
  /\ ~call.expired
  /\ call' = [call EXCEPT !.pc = "add", !.try = @ + 1, !.cost = cost]
  /\ UNCHANGED <<day, spend, blind, answered, dropped, cappedDay, audits>>

\* Mutant: one attempt too many.
TransientOnceMore ==
  /\ call.pc = "try"
  /\ ~call.expired
  /\ call' = IF call.try = Attempts THEN Idle
             ELSE [call EXCEPT !.pc = "wait", !.try = @ + 1]
  /\ UNCHANGED <<day, spend, blind, answered, dropped, cappedDay, audits>>

\* Mutant: failed attempts are not counted.
TransientUncounted ==
  /\ call.pc = "try"
  /\ ~call.expired
  /\ call' = [call EXCEPT !.pc = "wait"]
  /\ UNCHANGED <<day, spend, blind, answered, dropped, cappedDay, audits>>

\* A server error, 429, a timeout or a body that does not decode.
Transient ==
  /\ call.pc = "try"
  /\ ~call.expired
  /\ call' = IF call.try + 1 = Attempts THEN Idle
             ELSE [call EXCEPT !.pc = "wait", !.try = @ + 1]
  /\ UNCHANGED <<day, spend, blind, answered, dropped, cappedDay, audits>>

\* A 4xx other than 429.
PermanentError ==
  /\ call.pc = "try"
  /\ ~call.expired
  /\ call' = Idle
  /\ UNCHANGED <<day, spend, blind, answered, dropped, cappedDay, audits>>

\* The timer of the backoff; the select may take it although the context ended.
Backoff ==
  /\ call.pc = "wait"
  /\ call' = [call EXCEPT !.pc = "try"]
  /\ UNCHANGED <<day, spend, blind, answered, dropped, cappedDay, audits>>

\* Mutant: the row of the day is replaced.
AddReplaces ==
  /\ call.pc = "add"
  /\ spend' = [spend EXCEPT ![day] = call.cost]
  /\ answered' = answered + call.cost
  /\ call' = Idle
  /\ UNCHANGED <<day, blind, dropped, cappedDay, audits>>

Add ==
  /\ call.pc = "add"
  /\ spend' = [spend EXCEPT ![day] = @ + call.cost]
  /\ answered' = answered + call.cost
  /\ call' = Idle
  /\ UNCHANGED <<day, blind, dropped, cappedDay, audits>>

\* The error of Add is ignored, the answer is used.
AddFails ==
  /\ call.pc = "add"
  /\ answered' = answered + call.cost
  /\ dropped' = dropped + call.cost
  /\ call' = Idle
  /\ UNCHANGED <<day, spend, blind, cappedDay, audits>>

-----------------------------------------------------------------------------
(* auditCapOnce.                                                           *)

\* Mutant: the day stays claimed when the entry could not be written.
auditCapFailsClaimed ==
  /\ call.pc = "capped"
  /\ cappedDay # day
  /\ cappedDay' = day
  /\ call' = Idle
  /\ UNCHANGED <<day, spend, blind, answered, dropped, audits>>

auditCapOnce ==
  /\ call.pc = "capped"
  /\ cappedDay' = day
  /\ audits' = IF cappedDay = day THEN audits ELSE audits \cup {day}
  /\ call' = Idle
  /\ UNCHANGED <<day, spend, blind, answered, dropped>>

\* "let a later ingest retry the audit"
auditCapFails ==
  /\ call.pc = "capped"
  /\ cappedDay # day
  /\ cappedDay' = NoDay
  /\ call' = Idle
  /\ UNCHANGED <<day, spend, blind, answered, dropped, audits>>

-----------------------------------------------------------------------------
(* What happens around a call.                                             *)

Midnight ==
  /\ day < LastDay
  /\ day' = day + 1
  /\ UNCHANGED <<spend, call, blind, answered, dropped, cappedDay, audits>>

\* The poll timeout passes, or the process is told to stop.
Expire ==
  /\ call.pc # "idle"
  /\ ~call.expired
  /\ call' = [call EXCEPT !.expired = TRUE]
  /\ UNCHANGED <<day, spend, blind, answered, dropped, cappedDay, audits>>

Crash ==
  /\ call' = Idle
  /\ cappedDay' = NoDay
  /\ UNCHANGED <<day, spend, blind, answered, dropped, audits>>

Start == Admit \/ Refuse

Step ==
  \/ Stop \/ (\E cost \in 0 .. MaxCost : Answer(cost))
  \/ Backoff \/ Add \/ auditCapOnce

Fault == Transient \/ PermanentError \/ auditCapFails \/ Expire \/ Crash

\* The spend table cannot be read or written.
TableFault == AdmitBlind \/ AddFails

Next == Start \/ Step \/ Fault \/ TableFault \/ Midnight

Spec == Init /\ [][Next]_vars

-----------------------------------------------------------------------------
(* Properties.                                                             *)

\* Every variable keeps its type.
TypeOK ==
  /\ day \in Days
  /\ spend \in [Days -> Nat]
  /\ call \in [pc : {"idle", "try", "wait", "add", "capped"},
               try : 0 .. Attempts, cost : 0 .. MaxCost, expired : BOOLEAN]
  /\ blind \in Nat /\ answered \in Nat /\ dropped \in Nat
  /\ cappedDay \in Days \cup {NoDay}
  /\ audits \subseteq Days

\* LLM_DAILY_USD_CAP: a day's recorded total passes the cap by at most one call,
\* and by one more for each call admitted while the total could not be read,
\* although a call is admitted on one day and may be recorded on the next, and
\* the process restarts ("a restart doesn't reset the running total").
CapHolds ==
  Cap > 0 => \A d \in Days : spend[d] < Cap + MaxCost * (blind + 1)

\* What the totals add up to, unit by unit.
Units(totals) == UNION {{d} \X (1 .. totals[d]) : d \in Days}

\* The table accounts for every answer the ingest was given, over any midnight
\* and restart, except those whose recording failed.
AnswersRecorded == Cardinality(Units(spend)) + dropped = answered

\* auditCapOnce remembers the day it has audited, so as not to repeat the entry:
\* the entry of a remembered day is in the log, also if a first attempt failed.
CappedIsAudited == cappedDay # NoDay => cappedDay \in audits

\* The goroutine goes on, and the timer of the backoff fires.
Fairness == WF_vars(Step) /\ WF_vars(Start)

FairSpec == Spec /\ Fairness

\* A call ends, however often and whichever way the model fails (retry.Do): the
\* ingest goes on.
CallEnds == call.pc # "idle" ~> call.pc = "idle"

-----------------------------------------------------------------------------
(* The inductive invariant behind those properties.                        *)

Excess == MaxCost * blind

\* While a call is under way today's total has room for it, and no later day
\* has a total yet: a call that passes midnight starts that day's total.  A call
\* that is not over has an attempt left.
SpendInv ==
  /\ TypeOK
  /\ \A d \in Days : d > day => spend[d] = 0
  /\ Cap > 0 => \A d \in Days : spend[d] < Cap + Excess + MaxCost
  /\ Cap > 0 /\ call.pc \in {"try", "wait", "add"} => spend[day] < Cap + Excess
  /\ call.pc \in {"try", "wait"} => call.try < Attempts
  /\ CappedIsAudited

=============================================================================
