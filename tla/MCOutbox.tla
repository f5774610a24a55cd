------------------------------ MODULE MCOutbox ------------------------------
(***************************************************************************)
(* Outbox for TLC.  What could happen without end - mail, faults, crashes, *)
(* moves in the Hold folder, sweeps of escalation and retention - is       *)
(* bounded by a budget each; the other steps of the process are not.       *)
(***************************************************************************)
EXTENDS Outbox, TLC

CONSTANTS
  MailKinds,    \* the kinds of mail that arrive
  MaxMail, MaxFaults, MaxCrashes, MaxMoves, MaxSweeps

ASSUME MailKindsAssumption == MailKinds \subseteq Kinds

VARIABLE used   \* what of each budget is spent

mcvars == <<vars, used>>

Budgets == [mail |-> MaxMail, fault |-> MaxFaults, crash |-> MaxCrashes,
            move |-> MaxMoves, sweep |-> MaxSweeps]

Spend(b) ==
  /\ used[b] < Budgets[b]
  /\ used' = [used EXCEPT ![b] = @ + 1]

MCInit == Init /\ used = [b \in DOMAIN Budgets |-> 0]

MCNext ==
  \/ Mail(MailKinds) /\ Spend("mail")
  \/ Work /\ UNCHANGED used
  \/ Fault /\ Spend("fault")
  \/ (\E s \in Subs : EscalationList(s)) /\ Spend("sweep")
  \/ (\E r \in RowIds : RetentionPrune(r)) /\ Spend("sweep")
  \/ (\E s \in Subs : FolderMove(s)) /\ Spend("move")
  \/ Crash /\ Spend("crash")
  \/ Tick /\ UNCHANGED used

MCSpec == MCInit /\ [][MCNext]_mcvars

MCFairSpec == MCSpec /\ Fairness

Symmetry ==
  Permutations(Subs) \cup Permutations(Asks) \cup Permutations(RowIds)
    \cup Permutations(Workers)

=============================================================================
