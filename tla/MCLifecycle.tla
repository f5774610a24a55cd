---------------------------- MODULE MCLifecycle ----------------------------
(***************************************************************************)
(* Lifecycle for TLC.  Mail, faults, crashes and holds are bounded by a    *)
(* budget each; the checks and the clock go on for ever.                   *)
(***************************************************************************)
EXTENDS Lifecycle, TLC

CONSTANTS
  MailKinds,    \* the kinds of mail that arrive
  MaxMail, MaxFaults, MaxCrashes, MaxHolds

ASSUME MailKindsAssumption == MailKinds \subseteq Kinds

VARIABLE used   \* what of each budget is spent

mcvars == <<vars, used>>

Budgets == [mail |-> MaxMail, fault |-> MaxFaults, crash |-> MaxCrashes,
            hold |-> MaxHolds]

Spend(b) ==
  /\ used[b] < Budgets[b]
  /\ used' = [used EXCEPT ![b] = @ + 1]

MCInit == Init /\ used = [b \in DOMAIN Budgets |-> 0]

MCNext ==
  \/ Mail(MailKinds) /\ Spend("mail")
  \/ Poller /\ UNCHANGED used
  \/ Check /\ UNCHANGED used
  \/ Fault /\ Spend("fault")
  \/ (\E s \in Subs : HoldToggle(s)) /\ Spend("hold")
  \/ Crash /\ Spend("crash")
  \/ Tick /\ UNCHANGED used

MCSpec == MCInit /\ [][MCNext]_mcvars

MCFairSpec == MCSpec /\ Fairness

\* Policies with the smallest threshold, and with a longer one.
ShortQuiet == [s \in Subs |-> MinQuiet]

LongQuiet == [s \in Subs |-> MinQuiet + 1]

=============================================================================
