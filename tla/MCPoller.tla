------------------------------ MODULE MCPoller ------------------------------
(***************************************************************************)
(* Poller for TLC.  Faults and crashes are bounded by a budget each.       *)
(***************************************************************************)
EXTENDS Poller, TLC

CONSTANTS MaxFaults, MaxCrashes

VARIABLE used   \* what of each budget is spent

mcvars == <<vars, used>>

Budgets == [fault |-> MaxFaults, crash |-> MaxCrashes]

Spend(b) ==
  /\ used[b] < Budgets[b]
  /\ used' = [used EXCEPT ![b] = @ + 1]

MCInit == Init /\ used = [b \in DOMAIN Budgets |-> 0]

MCNext ==
  \/ Work /\ UNCHANGED used
  \/ Deliver /\ UNCHANGED used
  \/ Fault /\ Spend("fault")
  \/ Crash /\ Spend("crash")

MCFairSpec == MCInit /\ [][MCNext]_mcvars /\ Fairness

\* The third and the fourth message are deliveries of one email.
Redelivered == [m \in Msgs |-> IF m = 4 THEN 3 ELSE m]

\* Messages of each nature.  A batch of poisoned ones is ahead of the good mail;
\* those the poller never gets rid of come last.
Assorted ==
  [m \in Msgs |-> CASE m \in {1, 2} -> "poison" [] m \in {3, 4} -> "good"
                    [] m = 5 -> "oversize" [] m = 6 -> "unparseable"
                    [] m = 7 -> "panic" [] OTHER -> "slow"]

\* A message that outlasts the poll timeout comes first.
SlowFirst == [m \in Msgs |-> IF m = 1 THEN "slow" ELSE "good"]

=============================================================================
