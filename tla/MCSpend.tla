------------------------------ MODULE MCSpend -------------------------------
(***************************************************************************)
(* Spend for TLC.  Totals that cannot be read or written are bounded by a  *)
(* budget; the model may fail at every attempt.                            *)
(***************************************************************************)
EXTENDS Spend

CONSTANT MaxFaults

VARIABLE faults   \* faults of the spend table so far

mcvars == <<vars, faults>>

MCInit == Init /\ faults = 0

MCNext ==
  \/ (Start \/ Step \/ Fault \/ Midnight) /\ UNCHANGED faults
  \/ TableFault /\ faults < MaxFaults /\ faults' = faults + 1

MCFairSpec == MCInit /\ [][MCNext]_mcvars /\ Fairness

=============================================================================
