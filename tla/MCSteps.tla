------------------------------ MODULE MCSteps ------------------------------
(* A composite action with continue-on-error, one of whose steps may fail. *)
EXTENDS StepRunner

MCJobPlan ==
  {<<[cond |-> "", coe |-> TRUE, kind |-> "composite",
      body |-> <<[cond |-> "", coe |-> FALSE, kind |-> "run", body |-> <<>>]>>]>>}

StepsSpec == StepRunnerInit /\ [][StepRunnerNext]_stepVars
=============================================================================
