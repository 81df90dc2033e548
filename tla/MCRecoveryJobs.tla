--------------------------- MODULE MCRecoveryJobs ---------------------------
(***************************************************************************)
(* An instance of RecoveryJobs: one job, which two workers compete for.    *)
(* The configuration gives the delays in the model's unit of time, the     *)
(* retry delay reaching its limit at the second retry.                     *)
(***************************************************************************)
EXTENDS RecoveryJobs

=============================================================================
