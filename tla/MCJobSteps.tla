----------------------------- MODULE MCJobSteps -----------------------------
(* JobSteps for TLC: a plan that names one label twice, one label that is  *)
(* not planned.                                                            *)
EXTENDS JobSteps

CONSTANTS Pull, Start, Extra

MCLabels == {Pull, Start, Extra}
MCPlan == <<Pull, Start, Pull>>
=============================================================================
