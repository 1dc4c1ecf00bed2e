----------------------------- MODULE JobRecord ------------------------------
(***************************************************************************)
(* What whoever reads a job is promised, be it GET /api/jobs/:id, the job  *)
(* dialogs of the web UI that poll it or trackJob: a record that is opened *)
(* once, grows while the job runs and is closed once, with an end that is  *)
(* final.  How the server keeps it is JobFlush, which implements this.     *)
(***************************************************************************)
EXTENDS Naturals

VARIABLES
    status,     \* "none" before there is a record
    content     \* how much of the job's steps, log and result it holds

vars == <<status, content>>

Init == status = "none" /\ content = 0

Open ==
    /\ status = "none"
    /\ status' = "running" /\ content' = 0

Grow ==
    /\ status = "running"
    /\ content' \in Nat /\ content' > content
    /\ UNCHANGED status

(* The end comes with the last of the content.                             *)
Close ==
    /\ status = "running"
    /\ status' \in {"success", "failed"}
    /\ content' \in Nat /\ content' >= content

Next == Open \/ Grow \/ Close

Spec == Init /\ [][Next]_vars
=============================================================================
