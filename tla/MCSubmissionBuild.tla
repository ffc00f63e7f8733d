-------------------------- MODULE MCSubmissionBuild --------------------------
(***************************************************************************)
(* One submission goes all its way; of several, none is rebuilt or built   *)
(* to the end.                                                             *)
(***************************************************************************)
EXTENDS SubmissionBuild, TLC

Several == Cardinality(Created) + Cardinality(Creating) > 1

UploadsOnly ==
  Several =>
    /\ \A m \in Monitor : At(m, "idle")
    /\ \A s \in Submission : rows[s].retries = 0 /\ jobs[s] \in {"none", "running"}
    /\ \A w \in Worker : call[w].kind # "rebuild"
=============================================================================
