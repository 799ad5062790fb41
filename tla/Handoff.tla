------------------------------ MODULE Handoff ------------------------------
(***************************************************************************)
(* What the controller's routing promises, without generations, deadlines  *)
(* or calls: control of the machine is handed out once per request, can be *)
(* revoked at any moment by anyone, and a revoked handoff never takes the  *)
(* user's input.  Routing implements it.                                   *)
(***************************************************************************)
VARIABLES
    phase,      \* "local", "preparing" or "remote"
    revoked     \* local control was requested since the handoff began

absVars == <<phase, revoked>>

HandoffInit == phase = "local" /\ revoked = TRUE

Begin ==
    /\ phase = "local"
    /\ phase' = "preparing"
    /\ revoked' = FALSE

Revoke ==
    /\ phase # "local"
    /\ revoked' = TRUE
    /\ UNCHANGED phase

Activate ==
    /\ phase = "preparing"
    /\ ~revoked
    /\ phase' = "remote"
    /\ UNCHANGED revoked

Return ==
    /\ phase # "local"
    /\ phase' = "local"
    /\ revoked' = TRUE

HandoffNext == Begin \/ Revoke \/ Activate \/ Return

\* A revoked handoff is returned, and one that is only prepared ends somehow.
HandoffSpec ==
    /\ HandoffInit
    /\ [][HandoffNext]_absVars
    /\ WF_absVars(Return /\ revoked)
    /\ WF_absVars(phase = "preparing" /\ (Activate \/ Return))
=============================================================================
