----------------------------- MODULE MCWorkflow -----------------------------
(* Three stages: two steps, one step, two steps. *)
EXTENDS Workflow

MCStageOf == <<1, 1, 2, 3, 3>>
=============================================================================
