--------------------------- MODULE TargetContract ---------------------------
(***************************************************************************)
(* What the run of one target promises its caller (run_e2e, or the project *)
(* workflow that drives run_e2e_stages as a generator): which of its       *)
(* directories is on disk at each moment, whatever happens inside.         *)
(*                                                                         *)
(* phase: idle, running, paused (a mosaic panel waiting for its placement),*)
(*        solved, unsolved (returned), raised, closed (GeneratorExit).     *)
(* tree:  what the run has on disk now: none, staging (private), leftover  *)
(*        (a staging tree whose removal failed), product (the published    *)
(*        directory) or evidence (NAME.unsolved).                          *)
(***************************************************************************)
VARIABLES phase, tree

vars == <<phase, tree>>

Init == phase = "idle" /\ tree = "none"

\* A request is refused before anything is created.
Refuse == phase = "idle" /\ phase' = "raised" /\ UNCHANGED tree

Begin == phase = "idle" /\ phase' = "running" /\ tree' = "staging"

Pause == phase = "running" /\ tree = "staging" /\ phase' = "paused" /\ UNCHANGED tree

Resume == phase = "paused" /\ phase' = "running" /\ UNCHANGED tree

\* The private tree becomes one of the two public ones, at most once.
Publish ==
  /\ phase = "running" /\ tree = "staging"
  /\ tree' \in {"product", "evidence"}
  /\ UNCHANGED phase

Succeed == phase = "running" /\ tree = "product" /\ phase' = "solved" /\ UNCHANGED tree

Report == phase = "running" /\ tree = "evidence" /\ phase' = "unsolved" /\ UNCHANGED tree

\* An error removes the private tree (the removal itself may fail) and never
\* touches a published one.
Abort ==
  /\ phase \in {"running", "paused"}
  /\ phase' = IF phase = "paused" THEN "closed" ELSE "raised"
  /\ tree' \in (IF tree = "staging" THEN {"none", "leftover"} ELSE {tree})

Next ==
  Refuse \/ Begin \/ Pause \/ Resume \/ Publish \/ Succeed \/ Report \/ Abort

Spec == Init /\ [][Next]_vars
=============================================================================
