------------------------------ MODULE MCWorkbench ------------------------------
(***************************************************************************)
(* Three Lights in two channels.  A behaviour has a focus: images that     *)
(* fail in a review of a session nobody else touches, or sessions, imports *)
(* and other windows around a review without failures.                     *)
(***************************************************************************)
EXTENDS Workbench

CONSTANTS Foci

VARIABLE focus

MCChannel == [f \in Lights |-> IF f <= 2 THEN "L" ELSE "R"]
MCNight == [f \in Lights |-> IF f = 1 THEN "a" ELSE "b"]

(* Two more Lights: one named like Light 3 but for case, one a copy of it. *)
MCFold == [f \in Lights |-> IF f = 4 THEN 3 ELSE f]
MCDigest == [f \in Lights |-> IF f = 5 THEN 3 ELSE f]

Good == [linear |-> TRUE, noise |-> TRUE, candidate |-> TRUE, calibrated |-> TRUE]

MCLooks ==
  {Good, [Good EXCEPT !.candidate = FALSE, !.calibrated = FALSE],
   [Good EXCEPT !.noise = FALSE, !.candidate = FALSE],
   [linear |-> FALSE, noise |-> FALSE, candidate |-> FALSE, calibrated |-> FALSE]}

MCVars == <<vars, focus>>

(* In a review with failures nothing else happens. *)
Alone ==
  /\ others' = 0 /\ inventory' \in {{}, {1, 2, 3}} /\ revision' <= 1 /\ measures' <= 1
  /\ verdict' # verdict => verdict'.ready \/ verdict' = NoVerdict
  /\ measure'.phase # "failed" /\ (step = "blink" => step' # "import")
  /\ measure'.phase = "written" =>
       /\ \/ measure'.manifest.broken = {1} /\ measure'.manifest.inline = {}
          \/ measure'.manifest.broken = {} /\ measure'.manifest.inline # {}
       /\ Cardinality(measure'.manifest.layered) = 2

(* Around a smooth review nothing fails in it. *)
Smooth ==
  /\ inventory' \in {{}, {0}, {1}, {3}, {1, 3}, {3, 4}, {3, 5}}
  /\ faults' = 0 /\ \A f \in DOMAIN decisions' : decisions'[f] = "DROP" => f = 1
  /\ measure'.phase = "written" =>
       /\ measure'.manifest.inline = measure'.manifest.frames
       /\ measure'.manifest.layered = {First(measure'.manifest.frames)}

MCInit == WorkbenchInit /\ focus \in Foci

MCNext ==
  /\ WorkbenchNext /\ UNCHANGED focus
  /\ focus = "review" => Alone
  /\ focus = "sessions" => Smooth

MCSpec == MCInit /\ [][MCNext]_MCVars
=============================================================================
