----------------------------- MODULE BlinkSession -----------------------------
(***************************************************************************)
(* A blink session: the controller (sidecar/blink.rs) names a directory,   *)
(* the engine (blink/session.py) measures the Lights, renders one preview  *)
(* per Light and writes manifest.json there, the controller checks what it *)
(* wrote.  Every window of the application shares the sessions root and    *)
(* prunes it, so a session may go while another window reviews it.         *)
(***************************************************************************)
EXTENDS Naturals, Sequences, FiniteSets

CONSTANTS
  Lights,       \* the Light files, numbered in manifest order
  Channel,      \* Channel[f]: its target and filter
  Fold,         \* Fold[f]: its path without case
  Digest,       \* Digest[f]: its content
  Looks,        \* what the engine makes of a Light, see below
  MaxSessions,  \* MAX_BLINK_SESSIONS
  MaxMeasures,  \* measurements by this window
  MaxOthers     \* measurements by another window

ASSUME SessionAssumption ==
  /\ Lights \subseteq Nat /\ IsFiniteSet(Lights)
  /\ MaxSessions \in Nat \ {0} /\ MaxMeasures \in Nat /\ MaxOthers \in Nat

VARIABLES
  disk,      \* the sessions under the root, by order of their names
  named,     \* how many directories were named
  others,    \* measurements by another window
  measures,  \* measurements by this window
  measure    \* the one under way: see below

sessionVars == <<disk, named, others, measures, measure>>

NoMeasure == [phase |-> "idle"]

SessionInit ==
  disk = {} /\ named = 0 /\ others = 0 /\ measures = 0 /\ measure = NoMeasure

(* prune_blink_sessions: the oldest go, by the time in their names. *)
Prune(keep) == {i \in disk : Cardinality({j \in disk : j > i}) < keep}

(* blink_measure_with up to the engine.  A path given twice is refused by  *)
(* canonical_light_paths; the webview holds a set of paths.                *)
BeginMeasure(lights) ==
  /\ measure.phase = "idle" /\ measures < MaxMeasures
  /\ disk' = Prune(MaxSessions - 1)
  /\ named' = named + 1 /\ measures' = measures + 1
  /\ measure' = [phase |-> "engine", lights |-> lights, id |-> named + 1]
  /\ UNCHANGED others

OtherMeasures ==
  /\ others < MaxOthers
  /\ disk' = Prune(MaxSessions - 1) \cup {named + 1}
  /\ named' = named + 1 /\ others' = others + 1
  /\ UNCHANGED <<measures, measure>>

-----------------------------------------------------------------------------
(* The engine.  _canonical_lights leaves out a Light whose path differs    *)
(* from another's in case only: the first stays.                           *)
CanonicalLights(lights) ==
  {f \in lights : ~\E g \in lights : g < f /\ Fold[g] = Fold[f]}

EngineCreates ==
  /\ measure.phase = "engine"
  /\ disk' = disk \cup {measure.id}
  /\ measure' = [measure EXCEPT !.phase = "created"]
  /\ UNCHANGED <<named, others, measures>>

(* A Light's look: measured with a linear preview, its noise estimated,    *)
(* a candidate of the ranking, calibrated by a flat and a pedestal.        *)
Members(frames, f) == {g \in frames : Channel[g] = Channel[f]}
First(frames) == CHOOSE f \in frames : \A g \in frames : f <= g

(* choose_display_reference ranks the candidates; without any the gate's   *)
(* reference stands, the richest frame (_fallback_reference).  Ranks are   *)
(* the order of the manifest.                                              *)
DisplayReference(frames, look, f) ==
  LET ranked   == {g \in Members(frames, f) : look[g].noise /\ look[g].candidate}
      measured == {g \in Members(frames, f) : look[g].linear}
  IN First(IF ranked # {} THEN ranked ELSE IF measured # {} THEN measured ELSE Members(frames, f))

(* prepare_diagnostic_specs and _preview_specs: a channel whose reference  *)
(* has no linear preview is not rendered.                                  *)
Specs(frames, look) ==
  {f \in frames : look[f].linear /\ look[DisplayReference(frames, look, f)].linear}

(* render_diagnostic_frame, one frame at a time: the noise of both. *)
Rendered(frames, look) ==
  {f \in Specs(frames, look) : look[f].noise /\ look[DisplayReference(frames, look, f)].noise}

(* A frame and its reference are both calibrated or both not. *)
Layered(frames, look) ==
  {f \in Rendered(frames, look) :
     look[f].calibrated = look[DisplayReference(frames, look, f)].calibrated}

(* attach_blink_previews: within the budget of the answer, in any measure. *)
Manifest(frames, look, inline) ==
  [id |-> measure.id, frames |-> frames, broken |-> frames \ Rendered(frames, look),
   layered |-> Layered(frames, look), inline |-> inline \cap Rendered(frames, look)]

(* run_blink_session: manifest.json is the last file and create-only; it   *)
(* cannot be written when another window pruned the directory.             *)
EngineFinishes ==
  /\ measure.phase = "created" /\ measure.id \in disk
  /\ \E look \in [measure.lights -> Looks] : \E inline \in {{}, measure.lights} :
     LET frames == CanonicalLights(measure.lights)
         none   == Specs(frames, look) # {} /\ Rendered(frames, look) = {}
     IN measure' = IF none THEN [measure EXCEPT !.phase = "failed"]
                   ELSE [phase |-> "written", lights |-> measure.lights, id |-> measure.id,
                         manifest |-> Manifest(frames, look, inline)]
  /\ UNCHANGED <<disk, named, others, measures>>

EngineFails ==
  /\ measure.phase \in {"engine", "created"}
  /\ measure' = [measure EXCEPT !.phase = "failed"]
  /\ UNCHANGED <<disk, named, others, measures>>

-----------------------------------------------------------------------------
(* validate_blink_manifest: every requested Light, exactly once. *)
ValidManifest(manifest, lights) == manifest.frames = lights

ControllerChecks ==
  /\ measure.phase = "written"
  /\ measure' = [measure EXCEPT !.phase =
                   IF measure.id \in disk /\ ValidManifest(measure.manifest, measure.lights)
                   THEN "answered" ELSE "failed"]
  /\ UNCHANGED <<disk, named, others, measures>>

(* A failure of whatever kind takes the directory with it. *)
ControllerRemoves ==
  /\ measure.phase = "failed"
  /\ disk' = disk \ {measure.id}
  /\ measure' = [measure EXCEPT !.phase = "refused"]
  /\ UNCHANGED <<named, others, measures>>

SessionStep ==
  \/ OtherMeasures \/ EngineCreates \/ EngineFinishes \/ EngineFails
  \/ ControllerChecks \/ ControllerRemoves
=============================================================================
