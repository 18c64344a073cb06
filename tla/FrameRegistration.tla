--------------------------- MODULE FrameRegistration ---------------------------
(***************************************************************************)
(* register_analyses and run_registration (ufwbpp_registration/pipeline.py) *)
(* and the normalization references of quality.py.  What the star matching *)
(* finds (StarMatching) is given: direct, the frames that match the        *)
(* reference; bridged, those that match through the anchor of their        *)
(* filter; stranded, those whose estimate through the anchor is not good   *)
(* enough; refined, those whose full-resolution refinement is accepted.    *)
(***************************************************************************)
EXTENDS Naturals, FiniteSets

None == 0

Group(frames, filter, f) == {g \in frames : filter[g] = filter[f]}

(* One frame per filter reaches the reference directly: the reference in   *)
(* its own group, else the first in input order that matches it.           *)
Anchor(group, reference, direct) ==
  IF reference \in group THEN reference
  ELSE IF group \cap direct = {} THEN None
  ELSE CHOOSE f \in group \cap direct : \A g \in group \cap direct : f <= g

(* The frames tried on the way to the anchor keep that result: only later  *)
(* members are matched through the anchor, with the direct match to fall   *)
(* back on when that gives no estimate at all.                             *)
TriedFirst(group, reference, direct, f) ==
  LET anchor == Anchor(group, reference, direct)
  IN anchor # reference /\ (anchor = None \/ f <= anchor)

Accepted(frames, filter, reference, found, f) ==
  LET group == Group(frames, filter, f)
      alone == TriedFirst(group, reference, found.direct, f) \/ reference \in group
  IN IF f = reference THEN TRUE
     ELSE IF alone \/ f \notin found.bridged \cup found.stranded THEN f \in found.direct
     ELSE f \in found.bridged

(* run_registration refuses the run for one frame; _register_lights also   *)
(* for a refinement that was not accepted.                                 *)
RegistrationRefusal(frames, filter, reference, found) ==
  IF \E f \in frames : ~Accepted(frames, filter, reference, found, f)
    THEN "REGISTRATION_FAILED"
  ELSE IF \E f \in frames \ {reference} : f \notin found.refined
    THEN "REGISTRATION_FULL_REFINEMENT_REJECTED"
  ELSE ""

(* select_normalization_reference: the flattest background among the       *)
(* candidates of the filter, any of which it may be.                       *)
NormalizationReferences(frames, filter, anchors) ==
  LET eligible(name) == LET group == {f \in frames : filter[f] = name}
                        IN IF group \cap anchors = {} THEN group ELSE group \cap anchors
      names == {filter[f] : f \in frames}
  IN {r \in [names -> frames] : \A name \in names : r[name] \in eligible(name)}
=============================================================================
