------------------------------- MODULE Screening -------------------------------
(***************************************************************************)
(* _screen_lights (workflows/screening.py): the Lights of a run are         *)
(* measured (FrameMeasurement), grouped and registered (FrameAnalysis),    *)
(* gated (QualityGate) and admitted by one of the routes of                *)
(* FrameSelection.  What the sky gave a frame is one record of a scene.    *)
(***************************************************************************)
EXTENDS FrameMeasurement, FrameAnalysis, FrameSelection

CONSTANTS
  Further,       \* Lights beside Frames, measured without incident
  Scenes,        \* what the Lights may look like: functions of the fields the gate
                 \* and the selection read, with link, the level of a Light's best
                 \* registration
  Digests,       \* the assignments of content digests to Lights
  Selections,    \* the explicit selections: keep, drop, undecided
  CohortMinimum, \* GatePolicy.minimum_cohort_frames
  Routes         \* selection policies: legacy, explicit, unattended, include-all

VARIABLES
  stage,      \* where run_e2e_stages stands
  usable,     \* the Lights measure_paths measured
  results,    \* the gated frame results
  route,      \* request.selection.policy
  approved,   \* approved_review_paths
  admitted,   \* passed
  weight,     \* selection_confidence
  anchors,    \* the admitted Lights that may anchor the registration
  failure     \* the error code, or the reason of UNSOLVED evidence

Lights == Frames \cup Further

screenVars == <<stage, usable, results, route, approved, admitted, weight, anchors, failure>>

ScreenInit ==
  /\ MeasureInit({"run", "preflight", "blink"})
  /\ stage = "measure" /\ usable = {} /\ results = <<>> /\ route = "none" /\ approved = {}
  /\ admitted = {} /\ weight = <<>> /\ anchors = {} /\ failure = ""

MeasureStep ==
  /\ stage = "measure" /\ MeasureNext
  /\ UNCHANGED screenVars

(* measure_paths returns: of the measurements only their status is used    *)
(* below; the pool, its files and the cache are not read again.            *)
CollectMeasurements ==
  /\ stage = "measure" /\ BatchDone /\ stage' = "measured"
  /\ usable' = {f \in Frames : measured[f].status = "MEASURED"} \cup Further
  /\ task' = [f \in Frames |-> Waiting] /\ measured' = [f \in Frames |-> Unstarted]
  /\ thumbnail' = {} /\ linear' = {} /\ cache' = {} /\ executor' = "sequential"
  /\ version' = [f \in Frames |-> 1] /\ stamp' = [f \in Frames |-> 0] /\ edits' = 0
  /\ UNCHANGED <<batch, results, route, approved, admitted, weight, anchors, failure>>

-----------------------------------------------------------------------------
(* analyze_measurements and evaluate_quality_gate. *)

(* Two frames register as well as the worse of them allows. *)
PairLevel(look) ==
  [p \in {{f, g} : f, g \in Lights} |->
     CHOOSE level \in {look[f].link : f \in p} : \A f \in p : level <= look[f].link]

(* What the gate reads of a frame the analysis has placed in its group.    *)
(* The reference is judged by its peers.                                   *)
GateInput(look, analysis, f) ==
  LET a == analysis[f]
      peers == {g \in a.members \ {f} : analysis[g].registration >= 2}
      best == {analysis[g].registration : g \in peers}
  IN [look[f] EXCEPT
        !.cohort = Cardinality(a.members) >= CohortMinimum,
        !.reference = a.reference = f,
        !.connected = peers # {},
        !.registered = IF a.reference = f /\ peers # {} THEN 3 \in best
                       ELSE a.registration = 3,
        !.offset = a.off]

Gated(look, placed, raised, kept, analysis, f) ==
  [raised |-> raised, evidence |-> kept, disposition |-> Disposition(kept),
   registration |-> IF placed THEN analysis[f].registration ELSE 0,
   group |-> IF placed THEN analysis[f].members ELSE {f},
   night |-> Light[f].night,
   stars |-> IF placed THEN look.stars ELSE 0,
   fwhm |-> IF placed THEN look.width ELSE 0,
   transparency |-> IF placed THEN look.transparency ELSE 0,
   extinction |-> IF placed THEN look.extinction ELSE -1,
   sky |-> IF placed THEN look.sky ELSE 0,
   gradient |-> 0,   \* only a blink session measures calibrated gradients
   shape |-> look.shape, elongated |-> look.elongation >= 1,
   grid |-> look.grid, blocked |-> look.blocked]

Gate(look, placed, raised, analysis, f) == Gated(look, placed, raised, Keep(raised), analysis, f)

FrameResult(look, analysis, f) ==
  LET placed == f \in DOMAIN analysis
  IN Gate(look[f], placed,
          AllRaised(IF placed THEN GateInput(look, analysis, f)
                    ELSE [look[f] EXCEPT !.measured = FALSE, !.cohort = FALSE,
                                         !.registered = FALSE]),
          analysis, f)

AnalyzeAndGate ==
  /\ stage = "measured" /\ stage' = "gated"
  /\ \E look \in Scenes :
     \E analysis \in {AnalyzeMeasurements(look, PairLevel(look), usable)} :
       results' = [f \in Lights |-> FrameResult(look, analysis, f)]
  /\ UNCHANGED <<measureVars, usable, route, approved, admitted, weight, anchors, failure>>

-----------------------------------------------------------------------------
(* Admission.  Approvals may come from an older request or policy. *)

Approvals(digest) ==
  {[digest |-> digest[f], policy |-> p, request |-> r] :
     f \in Lights, p \in {"current", "old"}, r \in {"current", "old"}}

EmptySelection == [keep |-> {}, drop |-> {}, undecided |-> "DROP"]

Panel == [f \in Lights |-> Light[f].panel]

Fail(code) ==
  /\ stage' = "failed" /\ failure' = code
  /\ UNCHANGED <<usable, results, route, approved, admitted, weight, anchors>>

AdmitBy(policy, reviewed, decisions, passed) ==
  LET barred == AnchorExclusions(results, policy, reviewed, passed)
  IN /\ route' = policy /\ approved' = reviewed /\ admitted' = passed
     /\ weight' = [f \in passed |-> IF policy \in {"unattended", "include-all"}
                                    THEN decisions[f].weight ELSE 10000]
     /\ anchors' = IF passed \subseteq barred THEN passed ELSE passed \ barred
     /\ failure' = IF PanelsBelowMinimum(Panel, Lights, passed) = {} THEN ""
                   ELSE "REGISTRATION_MINIMUM"
     /\ stage' = IF failure' = "" THEN "admitted" ELSE "evidence"
     /\ UNCHANGED <<usable, results>>

(* What the approvals and the selection of the request come to. *)
AdmitWith(policy, approval, selected) ==
  \/ approval.code # "" /\ Fail(approval.code)
  \/ approval.code = "" /\ policy = "explicit" /\ selected.code # "" /\ Fail(selected.code)
  \/ /\ approval.code = "" /\ (policy = "explicit" => selected.code = "")
     /\ \E decisions \in {Decide(results, approval.admitted, policy)} :
          AdmitBy(policy, approval.admitted, decisions,
                  AdmittedLights(results, policy, approval.admitted, selected.admitted, decisions))

Admit ==
  /\ stage = "gated" /\ batch = "run"
  /\ \E digest \in Digests : \E policy \in Routes :
     \E approvals \in {{}} \cup {{a} : a \in Approvals(digest)} :
     \E selection \in IF policy = "explicit" THEN Selections ELSE {EmptySelection} :
     \E approval \in {ApplyApprovals(results, digest, approvals)} :
     \E selected \in {ApplySelection(results, digest, selection)} :
       AdmitWith(policy, approval, selected)
  /\ UNCHANGED measureVars

-----------------------------------------------------------------------------
(* Unless a reviewer kept it, no Light with hard evidence of a defect      *)
(* reaches the registration: what one section of the gate raised is not    *)
(* lost to a later item of its family, to an approval, to the soft guard   *)
(* or to the diagnostic policy (quality_gate.py, decide, review.py).  A    *)
(* reviewer who changes nothing keeps them out too, and is not refused:    *)
(* the default drops hold every Light the gate failed or could not         *)
(* register (compute_flags, _apply_explicit_selection).                    *)
DefectsStayOut ==
  /\ stage = "admitted" /\ route # "explicit" =>
       \A f \in admitted : results[f].raised \cap HardGateCodes = {}
  /\ stage = "gated" =>
       LET digest == [f \in Lights |-> f]
           drops == DefaultDrops(results)
           answer == ApplySelection(results, digest, [keep |-> Lights \ drops, drop |-> drops,
                                                      undecided |-> "ERROR"])
       IN /\ answer = Admitted(Lights \ drops)
          /\ \A f \in answer.admitted : results[f].disposition # "HARD_FAIL"
=============================================================================
