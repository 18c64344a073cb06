----------------------------- MODULE FrameAnalysis -----------------------------
(***************************************************************************)
(* analyze_measurements of light-frame-qc: measured Lights are grouped by   *)
(* their metadata, a group of unknown pointing is split by registering its  *)
(* frames, each group gets a reference, and every frame is registered to   *)
(* it and compared with it.                                                *)
(***************************************************************************)
EXTENDS Naturals, Sequences, FiniteSets, SequencesExt

CONSTANTS
  Light,             \* Light[f]: the metadata of frame f, see build_groups
  MinimumStars,      \* stars a frame needs to be registered to a field
  SupportedCohort,   \* cohort size from which the reference is checked
  ExposureTolerance, \* group_exposure_tolerance_fraction, in percent
  MinimumCoverage    \* minimum_group_field_coverage, in percent

(* What one look at the sky gives a frame, relative to the others.         *)
(*   sky[f].stars       detected sources                                   *)
(*   sky[f].fragmented  its trails deblend into chains of detections       *)
(*   sky[f].cells       the part of the sky it shows                       *)
(*   pair[{f, g}]       registering f and g: 0 no transform, 1 estimated,  *)
(*                      2 accepted, 3 beyond the gate's thresholds         *)

InPathOrder(frames) == SetToSortSeq(frames, <)

-----------------------------------------------------------------------------
(* build_groups *)

BaseKey(f) == Light[f].base

(* _split_exposures: in order of exposure, unknown last, a frame joins the *)
(* first group whose mean exposure is close, or starts one.                *)
Before(f, g) ==
  LET e == Light[f].exposure
      d == Light[g].exposure
  IN \/ e # 0 /\ d = 0
     \/ (e = 0) = (d = 0) /\ (e < d \/ (e = d /\ f < g))

Total(group) == FoldSet(LAMBDA f, sum : sum + Light[f].exposure, 0, group)

Close(f, group) ==
  LET e == Light[f].exposure * Cardinality(group)
      t == Total(group)
      largest == IF e > t THEN e ELSE t
      apart == IF e > t THEN e - t ELSE t - e
  IN IF e = 0 \/ t = 0 THEN e = t ELSE 100 * apart <= ExposureTolerance * largest

JoinExposure(f, groups) ==
  LET near == {i \in DOMAIN groups : Close(f, groups[i])}
      first == CHOOSE i \in near : \A j \in near : i <= j
  IN IF near = {} THEN Append(groups, {f}) ELSE [groups EXCEPT ![first] = @ \cup {f}]

SplitExposures(frames) ==
  FoldLeft(LAMBDA groups, f : JoinExposure(f, groups), <<>>, SetToSortSeq(frames, Before))

BuildGroups(measured) ==
  LET lights == {f \in measured : Light[f].light}
      bases == {BaseKey(f) : f \in lights}
  IN UNION {Range(SplitExposures({f \in lights : BaseKey(f) = b})) : b \in bases}

-----------------------------------------------------------------------------
(* _split_auto_fields: the star-richest frame founds a cluster, the others *)
(* join the first cluster whose founder they register to.                  *)

Richer(sky, f, g) == sky[f].stars > sky[g].stars \/ (sky[f].stars = sky[g].stars /\ f < g)

JoinField(sky, pair, f, clusters) ==
  LET fits(i) == LET founder == Head(clusters[i])
                 IN sky[f].stars >= MinimumStars /\ sky[founder].stars >= MinimumStars
                      /\ pair[{f, founder}] >= 2
      near == {i \in DOMAIN clusters : fits(i)}
      first == CHOOSE i \in near : \A j \in near : i <= j
  IN IF near = {} THEN Append(clusters, <<f>>)
     ELSE [clusters EXCEPT ![first] = Append(@, f)]

SplitAutoFields(sky, pair, group) ==
  IF Cardinality(group) = 1 \/ \E f \in group : ~Light[f].auto THEN {group}
  ELSE {Range(c) : c \in Range(FoldLeft(LAMBDA cs, f : JoinField(sky, pair, f, cs), <<>>,
                               SetToSortSeq(group, LAMBDA f, g : Richer(sky, f, g))))}

-----------------------------------------------------------------------------
(* _supported_reference *)

(* A trailed frame wins the source count with its fragments. *)
ReferenceCandidates(sky, group) ==
  LET clean == {f \in group : ~sky[f].fragmented} IN IF clean = {} THEN group ELSE clean

(* _reference_score: the path breaks ties upwards. *)
Preferred(sky, group) ==
  LET candidates == ReferenceCandidates(sky, group)
  IN CHOOSE f \in candidates : \A g \in candidates :
       sky[f].stars > sky[g].stars \/ (sky[f].stars = sky[g].stars /\ g <= f)

(* The first, the middle and the last candidate other than the preferred   *)
(* one, at most two of them.                                               *)
FirstTwo(probes) ==
  IF probes = <<>> THEN <<>>
  ELSE LET rest == SelectSeq(probes, LAMBDA f : f # Head(probes))
       IN IF rest = <<>> THEN <<Head(probes)>> ELSE <<Head(probes), Head(rest)>>

ProbePeers(ordered, preferred) ==
  LET n == Len(ordered)
  IN FirstTwo(SelectSeq(<<ordered[1], ordered[(n \div 2) + 1], ordered[n]>>,
                        LAMBDA f : f # preferred))

(* A preferred frame no peer supports gives way to a peer another peer     *)
(* supports, and is left without a registration.                           *)
Supported(pair, group, preferred, peers) ==
  LET supported == \E i \in DOMAIN peers : pair[{peers[i], preferred}] = 3
  IN IF Cardinality(group) >= SupportedCohort /\ ~supported /\ Len(peers) = 2
          /\ pair[{peers[1], peers[2]}] = 3
     THEN [reference |-> peers[1], unsupported |-> {preferred}]
     ELSE [reference |-> preferred, unsupported |-> {}]

SupportedReference(sky, pair, group) ==
  Supported(pair, group, Preferred(sky, group),
            ProbePeers(InPathOrder(ReferenceCandidates(sky, group)), Preferred(sky, group)))

-----------------------------------------------------------------------------
(* _analyze_group, frame by frame. *)

(* _analyze_frame: the reference has the identity transform if it has a    *)
(* star; a failed estimate is tried three times and the best one kept.     *)
Registration(sky, pair, choice, f) ==
  IF f = choice.reference THEN (IF sky[f].stars >= 1 THEN 3 ELSE 1)
  ELSE IF f \in choice.unsupported THEN 0 ELSE pair[{f, choice.reference}]

(* _group_field_coverage: the common field is what at least half of the    *)
(* accepted frames show; a frame showing too little of it is off target.   *)
OffTarget(sky, registration, group, f) ==
  LET placed == {g \in group : registration[g] >= 2}
      common == {c \in UNION {sky[g].cells : g \in placed} :
                   2 * Cardinality({g \in placed : c \in sky[g].cells}) >= Cardinality(placed)}
      shown == sky[f].cells \cap common
  IN /\ f \in placed /\ Cardinality(placed) >= 3
     /\ 100 * Cardinality(shown) < MinimumCoverage * Cardinality(common)

(* The result of a group: reference, registrations, off-target frames. *)
GroupResult(sky, group, reference, registration) ==
  [members |-> group, reference |-> reference, registration |-> registration,
   off |-> [f \in group |-> OffTarget(sky, registration, group, f)]]

Registered(sky, pair, group, choice) ==
  GroupResult(sky, group, choice.reference,
              [f \in group |-> Registration(sky, pair, choice, f)])

AnalyzeGroup(sky, pair, group) ==
  Registered(sky, pair, group, SupportedReference(sky, pair, group))

FramesOf(results) ==
  [f \in UNION {r.members : r \in results} |->
     LET result == CHOOSE r \in results : f \in r.members
     IN [result EXCEPT !.registration = result.registration[f], !.off = result.off[f]]]

AnalyzeMeasurements(sky, pair, measured) ==
  FramesOf({AnalyzeGroup(sky, pair, group) :
              group \in UNION {SplitAutoFields(sky, pair, g) : g \in BuildGroups(measured)}})
=============================================================================
