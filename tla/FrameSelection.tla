---------------------------- MODULE FrameSelection ----------------------------
(***************************************************************************)
(* Which Lights of a gated batch are admitted: the unattended selection     *)
(* policy (selection/), the review approvals and the explicit selection    *)
(* (workflows/review.py), the blink flags and reference that a reviewer    *)
(* starts from (light-frame-qc), and the frames a counterfactual pass may   *)
(* remove (workflows/screening.py).                                        *)
(*                                                                         *)
(* A batch is a function b of its frames: b[f] is a record of the gate's   *)
(* evidence and disposition, the registration level of FrameAnalysis and   *)
(* what else these rules read.  Ratios are in percent and magnitudes in    *)
(* hundredths; a width or transparency of 0 was not measured.              *)
(***************************************************************************)
EXTENDS QualityGate, Integers, SequencesExt

CONSTANTS
  TransparencyFloor,   \* transparency_floor
  SoftGuard,           \* soft_exclusion_fraction_guard
  NightCut, GroupCut,  \* fwhm_night_exclusion_ratio, fwhm_group_exclusion_ratio
  CleanMinimum,        \* BlinkFlagPolicy.minimum_clean_frames
  FewStars             \* BlinkFlagPolicy.few_stars_minimum

(* Twice the median of the values of v, by frame. *)
Median2(v) ==
  LET middle(s) == v[s[(Len(s) + 1) \div 2]] + v[s[(Len(s) \div 2) + 1]]
  IN middle(SetToSortSeq(DOMAIN v, LAMBDA f, g : v[f] < v[g] \/ (v[f] = v[g] /\ f < g)))

Smallest(v) == CHOOSE x \in Range(v) : \A f \in DOMAIN v : x <= v[f]
Largest(v)  == CHOOSE x \in Range(v) : \A f \in DOMAIN v : x >= v[f]

-----------------------------------------------------------------------------
(* Guards: selection/guards.py. *)

HardGateCodes == HardCodes \ {"MULTI_FAMILY_CLOUD_HARD"}

InsufficientCodes ==
  {"INSUFFICIENT_COHORT", "NIGHT_UNRESOLVED", "INSUFFICIENT_NIGHT_BASELINE",
   "MORPHOLOGY_SAMPLE_REVIEW", "SOURCE_COUNT_MISSING", "FINITE_FRACTION_MISSING",
   "FINITE_FRACTION_REVIEW", "DYNAMIC_RANGE_MISSING", "COMMON_FOOTPRINT_REVIEW",
   "REFERENCE_NOT_CONNECTED", "ABSOLUTE_LOW_SOURCE_COUNT"}

(* The clear-sky level of a group: the median of its PASS frames, of all   *)
(* its frames when none passed.                                            *)
TransparencyBelowFloor(b, f) ==
  LET known == {g \in DOMAIN b : b[g].group = b[f].group /\ b[g].transparency > 0}
      pass  == {g \in known : b[g].disposition = "PASS"}
      base  == Median2([g \in IF pass = {} THEN known ELSE pass |-> b[g].transparency])
  IN b[f].transparency > 0 /\ 200 * b[f].transparency < TransparencyFloor * base

(* Mutant: a frame the gate failed is left to the soft rules. *)
HardExclusionRegistrationOnly(b, f) ==
  b[f].registration = 0 \/ TransparencyBelowFloor(b, f)

HardExclusion(b, f) ==
  \/ b[f].evidence \cap HardGateCodes # {}
  \/ b[f].registration = 0
  \/ TransparencyBelowFloor(b, f)
  \/ b[f].extinction > 75   \* extra_extinction_exclusion_mag

-----------------------------------------------------------------------------
(* Features and soft rules: selection/features.py, weights.py, region.py,  *)
(* policy.py.                                                              *)

(* extract_features: the widths are judged against the best of the night   *)
(* (within the group) and of the group; small samples have their minimum.  *)
Wide(b, f, peers, cut) ==
  LET measured == {g \in peers : b[g].fwhm > 0}
  IN b[f].fwhm > 0 /\ 100 * b[f].fwhm > cut * Smallest([g \in measured |-> b[g].fwhm])

PsfExclusion(b, f) ==
  LET group == {g \in DOMAIN b : b[g].group = b[f].group}
  IN \/ Wide(b, f, {g \in group : b[g].night = b[f].night}, NightCut)
     \/ Wide(b, f, group, GroupCut)

(* psf_factors, exponent 1, in percent, between 1/16 and 16. *)
PsfFactor(b, f) ==
  LET measured == {g \in DOMAIN b : b[g].group = b[f].group /\ b[g].fwhm > 0}
      m2 == Median2([g \in measured |-> b[g].fwhm])
      factor == (100 * m2 * m2) \div (4 * b[f].fwhm * b[f].fwhm)
  IN IF b[f].fwhm = 0 \/ Cardinality(measured) < 2 THEN 100
     ELSE IF factor < 6 THEN 6 ELSE IF factor > 1600 THEN 1600 ELSE factor

(* region_weight_map: cells dimmed in a patch are reduced, cells that lost *)
(* their stars or their texture are blanked.  No map for a grid that is    *)
(* absent, or for dimming that hardly lowers the mean weight.              *)
RegionMap(grid) ==
  IF grid.blank > 0 \/ (grid.patch /\ ~grid.cosmetic) THEN grid.blank ELSE -1

MostlyBlank == 50
Mapped(b, f) == RegionMap(b[f].grid) >= 0

OcclusionExclusion(b, f) ==
  ~Mapped(b, f) /\ b[f].blocked

DefectCodes(b, f) == b[f].evidence \ (InfoCodes \cup InsufficientCodes \cup HardGateCodes)

NormalizationModelled == {"NIGHT_ZEROPOINT_SHIFT_REVIEW", "TEMPORAL_EXTINCTION_REVIEW"}
RegionHandled == {"OCCLUSION_REVIEW", "SPATIAL_DIMMING_REVIEW", "SPATIAL_DIMMING_STRONG"}
HalfTrusted ==
  {"TRAILING_REVIEW", "OCCLUSION_REVIEW", "REGISTRATION_REVIEW", "MULTI_FAMILY_CLOUD_HARD"}

(* _gray_zone: the confidence left by the defects no model takes care of. *)
GrayZone(b, f) ==
  LET remaining == (DefectCodes(b, f) \ NormalizationModelled)
                     \ (IF Mapped(b, f) THEN RegionHandled ELSE {})
  IN IF remaining = {} THEN 100
     ELSE IF remaining \cap HalfTrusted # {} THEN 50 ELSE 60

Excluded(soft) == [keep |-> FALSE, soft |-> soft, weight |-> 0]
Kept(weight)   == [keep |-> TRUE, soft |-> FALSE, weight |-> weight]

(* decide, frame by frame. *)
DecideFrame(b, approved, policy, f) ==
  IF HardExclusion(b, f) THEN Excluded(FALSE)
  ELSE IF f \in approved \/ policy = "include-all" THEN Kept(10000)
  ELSE IF \/ PsfExclusion(b, f)
          \/ RegionMap(b[f].grid) > MostlyBlank
          \/ OcclusionExclusion(b, f) THEN Excluded(TRUE)
  ELSE Kept(PsfFactor(b, f) *
              (IF DefectCodes(b, f) # {} THEN GrayZone(b, f)
               ELSE IF b[f].disposition = "PASS" THEN 100 ELSE 50))

(* Above the guard every soft exclusion is kept with reduced weight. *)
Decide(b, approved, policy) ==
  LET first == [f \in DOMAIN b |-> DecideFrame(b, approved, policy, f)]
      soft  == {f \in DOMAIN b : first[f].soft}
  IN IF 100 * Cardinality(soft) > SoftGuard * Cardinality(DOMAIN b)
     THEN [f \in DOMAIN b |-> IF f \in soft THEN [Kept(5000) EXCEPT !.soft = TRUE] ELSE first[f]]
     ELSE first

-----------------------------------------------------------------------------
(* Counterfactual evidence: annotate_with_counterfactual and               *)
(* confirmed_harmful.  A report says of each frame how far the depth, the  *)
(* background and the width of the master improve without it: 0 not, 1     *)
(* beyond the threshold, 2 also an outlier of its group; -1 that the frame *)
(* measurably deepens the master.                                          *)

ConfirmedHarmful(report, decisions, priority) ==
  {f \in DOMAIN report.frames :
     LET r == report.frames[f] IN
     /\ report.enoughTiles /\ decisions[f].keep
     /\ \/ r.depth = 2
        \/ priority = "resolution" /\ r.width = 2
        \/ r.background = 2 /\ r.depth # -1}

(* _counterfactual_exclusions, in path order: normalization references     *)
(* stay, a panel is given frames back until it keeps two Lights, and all   *)
(* passes together stay under the soft guard.                              *)
Earlier(frames, f) == Cardinality({g \in frames : g < f})
Removable(harmful, present, references, panel) ==
  LET first == harmful \ references
      stays(f) == Cardinality({g \in present \ first : panel[g] = panel[f]})
      ahead(f) == Earlier({g \in first : panel[g] = panel[f]}, f)
  IN {f \in first : stays(f) + ahead(f) >= 2}

CounterfactualAllowance(present, admittedAtStart) ==
  ((SoftGuard * admittedAtStart) \div 100) - (admittedAtStart - Cardinality(present))

FirstOnes(frames, most) == {f \in frames : Earlier(frames, f) < most}

(* Mutant: a panel may lose all its Lights. *)
CounterfactualExclusionsAnyPanel(harmful, present, references, panel, admittedAtStart) ==
  FirstOnes(harmful \ references, CounterfactualAllowance(present, admittedAtStart))

CounterfactualExclusions(harmful, present, references, panel, admittedAtStart) ==
  FirstOnes(Removable(harmful, present, references, panel),
            CounterfactualAllowance(present, admittedAtStart))

-----------------------------------------------------------------------------
(* Blink flags: light-frame-qc/blink_flags.py. *)

GateFlagExclude ==
  {"COHERENT_TRAILING_HARD", "FRAGMENTED_TRAILING_HARD", "OCCLUSION_HARD",
   "SPATIAL_DIMMING_STRONG", "MULTI_FAMILY_CLOUD_HARD", "FIELD_OFFSET_HARD",
   "MEASUREMENT_FAILED", "MEASUREMENT_MISSING", "IDENTITY_MISSING", "IDENTITY_MISMATCH",
   "FINITE_FRACTION_HARD", "FINITE_FRACTION_INVALID", "NEAR_CONSTANT_IMAGE",
   "NOT_A_LIGHT_FRAME"}
GateFlagAttention ==
  {"TRAILING_REVIEW", "FOCUS_SEEING_REVIEW", "NIGHT_FOCUS_SHIFT_REVIEW", "OCCLUSION_REVIEW",
   "SPATIAL_DIMMING_REVIEW", "SOURCE_RETENTION_STRONG", "SOURCE_RETENTION_REVIEW",
   "COMMON_FOOTPRINT_REVIEW", "REGISTRATION_REVIEW", "BACKGROUND_STRONG",
   "BACKGROUND_REVIEW", "NOISE_REVIEW"}

(* _channel_statistics: the references of a channel, from the frames the   *)
(* gate did not fail.  Few frames: the richest count, the best width.      *)
Channel(b, f) == {g \in DOMAIN b : b[g].group = b[f].group}
NotFailed(b, f) == {g \in Channel(b, f) : b[g].disposition # "HARD_FAIL"}

SourceRatio(b, f) ==
  LET rich == {g \in NotFailed(b, f) : b[g].stars > 0}
  IN IF rich = {} THEN -1 ELSE (100 * b[f].stars) \div Largest([g \in rich |-> b[g].stars])

CleanFrames(b, f) ==
  {g \in NotFailed(b, f) :
     /\ b[g].registration >= 2 /\ b[g].extinction \in 0..34 /\ b[g].sky > 0
     /\ SourceRatio(b, g) >= 60}

SkyBright(b, f) ==
  LET clean == CleanFrames(b, f)
  IN /\ Cardinality(clean) >= CleanMinimum /\ b[f].sky > 0
     /\ 200 * b[f].sky >= 160 * Median2([g \in clean |-> b[g].sky])

WidthRatioAtLeast(b, f, cut) ==
  LET measured == {g \in NotFailed(b, f) : b[g].fwhm > 0}
  IN b[f].fwhm > 0 /\ measured # {}
       /\ 100 * b[f].fwhm >= cut * Smallest([g \in measured |-> b[g].fwhm])

(* _absolute_flags and _gate_flags: the EXCLUDE flags of a frame, and its  *)
(* ATTENTION flags.                                                        *)
ExcludeFlags(b, f) ==
     Raise(SkyBright(b, f) /\ SourceRatio(b, f) \in 0..60, "SKY_BRIGHT")
  \cup Raise(SourceRatio(b, f) \in 0..45, "SOURCES_LOW")
  \cup Raise(b[f].extinction >= 100, "EXTINCTION")
  \cup Raise(b[f].gradient = 2, "GRADIENT_AMPLITUDE")
  \cup Raise(WidthRatioAtLeast(b, f, 160), "FWHM_WIDE")
  \cup Raise(b[f].registration < 2, "UNREGISTRABLE")
  \cup Raise(b[f].stars < FewStars, "FEW_STARS")
  \cup (b[f].evidence \cap GateFlagExclude)

AttentionFlags(b, f) ==
     Raise(SkyBright(b, f), "SKY_BRIGHT")
  \cup Raise(SourceRatio(b, f) \in 46..60, "SOURCES_LOW")
  \cup Raise(b[f].extinction \in 50..99, "EXTINCTION")
  \cup Raise(b[f].shape, "BACKGROUND_SHAPE")
  \cup Raise(b[f].gradient >= 1, "GRADIENT_AMPLITUDE")
  \cup Raise(WidthRatioAtLeast(b, f, 130), "FWHM_WIDE")
  \cup Raise(b[f].elongated, "STARS_ELONGATED")
  \cup (b[f].evidence \cap (GateFlagAttention
                               \ (IF b[f].registration < 2 THEN {"REGISTRATION_REVIEW"} ELSE {})))

BlinkFlagged(b) == {f \in DOMAIN b : ExcludeFlags(b, f) \cup AttentionFlags(b, f) # {}}

(* compute_flags: the decision a reviewer starts from. *)
DefaultDrops(b) == {f \in DOMAIN b : ExcludeFlags(b, f) # {}}

-----------------------------------------------------------------------------
(* The three routes: workflows/review.py and _admitted_lights.  A result   *)
(* is the set of admitted Lights or an error code.                         *)

Refused(code) == [admitted |-> {}, code |-> code]
Admitted(set) == [admitted |-> set, code |-> ""]

(* _apply_review_approvals: an approval names the digest of a Light and    *)
(* the gate policy and request it was given for.                           *)
ApplyApprovals(b, digest, approvals) ==
  LET named(a) == {f \in DOMAIN b : digest[f] = a.digest}
      all == UNION {named(a) : a \in approvals}
  IN IF \E a, c \in approvals : a # c /\ a.digest = c.digest
     THEN Refused("REVIEW_APPROVAL_DUPLICATE")
     ELSE IF \E a \in approvals : a.policy # "current" THEN Refused("REVIEW_APPROVAL_POLICY_DRIFT")
     ELSE IF \E a \in approvals : a.request # "current" THEN Refused("REVIEW_APPROVAL_REQUEST_DRIFT")
     ELSE IF \E a \in approvals : Cardinality(named(a)) # 1
     THEN Refused("REVIEW_APPROVAL_SOURCE_AMBIGUOUS")
     ELSE IF \E f \in all : b[f].disposition # "REVIEW"
     THEN Refused("REVIEW_APPROVAL_SOURCE_NOT_REVIEW")
     ELSE IF \E f \in all : b[f].registration < 2 THEN Refused("REVIEW_APPROVAL_UNREGISTRABLE")
     ELSE Admitted(all)

(* _apply_explicit_selection: keep and drop are digests, undecided says    *)
(* what becomes of the other Lights.                                       *)
ApplySelection(b, digest, selection) ==
  LET named == selection.keep \cup selection.drop
      undecided == {f \in DOMAIN b : digest[f] \notin named}
      keep == {f \in DOMAIN b : digest[f] \in selection.keep}
              \cup (IF selection.undecided = "KEEP" THEN undecided ELSE {})
  IN IF \E d \in named : Cardinality({f \in DOMAIN b : digest[f] = d}) > 1
     THEN Refused("SELECTION_SOURCE_AMBIGUOUS")
     ELSE IF \E d \in named : \A f \in DOMAIN b : digest[f] # d
     THEN Refused("SELECTION_SOURCE_UNKNOWN")
     ELSE IF \E f \in keep : b[f].registration < 2 THEN Refused("SELECTION_UNREGISTRABLE")
     ELSE IF selection.undecided = "ERROR" /\ undecided # {} THEN Refused("SELECTION_INCOMPLETE")
     ELSE Admitted(keep)

(* _admitted_lights *)
AdmittedLights(b, route, approved, selected, decisions) ==
  CASE route = "explicit" -> selected
    [] route \in {"unattended", "include-all"} -> {f \in DOMAIN b : decisions[f].keep}
    [] OTHER -> {f \in DOMAIN b : b[f].disposition = "PASS"} \cup approved

(* _panels_below_registration_minimum *)
PanelsBelowMinimum(panel, frames, admitted) ==
  {p \in {panel[f] : f \in frames} : Cardinality({f \in admitted : panel[f] = p}) < 2}

(* _registration_anchor_exclusions *)
AnchorExclusions(b, route, approved, admitted) ==
  approved \cup BlinkFlagged(b)
  \cup {f \in DOMAIN b : "TEMPORAL_EXTINCTION_INFO" \in b[f].evidence}
  \cup (IF route = "explicit" THEN {f \in admitted : b[f].disposition # "PASS"} ELSE {})
=============================================================================
