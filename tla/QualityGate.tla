------------------------------ MODULE QualityGate ------------------------------
(***************************************************************************)
(* evaluate_quality_gate of light-frame-qc: the evidence raised for one     *)
(* frame of a cohort, the one item kept of each evidence family, and the    *)
(* disposition PASS, REVIEW or HARD_FAIL.                                   *)
(*                                                                         *)
(* A frame is a record e of what the gate reads, every number replaced by  *)
(* its position between the thresholds of GatePolicy: 0 below the weak     *)
(* one, 1 at least weak, 2 at least strong, 3 (extinction) thick.          *)
(***************************************************************************)
EXTENDS Naturals, Sequences, FiniteSets

(* The codes of each family in the order _add_family prefers them: by      *)
(* severity, then alphabetically.  The last one raised is kept.            *)
Ladder ==
  [IDENTITY     |-> <<"IDENTITY_MISMATCH", "IDENTITY_MISSING", "MEASUREMENT_FAILED",
                      "MEASUREMENT_MISSING">>,
   ROLE         |-> <<"NOT_A_LIGHT_FRAME">>,
   PIXELS       |-> <<"DYNAMIC_RANGE_MISSING", "FINITE_FRACTION_MISSING",
                      "FINITE_FRACTION_REVIEW", "FINITE_FRACTION_HARD",
                      "FINITE_FRACTION_INVALID", "NEAR_CONSTANT_IMAGE">>,
   PROVENANCE   |-> <<"INSUFFICIENT_COHORT", "INSUFFICIENT_NIGHT_BASELINE">>,
   METADATA     |-> <<"NIGHT_UNRESOLVED">>,
   REGISTRATION |-> <<"COMMON_FOOTPRINT_REVIEW", "REFERENCE_NOT_CONNECTED",
                      "REGISTRATION_REVIEW", "FIELD_OFFSET_HARD">>,
   TRANSPARENCY |-> <<"TEMPORAL_EXTINCTION_INFO", "NIGHT_ZEROPOINT_SHIFT_REVIEW",
                      "TEMPORAL_EXTINCTION_REVIEW", "TEMPORAL_EXTINCTION_STRONG",
                      "MULTI_FAMILY_CLOUD_HARD">>,
   CONSENSUS    |-> <<"ABSOLUTE_LOW_SOURCE_COUNT", "SOURCE_COUNT_MISSING",
                      "SOURCE_RETENTION_REVIEW", "SPATIAL_DIMMING_REVIEW",
                      "SOURCE_RETENTION_STRONG", "SPATIAL_DIMMING_STRONG">>,
   BACKGROUND   |-> <<"BACKGROUND_REVIEW", "NOISE_REVIEW", "BACKGROUND_STRONG">>,
   MORPHOLOGY   |-> <<"SHARED_ELONGATION_INFO", "FOCUS_SEEING_REVIEW",
                      "MORPHOLOGY_SAMPLE_REVIEW", "NIGHT_FOCUS_SHIFT_REVIEW",
                      "TRAILING_REVIEW", "COHERENT_TRAILING_HARD",
                      "FRAGMENTED_TRAILING_HARD">>,
   OCCLUSION    |-> <<"OCCLUSION_REVIEW", "OCCLUSION_HARD">>]

HardCodes ==
  {"IDENTITY_MISMATCH", "IDENTITY_MISSING", "MEASUREMENT_FAILED", "MEASUREMENT_MISSING",
   "NOT_A_LIGHT_FRAME", "FINITE_FRACTION_HARD", "FINITE_FRACTION_INVALID",
   "NEAR_CONSTANT_IMAGE", "FIELD_OFFSET_HARD", "MULTI_FAMILY_CLOUD_HARD",
   "COHERENT_TRAILING_HARD", "FRAGMENTED_TRAILING_HARD", "OCCLUSION_HARD"}
ErrorCodes ==
  {"TEMPORAL_EXTINCTION_STRONG", "SOURCE_RETENTION_STRONG", "SPATIAL_DIMMING_STRONG",
   "BACKGROUND_STRONG"}
InfoCodes == {"TEMPORAL_EXTINCTION_INFO", "SHARED_ELONGATION_INFO"}

Raise(condition, code) == IF condition THEN {code} ELSE {}

-----------------------------------------------------------------------------
(* What each section of the gate raises. *)

IdentityEvidence(e) ==
     Raise(~e.light, "NOT_A_LIGHT_FRAME")
  \cup Raise(~e.measured, "MEASUREMENT_FAILED")
  \cup Raise(e.identity = "missing", "IDENTITY_MISSING")
  \cup Raise(e.identity = "mismatch", "IDENTITY_MISMATCH")

PixelEvidence(e) ==
     Raise(e.finite = "missing", "FINITE_FRACTION_MISSING")
  \cup Raise(e.finite = "invalid", "FINITE_FRACTION_INVALID")
  \cup Raise(e.finite = "hard", "FINITE_FRACTION_HARD")
  \cup Raise(e.finite = "review", "FINITE_FRACTION_REVIEW")
  \cup Raise(e.range = "missing", "DYNAMIC_RANGE_MISSING")
  \cup Raise(e.range = "constant", "NEAR_CONSTANT_IMAGE")

CohortEvidence(e) ==
     Raise(~e.cohort, "INSUFFICIENT_COHORT")
  \cup Raise(e.night = "unresolved", "NIGHT_UNRESOLVED")
  \cup Raise(e.night = "small", "INSUFFICIENT_NIGHT_BASELINE")

(* The reference is judged by its best peer's registration: its own        *)
(* identity transform proves nothing.                                      *)
RegistrationEvidence(e) ==
     Raise(e.reference /\ ~e.connected, "REFERENCE_NOT_CONNECTED")
  \cup Raise(~e.registered, "REGISTRATION_REVIEW")

FootprintEvidence(e) ==
     Raise(e.overlap = "low" \/ (e.overlap = "missing" /\ ~e.matched), "COMMON_FOOTPRINT_REVIEW")
  \cup Raise(e.offset, "FIELD_OFFSET_HARD")

AirmassExplained(e) == e.model = "nightly" /\ e.excess = 0
ThinCloud(e)        == e.model # "unmeasured" /\ e.excess \in {1, 2}

ExtinctionEvidence(e) ==
     Raise(e.model # "unmeasured" /\ e.excess = 3, "TEMPORAL_EXTINCTION_STRONG")
  \cup Raise(ThinCloud(e), "TEMPORAL_EXTINCTION_INFO")
  \cup Raise(e.nightShift, "NIGHT_ZEROPOINT_SHIFT_REVIEW")

SpatialEvidence(e) ==
     Raise(e.spatial = 2, "SPATIAL_DIMMING_STRONG")
  \cup Raise(e.spatial = 1, "SPATIAL_DIMMING_REVIEW")

(* The raw source count is no evidence when the airmass explains it, nor   *)
(* against a reference of another night.                                   *)
RetentionEvidence(e) ==
  LET losses == {e.completeness} \cup (IF AirmassExplained(e) THEN {} ELSE {e.nightCount})
                \cup (IF ~AirmassExplained(e) /\ e.sameNight THEN {e.count} ELSE {})
  IN Raise(2 \in losses, "SOURCE_RETENTION_STRONG")
     \cup Raise(2 \notin losses /\ 1 \in losses, "SOURCE_RETENTION_REVIEW")
     \cup Raise(e.sources = "few", "ABSOLUTE_LOW_SOURCE_COUNT")
     \cup Raise(e.sources = "missing", "SOURCE_COUNT_MISSING")

BackgroundEvidence(e) ==
     Raise(e.background = 2, "BACKGROUND_STRONG")
  \cup Raise(e.background = 1, "BACKGROUND_REVIEW")
  \cup Raise(e.noise, "NOISE_REVIEW")

FocusEvidence(e) ==
     Raise(e.shapes < 1, "MORPHOLOGY_SAMPLE_REVIEW")
  \cup Raise((e.hfr >= 1 /\ e.fwhm >= 1) \/ 2 \in {e.hfr, e.fwhm}, "FOCUS_SEEING_REVIEW")

NightFocusEvidence(e) ==
  Raise((e.nightHfr >= 1 /\ e.nightFwhm >= 1) \/ e.nightFwhm = 2, "NIGHT_FOCUS_SHIFT_REVIEW")

(* Elongation every frame of the night shares, in no common direction, is  *)
(* the optics, unless it reaches the trailing level.                       *)
TrailingEvidence(e) ==
  LET coherent == e.shapes = 2 /\ e.elongation = 2 /\ e.coherence = 2 /\ e.standsOut = 2
      optical  == e.coherence = 0 /\ e.standsOut = 0 /\ e.elongation < 2
  IN Raise(e.fragmented, "FRAGMENTED_TRAILING_HARD")
     \cup Raise(coherent, "COHERENT_TRAILING_HARD")
     \cup Raise(~coherent /\ e.elongation >= 1 /\ optical, "SHARED_ELONGATION_INFO")
     \cup Raise(~coherent /\ e.elongation >= 1 /\ ~optical, "TRAILING_REVIEW")

OcclusionEvidence(e) ==
     Raise(e.occlusion = 2, "OCCLUSION_HARD") \cup Raise(e.occlusion = 1, "OCCLUSION_REVIEW")

FrameEvidence(e) ==
  UNION {IdentityEvidence(e), PixelEvidence(e), CohortEvidence(e), RegistrationEvidence(e),
         FootprintEvidence(e), ExtinctionEvidence(e), SpatialEvidence(e), RetentionEvidence(e),
         BackgroundEvidence(e), FocusEvidence(e), NightFocusEvidence(e), TrailingEvidence(e),
         OcclusionEvidence(e)}

-----------------------------------------------------------------------------
(* _add_family keeps, of each family, the highest item raised so far. *)

LadderCodes(family) == {Ladder[family][i] : i \in DOMAIN Ladder[family]}

Keep(raised) ==
  {code \in raised :
     \E family \in DOMAIN Ladder : \E i \in DOMAIN Ladder[family] :
       /\ Ladder[family][i] = code
       /\ \A j \in DOMAIN Ladder[family] : j > i => Ladder[family][j] \notin raised}

CloudCodes ==
  [CONSENSUS    |-> {"SPATIAL_DIMMING_STRONG", "SPATIAL_DIMMING_REVIEW",
                     "SOURCE_RETENTION_STRONG", "SOURCE_RETENTION_REVIEW"},
   TRANSPARENCY |-> {"TEMPORAL_EXTINCTION_STRONG", "TEMPORAL_EXTINCTION_REVIEW"},
   BACKGROUND   |-> {"BACKGROUND_STRONG", "BACKGROUND_REVIEW", "NOISE_REVIEW"}]

(* Thin cloud is reviewed when another family agrees.  An excess that was  *)
(* not corrected for altitude is never strong.                             *)
AgreedCloud(e, kept) ==
  LET agreed == ThinCloud(e) /\ (e.spatial >= 1 \/ kept \cap CloudCodes.BACKGROUND # {})
      strong == e.excess = 2 /\ e.model # "cohort-clear-frames"
  IN Raise(agreed /\ strong, "TEMPORAL_EXTINCTION_STRONG")
     \cup Raise(agreed /\ ~strong, "TEMPORAL_EXTINCTION_REVIEW")

CloudFamilies(codes) == {family \in DOMAIN CloudCodes : codes \cap CloudCodes[family] # {}}

MultiFamilyCloud(e, kept) ==
  LET cloud == kept \cap UNION {CloudCodes[family] : family \in DOMAIN CloudCodes}
  IN Raise(/\ e.cohort /\ e.registered
           /\ Cardinality(CloudFamilies(kept)) >= 2
           /\ cloud \cap ErrorCodes # {}, "MULTI_FAMILY_CLOUD_HARD")

(* Everything raised for a frame, and what its gate result shows. *)
WithAgreed(e, first)  == first \cup AgreedCloud(e, Keep(first))
WithCloud(e, second)  == second \cup MultiFamilyCloud(e, Keep(second))
AllRaised(e)          == WithCloud(e, WithAgreed(e, FrameEvidence(e)))

Disposition(evidence) ==
  IF evidence \cap HardCodes # {} THEN "HARD_FAIL"
  ELSE IF evidence \subseteq InfoCodes THEN "PASS" ELSE "REVIEW"
=============================================================================
