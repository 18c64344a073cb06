------------------------------- MODULE PixelRun -------------------------------
(***************************************************************************)
(* The pixels of a run, from its files to its linear masters: preparation  *)
(* (RunPreparation), screening (Screening), calibration (CalibrationPlan), registration *)
(* (FrameRegistration, StarMatching) and the integration passes            *)
(* (GroupIntegration, with MetalReduction for a group on Metal and         *)
(* RejectionKernel for the samples of a band) of                           *)
(* _integrate_admitted_lights (workflows/integration.py), which integrates *)
(* again without the Lights a counterfactual confirms harmful.             *)
(***************************************************************************)
EXTENDS Screening, RunPreparation, FrameRegistration, StarMatching, CommonCrop,
        GroupIntegration, MetalReduction, RejectionKernel

CONSTANTS
  Header,      \* Header[f]: the calibration traits of Light f
  Libraries,   \* the sets of calibration files a run may have
  Workflows,   \* the calibration workflows
  Recipes,     \* what a recipe may ask of the calibration
  Starts,      \* how an integration may start: a request (below), the landing
               \* of the Lights (their footprints), a band of their pixels,
               \* a field of stars
  Height,      \* rows of a footprint
  Grains,      \* the chunks the kernel may claim
  NameOrder,   \* the names of output groups, sorted
  MaxPasses    \* max_integration_passes

(* A request: the machine (backend, kernels: the native CPU kernels,       *)
(* apple: a Metal device, cores, metal: the numbers of its memory plan),   *)
(* mode (ordinary or drizzle), canvas: a mosaic canvas, proper: a proper   *)
(* coadd that reuses the rejection, pattern: the Bayer patterns by filter, *)
(* mapped: the Lights with a region weight map, overridden: those whose    *)
(* metadata the request overrides, exclude: whether the counterfactual is  *)
(* analysed and acted upon, priority.                                      *)

(* The names of the output groups are listed once each; the memory plan of *)
(* Metal is made for at least one of everything.  A library is some of the *)
(* numbered files.                                                         *)
ASSUME PixelAssumption ==
  /\ IsFiniteSet(Further) /\ Further \subseteq Nat /\ SoftGuard \in Nat
  /\ {Header[f].filter : f \in Lights} \cup {"R", "G", "B"} \subseteq Range(NameOrder)
  /\ IsInjective(NameOrder) /\ Height \in Nat \ {0}
  /\ \A start \in Starts : start.landing \in [Lights -> [1..Height -> Int \X Int]]
  /\ Header \in [Lights -> TraitsOf({"LIGHT"})]
  /\ \A files \in Libraries : files \subseteq DOMAIN Shot /\ IsFiniteSet(files)
  /\ Workflows \subseteq {MonoStandard, Strict}
  /\ Recipes \subseteq [need : [Kinds -> {"REQUIRED", "OPTIONAL", "DISABLED"}], masters : BOOLEAN]
  /\ \A start \in Starts :
       start.request.metal \in [workers : Nat \ {0}, buffers : Nat \ {0}, rows : Nat \ {0},
                               height : Nat \ {0}, budget : Nat]

VARIABLES
  accepted,           \* whether prepare_execution accepted the run
  library, workflow, recipe,  \* its calibration files and recipe
  request,            \* as above
  reference,          \* the normalization reference of each filter
  landing,            \* the registered footprints
  band,               \* a band of registered samples
  field,              \* catalogues of three Lights
  pass,               \* pass_index
  present,            \* light_subset
  manifest            \* the Lights that trusted_generated_calibration is bound to

pixelVars ==
  <<accepted, library, workflow, recipe, request, reference, landing, band, field, pass, present, manifest>>
vars == <<measureVars, screenVars, passVars, reductionVars, pixelVars>>

PixelInit ==
  /\ ScreenInit /\ PassInit /\ ReductionInit
  /\ accepted = FALSE /\ library \in Libraries /\ workflow \in Workflows /\ recipe \in Recipes
  /\ request = <<>> /\ reference = <<>> /\ landing = <<>>
  /\ band = <<>> /\ field = <<>> /\ pass = 0 /\ present = {} /\ manifest = {}

Headers(frames) == [f \in frames |-> Header[f]]
Filter == [f \in Lights |-> Header[f].filter]
Names(frames) == {Filter[f] : f \in frames}

RunFails(error) ==
  /\ stage' = "failed" /\ failure' = error
  /\ UNCHANGED <<usable, results, route, approved, admitted, weight, anchors>>
  /\ UNCHANGED pixelVars

(* prepare_execution *)
PrepareRun ==
  /\ stage = "measure" /\ batch = "run" /\ ~accepted
  /\ \E refusal \in {PreparationRefusal(Headers(Lights), library, recipe, workflow)} :
       \/ refusal # "" /\ RunFails(refusal)
       \/ /\ refusal = "" /\ accepted' = TRUE
          /\ UNCHANGED screenVars
          /\ UNCHANGED <<library, workflow, recipe, request, reference, landing, band, field, pass, present, manifest>>
  /\ UNCHANGED <<measureVars, passVars, reductionVars>>

ScreenStep ==
  /\ accepted \/ batch # "run"
  /\ MeasureStep \/ CollectMeasurements \/ AnalyzeAndGate \/ Admit
  /\ UNCHANGED <<passVars, reductionVars, pixelVars>>

-----------------------------------------------------------------------------
(* _build_registration_masters.  Of the screening only the admitted Lights *)
(* and their anchors are read below.                                       *)
Supply == Requested(library, recipe)

RawFlatUsed(match) == \E g \in UsedGroups(match) : g \in DOMAIN match.flats

BuildRegistrationMasters ==
  /\ stage = "admitted"
  /\ \E match \in {MatchCalibration(Headers(admitted), Supply, workflow)} :
     \E refusal \in {CalibrationRefusal(Headers(admitted), Supply, match, workflow)} :
       \/ refusal # "" /\ RunFails(refusal)
       \/ refusal = "" /\ RawFlatUsed(match) /\ RunFails("FLAT_SIGNAL_INVALID")
       \/ /\ refusal = "" /\ stage' = "calibrated"
          /\ usable' = {} /\ results' = <<>> /\ approved' = {} /\ weight' = <<>>
          /\ UNCHANGED <<route, admitted, anchors, failure>>
          /\ UNCHANGED pixelVars
  /\ UNCHANGED <<measureVars, passVars, reductionVars>>

(* _register_lights.  One frame that fails is as good as all. *)
RegisterLights ==
  /\ stage = "calibrated"
  /\ \E best \in anchors : \E direct \in {d \cup {best} : d \in SUBSET admitted} :
     \E bridged, stranded, refined \in {{}, admitted} :
       LET found == [direct |-> direct, bridged |-> bridged, stranded |-> stranded \ bridged,
                     refined |-> refined]
           refusal == RegistrationRefusal(admitted, Filter, best, found)
       IN \/ refusal # "" /\ RunFails(refusal)
          \/ /\ refusal = "" /\ stage' = "registered"
             /\ reference' \in NormalizationReferences(admitted, Filter, anchors)
             /\ UNCHANGED <<usable, results, route, approved, admitted, weight, anchors, failure>>
             /\ UNCHANGED <<accepted, library, workflow, recipe, request, landing, band, field, pass, present, manifest>>
  /\ UNCHANGED <<measureVars, passVars, reductionVars>>

-----------------------------------------------------------------------------
(* capture_trusted_generated_calibration_set: an ordinary run with raw     *)
(* calibration files hands its pixel pipeline the masters the registration *)
(* made, bound to the Lights the pipeline will read.                       *)
TrustsMasters(mode) == mode = "ordinary" /\ \E c \in Supply : ~Shot[c].supplied

Captured(mode, frames) == IF TrustsMasters(mode) THEN frames ELSE {}

(* _integrate_admitted_lights: the first pass.  The transforms put every   *)
(* Light somewhere on the grid of the reference.                           *)
StartIntegration ==
  /\ stage = "registered" /\ stage' = "pass"
  /\ \E start \in Starts :
       /\ request' = start.request /\ landing' = start.landing
       /\ band' = start.band /\ field' = start.field
       /\ manifest' = Captured(start.request.mode, admitted)
  /\ pass' = 1 /\ present' = admitted
  /\ UNCHANGED <<measureVars, usable, results, route, approved, admitted, weight, anchors, failure>>
  /\ UNCHANGED <<passVars, reductionVars, accepted, library, workflow, recipe, reference>>

(* _output_groups: a Bayer filter is debayered into three groups. *)
OutputNames(name) ==
  IF request.pattern[name] = "RGGB" THEN {"R", "G", "B"} ELSE {name}

OutputNamesOf(frames) == UNION {OutputNames(name) : name \in Names(frames)}
OutputGroups(frames)  == SelectSeq(NameOrder, LAMBDA n : n \in OutputNamesOf(frames))

Members(frames, n) == {f \in frames : n \in OutputNames(Filter[f])}

ChannelCollision(frames) ==
  \E p, q \in Names(frames) : p # q /\ OutputNames(p) \cap OutputNames(q) # {}

(* The overrides of the Lights admitted at the start: a digest must bind   *)
(* one present source (apply_raw_frame_metadata_overrides).                *)
Overrides == request.overridden \cap admitted

(* Masters trusted from the registration: one per raw group it used.       *)
Trusted == TrustsMasters(request.mode)
Matched(frames) == MatchCalibration(Headers(frames), Supply, workflow)
RawUsed(match)  == {g \in UsedGroups(match) : ~Supplied(g)}

(* The Light that the stellar-scale hint of f is relative to, which        *)
(* _staged_pixel_maps looks up among the Lights of the pass.               *)
HintReference(f) == reference[Filter[f]]

HintReferenceGone(frames) == \E f \in frames : HintReference(f) \notin frames

(* validate_trusted_generated_calibration_set: the pass reads other Lights *)
(* than the trusted masters are bound to.                                  *)
SourceDrift(frames) == Trusted /\ manifest # frames

(* _resolve_region_weight_maps, and those a mosaic canvas cannot drizzle.  *)
RegionMapped(frames) == frames \cap request.mapped
CanvasDrizzle        == request.canvas /\ request.mode = "drizzle"

(* _resolve_stellar_scale_hints *)
HintsCrossFilters(frames) == \E f \in frames : Filter[HintReference(f)] # Filter[f]

(* _staged_pixel_maps and _plan_run, in the order of the code. *)
RefusalOf(frames, covered, calibration) ==
  IF HintReferenceGone(frames) THEN "STELLAR_SCALE_HINT_REFERENCE_MISMATCH"
  ELSE IF SourceDrift(frames) THEN "TRUSTED_GENERATED_CALIBRATION_SOURCE_DRIFT"
  ELSE IF Overrides \ frames # {} THEN "RAW_FRAME_METADATA_OVERRIDE_SOURCE_AMBIGUOUS"
  ELSE IF ChannelCollision(frames) THEN "CFA_CHANNEL_GROUP_COLLISION"
  ELSE IF calibration # "" THEN calibration
  ELSE IF Trusted /\ ~covered THEN "TRUSTED_GENERATED_CALIBRATION_COVERAGE_MISMATCH"
  ELSE IF CanvasDrizzle /\ RegionMapped(frames) # {} THEN "MOSAIC_REGION_WEIGHTS_UNSUPPORTED"
  ELSE IF HintsCrossFilters(frames) THEN "STELLAR_SCALE_HINT_FILTER_MISMATCH"
  ELSE ""

(* match: the pairings of the Lights present and of the admitted ones. *)
PlanRefusal(frames, match) ==
  RefusalOf(frames, RawUsed(match[frames]) \subseteq RawUsed(match[admitted]),
            CalibrationRefusal(Headers(frames), Supply, match[frames], workflow))

(* _group_concurrency and _requested_selection. *)
CoresPerGroup == 6
OnCpu == request.backend = "portable-cpu" \/ (request.backend = "auto" /\ request.kernels)

GroupConcurrency(n) ==
  IF ~OnCpu \/ n < 2 THEN 1 ELSE Max({1, Min({n, request.cores \div CoresPerGroup})})

Schedule(frames, names) ==
  LET size(i) == Cardinality(Members(frames, names[i]))
  IN SetToSortSeq(DOMAIN names, LAMBDA i, j : size(i) > size(j) \/ (size(i) = size(j) /\ i < j))

FilterCrop(frames, name) ==
  CommonValidCrop({landing[f] : f \in {g \in frames : Filter[g] = name}}, Height)

PassPlan(frames, match) ==
  LET names == OutputGroups(frames)
      n == Cardinality(OutputNamesOf(frames))
  IN [lights |-> frames, workers |-> Min({request.cores, Cardinality(frames)}),
      groups |-> n, concurrency |-> GroupConcurrency(n),
      schedule |-> Schedule(frames, names),
      build |-> ~Trusted /\ RawUsed(match) # {},
      device |-> request.backend # "portable-cpu" /\ request.apple,
      accelerated |-> {i \in DOMAIN names : /\ ~OnCpu /\ request.apple
                                            /\ RegionMapped(Members(frames, names[i])) = {}},
      masks |-> request.proper,
      crop |-> SharedCrop({FilterCrop(frames, name) : name \in Names(frames)}) # NoRectangle]

StartNextPass ==
  /\ stage = "pass" /\ step = "idle"
  /\ \E match \in {[frames \in {present, admitted} |-> Matched(frames)]} :
     \E refusal \in {PlanRefusal(present, match)} :
       \/ refusal # "" /\ RunFails(refusal) /\ UNCHANGED passVars
       \/ /\ refusal = "" /\ StartPass(PassPlan(present, match[present]))
          /\ UNCHANGED <<screenVars, pixelVars>>
  /\ UNCHANGED <<measureVars, reductionVars>>

(* The run's own threads; a group handed to Metal is reduced tile by tile, *)
(* and leaves it as the reduction ended.                                   *)
MetalOutcome ==
  [published |-> "products", rejected |-> "fallback", overwritten |-> "OUTPUT_EXISTS",
   raised |-> "INTEGRATION"]

ReduceOnMetal ==
  \E i \in Positions :
    /\ group[i] = "metal"
    /\ StartReduction(request.metal, Cardinality(Members(present, OutputGroups(present)[i])))
    /\ UNCHANGED passVars

EndReduction ==
  /\ flow \in Endings /\ LeaveMetal(MetalOutcome[flow]) /\ ResetReduction

IntegrationStep ==
  /\ stage = "pass"
  /\ \/ HostStep /\ UNCHANGED reductionVars
     \/ ReduceOnMetal
     \/ TileStep /\ UNCHANGED passVars
     \/ EndReduction
  /\ UNCHANGED <<measureVars, screenVars, pixelVars>>

PassFails ==
  /\ stage = "pass" /\ step = "closed" /\ staging = "removed"
  /\ RunFails(code) /\ ResetPass
  /\ UNCHANGED <<measureVars, reductionVars>>

-----------------------------------------------------------------------------
(* After a pass: the reports of the groups, and the Lights they confirm    *)
(* harmful.  Metal leaves a group's accumulator without tiles.             *)

Effects == {"depth", "width", "background", "deepening"}
Effect(kind) ==
  [depth |-> IF kind = "depth" THEN 2 ELSE IF kind = "deepening" THEN -1 ELSE 0,
   width |-> IF kind = "width" THEN 2 ELSE 0,
   background |-> IF kind \in {"background", "deepening"} THEN 2 ELSE 0]

Report(i, bad, kind) ==
  [enoughTiles |-> i \in observed,
   frames |-> [f \in Members(present, OutputGroups(present)[i]) |->
                 IF f \in bad THEN Effect(kind) ELSE Effect("none")]]

(* The last report that names a frame decides. *)
Harmful(bad, kind) ==
  LET keep == [f \in present |-> Kept(10000)]
      confirmed(i) == ConfirmedHarmful(Report(i, bad, kind), keep, request.priority)
      names(f) == {i \in Positions : f \in Members(present, OutputGroups(present)[i])}
  IN {f \in present : f \in confirmed(Max(names(f)))}

Unattended == route \in {"unattended", "include-all"}

Integrated ==
  /\ stage' = "integrated"
  /\ UNCHANGED <<usable, results, route, approved, admitted, weight, anchors, failure>>
  /\ UNCHANGED <<pixelVars, passVars>>

IntegrateAgain(removed) ==
  /\ pass' = pass + 1 /\ present' = present \ removed
  /\ manifest' = Captured(request.mode, present \ removed)
  /\ ResetPass
  /\ UNCHANGED <<screenVars, accepted, library, workflow, recipe, request, reference, landing, band, field>>

AfterPass ==
  /\ stage = "pass" /\ step = "closed" /\ staging = "published"
  /\ \/ ~Unattended /\ Integrated
     \/ /\ Unattended
        /\ \E bad \in {b \in SUBSET present : Cardinality(b) <= 2} : \E kind \in Effects :
             LET harmful == Harmful(bad, kind)
                 removable == CounterfactualExclusions(harmful, present, Range(reference), Panel,
                                                       Cardinality(admitted))
             IN IF pass >= MaxPasses \/ ~request.exclude \/ removable = {} THEN Integrated
                ELSE IntegrateAgain(removable)
  /\ UNCHANGED <<measureVars, reductionVars>>

Settled ==
  \/ stage \in {"failed", "evidence", "integrated"}
  \/ stage = "gated" /\ batch # "run"

Done == Settled /\ UNCHANGED vars

PixelNext ==
  \/ PrepareRun \/ ScreenStep \/ BuildRegistrationMasters \/ RegisterLights \/ StartIntegration
  \/ StartNextPass \/ IntegrationStep \/ PassFails \/ AfterPass \/ Done

PixelSpec == PixelInit /\ [][PixelNext]_vars

-----------------------------------------------------------------------------
(* Bias and dark current are subtracted from a Light once or its pairing   *)
(* has a warning that says otherwise, and the registration preview, which  *)
(* computes it along another path, shows the same pixels (pairing.py,      *)
(* masters.py, lights.py, _calibrate_arrays).  From a raw Flat that a      *)
(* master is built of, the bias.                                           *)
ResidualsAreWarned ==
  stage = "calibrated" =>
    \A match \in {Matched(admitted)} :
      /\ \A f \in admitted : \A p \in {match.lights[f]} :
         \A x \in {Subtracted(Header[f], p, workflow)} :
           ~SilentResidual(Header[f], p, x, Supply) /\ CalibratedPreview(Header[f], p, workflow) = x
      /\ \A g \in UsedGroups(match) \cap DOMAIN match.flats : \A p \in {match.flats[g]} :
           ~SilentResidual(Traits(g), p, [Subtracted(Traits(g), p, workflow) EXCEPT !.dark = 0],
                           Supply)

(* "planning.py and calibration/preflight.py report the same pairing before *)
(* a run" (docs/architecture.md): a run whose inspection found nothing to  *)
(* block is not refused for its calibration, neither when it is prepared   *)
(* nor hours later, when its Lights are paired or paired again.            *)
ReadyIsRunnable ==
  stage = "failed" /\ failure \in CalibrationCodes \ Unforeseen(library, recipe, workflow) =>
    InspectionErrors(Headers(Lights), library, recipe, workflow) # {}

CalibrationSound == ResidualsAreWarned /\ ReadyIsRunnable

(* The run-length histogram of histogram_rectangle finds the largest       *)
(* rectangle that every Light of a filter covers.                          *)
CropIsLargest ==
  stage = "pass" /\ step = "idle" /\ pass = 1 =>
    \A name \in Names(present) :
      FilterCrop(present, name) =
        LargestCovered({landing[f] : f \in {g \in present : Filter[g] = name}}, Height)

(* A transform that a run integrates with takes every star that the frame  *)
(* shares with the reference onto that star, directly or through the       *)
(* anchor of its filter, and its preview matrix says what its full matrix  *)
(* says (_estimate_one, _estimate_via_bridge, _refine_full_resolution).    *)
RegistrationIsTrue ==
  stage = "pass" /\ step = "idle" /\ pass = 1 => TransformsAreTrue(field)

(* "The native multithreaded kernel and the NumPy reference below make     *)
(* value-identical decisions" (_ordinary_mad_rejection_decision), in       *)
(* whatever chunks its threads claim the pixels, and "the v2 decisions are *)
(* then a subset of the v1 rejections at every pixel"                      *)
(* (_rejection_frame_scales).                                              *)
KernelIsReference ==
  stage = "pass" /\ step = "idle" /\ pass = 1 => SameDecisions(band.pixels, band.model, Grains)

(* However many passes, a run that integrates again keeps two Lights in    *)
(* each panel and the Light its hints are bound to, stays under the        *)
(* exclusion guard, asks for no master the registration did not make, and  *)
(* trusts masters only for the very Lights it reads                        *)
(* (_counterfactual_exclusions, _trusted_generated_coverage).              *)
ReintegrationSound ==
  stage = "pass" /\ step = "idle" /\ pass > 1 =>
    /\ Range(reference) \subseteq present
    /\ \A f \in admitted : Cardinality({g \in present : Panel[g] = Panel[f]}) >= 2
    /\ 100 * Cardinality(admitted \ present) <= SoftGuard * Cardinality(admitted)
    /\ RawUsed(Matched(present)) \subseteq RawUsed(Matched(admitted))
    /\ Trusted => manifest = present
=============================================================================
