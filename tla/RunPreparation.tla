---------------------------- MODULE RunPreparation ----------------------------
(***************************************************************************)
(* What is judged of a calibration library before a run: the inspection of *)
(* the desktop and the calibration-check command (calibration/             *)
(* preflight.py), the execution plan (planning.py) and what                *)
(* prepare_execution (runtime.py) asks of the inventory.  All three read   *)
(* headers only; CalibrationPlan says what the run then does.              *)
(*                                                                         *)
(* A recipe says of each kind of calibration file whether it is REQUIRED,  *)
(* OPTIONAL or DISABLED (need), and whether supplied masters are allowed   *)
(* (masters).                                                              *)
(***************************************************************************)
EXTENDS CalibrationPlan

OfKind(library, kind) == {c \in library : Shot[c].kind = kind}
MastersOf(library, kind) == {c \in OfKind(library, kind) : Shot[c].supplied}
RawOf(library, kind) == OfKind(library, kind) \ MastersOf(library, kind)

Mixed(files) == \E c, d \in files : c # d /\ Shot[c].supplied

(* What the plan pairs, and what build_e2e_request hands to the run. *)
Planned(library, recipe) ==
  {c \in library : recipe.need[Shot[c].kind] # "DISABLED" /\ (Shot[c].supplied => recipe.masters)}

Requested(library, recipe) ==
  {c \in library : Shot[c].kind = "DARK" => recipe.need["DARK"] # "DISABLED"}

(* ROLE_CONFLICT of the inventory. *)
InventoryErrors(library) == Issue(\E c \in library : Shot[c].role = "other", "ROLE_CONFLICT")

-----------------------------------------------------------------------------
(* _wbpp_calibration_issues: a refused pairing blocks, and so does a       *)
(* REQUIRED kind that a Light has no frame of.                             *)

GroupOf(pairing, kind) ==
  CASE kind = "BIAS" -> pairing.bias [] kind = "DARK" -> pairing.dark [] OTHER -> pairing.flat

Lacks(pairing, kind) ==
  GroupOf(pairing, kind) = NoGroup /\ kind \o "_INCOMPATIBLE" \notin pairing.errors

PairingErrors(match) == UNION {match.lights[f].errors : f \in DOMAIN match.lights}

WbppErrors(match, recipe) ==
  PairingErrors(match)
  \cup {kind \o "_MATCH_MISSING" :
          kind \in {k \in Kinds : /\ recipe.need[k] = "REQUIRED"
                                  /\ \E f \in DOMAIN match.lights : Lacks(match.lights[f], k)}}

(* The exact rules of the strict workflow. *)
Compatible(t, c) ==
  /\ SameProfile(t, c)
  /\ c.kind = "FLAT" => t.filter = c.filter /\ t.filter # ""
  /\ c.kind = "DARK" => SameDark(t, c) /\ t.exposure # 0

Candidates(t, kind, files) ==
  LET fitting == {c \in OfKind(files, kind) : Compatible(t, Shot[c]) /\ KeywordsCompatible(t, Shot[c])}
      shared == {c \in fitting : t.night # 0 /\ Shot[c].night = t.night}
  IN IF shared # {} THEN shared ELSE fitting

StrictErrors(lights, files, recipe) ==
  LET some(kind, P(_)) == \E f \in DOMAIN lights : P(Candidates(lights[f], kind, files))
      used == {k \in Kinds : recipe.need[k] # "DISABLED"}
  IN {kind \o "_MATCH_AMBIGUOUS" : kind \in {k \in used : some(k, Mixed)}}
     \cup {kind \o "_MATCH_MISSING" :
             kind \in {k \in used : recipe.need[k] = "REQUIRED" /\ some(k, LAMBDA found : found = {})}}

(* calibration_match_issues; leaving: the Darks, or none, that are known   *)
(* to leave the bias in.                                                   *)
MatchErrors(lights, files, recipe, workflow, leaving) ==
  IF workflow = MonoStandard
  THEN WbppErrors(MatchLibrary(lights, files, FlatDarkLimit, leaving), recipe)
  ELSE StrictErrors(lights, files, recipe)

-----------------------------------------------------------------------------
(* build_plan asks nobody what a MasterDark declares. *)
ContractErrors(lights, library, recipe, workflow) ==
  InventoryErrors(library)
  \cup MatchErrors(lights, Planned(library, recipe), recipe, workflow, {NoGroup})

(* validate_e2e_inventory *)
Undeclared(library) == {c \in MastersOf(library, "DARK") : Shot[c].explicit = "none"}

InventoryRefusal(library, recipe, workflow) ==
  IF ~recipe.masters /\ \E c \in library : Shot[c].supplied THEN "MASTER_CALIBRATION_INPUT_DISABLED"
  ELSE IF workflow = Strict /\ Undeclared(library) # {} THEN "MASTER_DARK_BIAS_SEMANTICS_REQUIRED"
  ELSE IF recipe.need["FLAT"] = "DISABLED" THEN "FLAT_DISABLED_UNSUPPORTED"
  ELSE IF recipe.need["BIAS"] = "DISABLED" THEN "BIAS_DISABLED_UNSUPPORTED"
  ELSE IF OfKind(library, "FLAT") = {} THEN "NO_FLATS"
  ELSE IF \/ Mixed(OfKind(library, "BIAS"))
          \/ workflow = Strict /\ OfKind(library, "BIAS") = {} THEN "BIAS_SOURCE_AMBIGUOUS"
  ELSE IF recipe.need["DARK"] = "REQUIRED" /\ OfKind(library, "DARK") = {} THEN "NO_DARKS"
  ELSE ""

PreparationRefusal(lights, library, recipe, workflow) ==
  IF ContractErrors(lights, library, recipe, workflow) # {} THEN "PLAN_CONTRACT_INVALID"
  ELSE InventoryRefusal(library, recipe, workflow)

-----------------------------------------------------------------------------
(* inspect_calibration: the issues of severity ERROR.  The strict workflow *)
(* also judges the library as a whole, whatever a Light would be paired    *)
(* with.                                                                   *)

RecipeErrors(lights, library, recipe) ==
  Issue(~recipe.masters /\ \E c \in library : Shot[c].supplied, "MASTER_CALIBRATION_INPUT_DISABLED")
  \cup Issue(recipe.need["FLAT"] = "DISABLED", "FLAT_DISABLED_UNSUPPORTED")
  \cup Issue(recipe.need["BIAS"] = "DISABLED", "BIAS_DISABLED_UNSUPPORTED")
  \cup Issue(\E f \in DOMAIN lights : lights[f].exposure = 0, "LIGHT_EXPOSURE_UNKNOWN")
  \cup Issue(\E c \in OfKind(library, "DARK") : Shot[c].exposure = 0, "DARK_EXPOSURE_UNKNOWN")

(* The profile of the first raw Bias, MasterBias or Light. *)
Profile(lights, library) ==
  LET raw == RawOf(library, "BIAS")
      masters == MastersOf(library, "BIAS")
  IN IF raw \cup masters = {} THEN lights[FirstOf(DOMAIN lights)]
     ELSE Shot[FirstOf(IF raw # {} THEN raw ELSE masters)]

DarkErrors(lights, darks) ==
  LET twice(P(_, _)) == \E c, d \in darks : /\ c # d /\ Shot[c].exposure = Shot[d].exposure
                                            /\ P(Shot[c], Shot[d])
  IN Issue(/\ darks # {}
           /\ \E f \in DOMAIN lights : \A c \in darks : ~Compatible(lights[f], Shot[c]),
           "DARK_EXPOSURE_MISMATCH")
     \cup Issue(twice(LAMBDA t, u : t.supplied), "DARK_SOURCE_AMBIGUOUS")
     \cup Issue(twice(LAMBDA t, u : ~t.supplied /\ ~u.supplied /\ TemperatureDiffers(t, u)),
                "DARK_TEMPERATURE_MISMATCH")

FlatErrors(flats, darks) ==
  Issue(\E c \in flats : Mixed({d \in flats : /\ Shot[d].filter = Shot[c].filter
                                             /\ Shot[d].night = Shot[c].night}),
        "FLAT_SOURCE_AMBIGUOUS")
  \cup Issue(\E c \in flats : \E d \in darks :
               /\ ~Shot[c].supplied /\ Shot[d].exposure = Shot[c].exposure
               /\ ~Compatible(Shot[c], Shot[d]),
             "FLAT_DARK_MISMATCH")

(* First the mutant: only sources that a Light may be paired with.         *)
StrictLibraryErrorsPaired(lights, library) ==
  DarkErrors(lights, OfKind(library, "DARK"))
  \cup FlatErrors(OfKind(library, "FLAT"), OfKind(library, "DARK"))

StrictLibraryErrors(lights, library) ==
  LET darks == OfKind(library, "DARK")
      all == {Shot[c] : c \in library} \cup {lights[f] : f \in DOMAIN lights}
  IN Issue(Mixed(OfKind(library, "BIAS")), "BIAS_SOURCE_AMBIGUOUS")
     \cup Issue(\E t \in all : ~SameProfile(Profile(lights, library), t), "CALIBRATION_PROFILE_UNSUPPORTED")
     \cup Issue(Undeclared(library) # {}, "MASTER_DARK_BIAS_SEMANTICS_REQUIRED")
     \cup DarkErrors(lights, darks) \cup FlatErrors(OfKind(library, "FLAT"), darks)

InspectionErrors(lights, library, recipe, workflow) ==
  InventoryErrors(library)
  \cup MatchErrors(lights, Planned(library, recipe), recipe, workflow,
                    Leaving(Planned(library, recipe), workflow))
  \cup RecipeErrors(lights, library, recipe)
  \cup (IF workflow = Strict THEN StrictLibraryErrors(lights, library) ELSE {})

-----------------------------------------------------------------------------
(* The refusals of the calibration of a run. *)
CalibrationCodes ==
  {"PLAN_CONTRACT_INVALID", "MASTER_CALIBRATION_INPUT_DISABLED", "FLAT_DISABLED_UNSUPPORTED",
   "BIAS_DISABLED_UNSUPPORTED", "NO_FLATS", "NO_DARKS", "FRAME_ROLE_MISMATCH",
   "BIAS_SOURCE_AMBIGUOUS", "MASTER_DARK_BIAS_SEMANTICS_REQUIRED",
   "CALIBRATION_NUMERIC_DOMAIN_AMBIGUOUS", "REGISTRATION_LIGHT_NUMERIC_DOMAIN_MIXED",
   "DARK_EXPOSURE_UNKNOWN", "FILTER_UNKNOWN", "BIAS_INCOMPATIBLE", "DARK_INCOMPATIBLE",
   "FLAT_INCOMPATIBLE", "CALIBRATION_PROFILE_MISMATCH", "SOURCE_AMBIGUOUS",
   "MASTER_FLAT_MISSING", "DARK_EXPOSURE_MISMATCH", "BIAS_REQUIRED_FOR_CALIBRATION",
   "TRUSTED_GENERATED_CALIBRATION_COVERAGE_MISMATCH",
   "TRUSTED_GENERATED_CALIBRATION_SOURCE_DRIFT"}

(* Those that an inspection which found nothing to block leaves possible:  *)
(* it reads no pixel format; it ignores a Flat that no Light would be      *)
(* paired with, which the run refuses when it names no filter, and does    *)
(* without any Flat when the recipe does; in the mono workflow it pairs as *)
(* if several Bias sources could be chosen from; in the strict one it      *)
(* judges Darks without their grouping keywords, takes groups that         *)
(* keywords alone tell apart for one source and does not ask which Bias a  *)
(* Flat would get, compares a Light with every Dark of a group where the   *)
(* run compares it with the first, and requires a Bias only when the       *)
(* recipe does.                                                            *)
Unforeseen(library, recipe, workflow) ==
  {"CALIBRATION_NUMERIC_DOMAIN_AMBIGUOUS", "REGISTRATION_LIGHT_NUMERIC_DOMAIN_MIXED"}
  \cup Issue(\E c \in OfKind(library, "FLAT") : Shot[c].filter = "", "FILTER_UNKNOWN")
  \cup (IF recipe.need["FLAT"] # "REQUIRED" THEN {"NO_FLATS", "MASTER_FLAT_MISSING"} ELSE {})
  \cup Issue(workflow = MonoStandard /\ Mixed(OfKind(library, "BIAS")), "BIAS_SOURCE_AMBIGUOUS")
  \cup (IF workflow = Strict /\ \E c \in library : Shot[c].night # 0
        THEN {"SOURCE_AMBIGUOUS", "DARK_EXPOSURE_MISMATCH", "BIAS_REQUIRED_FOR_CALIBRATION"} ELSE {})
  \cup Issue(/\ workflow = Strict
             /\ \E c, d \in RawOf(library, "DARK") : /\ Shot[c].exposure = Shot[d].exposure
                                                    /\ Shot[c].temperature # Shot[d].temperature,
             "CALIBRATION_PROFILE_MISMATCH")
  \cup (IF workflow = Strict /\ recipe.need["BIAS"] # "REQUIRED"
        THEN {"BIAS_SOURCE_AMBIGUOUS", "BIAS_REQUIRED_FOR_CALIBRATION"} ELSE {})
=============================================================================
