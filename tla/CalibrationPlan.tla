---------------------------- MODULE CalibrationPlan ----------------------------
(***************************************************************************)
(* Calibration of Lights: which Bias, Dark and Flat groups a library of     *)
(* calibration files forms (calibration/matching.py), how Lights and raw    *)
(* Flats are paired with them (matching.py, pairing.py), what the masters  *)
(* hold, and what the registration preview (ufwbpp_registration) and the   *)
(* pixel pipeline (stacking/) subtract from a Light.                       *)
(*                                                                         *)
(* The traits of a file are a record t:                                    *)
(*   kind, supplied  BIAS, DARK, FLAT or LIGHT; a master of the user's      *)
(*   size            stands for size, binning and colour, 0 unknown        *)
(*   gain            stands for the acquisition settings, 0 unknown        *)
(*   night           the grouping keyword, 0 absent                        *)
(*   filter, exposure (tenths of a second), temperature                    *)
(*   explicit, header  what a metadata override and the header of a master *)
(*                   Dark say of its bias: included, subtracted or none    *)
(*   unit            its normalized unit scale, 0 without an authority     *)
(*   role, stem      whether its header names another role; its file name  *)
(***************************************************************************)
EXTENDS Integers, Sequences, FiniteSets, SequencesExt

CONSTANTS
  Shot,                 \* Shot[c]: the traits of calibration file c, a number
  TemperatureTolerance, \* dark_temperature_tolerance_celsius
  FlatDarkLimit         \* FLAT_DARK_EXPOSURE_TOLERANCE_SECONDS

MonoStandard == "mono-standard-v1"
Strict       == "strict-v1"

Kinds == {"BIAS", "DARK", "FLAT"}

BiasNotes == {"included", "subtracted", "none"}

TraitsOf(kinds) ==
  [kind : kinds, supplied : BOOLEAN, size : Nat, gain : Nat, night : Nat, filter : STRING,
   exposure : Nat, temperature : Int, explicit : BiasNotes, header : BiasNotes, unit : Nat,
   role : {"same", "other"}, stem : STRING]

ASSUME CalibrationAssumption ==
  /\ DOMAIN Shot \subseteq Nat /\ \A c \in DOMAIN Shot : Shot[c] \in TraitsOf(Kinds)
  /\ TemperatureTolerance \in Nat

FirstOf(files) == CHOOSE c \in files : \A d \in files : c <= d

-----------------------------------------------------------------------------
(* What a master Dark declares (policy.py): without an override only the   *)
(* mono workflow trusts the header, and assumes an undeclared Dark to      *)
(* include its bias.                                                       *)
ResolveDarkBias(t, workflow) ==
  IF t.explicit # "none" THEN t.explicit
  ELSE IF workflow = MonoStandard THEN (IF t.header = "none" THEN "included" ELSE t.header)
  ELSE "unresolved"

BiasIncluded(t, workflow) == ~t.supplied \/ ResolveDarkBias(t, workflow) = "included"

-----------------------------------------------------------------------------
(* group_calibration: raw files of equal identity are one group, a         *)
(* supplied master is a group of its own.                                  *)

GroupIdentity(t) ==
  <<t.kind, t.size, IF t.kind = "FLAT" THEN t.filter ELSE "",
    IF t.kind = "DARK" THEN t.exposure ELSE 0, t.night, t.gain>>

Traits(group)   == Shot[FirstOf(group)]
Supplied(group) == Traits(group).supplied
NoGroup         == {}

(* _base_key and _labels: the key of a group.  Its label tells settings,   *)
(* keywords and raw from master, then the file name of the first member,   *)
(* but neither size nor directory: of two groups with one key the later    *)
(* one is left.                                                            *)
BaseName(group) ==
  LET t == Traits(group)
  IN <<t.kind, IF t.kind = "DARK" THEN t.exposure ELSE 0, IF t.kind = "FLAT" THEN t.filter ELSE "">>

Label(group) == LET t == Traits(group) IN <<t.night, t.gain, t.supplied, t.stem>>

Overwritten(group, groups) ==
  \E other \in groups : /\ BaseName(other) = BaseName(group) /\ Label(other) = Label(group)
                        /\ FirstOf(group) < FirstOf(other)

GroupCalibration(library, kind) ==
  LET files == {c \in library : Shot[c].kind = kind}
      raw == {c \in files : ~Shot[c].supplied}
      groups == {{d \in raw : GroupIdentity(Shot[d]) = GroupIdentity(Shot[c])} : c \in raw}
                \cup {{c} : c \in files \ raw}
  IN {g \in groups : ~Overwritten(g, groups)}

-----------------------------------------------------------------------------
(* _rank and _choose. *)

PhysicallyCompatible(t, c) == t.size = c.size \/ 0 \in {t.size, c.size}
KeywordsCompatible(t, c)   == t.night = c.night \/ 0 \in {t.night, c.night}
SettingsDiffer(t, c)       == t.gain # c.gain /\ 0 \notin {t.gain, c.gain}
TemperatureDiffers(t, c)   ==
  \/ t.temperature - c.temperature > TemperatureTolerance
  \/ c.temperature - t.temperature > TemperatureTolerance

ExposureDistance(t, c) ==
  IF t.exposure > c.exposure THEN t.exposure - c.exposure ELSE c.exposure - t.exposure

One(condition) == IF condition THEN 1 ELSE 0

(* The smallest score wins. *)
Score(t, group) ==
  LET c == Traits(group)
      dark == c.kind = "DARK"
  IN <<- One(t.night # 0 /\ t.night = c.night),
       - One(t.gain # 0 /\ t.gain = c.gain),
       IF dark THEN ExposureDistance(t, c) ELSE 0,
       One(dark /\ TemperatureDiffers(t, c)),
       One(c.supplied)>>

Smaller(s, r) == \E i \in DOMAIN s : s[i] < r[i] /\ \A j \in 1..(i - 1) : s[j] = r[j]

(* Ties go to the smaller group key, here to the group of the first file. *)
Better(score, g, h) ==
  Smaller(score[g], score[h]) \/ (score[g] = score[h] /\ FirstOf(g) < FirstOf(h))

Issue(condition, code) == IF condition THEN {code} ELSE {}

ChoiceWarnings(t, kind, c, tied) ==
  Issue(tied, kind \o "_MATCH_AMBIGUOUS")
  \cup Issue(SettingsDiffer(t, c), kind \o "_SETTINGS_DIFFER")
  \cup Issue(kind = "DARK" /\ t.exposure # c.exposure, "DARK_EXPOSURE_DIFFERS")
  \cup Issue(kind = "DARK" /\ TemperatureDiffers(t, c), "DARK_TEMPERATURE_DIFFERS")

BestGroup(score) ==
  CHOOSE g \in DOMAIN score : \A h \in (DOMAIN score) \ {g} : Better(score, g, h)

Chosen(t, kind, best, score) ==
  [group |-> best, impossible |-> FALSE,
   warnings |-> ChoiceWarnings(t, kind, Traits(best),
                               \E h \in (DOMAIN score) \ {best} : score[h] = score[best])]

NoChoice(t, matching) ==
  [group |-> NoGroup, warnings |-> {},
   impossible |-> \E g \in matching : ~PhysicallyCompatible(t, Traits(g))]

Choice(t, kind, matching, score) ==
  IF score = <<>> THEN NoChoice(t, matching) ELSE Chosen(t, kind, BestGroup(score), score)

Choose(t, kind, groups, near) ==
  LET suits(c) == (kind = "FLAT" => c.filter = t.filter) /\ KeywordsCompatible(t, c)
      scored(matching) ==
        Choice(t, kind, matching,
               [g \in {h \in matching \cap near : PhysicallyCompatible(t, Traits(h))} |-> Score(t, g)])
  IN scored({g \in groups : suits(Traits(g))})

-----------------------------------------------------------------------------
(* match_calibration *)

NeedsBias(dark, workflow) == dark = NoGroup \/ ~BiasIncluded(Traits(dark), workflow)

(* The Darks, or none, that leave the bias in a frame. *)
Leaving(library, workflow) ==
  {g \in GroupCalibration(library, "DARK") \cup {NoGroup} : NeedsBias(g, workflow)}

(* A raw Flat group: with a Bias in the library a Dark must be close in    *)
(* exposure, without one the closest Dark will do.  leaving: the Darks, or  *)
(* none, that leave the bias in a frame.                                   *)
FlatPairing(bias, dark, anyBias, leaving) ==
  [bias |-> bias.group, dark |-> dark.group, flat |-> NoGroup,
   errors |-> {},
   warnings |->
     bias.warnings \cup (dark.warnings \ (IF anyBias THEN {"DARK_EXPOSURE_DIFFERS"} ELSE {}))
     \cup Issue(/\ dark.group # NoGroup /\ dark.group \in leaving
                /\ bias.group = NoGroup, "BIAS_MISSING")
     \cup Issue(dark.group = NoGroup /\ bias.group = NoGroup, "FLAT_CALIBRATION_MISSING")]

PairFlat(t, biases, darks, limit, leaving) ==
  LET of == [BIAS |-> biases, DARK |-> darks]
      near(kind) == {g \in of[kind] : kind = "DARK" /\ biases # {} => ExposureDistance(t, Traits(g)) <= limit}
      paired(choice) == FlatPairing(choice["BIAS"], choice["DARK"], biases # {}, leaving)
  IN paired([kind \in DOMAIN of |-> Choose(t, kind, of[kind], near(kind))])

LightPairing(bias, dark, flat, wanted, anyDark) ==
  LET none(choice) == choice.group = NoGroup
  IN [bias |-> bias.group, dark |-> dark.group, flat |-> flat.group,
      errors |-> Issue(none(flat) /\ flat.impossible, "FLAT_INCOMPATIBLE")
                 \cup Issue(none(dark) /\ dark.impossible, "DARK_INCOMPATIBLE")
                 \cup Issue(wanted /\ none(bias) /\ bias.impossible, "BIAS_INCOMPATIBLE"),
      warnings |->
        flat.warnings \cup dark.warnings \cup (IF wanted THEN bias.warnings ELSE {})
        \cup Issue(none(flat) /\ ~flat.impossible, "FLAT_MISSING")
        \cup Issue(none(dark) /\ ~dark.impossible /\ anyDark, "DARK_MISSING")
        \cup Issue(wanted /\ none(bias) /\ ~bias.impossible, "BIAS_MISSING")]

PairLight(t, biases, darks, flats, leaving) ==
  LET of == [BIAS |-> biases, DARK |-> darks, FLAT |-> flats]
      paired(choice) == LightPairing(choice["BIAS"], choice["DARK"], choice["FLAT"],
                                     choice["DARK"].group \in leaving, darks # {})
  IN paired([kind \in Kinds |-> Choose(t, kind, of[kind], of[kind])])

(* The pairings of a set of Lights (traits by number) and of the raw Flat  *)
(* groups.                                                                 *)
MatchGroups(lights, biases, darks, flats, limit, leaving) ==
  [lights |-> [f \in DOMAIN lights |-> PairLight(lights[f], biases, darks, flats, leaving)],
   flats  |-> [g \in {h \in flats : ~Supplied(h)} |-> PairFlat(Traits(g), biases, darks, limit, leaving)]]

MatchLibrary(lights, library, limit, leaving) ==
  LET among(groups) == MatchGroups(lights, groups["BIAS"], groups["DARK"], groups["FLAT"], limit, leaving)
  IN among([kind \in Kinds |-> GroupCalibration(library, kind)])

MatchCalibration(lights, library, workflow) ==
  MatchLibrary(lights, library, IF workflow = MonoStandard THEN FlatDarkLimit ELSE 0,
               Leaving(library, workflow))

Pairings(match) ==
  {match.lights[f] : f \in DOMAIN match.lights} \cup {match.flats[g] : g \in DOMAIN match.flats}

(* CalibrationMatch.used, over the three kinds. *)
UsedGroups(match) ==
  (UNION {{p.bias, p.dark, p.flat} : p \in Pairings(match)}) \ {NoGroup}

-----------------------------------------------------------------------------
(* pair_calibration: incompatible frames are refused, and the strict       *)
(* workflow refuses every relaxation.                                      *)

(* assert_compatible without the optional comparisons; the strict workflow *)
(* takes an unknown setting for a mismatch.                                *)
SameProfile(t, c) == t.size = c.size /\ t.gain = c.gain /\ t.gain # 0

SameDark(t, c) ==
  SameProfile(t, c) /\ t.exposure = c.exposure /\ ~TemperatureDiffers(t, c)

Ambiguous(match) ==
  \E p \in Pairings(match) :
    p.warnings \cap {"BIAS_MATCH_AMBIGUOUS", "DARK_MATCH_AMBIGUOUS", "FLAT_MATCH_AMBIGUOUS"} # {}

StrictLight(t, p, darks, workflow) ==
  IF p.flat = NoGroup THEN "MASTER_FLAT_MISSING"
  ELSE IF darks /\ (p.dark = NoGroup \/ t.exposure # Traits(p.dark).exposure)
       THEN "DARK_EXPOSURE_MISMATCH"
  ELSE IF p.dark # NoGroup /\ ~SameDark(t, Traits(p.dark)) THEN "CALIBRATION_PROFILE_MISMATCH"
  ELSE IF NeedsBias(p.dark, workflow) /\ p.bias = NoGroup THEN "BIAS_REQUIRED_FOR_CALIBRATION"
  ELSE ""

StrictFlat(t, p) ==
  IF p.dark # NoGroup /\ ~SameDark(t, Traits(p.dark)) THEN "CALIBRATION_PROFILE_MISMATCH"
  ELSE IF {p.dark, p.bias} = {NoGroup} THEN "BIAS_REQUIRED_FOR_CALIBRATION"
  ELSE ""

(* The code of the first Light or Flat that has one. *)
FirstRefusal(codes, Place(_)) ==
  LET refused == {x \in DOMAIN codes : codes[x] # ""}
  IN IF refused = {} THEN ""
     ELSE codes[CHOOSE x \in refused : \A y \in refused : Place(x) <= Place(y)]

StrictRefusalOf(lights, library, groups, profile, pairing, flats, workflow) ==
  LET darks == \E g \in groups : Traits(g).kind = "DARK"
      light == FirstRefusal([f \in DOMAIN lights |-> StrictLight(lights[f], pairing[f], darks, workflow)],
                            LAMBDA f : f)
      flat == FirstRefusal([g \in DOMAIN flats |-> StrictFlat(Traits(g), flats[g])], FirstOf)
  IN IF \/ \E c \in library : ~SameProfile(profile, Shot[c])
        \/ \E f \in DOMAIN lights : ~SameProfile(profile, lights[f])
     THEN "CALIBRATION_PROFILE_MISMATCH"
     ELSE IF \/ Ambiguous([lights |-> pairing, flats |-> flats])
             \/ \E g, h \in groups : BaseName(g) = BaseName(h) /\ Supplied(g) # Supplied(h)
     THEN "SOURCE_AMBIGUOUS"
     ELSE IF light # "" THEN light ELSE flat

(* The profile is that of the first Bias group, or of the first Light. *)
StrictRefusal(lights, library, match, workflow) ==
  LET biases(groups) == {FirstOf(g) : g \in {h \in groups : Traits(h).kind = "BIAS"}}
      profile(firsts) == IF firsts = {} THEN lights[FirstOf(DOMAIN lights)] ELSE Shot[FirstOf(firsts)]
      among(groups) == StrictRefusalOf(lights, library, groups, profile(biases(groups)),
                                       match.lights, match.flats, workflow)
  IN among(UNION {GroupCalibration(library, kind) : kind \in Kinds})

(* What is subtracted from a frame of pairing p: the Dark, with a separate *)
(* bias when the Dark excludes it, else the bias alone (_plan_light_jobs,  *)
(* _build_master_flats).  First the mutant: the bias beside every Dark.    *)
SubtrahendsAlways(p, workflow) == {p.dark, p.bias} \ {NoGroup}

Subtrahends(p, workflow) ==
  (IF NeedsBias(p.dark, workflow) THEN {p.dark, p.bias} ELSE {p.dark}) \ {NoGroup}

(* The units numeric_application_scale needs: those of the Lights and of   *)
(* the masters paired with them, of the members of every used raw Bias or  *)
(* Dark group, and of the used raw Flats from which something is           *)
(* subtracted.                                                             *)
NeededUnits(match, workflow) ==
  LET used == UsedGroups(match)
      built == UNION {g \in used : Traits(g).kind # "FLAT" /\ ~Supplied(g)}
      paired == UNION {{match.lights[f].bias, match.lights[f].dark} : f \in DOMAIN match.lights}
      flats == {g \in used \cap DOMAIN match.flats : Subtrahends(match.flats[g], workflow) # {}}
      additive == UNION {Subtrahends(match.flats[g], workflow) : g \in flats}
  IN {Shot[c].unit : c \in built \cup UNION flats}
     \cup {Traits(g).unit : g \in (paired \cup additive) \ {NoGroup}}

(* The code a calibration is refused with, "" for none:                    *)
(* _build_registration_masters and the functions it calls, in order: what  *)
(* it checks before it pairs, and pair_calibration with the scales.        *)
SourceRefusal(units, library, workflow) ==
  LET kind(k) == {Shot[c] : c \in {d \in library : Shot[d].kind = k}}
  IN IF \E c \in library : Shot[c].role = "other" THEN "FRAME_ROLE_MISMATCH"
     ELSE IF workflow = Strict /\ kind("BIAS") = {} THEN "BIAS_SOURCE_AMBIGUOUS"
     ELSE IF \E t \in kind("DARK") : t.supplied /\ ResolveDarkBias(t, workflow) = "unresolved"
          THEN "MASTER_DARK_BIAS_SEMANTICS_REQUIRED"
     ELSE IF 0 \in units THEN "CALIBRATION_NUMERIC_DOMAIN_AMBIGUOUS"
     ELSE IF Cardinality(units) > 1 THEN "REGISTRATION_LIGHT_NUMERIC_DOMAIN_MIXED"
     ELSE IF \E t \in kind("DARK") : t.exposure = 0 THEN "DARK_EXPOSURE_UNKNOWN"
     ELSE IF \E t \in kind("FLAT") : t.filter = "" THEN "FILTER_UNKNOWN"
     ELSE ""

PairingRefusal(match, errors, strict, workflow) ==
  IF "BIAS_INCOMPATIBLE" \in errors THEN "BIAS_INCOMPATIBLE"
  ELSE IF "DARK_INCOMPATIBLE" \in errors THEN "DARK_INCOMPATIBLE"
  ELSE IF "FLAT_INCOMPATIBLE" \in errors THEN "FLAT_INCOMPATIBLE"
  ELSE IF workflow = Strict /\ strict # "" THEN strict
  ELSE IF 0 \in NeededUnits(match, workflow) THEN "CALIBRATION_NUMERIC_DOMAIN_AMBIGUOUS"
  ELSE ""

MatchRefusal(lights, library, match, workflow) ==
  PairingRefusal(match, UNION {match.lights[f].errors : f \in DOMAIN lights},
                 StrictRefusal(lights, library, match, workflow), workflow)

CalibrationRefusal(lights, library, match, workflow) ==
  LET source == SourceRefusal({lights[f].unit : f \in DOMAIN lights}, library, workflow)
  IN IF source # "" THEN source ELSE MatchRefusal(lights, library, match, workflow)

-----------------------------------------------------------------------------
(* The pixels: how much of the bias and how many seconds of dark current a *)
(* file holds, in its own unit.                                            *)

Pixels(t, bias, dark) == [bias |-> t.unit * bias, dark |-> t.unit * dark]

(* The master of a group: its files, scaled to the unit of the first. *)
Master(group, workflow) ==
  LET t == Traits(group)
  IN CASE t.kind = "BIAS" -> Pixels(t, 1, 0)
       [] t.kind = "DARK" -> Pixels(t, One(BiasIncluded(t, workflow)), t.exposure)
       [] OTHER -> Pixels(t, 0, 0)

(* numeric_application_scale: x scaled from the unit of one file to that   *)
(* of another.                                                             *)
Scaled(x, from, to) == [bias |-> (x.bias * to.unit) \div from.unit,
                        dark |-> (x.dark * to.unit) \div from.unit]

Minus(x, y) == [bias |-> x.bias - y.bias, dark |-> x.dark - y.dark]

MasterFor(t, group, workflow) == Scaled(Master(group, workflow), Traits(group), t)

(* The raw pixels of a frame, and what the pixel pipeline leaves of them. *)
Raw(t) == Pixels(t, 1, t.exposure)

Subtracted(t, p, workflow) ==
  LET part(g) == IF g \in Subtrahends(p, workflow) THEN MasterFor(t, g, workflow) ELSE Pixels(t, 0, 0)
  IN Minus(Minus(Raw(t), part(p.bias)), part(p.dark))

(* _calibrate_arrays of the registration preview: bias and Dark are both   *)
(* subtracted, the bias of a Dark that includes it taken off first.        *)
CalibratedPreview(t, p, workflow) ==
  LET bias == IF p.bias = NoGroup THEN Pixels(t, 0, 0) ELSE MasterFor(t, p.bias, workflow)
      first == Minus(Raw(t), bias)
      dark == MasterFor(t, p.dark, workflow)
  IN IF p.dark = NoGroup THEN first
     ELSE IF p.bias # NoGroup /\ ~NeedsBias(p.dark, workflow) THEN Minus(first, Minus(dark, bias))
     ELSE Minus(first, dark)

(* A bias or a dark current left in, or taken off twice, of which no       *)
(* warning of the pairing tells.                                           *)
SilentResidual(t, p, x, library) ==
  \/ x.bias # 0 /\ ~(x.bias = t.unit
                       /\ p.warnings \cap {"BIAS_MISSING", "FLAT_CALIBRATION_MISSING"} # {})
  \/ /\ x.dark # 0 /\ GroupCalibration(library, "DARK") # {}
     /\ p.warnings \cap {"DARK_EXPOSURE_DIFFERS", "DARK_MISSING"} = {}
=============================================================================
