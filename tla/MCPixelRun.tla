------------------------------ MODULE MCPixelRun ------------------------------
(***************************************************************************)
(* Seven Lights in two filters, one of them no image.  Every behaviour has *)
(* a focus: the incidents of the measurement and the ways through the      *)
(* screening; or, with clear Lights, the libraries of calibration files    *)
(* and the misses of the registration; the stars it matches; the           *)
(* footprints on the grid; the samples of a band; the integration passes;  *)
(* or the tiles of a group on Metal.                                       *)
(***************************************************************************)
EXTENDS PixelRun

VARIABLE focus

MCUndecodable == {<<3, 1>>, <<1, 2>>}

MCLight ==
  [f \in 1..7 |->
     [base |-> IF f <= 5 THEN "L" ELSE "R", exposure |-> IF f = 3 THEN 0 ELSE 300, auto |-> FALSE,
      light |-> TRUE, night |-> IF f = 3 THEN "b" ELSE "a",
      panel |-> IF f <= 5 THEN "A/L" ELSE "A/R"]]

Clear ==
  [light |-> TRUE, measured |-> TRUE, identity |-> "ok", finite |-> "ok", range |-> "ok",
   cohort |-> TRUE, night |-> "ok", reference |-> FALSE, connected |-> FALSE, registered |-> TRUE,
   matched |-> TRUE, overlap |-> "ok", offset |-> FALSE, model |-> "nightly", excess |-> 0,
   nightShift |-> FALSE, spatial |-> 0, completeness |-> 0, nightCount |-> 0, count |-> 0,
   sameNight |-> TRUE, sources |-> "ok", background |-> 0, noise |-> FALSE, shapes |-> 2,
   hfr |-> 0, fwhm |-> 0, nightHfr |-> 0, nightFwhm |-> 0, elongation |-> 0, coherence |-> 0,
   standsOut |-> 0, fragmented |-> FALSE, occlusion |-> 0, link |-> 3, stars |-> 100,
   cells |-> {1, 2}, width |-> 20, transparency |-> 100, extinction |-> 0, sky |-> 10,
   shape |-> FALSE, grid |-> [blank |-> 0, patch |-> FALSE, cosmetic |-> FALSE],
   blocked |-> FALSE]

Looks ==
  {Clear,
   [Clear EXCEPT !.excess = 1, !.background = 1, !.extinction = 60, !.transparency = 60],
   [Clear EXCEPT !.spatial = 2, !.background = 1,
                 !.grid = [blank |-> 60, patch |-> TRUE, cosmetic |-> FALSE]],
   [Clear EXCEPT !.fragmented = TRUE, !.stars = 200, !.elongation = 2],
   [Clear EXCEPT !.width = 40, !.hfr = 2, !.fwhm = 2, !.nightFwhm = 2],
   [Clear EXCEPT !.cells = {3}, !.occlusion = 1, !.blocked = TRUE, !.stars = 60],
   [Clear EXCEPT !.link = 0, !.stars = 90],
   [Clear EXCEPT !.link = 2, !.shapes = 0, !.stars = 10, !.transparency = 40]}

MCScenes == {[f \in Lights |-> IF f \in Frames THEN l[f] ELSE Clear] : l \in [Frames -> Looks]}

MCDigests == {[f \in Lights |-> f], [f \in Lights |-> IF f = 2 THEN 1 ELSE f]}

MCSelections ==
  [keep : {{1, 2}}, drop : {{}, {3}}, undecided : {"KEEP", "DROP", "ERROR"}]
  \cup {[keep |-> Lights, drop |-> {}, undecided |-> "ERROR"]}

-----------------------------------------------------------------------------
Trait(kind, supplied, exposure, filter) ==
  [kind |-> kind, supplied |-> supplied, size |-> 1, gain |-> 1, night |-> 0, filter |-> filter,
   exposure |-> exposure, temperature |-> 0, explicit |-> "none", header |-> "none", unit |-> 1,
   role |-> "same", stem |-> "a"]

MCHeader ==
  [f \in 1..7 |-> [Trait("LIGHT", FALSE, IF f = 2 THEN 600 ELSE 3000, IF f <= 5 THEN "L" ELSE "R")
                     EXCEPT !.unit = 2, !.night = IF f = 5 THEN 2 ELSE 0]]

MCShot ==
  <<Trait("BIAS", FALSE, 0, ""),                                            \* 1
    [Trait("BIAS", FALSE, 0, "") EXCEPT !.unit = 2],
    [Trait("BIAS", TRUE, 0, "") EXCEPT !.stem = "b"],                       \* 3
    Trait("DARK", FALSE, 3000, ""),
    Trait("DARK", FALSE, 600, ""),                                          \* 5
    [Trait("DARK", TRUE, 3000, "") EXCEPT !.stem = "b"],
    [Trait("DARK", TRUE, 3000, "") EXCEPT !.explicit = "subtracted", !.unit = 2],   \* 7
    [Trait("DARK", TRUE, 600, "") EXCEPT !.header = "subtracted"],
    Trait("FLAT", FALSE, 20, "L"),                                          \* 9
    Trait("FLAT", FALSE, 20, "R"),
    [Trait("FLAT", TRUE, 20, "L") EXCEPT !.stem = "b"],                     \* 11
    [Trait("FLAT", FALSE, 20, "L") EXCEPT !.size = 2],
    [Trait("DARK", FALSE, 3000, "") EXCEPT !.gain = 2, !.temperature = 9],  \* 13
    [Trait("BIAS", FALSE, 0, "") EXCEPT !.unit = 0, !.gain = 2],
    [Trait("DARK", FALSE, 600, "") EXCEPT !.role = "other"],                \* 15
    Trait("DARK", FALSE, 0, ""),
    Trait("FLAT", FALSE, 20, ""),                                           \* 17
    [Trait("BIAS", FALSE, 0, "") EXCEPT !.size = 2],
    [Trait("DARK", FALSE, 3000, "") EXCEPT !.size = 2, !.stem = "c"],       \* 19
    [Trait("DARK", TRUE, 600, "") EXCEPT !.explicit = "included", !.stem = "d"],
    [Trait("FLAT", TRUE, 20, "R") EXCEPT !.stem = "c"],                     \* 21
    [Trait("BIAS", FALSE, 0, "") EXCEPT !.night = 1],
    [Trait("DARK", FALSE, 3000, "") EXCEPT !.night = 1],                    \* 23
    [Trait("DARK", FALSE, 3000, "") EXCEPT !.temperature = 4],
    [Trait("DARK", FALSE, 3000, "") EXCEPT !.temperature = 2],              \* 25
    [Trait("FLAT", FALSE, 20, "Ha") EXCEPT !.night = 3],
    [Trait("BIAS", FALSE, 0, "") EXCEPT !.night = 2]>>                      \* 27

FullLibrary == {1, 2, 4, 5, 9, 10}
MasterLibrary == {3, 6, 11, 21}

MCLibraries ==
  {{}, {1}, {4}, {1, 4}, FullLibrary, {3, 4, 5, 9, 10}, {1, 6, 9, 10}, {6, 9}, {1, 7, 8, 9, 10},
   {7, 9}, {8, 9, 10}, {1, 13, 9, 10}, {14, 4, 9, 10}, {1, 15}, {1, 16}, {1, 17}, {1, 12}, {19},
   {18}, {1, 18, 5}, {5, 9, 10}, {1, 4, 6, 9, 10, 11}, {1, 4, 20, 7, 9, 10}, {4, 19, 1},
   {1, 9, 10}, {3, 7, 20, 10, 11}, {1, 6, 7}, MasterLibrary,
   {1, 3, 4, 9, 10}, {1, 4, 9, 10, 17}, {1, 4, 5, 9, 10}, {1, 4, 5, 9, 10, 22}, {1, 5, 9, 10, 23},
   {1, 4, 5, 6, 9, 10}, {1, 4, 5, 9, 10, 11}, {1, 7, 20, 9, 10}, {1, 4, 5, 9, 10, 12},
   {1, 5, 9, 10, 24, 25}, {9, 10, 26, 27}, {1, 4, 5, 9}}

(* The recipes of the desktop for the two workflows, and others. *)
Recipe(bias, dark, masters) ==
  [need |-> [BIAS |-> bias, DARK |-> dark, FLAT |-> "REQUIRED"], masters |-> masters]

MonoRecipe == Recipe("OPTIONAL", "OPTIONAL", TRUE)

MCRecipes ==
  {MonoRecipe, Recipe("REQUIRED", "OPTIONAL", TRUE), Recipe("REQUIRED", "REQUIRED", FALSE),
   Recipe("REQUIRED", "DISABLED", TRUE),
   [Recipe("REQUIRED", "OPTIONAL", TRUE) EXCEPT !.need["FLAT"] = "OPTIONAL"]}

-----------------------------------------------------------------------------
OneTile == [workers |-> 1, buffers |-> 1, rows |-> 8, height |-> 8, budget |-> 9999]

(* A group of four Lights and one of two, in up to five tiles, or in none *)
(* at all: with 3 workers and 2 buffers a row of four takes 496 bytes.       *)
Machine(rows, height, budget) ==
  [workers |-> 3, buffers |-> 2, rows |-> rows, height |-> height, budget |-> budget]

MCRequest ==
  [backend |-> "auto", kernels |-> TRUE, apple |-> FALSE, cores |-> 12, mode |-> "ordinary",
   proper |-> FALSE, pattern |-> [name \in {"L", "R"} |-> "NONE"], mapped |-> {}, canvas |-> FALSE,
   overridden |-> {}, exclude |-> TRUE, priority |-> "balanced", metal |-> OneTile]

MCRequests ==
  {MCRequest,
   [MCRequest EXCEPT !.kernels = FALSE, !.apple = TRUE, !.cores = 2, !.proper = TRUE],
   [MCRequest EXCEPT !.kernels = FALSE, !.apple = TRUE, !.mapped = {6}, !.mode = "drizzle"],
   [MCRequest EXCEPT !.mapped = {6}, !.mode = "drizzle", !.canvas = TRUE],
   [MCRequest EXCEPT !.backend = "portable-cpu", !.cores = 1, !.priority = "resolution"],
   [MCRequest EXCEPT !.pattern = [name \in {"L", "R"} |-> IF name = "L" THEN "RGGB" ELSE "NONE"]],
   [MCRequest EXCEPT !.exclude = FALSE, !.mode = "drizzle"]}

OnMetal(machine) ==
  [MCRequest EXCEPT !.kernels = FALSE, !.apple = TRUE, !.exclude = FALSE, !.metal = machine]

MCMachines == {Machine(2, 10, 992), Machine(2, 8, 900), Machine(2, 5, 320), Machine(2, 8, 250)}
MCMetalRequests == {OnMetal(m) : m \in MCMachines}

Full == [y \in 1..Height |-> <<0, Width - 1>>]
Runs == {r \in (0..(Width - 1)) \X (0..(Width - 1)) : r[1] <= r[2]} \cup {<<1, 0>>}
Footprints == [1..Height -> Runs]

Clipped == [y \in 1..Height |-> IF y = 1 THEN <<1, Width - 1>> ELSE <<0, Width - 2>>]

Landing(p, q) == [f \in Lights |-> IF f = 1 THEN p ELSE IF f = 2 THEN q ELSE Full]
FullLanding   == Landing(Full, Full)
NoOverlap     == Landing([y \in 1..Height |-> <<1, 0>>], Clipped)

Clips == {Landing(p, Clipped) : p \in Footprints}

MCNameOrder == <<"B", "G", "L", "R">>

(* Bands of two rows of four pixels, of up to four frames. *)
Seen(values) == [f \in {g \in 1..4 : values[g] >= 0} |-> values[f]]

Samplings ==
  {Seen(<<5, 9, -1, -1>>), Seen(<<4, 5, 6, 20>>), Seen(<<2, 5, 9, 40>>), Seen(<<3, -1, 8, 30>>)}

SecondRow ==
  <<Seen(<<4, 5, 6, 20>>), Seen(<<2, 5, 9, 40>>), Seen(<<-1, -1, -1, -1>>), Seen(<<5, 5, 5, 8>>)>>

Model(frames, half, scaling) ==
  [frames |-> frames, noise |-> <<0, 8, 40, 90>>, half |-> half, scaling |-> scaling,
   sampled |-> {1, 3, 6}]

NoBand == [pixels |-> <<>>, model |-> Model(2, 0, FALSE)]

Bands ==
  [pixels : {row \o SecondRow : row \in [1..4 -> Samplings]},
   model : {Model(4, 0, FALSE), Model(4, 0, TRUE), Model(4, 1, TRUE), Model(4, 2, FALSE),
            Model(2, 1, TRUE)}]

(* Five stars that no other placement, stretched by an eighth or not, puts *)
(* on each other but for two, nor with a spurious object but for three; a  *)
(* view of them has a turn, a shift, hidden stars, errors of the preview   *)
(* positions, a spurious object and lost centroids.                        *)
Sky == <<1, 8, 13, 22, 39>>
Still == <<0, 0, 0, 0, 0>>

View == [turn |-> 1, shift |-> 0, hidden |-> {}, error |-> Still, spurious |-> {}, lost |-> {},
         flux |-> <<40, 30, 20, 10, 60>>]

Place(v, x) == IF v.turn = 1 THEN x - v.shift ELSE v.shift - x

Image(v, s) ==
  [x |-> Place(v, Sky[s]) + v.error[s], flux |-> v.flux[s], clean |-> s \notin v.hidden,
   core |-> IF s \in v.lost THEN Lost ELSE FullPixel(Place(v, Sky[s]))]

Spurious(x) == [x |-> x, flux |-> 50, clean |-> TRUE, core |-> FullPixel(x)]

Objects(v) == [s \in DOMAIN Sky |-> Image(v, s)] \o SetToSeq({Spurious(x) : x \in v.spurious})

Turns == {<<1, -5>>, <<-1, 42>>}
Errors == {Still, <<1, 0, 0, -1, 1>>, <<-1, 0, -1, 1, 0>>, <<0, 1, -1, 0, 0>>, <<1, 1, -1, -1, 0>>}

Missing == {<<{}, {}>>, <<{1}, {}>>, <<{5}, {}>>, <<{}, {2}>>}

SourceViews ==
  {[View EXCEPT !.turn = t[1], !.shift = t[2], !.error = e, !.spurious = x, !.hidden = m[1],
                !.lost = m[2]] :
     t \in Turns, e \in Errors, x \in {{}, {30}, {17}}, m \in Missing}

ReferenceViews ==
  {View, [View EXCEPT !.flux = <<10, 40, 20, 30, 15>>, !.spurious = {31}], [View EXCEPT !.hidden = {3}]}

EarlierViews == {View, [View EXCEPT !.turn = -1, !.shift = 43, !.spurious = {27}]}

Field(v, earlier, r) ==
  [source |-> Objects(v), earlier |-> Objects(earlier), reference |-> Objects(r),
   place |-> [s \in (DOMAIN Sky) \ (v.hidden \cup r.hidden) |-> FullPixel(Sky[s])],
   seen |-> [s \in DOMAIN Sky |-> FullPixel(Place(v, Sky[s]))]]

Fields == {Field(v, e, r) : v \in SourceViews, e \in EarlierViews, r \in ReferenceViews}
NoField == [source |-> <<>>, earlier |-> <<>>, reference |-> <<>>, place |-> <<>>, seen |-> <<>>]

(* How an integration starts in each focus. *)
StartsOf ==
  [registration |-> [request : {MCRequest}, landing : {FullLanding}, band : {NoBand}, field : Fields],
   crop        |-> [request : {MCRequest}, landing : Clips, band : {NoBand}, field : {NoField}],
   rejection   |-> [request : {MCRequest}, landing : {FullLanding}, band : Bands, field : {NoField}],
   integration |-> [request : MCRequests, landing : {FullLanding, NoOverlap}, band : {NoBand}, field : {NoField}],
   reduction   |-> [request : MCMetalRequests, landing : {FullLanding}, band : {NoBand}, field : {NoField}]]

MCStarts == UNION Range(StartsOf)

-----------------------------------------------------------------------------
MCVars == <<vars, focus>>

Images == Lights \ {3}

Foci == {"screening", "calibration", "registration", "crop", "rejection", "integration", "reduction"}

(* Outside the first focus the Lights are measured in order, without       *)
(* incident, found clear and admitted.                                     *)
Undisturbed ==
  /\ edits' = 0 /\ executor' # "fallback" /\ Cardinality(Busy') <= 1
  /\ stage' = "measured" => usable' = Images
  /\ stage' = "gated" => \A f \in Images : results'[f].raised = {}
  /\ stage = "gated" => stage' # "failed"
  /\ stage' \notin {"measure", "measured", "gated"} /\ accepted' =>
       /\ admitted' = Images
       /\ route' \in IF focus = "integration" THEN {"legacy", "unattended"} ELSE {"unattended"}

Within ==
  /\ focus # "screening" => Undisturbed
  /\ stage' = "registered" /\ focus \notin {"screening", "calibration"} =>
       Range(reference') \in IF focus = "integration" THEN {{1, 6}, {2, 7}, {4, 6}} ELSE {{4, 6}}
  /\ stage = "registered" /\ stage' = "pass" =>
       [request |-> request', landing |-> landing', band |-> band', field |-> field'] \in StartsOf[focus]
  /\ focus = "reduction" =>
       /\ Cardinality(RunningJobs') <= 1 /\ "failed" \notin Range(job')
       /\ code' # "MASTERS"

Limit == [screening |-> {"admitted"}, calibration |-> {"registered"}, crop |-> {"pass"}, registration |-> {"pass"},
          rejection |-> {"pass"}, integration |-> {}, reduction |-> {}]

Rest == stage \in Limit[focus] /\ UNCHANGED MCVars

MCLibrariesOf ==
  [calibration |-> MCLibraries, integration |-> {FullLibrary, MasterLibrary}]

MCInit ==
  /\ focus \in Foci
  /\ batch \in IF focus = "screening" THEN {"run", "preflight", "blink"} ELSE {"run"}
  /\ cache \in IF focus = "screening" THEN SUBSET EarlierEntries ELSE {{}}
  /\ library \in IF focus \in DOMAIN MCLibrariesOf THEN MCLibrariesOf[focus] ELSE {FullLibrary}
  /\ workflow \in IF focus = "calibration" THEN Workflows ELSE {MonoStandard}
  /\ recipe \in IF focus = "calibration" THEN Recipes ELSE {MonoRecipe}
  /\ PixelInit
  /\ focus # "screening" => executor = "threads"

MCNext ==
  \/ stage \notin Limit[focus] /\ PixelNext /\ Within /\ UNCHANGED focus
  \/ Rest

MCSpec == MCInit /\ [][MCNext]_MCVars
=============================================================================
