--------------------------- MODULE MosaicAssembly ---------------------------
(***************************************************************************)
(* One filter's mosaic (mosaic/assemble.py) and all of them                *)
(* (_assemble_canvas_mosaics, workflows/mosaic.py): every photometric      *)
(* component is matched, blended and gated on its own; the largest is the  *)
(* filter's mosaic.  A gate is PASS, WARN, FAIL or NOT_MEASURED; a FAIL in *)
(* any component fails the filter, and a failed filter the project, after  *)
(* every filter was assembled.                                             *)
(***************************************************************************)
EXTENDS MosaicBlend

CONSTANTS
  Alphabet,              \* the filters, as they are sorted
  PhotometryPass, PhotometryWarn,
  OffsetPass, OffsetWarn,     \* misregistration, times the seeing
  ResidualPass, ResidualWarn, MinimumResidualBins,
  FluxPass, FluxWarn,
  MinimumMatches, VerifyRadius  \* of the canvas WCS on the catalog

ASSUME AssemblyAssumption ==
  {PhotometryPass, PhotometryWarn, OffsetPass, OffsetWarn, ResidualPass, ResidualWarn,
   MinimumResidualBins, FluxPass, FluxWarn, MinimumMatches, VerifyRadius} \subseteq Nat

-----------------------------------------------------------------------------
(* Verdicts. *)

Verdict(value, passing, warning) ==
  IF value <= passing THEN "PASS" ELSE IF value <= warning THEN "WARN" ELSE "FAIL"

(* A ratio fails only beyond the limit by two standard errors, and passes  *)
(* only when it is known that well to be within it.                        *)
PhotometryVerdict(deviation, error) ==
  IF deviation - 2 * error > PhotometryWarn THEN "FAIL"
  ELSE IF deviation <= PhotometryPass /\ deviation + 2 * error <= PhotometryWarn THEN "PASS"
  ELSE "WARN"

Worst(verdicts) ==
  IF "FAIL" \in verdicts THEN "FAIL" ELSE IF "WARN" \in verdicts THEN "WARN" ELSE "PASS"

(* The worst of the measured verdicts; NOT_MEASURED when none was. *)
MeasuredWorst(verdicts) ==
  IF verdicts \ {"NOT_MEASURED"} = {} THEN "NOT_MEASURED" ELSE Worst(verdicts)

-----------------------------------------------------------------------------
(* The gates of a component. *)

OffsetVerdict(e, panels) ==
  LET width == Max({PanelOf(panels, e.left).fwhm, PanelOf(panels, e.right).fwhm})
  IN  Verdict(e.offset, OffsetPass * width, OffsetWarn * width)

ResidualVerdict(e, planes, scene) ==
  IF Cardinality(FaintBins(e, scene)) < MinimumResidualBins THEN "NOT_MEASURED"
  ELSE Verdict(ResidualLevel(e, planes), ResidualPass, ResidualWarn)

(* What a star shows in a panel once it is scaled. *)
Shown(p, scales, scene, x) == scene.stars[x] - p.gain + scales.scale[p.key]

(* Six times how far the mosaic's light of an overlap's star lies from the *)
(* mean of its two panels.                                                 *)
FluxDeviation(e, panels, scales, scene, columns, x) ==
  LET from == columns[x].light
      Of(k) == Shown(PanelOf(panels, k), scales, scene, x)
      mean == 3 * (Of(e.left) + Of(e.right))
      seen == (6 * MapThenSumSet(Of, from)) \div Cardinality(from)
  IN  Distance(seen, mean)

FluxVerdict(edges, panels, scales, scene, columns) ==
  LET stars == UNION {{<<e, x>> : x \in {y \in e.stars : columns[y].light # {}}} : e \in edges}
      deviation == MedianOf([s \in stars |-> FluxDeviation(s[1], panels, scales, scene, columns, s[2])])
  IN  IF stars = {} THEN "NOT_MEASURED" ELSE Verdict(deviation, FluxPass, FluxWarn)

(* The catalog's stars on a panel's window of the finished mosaic; a       *)
(* verifier that raises is a failed gate.                                  *)
WindowVerdict(p, scene, columns, verifier) ==
  LET matched == {x \in scene.catalog \cap Columns(p) : columns[x].light # {}}
  IN  IF /\ p.key \notin verifier.broken
         /\ Cardinality(matched) >= MinimumMatches /\ Distance(p.shift, 0) <= VerifyRadius
        THEN "PASS" ELSE "FAIL"

Gates(panels, edges, seen, scene, scales, planes, blend, windows) ==
  [photometry        |-> MeasuredWorst({PhotometryVerdict(CorrectedRatio(e, scales), RatioError(e)) : e \in seen}),
   overlapAstrometry |-> MeasuredWorst({OffsetVerdict(e, panels) : e \in seen}),
   residualBackground |-> MeasuredWorst({ResidualVerdict(e, planes, scene) : e \in edges}),
   fluxConservation  |-> FluxVerdict(seen, panels, scales, scene, blend.columns),
   photometricNetwork |-> IF scales.freedom <= 0 THEN "NOT_MEASURED"
                          ELSE IF scales.misfit > 9 * scales.freedom THEN "WARN" ELSE "PASS",
   unmeasuredOverlaps |-> LET overlaps == {e \in edges : e.pixels > 0}
                          IN  IF overlaps = {} THEN "NOT_MEASURED"
                              ELSE IF overlaps \subseteq seen THEN "PASS" ELSE "WARN",
   canvasWcs          |-> IF windows = {} THEN "NOT_MEASURED" ELSE Worst(windows)]

Component(panels, scales, planes, blend, windows, gates) ==
  [panels |-> Keys(panels), scale |-> scales.scale, gates |-> gates,
   verdict |-> Worst({gates[g] : g \in DOMAIN gates} \ {"NOT_MEASURED"}),
   blobs |-> blend.blobs, columns |-> blend.columns, sky |-> planes.sky,
   verified |-> "PASS" \in windows]

GatedComponent(panels, edges, scene, scales, planes, blend, windows) ==
  Component(panels, scales, planes, blend, windows,
            Gates(panels, edges, Observed(edges), scene, scales, planes, blend, windows))

BlendedComponent(panels, edges, scene, verifier, scales, planes, blend) ==
  GatedComponent(panels, edges, scene, scales, planes, blend,
    IF verifier.present THEN {WindowVerdict(p, scene, blend.columns, verifier) : p \in panels} ELSE {})

(* _assemble_component: match, blend and gate.  edges are the overlaps     *)
(* within the component.                                                   *)
AssembleComponent(panels, edges, scene, canvas, verifier, referenceSky) ==
  BlendedComponent(panels, edges, scene, verifier, SolveScales(panels, edges),
                   SolvePlanes(panels, edges, scene, referenceSky),
                   BlendFilter(panels, edges, scene, canvas))

-----------------------------------------------------------------------------
(* assemble_filter. *)

Boundary(panels) == [lo |-> Min({p.lo : p \in panels}), hi |-> Max({p.hi : p \in panels})]

Failed(component) == \E g \in DOMAIN component.gates : component.gates[g] = "FAIL"

FilterOf(results, main) ==
  [components |-> results, main |-> main,
   verdict |-> Worst({c.verdict : c \in results}
                     \cup (IF Cardinality(results) > 1 THEN {"WARN"} ELSE {})),
   failed  |-> \E c \in results : Failed(c)]

Members(panels, keys) == {p \in panels : p.key \in keys}

AssembleParts(panels, edges, main, scene, canvas, verifier, referenceSky) ==
  FilterOf({AssembleComponent(Members(panels, C), Within(edges, C), scene,
                              IF C = main THEN canvas ELSE Boundary(Members(panels, C)),
                              verifier, referenceSky) : C \in Components(panels, edges)}, main)

AssembleEdges(panels, edges, scene, canvas, verifier, referenceSky) ==
  AssembleParts(panels, edges, LargestComponent(panels, edges), scene, canvas, verifier, referenceSky)

(* The largest component on the whole canvas, every other one on its own   *)
(* panels' columns.  Two or more of them are a warning.                    *)
AssembleFilter(panels, scene, noise, canvas, verifier, referenceSky) ==
  AssembleEdges(panels, Edges(panels, scene, noise), scene, canvas, verifier, referenceSky)

(* Where a filter found sky, in all its components. *)
SkyOf(mosaic) ==
  [k \in UNION {DOMAIN c.sky : c \in mosaic.components} |->
     UNION {c.sky[k] : c \in {d \in mosaic.components : k \in DOMAIN d.sky}}]

-----------------------------------------------------------------------------
(* _assemble_canvas_mosaics. *)

First(order, filters) == order[Min({i \in DOMAIN order : order[i] \in filters})]

(* The filter assembled first, whose sky the others follow.                *)
ReferenceFilter(filters) == First(<<"l", "r", "g", "b">> \o Alphabet, filters)

NextFilter(filters, pending) ==
  IF ReferenceFilter(filters) \in pending THEN ReferenceFilter(filters) ELSE First(Alphabet, pending)

(* The sky the other filters follow: none unless the reference passed. *)
ReferenceSky(reference) == IF reference.failed THEN <<>> ELSE SkyOf(reference)

(* _canvas_mosaic_stage: a gate of any filter, then the evidence that the  *)
(* catalog verified the canvas of every filter's mosaic.                   *)
Verified(mosaic) == \A c \in mosaic.components : c.panels = mosaic.main => c.verified

(* Mutant: only the gates of the filter assembled first count. *)
RefusalOfReference(mosaics) ==
  LET first == ReferenceFilter(DOMAIN mosaics)
  IN  IF mosaics[first].failed THEN "MOSAIC_GATE_FAILED"
      ELSE IF ~Verified(mosaics[first]) THEN "MOSAIC_ASTROMETRY_EVIDENCE_MISSING"
      ELSE "none"

AssemblyRefusal(mosaics) ==
  IF \E f \in DOMAIN mosaics : mosaics[f].failed THEN "MOSAIC_GATE_FAILED"
  ELSE IF \E f \in DOMAIN mosaics : ~Verified(mosaics[f]) THEN "MOSAIC_ASTROMETRY_EVIDENCE_MISSING"
  ELSE "none"
=============================================================================
