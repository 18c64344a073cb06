---------------------------- MODULE MosaicProject ----------------------------
(***************************************************************************)
(* A project of N panels with what its mosaic stages compute: the canvas   *)
(* planned from a survey of the panels, their placement on it, and every   *)
(* filter's mosaic.  Each step is one of ProjectTransaction's, with the    *)
(* outcome the data gives it instead of any outcome, or assembles one      *)
(* filter while the project stands where it was.                           *)
(*                                                                         *)
(* A night holds the panels' Lights, where they truly lie on the sky, and  *)
(* everything the stages read:                                             *)
(*   lights[k]     the Lights of panel k, as frames with their filter      *)
(*   catalog       the installed indexes, densest first, as sets of tiles  *)
(*   stars, galaxy column -> brightness; columns with extended light, by   *)
(*                 filter                                                  *)
(*   seen[k]       the columns where panel k's reference shows a star      *)
(*   guess[k]      how far off its solver places the reference             *)
(*   gain, level   by filter and panel                                     *)
(*   fwhm, exposure by panel; drizzled; noise by filter; verifier          *)
(***************************************************************************)
EXTENDS ProjectTransaction, MosaicAssembly, MosaicPlacement

CONSTANTS
  Sky,         \* night -> what the stages read of it
  WarpMargin   \* columns of a Light the warp cannot sample

Nights == DOMAIN Sky

ASSUME ProjectMosaicAssumption == WarpMargin \in Nat /\ Nights # {}

VARIABLES
  night,    \* the sky over this project
  canvas,   \* the lattice, once planned, and how far off panels are placed
  pending,  \* the filters that are still to be assembled
  mosaics   \* filter -> its mosaic, for the others

stages == <<night, canvas, pending, mosaics>>

-----------------------------------------------------------------------------
(* What the stages make of a night n. *)

LightsIn(n, f, k) == {i \in DOMAIN Sky[n].lights[k] : Sky[n].lights[k][i].filter = f}
FiltersOf(n) == {i.filter : i \in UNION {ToSet(Sky[n].lights[k]) : k \in Targets}}

(* Every filter has its place in the order they are assembled in. *)
ASSUME FilterAssumption ==
  /\ DOMAIN Alphabet \subseteq Nat
  /\ \A n \in Nights : \A f \in FiltersOf(n) : \E i \in DOMAIN Alphabet : Alphabet[i] = f

(* Columns and brightness are numbers, and there are finitely many stars. *)
LightFrame ==
  [key : Targets, lo : Int, hi : Int, parity : {1, -1}, scale : Nat, filter : STRING,
   weight : Nat, readable : BOOLEAN, solves : BOOLEAN]
ASSUME SkyAssumption ==
  \A n \in Nights :
    /\ Sky[n].lights \in [Targets -> Seq(LightFrame)]
    /\ IsFiniteSet(DOMAIN Sky[n].stars) /\ DOMAIN Sky[n].stars \subseteq Int
    /\ \A s \in DOMAIN Sky[n].stars : Sky[n].stars[s] \in Int
    /\ \A f \in FiltersOf(n), k \in Targets : Sky[n].gain[f][k] \in Int
    /\ \A k \in Targets : Sky[n].fwhm[k] \in Nat

PanelsIn(n, f) == {k \in Targets : LightsIn(n, f, k) # {}}

(* The registration reference of a panel, as its solver placed it. *)
References(n) ==
  [k \in Targets |->
     LET first == Head(Sky[n].lights[k])
     IN  [lo |-> first.lo + Sky[n].guess[k], hi |-> first.hi + Sky[n].guess[k],
          seen |-> {c + Sky[n].guess[k] : c \in Sky[n].seen[k]}]]

NoPlan == [parity |-> 1, scale |-> 1, tangent |-> 0, zero |-> 0, width |-> 0]
NoShift == [k \in Targets |-> 0]

(* _plan_mosaic_canvas: why the survey is refused, or the lattice. *)
PlanUnless(refusal, n) ==
  [refusal |-> refusal,
   plan    |-> IF refusal = "none" THEN CanvasPlan(SurveyedFrames(Sky[n].lights)) ELSE NoPlan]

Planned == [n \in Nights |-> PlanUnless(PlanRefusal(Sky[n].lights, Sky[n].catalog), n)]

(* _solve_placements: why a panel cannot be placed, or how far off they    *)
(* all are once they are.                                                  *)
ShiftUnless(placement, guess) ==
  [refusal |-> placement.refusal,
   shift   |-> IF placement.refusal = "none"
                 THEN [k \in Targets |-> guess[k] - placement.offsets[k]] ELSE NoShift]

Solved == [n \in Nights |-> ShiftUnless(Placement(References(n), Sky[n].catalog), Sky[n].guess)]

(* The lattice and the shifts are whole numbers. *)
IsLattice(plan) ==
  plan.parity \in {1, -1} /\ plan.scale \in Nat \ {0} /\ plan.tangent \in Int /\ plan.zero \in Int
ASSUME LatticeAssumption ==
  \A n \in Nights : IsLattice(Planned[n].plan) /\ \A k \in Targets : Solved[n].shift[k] \in Int

(* What follows is on a canvas c = [plan, shift]. *)
NoCanvas == [plan |-> NoPlan, shift |-> NoShift]

Pixel(c, x) == PixelBelow(c.plan, x) - c.plan.zero

Window(n, c, k) == PanelWindow(c.plan, ToSet(Sky[n].lights[k]), c.shift[k], WarpMargin)

(* _panel_product: the master of a panel run on its window. *)
Master(n, c, f, k) ==
  LET window == Window(n, c, k)
      lo     == window.origin
      hi     == window.origin + window.width
      Reached(i) == {Pixel(c, x) : x \in Columns(Placed(Sky[n].lights[k][i], c.shift[k]))}
  IN  [key |-> k, lo |-> lo, hi |-> hi,
       depth |-> [x \in lo .. (hi - 1) |-> Cardinality({i \in LightsIn(n, f, k) : x \in Reached(i)})],
       frames |-> Cardinality(LightsIn(n, f, k)), drizzled |-> Sky[n].drizzled,
       exposure |-> Sky[n].exposure[k], gain |-> Sky[n].gain[f][k], level |-> Sky[n].level[f][k],
       shift |-> c.shift[k], fwhm |-> Sky[n].fwhm[k]]

Masters(n, c, f) == {Master(n, c, f, k) : k \in PanelsIn(n, f)}

(* The box of all windows. *)
CanvasFrame(n, c) == Boundary(UNION {Masters(n, c, f) : f \in FiltersOf(n)})

(* What the sky shows a filter, on the canvas. *)
Scene(n, c, f) ==
  LET stars == DOMAIN Sky[n].stars
  IN  [stars |-> [x \in {Pixel(c, s) : s \in stars} |->
                    Max({Sky[n].stars[s] : s \in {t \in stars : Pixel(c, t) = x}})],
       light |-> [x \in Columns(CanvasFrame(n, c)) |->
                    IF \E g \in Sky[n].galaxy[f] : Pixel(c, g) = x THEN 1 ELSE 0],
       catalog |-> {Pixel(c, s) : s \in UNION {UNION index : index \in ToSet(Sky[n].catalog)}}]

Mosaic(n, c, f, sky) ==
  AssembleFilter(Masters(n, c, f), Scene(n, c, f), Sky[n].noise[f], CanvasFrame(n, c),
                 Sky[n].verifier, sky)

-----------------------------------------------------------------------------
(* The steps. *)

MosaicInit ==
  /\ Init
  /\ night \in Nights /\ canvas = NoCanvas
  /\ pending = FiltersOf(night) /\ mosaics = <<>>

(* _plan_canvas_stage: a refused survey ends in evidence. *)
PlanOnSky ==
  /\ PlanCanvas
  /\ pc' = IF Planned[night].refusal = "none" THEN "targets" ELSE "stageVerify"
  /\ canvas' = [canvas EXCEPT !.plan = Planned[night].plan]
  /\ UNCHANGED <<night, pending, mosaics>>

(* _solve_placements, after every panel paused.  A refusal raises: then    *)
(* only Raise is left.                                                     *)
PlaceOnSky ==
  /\ Place
  /\ IsMosaic => Solved[night].refusal = "none"
  /\ canvas' = [canvas EXCEPT !.shift = IF IsMosaic THEN Solved[night].shift ELSE @]
  /\ UNCHANGED <<night, pending, mosaics>>

(* The next filter of _assemble_canvas_mosaics; the sky every other filter *)
(* follows is the reference filter's, once that has passed.                *)
AssembleNext ==
  /\ pc = "assemble" /\ IsMosaic /\ pending # {}
  /\ UNCHANGED <<vars, night, canvas>>
  /\ LET reference == ReferenceFilter(FiltersOf(night))
         filter    == NextFilter(FiltersOf(night), pending)
         sky       == IF filter = reference THEN <<>> ELSE ReferenceSky(mosaics[reference])
     IN  /\ pending' = pending \ {filter}
         /\ mosaics' = [f \in DOMAIN mosaics \cup {filter} |->
                          IF f = filter THEN Mosaic(night, canvas, f, sky) ELSE mosaics[f]]

(* _canvas_mosaic_stage, once every filter was assembled. *)
AssembleOnSky ==
  /\ Assemble
  /\ IsMosaic =>
       /\ pending = {}
       /\ pc' = IF AssemblyRefusal(mosaics) = "none" THEN "align" ELSE "stageVerify"
  /\ UNCHANGED stages

(* Every other step of the project leaves the stages' results alone. *)
OtherStep ==
  /\ \/ Refuse \/ Check \/ PrepareCalibration \/ StartTarget \/ TargetRefused
     \/ \E t \in Targets : TargetPauses(t) \/ TargetPublishes(t)
                           \/ TargetReturns(t) \/ TargetRaises(t)
     \/ ResumeTarget \/ TargetsDone \/ ClosePaused \/ Drained \/ Closed
     \/ Align \/ RenderColor \/ Verify \/ Publish \/ Sync \/ SyncFails
     \/ StageVerify \/ StageEvidence \/ StageSync
     \/ Raise \/ Handle \/ PublishEvidence \/ SyncEvidence \/ EvidenceFails
  /\ UNCHANGED stages

OutsideStep == (EditSource \/ ForeignDirectory \/ Kill \/ Done) /\ UNCHANGED stages

ProjectStep == PlanOnSky \/ PlaceOnSky \/ AssembleOnSky \/ OtherStep

MosaicNext == ProjectStep \/ AssembleNext \/ OutsideStep

mosaicVars == <<vars, stages>>

MosaicSpec == MosaicInit /\ [][MosaicNext]_mosaicVars

(* The workflow is one sequential program: a step that can be taken is.    *)
(* Assembling a filter is never the only one, since it may always raise.   *)
FairMosaicSpec == MosaicSpec /\ WF_vars(ProjectStep)

-----------------------------------------------------------------------------
(* Properties. *)

(* A published mosaic leaves nothing out: every filter was assembled and   *)
(* passed, its components share out the panels that have the filter, no    *)
(* gate of any of them failed, and the catalog verified the main one.      *)
MosaicComplete ==
  output = "solved" /\ IsMosaic =>
    \A f \in FiltersOf(night) :
      /\ f \in DOMAIN mosaics
      /\ UNION {c.panels : c \in mosaics[f].components} = PanelsIn(night, f)
      /\ \A c, d \in mosaics[f].components : c.panels \cap d.panels # {} => c = d
      /\ \A c \in mosaics[f].components : ~Failed(c)
      /\ Verified(mosaics[f])

(* The success directory appears only complete: the targets' products and  *)
(* the mosaic made of them.                                                *)
SuccessWhole == SuccessComplete /\ MosaicComplete

(* A protected object is shown by one panel: wherever its footprint is     *)
(* drawn, all small scales come from the panel chosen for it, whatever     *)
(* other objects' ramps reach in.                                          *)
ObjectsAreWhole ==
  \A f \in DOMAIN mosaics : \A c \in mosaics[f].components : \A b \in c.blobs :
    \A x \in b.footprint : c.columns[x].sharp = {b.panel}
=============================================================================
