----------------------------- MODULE MosaicBlend -----------------------------
(***************************************************************************)
(* Blending the matched panels of a component (mosaic/blend.py) and the    *)
(* protected set (mosaic/protect.py).  Every column of the canvas is the   *)
(* weighted mean of the panels that cover it.  A bright object in an       *)
(* overlap takes its small scales from one panel, the one that weighs most *)
(* at its peak: panels of different seeing hold different profiles of it,  *)
(* and their mean is neither.                                              *)
(*                                                                         *)
(* A panel's noise is one unit; values are left out, and a column records  *)
(* which panels its light and its small scales come from.                  *)
(***************************************************************************)
EXTENDS MosaicPhotometry

CONSTANTS
  MaximumTaper,   \* columns over which a panel fades in at most
  TaperBinning,   \* columns of a block of the taper
  TaperUnit,      \* bound: a full weight; fractions of it are rounded down
  ProtectPeak,    \* brightness of an object that is protected
  PeakReach,      \* columns around a peak that hold no brighter one
  MaximumRadius,  \* the widest footprint
  RampColumns     \* columns over which the protection fades out

ASSUME BlendAssumption ==
  /\ MaximumTaper \in Nat \ {0} /\ TaperBinning \in Nat \ {0} /\ TaperUnit \in Nat
  /\ ProtectPeak \in Nat \ {0} /\ PeakReach \in Nat
  /\ MaximumRadius \in Nat /\ RampColumns \in Nat \ {0}

-----------------------------------------------------------------------------
(* The weight of a panel. *)

Block(p, x) == (x - p.lo) \div TaperBinning

(* The blocks that end a panel's valid area: those around the window and   *)
(* those with a column of it that is not valid.                            *)
OpenBlocks(p) ==
  {-1, Block(p, p.hi - 1) + 1} \cup {Block(p, x) : x \in Columns(p) \ Valid(p)}

Taper(p, x) == TaperBinning * Min({Distance(b, Block(p, x)) : b \in OpenBlocks(p)})

(* A panel fades in over two fifths of its narrowest overlap.              *)
TaperLength(p, edges) ==
  Max({1, Min({MaximumTaper} \cup
              {(2 * e.width) \div 5 : e \in {f \in edges : f.pixels > 0 /\ p.key \in {f.left, f.right}}})})

MedianCount(p) == Max({1, MedianOf(p.depth)})

(* weights[k][x]: the weight of panel k at column x of the canvas.  It is  *)
(* the share of the panel's usual depth, faded in; none without a sample.  *)
Weights(panels, edges, canvas) ==
  [k \in Keys(panels) |->
     LET p == PanelOf(panels, k)
         length == TaperLength(p, edges)
     IN  [x \in Columns(canvas) |->
            IF x \in Valid(p)
              THEN (TaperUnit * Min({Taper(p, x), length}) * p.depth[x]) \div (length * MedianCount(p))
              ELSE 0]]

Weighing(weights, x) == {k \in DOMAIN weights : weights[k][x] > 0}

-----------------------------------------------------------------------------
(* The protected set. *)

Around(x, n) == (x - n) .. (x + n)

(* Where a star of this peak fades into the noise. *)
WingRadius(peak, fwhm) ==
  Max({2 * fwhm, Min({(fwhm * peak) \div ProtectPeak, MaximumRadius \div 2})})

(* The columns of S that x is connected to within S. *)
Run(S, x) == {y \in S : (x .. y) \cup (y .. x) \subseteq S}

(* An object's footprint: a core, and where the two panels' profiles of it *)
(* differ in connection with the core.                                     *)
Footprint(at, peak, width, differing) ==
  LET core  == Around(at, 2 * width)
      reach == 2 * WingRadius(peak, width)
  IN  (core \cup UNION {Run(differing, y) : y \in core \cap differing}) \cap Around(at, reach)

(* The bright objects two panels both weigh in on.                         *)
PairSeeds(l, r, scene, weights) ==
  LET held  == {x \in DOMAIN weights[l.key] : {l.key, r.key} \subseteq Weighing(weights, x)}
      width == Max({l.fwhm, r.fwhm})
      peak  == [x \in held |->
                  IF x \in DOMAIN scene.stars
                    THEN Max({0, scene.stars[x] - l.gain, scene.stars[x] - r.gain}) ELSE 0]
      maxima == {x \in held : /\ peak[x] >= ProtectPeak
                              /\ \A y \in held \cap Around(x, PeakReach) : peak[y] <= peak[x]}
      differing == IF l.fwhm = r.fwhm /\ l.shift = r.shift THEN {}
                   ELSE {x \in held : \E y \in held : peak[y] > 0 /\ Distance(x, y) <= WingRadius(peak[y], width)}
  IN  {[pair |-> <<l.key, r.key>>, at |-> x, peak |-> peak[x],
        footprint |-> Footprint(x, peak[x], width, differing)] : x \in maxima}

Seeds(panels, scene, weights) ==
  UNION {PairSeeds(pair[1], pair[2], scene, weights) :
           pair \in {q \in panels \X panels : q[1].key < q[2].key}}

(* Footprints that overlap or are adjacent are one object. *)
Touching(a, b) == \E x \in a.footprint, y \in b.footprint : Distance(x, y) <= 1

TouchLinks(seeds) == {{p[1], p[2]} : p \in {q \in seeds \X seeds : Touching(q[1], q[2])}}

(* Mutant: objects that run into each other are chosen for one by one. *)
Unmerged(seeds) == {{s} : s \in seeds}

Clusters(seeds) == Parts(seeds, TouchLinks(seeds))

ClusterFootprint(cluster, canvas) == (UNION {s.footprint : s \in cluster}) \cap Columns(canvas)

(* How far a column lies from a set of columns. *)
Away(x, S) == Min({Distance(x, y) : y \in S})

Brightest(cluster) == CHOOSE s \in cluster : \A t \in cluster : t.peak <= s.peak

(* A panel that weighs in on the whole footprint and its ramp, else one    *)
(* that does on the footprint.                                             *)
CoveringPanels(footprint, canvas, weights) ==
  LET Covers(k, S) == \A x \in S : weights[k][x] > 0
      ramp == {x \in Columns(canvas) : Away(x, footprint) <= RampColumns}
      whole == {k \in DOMAIN weights : Covers(k, ramp)}
  IN  IF whole # {} THEN whole ELSE {k \in DOMAIN weights : Covers(k, footprint)}

(* The panel that weighs most at a column; of equals the last. *)
HeaviestAt(keys, weights, x) ==
  {k \in keys : \A j \in keys :
     weights[j][x] < weights[k][x] \/ (weights[j][x] = weights[k][x] /\ j <= k)}

(* How much of its small scales a column takes from the chosen panel.      *)
Ramp(footprint, weight, canvas) ==
  [x \in Columns(canvas) |->
     IF weight[x] > 0 /\ Away(x, footprint) < RampColumns
       THEN RampColumns - Away(x, footprint) ELSE 0]

(* Whether another panel than the chosen one weighs in on the object's box. *)
Mixed(footprint, chosen, canvas, weights) ==
  \E k \in DOMAIN weights \ {chosen}, x \in Columns(canvas) :
    /\ Min(footprint) - RampColumns <= x /\ x <= Max(footprint) + RampColumns
    /\ weights[k][x] > 0

(* _blob: none when no panel covers the object or only one weighs in on    *)
(* it; it is then left to the mean.                                        *)
Blobs(cluster, canvas, weights) ==
  LET footprint == ClusterFootprint(cluster, canvas)
      covering  == CoveringPanels(footprint, canvas, weights)
  IN  {[footprint |-> footprint, panel |-> k, ramp |-> Ramp(footprint, weights[k], canvas)] :
         k \in {j \in HeaviestAt(covering, weights, Brightest(cluster).at) :
                 Mixed(footprint, j, canvas, weights)}}

ProtectedSet(panels, scene, canvas, weights) ==
  UNION {Blobs(c, canvas, weights) : c \in Clusters(Seeds(panels, scene, weights))}

(* Where ramps of two objects meet, a column follows the larger. *)
Owners(blobs, x) == {b \in blobs : b.ramp[x] > 0 /\ \A c \in blobs : c.ramp[x] <= b.ramp[x]}
Owner(blobs, x) == CHOOSE b \in Owners(blobs, x) : TRUE

-----------------------------------------------------------------------------
(* blend_filter: light and sharp are the panels a column's light and its   *)
(* small scales come from.                                                 *)
Column(weights, blobs, x) ==
  LET light == Weighing(weights, x)
      owned == light # {} /\ Owners(blobs, x) # {}
      full  == owned /\ Owner(blobs, x).ramp[x] = RampColumns
  IN  [light |-> light,
       sharp |-> IF full THEN {Owner(blobs, x).panel} ELSE light,
       mask  |-> (IF light = {} THEN {"NO_COVERAGE"} ELSE {})
                 \cup (IF Cardinality(light) = 1 THEN {"SINGLE_PANEL"} ELSE {})
                 \cup (IF owned THEN {"PROTECTED"} ELSE {})]

ColumnsOf(weights, blobs, canvas) == [x \in Columns(canvas) |-> Column(weights, blobs, x)]

Blended(blobs, weights, canvas) == [blobs |-> blobs, columns |-> ColumnsOf(weights, blobs, canvas)]

BlendWith(weights, panels, scene, canvas) ==
  Blended(ProtectedSet(panels, scene, canvas, weights), weights, canvas)

BlendFilter(panels, edges, scene, canvas) ==
  BlendWith(Weights(panels, edges, canvas), panels, scene, canvas)
=============================================================================
