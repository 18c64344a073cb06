-------------------------- MODULE MosaicPhotometry --------------------------
(***************************************************************************)
(* Matching the panels of one filter (mosaic/photometry.py): the stars and *)
(* background two panels share, the components those overlaps link, one    *)
(* scale per panel of a component from the shared stars, and one additive  *)
(* level per panel from the overlaps and from the panels' sky.             *)
(*                                                                         *)
(* A panel is a frame with its master: depth counts the Lights that        *)
(* reached each column, gain is the light it lost (a star of brightness m  *)
(* shows m - gain), level what its background adds, shift how far its      *)
(* placement is off.  Brightness is logarithmic; its unit is a third, so   *)
(* that a triangle of overlaps has its least-squares solution on the grid. *)
(* The gain and background terms that vary across a panel are left out.    *)
(***************************************************************************)
EXTENDS MosaicCanvas

CONSTANTS
  BinPixels,             \* columns of a background bin
  SkyBinPixels,          \* columns of a sky bin
  MinimumOverlapPixels,  \* shared valid columns an overlap is measured on
  MinimumOverlapStars,   \* shared stars that give a scale
  MinimumStar,           \* brightness a star needs in both panels
  SkyTolerance,          \* the narrowest bound of what is still sky
  SkyIterations,         \* refits of the sky at most
  MaximumLevel           \* bound: scales and levels lie within it

ASSUME PhotometryAssumption ==
  /\ BinPixels \in Nat \ {0} /\ SkyBinPixels \in Nat \ {0}
  /\ MinimumOverlapPixels \in Nat /\ MinimumOverlapStars \in Nat \ {0}
  /\ MinimumStar \in Nat /\ SkyTolerance \in Nat /\ SkyIterations \in Nat
  /\ MaximumLevel \in Nat

Keys(panels) == {p.key : p \in panels}
PanelOf(panels, key) == CHOOSE p \in panels : p.key = key
Distance(a, b) == IF a < b THEN b - a ELSE a - b

(* Where a master has a valid sample: at least half of its Lights reached  *)
(* the column; a drizzled one is valid wherever a drop landed.             *)
Valid(p) ==
  {x \in Columns(p) : p.depth[x] > 0 /\ (p.drizzled \/ 2 * p.depth[x] >= p.frames)}

-----------------------------------------------------------------------------
(* measure_edge.  scene.stars maps a star's column to its brightness,      *)
(* scene.light a column to the light of extended structure; noise.ratio    *)
(* and noise.level are what a pair's measurements are off by.              *)

Bin(from, n, size) == (from + n * size) .. (from + n * size + size - 1)

(* The bins of a span of columns at least half of which are usable. *)
Bins(span, usable, size) ==
  {bin \in {Bin(span.lo, n, size) : n \in 0 .. ((span.hi - span.lo) \div size - 1)} :
     2 * Cardinality(bin \cap usable) >= size}

Shared(l, r) ==
  [lo |-> IF l.lo > r.lo THEN l.lo ELSE r.lo, hi |-> IF l.hi < r.hi THEN l.hi ELSE r.hi]

MeasureEdge(l, r, scene, noise) ==
  LET valid    == Valid(l) \cap Valid(r)
      measured == Cardinality(valid) >= MinimumOverlapPixels
      stars    == {x \in valid \cap DOMAIN scene.stars :
                     /\ scene.stars[x] - l.gain >= MinimumStar
                     /\ scene.stars[x] - r.gain >= MinimumStar}
      bins     == Bins(Shared(l, r), valid \ DOMAIN scene.stars, BinPixels)
  IN  [left |-> l.key, right |-> r.key, pixels |-> Cardinality(valid),
       width |-> Shared(l, r).hi - Shared(l, r).lo,
       stars |-> IF measured THEN stars ELSE {},
       bins  |-> IF measured THEN bins ELSE {},
       ratio |-> r.gain - l.gain + noise.ratio[{l.key, r.key}],
       level |-> l.level - r.level + noise.level[{l.key, r.key}],
       offset |-> Distance(l.shift, r.shift)]

Edges(panels, scene, noise) ==
  {MeasureEdge(pair[1], pair[2], scene, noise) :
     pair \in {q \in panels \X panels :
                 /\ q[1].key < q[2].key
                 /\ Shared(q[1], q[2]).hi - Shared(q[1], q[2]).lo >= BinPixels}}

(* The overlaps that give a scale: enough common stars. *)
Observed(edges) == {e \in edges : Cardinality(e.stars) >= MinimumOverlapStars}

(* The error of an overlap's ratio: twice the stars needed measure it well. *)
RatioError(e) == IF Cardinality(e.stars) >= 2 * MinimumOverlapStars THEN 0 ELSE 1

-----------------------------------------------------------------------------
(* photometric_components and solve_scales. *)

Links(edges) == {{e.left, e.right} : e \in Observed(edges)}

Within(edges, keys) == {e \in edges : e.left \in keys /\ e.right \in keys}

Components(panels, edges) == Parts(Keys(panels), Links(edges))

(* The largest component: by panels, then area, then position. *)
LargestComponent(panels, edges) ==
  LET Area(C) == MapThenSumSet(LAMBDA p : p.hi - p.lo, {p \in panels : p.key \in C})
      Before(C, D) ==
        \/ Cardinality(C) > Cardinality(D)
        \/ Cardinality(C) = Cardinality(D) /\ Area(C) > Area(D)
        \/ Cardinality(C) = Cardinality(D) /\ Area(C) = Area(D) /\ Min(C) < Min(D)
      parts == Components(panels, edges)
  IN  CHOOSE C \in parts : \A D \in parts \ {C} : Before(C, D)

Square(x) == x * x

(* The levels that fit a network of differences best; the common level is  *)
(* unobservable and stays at zero in the first panel.                      *)
Levels(keys) ==
  {x \in [keys -> -MaximumLevel .. MaximumLevel] : x[Min(keys)] = 0}

(* Of the choices of least cost, the one of least size.                   *)
Best(choices, Cost(_), Size(_)) ==
  LET least == Min({Cost(x) : x \in choices})
      ties  == {x \in choices : Cost(x) = least}
  IN  CHOOSE x \in ties : \A y \in ties : Size(x) <= Size(y)

Length(x) == MapThenSumSet(LAMBDA k : Square(x[k]), DOMAIN x)

ScaleMisfit(x, edges) == MapThenSumSet(LAMBDA e : Square(x[e.left] - x[e.right] + e.ratio), edges)

FitScales(keys, edges) ==
  Best(Levels(keys), LAMBDA x : ScaleMisfit(x, edges), Length)

(* The scale of every panel relative to the one with most light a second,  *)
(* which keeps its own; edges are the component's, observed or not.        *)
SolveScales(panels, edges) ==
  LET keys == Keys(panels)
      used == Observed(edges)
      x    == FitScales(keys, used)
      lost == [k \in keys |-> x[k] + PanelOf(panels, k).exposure]
      ref  == Min({k \in keys : \A j \in keys : lost[k] <= lost[j]})
      free == Cardinality(used) - (Cardinality(keys) - 1)
  IN  [scale |-> [k \in keys |-> x[k] - x[ref]], reference |-> ref,
       freedom |-> free, misfit |-> ScaleMisfit(x, used)]

(* What is left of an overlap's ratio once its panels are scaled. *)
CorrectedRatio(e, scales) == Distance(e.ratio + scales.scale[e.left], scales.scale[e.right])

-----------------------------------------------------------------------------
(* measure_sky and solve_planes. *)

(* A bin of a panel's background, with the level it shows. *)
SkyBinsOf(p, scene) ==
  {[panel |-> p.key, columns |-> bin,
    value |-> p.level + MedianOf([x \in bin \cap Valid(p) |-> scene.light[x]])] :
     bin \in Bins(p, Valid(p), SkyBinPixels)}

(* A bin lies in another filter's sky when both its ends do. *)
InsideReference(bin, referenceSky) ==
  {Min(bin.columns), Max(bin.columns)} \subseteq referenceSky

(* The bins of an overlap whose light an error of the scale cannot leak    *)
(* into the background.                                                    *)
FaintBins(e, scene) == {bin \in e.bins : RatioError(e) = 0 \/ \A x \in bin : scene.light[x] = 0}

PlaneChoices(keys) == Levels(keys) \X (-MaximumLevel .. MaximumLevel)

PlaneMisfit(x, edges, kept, scene) ==
  MapThenSumSet(LAMBDA e : Cardinality(FaintBins(e, scene)) * Square(x[1][e.left] - x[1][e.right] - e.level), edges)
  + MapThenSumSet(LAMBDA b : Square(b.value - x[1][b.panel] - x[2]), kept)

FitPlanes(keys, edges, kept, scene) ==
  Best(PlaneChoices(keys), LAMBDA x : PlaneMisfit(x, edges, kept, scene),
       LAMBDA x : Length(x[1]) + Square(x[2]))

(* The rejected bins and their neighbours on the panel's own grid. *)
Grown(rejected, bins) ==
  {b \in bins : \E r \in rejected :
     b.panel = r.panel /\ Distance(Min(b.columns), Min(r.columns)) <= SkyBinPixels}

SkyBins(panels, scene) == UNION {SkyBinsOf(p, scene) : p \in panels}

(* The bins that may be sky: referenceSky[k] are the columns another       *)
(* filter found to be sky of panel k, for the panels that filter covers.   *)
AllowedBins(bins, referenceSky) ==
  {b \in bins : b.panel \in DOMAIN referenceSky => InsideReference(b, referenceSky[b.panel])}

(* How far a bin is above the level its panel is fitted with. *)
Excess(fit, b) == b.value - fit[1][b.panel] - fit[2]

Preferred(own, allowed) == IF own \cap allowed # {} THEN own \cap allowed ELSE own

Dark(k, q, fit, bins, allowed) ==
  Percentile([b \in Preferred({c \in bins : c.panel = k}, allowed) |-> Excess(fit, b)], q)

(* The bound of what is sky starts at the spread of each panel's darkest   *)
(* quarter and halves with every refit.                                    *)
FirstSky(fit, bins, allowed, lit) ==
  [kept |-> {}, fit |-> fit, done |-> FALSE,
   centre |-> [k \in lit |-> Dark(k, 25, fit, bins, allowed)],
   bound  |-> [k \in lit |-> (5 * (Dark(k, 25, fit, bins, allowed) - Dark(k, 5, fit, bins, allowed))) \div 2]]

Limit(r, b) == Max({r.bound[b.panel], SkyTolerance})

OutsideSky(r, bins) ==
  {b \in bins : \/ Excess(r.fit, b) > r.centre[b.panel] + Limit(r, b)
                \/ Excess(r.fit, b) < r.centre[b.panel] - 2 * Limit(r, b)}

Refitted(r, kept, fit) ==
  [kept |-> kept, fit |-> fit, done |-> FALSE,
   centre |-> [k \in DOMAIN r.centre |-> MedianOf([b \in kept |-> Excess(fit, b)])],
   bound  |-> [k \in DOMAIN r.bound |-> r.bound[k] \div 2]]

NextKept(r, kept, keys, edges, scene) ==
  IF \/ r.done \/ kept = {}
     \/ kept = r.kept /\ \A k \in DOMAIN r.bound : r.bound[k] <= SkyTolerance
    THEN [r EXCEPT !.done = TRUE]
    ELSE Refitted(r, kept, FitPlanes(keys, edges, kept, scene))

NextSky(r, keys, edges, scene, bins, allowed) ==
  NextKept(r, allowed \ Grown(OutsideSky(r, bins), bins), keys, edges, scene)

SkyAfter(n, keys, edges, scene, bins, allowed) ==
  LET round[i \in 0 .. n] ==
        IF i = 0
          THEN FirstSky(FitPlanes(keys, edges, {}, scene), bins, allowed, {b.panel : b \in bins})
          ELSE NextSky(round[i - 1], keys, edges, scene, bins, allowed)
  IN  round[n]

(* One level per panel and the columns of each that are sky. *)
PlanesOf(last) ==
  [level |-> last.fit[1],
   sky   |-> [k \in DOMAIN last.bound |-> UNION {b.columns : b \in {c \in last.kept : c.panel = k}}]]

PlanesOn(panels, edges, scene, bins, referenceSky) ==
  PlanesOf(SkyAfter(SkyIterations, Keys(panels), edges, scene, bins, AllowedBins(bins, referenceSky)))

SolvePlanes(panels, edges, scene, referenceSky) ==
  PlanesOn(panels, edges, scene, SkyBins(panels, scene), referenceSky)

(* What is left of an overlap's level once the planes are subtracted. *)
ResidualLevel(e, planes) == Distance(e.level, planes.level[e.left] - planes.level[e.right])
=============================================================================
