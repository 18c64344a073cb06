---------------------------- MODULE MosaicCanvas ----------------------------
(***************************************************************************)
(* The canvas of a mosaic (mosaic/canvas.py and the planning half of       *)
(* workflows/mosaic.py): one Light of every panel is solved, the panels'   *)
(* frames on the sky give one lattice that holds them all, and every panel *)
(* run later gets the integer window of that lattice its Lights reach.     *)
(*                                                                         *)
(* The sky is a line of integer columns.  A frame covers the columns from  *)
(* lo up to, but not including, hi; its pixels are scale columns wide and  *)
(* run along the sky (parity 1) or against it (-1).                        *)
(***************************************************************************)
EXTENDS Integers, Sequences, FiniteSets, FiniteSetsExt, SequencesExt

CONSTANTS
  CanvasMargin,       \* pixels the plan leaves around the panels
  MaximumCanvas,      \* the largest canvas that is supported, in pixels
  MinimumIndexStars,  \* stars an index needs in a field to be used
  NeededStars         \* catalog stars the placement of a panel needs

ASSUME CanvasAssumption ==
  /\ CanvasMargin \in Nat /\ MaximumCanvas \in Nat
  /\ MinimumIndexStars \in Nat /\ NeededStars \in Nat

FloorOf(a, b) == a \div b
CeilingOf(a, b) == -((-a) \div b)

Columns(frame) == frame.lo .. (frame.hi - 1)

(* The least value that q of every 100 values of f do not exceed. *)
Percentile(f, q) ==
  Min({f[x] : x \in {y \in DOMAIN f :
         100 * Cardinality({z \in DOMAIN f : f[z] <= f[y]}) >= q * Cardinality(DOMAIN f)}})

MedianOf(f) == Percentile(f, 50)

-----------------------------------------------------------------------------
(* Connected parts of a graph: links is a set of pairs {a, b}. *)

ClosedUnder(C, S, links) == \A a \in C, b \in S : {a, b} \in links => b \in C

(* What the walk from k reaches: the least closed set that holds k. *)
Linked(S, links, k) ==
  {j \in S : \A C \in SUBSET S : (k \in C /\ ClosedUnder(C, S, links)) => j \in C}

Parts(S, links) == {Linked(S, links, k) : k \in S}

Connected(S, links) == Cardinality(Parts(S, links)) <= 1

-----------------------------------------------------------------------------
(* The survey: one solved Light of every panel. *)

(* The middle Light, else the first, else the last; 0 when none solves.    *)
(* lights[i] is a frame, and says whether Light i can be read and solves.  *)
SurveyedLight(lights) ==
  LET n     == Len(lights)
      picks == <<n \div 2 + 1, 1, n>>
      first == SelectInSeq(picks, LAMBDA i : lights[i].readable /\ lights[i].solves)
  IN  IF first = 0 THEN 0 ELSE picks[first]

(* The stars of the densest index with enough of them in a field, its      *)
(* tiles united; indexes is densest first, each a set of tiles.            *)
CatalogStars(indexes, field) ==
  LET found(i) == UNION {tile \cap field : tile \in indexes[i]}
      dense    == {i \in DOMAIN indexes : Cardinality(found(i)) >= MinimumIndexStars}
  IN  IF dense = {} THEN {} ELSE found(Min(dense))

(* The panels whose frame holds too few stars to place it. *)
SparsePanels(frames, indexes) ==
  {f \in frames : Cardinality(CatalogStars(indexes, Columns(f))) < NeededStars}

-----------------------------------------------------------------------------
(* plan_canvas. *)

(* The orientation of most panels; as many either way take the sky's. *)
MajorityParity(frames) ==
  IF 2 * Cardinality({f \in frames : f.parity = 1}) >= Cardinality(frames) THEN 1 ELSE -1

(* The middle pixel scale, or the finest when they differ by over 2 %. *)
CanvasScale(frames) ==
  LET scaleOf == [f \in frames |-> f.scale]
      scales  == {f.scale : f \in frames}
      middle  == MedianOf(scaleOf)
  IN  IF 50 * (Max(scales) - Min(scales)) > middle THEN Min(scales) ELSE middle

(* The centroid of the union of the frames: overlaps count once. *)
UnionCentroid(frames) ==
  LET covered == UNION {Columns(f) : f \in frames}
  IN  SumSet(covered) \div Cardinality(covered)

(* Where a canvas of this parity, scale and tangent point puts a column,   *)
(* rounded down or up to a pixel.                                          *)
PixelBelow(c, column) == FloorOf(c.parity * (column - c.tangent), c.scale)
PixelAbove(c, column) == CeilingOf(c.parity * (column - c.tangent), c.scale)

(* The pixels, before the origin is taken off, from the first to the last  *)
(* that a set of columns reaches, with a margin.                           *)
Reach(c, columns, margin) ==
  [first |-> Min({PixelBelow(c, x) : x \in columns}) - margin,
   last  |-> Max({PixelAbove(c, x) : x \in columns}) + margin]

Ends(frame) == {frame.lo, frame.hi}

Invalid(frame) == frame.scale = 0 \/ frame.lo >= frame.hi

(* The lattice: zero is the pixel, counted from the tangent point, that    *)
(* becomes canvas pixel 0.                                                 *)
CanvasPlan(frames) ==
  LET c     == [parity |-> MajorityParity(frames), scale |-> CanvasScale(frames),
                tangent |-> UnionCentroid(frames)]
      reach == Reach(c, UNION {Ends(f) : f \in frames}, CanvasMargin)
  IN  [parity |-> c.parity, scale |-> c.scale, tangent |-> c.tangent,
       zero |-> reach.first, width |-> reach.last - reach.first + 1]

(* Frames that share area; frames that merely touch do not. *)
Overlapping(f, g) == (IF f.lo > g.lo THEN f.lo ELSE g.lo) < (IF f.hi < g.hi THEN f.hi ELSE g.hi)

OverlapLinks(frames) ==
  {{p[1].key, p[2].key} : p \in {q \in frames \X frames : Overlapping(q[1], q[2])}}

(* The frames of the surveyed Lights, one for every panel that has one. *)
SurveyedFrames(lightsOf) ==
  {lightsOf[k][SurveyedLight(lightsOf[k])] :
     k \in {j \in DOMAIN lightsOf : SurveyedLight(lightsOf[j]) # 0}}

(* _plan_mosaic_canvas: the refusals in the order they are met. *)
PlanRefusal(lightsOf, indexes) ==
  LET frames == SurveyedFrames(lightsOf)
  IN  CASE \E k \in DOMAIN lightsOf : SurveyedLight(lightsOf[k]) = 0 -> "MOSAIC_SURVEY_UNSOLVED"
        [] indexes = <<>> -> "MOSAIC_CATALOG_UNAVAILABLE"
        [] OTHER ->
      CASE SparsePanels(frames, indexes) # {}           -> "MOSAIC_CATALOG_TOO_SPARSE"
        [] OTHER ->
      CASE \E f \in frames : Invalid(f)                -> "MOSAIC_FOOTPRINT_INVALID"
        [] OTHER ->
      CASE CanvasPlan(frames).width > MaximumCanvas     -> "MOSAIC_CANVAS_TOO_LARGE"
        [] OTHER ->
      CASE ~Connected(DOMAIN lightsOf, OverlapLinks(frames)) -> "MOSAIC_PANELS_DISCONNECTED"
        [] OTHER -> "none"

-----------------------------------------------------------------------------
(* canvas_window. *)

(* The window of everything a panel's Lights reach, one pixel around it. *)
CanvasWindow(plan, columns) ==
  LET reach == Reach(plan, columns, 1)
  IN  [origin |-> reach.first - plan.zero, width |-> reach.last - reach.first + 1]

=============================================================================
