--------------------------- MODULE MosaicPlacement ---------------------------
(***************************************************************************)
(* Placing the panels of a mosaic (mosaic/astrometry.py and                *)
(* workflows/canvas.py): every panel's reference Light is measured on the  *)
(* catalog's stars, then one joint fit of all panels uses the catalog and  *)
(* the stars neighbours share, and every panel gets its window of the      *)
(* canvas.                                                                 *)
(*                                                                         *)
(* A reference is [lo, hi, seen]: where its solver put it on the sky, and  *)
(* the columns where that shows its stars.  A panel's solution is the      *)
(* offset of that placement.  Rotation, scale and distortion are left out, *)
(* and with them the choice between models of more and fewer terms.        *)
(***************************************************************************)
EXTENDS MosaicPhotometry

CONSTANTS
  IsolationColumns,   \* a star nearer to another one is not measured
  FirstMatchRadius, SecondMatchRadius,  \* of a reference with the catalog
  OverlapRadius, RematchRadius,         \* of a reference with another
  MinimumOverlapMatches,  \* stars that tie two panels together
  StarsPerTerm,       \* stars every parameter of a solution needs
  ClipColumns,        \* a residual that is kept in any case
  ClipRounds, RematchRounds,
  MaximumOffset,      \* bound: solutions lie within it
  MaximumRms          \* the catalog residual a panel may have

ASSUME PlacementAssumption ==
  /\ {IsolationColumns, FirstMatchRadius, SecondMatchRadius, OverlapRadius, RematchRadius,
      ClipColumns, ClipRounds, RematchRounds, MaximumOffset, MaximumRms} \subseteq Nat
  /\ MinimumOverlapMatches \in Nat \ {0} /\ StarsPerTerm \in Nat \ {0}

-----------------------------------------------------------------------------
(* measure_panel. *)

Isolated(seen) == {s \in seen : \A t \in seen \ {s} : Distance(s, t) >= IsolationColumns}

NearestOf(x, S) == CHOOSE y \in S : \A z \in S : Distance(x, y) < Distance(x, z)
                                        \/ (Distance(x, y) = Distance(x, z) /\ y <= z)

(* Pairs that are each other's nearest, within a radius. *)
MutualPairs(A, B, radius) ==
  {p \in A \X B : /\ p[2] = NearestOf(p[1], B) /\ p[1] = NearestOf(p[2], A)
                  /\ Distance(p[1], p[2]) <= radius}

Moved(S, offset) == {s - offset : s \in S}

PairOffset(pairs) == MedianOf([p \in pairs |-> p[1] - p[2]])

Enough(pairs) == Cardinality(pairs) >= NeededStars

(* The pairs a panel's own fit keeps: the outliers go unless they are too  *)
(* many to be outliers.                                                    *)
Agreeing(pairs, offset) == {p \in pairs : Distance(p[1] - p[2], offset) <= ClipColumns}
Inliers(pairs) ==
  IF 10 * Cardinality(Agreeing(pairs, PairOffset(pairs))) < 7 * Cardinality(pairs)
    THEN pairs ELSE Agreeing(pairs, PairOffset(pairs))

Matched(reference, seen, world, first, again) ==
  [measured |-> world # {} /\ Enough(first) /\ Enough(again),
   seen |-> seen, lo |-> reference.lo, hi |-> reference.hi, pairs |-> Inliers(again)]

MatchAgain(seen, world, offset) ==
  {<<p[1] + offset, p[2]>> : p \in MutualPairs(Moved(seen, offset), world, SecondMatchRadius)}

MatchTwice(reference, seen, world, first) ==
  Matched(reference, seen, world, first,
          IF Enough(first) THEN MatchAgain(seen, world, PairOffset(first)) ELSE {})

MatchOnce(reference, seen, world) ==
  MatchTwice(reference, seen, world, MutualPairs(seen, world, FirstMatchRadius))

(* The catalog's stars in a reference's frame, matched as its solver       *)
(* placed it, then again through the offset that gave; at each match too   *)
(* few stars refuse the panel.  pairs are <<star seen, catalog star>>.     *)
MeasurePanel(reference, indexes) ==
  MatchOnce(reference, Isolated(reference.seen), CatalogStars(indexes, Columns(reference)))

-----------------------------------------------------------------------------
(* _JointProblem.  offsets[k] is panel k's solution.  A tie <<j, s, k, t>> *)
(* says that star s of panel j is star t of panel k; a tie to the catalog  *)
(* has the panel 0, whose offset is 0.                                     *)
Offset(offsets, k) == IF k = 0 THEN 0 ELSE offsets[k]
Residual(offsets, tie) ==
  Distance(tie[2] - Offset(offsets, tie[1]), tie[4] - Offset(offsets, tie[3]))

CatalogTies(measured) ==
  UNION {{<<0, p[2], k, p[1]>> : p \in measured[k].pairs} : k \in DOMAIN measured}

(* Stars of two panels that are one star on the sky. *)
MatchOverlap(measured, offsets, j, k, radius) ==
  LET inside == Moved(measured[j].seen, offsets[j]) \cap Moved(Columns(measured[k]), offsets[k])
      pairs  == MutualPairs(inside, Moved(measured[k].seen, offsets[k]), radius)
  IN  IF Cardinality(pairs) < MinimumOverlapMatches THEN {}
      ELSE {<<j, p[1] + offsets[j], k, p[2] + offsets[k]>> : p \in pairs}

MatchOverlaps(measured, offsets, radius) ==
  UNION {MatchOverlap(measured, offsets, p[1], p[2], radius) :
           p \in {q \in (DOMAIN measured) \X (DOMAIN measured) : q[1] < q[2]}}

Offsets(keys) == [keys -> -MaximumOffset .. MaximumOffset]

(* A panel that nothing ties to the sky has no solution. *)
TieLinks(ties) == {{t[1], t[3]} : t \in ties}
Determined(keys, ties) == Linked(keys \cup {0}, TieLinks(ties), 0) = keys \cup {0}

SolveTies(keys, ties) ==
  Best(Offsets(keys), LAMBDA x : MapThenSumSet(LAMBDA t : Square(Residual(x, t)), ties), Length)

(* The ties of one class, a panel with the catalog or with another one,    *)
(* that a fit keeps: small residuals, but at least seven tenths.           *)
Class(ties, t) == {u \in ties : u[1] = t[1] /\ u[3] = t[3]}
Kept(offsets, ties) ==
  LET residual == [t \in ties |-> Residual(offsets, t)]
      Near(t)  == Cardinality({u \in Class(ties, t) : residual[u] <= ClipColumns})
      Rank(t)  == Percentile([u \in Class(ties, t) |-> residual[u]], 70)
  IN  {t \in ties : IF 10 * Near(t) < 7 * Cardinality(Class(ties, t))
                      THEN residual[t] <= Rank(t) ELSE residual[t] <= ClipColumns}

(* A fit of ties: those it keeps, the offsets they gave, and whether they  *)
(* failed to determine every panel.                                        *)
Attempt(ties, kept) ==
  [ties |-> ties, kept |-> kept, offsets |-> <<>>, settled |-> FALSE, lost |-> FALSE]

Keeping(fit, offsets, kept) ==
  [fit EXCEPT !.offsets = offsets, !.kept = kept, !.settled = (kept = fit.kept)]

ClipAt(fit, offsets) == Keeping(fit, offsets, Kept(offsets, fit.ties))

Clip(keys, fit) ==
  IF fit.settled \/ fit.lost THEN fit
  ELSE IF ~Determined(keys, fit.kept) THEN [fit EXCEPT !.lost = TRUE]
  ELSE ClipAt(fit, SolveTies(keys, fit.kept))

(* A fit, its outliers clipped, until nothing changes. *)
Clipped(keys, ties, kept) ==
  LET round[n \in 0 .. ClipRounds] ==
        IF n = 0 THEN Attempt(ties, kept) ELSE Clip(keys, round[n - 1])
  IN  round[ClipRounds]

(* Enough stars in all and for every panel, and enough of the catalog's to *)
(* hold the mosaic on the sky.                                             *)
Admissible(keys, ties) ==
  /\ Cardinality(ties) >= StarsPerTerm * Cardinality(keys)
  /\ \A k \in keys : Cardinality({t \in ties : k \in {t[1], t[3]}}) >= StarsPerTerm
  /\ Cardinality({t \in ties : t[1] = 0}) >= StarsPerTerm

OwnOffsets(measured) == [k \in DOMAIN measured |-> PairOffset(measured[k].pairs)]

OwnTies(measured) ==
  CatalogTies(measured) \cup MatchOverlaps(measured, OwnOffsets(measured), OverlapRadius)

Shares(fit) == Cardinality({t \in fit.kept : t[1] # 0})

(* The overlaps matched through a joint fit; the catalog's ties stay as    *)
(* that fit kept them.                                                     *)
Again(keys, fit, catalog, overlaps) ==
  IF Admissible(keys, (fit.kept \cap catalog) \cup overlaps)
    THEN Clipped(keys, catalog \cup overlaps, (fit.kept \cap catalog) \cup overlaps)
    ELSE [fit EXCEPT !.lost = TRUE]

Rematched(r, fit) == [fit |-> fit, linked |-> Shares(fit), over |-> Shares(fit) <= r.linked]

Rematch(measured, r) ==
  IF r.over \/ r.fit.lost THEN r
  ELSE Rematched(r, Again(DOMAIN measured, r.fit, CatalogTies(measured),
                          MatchOverlaps(measured, r.fit.offsets, RematchRadius)))

FirstMatch(fit) == [fit |-> fit, linked |-> Shares(fit), over |-> FALSE]

LastFit(keys, fit) == IF fit.lost THEN fit ELSE Clipped(keys, fit.ties, fit.kept)

(* solve_mosaic: the overlaps are matched through the panels' own fits and *)
(* again through the joint one, until they gain no stars.                  *)
SolveMosaic(measured, ties) ==
  LET round[n \in 0 .. RematchRounds] ==
        IF n = 0 THEN FirstMatch(Clipped(DOMAIN measured, ties, ties))
        ELSE Rematch(measured, round[n - 1])
  IN  LastFit(DOMAIN measured, round[RematchRounds].fit)

(* _measure_reference and _solve_placements: the refusals, and every       *)
(* panel's catalog residual within the limit before any panel integrates.  *)
Residuals(fit, k) == {t \in fit.kept : t[1] = 0 /\ t[3] = k}
WithinRms(fit, k) ==
  MapThenSumSet(LAMBDA t : Square(Residual(fit.offsets, t)), Residuals(fit, k))
    <= Square(MaximumRms) * Cardinality(Residuals(fit, k))

MeasuredReferences(references, indexes) ==
  [k \in DOMAIN references |-> MeasurePanel(references[k], indexes)]

FitRefusal(keys, fit) ==
  IF fit.lost THEN "MOSAIC_PANELS_UNCONSTRAINED"
  ELSE IF \E k \in keys : ~WithinRms(fit, k) THEN "MOSAIC_REFERENCE_ASTROMETRY_FAILED"
  ELSE "none"

Unplaced(keys, refusal) == [refusal |-> refusal, offsets |-> [k \in keys |-> 0]]

PlacedAt(keys, fit, refusal) ==
  IF refusal = "none" THEN [refusal |-> "none", offsets |-> fit.offsets] ELSE Unplaced(keys, refusal)

FittedPlacement(keys, fit) == PlacedAt(keys, fit, FitRefusal(keys, fit))

PlacementBy(measured, ties) ==
  IF Admissible(DOMAIN measured, ties)
    THEN FittedPlacement(DOMAIN measured, SolveMosaic(measured, ties))
    ELSE Unplaced(DOMAIN measured, "MOSAIC_REFERENCE_STARS_INSUFFICIENT")

PlacementOf(measured) ==
  IF \E k \in DOMAIN measured : ~measured[k].measured
    THEN Unplaced(DOMAIN measured, "MOSAIC_REFERENCE_STARS_INSUFFICIENT")
    ELSE PlacementBy(measured, OwnTies(measured))

(* Why the panels cannot be placed, or the offset of each one. *)
Placement(references, indexes) ==
  IF indexes = <<>> THEN Unplaced(DOMAIN references, "MOSAIC_CATALOG_UNAVAILABLE")
  ELSE PlacementOf(MeasuredReferences(references, indexes))

-----------------------------------------------------------------------------
(* _place_on_canvas. *)

(* Where a panel's registered Lights lie once its solution is applied; a   *)
(* Light's frame is where it truly is, and shift what the solution is off. *)
Placed(frame, shift) == [frame EXCEPT !.lo = @ + shift, !.hi = @ + shift]

PanelWindow(plan, lights, shift, margin) ==
  CanvasWindow(plan, UNION {{f.lo + margin, f.hi - margin} : f \in {Placed(g, shift) : g \in lights}})

=============================================================================
