----------------------------- MODULE StarMatching -----------------------------
(***************************************************************************)
(* How the registration finds the transform of one frame to another from   *)
(* their stars (ufwbpp_registration/pipeline.py), on a sky that is a line: *)
(* the similarities of a plane that map a line onto a line are scale,      *)
(* half turn and shift, so the whole estimation runs unchanged on it.      *)
(*                                                                         *)
(* A detected object is a record [x, core, flux, clean]: its place on the  *)
(* preview, its centroid at full resolution (or Lost), its flux and        *)
(* whether SEP flags nothing.  A model [a, b, d] takes x to                *)
(* (a * x + b) / d.                                                        *)
(***************************************************************************)
EXTENDS Integers, FiniteSets, FiniteSetsExt, SequencesExt

CONSTANTS
  MaximumStars,   \* maximum_stars of a catalogue
  BrightStars,    \* the stars of either catalogue that vote (240)
  MatchRadius,    \* match_radius_px
  Threshold,      \* residual_threshold_px
  BinFloor,       \* the least width of a bin of shifts (3 px)
  FewMatches,     \* the matches a bootstrap or a refinement needs (12)
  MinInliers,     \* min_inliers
  MinRatio,       \* min_inlier_ratio, in percent
  MaxSquare,      \* max_rms_px squared
  Binning,        \* full-resolution pixels in a preview pixel
  FullThreshold,  \* full_residual_threshold_px
  FullRatio,      \* full_min_inlier_ratio, in percent
  FullSpan,       \* full_min_span_fraction, in percent
  ScaleDeviation, \* full_max_scale_deviation, in percent
  EndDelta,       \* full_max_corner_delta_px
  FrameWidth      \* preview pixels of a frame

Distance(u, v) == IF u < v THEN v - u ELSE u - v

(* Models are kept in lowest terms. *)
Divisor[u \in Nat, v \in Nat] == IF v = 0 THEN u ELSE Divisor[v, u % v]

Over(m, k) == [a |-> m.a \div k, b |-> m.b \div k, d |-> m.d \div k]
Reduced(m) == Over(m, Divisor[m.d, Divisor[Distance(m.a, 0), Distance(m.b, 0)]])

(* detect_stars: the clean objects, the brightest first. *)
Detect(objects) ==
  LET clean == SelectSeq(objects, LAMBDA o : o.clean /\ o.flux > 0)
      rank(i) == Cardinality({j \in DOMAIN clean : \/ clean[j].flux > clean[i].flux
                                                   \/ clean[j].flux = clean[i].flux /\ j <= i})
      place(r) == CHOOSE i \in DOMAIN clean : rank(i) = r
  IN SubSeq([r \in DOMAIN clean |-> clean[place(r)]], 1,
            IF Len(clean) < MaximumStars THEN Len(clean) ELSE MaximumStars)

-----------------------------------------------------------------------------
(* The distance of star e[1] under a model from reference star e[2], times *)
(* the denominator of the model.                                           *)
Off(source, target, model, e) ==
  Distance(model.a * source[e[1]].x + model.b, model.d * target[e[2]].x)

(* The nearest pair first, each star once. *)
Greedy(off) ==
  LET before(e, g) ==
        \/ off[e] < off[g]
        \/ off[e] = off[g] /\ (e[1] < g[1] \/ (e[1] = g[1] /\ e[2] <= g[2]))
      greedy[edges \in SUBSET DOMAIN off] ==
        IF edges = {} THEN {}
        ELSE LET first(e) == {e} \cup greedy[{g \in edges : g[1] # e[1] /\ g[2] # e[2]}]
             IN first(CHOOSE e \in edges : \A g \in edges : before(e, g))
  IN greedy[DOMAIN off]

(* _one_to_one_matches, of the pairs within the radius (in halves). *)
OneToOne(source, target, model, radius) ==
  LET off(e) == Off(source, target, model, e)
      near == {e \in (DOMAIN source) \X (DOMAIN target) : 2 * off(e) <= radius * model.d}
  IN Greedy([e \in near |-> off(e)])

Matches(source, target, model) == OneToOne(source, target, model, 2 * MatchRadius)

(* Least squares over pairs of stars (SimilarityTransform.from_estimate);  *)
(* it fails when they are one point.                                       *)
NoModel == [a |-> 0, b |-> 0, d |-> 0]

Line(n, x, y, xx, xy) ==
  IF n * xx = x * x THEN NoModel
  ELSE Reduced([a |-> n * xy - x * y, b |-> xx * y - x * xy, d |-> n * xx - x * x])

Fit(source, target, pairs) ==
  LET total(of(_)) == MapThenSumSet(of, pairs)
      x(e) == source[e[1]].x
      y(e) == target[e[2]].x
  IN Line(Cardinality(pairs), total(x), total(y),
          total(LAMBDA e : x(e) * x(e)), total(LAMBDA e : x(e) * y(e)))

Inliers(source, target, model, pairs, threshold) ==
  {e \in pairs : Off(source, target, model, e) <= threshold * model.d}

(* ransac: the two pairs whose model has the most inliers (any of them),   *)
(* fitted again to these.  Its threshold is strict.                        *)
Ransac(source, target, pairs, threshold) ==
  LET models == {Fit(source, target, {e, g}) : e, g \in pairs} \ {NoModel}
      close(m) == {e \in pairs : Off(source, target, m, e) < threshold * m.d}
      fullest(sets) == {c \in sets : \A k \in sets : Cardinality(k) <= Cardinality(c)}
  IN {[model |-> Fit(source, target, c), inliers |-> c] : c \in fullest({close(m) : m \in models})}

-----------------------------------------------------------------------------
(* _translation_rotation_bootstrap: for either angle the shift most pairs  *)
(* of bright stars vote for; the one under which more stars match.         *)
BinWidth == IF MatchRadius > BinFloor THEN MatchRadius ELSE BinFloor

(* np.rint: to the nearest, a tie to the even. *)
Rint(num, den) ==
  LET q == num \div den
      over == 2 * (num % den)
  IN IF over > den \/ (over = den /\ q % 2 = 1) THEN q + 1 ELSE q

(* The middle of a bag of shifts, doubled: shift[e] for e in chosen. *)
TwiceMedian(shift, chosen) ==
  LET below(v) == Cardinality({e \in chosen : shift[e] < v})
      upTo(v) == Cardinality({e \in chosen : shift[e] <= v})
      nth(r) == CHOOSE v \in {shift[e] : e \in chosen} : below(v) < r /\ r <= upTo(v)
      ranks(n) == <<(n + 1) \div 2, n \div 2 + 1>>
      both(q) == q[1] + q[2]
  IN both([i \in 1..2 |-> nth(ranks(Cardinality(chosen))[i])])

(* The first of the fullest bins. *)
FullestBin(shift) ==
  LET bin(e) == Rint(shift[e], BinWidth)
      first(votes) ==
        CHOOSE k \in DOMAIN votes :
          \A j \in DOMAIN votes : \/ Cardinality(votes[j]) < Cardinality(votes[k])
                                 \/ (Cardinality(votes[j]) = Cardinality(votes[k]) /\ k <= j)
      fullest(votes) == votes[first(votes)]
  IN fullest([k \in {bin(e) : e \in DOMAIN shift} |-> {e \in DOMAIN shift : bin(e) = k}])

Shift(source, target, sign) ==
  LET bright(catalogue) == {i \in DOMAIN catalogue : i <= BrightStars}
      voted(shift) == Reduced([a |-> 2 * sign, b |-> TwiceMedian(shift, FullestBin(shift)), d |-> 2])
  IN voted([e \in bright(source) \X bright(target) |-> target[e[2]].x - sign * source[e[1]].x])

(* The half turn only when more stars match under it. *)
Bootstrap(source, target) ==
  LET matched(m) == Cardinality(OneToOne(source, target, m, 3 * BinWidth))
      tries == {[model |-> m, size |-> matched(m)] : m \in {Shift(source, target, s) : s \in {1, -1}}}
      wins(t, u) == t.size > u.size \/ (t.size = u.size /\ t.model.a >= u.model.a)
      few(catalogue) == Len(catalogue) < 3
      enough(t) == IF t.size < FewMatches \/ t.size < MinInliers THEN NoModel ELSE t.model
  IN IF few(source) \/ few(target) \/ BrightStars < 3 THEN NoModel
     ELSE enough(CHOOSE t \in tries : \A u \in tries : wins(t, u))

(* astroalign.find_transform, when the bootstrap has none: a placement on  *)
(* which three stars match, or an exception.                               *)
FindTransform(source, target) ==
  LET placed == {[a |-> sign, b |-> target[j].x - sign * source[i].x, d |-> 1] :
                   i \in DOMAIN source, j \in DOMAIN target, sign \in {1, -1}}
  IN {m \in placed : Cardinality(Inliers(source, target, m, Matches(source, target, m), Threshold)) >= 3}

-----------------------------------------------------------------------------
(* _refine_from_initial: two rounds of matching and ransac, then a least   *)
(* squares fit to the inliers, whose matches and inliers are judged.       *)
NoEstimate == [model |-> NoModel, pairs |-> {}, inliers |-> {}]

Round(source, target, model) ==
  LET sound(pairs) == {q \in Ransac(source, target, pairs, Threshold) : Cardinality(q.inliers) >= 2}
      fitted(pairs) == IF Cardinality(pairs) < 3 THEN {} ELSE {r.model : r \in sound(pairs)}
      orElse(models) == IF models = {} THEN {model} ELSE models
  IN orElse(fitted(Matches(source, target, model)))

JudgePairs(source, target, model, pairs) ==
  [model |-> model, pairs |-> pairs,
   inliers |-> Inliers(source, target, model, pairs, Threshold)]

Judge(source, target, model) ==
  JudgePairs(source, target, model, Matches(source, target, model))

LastFit(source, target, model) ==
  LET again(first, fitted) == IF fitted = NoModel THEN first ELSE Judge(source, target, fitted)
      last(first) ==
        IF Cardinality(first.pairs) < 2 THEN NoEstimate
        ELSE IF Cardinality(first.inliers) < 2 THEN first
        ELSE again(first, Fit(source, target, first.inliers))
  IN last(Judge(source, target, model))

RefineFromInitial(source, target, initial) ==
  {LastFit(source, target, m) :
     m \in UNION {Round(source, target, k) : k \in Round(source, target, initial)}}

(* _result_from_model: is the estimate accepted?  The rms is compared      *)
(* squared.                                                                *)
Acceptable(source, target, estimate) ==
  LET n == Cardinality(estimate.inliers)
      least == IF Len(source) < Len(target) THEN Len(source) ELSE Len(target)
      square(e) == LET r == Off(source, target, estimate.model, e) IN r * r
      sum == MapThenSumSet(square, estimate.inliers)
  IN /\ estimate # NoEstimate
     /\ n >= MinInliers /\ n > 0
     /\ 100 * n >= MinRatio * least
     /\ sum <= MaxSquare * n * estimate.model.d * estimate.model.d

(* _estimate_one, but for the reference itself, which has the identity. *)
Direct(source, target) ==
  LET initial(bootstrap) == IF bootstrap # NoModel THEN {bootstrap} ELSE FindTransform(source, target)
      orNone(found) == IF found = {} THEN {NoEstimate} ELSE found
  IN orNone(UNION {RefineFromInitial(source, target, m) : m \in initial(Bootstrap(source, target))})

(* _estimate_via_bridge: through a frame that reaches the target by the    *)
(* estimate onward; an exception of the refinement is no estimate.         *)
Compose(second, first) ==
  Reduced([a |-> second.a * first.a, b |-> second.a * first.b + second.b * first.d,
           d |-> second.d * first.d])

(* _estimate_member_task: directly only when the bridge has no estimate at *)
(* all.                                                                    *)
Member(source, bridge, onward, target) ==
  LET refined(h) ==
        IF Acceptable(source, bridge, h)
        THEN RefineFromInitial(source, target, Compose(onward.model, h.model)) ELSE {NoEstimate}
      orDirect(e) == IF e = NoEstimate THEN Direct(source, target) ELSE {e}
  IN UNION {orDirect(e) : e \in UNION {refined(h) : h \in Direct(source, bridge)}}

(* register_analyses, of a frame of another filter than the target, of     *)
(* which an earlier frame may be the anchor.                               *)
Estimates(source, earlier, target) ==
  UNION {IF Acceptable(earlier, target, e) THEN Member(source, earlier, e, target)
         ELSE Direct(source, target) : e \in Direct(earlier, target)}

-----------------------------------------------------------------------------
(* _refine_full_resolution: the pixel centres of a preview lie in the      *)
(* middle of the pixels it bins (_preview_to_full_matrix), so a model of   *)
(* the preview is lifted by half of the rest.                              *)
Half == (Binning - 1) \div 2
FullPixel(x) == Binning * x + Half

Lift(m) ==
  Reduced([a |-> m.a, b |-> Binning * m.b + Half * (m.d - m.a), d |-> m.d])

Lower(m) ==
  Reduced([a |-> m.a * Binning, b |-> m.b + Half * (m.a - m.d), d |-> m.d * Binning])

(* A centroid is lost when its patch leaves the image, holds an invalid    *)
(* pixel or ends far from where it began (_local_centroids).               *)
Lost == -1

Centroids(catalogue) == [i \in DOMAIN catalogue |-> [x |-> catalogue[i].core]]

(* How far two models put the ends of the frame apart, to a full pixel.    *)
EndsMove(m, n) ==
  \E x \in {0, FullPixel(FrameWidth)} :
    Distance(Rint(m.a * x + m.b, m.d), Rint(n.a * x + n.b, n.d)) > EndDelta

Spans(cores, indices) ==
  \E i, j \in indices :
    100 * (cores[i].x - cores[j].x) >= FullSpan * FullPixel(FrameWidth)

(* A mutant: only a shrinking is implausible. *)
GateReasonsBelowOnly(from, to, common, inliers, coarse, m) ==
  {reason \in {"INLIER_RATIO_LOW", "SPATIAL_SPAN_LOW", "LINEAR_SCALE_IMPLAUSIBLE",
               "CORNER_DELTA_HIGH"} :
     CASE reason = "INLIER_RATIO_LOW" ->
            100 * Cardinality(inliers) < FullRatio * Cardinality(common)
       [] reason = "SPATIAL_SPAN_LOW" ->
            ~Spans(from, {e[1] : e \in inliers}) \/ ~Spans(to, {e[2] : e \in inliers})
       [] reason = "LINEAR_SCALE_IMPLAUSIBLE" ->
            100 * (m.d - Distance(m.a, 0)) > ScaleDeviation * m.d
       [] reason = "CORNER_DELTA_HIGH" -> EndsMove(m, coarse)}

GateReasons(from, to, common, inliers, coarse, m) ==
  {reason \in {"INLIER_RATIO_LOW", "SPATIAL_SPAN_LOW", "LINEAR_SCALE_IMPLAUSIBLE",
               "CORNER_DELTA_HIGH"} :
     CASE reason = "INLIER_RATIO_LOW" ->
            100 * Cardinality(inliers) < FullRatio * Cardinality(common)
       [] reason = "SPATIAL_SPAN_LOW" ->
            ~Spans(from, {e[1] : e \in inliers}) \/ ~Spans(to, {e[2] : e \in inliers})
       [] reason = "LINEAR_SCALE_IMPLAUSIBLE" ->
            100 * Distance(Distance(m.a, 0), m.d) > ScaleDeviation * m.d
       [] reason = "CORNER_DELTA_HIGH" -> EndsMove(m, coarse)}

(* A refinement that is not accepted leaves the lifted estimate. *)
RefinementsOf(from, to, pairs, common, coarse, lifted) ==
  LET kept(reason) == [status |-> reason, preview |-> coarse, full |-> lifted]
      judged(model, inliers) ==
        IF Cardinality(inliers) < FewMatches THEN kept("FINAL_INLIERS_INSUFFICIENT")
        ELSE IF GateReasons(from, to, common, inliers, lifted, model) # {}
          THEN kept("FULL_MODEL_GATE_FAILED")
        ELSE [status |-> "ACCEPTED", preview |-> Lower(model), full |-> model]
      tried(model) == judged(model, Inliers(from, to, model, common, FullThreshold))
      fitted(r, m) == tried(IF m = NoModel THEN r.model ELSE m)
      refined(r) == IF Cardinality(r.inliers) < FewMatches THEN kept("RANSAC_INLIERS_INSUFFICIENT")
                    ELSE fitted(r, Fit(from, to, r.inliers))
      all(best) == IF best = {} THEN {kept("RANSAC_FAILED")} ELSE {refined(r) : r \in best}
  IN IF Cardinality(pairs) < FewMatches THEN {kept("PREVIEW_MATCHES_INSUFFICIENT")}
     ELSE IF Cardinality(common) < FewMatches THEN {kept("FULL_CENTROIDS_INSUFFICIENT")}
     ELSE all(Ransac(from, to, common, FullThreshold))

Refinements(source, target, coarse) ==
  LET visible(pairs) == {e \in pairs : source[e[1]].core # Lost /\ target[e[2]].core # Lost}
      with(pairs) == RefinementsOf(Centroids(source), Centroids(target), pairs, visible(pairs),
                                   coarse, Lift(coarse))
  IN with(Matches(source, target, coarse))

-----------------------------------------------------------------------------
(* A field: three catalogues, of a source, of an earlier frame of its      *)
(* filter and of the reference.                                            *)
Transforms(field) ==
  LET source == Detect(field.source)
      target == Detect(field.reference)
      accepted == {e \in Estimates(source, Detect(field.earlier), target) :
                     Acceptable(source, target, e)}
  IN UNION {Refinements(source, target, e.model) : e \in accepted}

(* field.place[star] is where the reference has or would have a star, in   *)
(* full pixels, field.seen[star] where the source has it.                  *)
TransformsAreTrue(field) ==
  \A t \in {u \in Transforms(field) : u.status = "ACCEPTED"} :
    /\ t.full = Lift(t.preview)
    /\ \A star \in DOMAIN field.place :
         Distance(t.full.a * field.seen[star] + t.full.b, t.full.d * field.place[star])
           <= Binning * MatchRadius * t.full.d
=============================================================================
