---------------------------- MODULE RejectionKernel ----------------------------
(***************************************************************************)
(* Which samples of a band of rows enter the mean of its pixels.  The      *)
(* decision is written twice: a NumPy reference (stacking/integration.py)  *)
(* and a multithreaded kernel (native/src/PortableKernels.cpp).            *)
(*                                                                         *)
(* A band is a sequence of pixels, row after row, and a pixel a function   *)
(* from the frames with a finite sample there to its value.  A median is   *)
(* kept doubled: centres are in halves of a value, a median absolute       *)
(* deviation (MAD) in quarters, the median of several of them in eighths.  *)
(* Thresholds are compared squared, and the factor 1.4826 that makes a     *)
(* sigma of a MAD is part of SigmaClip.                                    *)
(*                                                                         *)
(* A scale model says how the sigma of a pixel is found:                   *)
(*   frames    how many frames are stacked                                 *)
(*   noise     the noise of each in eighths, 0 when not measured           *)
(*   half      rejection_pool_half_width                                   *)
(*   scaling   rejection_frame_noise_scaling                               *)
(*   sampled   the pixels of the coarse grid that estimate the group floor *)
(***************************************************************************)
EXTENDS Integers, Sequences, FiniteSets, SequencesExt

CONSTANTS
  RowWidth,       \* pixels in a row
  SigmaClip,      \* sigma_clip
  MinimumFrames,  \* minimum_rejection_frames
  FloorDivisor,   \* the group floor is the sampled sigma divided by this
  AbsoluteFloor   \* REJECTION_FLOOR_ABSOLUTE

Magnitude(v) == IF v < 0 THEN -v ELSE v
Upper(values) == Max(values)

Median(values) ==
  LET sorted == SortSeq(values, <)
      half == Len(values) \div 2
  IN IF Len(values) % 2 = 1 THEN 2 * sorted[half + 1] ELSE sorted[half] + sorted[half + 1]

Samples(pixel) ==
  LET frames == SetToSeq(DOMAIN pixel) IN [i \in DOMAIN frames |-> pixel[frames[i]]]

Enough(pixel) == Cardinality(DOMAIN pixel) >= MinimumFrames

-----------------------------------------------------------------------------
(* The reference.  Only pixels with enough samples have a MAD; NoMad is    *)
(* the NaN of the others.                                                  *)
NoMad == -1

Center(pixel) == Median(Samples(pixel))

Mad(pixel) ==
  LET values == Samples(pixel)
      center == Median(values)
  IN Median([i \in DOMAIN values |-> Magnitude(2 * values[i] - center)])

Mads(band) == [x \in DOMAIN band |-> IF Enough(band[x]) THEN Mad(band[x]) ELSE NoMad]

(* The MADs above a bound at some pixels, as a sequence.                   *)
Above(mads, pixels, bound) ==
  SelectSeq([x \in DOMAIN mads |-> IF x \in pixels THEN mads[x] ELSE NoMad], LAMBDA m : m > bound)

(* _estimate_rejection_sigma_floor: 0 stands for no usable sigma. *)
MixtureSigma(mads, model) ==
  LET usable == Above(mads, model.sampled, 0)
  IN IF model.frames < MinimumFrames \/ usable = <<>> THEN 0 ELSE Median(usable)

(* _rejection_frame_scales: fractions, never below 1. *)
FrameScales(mixture, model) ==
  [f \in 1..model.frames |->
     IF model.scaling /\ mixture # 0 /\ model.noise[f] # 0
     THEN <<Upper({model.noise[f], mixture}), mixture>> ELSE <<1, 1>>]

UsesScaleModel(scales, model) ==
  model.half > 0 \/ \E f \in DOMAIN scales : scales[f][1] # scales[f][2]

(* _pooled_row_mad: the window is clipped to the row.                      *)
PooledRowMad(mads, x, half) ==
  Median(Above(mads, {y \in DOMAIN mads : /\ (x - 1) \div RowWidth = (y - 1) \div RowWidth
                                          /\ Magnitude(x - y) <= half}, NoMad))

(* The noise of the pooled window, scaled to the frame, and the variance   *)
(* of the pixel beyond it; the larger of this and the floors.              *)
WithinSigma(value, center, mad, pooled, scale, mixture) ==
  LET deviation == 4 * Magnitude(2 * value - center)
      excess == Upper({4 * mad * mad - pooled * pooled, 0})
      floor == Upper({mixture, AbsoluteFloor})
  IN \/ FloorDivisor * deviation <= SigmaClip * floor
     \/ scale[2] * scale[2] * deviation * deviation
          <= SigmaClip * SigmaClip * (scale[1] * scale[1] * pooled * pooled + scale[2] * scale[2] * excess)

(* _ordinary_mad_rejection_decision and _effective_rejection_sigma: the    *)
(* frames accepted at every pixel, when each is judged by its own MAD      *)
(* (pooling FALSE, the first scale model) or by that of its window.        *)
ReferenceDecision(band, model, pooling) ==
  LET mads == Mads(band)
      mixture == MixtureSigma(mads, model)
      scales == FrameScales(mixture, model)
      pooled == pooling /\ UsesScaleModel(scales, model)
      accepted(x) ==
        LET center == Center(band[x])
            pool == IF pooled THEN PooledRowMad(mads, x, model.half) ELSE 2 * mads[x]
        IN {f \in DOMAIN band[x] :
              WithinSigma(band[x][f], center, mads[x], pool, IF pooled THEN scales[f] ELSE <<1, 1>>,
                          mixture)}
  IN [x \in DOMAIN band |->
        IF model.frames < MinimumFrames \/ mads[x] = NoMad THEN DOMAIN band[x] ELSE accepted(x)]

-----------------------------------------------------------------------------
(* The kernel.  SortedMadOfFinite merges the deviations below and above    *)
(* the centre, which both grow away from it.                               *)
SortedMad(pixel) ==
  LET sorted == SortSeq(Samples(pixel), <)
      count == Len(sorted)
      center == Median(sorted)
      below == Cardinality({i \in 1..count : 2 * sorted[i] < center})
      at(i) == Magnitude(2 * sorted[i] - center)
      take(s, k) ==
        IF s.left >= 1 /\ (s.right > count \/ at(s.left) <= at(s.right))
        THEN [s EXCEPT !.left = s.left - 1, !.previous = s.current, !.current = at(s.left)]
        ELSE [s EXCEPT !.right = s.right + 1, !.previous = s.current, !.current = at(s.right)]
      last == FoldLeft(take, [left |-> below, right |-> below + 1, previous |-> 0, current |-> 0],
                       [k \in 1..(count \div 2 + 1) |-> k])
  IN IF count % 2 = 1 THEN 2 * last.current ELSE last.previous + last.current

(* PooledMadWindow: the sorted MADs of a window that moves along a row.    *)
(* Columns count from 0.                                                   *)
MadMap(band) == [x \in DOMAIN band |-> IF Enough(band[x]) THEN SortedMad(band[x]) ELSE NoMad]

Enter(sorted, mad) == IF mad = NoMad THEN sorted ELSE SortSeq(Append(sorted, mad), <)

Withdraw(sorted, mad) ==
  IF mad = NoMad THEN sorted
  ELSE RemoveAt(sorted, CHOOSE i \in DOMAIN sorted :
                          sorted[i] >= mad /\ \A j \in 1..(i - 1) : sorted[j] < mad)

NoWindow == [row |-> -1, x |-> 0, sorted |-> <<>>]

Rebuild(mads, row, x, half) ==
  LET columns == Upper({0, x - half})..(IF x + half < RowWidth THEN x + half ELSE RowWidth - 1)
      held == SelectSeq([c \in 1..RowWidth |-> IF c - 1 \in columns THEN mads[row + c] ELSE NoMad],
                        LAMBDA m : m # NoMad)
  IN [row |-> row, x |-> x, sorted |-> SortSeq(held, <)]

(* One column on.  First the mutant: the column that leaves is kept when   *)
(* it is the first of the row.                                             *)
StepKeepingFirst(mads, w, half) ==
  LET left == IF w.x > half THEN Withdraw(w.sorted, mads[w.row + w.x - half + 1]) ELSE w.sorted
  IN [w EXCEPT !.x = w.x + 1,
               !.sorted = IF w.x + 1 + half < RowWidth
                          THEN Enter(left, mads[w.row + w.x + half + 2]) ELSE left]

Step(mads, w, half) ==
  LET left == IF w.x >= half THEN Withdraw(w.sorted, mads[w.row + w.x - half + 1]) ELSE w.sorted
  IN [w EXCEPT !.x = w.x + 1,
               !.sorted = IF w.x + 1 + half < RowWidth
                          THEN Enter(left, mads[w.row + w.x + half + 2]) ELSE left]

WindowAt(mads, w, pixel, half) ==
  LET x == (pixel - 1) % RowWidth
      row == pixel - 1 - x
  IN IF row # w.row \/ x < w.x \/ x - w.x > half THEN Rebuild(mads, row, x, half)
     ELSE FoldLeft(LAMBDA s, k : Step(mads, s, half), w, [k \in 1..(x - w.x) |-> k])

(* ParallelRange: the pixels are claimed in chunks of grain pixels, whose  *)
(* window starts anew and stays where it is at a pixel without a MAD.      *)
PooledMads(mads, half, grain) ==
  LET visit(s, pixel) ==
        IF mads[pixel] = NoMad THEN s
        ELSE LET fresh == IF (s.last \div grain) = (pixel - 1) \div grain THEN s.window ELSE NoWindow
                 w == WindowAt(mads, fresh, pixel, half)
             IN [window |-> w, last |-> pixel - 1,
                 pooled |-> [s.pooled EXCEPT ![pixel] = Median(w.sorted)]]
  IN FoldLeft(visit, [window |-> NoWindow, last |-> 0, pooled |-> [x \in DOMAIN mads |-> NoMad]],
              [x \in DOMAIN mads |-> x]).pooled

(* MadRejectionMask and ScaledRejectionDecisions. *)
KernelDecision(band, model, grain) ==
  LET mads == MadMap(band)
      mixture == MixtureSigma(mads, model)
      scales == FrameScales(mixture, model)
      scaled == UsesScaleModel(scales, model)
      pools == IF scaled THEN PooledMads(mads, model.half, grain) ELSE [x \in DOMAIN mads |-> 2 * mads[x]]
      accepted(x) ==
        LET center == Median(Samples(band[x]))
        IN {f \in DOMAIN band[x] :
              WithinSigma(band[x][f], center, mads[x], pools[x], scales[f], mixture)}
  IN [x \in DOMAIN band |->
        IF model.frames < MinimumFrames \/ mads[x] = NoMad THEN DOMAIN band[x] ELSE accepted(x)]

(* The kernel in any chunks decides as the reference, and the pooled model *)
(* rejects nothing the first one accepts.                                  *)
SameDecisions(band, model, grains) ==
  LET reference == ReferenceDecision(band, model, TRUE)
      first == ReferenceDecision(band, model, FALSE)
  IN /\ \A grain \in grains : KernelDecision(band, model, grain) = reference
     /\ \A x \in DOMAIN band : first[x] \subseteq reference[x]
=============================================================================
