------------------------------ MODULE CommonCrop ------------------------------
(***************************************************************************)
(* The rectangle of pixels every registered frame covers (stacking/         *)
(* crop.py).  A footprint is a sequence of rows, each the run [first, last] *)
(* of its valid columns, empty when last < first; columns count from 0.    *)
(* A rectangle is <<area, top, left, bottom, right>>, the last two          *)
(* exclusive, and of two rectangles the lexicographically larger wins.     *)
(***************************************************************************)
EXTENDS Integers, Sequences, FiniteSets, SequencesExt

CONSTANT Width

ASSUME CropAssumption == Width \in Nat \ {0}

NoRectangle == <<0, 0, 0, 0, 0>>

Larger(r, s) == \E i \in DOMAIN r : r[i] > s[i] /\ \A j \in 1..(i - 1) : r[j] = s[j]
LargestOf(rectangles) == CHOOSE r \in rectangles : \A s \in rectangles : ~Larger(s, r)

(* histogram_rectangle.  heights[x + 1] is the number of valid rows that    *)
(* end in this row at column x; the columns where it changes are visited   *)
(* with a stack of <<left, height>> of rising heights.  A visit takes the   *)
(* higher bars off the stack and ends their rectangles.                    *)
(* Mutant: a lower bar starts where it was met, not where the bars it      *)
(* ended had started.                                                      *)
VisitFromHere(state, x, height, row) ==
  LET kept == Max({0} \cup {i \in DOMAIN state.stack : state.stack[i][2] <= height})
      popped == {state.stack[i] : i \in (kept + 1)..Len(state.stack)}
      rest == SubSeq(state.stack, 1, kept)
  IN [best  |-> LargestOf({state.best} \cup
                        {<<p[2] * (x - p[1]), row - p[2] + 1, p[1], row + 1, x>> : p \in popped}),
      stack |-> IF height > 0 /\ (kept = 0 \/ state.stack[kept][2] < height)
                THEN Append(rest, <<x, height>>) ELSE rest]

Visit(state, x, height, row) ==
  LET kept == Max({0} \cup {i \in DOMAIN state.stack : state.stack[i][2] <= height})
      popped == {state.stack[i] : i \in (kept + 1)..Len(state.stack)}
      rest == SubSeq(state.stack, 1, kept)
      start == IF kept = Len(state.stack) THEN x ELSE state.stack[kept + 1][1]
  IN [best  |-> LargestOf({state.best} \cup
                        {<<p[2] * (x - p[1]), row - p[2] + 1, p[1], row + 1, x>> : p \in popped}),
      stack |-> IF height > 0 /\ (kept = 0 \/ state.stack[kept][2] < height)
                THEN Append(rest, <<start, height>>) ELSE rest]

Boundary(heights, x) == x \in {0, Width} \/ heights[x + 1] # heights[x]
Level(heights, x) == IF x = Width THEN 0 ELSE heights[x + 1]

(* The state after the columns up to x. *)
Scan(heights, row) ==
  LET scan[x \in 0..Width] ==
        LET before == IF x = 0 THEN [best |-> NoRectangle, stack |-> <<>>] ELSE scan[x - 1]
        IN IF Boundary(heights, x) THEN Visit(before, x, Level(heights, x), row) ELSE before
  IN scan

HistogramRectangle(heights, row) == Scan(heights, row)[Width].best

(* _common_valid_crop: the runs of the frames are intersected row by row.  *)
CommonRun(footprints, y) ==
  [first |-> Max({0} \cup {p[y][1] : p \in footprints}),
   last  |-> Min({Width - 1} \cup {p[y][2] : p \in footprints})]

NextHeights(heights, run) ==
  [c \in 1..Width |-> IF run.first + 1 <= c /\ c <= run.last + 1 THEN heights[c] + 1 ELSE 0]

(* The heights and the best rectangle after the first y rows. *)
Rows(footprints, height) ==
  LET rows[y \in 0..height] ==
        IF y = 0 THEN [heights |-> [c \in 1..Width |-> 0], best |-> NoRectangle]
        ELSE LET before == rows[y - 1]
                 heights == NextHeights(before.heights, CommonRun(footprints, y))
             IN [heights |-> heights,
                 best    |-> LargestOf({before.best, HistogramRectangle(heights, y - 1)})]
  IN rows

CommonValidCrop(footprints, height) == Rows(footprints, height)[height].best

(* What it should be: of the rectangles whose pixels are valid in every    *)
(* frame, the largest.                                                     *)
Covered(footprints, r) ==
  \A p \in footprints : \A y \in (r[2] + 1)..r[4] : p[y][1] <= r[3] /\ r[5] - 1 <= p[y][2]

Rectangles(height) ==
  {<<(s[3] - s[1]) * (s[4] - s[2]), s[1], s[2], s[3], s[4]>> :
     s \in {t \in (0..height) \X (0..Width) \X (0..height) \X (0..Width) :
             t[1] < t[3] /\ t[2] < t[4]}}

LargestCovered(footprints, height) ==
  LargestOf({NoRectangle} \cup {r \in Rectangles(height) : Covered(footprints, r)})

(* _shared_auto_crop: the rectangles of the filters are intersected.       *)
SharedCrop(crops) ==
  LET top == Max({r[2] : r \in crops})    left  == Max({r[3] : r \in crops})
      bottom == Min({r[4] : r \in crops}) right == Min({r[5] : r \in crops})
  IN IF NoRectangle \in crops \/ bottom <= top \/ right <= left THEN NoRectangle
     ELSE <<(bottom - top) * (right - left), top, left, bottom, right>>
=============================================================================
