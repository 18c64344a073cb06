--------------------------- MODULE MCMosaicProject ---------------------------
(* Nights of three panels.  Three of them succeed: panels in a row, three  *)
(* that all overlap, and a row whose last overlap has no star.  On each    *)
(* other one some stage refuses.                                           *)
EXTENDS MosaicProject

Light(k, lo, hi, filter) ==
  [key |-> k, lo |-> lo, hi |-> hi, parity |-> 1, scale |-> 1, filter |-> filter,
   weight |-> 1, readable |-> TRUE, solves |-> TRUE]

(* Two Lights of each filter; the second one reaches a little less far. *)
Panel(k, lo, hi) ==
  <<Light(k, lo, hi, "h"), Light(k, lo + 1, hi, "h"), Light(k, lo, hi, "r"), Light(k, lo, hi - 1, "r")>>

(* A panel whose Lights carry other values in one field. *)
With(panel, field, value) == [i \in DOMAIN panel |-> [panel[i] EXCEPT ![field] = value]]

Pairs == {{j, k} : <<j, k>> \in {p \in Targets \X Targets : p[1] < p[2]}}
Quiet == [ratio |-> [p \in Pairs |-> 0], level |-> [p \in Pairs |-> 0]]
Off(pair, by) == [Quiet EXCEPT !.ratio[pair] = by]
Same(x) == [f \in {"h", "r"} |-> x]

RowStars == {2, 5, 12, 14, 18, 21, 23, 27, 30}
Row ==
  [lights |-> <<Panel(1, 0, 17), Panel(2, 9, 26), Panel(3, 18, 35)>>,
   catalog |-> <<{{2, 5, 12}, {12, 14, 18, 21, 23, 27, 30}}>>,
   stars |-> [c \in RowStars |-> IF c = 12 THEN 9 ELSE IF c = 21 THEN 8 ELSE 4],
   galaxy |-> Same(5 .. 7),
   seen |-> <<{2, 5, 12, 14}, {12, 14, 18, 21, 23}, {18, 21, 23, 27, 30}>>,
   guess |-> <<0, 1, -1>>,
   gain |-> [h |-> <<0, 1, 2>>, r |-> <<1, 0, 1>>],
   level |-> [h |-> <<0, 1, -1>>, r |-> <<0, 0, 1>>],
   fwhm |-> <<1, 1, 1>>, exposure |-> <<0, 0, 0>>, drizzled |-> FALSE,
   noise |-> Same(Quiet), verifier |-> [present |-> TRUE, broken |-> {}]]

(* Bright stars whose footprints overlap, and one whose ramp reaches into  *)
(* theirs; the survey cannot read the Light it tries first of panel 1, and *)
(* panel 2 lies the other way round.                                       *)
PileStars == {2, 5, 10, 14, 21, 23, 26}
Pile ==
  [Row EXCEPT !.lights = <<[Panel(1, 0, 20) EXCEPT ![3].readable = FALSE],
                           With(Panel(2, 4, 24), "parity", -1), Panel(3, 8, 28)>>,
              !.catalog = <<{{2}, {23}}, {{2, 5, 10}, {10, 14, 21, 23, 26}}>>,
              !.stars = [c \in PileStars |-> IF c \in {10, 14, 21} THEN 9 ELSE 3],
              !.seen = <<{2, 5, 10, 14}, {5, 10, 14, 21, 23}, {10, 14, 21, 23, 26}>>]

(* Drizzled, mirrored, and no star where panels 2 and 3 overlap. *)
SplitStars == {2, 5, 12, 14, 27, 30, 33}
Split ==
  [Row EXCEPT !.lights = <<With(Panel(1, 0, 17), "parity", -1), With(Panel(2, 9, 26), "parity", -1),
                           With(Panel(3, 18, 35), "parity", -1)>>,
              !.catalog = <<{SplitStars \cup {20}}>>,
              !.stars = [c \in SplitStars |-> IF c = 12 THEN 9 ELSE 4],
              !.seen = <<{2, 5, 12, 14}, {12, 14, 20}, {20, 27, 30, 33}>>,
              !.fwhm = <<1, 2, 1>>, !.drizzled = TRUE]

Sparse == [Row EXCEPT !.catalog = <<{{2, 5, 12, 14}}>>]

MCSky ==
  [row    |-> Row,
   pile   |-> Pile,
   split  |-> Split,
   \* the survey and the plan
   unsolved     |-> [Row EXCEPT !.lights[2] = With(@, "solves", FALSE)],
   uncatalogued |-> [Row EXCEPT !.catalog = <<>>],
   sparse       |-> Sparse,
   empty        |-> [Row EXCEPT !.lights[3] = With(@, "scale", 0)],
   wide         |-> [Row EXCEPT !.lights[3] = Panel(3, 18, 90)],
   apart        |-> [Row EXCEPT !.lights[1] = Panel(1, 0, 15), !.lights[2] = Panel(2, 15, 26)],
   \* the placement
   misplaced |-> [Row EXCEPT !.guess[2] = 5],
   strained  |-> [Row EXCEPT !.seen[1] = {2, 6, 13, 15}],
   starless  |-> [Row EXCEPT !.seen[2] = {12}],
   \* the gates and the evidence
   hazy       |-> [Pile EXCEPT !.noise.h = Off({1, 3}, 3)],
   cloudy     |-> [Pile EXCEPT !.noise.r = Off({1, 3}, 6)],
   broken     |-> [Row EXCEPT !.verifier.broken = {2}],
   unverified |-> [Row EXCEPT !.verifier.present = FALSE]]

MCAlphabet == <<"h", "r">>
=============================================================================
