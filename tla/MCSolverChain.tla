---------------------------- MODULE MCSolverChain ----------------------------
(***************************************************************************)
(* The first filter meets solves of either adapter that differ from a good *)
(* one in a few respects; the other filters meet a good one, and one whose *)
(* RMS is too large.                                                       *)
(***************************************************************************)
EXTENDS SolverChain

(* Five sky positions no two of which are as far apart as two others. *)
Dense == [id |-> 1, smallest |-> 1, tile |-> FALSE, count |-> 5, stars |-> <<10, 11, 14, 16, 30>>]
Sparse == [id |-> 2, smallest |-> 4, tile |-> FALSE, count |-> 2, stars |-> <<10, 16>>]
Wide == [id |-> 3, smallest |-> 99, tile |-> FALSE, count |-> 9, stars |-> <<10, 11, 14, 16, 17>>]
Tile == [Wide EXCEPT !.id = 4, !.smallest = 0, !.tile = TRUE]

Header(place, determinant) ==
  [celestial |-> TRUE, reference |-> TRUE, numeric |-> TRUE, place |-> place,
   determinant |-> determinant]
Right == Header(10, 1)
Mirrored == Header(17, -1)

Row(index, header, odds, nmatch) ==
  [valid |-> TRUE, header |-> header, index |-> index, odds |-> odds, nmatch |-> nmatch,
   quads |-> 4, parity |-> header.determinant > 0]

Corr(field, star, x, p) == [field |-> field, star |-> star, x |-> x, p |-> p]
Pairs == <<Corr(1, 1, 0, 10), Corr(2, 2, 1, 11), Corr(3, 3, 4, 14), Corr(4, 4, 6, 16)>>

Good(tool) ==
  [backend |-> tool, hint |-> [pointing |-> TRUE, place |-> 13, radius |-> 2, field |-> 7],
   budget |-> 9, attempts |-> <<"marker">>, snapshot |-> TRUE, drift |-> "none",
   header |-> Right, copy |-> Right, match |-> <<Row(1, Right, 5, 4)>>, corr |-> Pairs,
   detected |-> <<6, 0, 4, 1>>, indexes |-> {Dense, Sparse}, left |-> "published"]

Net == Good("astrometry-net")
Astap == Good("astap")

(* One respect at a time, for both adapters. *)
Common ==
  UNION {
    {[s EXCEPT !.left = l] : l \in {"edited", "other", "nothing"}}
    \cup {[s EXCEPT !.drift = d] : d \in {"read", "bind"}}
    \cup {[s EXCEPT !.snapshot = FALSE], [s EXCEPT !.hint.place = 20], [s EXCEPT !.hint.field = 3],
          [s EXCEPT !.hint.radius = 0, !.hint.place = 22],
          [s EXCEPT !.header.numeric = FALSE], [s EXCEPT !.header.celestial = FALSE],
          [s EXCEPT !.header.reference = FALSE], [s EXCEPT !.header.determinant = 0],
          [s EXCEPT !.backend = "broken"]}
    \cup {[s EXCEPT !.attempts = a, !.budget = b] :
            a \in {<<"timeout", "marker">>, <<"spawn", "marker">>, <<"silent", "exit">>},
            b \in {4, 9}} : s \in {Net, Astap}}

NetSolves ==
  {[Net EXCEPT !.match = m] :
     m \in {<<Row(1, Right, 5, 3)>>, <<Row(1, Right, 3, 4), Row(2, Right, 5, 4)>>,
            <<Row(1, Header(11, 1), 9, 4)>>, <<Row(9, Right, 5, 4)>>,
            <<[Row(1, Right, 5, 4) EXCEPT !.quads = 2]>>,
            <<[Row(1, Right, 5, 4) EXCEPT !.valid = FALSE]>>,
            <<[Row(1, Right, 5, 4) EXCEPT !.parity = FALSE]>>}}
  \cup {[Net EXCEPT !.corr = c] :
     c \in {<<>>, Append(Pairs, Corr(5, 4, 6, 16)), Append(Pairs, Corr(4, 5, 6, 16)),
            [Pairs EXCEPT ![4] = Corr(4, 4, 12, 16)], [Pairs EXCEPT ![4] = Corr(4, 4, 6, 19)]}}
  \cup {[Net EXCEPT !.match = <<Row(1, Right, 5, 3)>>,
                    !.corr = [Pairs EXCEPT ![4] = Corr(4, 3, 6, 14)]],
        [Net EXCEPT !.copy = Header(11, 1)],
        [Net EXCEPT !.header = Mirrored, !.copy = Mirrored, !.match = <<Row(1, Mirrored, 5, 4)>>]}

(* <<6, 5, 7, 0>> has a tie and three detections for one star.             *)
AstapSolves ==
  {[Astap EXCEPT !.header = h, !.detected = d] :
     h \in {Right, Header(9, 2)}, d \in {<<6, 5, 7, 0>>, <<1, 3, 6, 7>>, <<2, 0>>}}
  \cup {[Astap EXCEPT !.header = Mirrored], [Astap EXCEPT !.header = Header(11, 1)],
        [Astap EXCEPT !.indexes = {Sparse, Wide}],
        [Astap EXCEPT !.indexes = {Tile, Sparse, Dense, Wide}]}

Rough == [Net EXCEPT !.corr = [Pairs EXCEPT ![4] = Corr(4, 4, 6, 19)]]

MCSolves ==
  [f \in Filters |->
     IF f = 1 THEN Common \cup NetSolves \cup AstapSolves
     ELSE IF f = 2 THEN {Net, Rough} ELSE {Astap}]
=============================================================================
