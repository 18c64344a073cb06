---------------------------- MODULE SolverEvidence ----------------------------
(***************************************************************************)
(* What makes a plate solve acceptable: the evidence the astrometry.net    *)
(* and ASTAP adapters compute (solvers/astrometry_net.py, solvers/astap.py *)
(* and solvers/catalog_correspondence.py), and the gates it must pass      *)
(* (solvers/base.py and _solve_one of workflows/solve.py).  Both adapters  *)
(* run with require_managed_catalog.                                       *)
(*                                                                         *)
(* The sky is a line of integer positions and an image a row of Width      *)
(* pixels.  A WCS header puts pixel x at place + determinant * x: the sign *)
(* of the determinant is the parity, its size the pixel scale.             *)
(*                                                                         *)
(* A solve is one call of a backend with what it met:                      *)
(*   backend    "astrometry-net", "astap", or "broken" (it raised or       *)
(*              returned something else than a SolverResult)               *)
(*   hint       [pointing, place, radius, field]: the request; field 0 and *)
(*              radius 0 stand for None                                    *)
(*   budget     the time limit                                             *)
(*   attempts   how each started process ended: "marker", "timeout",       *)
(*              "exit", "silent" (no marker) or "spawn"                    *)
(*   snapshot   whether the managed index set was captured before          *)
(*   drift      "none", "read" (an index changed before its stars were     *)
(*              read) or "bind" (before the set was compared again)        *)
(*   header     the WCS found, copy the one in the .new file               *)
(*   match      rows of the .match table, corr rows of the .corr table     *)
(*   detected   pixels of the stars on the image, brightest first          *)
(*   indexes    the index files: [id, smallest, tile, count, stars]        *)
(*   left       what lies at the output path: "published", "edited",       *)
(*              "other" (another WCS) or "nothing"                         *)
(***************************************************************************)
EXTENDS Integers, Sequences, FiniteSets

CONSTANTS
  Width,          \* pixels of a master
  MatchMinimum,   \* min_matches
  RmsLimit,       \* max_rms_arcsec
  MatchRadius,    \* the matching radius in pixels
  DefaultRadius,  \* 15 degrees, for a request without a radius
  FallbackTime,   \* minimum_fallback_seconds
  HintedCap       \* hinted_attempt_cap_seconds

ASSUME EvidenceAssumption ==
  /\ {Width, MatchMinimum} \subseteq Nat \ {0}
  /\ {RmsLimit, MatchRadius, DefaultRadius, FallbackTime, HintedCap} \subseteq Nat

(* The calls that can be made, their fields as described above. *)
Headers ==
  [celestial : BOOLEAN, reference : BOOLEAN, numeric : BOOLEAN, place : Int, determinant : Int]

MatchRecords ==
  [valid : BOOLEAN, header : Headers, index : Nat, odds : Int, nmatch : Int, quads : Int,
   parity : BOOLEAN]

CorrRecords == [field : Int, star : Int, x : Int, p : Int]

IndexFiles == [id : Nat, smallest : Nat, tile : BOOLEAN, count : Nat, stars : Seq(Int)]

Calls ==
  [backend : {"astrometry-net", "astap", "broken"},
   hint : [pointing : BOOLEAN, place : Int, radius : Nat, field : Nat],
   budget : Nat, attempts : Seq({"marker", "timeout", "exit", "silent", "spawn"}),
   snapshot : BOOLEAN, drift : {"none", "read", "bind"},
   header : Headers, copy : Headers, match : Seq(MatchRecords), corr : Seq(CorrRecords),
   detected : Seq(Int), indexes : SUBSET IndexFiles,
   left : {"published", "edited", "other", "nothing"}]

Size(n) == IF n < 0 THEN -n ELSE n
LeastOf(S) == CHOOSE n \in S : \A m \in S : n <= m

-----------------------------------------------------------------------------
(* The WCS. *)

(* validate_wcs_header: celestial axes, a complete reference, an image of  *)
(* at least 2 pixels, a regular linear transform and a numeric round trip. *)
WcsValid(h) ==
  h.celestial /\ h.reference /\ Width >= 2 /\ h.determinant # 0 /\ h.numeric

Positive(h) == h.determinant > 0

Sky(h, x) == h.place + h.determinant * x
Residual(h, x, p) == Size(p - Sky(h, x))

(* _wcs_agrees, and _wcs_headers_agree for the published file. *)
Agree(g, h) ==
  /\ WcsValid(g) /\ WcsValid(h)
  /\ \A x \in {0, Width - 1} : Sky(g, x) = Sky(h, x)

(* The sky position of the middle of the image, doubled. *)
Centre2(h) == 2 * h.place + h.determinant * (Width - 1)

InImage(h, p) == \E x \in 0..Width - 1 : Residual(h, x, p) * 2 <= Size(h.determinant)

-----------------------------------------------------------------------------
(* astrometry.net. *)

(* _solve_attempts: a hinted attempt and, when the budget allows one, an   *)
(* unconstrained one after it.                                             *)
Planned(s) ==
  IF (s.hint.pointing \/ s.hint.field > 0) /\ s.budget - LeastOf({HintedCap, s.budget}) >= FallbackTime
    THEN 2 ELSE 1

(* An attempt that found nothing is followed by the next of the plan; one  *)
(* whose process cannot be started or reaped ends the call.                *)
Confirmed(s) ==
  \E k \in DOMAIN s.attempts :
    /\ s.attempts[k] = "marker"
    /\ k <= (IF s.backend = "astap" THEN 1 ELSE Planned(s))
    /\ \A j \in 1..k - 1 : s.attempts[j] # "spawn"

(* _read_match_index_identity: of the valid rows that agree with the WCS   *)
(* the first with the highest odds.                                        *)
Candidates(s) == {i \in DOMAIN s.match : s.match[i].valid /\ Agree(s.match[i].header, s.header)}

Best(s) ==
  LeastOf({i \in Candidates(s) : \A j \in Candidates(s) : s.match[j].odds <= s.match[i].odds})

(* The parity marker of the row is TRUE for what is POSITIVE here. *)
MatchBound(s) ==
  /\ Candidates(s) # {}
  /\ s.match[Best(s)].nmatch >= 0 /\ s.match[Best(s)].quads >= 3
  /\ s.match[Best(s)].parity = Positive(s.header)

Usable(s) == {i \in DOMAIN s.corr : s.corr[i].x \in 0..Width + 1}

(* _read_correspondence_quality: in table order, each image star and each  *)
(* catalog star once.  KeptRows(s)[n] are the rows kept of the first n.    *)
NewTo(s, rows, n) ==
  n \in Usable(s) /\ \A j \in rows : /\ s.corr[j].field # s.corr[n].field
                                     /\ s.corr[j].star # s.corr[n].star

KeptRows(s) ==
  LET kept[n \in 0..Len(s.corr)] ==
        IF n = 0 THEN {}
        ELSE IF NewTo(s, kept[n - 1], n) THEN kept[n - 1] \cup {n} ELSE kept[n - 1]
  IN kept

CorrRows(s) == KeptRows(s)[Len(s.corr)]

(* solve, from the solved marker to the correspondences: the .wcs and .new *)
(* files must both be valid and agree, a match row must carry the same     *)
(* solution, and .corr must hold as many matches as that row counts.       *)
NetQuality(s) ==
  IF /\ WcsValid(s.header) /\ WcsValid(s.copy) /\ Agree(s.header, s.copy)
     /\ MatchBound(s) /\ CorrRows(s) # {}
     /\ Cardinality(CorrRows(s)) = s.match[Best(s)].nmatch
    THEN [index |-> s.match[Best(s)].index, pairs |-> {s.corr[i] : i \in CorrRows(s)}]
    ELSE [index |-> 0, pairs |-> {}]

-----------------------------------------------------------------------------
(* ASTAP, whose solutions are measured against the managed indexes. *)

(* read_index_stars, within 0.6 diagonals of the centre. *)
Near(s, ix) ==
  {j \in DOMAIN ix.stars :
     10 * Size(2 * ix.stars[j] - Centre2(s.header)) <= 12 * Width * Size(s.header.determinant)}

(* rank_indexes: indexes whose quads fit the field first, then the densest *)
(* by quad scale, the one with more stars, the lower number.               *)
FieldFits(s, ix) == ix.smallest < Width * Size(s.header.determinant)

Ranked(s, a, b) ==
  \/ FieldFits(s, a) /\ ~FieldFits(s, b)
  \/ /\ FieldFits(s, a) <=> FieldFits(s, b)
     /\ \/ a.smallest < b.smallest
        \/ a.smallest = b.smallest /\ a.count > b.count
        \/ a.smallest = b.smallest /\ a.count = b.count /\ a.id <= b.id

(* Tiles of an index take no part; the first index with enough stars near  *)
(* the field is the one measured against.                                  *)
Eligible(s) == {ix \in s.indexes : ~ix.tile /\ Cardinality(Near(s, ix)) >= 3}
Chosen(s) == CHOOSE ix \in Eligible(s) : \A other \in Eligible(s) : Ranked(s, ix, other)

(* match_mutual_nearest on the distances d of detections and the stars     *)
(* that fall into the image; on a tie the earlier row is the nearest.      *)
NearestStar(d, stars, i) ==
  LeastOf({j \in stars : \A k \in stars : d[i, j] <= d[i, k]})
NearestDetection(d, detections, j) ==
  LeastOf({i \in detections : \A k \in detections : d[i, j] <= d[k, j]})

(* Mutant: every detection takes its nearest star. *)
MutualNearestOneWay(d, detections, stars, radius) ==
  {m \in detections \X stars : m[2] = NearestStar(d, stars, m[1]) /\ d[m] <= radius}

MutualNearest(d, detections, stars, radius) ==
  {m \in detections \X stars :
     /\ m[2] = NearestStar(d, stars, m[1])
     /\ m[1] = NearestDetection(d, detections, m[2])
     /\ d[m] <= radius}

(* The correspondences of the chosen index. *)
Measured(s, ix) ==
  LET stars      == {j \in Near(s, ix) : InImage(s.header, ix.stars[j])}
      detections == DOMAIN s.detected
      d          == [m \in detections \X stars |->
                       Residual(s.header, s.detected[m[1]], ix.stars[m[2]])]
      radius     == MatchRadius * Size(s.header.determinant)
  IN {[field |-> m[1], star |-> m[2], x |-> s.detected[m[1]], p |-> ix.stars[m[2]]] :
        m \in MutualNearest(d, detections, stars, radius)}

(* verify_solution, called only with a snapshot of the managed set and     *)
(* refused when an index is no longer the file of the snapshot.            *)
AstapQuality(s) ==
  IF /\ WcsValid(s.header) /\ s.snapshot /\ s.drift # "read"
     /\ Eligible(s) # {} /\ Len(s.detected) >= 3
    THEN LET pairs == Measured(s, Chosen(s)) IN
         IF Cardinality(pairs) >= 3 THEN [index |-> Chosen(s).id, pairs |-> pairs]
                                    ELSE [index |-> 0, pairs |-> {}]
    ELSE [index |-> 0, pairs |-> {}]

-----------------------------------------------------------------------------
(* The gates of _solve_one. *)

Quality(s) == IF s.backend = "astap" THEN AstapQuality(s) ELSE NetQuality(s)

(* bind_installed_set, and the same steps in the astrometry.net adapter:   *)
(* the index must be in the captured set, and the set the same as before.  *)
Bound(s, index) ==
  /\ s.snapshot /\ s.drift = "none"
  /\ \E ix \in s.indexes : ix.id = index

(* The adapter returned SOLVED: a confirmed process, a valid WCS and       *)
(* correspondences bound to the managed set.                               *)
Solved(s) ==
  /\ s.backend # "broken" /\ Confirmed(s) /\ WcsValid(s.header)
  /\ LET q == Quality(s) IN q.pairs # {} /\ Bound(s, q.index)

SquareSum(h, pairs) ==
  LET sum[S \in SUBSET pairs] ==
        IF S = {} THEN 0
        ELSE LET r == CHOOSE r \in S : TRUE
             IN Residual(h, r.x, r.p) * Residual(h, r.x, r.p) + sum[S \ {r}]
  IN sum[pairs]

(* The RMS of the pairs is at most tenths/10 of the limit. *)
RmsWithin(s, pairs, tenths) ==
  100 * SquareSum(s.header, pairs) <= tenths * tenths * RmsLimit * RmsLimit * Cardinality(pairs)

(* _validate_solution_against_hints: the centre within the search radius,  *)
(* the width of the field and its scale within 0.7 to 1.3 of the hint.     *)
HintsHold(s) ==
  /\ s.hint.pointing =>
       Size(Centre2(s.header) - 2 * s.hint.place) <=
         2 * (IF s.hint.radius > 0 THEN s.hint.radius ELSE DefaultRadius)
  /\ s.hint.field > 0 =>
       LET width == Size(s.header.determinant) * (Width - 1) IN
         7 * s.hint.field <= 10 * width /\ 10 * width <= 13 * s.hint.field

(* The gates a solve missed.  A solve without sufficient evidence is not   *)
(* asked for its RMS; hints are compared also when only the RMS was too    *)
(* large; the receipt must describe the file at the path, which must       *)
(* carry the WCS returned.                                                 *)
MissedGates(s) ==
  LET solved == Solved(s)
      pairs  == IF solved THEN Quality(s).pairs ELSE {}
      enough == Cardinality(pairs) >= MatchMinimum
  IN (IF solved /\ enough /\ HintsHold(s) THEN {} ELSE {"evidence"})
     \cup (IF enough /\ ~RmsWithin(s, pairs, 10) THEN {"rms"} ELSE {})
     \cup (IF solved /\ s.left \in {"published", "other"} THEN {} ELSE {"verified"})
     \cup (IF s.left = "published" THEN {} ELSE {"output"})

(* An RMS of up to 1.5 times the limit may seed the catalog refit. *)
SeedWithin(s) == RmsWithin(s, Quality(s).pairs, 15)

-----------------------------------------------------------------------------
(* What an accepted solve may be relied on for, whatever table, file or    *)
(* tie the adapter met: at least MatchMinimum stars of the image are       *)
(* paired one to one with stars of an index that was the same before and   *)
(* after, their RMS under the WCS in the published file is within the      *)
(* limit, and some point of the image, counted in half pixels, lies within *)
(* the radius the request asked for.                                       *)
Trustworthy(s) ==
  LET pairs == Quality(s).pairs IN
  /\ \A a, b \in pairs : a.field = b.field \/ a.star = b.star => a = b
  /\ Cardinality(pairs) >= MatchMinimum
  /\ RmsWithin(s, pairs, 10)
  /\ s.backend = "astrometry-net" =>
       \E i \in Candidates(s) :
         s.match[i].index = Quality(s).index /\ s.match[i].parity = Positive(s.header)
  /\ s.snapshot /\ s.drift = "none" /\ s.left = "published"
  /\ s.hint.pointing /\ s.hint.radius > 0 =>
       \E half \in 0..2 * (Width - 1) :
         Size((2 * s.header.place + s.header.determinant * half) - 2 * s.hint.place)
           <= 2 * s.hint.radius
=============================================================================
