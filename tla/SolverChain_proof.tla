-------------------------- MODULE SolverChain_proof --------------------------
(***************************************************************************)
(* Safety of SolverChain for every number of filters, backends and         *)
(* workers, and every call a backend may answer.                           *)
(***************************************************************************)
EXTENDS SolverChain, WellFoundedInduction, TLAPS

-----------------------------------------------------------------------------
(* Induction over the natural numbers. *)

(* A set of natural numbers has a least one. *)
LEMMA LeastNumber ==
  ASSUME NEW T \in SUBSET Nat, T # {} PROVE \E x \in T : \A y \in T : x <= y
<1> DEFINE R == {ss \in Nat \X Nat : ss[1] < ss[2]}
<1>1. IsWellFoundedOn(R, Nat)
  BY NatLessThanWellFounded DEF OpToRel
<1>2. PICK x \in T : \A y \in T : ~(<<y, x>> \in R)
  <2> HIDE DEF R
  <2> QED
    BY <1>1, WFMin, Zenon
<1>3. ASSUME NEW y \in T PROVE x <= y
  <2>1. x \in Nat /\ y \in Nat /\ <<y, x>> \in Nat \X Nat
    OBVIOUS
  <2>2. ~(y < x)
    BY <1>2, <2>1
  <2> QED
    BY <2>1, <2>2
<1> QED
  BY <1>3

(* Induction over a predicate that is a function. *)
LEMMA Induction ==
  ASSUME NEW P, P[0], \A n \in Nat : P[n] => P[n + 1] PROVE \A n \in Nat : P[n]
<1> DEFINE T == {n \in Nat : ~P[n]}
<1> SUFFICES ASSUME T # {} PROVE FALSE
  OBVIOUS
<1>1. T \in SUBSET Nat
  OBVIOUS
<1> HIDE DEF T
<1>2. PICK x \in T : \A y \in T : x <= y
  BY <1>1, LeastNumber
<1>3. x \in Nat /\ ~P[x]
  BY DEF T
<1>4. x # 0
  BY <1>3
<1>5. x - 1 \in Nat /\ x = (x - 1) + 1 /\ ~(x <= x - 1)
  BY <1>3, <1>4
<1>6. P[x - 1]
  BY <1>2, <1>5 DEF T
<1> QED
  BY <1>3, <1>5, <1>6

(* _read_correspondence_quality: the rows kept of the first n are those of *)
(* the first n - 1 and the n-th if it is new to them.                 *)
LEMMA KeptRowsStep ==
  ASSUME NEW s, Len(s.corr) \in Nat
  PROVE  /\ KeptRows(s)[0] = {}
         /\ \A n \in 1..Len(s.corr) :
              KeptRows(s)[n] = IF NewTo(s, KeptRows(s)[n - 1], n)
                                 THEN KeptRows(s)[n - 1] \cup {n} ELSE KeptRows(s)[n - 1]
<1> DEFINE N == Len(s.corr)
           Body(g, n) == IF n = 0 THEN {}
                         ELSE IF NewTo(s, g[n - 1], n) THEN g[n - 1] \cup {n} ELSE g[n - 1]
           Upto(k) == \E g : g = [n \in 0..k |-> Body(g, n)]
           P == [k \in Nat |-> Upto(k)]
<1>k. KeptRows(s) = CHOOSE g : g = [n \in 0..N |-> Body(g, n)]
  BY DEF KeptRows
<1>1. P[0]
  <2> DEFINE g == [n \in 0..0 |-> {}]
  <2>1. g = [n \in 0..0 |-> Body(g, n)]
    OBVIOUS
  <2> QED
    BY <2>1
<1>2. ASSUME NEW k \in Nat, P[k] PROVE P[k + 1]
  <2>1. PICK g : g = [n \in 0..k |-> Body(g, n)]
    BY <1>2
  <2> DEFINE h == [n \in 0..k + 1 |-> IF n <= k THEN g[n] ELSE Body(g, k + 1)]
  <2> HIDE DEF Body
  <2>2. ASSUME NEW n \in 0..k + 1 PROVE h[n] = Body(h, n)
    <3>1. CASE n = 0
      <4>1. h[0] = g[0] /\ g[0] = Body(g, 0)
        BY <2>1
      <4> QED
        BY <3>1, <4>1 DEF Body
    <3>2. CASE n # 0
      <4>1. n - 1 \in 0..k /\ n - 1 \in 0..k + 1 /\ n - 1 <= k
        BY <3>2
      <4>2. h[n - 1] = g[n - 1]
        BY <4>1
      <4>3. Body(h, n) = Body(g, n)
        BY <4>2, <3>2 DEF Body
      <4>4. n <= k => n \in 0..k
        OBVIOUS
      <4>5. h[n] = IF n <= k THEN g[n] ELSE Body(g, k + 1)
        OBVIOUS
      <4>6. ~(n <= k) => n = k + 1
        OBVIOUS
      <4>7. n \in 0..k => g[n] = Body(g, n)
        BY <2>1
      <4> HIDE DEF h
      <4> QED
        BY <4>3, <4>4, <4>5, <4>6, <4>7
    <3> QED
      BY <3>1, <3>2
  <2>3. h = [n \in 0..k + 1 |-> Body(h, n)]
    BY <2>2
  <2>4. Upto(k + 1)
    <3> HIDE DEF h
    <3> QED
      BY <2>3
  <2> QED
    BY <2>4
<1>3. Upto(N)
  <2> HIDE DEF Upto
  <2>1. \A k \in Nat : P[k]
    <3> HIDE DEF P
    <3> QED
      BY <1>1, <1>2, Induction
  <2> QED
    BY <2>1
<1>4. KeptRows(s) = [n \in 0..N |-> Body(KeptRows(s), n)]
  <2> HIDE DEF Body
  <2> QED
    BY <1>3, <1>k
<1>5. \A n \in 0..N : KeptRows(s)[n] = Body(KeptRows(s), n)
  <2> DEFINE g == KeptRows(s)
  <2>1. g = [n \in 0..N |-> Body(g, n)]
    BY <1>4
  <2> HIDE DEF g, Body
  <2>2. \A n \in 0..N : g[n] = Body(g, n)
    BY <2>1
  <2> QED
    BY <2>2 DEF g
<1>6. 0 \in 0..N /\ \A n \in 1..N : n \in 0..N /\ n # 0
  OBVIOUS
<1> QED
  BY <1>5, <1>6

(* No two of the kept rows share an image star or a catalog star. *)
OneToOne(s, rows) ==
  /\ rows \subseteq DOMAIN s.corr
  /\ \A i, j \in rows : s.corr[i].field = s.corr[j].field \/ s.corr[i].star = s.corr[j].star
                          => i = j

LEMMA KeptRowsOneToOne ==
  ASSUME NEW s, Len(s.corr) \in Nat PROVE OneToOne(s, CorrRows(s))
<1> DEFINE N == Len(s.corr)
           Holds(n) == n <= N => OneToOne(s, KeptRows(s)[n])
           P == [n \in Nat |-> Holds(n)]
<1>p. \A n \in Nat : P[n] <=> Holds(n)
  <2> HIDE DEF Holds
  <2> QED
    OBVIOUS
<1> HIDE DEF P
<1>1. P[0]
  BY <1>p, KeptRowsStep DEF OneToOne
<1>2. ASSUME NEW n \in Nat, P[n] PROVE P[n + 1]
  <2> SUFFICES ASSUME n + 1 <= N PROVE OneToOne(s, KeptRows(s)[n + 1])
    BY <1>p
  <2>1. n + 1 \in 1..N /\ (n + 1) - 1 = n /\ n <= N
    OBVIOUS
  <2>2. KeptRows(s)[n + 1] = IF NewTo(s, KeptRows(s)[n], n + 1)
                               THEN KeptRows(s)[n] \cup {n + 1} ELSE KeptRows(s)[n]
    BY <2>1, KeptRowsStep
  <2>3. OneToOne(s, KeptRows(s)[n])
    BY <1>2, <1>p, <2>1
  <2> DEFINE rows == KeptRows(s)[n]
  <2>4. NewTo(s, rows, n + 1) => OneToOne(s, rows \cup {n + 1})
    <3> HIDE DEF rows
    <3>1. OneToOne(s, rows)
      BY <2>3 DEF rows
    <3> QED
      BY <3>1, Zenon DEF OneToOne, NewTo, Usable
  <2> QED
    BY <2>2, <2>3, <2>4
<1>3. P[N]
  BY <1>1, <1>2, Induction
<1> QED
  BY <1>3, <1>p DEF CorrRows

(* _read_match_index_identity: the row it takes is one of the rows that    *)
(* agree with the WCS. *)
LEMMA BestIsCandidate ==
  ASSUME NEW s \in Calls, Candidates(s) # {} PROVE Best(s) \in Candidates(s)
<1> DEFINE C == Candidates(s)
           N == Len(s.match)
           Highest(i, n) == i \in C /\ i <= n /\ \A j \in C : j <= n => s.match[j].odds <= s.match[i].odds
           Holds(n) == (\E i \in C : i <= n) => \E i \in C : Highest(i, n)
           P == [n \in Nat |-> Holds(n)]
<1>t. s.match \in Seq(MatchRecords) /\ N \in Nat /\ DOMAIN s.match = 1..N
  BY DEF Calls
<1>c. C \subseteq 1..N /\ \A i \in C : i \in Nat /\ 1 <= i /\ s.match[i].odds \in Int
  <2>1. C \subseteq 1..N
    BY <1>t DEF Candidates
  <2>2. \A i \in 1..N : s.match[i] \in MatchRecords
    BY <1>t
  <2>3. \A i \in 1..N : s.match[i].odds \in Int
    BY <2>2 DEF MatchRecords
  <2> HIDE DEF C, N
  <2> QED
    BY <2>1, <2>3, <1>t
<1>o. \A i \in C : i <= N
  BY <1>c, <1>t
<1>n. C # {}
  OBVIOUS
<1> HIDE DEF C, N, P
<1>p. \A n \in Nat : P[n] <=> Holds(n)
  <2> HIDE DEF Holds
  <2> QED
    BY DEF P
<1>1. P[0]
  BY <1>p, <1>c
<1>2. ASSUME NEW n \in Nat, P[n] PROVE P[n + 1]
  <2> SUFFICES ASSUME \E i \in C : i <= n + 1 PROVE \E i \in C : Highest(i, n + 1)
    BY <1>p
  <2>1. \A j \in C : j <= n + 1 => j <= n \/ j = n + 1
    BY <1>c
  <2>2. CASE \E i \in C : i <= n
    <3>1. PICK i \in C : Highest(i, n)
      BY <1>2, <1>p, <2>2
    <3>2. CASE n + 1 \in C /\ s.match[i].odds <= s.match[n + 1].odds
      <4>1. Highest(n + 1, n + 1)
        BY <3>1, <3>2, <2>1, <1>c
      <4> QED
        BY <4>1, <3>2
    <3>3. CASE ~(n + 1 \in C /\ s.match[i].odds <= s.match[n + 1].odds)
      <4>1. \A j \in C : j <= n + 1 => s.match[j].odds <= s.match[i].odds
        <5>1. ASSUME NEW j \in C, j <= n PROVE s.match[j].odds <= s.match[i].odds
          BY <3>1, <5>1
        <5>2. n + 1 \in C => s.match[n + 1].odds <= s.match[i].odds
          BY <3>3, <1>c
        <5> QED
          BY <5>1, <5>2, <2>1
      <4>2. i <= n + 1
        <5>1. i <= n /\ i \in Nat
          BY <3>1, <1>c
        <5> QED
          BY <5>1
      <4>3. Highest(i, n + 1)
        BY <4>1, <4>2
      <4> QED
        BY <4>3
    <3> QED
      BY <3>2, <3>3
  <2>3. CASE ~\E i \in C : i <= n
    <3>1. n + 1 \in C /\ \A j \in C : j <= n + 1 => j = n + 1
      BY <2>1, <2>3
    <3>2. Highest(n + 1, n + 1)
      BY <3>1, <1>c
    <3> QED
      BY <3>1, <3>2
  <2> QED
    BY <2>2, <2>3
<1>3. P[N]
  BY <1>1, <1>2, <1>t, Induction
<1> DEFINE T == {i \in C : \A j \in C : s.match[j].odds <= s.match[i].odds}
<1>4. T # {}
  <2>1. PICK i \in C : Highest(i, N)
    BY <1>3, <1>p, <1>t, <1>o, <1>n
  <2> QED
    BY <2>1, <1>o
<1>5. T \in SUBSET Nat
  BY <1>c
<1>6. Best(s) = LeastOf(T)
  BY DEF Best, C
<1>7. LeastOf(T) \in T
  <2> HIDE DEF T
  <2>1. \E x \in T : \A y \in T : x <= y
    BY <1>4, <1>5, LeastNumber
  <2> QED
    BY <2>1 DEF LeastOf
<1> QED
  BY <1>6, <1>7 DEF C

(* What two pairs with a common star are. *)
Distinct(pairs) == \A a, b \in pairs : a.field = b.field \/ a.star = b.star => a = b

LEMMA NetPairsDistinct ==
  ASSUME NEW s \in Calls PROVE Distinct({s.corr[i] : i \in CorrRows(s)})
<1>1. Len(s.corr) \in Nat
  BY DEF Calls
<1>2. OneToOne(s, CorrRows(s))
  BY <1>1, KeptRowsOneToOne
<1> QED
  BY <1>2 DEF OneToOne, Distinct

(* match_mutual_nearest: nearest in both directions is one to one. *)
LEMMA MeasuredDistinct ==
  ASSUME NEW s, NEW ix PROVE Distinct(Measured(s, ix))
<1> DEFINE stars      == {j \in Near(s, ix) : InImage(s.header, ix.stars[j])}
           detections == DOMAIN s.detected
           d          == [m \in detections \X stars |->
                            Residual(s.header, s.detected[m[1]], ix.stars[m[2]])]
           radius     == MatchRadius * Size(s.header.determinant)
           nearest    == MutualNearest(d, detections, stars, radius)
           pair(m)    == [field |-> m[1], star |-> m[2], x |-> s.detected[m[1]], p |-> ix.stars[m[2]]]
<1>1. Measured(s, ix) = {pair(m) : m \in nearest}
  BY DEF Measured
<1>2. \A m \in nearest : /\ m = <<m[1], m[2]>>
                         /\ m[2] = NearestStar(d, stars, m[1])
                         /\ m[1] = NearestDetection(d, detections, m[2])
  <2> HIDE DEF d, detections, stars, radius
  <2> QED
    BY DEF MutualNearest
<1> HIDE DEF nearest, d, detections, stars, radius
<1>3. \A m, k \in nearest : m[1] = k[1] \/ m[2] = k[2] => m = k
  BY <1>2
<1>4. \A m \in nearest : pair(m).field = m[1] /\ pair(m).star = m[2]
  OBVIOUS
<1> HIDE DEF pair
<1> SUFFICES ASSUME NEW a \in Measured(s, ix), NEW b \in Measured(s, ix),
                    a.field = b.field \/ a.star = b.star
             PROVE  a = b
  BY DEF Distinct
<1>5. PICK m \in nearest : a = pair(m)
  BY <1>1
<1>6. PICK k \in nearest : b = pair(k)
  BY <1>1
<1>7. m[1] = k[1] \/ m[2] = k[2]
  BY <1>4, <1>5, <1>6
<1> QED
  BY <1>3, <1>5, <1>6, <1>7

LEMMA QualityDistinct ==
  ASSUME NEW s \in Calls PROVE Distinct(Quality(s).pairs)
<1>0. Distinct({})
  BY DEF Distinct
<1>1. CASE s.backend = "astap"
  <2>1. Quality(s) = AstapQuality(s)
    BY <1>1 DEF Quality
  <2>2. \/ AstapQuality(s).pairs = Measured(s, Chosen(s))
        \/ AstapQuality(s).pairs = {}
    BY DEF AstapQuality
  <2> QED
    BY <1>0, <2>1, <2>2, MeasuredDistinct
<1>2. CASE s.backend # "astap"
  <2>1. Quality(s) = NetQuality(s)
    BY <1>2 DEF Quality
  <2>2. \/ NetQuality(s).pairs = {s.corr[i] : i \in CorrRows(s)}
        \/ NetQuality(s).pairs = {}
    BY DEF NetQuality
  <2> QED
    BY <1>0, <2>1, <2>2, NetPairsDistinct
<1> QED
  BY <1>1, <1>2

(* A solve without the pointing gate's complaint has a point of its image  *)
(* within the radius. *)
LEMMA HintedIsNear ==
  ASSUME NEW s \in Calls, HintsHold(s), s.hint.pointing, s.hint.radius > 0
  PROVE  \E half \in 0..2 * (Width - 1) :
           Size((2 * s.header.place + s.header.determinant * half) - 2 * s.hint.place)
             <= 2 * s.hint.radius
<1>1. Width \in Nat /\ Width # 0 /\ Width - 1 \in 0..2 * (Width - 1)
  BY EvidenceAssumption
<1>2. Size(Centre2(s.header) - 2 * s.hint.place) <= 2 * s.hint.radius
  BY DEF HintsHold
<1>3. Centre2(s.header) = 2 * s.header.place + s.header.determinant * (Width - 1)
  BY DEF Centre2
<1>4. Size((2 * s.header.place + s.header.determinant * (Width - 1)) - 2 * s.hint.place)
        <= 2 * s.hint.radius
  BY <1>2, <1>3, Zenon
<1> QED
  BY <1>1, <1>4, Zenon

(* The row a net solve is bound to. *)
LEMMA NetIsBound ==
  ASSUME NEW s \in Calls, s.backend # "astap", Quality(s).pairs # {}
  PROVE  \E i \in Candidates(s) :
           s.match[i].index = Quality(s).index /\ s.match[i].parity = Positive(s.header)
<1>1. Quality(s) = NetQuality(s)
  BY DEF Quality
<1>2. MatchBound(s) /\ NetQuality(s).index = s.match[Best(s)].index
  BY <1>1 DEF NetQuality
<1>3. Best(s) \in Candidates(s)
  BY <1>2, BestIsCandidate DEF MatchBound
<1> QED
  BY <1>1, <1>2, <1>3 DEF MatchBound

(* What passes every gate can be relied on. *)
LEMMA GatesAreEnough ==
  ASSUME NEW s \in Calls, MissedGates(s) = {} PROVE Trustworthy(s)
<1> DEFINE pairs == IF Solved(s) THEN Quality(s).pairs ELSE {}
           enough == Cardinality(pairs) >= MatchMinimum
<1>1. /\ Solved(s) /\ enough /\ HintsHold(s)
      /\ ~(enough /\ ~RmsWithin(s, pairs, 10))
      /\ s.left = "published"
  <2> DEFINE a == Solved(s) /\ enough /\ HintsHold(s)
             b == enough /\ ~RmsWithin(s, pairs, 10)
             c == Solved(s) /\ s.left \in {"published", "other"}
             d == s.left = "published"
  <2>1. MissedGates(s) = (IF a THEN {} ELSE {"evidence"}) \cup (IF b THEN {"rms"} ELSE {})
          \cup (IF c THEN {} ELSE {"verified"}) \cup (IF d THEN {} ELSE {"output"})
    BY DEF MissedGates
  <2> HIDE DEF a, b, c, d
  <2>2. a /\ ~b /\ d
    BY <2>1
  <2> QED
    BY <2>2 DEF a, b, d
<1>2. pairs = Quality(s).pairs
  BY <1>1
<1> HIDE DEF pairs
<1>3. s.snapshot /\ s.drift = "none" /\ Quality(s).pairs # {}
  BY <1>1 DEF Solved, Bound
<1>4. Distinct(Quality(s).pairs)
  BY QualityDistinct
<1>5. s.backend = "astrometry-net" =>
       \E i \in Candidates(s) :
         s.match[i].index = Quality(s).index /\ s.match[i].parity = Positive(s.header)
  BY <1>3, NetIsBound
<1>6. s.hint.pointing /\ s.hint.radius > 0 =>
       \E half \in 0..2 * (Width - 1) :
         Size((2 * s.header.place + s.header.determinant * half) - 2 * s.hint.place)
           <= 2 * s.hint.radius
  BY <1>1, HintedIsNear
<1> QED
  BY <1>1, <1>2, <1>3, <1>4, <1>5, <1>6, Zenon DEF Trustworthy, Distinct

-----------------------------------------------------------------------------
(* The inductive invariant. *)

(* What lies at the path of f was put there by the backend the chain is    *)
(* at, from the call until the file is discarded.                          *)
FileShape ==
  \A f \in Filters :
    /\ stage[f] \in {"queued", "try", "call"} => file[f] = "absent"
    /\ stage[f] = "judge" => /\ file[f] # "stamped"
                             /\ "output" \notin missed[f] => file[f] = "raw"
    /\ stage[f] = "promote" => missed[f] = {} /\ file[f] = "raw"
    /\ file[f] # "absent" => writer[f] = backend[f]
    /\ file[f] = "stamped" => missed[f] = {}

(* A verdict is given at the end of the chain, and what it says. *)
VerdictShape ==
  \A f \in Filters :
    /\ stage[f] \in {"queued", "try", "call", "judge", "promote"} => verdict[f] = "none"
    /\ verdict[f] = "solved" => file[f] = "stamped"
    /\ verdict[f] = "unsolved" =>
         \/ backend[f] = NBackends + 1 /\ file[f] = "absent"
         \/ code[f] \in {"cannotDiscard", "promotion"}

(* Once the caller is leaving, no filter can begin. *)
CallerShape ==
  /\ \A f \in 1..collected : stage[f] = "ended"
  /\ caller = "returned" => collected = NFilters
  /\ caller \in {"leaving", "raised"} => \A f \in Filters : stage[f] # "queued"
  /\ caller = "raised" => \A f \in Filters : ~Running(f)

(* The backends asked so far, by stage. *)
BackendShape ==
  \A f \in Filters : stage[f] \in {"call", "judge"} => backend[f] <= NBackends

(* What was missed by the solve under judgement, and by the one whose file *)
(* is stamped. *)
SolveShape ==
  /\ DOMAIN solve = Filters
  /\ \A f \in Filters :
       stage[f] \in {"judge", "promote"} \/ file[f] = "stamped" =>
         solve[f] \in AllSolves /\ missed[f] = Gated[solve[f]]

IInv ==
  TypeOK /\ BackendShape /\ FileShape /\ SolveShape /\ VerdictShape /\ CallerShape

-----------------------------------------------------------------------------

(* What the gates say of every solve, and that a call which left nothing   *)
(* missed the output.                                                      *)
LEMMA GatesOfASolve ==
  ASSUME NEW f \in Filters, NEW s \in Solves[f]
  PROVE  Gated[s] \subseteq Gates /\ (s.left = "nothing" => "output" \in Gated[s])
<1>1. s \in AllSolves
  BY DEF AllSolves
<1>2. Gated[s] = MissedGates(s)
  BY <1>1 DEF Gated
<1>3. MissedGates(s) \subseteq Gates /\ (s.left = "nothing" => "output" \in MissedGates(s))
  BY DEF MissedGates, Gates
<1> QED
  BY <1>2, <1>3

(* Type correctness of one step. *)
LEMMA NextTypeOK ==
  ASSUME TypeOK, BackendShape, [Next]_vars PROVE TypeOK' /\ BackendShape'
<1> USE DEF vars, pool, TypeOK, BackendShape, At, To
<1>n. NBackends \in Nat /\ NFilters \in Nat \ {0}
  BY ChainAssumption
<1>1. ASSUME NEW f \in Filters, Begin(f) PROVE TypeOK' /\ BackendShape'
  BY <1>1 DEF Begin
<1>2. ASSUME NEW f \in Filters, Try(f) PROVE TypeOK' /\ BackendShape'
  BY <1>2, <1>n DEF Try, Unsolved
<1>3. ASSUME NEW f \in Filters, Call(f) PROVE TypeOK' /\ BackendShape'
  BY <1>3, <1>n, GatesOfASolve DEF Call
<1>4. ASSUME NEW f \in Filters, Judge(f) PROVE TypeOK' /\ BackendShape'
  BY <1>4, <1>n DEF Judge, Reject, Discarded, Unsolved
<1>5. ASSUME NEW f \in Filters, Promote(f) \/ PromoteFails(f) \/ PromoteRaises(f)
      PROVE TypeOK' /\ BackendShape'
  BY <1>5 DEF Promote, PromoteFails, PromoteRaises, Unsolved
<1>6. ASSUME NEW f \in Filters, Report(f) PROVE TypeOK' /\ BackendShape'
  BY <1>6 DEF Report
<1>7. CASE Collect
  BY <1>7, <1>n DEF Collect
<1>8. CASE CollectRaised \/ Leave \/ Return
  BY <1>8 DEF CollectRaised, Leave, Return
<1>9. CASE Done \/ UNCHANGED vars
  BY <1>9 DEF Done
<1> QED
  BY <1>1, <1>2, <1>3, <1>4, <1>5, <1>6, <1>7, <1>8, <1>9 DEF Next, Thread, Caller

(* The file at a path always stems from the backend the chain is at. *)
LEMMA NextFile == ASSUME TypeOK, FileShape, [Next]_vars PROVE FileShape'
<1> USE DEF vars, pool, FileShape, At, To
<1>t. /\ DOMAIN stage = Filters /\ DOMAIN file = Filters /\ DOMAIN missed = Filters
      /\ DOMAIN writer = Filters /\ DOMAIN backend = Filters
  BY DEF TypeOK
<1>1. ASSUME NEW f \in Filters, Begin(f) PROVE FileShape'
  BY <1>1, <1>t DEF Begin
<1>2. ASSUME NEW f \in Filters, Try(f) PROVE FileShape'
  BY <1>2, <1>t DEF Try, Unsolved
<1>3. ASSUME NEW f \in Filters, Call(f) PROVE FileShape'
  BY <1>3, <1>t, GatesOfASolve DEF Call
<1>4. ASSUME NEW f \in Filters, Judge(f) PROVE FileShape'
  BY <1>4, <1>t DEF Judge, Reject, Discarded, Unsolved
<1>5. ASSUME NEW f \in Filters, Promote(f) \/ PromoteFails(f) \/ PromoteRaises(f)
      PROVE FileShape'
  BY <1>5, <1>t DEF Promote, PromoteFails, PromoteRaises, Unsolved
<1>6. ASSUME NEW f \in Filters, Report(f) PROVE FileShape'
  BY <1>6, <1>t DEF Report
<1>7. CASE Collect \/ Leave \/ Return
  BY <1>7, <1>t DEF Collect, Leave, Return
<1>8. CASE CollectRaised
  BY <1>8, <1>t DEF CollectRaised
<1>9. CASE Done \/ UNCHANGED vars
  BY <1>9 DEF Done
<1> QED
  BY <1>1, <1>2, <1>3, <1>4, <1>5, <1>6, <1>7, <1>8, <1>9 DEF Next, Thread, Caller

(* The solve that is judged is the one the call returned. *)
LEMMA NextSolve == ASSUME TypeOK, FileShape, SolveShape, [Next]_vars PROVE SolveShape'
<1> USE DEF vars, pool, SolveShape, FileShape, At, To
<1>t. DOMAIN stage = Filters /\ DOMAIN file = Filters /\ DOMAIN missed = Filters
  BY DEF TypeOK
<1>1. ASSUME NEW f \in Filters, Begin(f) PROVE SolveShape'
  BY <1>1, <1>t DEF Begin
<1>2. ASSUME NEW f \in Filters, Try(f) PROVE SolveShape'
  BY <1>2, <1>t DEF Try, Unsolved
<1>3. ASSUME NEW f \in Filters, Call(f) PROVE SolveShape'
  BY <1>3, <1>t DEF Call, AllSolves
<1>4. ASSUME NEW f \in Filters, Judge(f) PROVE SolveShape'
  <2>1. CASE missed[f] = {}
    BY <1>4, <2>1, <1>t DEF Judge
  <2>2. CASE missed[f] # {}
    BY <1>4, <2>2, <1>t DEF Judge, Reject, Discarded, Unsolved
  <2> QED
    BY <2>1, <2>2
<1>5. ASSUME NEW f \in Filters, Promote(f) \/ PromoteFails(f) \/ PromoteRaises(f)
      PROVE SolveShape'
  BY <1>5, <1>t DEF Promote, PromoteFails, PromoteRaises, Unsolved
<1>6. ASSUME NEW f \in Filters, Report(f) PROVE SolveShape'
  BY <1>6, <1>t DEF Report
<1>7. CASE Collect \/ Leave \/ Return
  BY <1>7, <1>t DEF Collect, Leave, Return
<1>8. CASE CollectRaised
  BY <1>8, <1>t DEF CollectRaised
<1>9. CASE Done \/ UNCHANGED vars
  BY <1>9 DEF Done
<1> QED
  BY <1>1, <1>2, <1>3, <1>4, <1>5, <1>6, <1>7, <1>8, <1>9 DEF Next, Thread, Caller

(* Verdicts are final and say what happened to the file. *)
LEMMA NextVerdict ==
  ASSUME TypeOK, BackendShape, FileShape, VerdictShape, [Next]_vars PROVE VerdictShape'
<1> USE DEF vars, pool, VerdictShape, At, To
<1>t. /\ DOMAIN stage = Filters /\ DOMAIN file = Filters /\ DOMAIN verdict = Filters
      /\ DOMAIN code = Filters /\ DOMAIN backend = Filters
      /\ \A f \in Filters : backend[f] \in 1..NBackends + 1
  BY DEF TypeOK
<1>n. NBackends \in Nat
  BY ChainAssumption
<1>1. ASSUME NEW f \in Filters, Begin(f) PROVE VerdictShape'
  BY <1>1, <1>t DEF Begin
<1>2. ASSUME NEW f \in Filters, Try(f) PROVE VerdictShape'
  BY <1>2, <1>t, <1>n DEF Try, Unsolved, FileShape
<1>3. ASSUME NEW f \in Filters, Call(f) PROVE VerdictShape'
  BY <1>3, <1>t DEF Call
<1>4. ASSUME NEW f \in Filters, Judge(f) PROVE VerdictShape'
  BY <1>4, <1>t DEF Judge, Reject, Discarded, Unsolved
<1>5. ASSUME NEW f \in Filters, Promote(f) \/ PromoteFails(f) \/ PromoteRaises(f)
      PROVE VerdictShape'
  BY <1>5, <1>t DEF Promote, PromoteFails, PromoteRaises, Unsolved
<1>6. ASSUME NEW f \in Filters, Report(f) PROVE VerdictShape'
  BY <1>6, <1>t DEF Report
<1>7. CASE Collect \/ Leave \/ Return
  BY <1>7, <1>t DEF Collect, Leave, Return
<1>8. CASE CollectRaised
  BY <1>8, <1>t DEF CollectRaised
<1>9. CASE Done \/ UNCHANGED vars
  BY <1>9 DEF Done
<1> QED
  BY <1>1, <1>2, <1>3, <1>4, <1>5, <1>6, <1>7, <1>8, <1>9 DEF Next, Thread, Caller

(* The caller answers only after the pool is quiet. *)
LEMMA NextCaller == ASSUME TypeOK, CallerShape, [Next]_vars PROVE CallerShape'
<1> USE DEF vars, pool, CallerShape, At, To, Running, Filters
<1>t. /\ DOMAIN stage = Filters /\ collected \in 0..NFilters
      /\ NFilters \in Nat
  BY ChainAssumption DEF TypeOK
<1>1. ASSUME NEW f \in Filters, Begin(f) PROVE CallerShape'
  BY <1>1, <1>t DEF Begin
<1>2. ASSUME NEW f \in Filters, Try(f) PROVE CallerShape'
  BY <1>2, <1>t DEF Try, Unsolved
<1>3. ASSUME NEW f \in Filters, Call(f) PROVE CallerShape'
  BY <1>3, <1>t DEF Call
<1>4. ASSUME NEW f \in Filters, Judge(f) PROVE CallerShape'
  BY <1>4, <1>t DEF Judge, Reject, Unsolved
<1>5. ASSUME NEW f \in Filters, Promote(f) \/ PromoteFails(f) \/ PromoteRaises(f)
      PROVE CallerShape'
  BY <1>5, <1>t DEF Promote, PromoteFails, PromoteRaises, Unsolved
<1>6. ASSUME NEW f \in Filters, Report(f) PROVE CallerShape'
  BY <1>6, <1>t DEF Report
<1>7. CASE Collect
  BY <1>7, <1>t DEF Collect
<1>8. CASE CollectRaised
  BY <1>8, <1>t DEF CollectRaised
<1>9. CASE Leave \/ Return
  BY <1>9, <1>t DEF Leave, Return
<1>10. CASE Done \/ UNCHANGED vars
  BY <1>10 DEF Done
<1> QED
  BY <1>1, <1>2, <1>3, <1>4, <1>5, <1>6, <1>7, <1>8, <1>9, <1>10 DEF Next, Thread, Caller

-----------------------------------------------------------------------------

(* Every state of _solve_candidates satisfies the inductive invariant. *)
THEOREM Inductive == Spec => []IInv
<1>1. Init => IInv
  <2> SUFFICES ASSUME Init PROVE IInv
    OBVIOUS
  <2>1. TypeOK
    BY ChainAssumption DEF Init, TypeOK
  <2>2. BackendShape /\ FileShape /\ SolveShape /\ VerdictShape
    BY DEF Init, BackendShape, FileShape, SolveShape, VerdictShape
  <2>3. CallerShape
    BY DEF Init, CallerShape
  <2> QED
    BY <2>1, <2>2, <2>3 DEF IInv
<1>2. IInv /\ [Next]_vars => IInv'
  BY NextTypeOK, NextFile, NextSolve, NextVerdict, NextCaller DEF IInv
<1> QED
  BY <1>1, <1>2, PTL DEF Spec

(* Type correctness of the solver chains. *)
THEOREM TypeCorrect == Spec => []TypeOK
<1>1. IInv => TypeOK
  BY DEF IInv
<1> QED
  BY <1>1, Inductive, PTL

(* A filter is reported solved, and a file stamped SOLVED, only for the    *)
(* file of the backend whose solve passed every gate of _solve_one.        *)
THEOREM SolvedVerified == Spec => []SolvedIsVerified
<1>1. IInv => SolvedIsVerified
  BY DEF IInv, FileShape, VerdictShape, SolvedIsVerified
<1> QED
  BY <1>1, Inductive, PTL

(* A filter is solved, and a file stamped, only by a solve whose evidence  *)
(* can be relied on: whatever tables, indexes, detections and hints a call *)
(* of either adapter met, to pass the gates of _solve_one is to be         *)
(* trustworthy.                                                            *)
THEOREM SolvedTrustworthy == Spec => []SolvedIsTrustworthy
<1>1. IInv => SolvedIsTrustworthy
  <2> SUFFICES ASSUME IInv, NEW f \in Filters, file[f] = "stamped" \/ verdict[f] = "solved"
               PROVE  solve[f] \in Relied
    BY DEF SolvedIsTrustworthy
  <2>1. file[f] = "stamped"
    BY DEF IInv, VerdictShape
  <2>2. solve[f] \in AllSolves /\ missed[f] = Gated[solve[f]] /\ missed[f] = {}
    BY <2>1 DEF IInv, SolveShape, FileShape
  <2>3. MissedGates(solve[f]) = {}
    BY <2>2 DEF Gated
  <2>4. solve[f] \in Calls
    BY <2>2, ChainAssumption DEF AllSolves
  <2> QED
    BY <2>2, <2>3, <2>4, GatesAreEnough DEF Relied
<1> QED
  BY <1>1, Inductive, PTL

(* What is left when _solve_candidates is: no file of an unsolved filter,  *)
(* which asked every backend, unless a removal or the promotion failed;    *)
(* and no thread that is still solving.                                    *)
THEOREM LeavesNothing == Spec => []NothingLeftBehind
<1>1. IInv => UnsolvedLeavesNothing
  BY DEF IInv, VerdictShape, UnsolvedLeavesNothing
<1>2. IInv => NothingRunsAfter
  BY ChainAssumption DEF IInv, CallerShape, NothingRunsAfter, Running, Filters
<1>3. IInv => NothingLeftBehind
  BY <1>1, <1>2 DEF NothingLeftBehind
<1> QED
  BY <1>3, Inductive, PTL
=============================================================================
