----------------------------- MODULE SolverChain -----------------------------
(***************************************************************************)
(* _solve_candidates (workflows/products.py) and _solve_one                *)
(* (workflows/solve.py): every filter's master is handed to the solver     *)
(* backends in order until one solve passes every gate, and its file is    *)
(* promoted to SOLVED.  The filters run concurrently on a thread pool,     *)
(* each with a product path of its own; the caller collects their outcomes *)
(* in filter order and, when one raised, leaves the pool before its own    *)
(* handler removes the staging tree.                                       *)
(*                                                                         *)
(* A backend is anything with the SolverBackend protocol: it may raise,    *)
(* return what fails any of the gates (SolverEvidence), and leave a file   *)
(* at the requested path in every case (SolverAttempt is the call of one   *)
(* adapter).                                                               *)
(***************************************************************************)
EXTENDS SolverEvidence

CONSTANTS
  NFilters,   \* filters, in the order of their names
  NBackends,  \* backends of the chain
  Workers,    \* solve_workers
  Solves      \* Solves[f]: the solves a call for filter f may end with

Filters == 1..NFilters

(* The gates: a SolverResult with sufficient evidence that agrees with the *)
(* hints, the RMS limit, the backend's own verification, and an output at  *)
(* the requested path that carries the solution.                           *)
Gates == {"evidence", "rms", "verified", "output"}

ASSUME ChainAssumption ==
  /\ NFilters \in Nat \ {0} /\ NBackends \in Nat /\ Workers \in Nat \ {0}
  /\ \A f \in Filters : Solves[f] # {} /\ Solves[f] \subseteq Calls

NoSolve == [backend |-> "none"]

(* The solves of this instance, each judged once. *)
AllSolves == UNION {Solves[f] : f \in Filters}
Gated     == [s \in AllSolves |-> MissedGates(s)]
Relied    == {s \in AllSolves : Trustworthy(s)}
Seeding   == {s \in AllSolves : SeedWithin(s)}

VARIABLES
  stage,      \* stage[f]: where the thread of f stands in _solve_one
  backend,    \* backend[f]: the backend the chain has come to
  solve,      \* solve[f]: the solve under judgement, or accepted
  missed,     \* missed[f]: the gates the last solve of f missed
  file,       \* file[f]: what lies at the product path of f
  writer,     \* writer[f]: the backend that put it there
  seed,       \* filters with a solve that may seed the refit
  code,       \* code[f]: how the chain of f ended
  verdict,    \* verdict[f]: the outcome of solve_filter
  completed,  \* the progress count
  collected,  \* outcomes the caller has collected
  caller      \* the thread in _solve_candidates

vars == <<stage, backend, solve, missed, file, writer, seed, code, verdict, completed,
          collected, caller>>
pool == <<completed, collected, caller>>

Running(f) == stage[f] \in {"try", "call", "judge", "promote", "report"}

TypeOK ==
  /\ stage \in [Filters -> {"queued", "try", "call", "judge", "promote", "report",
                            "ended", "cancelled"}]
  /\ backend \in [Filters -> 1..NBackends + 1]
  /\ missed \in [Filters -> SUBSET Gates]
  /\ file \in [Filters -> {"absent", "raw", "stamped"}]
  /\ writer \in [Filters -> 0..NBackends]
  /\ seed \subseteq Filters
  /\ code \in [Filters -> {"none", "accepted", "exhausted", "exists",
                           "cannotDiscard", "promotion", "error"}]
  /\ verdict \in [Filters -> {"none", "solved", "unsolved", "raised"}]
  /\ completed \in Nat /\ collected \in 0..NFilters
  /\ caller \in {"collecting", "leaving", "returned", "raised"}

Init ==
  /\ stage = [f \in Filters |-> "queued"]
  /\ backend = [f \in Filters |-> 1]
  /\ solve = [f \in Filters |-> NoSolve]
  /\ missed = [f \in Filters |-> {}]
  /\ file = [f \in Filters |-> "absent"]
  /\ writer = [f \in Filters |-> 0]
  /\ seed = {}
  /\ code = [f \in Filters |-> "none"]
  /\ verdict = [f \in Filters |-> "none"]
  /\ completed = 0 /\ collected = 0 /\ caller = "collecting"

-----------------------------------------------------------------------------
(* The thread of one filter. *)

At(f, here) == stage[f] = here
To(f, there) == stage' = [stage EXCEPT ![f] = there]

(* A free worker takes the next filter.  With one worker the caller itself *)
(* loops over the filters, so an exception stops the loop.                 *)
Begin(f) ==
  /\ At(f, "queued") /\ To(f, "try")
  /\ \A g \in 1..f - 1 : ~At(g, "queued")
  /\ Cardinality({g \in Filters : Running(g)}) < Workers
  /\ Workers = 1 => \A g \in Filters : verdict[g] # "raised"
  /\ UNCHANGED <<backend, solve, missed, file, writer, seed, code, verdict, pool>>

Unsolved(f, why) ==
  /\ To(f, "report")
  /\ code' = [code EXCEPT ![f] = why]
  /\ verdict' = [verdict EXCEPT ![f] = "unsolved"]

(* The next backend is asked only while nothing lies at the path. *)
Try(f) ==
  /\ At(f, "try")
  /\ IF backend[f] > NBackends THEN Unsolved(f, "exhausted")
     ELSE IF file[f] # "absent" THEN Unsolved(f, "exists")
     ELSE To(f, "call") /\ UNCHANGED <<code, verdict>>
  /\ UNCHANGED <<backend, solve, missed, file, writer, seed, pool>>

(* backend.solve returns or raises, with or without a file at the path. *)
Call(f) ==
  /\ At(f, "call") /\ To(f, "judge")
  /\ \E s \in Solves[f] :
       /\ solve' = [solve EXCEPT ![f] = s]
       /\ missed' = [missed EXCEPT ![f] = Gated[s]]
       /\ file' = [file EXCEPT ![f] = IF s.left = "nothing" THEN "absent" ELSE "raw"]
       /\ writer' = [writer EXCEPT ![f] = IF s.left = "nothing" THEN 0 ELSE backend[f]]
  /\ UNCHANGED <<backend, seed, code, verdict, pool>>

(* A solve that missed only the RMS limit, and that not by far. *)
MaySeed(f) == missed[f] \ {"output"} = {"rms"} /\ solve[f] \in Seeding

(* _discard_owned_solver_output: the system may refuse the removal. *)
Discarded(f) ==
  /\ file' = [file EXCEPT ![f] = "absent"]
  /\ writer' = [writer EXCEPT ![f] = 0]

Reject(f) ==
  /\ seed' = IF MaySeed(f) THEN seed \cup {f} ELSE seed
  /\ solve' = [solve EXCEPT ![f] = NoSolve]
  /\ \/ /\ Discarded(f)
        /\ backend' = [backend EXCEPT ![f] = @ + 1]
        /\ To(f, "try") /\ UNCHANGED <<code, verdict>>
     \/ /\ file[f] # "absent" /\ Unsolved(f, "cannotDiscard")
        /\ UNCHANGED <<file, writer, backend>>

(* Mutant: a solve that only came near is promoted. *)
JudgeNearEnough(f) ==
  /\ At(f, "judge")
  /\ IF missed[f] \subseteq {"rms"}
       THEN To(f, "promote") /\ UNCHANGED <<backend, solve, file, writer, seed, code, verdict>>
       ELSE Reject(f)
  /\ UNCHANGED <<missed, pool>>

(* Mutant: a rejected backend is asked again. *)
JudgeSameAgain(f) ==
  /\ At(f, "judge")
  /\ IF missed[f] = {}
       THEN To(f, "promote") /\ UNCHANGED <<file, writer>>
       ELSE To(f, "try") /\ Discarded(f)
  /\ UNCHANGED <<backend, solve, seed, code, verdict, missed, pool>>

(* Mutant: the file of a rejected solve stays where it is. *)
JudgeKeeping(f) ==
  /\ At(f, "judge")
  /\ IF missed[f] = {}
       THEN To(f, "promote") /\ UNCHANGED backend
       ELSE To(f, "try") /\ backend' = [backend EXCEPT ![f] = @ + 1]
  /\ UNCHANGED <<solve, file, writer, seed, code, verdict, missed, pool>>

Judge(f) ==
  /\ At(f, "judge")
  /\ IF missed[f] = {}
       THEN To(f, "promote") /\ UNCHANGED <<backend, solve, file, writer, seed, code, verdict>>
       ELSE Reject(f)
  /\ UNCHANGED <<missed, pool>>

(* _promote_solved_state stamps the file. *)
Promote(f) ==
  /\ At(f, "promote") /\ To(f, "report")
  /\ file' = [file EXCEPT ![f] = "stamped"]
  /\ code' = [code EXCEPT ![f] = "accepted"]
  /\ verdict' = [verdict EXCEPT ![f] = "solved"]
  /\ UNCHANGED <<backend, solve, missed, writer, seed, pool>>

(* An E2EError of the promotion, before or after the stamp, ends the chain *)
(* as unsolved and leaves the file.                                        *)
PromoteFails(f) ==
  /\ At(f, "promote") /\ Unsolved(f, "promotion")
  /\ \E left \in {"raw", "stamped"} : file' = [file EXCEPT ![f] = left]
  /\ UNCHANGED <<backend, solve, missed, writer, seed, pool>>

(* The file cannot be read: _solve_one has no handler for it. *)
PromoteRaises(f) ==
  /\ At(f, "promote") /\ To(f, "ended")
  /\ code' = [code EXCEPT ![f] = "error"]
  /\ verdict' = [verdict EXCEPT ![f] = "raised"]
  /\ UNCHANGED <<backend, solve, missed, file, writer, seed, pool>>

(* Under progress_lock the filter is counted and reported; the callback    *)
(* may raise.                                                              *)
Report(f) ==
  /\ At(f, "report") /\ To(f, "ended")
  /\ completed' = completed + 1
  /\ verdict' \in {verdict, [verdict EXCEPT ![f] = "raised"]}
  /\ UNCHANGED <<backend, solve, missed, file, writer, seed, code, collected, caller>>

Thread(f) ==
  \/ Begin(f) \/ Try(f) \/ Call(f) \/ Judge(f) \/ Promote(f)
  \/ PromoteFails(f) \/ PromoteRaises(f) \/ Report(f)

-----------------------------------------------------------------------------
(* The caller. *)

Collect ==
  /\ caller = "collecting" /\ collected < NFilters
  /\ At(collected + 1, "ended") /\ verdict[collected + 1] # "raised"
  /\ collected' = collected + 1
  /\ UNCHANGED <<stage, backend, solve, missed, file, writer, seed, code, verdict,
                 completed, caller>>

(* The first exception in filter order: what has not begun is cancelled. *)
CollectRaised ==
  /\ caller = "collecting" /\ collected < NFilters
  /\ At(collected + 1, "ended") /\ verdict[collected + 1] = "raised"
  /\ caller' = "leaving"
  /\ stage' = [f \in Filters |-> IF At(f, "queued") THEN "cancelled" ELSE stage[f]]
  /\ UNCHANGED <<backend, solve, missed, file, writer, seed, code, verdict, completed,
                 collected>>

(* Mutant: the exception leaves while other filters are still solving. *)
LeaveAtOnce ==
  /\ caller = "leaving" /\ caller' = "raised"
  /\ UNCHANGED <<stage, backend, solve, missed, file, writer, seed, code, verdict,
                 completed, collected>>

(* Leaving the with block waits for the threads of the pool. *)
Leave ==
  /\ caller = "leaving" /\ caller' = "raised"
  /\ \A f \in Filters : ~Running(f)
  /\ UNCHANGED <<stage, backend, solve, missed, file, writer, seed, code, verdict,
                 completed, collected>>

Return ==
  /\ caller = "collecting" /\ collected = NFilters
  /\ caller' = "returned"
  /\ UNCHANGED <<stage, backend, solve, missed, file, writer, seed, code, verdict,
                 completed, collected>>

Caller == Collect \/ CollectRaised \/ Leave \/ Return

Done == caller \in {"returned", "raised"} /\ UNCHANGED vars

Next == (\E f \in Filters : Thread(f)) \/ Caller \/ Done

Spec == Init /\ [][Next]_vars

(* Each thread runs, and an adapter's call returns (SolverAttempt,         *)
(* CallReturns).                                                           *)
FairSpec == Spec /\ WF_vars(Caller) /\ \A f \in Filters : WF_vars(Thread(f))

-----------------------------------------------------------------------------
(* Properties. *)

(* A filter is reported solved only with a stamped file, and a SOLVED      *)
(* stamp is found only on a file of the very backend whose solve missed no *)
(* gate, never on what an earlier backend left (_solve_one hands the path  *)
(* on from backend to backend), also where the promotion then failed or    *)
(* the report raised.                                                      *)
SolvedIsVerified ==
  \A f \in Filters :
    /\ verdict[f] = "solved" => file[f] = "stamped"
    /\ file[f] = "stamped" => missed[f] = {} /\ writer[f] = backend[f]

(* Whatever the backends met, a filter whose file is stamped, its          *)
(* promotion failing or not, was solved with evidence that can be relied   *)
(* on (Trustworthy): the evidence of this very call, not of an earlier     *)
(* one.                                                                    *)
SolvedIsTrustworthy ==
  \A f \in Filters : file[f] = "stamped" \/ verdict[f] = "solved" => solve[f] \in Relied

(* An unsolved filter has asked every backend and left nothing at its      *)
(* product path, where the same-grid inheritance is to write, unless the   *)
(* system refused the removal or the promotion failed.                     *)
UnsolvedLeavesNothing ==
  \A f \in Filters : verdict[f] = "unsolved" =>
    \/ backend[f] = NBackends + 1 /\ file[f] = "absent"
    \/ code[f] \in {"cannotDiscard", "promotion"}

(* When _solve_candidates is left, by return or by exception, no thread is *)
(* still solving: the handler of the run may remove the staging tree.      *)
NothingRunsAfter ==
  caller \in {"returned", "raised"} => \A f \in Filters : ~Running(f)

(* What _solve_candidates leaves behind is final: no file of an unsolved   *)
(* filter, and no thread that could still write one.                       *)
NothingLeftBehind == UnsolvedLeavesNothing /\ NothingRunsAfter

(* Every filter is judged and the caller gets its answer. *)
CallerAnswered == <>(caller \in {"returned", "raised"})
=============================================================================
