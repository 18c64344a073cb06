---------------------------- MODULE CatalogDesktop ----------------------------
(***************************************************************************)
(* The desktop's catalog installation over the engine's: the host keeps a  *)
(* registry of installer processes (src-tauri/src/catalog.rs) and the view *)
(* follows one job by its events (useWorkflow.ts).                         *)
(*                                                                         *)
(* Job j is installer process j; the verification that follows it is       *)
(* process MaxJobs + j.  Answers of commands and events travel separately: *)
(* an event of a job can arrive before the answer that names the job.      *)
(***************************************************************************)
EXTENDS CatalogInstall

CONSTANT MaxJobs  \* bound: installations the user starts

ASSUME DesktopAssumption ==
  /\ MaxJobs \in Nat \ {0} /\ 1..MaxJobs \subseteq Installers
  /\ MaxJobs + 1..2 * MaxJobs \subseteq Verifiers

Jobs           == 1..MaxJobs
VerifierOf(j)  == MaxJobs + j
DesktopProcs   == Jobs \cup {VerifierOf(j) : j \in Jobs}
NoJob          == 0

VARIABLES
  schema,     \* the engine's answers have the schemaVersion the host asks for
  job,        \* job[j]: the host's side of installation j
  quit,       \* the application: running, terminating its children, exited
  events,     \* events emitted and not delivered yet, in order
  started,    \* installations started so far
  answers,    \* answers of start commands on their way: <<job, accepted>>
  cancel,     \* the cancel command: idle, sent for a job, or answered
  status,     \* catalogStatus
  ref,        \* catalogJobIdRef
  jobId,      \* catalogJobId
  cancelling, \* catalogCancellingRef
  pending,    \* pendingCatalogCompleteRef: the job of the completion kept
  finishing,  \* the job finishCatalogInstall verifies, or NoJob
  overtaken   \* an answer or a completion of an earlier job was taken for the current one's

host  == <<schema, job, quit>>
wire  == <<events, answers, cancel>>
view  == <<started, status, ref, jobId, cancelling, pending, finishing, overtaken>>
dvars == <<vars, host, wire, view>>

DInit ==
  /\ Init
  /\ schema \in BOOLEAN  \* FALSE is what install_catalog and verify_catalog return
  /\ job = [j \in Jobs |-> "none"] /\ quit = "no" /\ events = <<>> /\ started = 0
  /\ answers = {} /\ cancel = <<"idle", NoJob>>
  /\ status = "IDLE" /\ ref = NoJob /\ jobId = NoJob /\ cancelling = FALSE
  /\ pending = NoJob /\ finishing = NoJob /\ overtaken = FALSE

Alive(p) == phase[p] \in {"begin", "hold"}

-----------------------------------------------------------------------------
(* The host. *)

(* start_install: refused at shutdown or by a check of the listing, else   *)
(* the installer is spawned.                                               *)
HostStart(j) ==
  /\ job[j] = "starting" /\ quit = "no"
  /\ \/ /\ job' = [job EXCEPT ![j] = "refused"]
        /\ answers' = answers \cup {<<j, FALSE>>}
        /\ UNCHANGED vars
     \/ /\ Start(j)
        /\ job' = [job EXCEPT ![j] = "spawned"]
        /\ UNCHANGED answers
  /\ UNCHANGED <<schema, quit, events, cancel, view>>

(* The child enters the registry unless shutdown began in the meantime. *)
HostRegister(j) ==
  /\ job[j] = "spawned" /\ quit # "exited"
  /\ IF quit = "no"
     THEN /\ job' = [job EXCEPT ![j] = "running"]
          /\ answers' = answers \cup {<<j, TRUE>>}
          /\ UNCHANGED vars
     ELSE /\ job' = [job EXCEPT ![j] = "over"]
          /\ UNCHANGED answers
          /\ IF Alive(j) THEN Kill(j) ELSE UNCHANGED vars
  /\ UNCHANGED <<schema, quit, events, cancel, view>>

(* The monitor thread waits for the child and removes it from the registry *)
MonitorReaps(j) ==
  /\ job[j] = "running" /\ phase[j] \in Ended /\ quit = "no"
  /\ job' = [job EXCEPT ![j] = "removed"]
  /\ UNCHANGED <<vars, schema, quit, wire, view>>

(* ... and then emits the completion, or an error when the installer       *)
(* failed or parse_json refuses its answer.                                *)
MonitorEmits(j) ==
  /\ job[j] = "removed" /\ quit = "no"
  /\ job' = [job EXCEPT ![j] = "over"]
  /\ events' = Append(events, <<j, IF phase[j] = "ok" /\ schema THEN "complete" ELSE "error">>)
  /\ UNCHANGED <<vars, schema, quit, answers, cancel, view>>

(* cancel_install. *)
HostCancel ==
  LET j == cancel[2] IN
  /\ cancel[1] = "sent" /\ quit = "no"
  /\ IF job[j] = "running"
     THEN /\ cancel' = <<"done", j>>
          /\ IF Alive(j) THEN Kill(j) ELSE UNCHANGED vars
     ELSE cancel' = <<"refused", j>> /\ UNCHANGED vars
  /\ UNCHANGED <<host, events, answers, view>>

(* terminate_all at shutdown: the registered installers are terminated and *)
(* the view is gone; a start command may still be under way.               *)
Quit ==
  /\ quit = "no" /\ quit' = "terminating"
  /\ LET doomed == {j \in Jobs : job[j] = "running" /\ Alive(j)} IN
     /\ phase' = [p \in Procs |-> IF p \in doomed THEN "failed" ELSE phase[p]]
     /\ IF lock \in doomed THEN lock' = Free /\ at' = Idle ELSE UNCHANGED <<lock, at>>
  /\ job' = [j \in Jobs |-> IF job[j] = "spawned" THEN "spawned" ELSE "over"]
  /\ events' = <<>> /\ answers' = {} /\ cancel' = <<"idle", NoJob>>
  /\ status' = "IDLE" /\ ref' = NoJob /\ jobId' = NoJob /\ cancelling' = FALSE
  /\ pending' = NoJob /\ finishing' = NoJob
  /\ UNCHANGED <<provider, bundle, directory, edits, solve, schema, started, overtaken>>

(* The process ends with its threads: an installer that was spawned and    *)
(* not registered stays behind.                                            *)
Exit ==
  /\ quit = "terminating" /\ quit' = "exited"
  /\ UNCHANGED <<vars, schema, job, wire, view>>

-----------------------------------------------------------------------------
(* The view. *)

(* startCatalogInstall; the button is hidden while an installation runs. *)
ClickStart ==
  /\ quit = "no" /\ started < MaxJobs /\ status \notin {"DOWNLOADING", "VERIFYING"}
  /\ started' = started + 1 /\ status' = "DOWNLOADING"
  /\ cancelling' = FALSE /\ ref' = NoJob /\ pending' = NoJob
  /\ job' = [job EXCEPT ![started + 1] = "starting"]
  /\ UNCHANGED <<vars, schema, quit, wire, jobId, finishing, overtaken>>

(* finishCatalogInstall for a completion, once the reference is now. *)
Finish(j, now) ==
  IF now # NoJob /\ j # now THEN UNCHANGED <<status, finishing>>
  ELSE status' = "VERIFYING" /\ finishing' = j

(* Mutant: a completion that came before the answer is forgotten. *)
ReceiveAnswerForgets ==
  \E answer \in answers :
    /\ quit = "no" /\ answers' = answers \ {answer}
    /\ IF answer[2]
       THEN /\ ref' = answer[1] /\ jobId' = answer[1] /\ pending' = NoJob
            /\ UNCHANGED status
       ELSE status' = "FAILED" /\ UNCHANGED <<ref, jobId, pending>>
    /\ overtaken' = (overtaken \/ answer[1] # started)
    /\ UNCHANGED <<vars, host, events, cancel, started, cancelling, finishing>>

(* The answer of the start command names the job; a completion that was    *)
(* kept for it is handled now.                                             *)
ReceiveAnswer ==
  \E answer \in answers :
    /\ quit = "no" /\ answers' = answers \ {answer}
    /\ IF answer[2]
       THEN /\ ref' = answer[1] /\ jobId' = answer[1] /\ pending' = NoJob
            /\ IF pending = NoJob THEN UNCHANGED <<status, finishing>>
               ELSE Finish(pending, answer[1])
       ELSE status' = "FAILED" /\ UNCHANGED <<ref, jobId, pending, finishing>>
    /\ overtaken' = (overtaken \/ answer[1] # started)
    /\ UNCHANGED <<vars, host, events, cancel, started, cancelling>>

(* onComplete and onError. *)
ReceiveEvent ==
  /\ quit = "no" /\ events # <<>> /\ events' = Tail(events)
  /\ LET j == Head(events)[1] IN
     IF Head(events)[2] = "complete"
     THEN /\ \/ cancelling /\ UNCHANGED <<status, pending, finishing, overtaken>>
             \/ /\ ~cancelling /\ ref = NoJob /\ pending' = j
                /\ overtaken' = (overtaken \/ j # started)
                /\ UNCHANGED <<status, finishing>>
             \/ ~cancelling /\ ref # NoJob /\ Finish(j, ref) /\ UNCHANGED <<pending, overtaken>>
     ELSE /\ status' = IF cancelling \/ (ref # NoJob /\ j # ref) THEN status ELSE "FAILED"
          /\ UNCHANGED <<pending, finishing, overtaken>>
  /\ UNCHANGED <<vars, host, answers, cancel, started, ref, jobId, cancelling>>

(* verifyCatalog --configure is called, *)
CallVerify ==
  /\ quit = "no" /\ finishing # NoJob /\ Start(VerifierOf(finishing))
  /\ UNCHANGED <<host, wire, view>>

(* and with its answer and refreshSolverSetup's the installation is over.  *)
VerifyAnswers ==
  /\ quit = "no" /\ finishing # NoJob /\ phase[VerifierOf(finishing)] \in Ended
  /\ status' \in IF phase[VerifierOf(finishing)] = "ok" /\ schema THEN {"READY", "FAILED"} ELSE {"FAILED"}
  /\ ref' = NoJob /\ jobId' = NoJob /\ finishing' = NoJob
  /\ UNCHANGED <<vars, host, wire, started, cancelling, pending, overtaken>>

(* cancelCatalogInstall; the button is shown while DOWNLOADING. *)
ClickCancel ==
  /\ quit = "no" /\ status = "DOWNLOADING" /\ jobId # NoJob /\ cancel[1] = "idle"
  /\ cancelling' = TRUE /\ cancel' = <<"sent", jobId>>
  /\ UNCHANGED <<vars, host, events, answers, started, status, ref, jobId, pending, finishing,
                 overtaken>>

CancelAnswers ==
  /\ quit = "no" /\ cancel[1] \in {"done", "refused"} /\ cancel' = <<"idle", NoJob>>
  /\ IF cancel[1] = "done"
     THEN status' = "CANCELLED" /\ jobId' = NoJob /\ ref' = NoJob /\ UNCHANGED cancelling
     ELSE status' = "FAILED" /\ cancelling' = FALSE /\ UNCHANGED <<jobId, ref>>
  /\ UNCHANGED <<vars, host, events, answers, started, pending, finishing, overtaken>>

(* catalog_doctor: the configuration is ours and every artifact verifies. *)
DoctorOk == config = "ours" /\ \A a \in Artifacts : HashOk(a)

(* refreshSolverSetup on request. *)
Recheck ==
  /\ quit = "no" /\ status \notin {"DOWNLOADING", "VERIFYING"}
  /\ status' = IF DoctorOk THEN "READY" ELSE "IDLE"
  /\ UNCHANGED <<vars, host, wire, started, ref, jobId, cancelling, pending, finishing, overtaken>>

-----------------------------------------------------------------------------
HostStep(j) == HostStart(j) \/ HostRegister(j) \/ MonitorReaps(j) \/ MonitorEmits(j)
ViewStep    == ReceiveAnswer \/ ReceiveEvent \/ CallVerify \/ VerifyAnswers \/ CancelAnswers
Selections(p) == IF p \in DesktopProcs THEN {Artifacts} ELSE (SUBSET Artifacts) \ {{}}
Acquire(p)  == AcquireBundled(p) \/ \E sel \in Selections(p) : AcquireNow(p, sel)
Engine(p)   == (Acquire(p) \/ Writer(p)) /\ UNCHANGED <<host, wire, view>>

Outside ==
  /\ \/ World
     \/ \E p \in Procs \ DesktopProcs : Start(p)
     \/ \E p \in Procs : Kill(p)
  /\ UNCHANGED <<host, wire, view>>

DNext ==
  \/ \E p \in Procs : Engine(p)
  \/ \E j \in Jobs : HostStep(j)
  \/ HostCancel \/ ViewStep \/ Quit \/ Exit \/ ClickStart \/ ClickCancel \/ Recheck \/ Outside

DSpec == DInit /\ [][DNext]_dvars

(* The engine's processes, the host's threads and the view's event loop    *)
(* run on; the user and the world do as they like.                         *)
DFairness ==
  /\ \A p \in Procs : WF_dvars(Engine(p))
  /\ \A j \in Jobs : WF_dvars(HostStep(j))
  /\ WF_dvars(HostCancel) /\ WF_dvars(ViewStep)

(* An installation the view shows as running comes to an end it shows,     *)
(* whatever is killed or fails, unless the application quits or the late   *)
(* answer or completion of an earlier job took the place of the current    *)
(* one's (useWorkflow.ts: one reference and one pending event for all).    *)
InstallSettles ==
  status \in {"DOWNLOADING", "VERIFYING"} ~>
    (status \notin {"DOWNLOADING", "VERIFYING"} \/ quit # "no" \/ overtaken)
=============================================================================
