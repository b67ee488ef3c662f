----------------------------- MODULE JobPlatform -----------------------------
(***************************************************************************)
(* The job platform (crates/nexus-jobs) between the OJ submission handler  *)
(* (crates/nexus-oj/src/lib.rs) and RuntimeTaskService: a submission is    *)
(* stored, turned into a job, validated, saved, handed to its handler,     *)
(* scheduled on the runtime, and only then noted in the job's history,     *)
(* while the runtime may already be executing it and reporting to the same *)
(* history.  A job and its runtime task have the same id.                  *)
(*                                                                         *)
(* The composite observer tells the OJ service first; an event it fails to *)
(* apply is not appended to the job's history either.                      *)
(***************************************************************************)
EXTENDS RuntimeService, FiniteSets, SequencesExt

VARIABLES
  requests,    \* how far the submission request of each task has come
  jobs,        \* definition_store: the ids of the saved jobs
  job_history  \* event_store: the events of each job, oldest first

jobVars == <<requests, jobs, job_history>>

allVars == <<vars, jobVars>>

JobStatus(what) ==
  CASE what = "Queued" -> "Enqueued"
    [] what \in Working -> "Running"
    [] what = "Completed" -> "Succeeded"
    [] OTHER -> what

JobStatuses ==
  {"Enqueued", "Running", "Succeeded", "Failed", "Retrying", "DeadLettered"}

JobEvent(source, what, attempt) ==
  [source |-> source, status |-> what, attempt |-> attempt]

JobEvents ==
  [source : {"JobPlatform", "Runtime"}, status : JobStatuses, attempt : Nat]

Requests ==
  {"none", "created", "saved", "dispatching", "answered", "invalid",
   "rejected"}

JobTypeOK ==
  /\ TypeOK
  /\ requests \in [Tasks -> Requests]
  /\ jobs \subseteq Tasks
  /\ job_history \in [Tasks -> Seq(JobEvents)]

JobInit ==
  /\ Init
  /\ requests = [t \in Tasks |-> "none"]
  /\ jobs = {}
  /\ job_history = [t \in Tasks |-> <<>>]

AppendEvent(t, e) == job_history' = [job_history EXCEPT ![t] = Append(@, e)]

RequestGoes(t, from, to) ==
  /\ requests[t] = from
  /\ requests' = [requests EXCEPT ![t] = to]

-----------------------------------------------------------------------------
\* POST /submissions

CreateSubmission(t) ==
  /\ RequestGoes(t, "none", "created")
  /\ UNCHANGED <<vars, jobs, job_history>>

\* build_job_definition or validate refuses the job: nothing is saved.
InvalidJob(t) ==
  /\ RequestGoes(t, "created", "invalid")
  /\ UNCHANGED <<vars, jobs, job_history>>

\* Mutant: the job is saved only when its dispatch is noted.
SaveJob_Later(t) ==
  /\ RequestGoes(t, "created", "saved")
  /\ UNCHANGED <<vars, jobs, job_history>>

SaveJob(t) ==
  /\ RequestGoes(t, "created", "saved")
  /\ jobs' = jobs \cup {t}
  /\ UNCHANGED <<vars, job_history>>

SubmissionFailed(t) == AppendEvent(t, JobEvent("JobPlatform", "Failed", 1))

\* Mutant: the failure is noted, but the early return is missing.
HandlerRejects_Proceeds(t) ==
  /\ requests[t] = "saved"
  /\ job_history[t] = <<>>
  /\ SubmissionFailed(t)
  /\ UNCHANGED <<vars, jobs, requests>>

\* The handler is missing, cannot read the payload or rejects the dispatch.
HandlerRejects(t) ==
  /\ RequestGoes(t, "saved", "rejected")
  /\ SubmissionFailed(t)
  /\ UNCHANGED <<vars, jobs>>

Dispatch(t) ==
  /\ RequestGoes(t, "saved", "dispatching")
  /\ Schedule(t)
  /\ UNCHANGED <<jobs, job_history>>

\* schedule has returned an error.
DispatchFailed(t) ==
  /\ schedules[t] = "refused"
  /\ RequestGoes(t, "dispatching", "rejected")
  /\ SubmissionFailed(t)
  /\ UNCHANGED <<vars, jobs>>

\* schedule has returned a receipt.
Dispatched(t) ==
  /\ schedules[t] = "accepted"
  /\ RequestGoes(t, "dispatching", "answered")
  /\ AppendEvent(t, JobEvent("JobPlatform", "Enqueued", 1))
  /\ UNCHANGED <<vars, jobs>>

-----------------------------------------------------------------------------
\* JobRuntimeEventObserver, behind the OJ service in CompositeRuntimeObserver.

\* Mutant: reports on a job the platform has not yet noted are dropped.
Note_DispatchedOnly(e, handled) ==
  IF handled /\ requests[e.task] = "answered"
  THEN AppendEvent(e.task,
                   JobEvent("Runtime", JobStatus(e.status), e.attempt))
  ELSE UNCHANGED job_history

Note(e, handled) ==
  IF handled
  THEN AppendEvent(e.task,
                   JobEvent("Runtime", JobStatus(e.status), e.attempt))
  ELSE UNCHANGED job_history

NoteQueued(t, handled) ==
  /\ ObserveQueued(t, handled)
  /\ Note(Event(t, 0, 1, "Queued"), handled)
  /\ UNCHANGED <<requests, jobs>>

NoteEvent(w, handled) ==
  /\ ObserveEvent(w, handled)
  /\ Note(Event(Task(w), delivery[w].life, delivery[w].attempt, status[w]),
          handled)
  /\ UNCHANGED <<requests, jobs>>

-----------------------------------------------------------------------------
\* Nobody but the platform schedules; the loops go on as they do.
RequestStep(t) ==
  \/ InvalidJob(t)
  \/ SaveJob(t)
  \/ HandlerRejects(t)
  \/ Dispatch(t)
  \/ DispatchFailed(t)
  \/ Dispatched(t)
  \/ (Enqueued(t) \/ EnqueueFails(t)) /\ UNCHANGED jobVars

SilentStep(w) ==
  /\ \/ \E t \in Tasks : ReserveDelivery(w, t)
     \/ Poll(w)
     \/ UpdateSnapshot(w)
     \/ Prepare(w)
     \/ StartStage(w)
     \/ Execute(w)
     \/ AckDelivery(w)
     \/ RetryDelivery(w)
  /\ UNCHANGED jobVars

JobNext ==
  \/ \E t \in Tasks : CreateSubmission(t) \/ RequestStep(t)
  \/ \E t \in Tasks : ReplayDeadLetter(t) /\ UNCHANGED jobVars
  \/ \E handled \in BOOLEAN :
       \/ \E t \in Tasks : NoteQueued(t, handled)
       \/ \E w \in Workers : NoteEvent(w, handled)
  \/ \E w \in Workers : SilentStep(w)

JobSpec == JobInit /\ [][JobNext]_allVars

-----------------------------------------------------------------------------
\* The query service.

IsSubmissionFailure(e) == e.source = "JobPlatform" /\ e.status = "Failed"

\* latest_submission_failure is Some
SubmissionFailureShown(t) ==
  \E i \in DOMAIN job_history[t] : IsSubmissionFailure(job_history[t][i])

\* get_job: the runtime's snapshot when there is one, the last event of the
\* job's history when there is none; no job without either.
ShownStatus(t) ==
  CASE t \notin jobs -> "NotFound"
    [] t \in jobs /\ snapshots[t] # NoStatus -> JobStatus(snapshots[t])
    [] t \in jobs /\ snapshots[t] = NoStatus ->
         IF job_history[t] = <<>> THEN "NotFound" ELSE Last(job_history[t]).status

\* The jobs management_view counts as submission_rejected.
CountedRejected ==
  {t \in jobs : ShownStatus(t) = "Failed" /\ SubmissionFailureShown(t)}

-----------------------------------------------------------------------------
\* Properties.

Retries(t) == Cardinality(
  {i \in DOMAIN job_history[t] : job_history[t][i].status = "Retrying"})

\* A job's history tells how often it has failed: when its task is waiting or
\* dead-lettered and no loop is about to report on it, every failed attempt
\* but the last of a dead letter has left its Retrying event, although the
\* runtime may report before the platform has noted the dispatch.
FailedAttemptsRecorded ==
  \A t \in Tasks \ lost :
    /\ lives[t] = 0
    /\ Unattended(t)
    /\ place[t].at \in {"queued", "dead"}
    => Retries(t) = place[t].attempt - 1

\* A rejected submission never reaches the queue, and a job whose history shows
\* a submission failure never runs.
RejectedNeverRuns ==
  \A t \in Tasks :
    /\ requests[t] \in {"invalid", "rejected"} => place[t].at = "new"
    /\ SubmissionFailureShown(t) => requests[t] = "rejected"

\* The runtime reports on no job the query service does not know.
ReportedIsKnown ==
  \A t \in Tasks : snapshots[t] # NoStatus => t \in jobs

\* The management view counts a job as rejected only when it was, and misses one
\* only when schedule has left the Queued snapshot of a job the queue refused.
RejectedIsCounted ==
  \A t \in Tasks :
    /\ t \in CountedRejected => requests[t] = "rejected"
    /\ requests[t] = "rejected" /\ t \notin CountedRejected => snapshots[t] = "Queued"

\* What the platform, the runtime and the query service know of a job fits together.
PlatformInvariant == JobTypeOK /\ ReportedIsKnown /\ RejectedIsCounted

=============================================================================
