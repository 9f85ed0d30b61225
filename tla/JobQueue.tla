------------------------------ MODULE JobQueue ------------------------------
(***************************************************************************)
(* The job queue of the panel: a durable table of jobs (models/entities,   *)
(* Job), the in-memory JOB_QUEUE of the process (workers/inprocess), the   *)
(* API handlers that first COMMIT a job and then put it on the queue, the  *)
(* single worker that takes jobs from it, and the start of the process,    *)
(* which recovers the queue from the table (main.lifespan).                *)
(*                                                                         *)
(* What a job does to its VM is left to VMLifecycle, which extends this    *)
(* module: here a running job simply succeeds or fails.                    *)
(*                                                                         *)
(* Any access to the database may raise, and nothing is tried again. A     *)
(* commit that raises has had its effect or not; if it had, it is the step *)
(* of the commit followed by the step of the error.                        *)
(***************************************************************************)
EXTENDS Integers, Sequences, FiniteSets

CONSTANTS
    Jobs,        \* the ids jobs get (uuid4 in the code), numbered in the order
                 \* in which the jobs are committed
    NoJob,       \* the worker holds no job
    MaxFaults    \* bound: how often the process may die, or a database error
                 \* strike a job

ASSUME JobIdsAssumption == Jobs \subseteq Nat
ASSUME JobsAssumption == IsFiniteSet(Jobs) /\ NoJob \notin Jobs
ASSUME MaxFaultsAssumption == MaxFaults \in Nat

VARIABLES
    jobStatus,   \* jobs.status; "none": no such row yet
    jobType,     \* jobs.type
    queue,       \* JOB_QUEUE, the job ids in it
    committed,   \* jobs whose row is committed but which are not yet put
    pc,          \* where the worker is
    current,     \* the job the worker holds
    check,       \* ssh_job, the follow-up check the worker is about to put
    mode,        \* the process: down, or how far lifespan got
    faults,      \* number of deaths and of jobs struck so far
    struck       \* ghost: the jobs whose handling a database error has cut short
                 \* since the last start, with no record of it in the table

jobVars == <<jobStatus, jobType>>
procVars == <<queue, committed, pc, current, check>>
queueVars == <<jobStatus, jobType, queue, committed, pc, current, check, mode,
               faults, struck>>

-----------------------------------------------------------------------------
(* JobType and JobStatus of models/entities.                               *)

JobTypes == {"create_vm", "reinstall_vm", "start_vm", "stop_vm", "reboot_vm",
             "delete_vm", "ssh_readiness_check"}

JobStatuses == {"none", "queued", "running", "success", "failed"}

Terminal == {"success", "failed"}

\* The payload of these two carries root_password, which is never stored, so
\* a queued one cannot be taken up again by a new process.
Resumable(t) == t \notin {"create_vm", "reinstall_vm"}

\* Mutant: a VM that was only started is not checked again.
HasFollowUpButStart(t) == t \in {"create_vm", "reinstall_vm", "reboot_vm"}

\* dispatch ends these with enqueue_ssh_check and a second put.
HasFollowUp(t) == t \in {"create_vm", "reinstall_vm", "start_vm", "reboot_vm"}

\* "loaded":   popped, rows read, job not yet marked running
\* "running":  in the body of dispatch
\* "followup": success committed, the ssh check not yet committed
\* "put":      ssh check committed, not yet on the queue
WorkerStates == {"idle", "loaded", "running", "followup", "put"}

\* "recovered": mark_orphaned_running_as_failed is committed;
\* "requeued":  the worker task exists and requeue_queued_jobs has put the
\*              resumable jobs, its final commit is still to come;
\* "up":        lifespan has yielded, requests are served.
Modes == {"down", "recovered", "requeued", "up"}

Queued == {j \in Jobs : jobStatus[j] = "queued"}

\* The orders in which a query without ORDER BY can return a set of rows.
OrderingsOf(S) ==
    {q \in [1..Cardinality(S) -> S] :
        /\ \A j \in S : \E i \in 1..Cardinality(S) : q[i] = j
        /\ \A i, k \in 1..Cardinality(S) : q[i] = q[k] => i = k}

-----------------------------------------------------------------------------
QueueInit ==
    /\ jobStatus = [j \in Jobs |-> "none"]
    /\ jobType = [j \in Jobs |-> "ssh_readiness_check"]
    /\ queue = <<>>
    /\ committed = {}
    /\ pc = "idle"
    /\ current = NoJob
    /\ check = NoJob
    /\ mode = "down"
    /\ faults = 0
    /\ struck = {}

Serving == mode = "up"

WorkerAlive == mode \in {"requeued", "up"}

\* A database error ends the handling of job j; the table does not show it.
Strike(j) ==
    /\ faults < MaxFaults
    /\ faults' = faults + 1
    /\ struck' = struck \cup {j}

\* INSERT INTO jobs ... 'queued'; COMMIT.
InsertJob(j, t) ==
    /\ jobStatus[j] = "none"
    /\ \A k \in Jobs : k < j => jobStatus[k] # "none"
    /\ jobStatus' = [jobStatus EXCEPT ![j] = "queued"]
    /\ jobType' = [jobType EXCEPT ![j] = t]
    /\ committed' = committed \cup {j}

\* JOB_QUEUE.put: the queue is unbounded, so it never blocks.
Put(j) ==
    /\ j \in committed
    /\ committed' = committed \ {j}
    /\ queue' = Append(queue, j)

\* A request handler commits the row of a new job ...
SubmitJob(j, t) ==
    /\ Serving
    /\ InsertJob(j, t)
    /\ UNCHANGED <<queue, pc, current, check, mode, faults, struck>>

\* ... and, after the refresh that follows the commit, puts it on the queue.
EnqueueJob(j) ==
    /\ Serving
    /\ check # j
    /\ Put(j)
    /\ UNCHANGED <<jobStatus, jobType, pc, current, check, mode, faults, struck>>

\* The refresh raises: the client gets an error, and nobody puts the job.
DropJob(j) ==
    /\ Serving
    /\ j \in committed /\ check # j
    /\ committed' = committed \ {j}
    /\ Strike(j)
    /\ UNCHANGED <<jobStatus, jobType, queue, pc, current, check, mode>>

\* Mutant: the entry stays on the queue until the job is done with.
WorkerPeek ==
    /\ WorkerAlive /\ pc = "idle" /\ queue # <<>>
    /\ current' = Head(queue)
    /\ pc' = "loaded"
    /\ UNCHANGED <<queue, jobStatus, jobType, committed, check, mode, faults, struck>>

\* Mutant: off by one, the last entry waits for another to come.
WorkerGetUnlessLast ==
    /\ WorkerAlive /\ pc = "idle" /\ Len(queue) > 1
    /\ current' = Head(queue)
    /\ queue' = Tail(queue)
    /\ pc' = "loaded"
    /\ UNCHANGED <<jobStatus, jobType, committed, check, mode, faults, struck>>

\* worker_loop takes the oldest entry and dispatch reads its rows. (A missing
\* job row makes dispatch return; job rows are never deleted.)
WorkerGet ==
    /\ WorkerAlive
    /\ pc = "idle"
    /\ queue # <<>>
    /\ current' = Head(queue)
    /\ queue' = Tail(queue)
    /\ pc' = "loaded"
    /\ UNCHANGED <<jobStatus, jobType, committed, check, mode, faults, struck>>

\* job.status = running; commit. dispatch does not look at the old status.
WorkerStart ==
    /\ WorkerAlive
    /\ pc = "loaded"
    /\ pc' = "running"
    /\ jobStatus' = [jobStatus EXCEPT ![current] = "running"]
    /\ UNCHANGED <<jobType, queue, committed, current, check, mode, faults, struck>>

\* The reads or that commit raise, outside dispatch's try block: worker_loop logs it
\* and takes the next entry. The job is off the queue and still queued in the table.
WorkerDrops ==
    /\ WorkerAlive
    /\ pc = "loaded"
    /\ Strike(current)
    /\ pc' = "idle"
    /\ current' = NoJob
    /\ UNCHANGED <<jobVars, queue, committed, check, mode>>

WorkerSucceed ==
    /\ WorkerAlive
    /\ pc = "running"
    /\ jobStatus' = [jobStatus EXCEPT ![current] = "success"]
    /\ \/ /\ HasFollowUp(jobType[current])
          /\ pc' = "followup"
          /\ UNCHANGED current
       \/ /\ ~HasFollowUp(jobType[current])
          /\ pc' = "idle"
          /\ current' = NoJob
    /\ UNCHANGED <<jobType, queue, committed, check, mode, faults, struck>>

\* The body raises, and the except clause commits that it did.
WorkerFail ==
    /\ WorkerAlive
    /\ pc = "running"
    /\ jobStatus' = [jobStatus EXCEPT ![current] = "failed"]
    /\ pc' = "idle"
    /\ current' = NoJob
    /\ UNCHANGED <<jobType, queue, committed, check, mode, faults, struck>>

\* enqueue_ssh_check: the worker commits a job of its own ...
WorkerSubmitCheck(k) ==
    /\ WorkerAlive
    /\ pc = "followup"
    /\ InsertJob(k, "ssh_readiness_check")
    /\ pc' = "put"
    /\ check' = k
    /\ UNCHANGED <<queue, current, mode, faults, struck>>

\* ... and puts it on its own queue.
WorkerEnqueueCheck ==
    /\ WorkerAlive
    /\ pc = "put"
    /\ Put(check)
    /\ pc' = "idle"
    /\ current' = NoJob
    /\ check' = NoJob
    /\ UNCHANGED <<jobStatus, jobType, mode, faults, struck>>

\* The refresh in enqueue_ssh_check raises, and the except clause commits: the job
\* that had succeeded has failed, and nobody puts its check.
WorkerRetracts ==
    /\ WorkerAlive
    /\ pc = "put"
    /\ Strike(check)
    /\ jobStatus' = [jobStatus EXCEPT ![current] = "failed"]
    /\ committed' = committed \ {check}
    /\ pc' = "idle"
    /\ current' = NoJob
    /\ check' = NoJob
    /\ UNCHANGED <<jobType, queue, mode>>

\* A commit in the body or after it raises, and so does the one of the except clause:
\* it is made in the same session, which nobody has rolled back. worker_loop goes on,
\* and the table keeps what the last good commit said.
WorkerAbandons ==
    /\ WorkerAlive
    /\ pc \in {"running", "followup", "put"}
    /\ Strike(IF pc = "put" THEN check ELSE current)
    /\ committed' = committed \ {check}
    /\ pc' = "idle"
    /\ current' = NoJob
    /\ check' = NoJob
    /\ UNCHANGED <<jobVars, queue, mode>>

\* The process dies: its memory goes, the table stays.
Crash ==
    /\ mode # "down"
    /\ faults < MaxFaults
    /\ faults' = faults + 1
    /\ mode' = "down"
    /\ queue' = <<>>
    /\ committed' = {}
    /\ pc' = "idle"
    /\ current' = NoJob
    /\ check' = NoJob
    /\ UNCHANGED <<jobVars, struck>>

\* Mutant: jobs a crash interrupted are left running.
RecoverNothing ==
    /\ mode = "down"
    /\ mode' = "recovered"
    /\ struck' = {}
    /\ UNCHANGED <<jobVars, procVars, faults>>

\* Mutant: jobs a crash interrupted are tried again.
RecoverRetries ==
    /\ mode = "down"
    /\ mode' = "recovered"
    /\ jobStatus' = [j \in Jobs |->
                        IF jobStatus[j] = "running" THEN "queued" ELSE jobStatus[j]]
    /\ struck' = {}
    /\ UNCHANGED <<jobType, procVars, faults>>

\* lifespan, first part: mark_orphaned_running_as_failed. Jobs that were struck are
\* ended here with the interrupted one, or taken up again by the next steps.
Recover ==
    /\ mode = "down"
    /\ mode' = "recovered"
    /\ jobStatus' = [j \in Jobs |->
                        IF jobStatus[j] = "running" THEN "failed" ELSE jobStatus[j]]
    /\ struck' = {}
    /\ UNCHANGED <<jobType, procVars, faults>>

\* Mutant: the ssh checks are not taken up again.
RequeueButChecks ==
    /\ mode = "recovered"
    /\ mode' = "requeued"
    /\ queue' \in OrderingsOf({j \in Queued :
                      Resumable(jobType[j]) /\ jobType[j] # "ssh_readiness_check"})
    /\ UNCHANGED <<jobVars, committed, pc, current, check, faults, struck>>

\* requeue_queued_jobs, select and loop: no step of another task comes between,
\* since put on an unbounded queue does not suspend.
Requeue ==
    /\ mode = "recovered"
    /\ mode' = "requeued"
    /\ queue' \in OrderingsOf({j \in Queued : Resumable(jobType[j])})
    /\ UNCHANGED <<jobVars, committed, pc, current, check, faults, struck>>

\* requeue_queued_jobs, the commit that ends the jobs it could not take up;
\* then lifespan yields.
RequeueCommit ==
    /\ mode = "requeued"
    /\ mode' = "up"
    /\ jobStatus' = [j \in Jobs |->
                        IF jobStatus[j] = "queued" /\ ~Resumable(jobType[j])
                        THEN "failed" ELSE jobStatus[j]]
    /\ UNCHANGED <<jobType, procVars, faults, struck>>

WorkerStep ==
    \/ WorkerGet \/ WorkerStart \/ WorkerSucceed \/ WorkerFail
    \/ \E k \in Jobs : WorkerSubmitCheck(k)
    \/ WorkerEnqueueCheck
    \/ WorkerDrops \/ WorkerRetracts \/ WorkerAbandons

BootStep == Recover \/ Requeue \/ RequeueCommit

QueueNext ==
    \/ \E j \in Jobs, t \in JobTypes : SubmitJob(j, t)
    \/ \E j \in Jobs : EnqueueJob(j) \/ DropJob(j)
    \/ WorkerStep
    \/ BootStep
    \/ Crash

\* Jobs that will yet be run to their end, if the process does not die.
Unfinished(j) == jobStatus[j] = "queued" \/ (jobStatus[j] = "running" /\ j \notin struck)

\* Follow-up checks still to be committed for jobs accepted so far.
OwedChecks ==
    Cardinality({j \in Jobs : Unfinished(j) /\ HasFollowUp(jobType[j])})
      + (IF pc = "followup" THEN 1 ELSE 0)

QueueSpec == QueueInit /\ [][QueueNext]_queueVars

(***************************************************************************)
(* Fairness. The worker is one task of the event loop and every wait in a  *)
(* job has a deadline, so an enabled worker step is eventually taken; a    *)
(* handler that has committed runs on to its put or to the error that      *)
(* keeps it from it; the container restarts the process (docker-compose:   *)
(* restart: unless-stopped). Nothing is assumed of clients or of crashes,  *)
(* except that crashes are finitely many.                                  *)
(***************************************************************************)
QueueFairness ==
    /\ WF_queueVars(WorkerStep)
    /\ WF_queueVars(BootStep)
    /\ \A j \in Jobs : WF_queueVars(EnqueueJob(j) \/ DropJob(j))

-----------------------------------------------------------------------------
(* Properties.                                                             *)

QueueTypeOK ==
    /\ jobStatus \in [Jobs -> JobStatuses]
    /\ jobType \in [Jobs -> JobTypes]
    /\ queue \in Seq(Jobs)
    /\ committed \subseteq Jobs
    /\ pc \in WorkerStates
    /\ current \in Jobs \cup {NoJob}
    /\ check \in Jobs \cup {NoJob}
    /\ mode \in Modes
    /\ faults \in 0..MaxFaults
    /\ struck \subseteq Jobs

InQueue(j) == \E i \in 1..Len(queue) : queue[i] = j

\* No job is lost but by a database error: while requests are served, every job the
\* table shows as queued is on its way to the worker - on the queue, about to be put by
\* the handler that committed it, or just popped - or the error that took it off its
\* way has struck it since the last start (worker_loop's except, the refresh between a
\* handler's commit and its put). Nobody else would ever run it (inprocess.enqueue,
\* requeue_queued_jobs).
NoLostJob ==
    Serving => \A j \in Queued :
                   \/ InQueue(j) \/ j \in committed \/ (pc = "loaded" /\ current = j)
                   \/ j \in struck

\* No job is delivered twice: an entry of the queue occurs once, is still
\* queued in the table and is neither with the worker nor with a handler.
\* dispatch relies on this, it never checks the status it overwrites.
NoDoubleDelivery ==
    /\ \A i, k \in 1..Len(queue) : queue[i] = queue[k] => i = k
    /\ \A j \in Jobs : InQueue(j) =>
           jobStatus[j] = "queued" /\ j \notin committed /\ current # j

\* A row says running while the worker is in that job's body, and otherwise only if a
\* database error kept dispatch from recording how the job ended: what
\* mark_orphaned_running_as_failed finds after a restart is the one job the
\* crash interrupted, and those.
RunningIsCurrent ==
    mode # "down" =>
        /\ pc = "running" => jobStatus[current] = "running"
        /\ \A j \in Jobs : jobStatus[j] = "running" =>
                              (pc = "running" /\ current = j) \/ j \in struck

\* A job is run at most once, whatever the crashes, restarts and errors: a row's status
\* only moves forward (inprocess.dispatch and requeue_queued_jobs,
\* lifecycle.mark_orphaned_running_as_failed), and the body is only entered
\* from queued. A success may still be taken back, when its follow-up check fails.
Forward ==
    {<<"none", "queued">>, <<"queued", "running">>, <<"queued", "failed">>,
     <<"running", "success">>, <<"running", "failed">>, <<"success", "failed">>}

JobStep ==
    /\ \A j \in Jobs : jobStatus'[j] # jobStatus[j] =>
                           <<jobStatus[j], jobStatus'[j]>> \in Forward
    /\ (pc # "running" /\ pc' = "running") => jobStatus[current'] = "queued"

RunAtMostOnce == [][JobStep]_queueVars

\* Every accepted job ends: it is run, a restart ends it, or a database error strikes it.
EveryJobEnds ==
    \A j \in Jobs : jobStatus[j] = "queued" ~> (jobStatus[j] \in Terminal \/ j \in struck)

\* What a client may rely on without knowing of queue, worker and handlers: jobs are
\* worked on one at a time, even when a crash or an error left one running, and a job
\* fails unrun only in the start of a process (JobPromise; dispatch, lifespan).
Phase ==
    IF mode \in {"recovered", "requeued"} THEN "starting"
    ELSE IF mode = "up" THEN "serving" ELSE "down"

Working == IF pc \in {"running", "followup", "put"} THEN {current} ELSE {}

Promise == INSTANCE JobPromise WITH status <- jobStatus, phase <- Phase, working <- Working

KeepsJobPromise == Promise!Spec

=============================================================================
