----------------------------- MODULE JobPromise -----------------------------
(***************************************************************************)
(* What the panel promises of the jobs it accepts, whatever becomes of its *)
(* process and its database: jobs are worked on one at a time and each is  *)
(* begun at most once, a job fails without having been begun only when a   *)
(* process starts, only who works on a job ends it or takes its success    *)
(* back, and a job that is still running when a process starts has failed  *)
(* when that process gets to work.                                         *)
(***************************************************************************)
CONSTANT Jobs

VARIABLES
    status,   \* of each job, as the table shows it
    phase,    \* of the process: "down", "starting", "serving"
    working   \* the job being worked on, or none

vars == <<status, phase, working>>

Init == status = [j \in Jobs |-> "none"] /\ phase = "down" /\ working = {}

Submit(j) ==
    /\ phase # "down" /\ status[j] = "none"
    /\ status' = [status EXCEPT ![j] = "queued"]
    /\ UNCHANGED <<phase, working>>

Start(j) ==
    /\ phase # "down" /\ status[j] = "queued"
    /\ working = {} /\ working' = {j}
    /\ status' = [status EXCEPT ![j] = "running"]
    /\ UNCHANGED phase

\* A job that succeeded may have something left to do.
Succeed(j) ==
    /\ j \in working /\ status[j] = "running"
    /\ status' = [status EXCEPT ![j] = "success"]
    /\ working' \in {working, {}}
    /\ UNCHANGED phase

\* A success is taken back when what was left to do failed.
Fail(j) ==
    /\ j \in working /\ status[j] \in {"running", "success"}
    /\ status' = [status EXCEPT ![j] = "failed"]
    /\ working' = {}
    /\ UNCHANGED phase

\* Nothing is left to do, or the database does not take what became of the job.
Leave == working # {} /\ working' = {} /\ UNCHANGED <<status, phase>>

Die == phase # "down" /\ phase' = "down" /\ working' = {} /\ UNCHANGED status

Boot ==
    /\ phase = "down" /\ phase' = "starting"
    /\ status' = [j \in Jobs |-> IF status[j] = "running" THEN "failed" ELSE status[j]]
    /\ UNCHANGED working

\* The jobs in Dropped cannot be taken up by a new process.
Serve ==
    /\ phase = "starting" /\ phase' = "serving"
    /\ \E Dropped \in SUBSET {j \in Jobs : status[j] = "queued"} :
          status' = [j \in Jobs |-> IF j \in Dropped THEN "failed" ELSE status[j]]
    /\ UNCHANGED working

Next ==
    \/ \E j \in Jobs : Submit(j) \/ Start(j) \/ Succeed(j) \/ Fail(j)
    \/ Leave \/ Die \/ Boot \/ Serve

Spec == Init /\ [][Next]_vars

=============================================================================
