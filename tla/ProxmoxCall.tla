----------------------------- MODULE ProxmoxCall -----------------------------
(***************************************************************************)
(* A call of ProxmoxClient: the attempts of a request (_request), the      *)
(* polling of a task, of the guest's address and of the script that gives  *)
(* the guest a new machine-id, and what becomes at the cluster of the      *)
(* operation that was asked for. A step ends with an answer, or with its   *)
(* absence; pauses are left out.                                           *)
(***************************************************************************)
EXTENDS Integers

CONSTANTS
    MaxAttempts,   \* of a request
    MaxRounds      \* of reset_machine_id

ASSUME MaxAttemptsAssumption == MaxAttempts \in Nat \ {0}
ASSUME MaxRoundsAssumption == MaxRounds \in Nat \ {0}

VARIABLES
    kind,      \* the kind of call
    stage,     \* the request it sends next
    attempt,   \* attempts of this request that have failed
    round,     \* of reset_machine_id
    late,      \* the deadline of the polling has passed
    op,        \* the operation, at the cluster
    outcome    \* "failed": a ProxmoxError; "broken": another exception

callVars == <<kind, stage, attempt, round, late, op, outcome>>

\* "read": a GET; "set": a PUT; "task": a POST or DELETE and wait_for_task;
\* "ip": wait_for_ip; "exec": reset_machine_id with agent_exec.
Kinds == {"read", "set", "task", "ip", "exec"}
Stages == {"idle", "submit", "poll"}
Ops == {"no", "running", "failed", "yes"}
Outcomes == {"idle", "pending", "done", "failed", "broken"}

CallInit ==
    /\ kind = "read" /\ stage = "idle"
    /\ attempt = 0 /\ round = 0 /\ late = FALSE
    /\ op = "no" /\ outcome = "idle"

\* A read asks nothing of the cluster, and the address is for the guest to get.
Begin(k) ==
    /\ stage = "idle"
    /\ kind' = k /\ outcome' = "pending"
    /\ stage' = IF k = "ip" THEN "poll" ELSE "submit"
    /\ op' = IF k = "read" THEN "yes" ELSE "no"
    /\ UNCHANGED <<attempt, round, late>>

Return(result) ==
    /\ outcome' = result /\ stage' = "idle"
    /\ attempt' = 0 /\ round' = 0 /\ late' = FALSE
    /\ UNCHANGED kind

Goto(next, n) ==
    /\ stage' = next /\ attempt' = 0 /\ round' = n /\ late' = FALSE
    /\ UNCHANGED <<kind, outcome>>

PollAgain == attempt' = 0 /\ UNCHANGED <<kind, stage, round, late, outcome>>

\* Another round of reset_machine_id, or the error of the last one.
NextRound ==
    \/ round + 1 < MaxRounds /\ Goto("submit", round + 1)
    \/ round + 1 = MaxRounds /\ Return("failed")

-----------------------------------------------------------------------------
(* The cluster.                                                            *)

\* What a request to do something that gets through does. A task that is under
\* way or done is not started again; a script is.
Reached(possible) ==
    IF stage # "submit" \/ op = "yes" \/ ~possible THEN {op}
    ELSE CASE kind = "read" -> {op}
           [] kind = "set"  -> {"running", "yes"}
           [] OTHER         -> {"running"}

\* A slow request or a task comes to its end, even if nobody waits for it.
OpEnds ==
    /\ op = "running"
    /\ op' \in IF kind = "set" THEN {"yes"} ELSE {"yes", "failed"}
    /\ UNCHANGED <<kind, stage, attempt, round, late, outcome>>

GuestGetsAddress ==
    /\ kind = "ip" /\ op = "no"
    /\ op' = "yes"
    /\ UNCHANGED <<kind, stage, attempt, round, late, outcome>>

DeadlinePasses ==
    /\ stage = "poll" /\ ~late
    /\ late' = TRUE
    /\ UNCHANGED <<kind, stage, attempt, round, op, outcome>>

-----------------------------------------------------------------------------
(* The client.                                                             *)

\* A good answer to the request: a task is refused if one is under way. agent/exec
\* may come back without a pid.
Answered(possible) ==
    /\ stage = "submit"
    /\ possible /\ (kind = "task" => op # "running" /\ op # "yes")
    /\ \/ kind \in {"read", "set"} /\ op' = "yes" /\ Return("done")
       \/ kind \in {"task", "exec"} /\ op' \in Reached(possible) /\ Goto("poll", round)
       \/ kind = "exec" /\ op' = op /\ NextRound

\* Mutant: the exit status of a task is not looked at.
PolledStopped ==
    /\ stage = "poll"
    /\ UNCHANGED op
    /\ IF op \in {"yes", "failed"} THEN Return("done")
       ELSE IF ~late THEN PollAgain
       ELSE IF kind = "exec" THEN NextRound ELSE Return("failed")

\* Mutant: the polling has no deadline.
PolledForever ==
    /\ stage = "poll"
    /\ UNCHANGED op
    /\ IF op = "yes" THEN Return("done")
       ELSE IF op # "failed" THEN PollAgain
       ELSE IF kind = "exec" THEN NextRound ELSE Return("failed")

\* A good answer to a poll: ended well; not ended yet; ended badly, or the deadline
\* has passed.
Polled ==
    /\ stage = "poll"
    /\ UNCHANGED op
    /\ IF op = "yes" THEN Return("done")
       ELSE IF op # "failed" /\ ~late THEN PollAgain
       ELSE IF kind = "exec" THEN NextRound ELSE Return("failed")

\* _request raises a ProxmoxError; the loops for the address and for the machine-id
\* go on nevertheless, wait_for_task does not.
RequestFails ==
    IF kind = "exec" THEN NextRound
    ELSE IF kind = "ip" /\ ~late THEN PollAgain
    ELSE Return("failed")

\* No connection, no answer in time, or a status that is tried again: the request
\* may have got through all the same.
Transient(possible) ==
    /\ stage # "idle"
    /\ op' \in {op} \cup Reached(possible)
    /\ IF attempt + 1 < MaxAttempts
       THEN attempt' = attempt + 1 /\ UNCHANGED <<kind, stage, round, late, outcome>>
       ELSE RequestFails

\* Any other status.
Refused ==
    /\ stage # "idle"
    /\ UNCHANGED op
    /\ RequestFails

\* An exception _request does not catch: the connection breaks while the answer is
\* read, the answer is no JSON.
Breaks(possible) ==
    /\ stage # "idle"
    /\ op' \in {op} \cup Reached(possible)
    /\ Return("broken")

ClientStep(possible) ==
    Answered(possible) \/ Polled \/ Transient(possible) \/ Refused \/ Breaks(possible)

ClusterStep == OpEnds \/ GuestGetsAddress

CallTypeOK ==
    /\ kind \in Kinds /\ stage \in Stages /\ op \in Ops /\ outcome \in Outcomes
    /\ attempt \in 0 .. MaxAttempts - 1 /\ round \in 0 .. MaxRounds - 1
    /\ late \in BOOLEAN

=============================================================================
