--------------------------- MODULE ProvisionProofs ---------------------------
(* Proofs about ProxmoxCall and Provision, for any number of attempts and  *)
(* rounds, and for disks of any size.                                      *)
EXTENDS Provision, TLAPS

-----------------------------------------------------------------------------
(* Arithmetic.                                                             *)

\* The quotient of a division, by its two bounds.
LEMMA Quotient ==
    ASSUME NEW a \in Nat, NEW p \in Nat \ {0}
    PROVE  /\ a \div p \in Nat
           /\ (a \div p) * p <= a
           /\ a < (a \div p) * p + p
OBVIOUS

\* Multiplication is monotone.
LEMMA Monotone ==
    ASSUME NEW a \in Int, NEW b \in Int, NEW p \in Nat, a <= b
    PROVE  a * p <= b * p
OBVIOUS

\* InGb rounds up to whole gigabytes.
LEMMA RoundsUp ==
    ASSUME NEW d \in Nat \ {0}
    PROVE  InGb(d) \in Nat \ {0} /\ (InGb(d) - 1) * Parts < d
<1> DEFINE q == (d + Parts - 1) \div Parts
<1>1. q \in Nat /\ q * Parts <= d + Parts - 1
  BY Quotient, PartsAssumption
<1>2. InGb(d) = IF 1 > q THEN 1 ELSE q
  BY DEF InGb, Larger
<1>3. q \in Nat => (q - 1) * Parts = q * Parts - Parts
  BY PartsAssumption
<1> QED
  BY <1>1, <1>2, <1>3, PartsAssumption

\* A disk of whole gigabytes is not rounded.
LEMMA WholeGigabytes ==
    ASSUME NEW g \in Nat \ {0}
    PROVE  InGb(g * Parts) = g
<1> DEFINE a == g * Parts + Parts - 1
           q == a \div Parts
<1>1. a \in Nat /\ Parts \in Nat \ {0}
  BY PartsAssumption
<1>2. q \in Nat /\ q * Parts <= a /\ a < q * Parts + Parts
  BY <1>1, Quotient
<1>3. ASSUME q + 1 <= g PROVE FALSE
  <2>1. (q + 1) * Parts <= g * Parts
    BY <1>1, <1>2, <1>3, Monotone
  <2>2. (q + 1) * Parts = q * Parts + Parts
    BY <1>1, <1>2
  <2> QED
    BY <1>1, <1>2, <2>1, <2>2
<1>4. ASSUME g + 1 <= q PROVE FALSE
  <2>1. (g + 1) * Parts <= q * Parts
    BY <1>1, <1>2, <1>4, Monotone
  <2>2. (g + 1) * Parts = g * Parts + Parts
    BY <1>1
  <2> QED
    BY <1>1, <1>2, <2>1, <2>2
<1>5. q = g
  BY <1>2, <1>3, <1>4
<1> QED
  BY <1>5 DEF InGb, Larger

-----------------------------------------------------------------------------
(* The call.                                                               *)

\* What becomes of a call in any step of the job: a good return finds the operation
\* done at the cluster, and nothing undoes it.
CallKept ==
    /\ outcome = "pending" <=> stage # "idle"
    /\ outcome = "done" => op = "yes"

\* The ways a step of the client ends, whatever became of the operation: the call
\* returns, sends another request, or polls again.
LEMMA ReturnKeeps ==
    ASSUME CallTypeOK, op' \in Ops, NEW r \in {"done", "failed", "broken"}, Return(r),
           r = "done" => op' = "yes"
    PROVE  CallTypeOK' /\ CallKept' /\ kind' = kind
<1>1. outcome' = r /\ stage' = "idle" /\ kind' = kind
  BY DEF Return
<1>2. CallKept'
  BY <1>1 DEF CallKept
<1>3. outcome' \in Outcomes /\ stage' \in Stages /\ kind' \in Kinds /\ op' \in Ops
  BY <1>1 DEF CallTypeOK, Stages, Outcomes
<1>4. attempt' = 0 /\ round' = 0 /\ late' = FALSE
  BY DEF Return
<1>5. attempt' \in 0 .. MaxAttempts - 1 /\ round' \in 0 .. MaxRounds - 1
  BY <1>4, MaxAttemptsAssumption, MaxRoundsAssumption
<1> QED
  BY <1>1, <1>2, <1>3, <1>4, <1>5 DEF CallTypeOK

LEMMA GotoKeeps ==
    ASSUME CallTypeOK, outcome = "pending", op' \in Ops, NEW s \in {"submit", "poll"},
           NEW n \in 0 .. MaxRounds - 1, Goto(s, n)
    PROVE  CallTypeOK' /\ CallKept' /\ kind' = kind
<1>1. /\ stage' = s /\ attempt' = 0 /\ round' = n
      /\ kind' = kind /\ outcome' = outcome
  BY DEF Goto
<1>2. CallKept'
  BY <1>1 DEF CallKept
<1>3. outcome' \in Outcomes /\ stage' \in Stages /\ kind' \in Kinds
  BY <1>1 DEF CallTypeOK, Stages
<1>4. late' \in BOOLEAN
  BY DEF Goto
<1>5. attempt' \in 0 .. MaxAttempts - 1 /\ round' \in 0 .. MaxRounds - 1
  BY <1>1, MaxAttemptsAssumption
<1> QED
  BY <1>1, <1>2, <1>3, <1>4, <1>5 DEF CallTypeOK

LEMMA PollAgainKeeps ==
    ASSUME CallTypeOK, outcome = "pending", stage # "idle", op' \in Ops, PollAgain
    PROVE  CallTypeOK' /\ CallKept' /\ kind' = kind
BY MaxAttemptsAssumption DEF CallTypeOK, CallKept, PollAgain

LEMMA NextRoundKeeps ==
    ASSUME CallTypeOK, outcome = "pending", op' \in Ops, NextRound
    PROVE  CallTypeOK' /\ CallKept' /\ kind' = kind
<1>1. CASE round + 1 < MaxRounds /\ Goto("submit", round + 1)
  <2>1. round + 1 \in 0 .. MaxRounds - 1
    BY <1>1, MaxRoundsAssumption DEF CallTypeOK
  <2> QED
    BY <1>1, <2>1, GotoKeeps
<1>2. CASE Return("failed")
  BY <1>2, ReturnKeeps
<1> QED
  BY <1>1, <1>2 DEF NextRound

LEMMA RequestFailsKeeps ==
    ASSUME CallTypeOK, outcome = "pending", stage # "idle", op' \in Ops, RequestFails
    PROVE  CallTypeOK' /\ CallKept' /\ kind' = kind
BY ReturnKeeps, NextRoundKeeps, PollAgainKeeps DEF RequestFails

\* A request that gets through never undoes what has been done.
LEMMA ReachedKeeps ==
    ASSUME CallTypeOK, NEW possible, NEW next \in {op} \cup Reached(possible)
    PROVE  next \in Ops /\ (op = "yes" => next = "yes")
BY DEF CallTypeOK, Reached, Ops

\* Where the client's steps may lead.
LEMMA ClientStepKeeps ==
    ASSUME CallTypeOK, CallKept, NEW possible \in BOOLEAN, ClientStep(possible)
    PROVE  /\ CallTypeOK' /\ CallKept' /\ kind' = kind
           /\ outcome = "pending"
           /\ op = "yes" => op' = "yes"
<1>0. stage # "idle" /\ outcome = "pending"
  BY DEF ClientStep, Answered, Polled, Transient, Refused, Breaks, CallKept
<1>1. op' \in Ops /\ (op = "yes" => op' = "yes")
  <2>1. op' = "yes" \/ op' = op \/ op' \in {op} \cup Reached(possible)
    BY DEF ClientStep, Answered, Polled, Transient, Refused, Breaks
  <2> QED
    BY <2>1, ReachedKeeps DEF CallTypeOK, Ops
<1>2. CASE Answered(possible)
  <2>1. CASE op' = "yes" /\ Return("done")
    BY <1>0, <1>1, <2>1, ReturnKeeps
  <2>2. CASE Goto("poll", round)
    <3>1. round \in 0 .. MaxRounds - 1
      BY DEF CallTypeOK
    <3> QED
      BY <1>0, <1>1, <2>2, <3>1, GotoKeeps
  <2>3. CASE NextRound
    BY <1>0, <1>1, <2>3, NextRoundKeeps
  <2> QED
    BY <1>0, <1>1, <1>2, <2>1, <2>2, <2>3 DEF Answered
<1>3. CASE Polled
  <2>1. CASE op = "yes"
    <3>1. Return("done") /\ op' = "yes"
      BY <1>1, <1>3, <2>1 DEF Polled
    <3> QED
      BY <1>0, <1>1, <3>1, ReturnKeeps
  <2>2. CASE op # "yes"
    <3>1. PollAgain \/ NextRound \/ Return("failed")
      BY <1>3, <2>2 DEF Polled
    <3>2. CASE Return("failed")
      BY <1>0, <1>1, <3>2, ReturnKeeps
    <3> QED
      BY <1>0, <1>1, <3>1, <3>2, PollAgainKeeps, NextRoundKeeps
  <2> QED
    BY <1>0, <1>1, <2>1, <2>2
<1>4. CASE Transient(possible)
  <2>1. CASE attempt + 1 < MaxAttempts
    <3>1. attempt' = attempt + 1 /\ UNCHANGED <<kind, stage, round, late, outcome>>
      BY <1>4, <2>1 DEF Transient
    <3>2. attempt' \in 0 .. MaxAttempts - 1
      BY <2>1, <3>1, MaxAttemptsAssumption DEF CallTypeOK
    <3> QED
      BY <1>0, <1>1, <3>1, <3>2 DEF CallTypeOK, CallKept
  <2>2. CASE ~(attempt + 1 < MaxAttempts)
    BY <1>0, <1>1, <1>4, <2>2, RequestFailsKeeps DEF Transient
  <2> QED
    BY <1>0, <1>1, <2>1, <2>2
<1>5. CASE Refused
  BY <1>0, <1>1, <1>5, RequestFailsKeeps DEF Refused
<1>6. CASE Breaks(possible)
  BY <1>0, <1>1, <1>6, ReturnKeeps DEF Breaks
<1> QED
  BY <1>2, <1>3, <1>4, <1>5, <1>6 DEF ClientStep

\* The cluster's steps and the clock's.
LEMMA OtherStepKeeps ==
    ASSUME CallTypeOK, CallKept, ClusterStep \/ DeadlinePasses
    PROVE  /\ CallTypeOK' /\ CallKept'
           /\ op = "yes" => op' = "yes"
           /\ kind' = kind /\ outcome' = outcome /\ stage' = stage
BY DEF CallTypeOK, CallKept, Kinds, Stages, Ops, Outcomes, ClusterStep, OpEnds,
       GuestGetsAddress, DeadlinePasses

-----------------------------------------------------------------------------
(* The job around the call.                                                *)

PCs == Calling \cup Ended \cup {"idle", "decide"}

\* A call is under way only in the steps that have one.
CallInv == CallTypeOK /\ CallKept /\ pc \in PCs /\ (pc \notin Calling => stage = "idle")

\* A step of the job begins its call or goes on without one; the call before is over.
LEMMA EnterKeeps ==
    ASSUME CallInv, stage = "idle", NEW step \in PCs, Enter(step)
    PROVE  /\ CallInv' /\ pc' = step
           /\ step = "resize" => op' = "no"
           /\ [Promise!Next]_(Promise!vars)
<1>1. CASE step \in Calling
  <2>1. CallOf[step] \in Kinds /\ (step = "resize" => CallOf[step] = "set")
    BY <1>1 DEF Calling, CallOf, Kinds
  <2>2. Begin(CallOf[step]) /\ pc' = step
    BY <1>1 DEF Enter
  <2>3. CallTypeOK'
    BY <2>1, <2>2 DEF Begin, CallInv, CallTypeOK, Stages, Ops, Outcomes
  <2>4. CallKept' /\ outcome # "pending" /\ outcome' = "pending"
    BY <2>2 DEF Begin, CallInv, CallKept
  <2>5. step = "resize" => op' = "no"
    BY <2>1, <2>2 DEF Begin
  <2>6. Promise!Begin
    BY <2>4 DEF Promise!Begin
  <2> QED
    BY <1>1, <2>2, <2>3, <2>4, <2>5, <2>6 DEF CallInv, Promise!Next
<1>2. CASE step \notin Calling
  <2>1. UNCHANGED callVars /\ pc' = step
    BY <1>2 DEF Enter
  <2>2. step # "resize"
    BY <1>2 DEF Calling, CallOf
  <2> QED
    BY <1>2, <2>1, <2>2 DEF callVars, CallInv, CallTypeOK, CallKept, Promise!vars
<1> QED
  BY <1>1, <1>2

\* A call under way, and the cluster.
LEMMA CallsKeep ==
    ASSUME CallInv, CallProceeds \/ ClusterProceeds \/ TimePasses
    PROVE  /\ CallInv'
           /\ op = "yes" => op' = "yes"
           /\ [Promise!Next]_(Promise!vars)
<1>1. CASE CallProceeds
  <2>1. ClientStep(Possible) /\ pc' = pc /\ pc \in Calling
    BY <1>1 DEF CallProceeds, Calls
  <2>2. CallTypeOK' /\ CallKept' /\ outcome = "pending" /\ (op = "yes" => op' = "yes")
    BY <2>1, ClientStepKeeps DEF CallInv, Possible
  <2>3. outcome' \in {"pending", "done", "failed", "broken"}
    BY <2>1, <2>2
       DEF ClientStep, Answered, Polled, Transient, Refused, Breaks, Return, Goto, PollAgain,
           NextRound, RequestFails
  <2>4. [Promise!Next]_(Promise!vars)
    BY <2>2, <2>3
       DEF CallKept, Promise!Next, Promise!vars, Promise!Return, Promise!Raise,
           Promise!TakeEffect
  <2> QED
    BY <2>1, <2>2, <2>4 DEF CallInv
<1>2. CASE ClusterProceeds \/ TimePasses
  <2>1. (ClusterStep \/ DeadlinePasses) /\ pc' = pc
    BY <1>2 DEF ClusterProceeds, TimePasses, Calls
  <2>2. /\ CallTypeOK' /\ CallKept' /\ (op = "yes" => op' = "yes")
        /\ outcome' = outcome /\ stage' = stage
    BY <2>1, OtherStepKeeps DEF CallInv
  <2> QED
    BY <2>1, <2>2 DEF CallInv, Promise!Next, Promise!vars, Promise!TakeEffect
<1> QED
  BY <1>1, <1>2

\* What every other step does to the call: it enters another step of the job, when
\* none is under way.
LEMMA JobEnters ==
    ASSUME CallInv,
           \/ \E gb \in Requests, min \in Minima, t \in TemplateDisks : Create(gb, min, t)
           \/ \E t \in TemplateDisks : Reinstall(t)
           \/ JobStep
    PROVE  stage = "idle" /\ \E step \in PCs : Enter(step)
<1> USE DEF PCs, Calling, CallOf, Ended, CallInv
<1>1. CASE \E gb \in Requests, min \in Minima, t \in TemplateDisks : Create(gb, min, t)
  BY <1>1 DEF Create, BeginJob
<1>2. CASE \E t \in TemplateDisks : Reinstall(t)
  BY <1>2 DEF Reinstall, BeginJob
<1>3. CASE LookedUp
  BY <1>3 DEF LookedUp, Came
<1>4. CASE Fails
  BY <1>4 DEF Fails, Came
<1>5. CASE Proceeds
  BY <1>5 DEF Proceeds, Came, Following
<1>6. CASE Settles
  BY <1>6 DEF Settles, Came
<1>7. CASE AskedCluster
  BY <1>7 DEF AskedCluster, Came
<1>8. CASE AskedNode
  BY <1>8 DEF AskedNode, Came
<1>9. CASE Skip \/ Resize
  BY <1>9 DEF Skip, Resize
<1>10. CASE Resized
  BY <1>10 DEF Resized, Came
<1> QED
  BY <1>1, <1>2, <1>3, <1>4, <1>5, <1>6, <1>7, <1>8, <1>9, <1>10 DEF JobStep

\* Every step keeps the invariant and is one the promise allows.
LEMMA StepKeeps ==
    ASSUME CallInv, [Next]_vars
    PROVE  CallInv' /\ [Promise!Next]_(Promise!vars)
<1>1. CASE CallProceeds \/ ClusterProceeds \/ TimePasses
  BY <1>1, CallsKeep
<1>2. CASE UNCHANGED vars
  BY <1>2 DEF vars, callVars, CallInv, CallTypeOK, CallKept, Promise!vars
<1>3. CASE \/ \E gb \in Requests, min \in Minima, t \in TemplateDisks : Create(gb, min, t)
           \/ \E t \in TemplateDisks : Reinstall(t)
           \/ JobStep
  BY <1>3, JobEnters, EnterKeeps
<1> QED
  BY <1>1, <1>2, <1>3 DEF Next

LEMMA CallInvHolds == Spec => []CallInv
<1>1. Init => CallInv
  <2>1. Init => CallTypeOK
    <3> SUFFICES ASSUME Init PROVE CallTypeOK
      OBVIOUS
    <3>1. attempt \in 0 .. MaxAttempts - 1 /\ round \in 0 .. MaxRounds - 1
      BY MaxAttemptsAssumption, MaxRoundsAssumption DEF Init, CallInit
    <3>2. late \in BOOLEAN
      BY DEF Init, CallInit
    <3> QED
      BY <3>1, <3>2 DEF Init, CallInit, CallTypeOK, Kinds, Stages, Ops, Outcomes
  <2> QED
    BY <2>1 DEF Init, CallInit, CallInv, CallKept, PCs
<1>2. CallInv /\ [Next]_vars => CallInv'
  BY StepKeeps
<1> QED
  BY <1>1, <1>2, PTL DEF Spec

\* ProxmoxClient implements what the jobs rely on: for any number of attempts and rounds,
\* a call that returns has had its effect (_request, wait_for_task, wait_for_ip,
\* reset_machine_id).
THEOREM ClientKeepsPromise == Spec => KeepsPromise
<1>1. Init => Promise!Init
  BY DEF Init, CallInit, Promise!Init
<1>2. CallInv /\ [Next]_vars => [Promise!Next]_(Promise!vars)
  BY StepKeeps
<1> QED
  BY <1>1, <1>2, CallInvHolds, PTL DEF Spec, KeepsPromise, Promise!Spec

-----------------------------------------------------------------------------
(* The sizes.                                                              *)

\* The steps before the size is asked for, and those after the disk has it.
Before == {"template", "tplnode", "nextid", "clone", "config", "resource", "node"}
After == {"start", "ip", "uniq", "reboot", "newip", "ok"}

\* A size that is known is the size of the disk when the job decides, and from then on
\* the row's; a resize that happened made the disk as large as the row says.
SizeInv ==
    /\ diskGb \in Nat /\ disk \in Nat /\ currentGb \in Nat \cup {Unknown}
    /\ pc = "idle" => diskGb = 0
    /\ pc # "idle" => diskGb # 0 /\ disk # 0
    /\ pc \in Before => currentGb = Unknown
    /\ pc = "decide" /\ currentGb # Unknown => currentGb = InGb(disk)
    /\ pc = "resize" /\ op = "yes" => disk = diskGb * Parts
    /\ pc \in After /\ currentGb # Unknown => diskGb = InGb(disk)

\* A new job knows no size.
LEMMA JobBegins ==
    ASSUME NEW t \in TemplateDisks, BeginJob(t), diskGb' \in Nat \ {0}
    PROVE  SizeInv'
<1>1. pc' = "template" /\ disk' = t /\ currentGb' = Unknown
  BY DEF BeginJob, Enter
<1>2. disk' \in Nat \ {0}
  BY <1>1, SizesAssumption
<1> QED
  BY <1>1, <1>2 DEF SizeInv, Before, After

\* A step of the job that leaves the sizes alone.
LEMMA SizesLeft ==
    ASSUME SizeInv, pc # "idle", UNCHANGED sizeVars, NEW step \in PCs, pc' = step,
           step # "idle",
           step \in Before => pc \in Before,
           step \in After => pc \in After,
           step = "decide" => currentGb = Unknown,
           step = "resize" => op' = "no"
    PROVE  SizeInv'
BY DEF SizeInv, sizeVars, InGb, Larger

\* A call changes the size of the disk only where the job asked for it.
LEMMA CallsKeepSizes ==
    ASSUME CallInv, SizeInv, CallProceeds \/ ClusterProceeds \/ TimePasses
    PROVE  SizeInv' /\ diskGb' = diskGb /\ (pc' = "ok" => disk' = disk) /\ currentGb' = currentGb
<1>1. /\ pc' = pc /\ diskGb' = diskGb /\ currentGb' = currentGb
      /\ disk' = IF pc = "resize" /\ op # "yes" /\ op' = "yes" THEN diskGb * Parts ELSE disk
  BY DEF CallProceeds, ClusterProceeds, TimePasses, Calls
<1>2. op = "yes" => op' = "yes"
  BY CallsKeep
<1>3. CASE pc = "resize" /\ op # "yes" /\ op' = "yes"
  <2>1. diskGb \in Nat \ {0} /\ disk' = diskGb * Parts
    BY <1>1, <1>3 DEF SizeInv
  <2>2. disk' \in Nat \ {0}
    BY <2>1, PartsAssumption
  <2> QED
    BY <1>1, <1>3, <2>1, <2>2 DEF SizeInv, Before, After
<1>4. CASE ~(pc = "resize" /\ op # "yes" /\ op' = "yes")
  <2>1. disk' = disk
    BY <1>1, <1>4
  <2>2. InGb(disk') = InGb(disk)
    BY <2>1
  <2> QED
    BY <1>1, <1>2, <1>4, <2>1, <2>2 DEF SizeInv
<1> QED
  BY <1>1, <1>3, <1>4

\* Every step keeps the sizes in order, and never shrinks what the row says.
LEMMA SizesKeep ==
    ASSUME CallInv, SizeInv, [Next]_vars
    PROVE  SizeInv' /\ diskGb' >= diskGb
<1> USE DEF Before, After
<1>1. CASE \E gb \in Requests, min \in Minima, t \in TemplateDisks : Create(gb, min, t)
  <2>1. PICK gb \in Requests, min \in Minima, t \in TemplateDisks : Create(gb, min, t)
    BY <1>1
  <2>2. diskGb = 0 /\ diskGb' \in Nat \ {0} /\ BeginJob(t)
    BY <2>1, SizesAssumption DEF Create, Larger, SizeInv
  <2> QED
    BY <2>2, JobBegins
<1>2. CASE \E t \in TemplateDisks : Reinstall(t)
  <2>1. PICK t \in TemplateDisks : Reinstall(t)
    BY <1>2
  <2>2. diskGb' = diskGb /\ diskGb \in Nat \ {0} /\ BeginJob(t)
    BY <2>1 DEF Reinstall, Ended, SizeInv
  <2> QED
    BY <2>2, JobBegins
<1>3. CASE CallProceeds \/ ClusterProceeds \/ TimePasses
  BY <1>3, CallsKeepSizes DEF SizeInv
<1>4. CASE LookedUp
  <2>1. PICK s \in {"nextid", "tplnode", "failed"} : Enter(s) /\ UNCHANGED sizeVars
    BY <1>4 DEF LookedUp
  <2>2. pc \in {"template", "tplnode"} /\ pc' = s
    BY <1>4, <2>1 DEF LookedUp, Came, Enter
  <2> QED
    BY <2>1, <2>2, SizesLeft DEF sizeVars, SizeInv, PCs, Calling, CallOf, Ended
<1>5. CASE Fails
  BY <1>5, SizesLeft DEF Fails, Came, Enter, sizeVars, SizeInv, PCs, Calling, CallOf, Ended
<1>6. CASE Proceeds
  <2>1. PICK s \in DOMAIN Following : pc = s /\ pc' = Following[s] /\ UNCHANGED sizeVars
    BY <1>6 DEF Proceeds, Came, Enter
  <2> QED
    BY <2>1, SizesLeft DEF Following, sizeVars, SizeInv, PCs, Calling, CallOf, Ended
<1>7. CASE Settles
  BY <1>7, SizesLeft DEF Settles, Came, Enter, sizeVars, SizeInv, PCs, Calling, CallOf, Ended
<1>8. CASE AskedCluster
  <2>1. /\ pc = "resource" /\ UNCHANGED <<diskGb, disk>>
        /\ \/ currentGb' = InGb(disk) /\ pc' = "decide"
           \/ UNCHANGED currentGb /\ pc' = "node"
    BY <1>8 DEF AskedCluster, Came, Enter
  <2>2. InGb(disk) \in Nat
    BY <2>1, RoundsUp DEF SizeInv
  <2> QED
    BY <2>1, <2>2 DEF SizeInv, InGb, Larger
<1>9. CASE AskedNode
  <2>1. /\ pc = "node" /\ UNCHANGED <<diskGb, disk>>
        /\ currentGb' \in {InGb(disk), Unknown} /\ pc' = "decide"
    BY <1>9 DEF AskedNode, Came, Enter, SizeInv
  <2>2. InGb(disk) \in Nat
    BY <2>1, RoundsUp DEF SizeInv
  <2> QED
    BY <2>1, <2>2 DEF SizeInv, InGb, Larger
<1>10. CASE Skip
  <2>1. /\ pc = "decide" /\ UNCHANGED <<disk, currentGb>> /\ pc' = "start"
        /\ currentGb # Unknown /\ diskGb <= currentGb /\ diskGb' = currentGb
    BY <1>10 DEF Skip, BigEnough, Enter
  <2>2. currentGb = InGb(disk) /\ currentGb \in Nat \ {0}
    BY <2>1, RoundsUp DEF SizeInv
  <2> QED
    BY <2>1, <2>2 DEF SizeInv, InGb, Larger
<1>11. CASE Resize
  <2>1. pc = "decide" /\ UNCHANGED sizeVars /\ pc' = "resize" /\ op' = "no"
    BY <1>11, EnterKeeps DEF Resize, CallInv, PCs, Calling, CallOf
  <2> QED
    BY <2>1, SizesLeft DEF sizeVars, SizeInv, PCs, Calling, CallOf
<1>12. CASE Resized
  <2>1. pc = "resize" /\ pc' \in {"start", "failed"} /\ UNCHANGED <<diskGb, currentGb>>
    BY <1>12 DEF Resized, Came, Enter
  <2>2. diskGb \in Nat \ {0} /\ diskGb * Parts \in Nat \ {0}
    BY <2>1, PartsAssumption DEF SizeInv
  <2>3. disk' = disk \/ disk' = diskGb * Parts
    BY <1>12 DEF Resized
  <2>4. pc' = "start" /\ currentGb # Unknown => disk' = disk /\ disk = diskGb * Parts
    BY <1>12, <2>1 DEF Resized, Came, Enter, CallInv, CallKept, SizeInv
  <2>5. pc' = "start" /\ currentGb # Unknown => diskGb = InGb(disk')
    BY <2>2, <2>4, WholeGigabytes
  <2> QED
    BY <2>1, <2>2, <2>3, <2>5 DEF SizeInv
<1>13. CASE UNCHANGED vars
  BY <1>13 DEF vars, callVars, sizeVars, SizeInv, InGb, Larger
<1> QED
  BY <1>1, <1>2, <1>3, <1>4, <1>5, <1>6, <1>7, <1>8, <1>9, <1>10, <1>11, <1>12, <1>13
     DEF Next, JobStep

LEMMA SizeInvHolds == Spec => []SizeInv
<1>1. Init => SizeInv
  BY DEF Init, SizeInv, Before, After
<1>2. CallInv /\ SizeInv /\ [Next]_vars => SizeInv'
  BY SizesKeep
<1> QED
  BY <1>1, <1>2, CallInvHolds, PTL DEF Spec

\* Every variable has its type.
THEOREM ProvisionTypeCorrect == Spec => []TypeOK
<1>1. CallInv /\ SizeInv => TypeOK
  BY DEF CallInv, SizeInv, TypeOK, PCs
<1> QED
  BY <1>1, CallInvHolds, SizeInvHolds, PTL

\* After a job that knew the size of the disk, the row has it, for disks of any size
\* (ensure_disk_size).
THEOREM RowIsExact == Spec => []RowHasRealSize
<1>1. SizeInv => RowHasRealSize
  BY DEF SizeInv, RowHasRealSize, After
<1> QED
  BY <1>1, SizeInvHolds, PTL

\* A disk never ends up smaller than what its client was last shown, unless its size was
\* unknown (ensure_disk_size, reinstall_vm_job).
THEOREM DiskNeverShrinks == Spec => SizeKept
<1>1. CallInv /\ SizeInv /\ [Next]_vars =>
         [/\ diskGb' >= diskGb
          /\ pc' = "ok" /\ currentGb' # Unknown => disk' > (diskGb - 1) * Parts]_vars
  <2> SUFFICES ASSUME CallInv, SizeInv, [Next]_vars, pc' = "ok", currentGb' # Unknown
               PROVE  disk' > (diskGb - 1) * Parts
    BY SizesKeep
  <2>1. SizeInv' /\ diskGb' >= diskGb
    BY SizesKeep
  <2>2. disk' \in Nat \ {0} /\ diskGb' = InGb(disk') /\ diskGb \in Nat
    BY <2>1 DEF SizeInv, After
  <2>3. diskGb' \in Nat /\ (diskGb' - 1) * Parts < disk'
    BY <2>2, RoundsUp
  <2>4. (diskGb - 1) * Parts <= (diskGb' - 1) * Parts
    BY <2>1, <2>2, <2>3, PartsAssumption, Monotone
  <2> QED
    BY <2>2, <2>3, <2>4, PartsAssumption
<1> QED
  BY <1>1, CallInvHolds, SizeInvHolds, PTL DEF Spec, SizeKept

=============================================================================
