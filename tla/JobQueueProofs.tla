--------------------------- MODULE JobQueueProofs ---------------------------
(***************************************************************************)
(* Proofs about JobQueue, for every finite set of jobs and any number of   *)
(* crashes and database errors: no job is lost but by such an error, none  *)
(* is delivered twice, none is run twice.                                  *)
(*                                                                         *)
(* None of these is inductive alone. A popped job must still be queued in  *)
(* the table when the worker marks it running, so the entries of the queue *)
(* have to be tied to the table; a job that an error has struck must be in *)
(* nobody's hands, or it could be taken up and run again; a restart must   *)
(* find the memory of the process empty, so what a mode implies about the  *)
(* memory has to be said; and the last commit of requeue_queued_jobs ends  *)
(* queued rows while the worker is already running, so that none of those  *)
(* rows can be with the worker has to be said as well.                     *)
(***************************************************************************)
EXTENDS JobQueue, FiniteSetTheorems, TLAPS

\* What the worker's program counter says about the jobs it holds.
WorkerAgrees ==
    /\ pc = "idle" <=> current = NoJob
    /\ pc = "loaded" => jobStatus[current] = "queued"
    /\ pc = "running" => jobStatus[current] = "running"
    /\ pc \in {"followup", "put"} => jobStatus[current] = "success"
    /\ pc = "put" <=> check # NoJob
    /\ pc = "put" => check \in committed

\* A job that is committed and not yet put is queued in the table and is not the one
\* the worker runs.
CommittedAgrees ==
    \A j \in committed : jobStatus[j] = "queued" /\ current # j

\* A job that an error has struck is in nobody's hands.
StruckIsOut ==
    \A j \in struck :
        jobStatus[j] # "none" /\ ~InQueue(j) /\ j \notin committed /\ current # j

\* Until the worker exists the process holds nothing, and a start clears the struck.
QuietBoot ==
    /\ mode \in {"down", "recovered"} =>
           queue = <<>> /\ committed = {} /\ pc = "idle"
    /\ mode = "recovered" => struck = {}

\* Where a queued job can be.
Placed(j) == InQueue(j) \/ j \in committed \/ (pc = "loaded" /\ current = j)

\* Between the two halves of requeue_queued_jobs only resumable jobs are in the
\* process, and all of them but those an error has struck.
HalfRequeued ==
    mode = "requeued" =>
        \A j \in Queued :
            /\ Placed(j) => Resumable(jobType[j])
            /\ Resumable(jobType[j]) => Placed(j) \/ j \in struck

QueueInv ==
    /\ QueueTypeOK
    /\ NoDoubleDelivery
    /\ WorkerAgrees
    /\ CommittedAgrees
    /\ StruckIsOut
    /\ QuietBoot
    /\ HalfRequeued
    /\ NoLostJob
    /\ RunningIsCurrent

-----------------------------------------------------------------------------
(* What Append and Tail do to a queue, in terms of its entries.            *)

LEMMA AppendFacts ==
    ASSUME NEW q \in Seq(Jobs), NEW j \in Jobs
    PROVE  /\ Append(q, j) \in Seq(Jobs)
           /\ Len(Append(q, j)) = Len(q) + 1
           /\ \A i \in 1..Len(q) : Append(q, j)[i] = q[i]
           /\ Append(q, j)[Len(q) + 1] = j
  OBVIOUS

LEMMA TailFacts ==
    ASSUME NEW q \in Seq(Jobs), q # <<>>
    PROVE  /\ Head(q) \in Jobs /\ Head(q) = q[1]
           /\ Tail(q) \in Seq(Jobs)
           /\ Len(q) \in Nat \ {0}
           /\ Len(Tail(q)) = Len(q) - 1
           /\ \A i \in 1..Len(Tail(q)) : Tail(q)[i] = q[i + 1]
  OBVIOUS

LEMMA SubmitJobInv ==
    ASSUME QueueInv, NEW j \in Jobs, NEW t \in JobTypes, SubmitJob(j, t)
    PROVE  QueueInv'
  <1>1. QueueTypeOK'
    BY JobsAssumption, MaxFaultsAssumption
    DEF QueueInv, SubmitJob, InsertJob, Serving, QueueTypeOK, WorkerAgrees,
        JobTypes, JobStatuses, WorkerStates, Modes
  <1>2. NoDoubleDelivery'
    BY JobsAssumption
    DEF QueueInv, SubmitJob, InsertJob, Serving, NoDoubleDelivery,
        CommittedAgrees, WorkerAgrees, HalfRequeued, Placed, Queued, QuietBoot,
        InQueue, QueueTypeOK
  <1>3. WorkerAgrees'
    BY JobsAssumption
    DEF QueueInv, SubmitJob, InsertJob, Serving, WorkerAgrees,
        NoDoubleDelivery, CommittedAgrees, InQueue, HalfRequeued, Placed,
        Queued, QuietBoot, QueueTypeOK, WorkerStates
  <1>4. CommittedAgrees'
    BY JobsAssumption
    DEF QueueInv, SubmitJob, InsertJob, Serving, CommittedAgrees, WorkerAgrees,
        NoDoubleDelivery, InQueue, HalfRequeued, Placed, Queued, QuietBoot,
        QueueTypeOK, WorkerStates
  <1>5. StruckIsOut'
    BY JobsAssumption
    DEF QueueInv, SubmitJob, InsertJob, Serving, StruckIsOut, CommittedAgrees,
        WorkerAgrees, NoDoubleDelivery, QuietBoot, InQueue, QueueTypeOK,
        WorkerStates
  <1>6. QuietBoot' /\ HalfRequeued'
    BY JobsAssumption
    DEF QueueInv, SubmitJob, InsertJob, Serving, QuietBoot, HalfRequeued,
        Placed, Queued, InQueue, WorkerAgrees, CommittedAgrees,
        NoDoubleDelivery, StruckIsOut, Resumable, QueueTypeOK, WorkerStates,
        Modes
  <1>7. NoLostJob'
    BY JobsAssumption
    DEF QueueInv, SubmitJob, InsertJob, Serving, NoLostJob, HalfRequeued,
        Placed, Queued, InQueue, WorkerAgrees, CommittedAgrees, StruckIsOut,
        QueueTypeOK, WorkerStates
  <1>8. RunningIsCurrent'
    BY JobsAssumption
    DEF QueueInv, SubmitJob, InsertJob, Serving, RunningIsCurrent,
        WorkerAgrees, CommittedAgrees, NoDoubleDelivery, StruckIsOut,
        QuietBoot, QueueTypeOK, WorkerStates
  <1>. QED
    BY <1>1, <1>2, <1>3, <1>4, <1>5, <1>6, <1>7, <1>8 DEF QueueInv

LEMMA EnqueueJobInv ==
    ASSUME QueueInv, NEW j \in Jobs, EnqueueJob(j)
    PROVE  QueueInv'
  <1>1. QueueTypeOK'
    BY JobsAssumption, AppendFacts, MaxFaultsAssumption
    DEF QueueInv, EnqueueJob, Put, Serving, QueueTypeOK, WorkerAgrees,
        JobTypes, JobStatuses, WorkerStates, Modes
  <1>2. NoDoubleDelivery'
    BY JobsAssumption, AppendFacts
    DEF QueueInv, EnqueueJob, Put, Serving, NoDoubleDelivery, CommittedAgrees,
        WorkerAgrees, HalfRequeued, Placed, Queued, QuietBoot, InQueue,
        QueueTypeOK
  <1>3. WorkerAgrees'
    BY JobsAssumption, AppendFacts
    DEF QueueInv, EnqueueJob, Put, Serving, WorkerAgrees, NoDoubleDelivery,
        CommittedAgrees, InQueue, HalfRequeued, Placed, Queued, QuietBoot,
        QueueTypeOK, WorkerStates
  <1>4. CommittedAgrees'
    BY JobsAssumption, AppendFacts
    DEF QueueInv, EnqueueJob, Put, Serving, CommittedAgrees, WorkerAgrees,
        NoDoubleDelivery, InQueue, HalfRequeued, Placed, Queued, QuietBoot,
        QueueTypeOK, WorkerStates
  <1>5. StruckIsOut'
    BY JobsAssumption, AppendFacts
    DEF QueueInv, EnqueueJob, Put, Serving, StruckIsOut, CommittedAgrees,
        WorkerAgrees, NoDoubleDelivery, QuietBoot, InQueue, QueueTypeOK,
        WorkerStates
  <1>6. QuietBoot' /\ HalfRequeued'
    BY JobsAssumption, AppendFacts
    DEF QueueInv, EnqueueJob, Put, Serving, QuietBoot, HalfRequeued, Placed,
        Queued, InQueue, WorkerAgrees, CommittedAgrees, NoDoubleDelivery,
        StruckIsOut, Resumable, QueueTypeOK, WorkerStates, Modes
  <1>7. NoLostJob'
    BY JobsAssumption, AppendFacts
    DEF QueueInv, EnqueueJob, Put, Serving, NoLostJob, HalfRequeued, Placed,
        Queued, InQueue, WorkerAgrees, CommittedAgrees, StruckIsOut,
        QueueTypeOK, WorkerStates
  <1>8. RunningIsCurrent'
    BY JobsAssumption, AppendFacts
    DEF QueueInv, EnqueueJob, Put, Serving, RunningIsCurrent, WorkerAgrees,
        CommittedAgrees, NoDoubleDelivery, StruckIsOut, QuietBoot, QueueTypeOK,
        WorkerStates
  <1>. QED
    BY <1>1, <1>2, <1>3, <1>4, <1>5, <1>6, <1>7, <1>8 DEF QueueInv

LEMMA DropJobInv ==
    ASSUME QueueInv, NEW j \in Jobs, DropJob(j)
    PROVE  QueueInv'
  <1>1. QueueTypeOK'
    BY JobsAssumption, MaxFaultsAssumption
    DEF QueueInv, DropJob, Strike, Serving, QueueTypeOK, WorkerAgrees,
        JobTypes, JobStatuses, WorkerStates, Modes
  <1>2. NoDoubleDelivery'
    BY JobsAssumption
    DEF QueueInv, DropJob, Strike, Serving, NoDoubleDelivery, CommittedAgrees,
        WorkerAgrees, HalfRequeued, Placed, Queued, QuietBoot, InQueue,
        QueueTypeOK
  <1>3. WorkerAgrees'
    BY JobsAssumption
    DEF QueueInv, DropJob, Strike, Serving, WorkerAgrees, NoDoubleDelivery,
        CommittedAgrees, InQueue, HalfRequeued, Placed, Queued, QuietBoot,
        QueueTypeOK, WorkerStates
  <1>4. CommittedAgrees'
    BY JobsAssumption
    DEF QueueInv, DropJob, Strike, Serving, CommittedAgrees, WorkerAgrees,
        NoDoubleDelivery, InQueue, HalfRequeued, Placed, Queued, QuietBoot,
        QueueTypeOK, WorkerStates
  <1>5. StruckIsOut'
    BY JobsAssumption
    DEF QueueInv, DropJob, Strike, Serving, StruckIsOut, CommittedAgrees,
        WorkerAgrees, NoDoubleDelivery, QuietBoot, InQueue, QueueTypeOK,
        WorkerStates
  <1>6. QuietBoot' /\ HalfRequeued'
    BY JobsAssumption
    DEF QueueInv, DropJob, Strike, Serving, QuietBoot, HalfRequeued, Placed,
        Queued, InQueue, WorkerAgrees, CommittedAgrees, NoDoubleDelivery,
        StruckIsOut, Resumable, QueueTypeOK, WorkerStates, Modes
  <1>7. NoLostJob'
    BY JobsAssumption
    DEF QueueInv, DropJob, Strike, Serving, NoLostJob, HalfRequeued, Placed,
        Queued, InQueue, WorkerAgrees, CommittedAgrees, StruckIsOut,
        QueueTypeOK, WorkerStates
  <1>8. RunningIsCurrent'
    BY JobsAssumption
    DEF QueueInv, DropJob, Strike, Serving, RunningIsCurrent, WorkerAgrees,
        CommittedAgrees, NoDoubleDelivery, StruckIsOut, QuietBoot, QueueTypeOK,
        WorkerStates
  <1>. QED
    BY <1>1, <1>2, <1>3, <1>4, <1>5, <1>6, <1>7, <1>8 DEF QueueInv

LEMMA WorkerGetInv ==
    ASSUME QueueInv, WorkerGet
    PROVE  QueueInv'
  <1>0. \A j \in Jobs : InQueue(j) <=> InQueue(j)' \/ j = current'
    <2>. queue \in Seq(Jobs) /\ queue # <<>> /\ queue' = Tail(queue)
         /\ current' = queue[1]
      BY TailFacts DEF QueueInv, QueueTypeOK, WorkerGet
    <2>1. ASSUME NEW j \in Jobs, InQueue(j)
          PROVE  InQueue(j)' \/ j = current'
      <3>1. PICK i \in 1..Len(queue) : queue[i] = j
        BY <2>1 DEF InQueue
      <3>2. CASE i = 1
        BY <3>1, <3>2
      <3>3. CASE i # 1
        <4>1. i - 1 \in 1..Len(queue') /\ queue'[i - 1] = j
          BY <3>1, <3>3, TailFacts
        <4>. QED  BY <4>1 DEF InQueue
      <3>. QED  BY <3>2, <3>3
    <2>2. ASSUME NEW j \in Jobs, InQueue(j)' \/ j = current'
          PROVE  InQueue(j)
      BY <2>2, TailFacts DEF InQueue
    <2>. QED  BY <2>1, <2>2
  <1>1. QueueTypeOK'
    BY JobsAssumption, TailFacts, MaxFaultsAssumption
    DEF QueueInv, WorkerGet, WorkerAlive, QueueTypeOK, WorkerAgrees, JobTypes,
        JobStatuses, WorkerStates, Modes
  <1>2. NoDoubleDelivery'
    BY JobsAssumption, TailFacts
    DEF QueueInv, WorkerGet, WorkerAlive, NoDoubleDelivery, CommittedAgrees,
        WorkerAgrees, HalfRequeued, Placed, Queued, QuietBoot, InQueue,
        QueueTypeOK
  <1>3. WorkerAgrees'
    BY JobsAssumption, TailFacts
    DEF QueueInv, WorkerGet, WorkerAlive, WorkerAgrees, NoDoubleDelivery,
        CommittedAgrees, InQueue, HalfRequeued, Placed, Queued, QuietBoot,
        QueueTypeOK, WorkerStates
  <1>4. CommittedAgrees'
    BY JobsAssumption, TailFacts
    DEF QueueInv, WorkerGet, WorkerAlive, CommittedAgrees, WorkerAgrees,
        NoDoubleDelivery, InQueue, HalfRequeued, Placed, Queued, QuietBoot,
        QueueTypeOK, WorkerStates
  <1>5. StruckIsOut'
    BY JobsAssumption, TailFacts, <1>0
    DEF QueueInv, WorkerGet, WorkerAlive, StruckIsOut, CommittedAgrees,
        WorkerAgrees, NoDoubleDelivery, QuietBoot, InQueue, QueueTypeOK,
        WorkerStates
  <1>6. QuietBoot' /\ HalfRequeued'
    BY JobsAssumption, TailFacts, <1>0
    DEF QueueInv, WorkerGet, WorkerAlive, QuietBoot, HalfRequeued, Placed,
        Queued, InQueue, WorkerAgrees, CommittedAgrees, NoDoubleDelivery,
        StruckIsOut, Resumable, QueueTypeOK, WorkerStates, Modes
  <1>7. NoLostJob'
    BY JobsAssumption, TailFacts, <1>0
    DEF QueueInv, WorkerGet, WorkerAlive, NoLostJob, HalfRequeued, Placed,
        Queued, InQueue, Serving, WorkerAgrees, CommittedAgrees, StruckIsOut,
        QueueTypeOK, WorkerStates
  <1>8. RunningIsCurrent'
    BY JobsAssumption, TailFacts
    DEF QueueInv, WorkerGet, WorkerAlive, RunningIsCurrent, WorkerAgrees,
        CommittedAgrees, NoDoubleDelivery, StruckIsOut, QuietBoot, QueueTypeOK,
        WorkerStates
  <1>. QED
    BY <1>1, <1>2, <1>3, <1>4, <1>5, <1>6, <1>7, <1>8 DEF QueueInv

LEMMA WorkerStartInv ==
    ASSUME QueueInv, WorkerStart
    PROVE  QueueInv'
  <1>1. QueueTypeOK'
    BY JobsAssumption, MaxFaultsAssumption
    DEF QueueInv, WorkerStart, WorkerAlive, QueueTypeOK, WorkerAgrees,
        JobTypes, JobStatuses, WorkerStates, Modes
  <1>2. NoDoubleDelivery'
    BY JobsAssumption
    DEF QueueInv, WorkerStart, WorkerAlive, NoDoubleDelivery, CommittedAgrees,
        WorkerAgrees, HalfRequeued, Placed, Queued, QuietBoot, InQueue,
        QueueTypeOK
  <1>3. WorkerAgrees'
    BY JobsAssumption
    DEF QueueInv, WorkerStart, WorkerAlive, WorkerAgrees, NoDoubleDelivery,
        CommittedAgrees, InQueue, HalfRequeued, Placed, Queued, QuietBoot,
        QueueTypeOK, WorkerStates
  <1>4. CommittedAgrees'
    BY JobsAssumption
    DEF QueueInv, WorkerStart, WorkerAlive, CommittedAgrees, WorkerAgrees,
        NoDoubleDelivery, InQueue, HalfRequeued, Placed, Queued, QuietBoot,
        QueueTypeOK, WorkerStates
  <1>5. StruckIsOut'
    BY JobsAssumption
    DEF QueueInv, WorkerStart, WorkerAlive, StruckIsOut, CommittedAgrees,
        WorkerAgrees, NoDoubleDelivery, QuietBoot, InQueue, QueueTypeOK,
        WorkerStates
  <1>6. QuietBoot' /\ HalfRequeued'
    BY JobsAssumption
    DEF QueueInv, WorkerStart, WorkerAlive, QuietBoot, HalfRequeued, Placed,
        Queued, InQueue, WorkerAgrees, CommittedAgrees, NoDoubleDelivery,
        StruckIsOut, Resumable, QueueTypeOK, WorkerStates, Modes
  <1>7. NoLostJob'
    BY JobsAssumption
    DEF QueueInv, WorkerStart, WorkerAlive, NoLostJob, HalfRequeued, Placed,
        Queued, InQueue, Serving, WorkerAgrees, CommittedAgrees, StruckIsOut,
        QueueTypeOK, WorkerStates
  <1>8. RunningIsCurrent'
    BY JobsAssumption
    DEF QueueInv, WorkerStart, WorkerAlive, RunningIsCurrent, WorkerAgrees,
        CommittedAgrees, NoDoubleDelivery, StruckIsOut, QuietBoot, QueueTypeOK,
        WorkerStates
  <1>. QED
    BY <1>1, <1>2, <1>3, <1>4, <1>5, <1>6, <1>7, <1>8 DEF QueueInv

LEMMA WorkerDropsInv ==
    ASSUME QueueInv, WorkerDrops
    PROVE  QueueInv'
  <1>1. QueueTypeOK'
    BY JobsAssumption, MaxFaultsAssumption
    DEF QueueInv, WorkerDrops, Strike, jobVars, WorkerAlive, QueueTypeOK,
        WorkerAgrees, JobTypes, JobStatuses, WorkerStates, Modes
  <1>2. NoDoubleDelivery'
    BY JobsAssumption
    DEF QueueInv, WorkerDrops, Strike, jobVars, WorkerAlive, NoDoubleDelivery,
        CommittedAgrees, WorkerAgrees, HalfRequeued, Placed, Queued, QuietBoot,
        InQueue, QueueTypeOK
  <1>3. WorkerAgrees'
    BY JobsAssumption
    DEF QueueInv, WorkerDrops, Strike, jobVars, WorkerAlive, WorkerAgrees,
        NoDoubleDelivery, CommittedAgrees, InQueue, HalfRequeued, Placed,
        Queued, QuietBoot, QueueTypeOK, WorkerStates
  <1>4. CommittedAgrees'
    BY JobsAssumption
    DEF QueueInv, WorkerDrops, Strike, jobVars, WorkerAlive, CommittedAgrees,
        WorkerAgrees, NoDoubleDelivery, InQueue, HalfRequeued, Placed, Queued,
        QuietBoot, QueueTypeOK, WorkerStates
  <1>5. StruckIsOut'
    BY JobsAssumption
    DEF QueueInv, WorkerDrops, Strike, jobVars, WorkerAlive, StruckIsOut,
        CommittedAgrees, WorkerAgrees, NoDoubleDelivery, QuietBoot, InQueue,
        QueueTypeOK, WorkerStates
  <1>6. QuietBoot' /\ HalfRequeued'
    BY JobsAssumption
    DEF QueueInv, WorkerDrops, Strike, jobVars, WorkerAlive, QuietBoot,
        HalfRequeued, Placed, Queued, InQueue, WorkerAgrees, CommittedAgrees,
        NoDoubleDelivery, StruckIsOut, Resumable, QueueTypeOK, WorkerStates,
        Modes
  <1>7. NoLostJob'
    BY JobsAssumption
    DEF QueueInv, WorkerDrops, Strike, jobVars, WorkerAlive, NoLostJob,
        HalfRequeued, Placed, Queued, InQueue, Serving, WorkerAgrees,
        CommittedAgrees, StruckIsOut, QueueTypeOK, WorkerStates
  <1>8. RunningIsCurrent'
    BY JobsAssumption
    DEF QueueInv, WorkerDrops, Strike, jobVars, WorkerAlive, RunningIsCurrent,
        WorkerAgrees, CommittedAgrees, NoDoubleDelivery, StruckIsOut,
        QuietBoot, QueueTypeOK, WorkerStates
  <1>. QED
    BY <1>1, <1>2, <1>3, <1>4, <1>5, <1>6, <1>7, <1>8 DEF QueueInv

LEMMA WorkerSucceedInv ==
    ASSUME QueueInv, WorkerSucceed
    PROVE  QueueInv'
  <1>1. QueueTypeOK'
    BY JobsAssumption, MaxFaultsAssumption
    DEF QueueInv, WorkerSucceed, WorkerAlive, QueueTypeOK, WorkerAgrees,
        JobTypes, JobStatuses, WorkerStates, Modes
  <1>2. NoDoubleDelivery'
    BY JobsAssumption
    DEF QueueInv, WorkerSucceed, WorkerAlive, NoDoubleDelivery,
        CommittedAgrees, WorkerAgrees, HalfRequeued, Placed, Queued, QuietBoot,
        InQueue, QueueTypeOK
  <1>3. WorkerAgrees'
    BY JobsAssumption
    DEF QueueInv, WorkerSucceed, WorkerAlive, WorkerAgrees, NoDoubleDelivery,
        CommittedAgrees, InQueue, HalfRequeued, Placed, Queued, QuietBoot,
        QueueTypeOK, WorkerStates
  <1>4. CommittedAgrees'
    BY JobsAssumption
    DEF QueueInv, WorkerSucceed, WorkerAlive, CommittedAgrees, WorkerAgrees,
        NoDoubleDelivery, InQueue, HalfRequeued, Placed, Queued, QuietBoot,
        QueueTypeOK, WorkerStates
  <1>5. StruckIsOut'
    BY JobsAssumption
    DEF QueueInv, WorkerSucceed, WorkerAlive, StruckIsOut, CommittedAgrees,
        WorkerAgrees, NoDoubleDelivery, QuietBoot, InQueue, QueueTypeOK,
        WorkerStates
  <1>6. QuietBoot' /\ HalfRequeued'
    BY JobsAssumption
    DEF QueueInv, WorkerSucceed, WorkerAlive, QuietBoot, HalfRequeued, Placed,
        Queued, InQueue, WorkerAgrees, CommittedAgrees, NoDoubleDelivery,
        StruckIsOut, Resumable, QueueTypeOK, WorkerStates, Modes
  <1>7. NoLostJob'
    BY JobsAssumption
    DEF QueueInv, WorkerSucceed, WorkerAlive, NoLostJob, HalfRequeued, Placed,
        Queued, InQueue, Serving, WorkerAgrees, CommittedAgrees, StruckIsOut,
        QueueTypeOK, WorkerStates
  <1>8. RunningIsCurrent'
    BY JobsAssumption
    DEF QueueInv, WorkerSucceed, WorkerAlive, RunningIsCurrent, WorkerAgrees,
        CommittedAgrees, NoDoubleDelivery, StruckIsOut, QuietBoot, QueueTypeOK,
        WorkerStates
  <1>. QED
    BY <1>1, <1>2, <1>3, <1>4, <1>5, <1>6, <1>7, <1>8 DEF QueueInv

LEMMA WorkerFailInv ==
    ASSUME QueueInv, WorkerFail
    PROVE  QueueInv'
  <1>1. QueueTypeOK'
    BY JobsAssumption, MaxFaultsAssumption
    DEF QueueInv, WorkerFail, WorkerAlive, QueueTypeOK, WorkerAgrees, JobTypes,
        JobStatuses, WorkerStates, Modes
  <1>2. NoDoubleDelivery'
    BY JobsAssumption
    DEF QueueInv, WorkerFail, WorkerAlive, NoDoubleDelivery, CommittedAgrees,
        WorkerAgrees, HalfRequeued, Placed, Queued, QuietBoot, InQueue,
        QueueTypeOK
  <1>3. WorkerAgrees'
    BY JobsAssumption
    DEF QueueInv, WorkerFail, WorkerAlive, WorkerAgrees, NoDoubleDelivery,
        CommittedAgrees, InQueue, HalfRequeued, Placed, Queued, QuietBoot,
        QueueTypeOK, WorkerStates
  <1>4. CommittedAgrees'
    BY JobsAssumption
    DEF QueueInv, WorkerFail, WorkerAlive, CommittedAgrees, WorkerAgrees,
        NoDoubleDelivery, InQueue, HalfRequeued, Placed, Queued, QuietBoot,
        QueueTypeOK, WorkerStates
  <1>5. StruckIsOut'
    BY JobsAssumption
    DEF QueueInv, WorkerFail, WorkerAlive, StruckIsOut, CommittedAgrees,
        WorkerAgrees, NoDoubleDelivery, QuietBoot, InQueue, QueueTypeOK,
        WorkerStates
  <1>6. QuietBoot' /\ HalfRequeued'
    BY JobsAssumption
    DEF QueueInv, WorkerFail, WorkerAlive, QuietBoot, HalfRequeued, Placed,
        Queued, InQueue, WorkerAgrees, CommittedAgrees, NoDoubleDelivery,
        StruckIsOut, Resumable, QueueTypeOK, WorkerStates, Modes
  <1>7. NoLostJob'
    BY JobsAssumption
    DEF QueueInv, WorkerFail, WorkerAlive, NoLostJob, HalfRequeued, Placed,
        Queued, InQueue, Serving, WorkerAgrees, CommittedAgrees, StruckIsOut,
        QueueTypeOK, WorkerStates
  <1>8. RunningIsCurrent'
    BY JobsAssumption
    DEF QueueInv, WorkerFail, WorkerAlive, RunningIsCurrent, WorkerAgrees,
        CommittedAgrees, NoDoubleDelivery, StruckIsOut, QuietBoot, QueueTypeOK,
        WorkerStates
  <1>. QED
    BY <1>1, <1>2, <1>3, <1>4, <1>5, <1>6, <1>7, <1>8 DEF QueueInv

LEMMA WorkerSubmitCheckInv ==
    ASSUME QueueInv, NEW k \in Jobs, WorkerSubmitCheck(k)
    PROVE  QueueInv'
  <1>1. QueueTypeOK'
    BY JobsAssumption, MaxFaultsAssumption
    DEF QueueInv, WorkerSubmitCheck, InsertJob, WorkerAlive, QueueTypeOK,
        WorkerAgrees, JobTypes, JobStatuses, WorkerStates, Modes
  <1>2. NoDoubleDelivery'
    BY JobsAssumption
    DEF QueueInv, WorkerSubmitCheck, InsertJob, WorkerAlive, NoDoubleDelivery,
        CommittedAgrees, WorkerAgrees, HalfRequeued, Placed, Queued, QuietBoot,
        InQueue, QueueTypeOK
  <1>3. WorkerAgrees'
    BY JobsAssumption
    DEF QueueInv, WorkerSubmitCheck, InsertJob, WorkerAlive, WorkerAgrees,
        NoDoubleDelivery, CommittedAgrees, InQueue, HalfRequeued, Placed,
        Queued, QuietBoot, QueueTypeOK, WorkerStates
  <1>4. CommittedAgrees'
    BY JobsAssumption
    DEF QueueInv, WorkerSubmitCheck, InsertJob, WorkerAlive, CommittedAgrees,
        WorkerAgrees, NoDoubleDelivery, InQueue, HalfRequeued, Placed, Queued,
        QuietBoot, QueueTypeOK, WorkerStates
  <1>5. StruckIsOut'
    BY JobsAssumption
    DEF QueueInv, WorkerSubmitCheck, InsertJob, WorkerAlive, StruckIsOut,
        CommittedAgrees, WorkerAgrees, NoDoubleDelivery, QuietBoot, InQueue,
        QueueTypeOK, WorkerStates
  <1>6. QuietBoot' /\ HalfRequeued'
    BY JobsAssumption
    DEF QueueInv, WorkerSubmitCheck, InsertJob, WorkerAlive, QuietBoot,
        HalfRequeued, Placed, Queued, InQueue, WorkerAgrees, CommittedAgrees,
        NoDoubleDelivery, StruckIsOut, Resumable, QueueTypeOK, WorkerStates,
        Modes
  <1>7. NoLostJob'
    BY JobsAssumption
    DEF QueueInv, WorkerSubmitCheck, InsertJob, WorkerAlive, NoLostJob,
        HalfRequeued, Placed, Queued, InQueue, Serving, WorkerAgrees,
        CommittedAgrees, StruckIsOut, QueueTypeOK, WorkerStates
  <1>8. RunningIsCurrent'
    BY JobsAssumption
    DEF QueueInv, WorkerSubmitCheck, InsertJob, WorkerAlive, RunningIsCurrent,
        WorkerAgrees, CommittedAgrees, NoDoubleDelivery, StruckIsOut,
        QuietBoot, QueueTypeOK, WorkerStates
  <1>. QED
    BY <1>1, <1>2, <1>3, <1>4, <1>5, <1>6, <1>7, <1>8 DEF QueueInv

LEMMA WorkerEnqueueCheckInv ==
    ASSUME QueueInv, WorkerEnqueueCheck
    PROVE  QueueInv'
  <1>1. QueueTypeOK'
    BY JobsAssumption, AppendFacts, MaxFaultsAssumption
    DEF QueueInv, WorkerEnqueueCheck, Put, WorkerAlive, QueueTypeOK,
        WorkerAgrees, JobTypes, JobStatuses, WorkerStates, Modes
  <1>2. NoDoubleDelivery'
    BY JobsAssumption, AppendFacts
    DEF QueueInv, WorkerEnqueueCheck, Put, WorkerAlive, NoDoubleDelivery,
        CommittedAgrees, WorkerAgrees, HalfRequeued, Placed, Queued, QuietBoot,
        InQueue, QueueTypeOK
  <1>3. WorkerAgrees'
    BY JobsAssumption, AppendFacts
    DEF QueueInv, WorkerEnqueueCheck, Put, WorkerAlive, WorkerAgrees,
        NoDoubleDelivery, CommittedAgrees, InQueue, HalfRequeued, Placed,
        Queued, QuietBoot, QueueTypeOK, WorkerStates
  <1>4. CommittedAgrees'
    BY JobsAssumption, AppendFacts
    DEF QueueInv, WorkerEnqueueCheck, Put, WorkerAlive, CommittedAgrees,
        WorkerAgrees, NoDoubleDelivery, InQueue, HalfRequeued, Placed, Queued,
        QuietBoot, QueueTypeOK, WorkerStates
  <1>5. StruckIsOut'
    BY JobsAssumption, AppendFacts
    DEF QueueInv, WorkerEnqueueCheck, Put, WorkerAlive, StruckIsOut,
        CommittedAgrees, WorkerAgrees, NoDoubleDelivery, QuietBoot, InQueue,
        QueueTypeOK, WorkerStates
  <1>6. QuietBoot' /\ HalfRequeued'
    BY JobsAssumption, AppendFacts
    DEF QueueInv, WorkerEnqueueCheck, Put, WorkerAlive, QuietBoot,
        HalfRequeued, Placed, Queued, InQueue, WorkerAgrees, CommittedAgrees,
        NoDoubleDelivery, StruckIsOut, Resumable, QueueTypeOK, WorkerStates,
        Modes
  <1>7. NoLostJob'
    BY JobsAssumption, AppendFacts
    DEF QueueInv, WorkerEnqueueCheck, Put, WorkerAlive, NoLostJob,
        HalfRequeued, Placed, Queued, InQueue, Serving, WorkerAgrees,
        CommittedAgrees, StruckIsOut, QueueTypeOK, WorkerStates
  <1>8. RunningIsCurrent'
    BY JobsAssumption, AppendFacts
    DEF QueueInv, WorkerEnqueueCheck, Put, WorkerAlive, RunningIsCurrent,
        WorkerAgrees, CommittedAgrees, NoDoubleDelivery, StruckIsOut,
        QuietBoot, QueueTypeOK, WorkerStates
  <1>. QED
    BY <1>1, <1>2, <1>3, <1>4, <1>5, <1>6, <1>7, <1>8 DEF QueueInv

LEMMA WorkerRetractsInv ==
    ASSUME QueueInv, WorkerRetracts
    PROVE  QueueInv'
  <1>1. QueueTypeOK'
    BY JobsAssumption, MaxFaultsAssumption
    DEF QueueInv, WorkerRetracts, Strike, WorkerAlive, QueueTypeOK,
        WorkerAgrees, JobTypes, JobStatuses, WorkerStates, Modes
  <1>2. NoDoubleDelivery'
    BY JobsAssumption
    DEF QueueInv, WorkerRetracts, Strike, WorkerAlive, NoDoubleDelivery,
        CommittedAgrees, WorkerAgrees, HalfRequeued, Placed, Queued, QuietBoot,
        InQueue, QueueTypeOK
  <1>3. WorkerAgrees'
    BY JobsAssumption
    DEF QueueInv, WorkerRetracts, Strike, WorkerAlive, WorkerAgrees,
        NoDoubleDelivery, CommittedAgrees, InQueue, HalfRequeued, Placed,
        Queued, QuietBoot, QueueTypeOK, WorkerStates
  <1>4. CommittedAgrees'
    BY JobsAssumption
    DEF QueueInv, WorkerRetracts, Strike, WorkerAlive, CommittedAgrees,
        WorkerAgrees, NoDoubleDelivery, InQueue, HalfRequeued, Placed, Queued,
        QuietBoot, QueueTypeOK, WorkerStates
  <1>5. StruckIsOut'
    BY JobsAssumption
    DEF QueueInv, WorkerRetracts, Strike, WorkerAlive, StruckIsOut,
        CommittedAgrees, WorkerAgrees, NoDoubleDelivery, QuietBoot, InQueue,
        QueueTypeOK, WorkerStates
  <1>6. QuietBoot' /\ HalfRequeued'
    BY JobsAssumption
    DEF QueueInv, WorkerRetracts, Strike, WorkerAlive, QuietBoot, HalfRequeued,
        Placed, Queued, InQueue, WorkerAgrees, CommittedAgrees,
        NoDoubleDelivery, StruckIsOut, Resumable, QueueTypeOK, WorkerStates,
        Modes
  <1>7. NoLostJob'
    BY JobsAssumption
    DEF QueueInv, WorkerRetracts, Strike, WorkerAlive, NoLostJob, HalfRequeued,
        Placed, Queued, InQueue, Serving, WorkerAgrees, CommittedAgrees,
        StruckIsOut, QueueTypeOK, WorkerStates
  <1>8. RunningIsCurrent'
    BY JobsAssumption
    DEF QueueInv, WorkerRetracts, Strike, WorkerAlive, RunningIsCurrent,
        WorkerAgrees, CommittedAgrees, NoDoubleDelivery, StruckIsOut,
        QuietBoot, QueueTypeOK, WorkerStates
  <1>. QED
    BY <1>1, <1>2, <1>3, <1>4, <1>5, <1>6, <1>7, <1>8 DEF QueueInv

LEMMA WorkerAbandonsInv ==
    ASSUME QueueInv, WorkerAbandons
    PROVE  QueueInv'
  <1>1. QueueTypeOK'
    BY JobsAssumption, MaxFaultsAssumption
    DEF QueueInv, WorkerAbandons, Strike, jobVars, WorkerAlive, QueueTypeOK,
        WorkerAgrees, JobTypes, JobStatuses, WorkerStates, Modes
  <1>2. NoDoubleDelivery'
    BY JobsAssumption
    DEF QueueInv, WorkerAbandons, Strike, jobVars, WorkerAlive,
        NoDoubleDelivery, CommittedAgrees, WorkerAgrees, HalfRequeued, Placed,
        Queued, QuietBoot, InQueue, QueueTypeOK
  <1>3. WorkerAgrees'
    BY JobsAssumption
    DEF QueueInv, WorkerAbandons, Strike, jobVars, WorkerAlive, WorkerAgrees,
        NoDoubleDelivery, CommittedAgrees, InQueue, HalfRequeued, Placed,
        Queued, QuietBoot, QueueTypeOK, WorkerStates
  <1>4. CommittedAgrees'
    BY JobsAssumption
    DEF QueueInv, WorkerAbandons, Strike, jobVars, WorkerAlive,
        CommittedAgrees, WorkerAgrees, NoDoubleDelivery, InQueue, HalfRequeued,
        Placed, Queued, QuietBoot, QueueTypeOK, WorkerStates
  <1>5. StruckIsOut'
    BY JobsAssumption
    DEF QueueInv, WorkerAbandons, Strike, jobVars, WorkerAlive, StruckIsOut,
        CommittedAgrees, WorkerAgrees, NoDoubleDelivery, QuietBoot, InQueue,
        QueueTypeOK, WorkerStates
  <1>6. QuietBoot' /\ HalfRequeued'
    BY JobsAssumption
    DEF QueueInv, WorkerAbandons, Strike, jobVars, WorkerAlive, QuietBoot,
        HalfRequeued, Placed, Queued, InQueue, WorkerAgrees, CommittedAgrees,
        NoDoubleDelivery, StruckIsOut, Resumable, QueueTypeOK, WorkerStates,
        Modes
  <1>7. NoLostJob'
    BY JobsAssumption
    DEF QueueInv, WorkerAbandons, Strike, jobVars, WorkerAlive, NoLostJob,
        HalfRequeued, Placed, Queued, InQueue, Serving, WorkerAgrees,
        CommittedAgrees, StruckIsOut, QueueTypeOK, WorkerStates
  <1>8. RunningIsCurrent'
    BY JobsAssumption
    DEF QueueInv, WorkerAbandons, Strike, jobVars, WorkerAlive,
        RunningIsCurrent, WorkerAgrees, CommittedAgrees, NoDoubleDelivery,
        StruckIsOut, QuietBoot, QueueTypeOK, WorkerStates
  <1>. QED
    BY <1>1, <1>2, <1>3, <1>4, <1>5, <1>6, <1>7, <1>8 DEF QueueInv

LEMMA RecoverInv ==
    ASSUME QueueInv, Recover
    PROVE  QueueInv'
  <1>1. QueueTypeOK'
    BY JobsAssumption, MaxFaultsAssumption
    DEF QueueInv, Recover, procVars, QueueTypeOK, WorkerAgrees, JobTypes,
        JobStatuses, WorkerStates, Modes
  <1>2. NoDoubleDelivery'
    BY JobsAssumption
    DEF QueueInv, Recover, procVars, NoDoubleDelivery, CommittedAgrees,
        WorkerAgrees, HalfRequeued, Placed, Queued, QuietBoot, InQueue,
        QueueTypeOK
  <1>3. WorkerAgrees'
    BY JobsAssumption
    DEF QueueInv, Recover, procVars, WorkerAgrees, NoDoubleDelivery,
        CommittedAgrees, InQueue, HalfRequeued, Placed, Queued, QuietBoot,
        QueueTypeOK, WorkerStates
  <1>4. CommittedAgrees'
    BY JobsAssumption
    DEF QueueInv, Recover, procVars, CommittedAgrees, WorkerAgrees,
        NoDoubleDelivery, InQueue, HalfRequeued, Placed, Queued, QuietBoot,
        QueueTypeOK, WorkerStates
  <1>5. StruckIsOut'
    BY JobsAssumption
    DEF QueueInv, Recover, procVars, StruckIsOut, CommittedAgrees,
        WorkerAgrees, NoDoubleDelivery, QuietBoot, InQueue, QueueTypeOK,
        WorkerStates
  <1>6. QuietBoot' /\ HalfRequeued'
    BY JobsAssumption
    DEF QueueInv, Recover, procVars, QuietBoot, HalfRequeued, Placed, Queued,
        InQueue, WorkerAgrees, CommittedAgrees, NoDoubleDelivery, StruckIsOut,
        Resumable, QueueTypeOK, WorkerStates, Modes
  <1>7. NoLostJob'
    BY JobsAssumption
    DEF QueueInv, Recover, procVars, NoLostJob, HalfRequeued, Placed, Queued,
        InQueue, Serving, WorkerAgrees, CommittedAgrees, StruckIsOut,
        QueueTypeOK, WorkerStates
  <1>8. RunningIsCurrent'
    BY JobsAssumption
    DEF QueueInv, Recover, procVars, RunningIsCurrent, WorkerAgrees,
        CommittedAgrees, NoDoubleDelivery, StruckIsOut, QuietBoot, QueueTypeOK,
        WorkerStates
  <1>. QED
    BY <1>1, <1>2, <1>3, <1>4, <1>5, <1>6, <1>7, <1>8 DEF QueueInv

LEMMA RequeueInv ==
    ASSUME QueueInv, Requeue
    PROVE  QueueInv'
  <1> DEFINE R == {j \in Queued : Resumable(jobType[j])}
  <1>0. /\ mode = "recovered" /\ mode' = "requeued"
        /\ queue' \in Seq(R) /\ queue' \in Seq(Jobs)
        /\ \A j \in Jobs : InQueue(j)' <=> j \in R
        /\ \A i, m \in 1..Len(queue') : queue'[i] = queue'[m] => i = m
        /\ committed = {} /\ pc = "idle" /\ current = NoJob /\ check = NoJob
        /\ UNCHANGED <<jobStatus, jobType, committed, pc, current, check,
                       faults, struck>>
    <2>1. IsFiniteSet(R)
      BY JobsAssumption, FS_Subset DEF Queued
    <2>2. Cardinality(R) \in Nat
      BY <2>1, FS_CardinalityType
    <2>3. queue' \in OrderingsOf(R)
      BY DEF Requeue
    <2>4. queue' \in Seq(R) /\ Len(queue') = Cardinality(R)
      BY <2>2, <2>3 DEF OrderingsOf
    <2>. QED
      BY <2>2, <2>3, <2>4, SMTT(30)
      DEF OrderingsOf, Requeue, jobVars, InQueue, Queued, QueueInv, QuietBoot,
          WorkerAgrees
  <1>1. QueueTypeOK'
    BY JobsAssumption, <1>0, MaxFaultsAssumption
    DEF QueueInv, QueueTypeOK, WorkerAgrees, JobTypes, JobStatuses,
        WorkerStates, Modes
  <1>2. NoDoubleDelivery'
    BY JobsAssumption, <1>0
    DEF QueueInv, NoDoubleDelivery, CommittedAgrees, WorkerAgrees,
        HalfRequeued, Placed, Queued, QuietBoot, InQueue, QueueTypeOK
  <1>3. WorkerAgrees'
    BY JobsAssumption, <1>0
    DEF QueueInv, WorkerAgrees, NoDoubleDelivery, CommittedAgrees, InQueue,
        HalfRequeued, Placed, Queued, QuietBoot, QueueTypeOK, WorkerStates
  <1>4. CommittedAgrees'
    BY JobsAssumption, <1>0
    DEF QueueInv, CommittedAgrees, WorkerAgrees, NoDoubleDelivery, InQueue,
        HalfRequeued, Placed, Queued, QuietBoot, QueueTypeOK, WorkerStates
  <1>5. StruckIsOut'
    BY JobsAssumption, <1>0
    DEF QueueInv, StruckIsOut, CommittedAgrees, WorkerAgrees, NoDoubleDelivery,
        QuietBoot, InQueue, QueueTypeOK, WorkerStates
  <1>6. QuietBoot' /\ HalfRequeued'
    BY JobsAssumption, <1>0
    DEF QueueInv, QuietBoot, HalfRequeued, Placed, Queued, InQueue,
        WorkerAgrees, CommittedAgrees, NoDoubleDelivery, StruckIsOut,
        Resumable, QueueTypeOK, WorkerStates, Modes
  <1>7. NoLostJob'
    BY JobsAssumption, <1>0
    DEF QueueInv, NoLostJob, HalfRequeued, Placed, Queued, InQueue, Serving,
        WorkerAgrees, CommittedAgrees, StruckIsOut, QueueTypeOK, WorkerStates
  <1>8. RunningIsCurrent'
    BY JobsAssumption, <1>0
    DEF QueueInv, RunningIsCurrent, WorkerAgrees, CommittedAgrees,
        NoDoubleDelivery, StruckIsOut, QuietBoot, QueueTypeOK, WorkerStates
  <1>. QED
    BY <1>1, <1>2, <1>3, <1>4, <1>5, <1>6, <1>7, <1>8 DEF QueueInv

LEMMA RequeueCommitInv ==
    ASSUME QueueInv, RequeueCommit
    PROVE  QueueInv'
  <1>1. QueueTypeOK'
    BY JobsAssumption, MaxFaultsAssumption
    DEF QueueInv, RequeueCommit, procVars, QueueTypeOK, WorkerAgrees, JobTypes,
        JobStatuses, WorkerStates, Modes
  <1>2. NoDoubleDelivery'
    BY JobsAssumption
    DEF QueueInv, RequeueCommit, procVars, NoDoubleDelivery, CommittedAgrees,
        WorkerAgrees, HalfRequeued, Placed, Queued, QuietBoot, InQueue,
        QueueTypeOK
  <1>3. WorkerAgrees'
    BY JobsAssumption
    DEF QueueInv, RequeueCommit, procVars, WorkerAgrees, NoDoubleDelivery,
        CommittedAgrees, InQueue, HalfRequeued, Placed, Queued, QuietBoot,
        QueueTypeOK, WorkerStates
  <1>4. CommittedAgrees'
    BY JobsAssumption
    DEF QueueInv, RequeueCommit, procVars, CommittedAgrees, WorkerAgrees,
        NoDoubleDelivery, InQueue, HalfRequeued, Placed, Queued, QuietBoot,
        QueueTypeOK, WorkerStates
  <1>5. StruckIsOut'
    BY JobsAssumption
    DEF QueueInv, RequeueCommit, procVars, StruckIsOut, CommittedAgrees,
        WorkerAgrees, NoDoubleDelivery, QuietBoot, InQueue, QueueTypeOK,
        WorkerStates
  <1>6. QuietBoot' /\ HalfRequeued'
    BY JobsAssumption
    DEF QueueInv, RequeueCommit, procVars, QuietBoot, HalfRequeued, Placed,
        Queued, InQueue, WorkerAgrees, CommittedAgrees, NoDoubleDelivery,
        StruckIsOut, Resumable, QueueTypeOK, WorkerStates, Modes
  <1>7. NoLostJob'
    BY JobsAssumption
    DEF QueueInv, RequeueCommit, procVars, NoLostJob, HalfRequeued, Placed,
        Queued, InQueue, Serving, WorkerAgrees, CommittedAgrees, StruckIsOut,
        QueueTypeOK, WorkerStates
  <1>8. RunningIsCurrent'
    BY JobsAssumption
    DEF QueueInv, RequeueCommit, procVars, RunningIsCurrent, WorkerAgrees,
        CommittedAgrees, NoDoubleDelivery, StruckIsOut, QuietBoot, QueueTypeOK,
        WorkerStates
  <1>. QED
    BY <1>1, <1>2, <1>3, <1>4, <1>5, <1>6, <1>7, <1>8 DEF QueueInv

LEMMA CrashInv ==
    ASSUME QueueInv, Crash
    PROVE  QueueInv'
  <1>1. QueueTypeOK'
    BY JobsAssumption, MaxFaultsAssumption
    DEF QueueInv, Crash, jobVars, QueueTypeOK, WorkerAgrees, JobTypes,
        JobStatuses, WorkerStates, Modes
  <1>2. NoDoubleDelivery'
    BY JobsAssumption
    DEF QueueInv, Crash, jobVars, NoDoubleDelivery, CommittedAgrees,
        WorkerAgrees, HalfRequeued, Placed, Queued, QuietBoot, InQueue,
        QueueTypeOK
  <1>3. WorkerAgrees'
    BY JobsAssumption
    DEF QueueInv, Crash, jobVars, WorkerAgrees, NoDoubleDelivery,
        CommittedAgrees, InQueue, HalfRequeued, Placed, Queued, QuietBoot,
        QueueTypeOK, WorkerStates
  <1>4. CommittedAgrees'
    BY JobsAssumption
    DEF QueueInv, Crash, jobVars, CommittedAgrees, WorkerAgrees,
        NoDoubleDelivery, InQueue, HalfRequeued, Placed, Queued, QuietBoot,
        QueueTypeOK, WorkerStates
  <1>5. StruckIsOut'
    BY JobsAssumption
    DEF QueueInv, Crash, jobVars, StruckIsOut, CommittedAgrees, WorkerAgrees,
        NoDoubleDelivery, QuietBoot, InQueue, QueueTypeOK, WorkerStates
  <1>6. QuietBoot' /\ HalfRequeued'
    BY JobsAssumption
    DEF QueueInv, Crash, jobVars, QuietBoot, HalfRequeued, Placed, Queued,
        InQueue, WorkerAgrees, CommittedAgrees, NoDoubleDelivery, StruckIsOut,
        Resumable, QueueTypeOK, WorkerStates, Modes
  <1>7. NoLostJob'
    BY JobsAssumption
    DEF QueueInv, Crash, jobVars, NoLostJob, HalfRequeued, Placed, Queued,
        InQueue, Serving, WorkerAgrees, CommittedAgrees, StruckIsOut,
        QueueTypeOK, WorkerStates
  <1>8. RunningIsCurrent'
    BY JobsAssumption
    DEF QueueInv, Crash, jobVars, RunningIsCurrent, WorkerAgrees,
        CommittedAgrees, NoDoubleDelivery, StruckIsOut, QuietBoot, QueueTypeOK,
        WorkerStates
  <1>. QED
    BY <1>1, <1>2, <1>3, <1>4, <1>5, <1>6, <1>7, <1>8 DEF QueueInv

-----------------------------------------------------------------------------
\* QueueInv is inductive. The conjuncts a step can disturb are proved action by
\* action in the lemmas above; a step that changes nothing preserves it.
LEMMA QueueInvInductive ==
    /\ QueueInit => QueueInv
    /\ QueueInv /\ [QueueNext]_queueVars => QueueInv'
  <1>1. ASSUME QueueInit PROVE QueueInv
    BY <1>1, JobsAssumption, MaxFaultsAssumption
    DEF QueueInit, QueueInv, QueueTypeOK, NoDoubleDelivery, WorkerAgrees,
        CommittedAgrees, StruckIsOut, QuietBoot, HalfRequeued, NoLostJob,
        RunningIsCurrent, InQueue, Serving, JobStatuses, JobTypes,
        WorkerStates, Modes
  <1>2. ASSUME QueueInv, [QueueNext]_queueVars PROVE QueueInv'
    <2>1. CASE UNCHANGED queueVars
      BY <1>2, <2>1
      DEF queueVars, QueueInv, QueueTypeOK, NoDoubleDelivery, WorkerAgrees,
          CommittedAgrees, StruckIsOut, QuietBoot, HalfRequeued, NoLostJob,
          RunningIsCurrent, InQueue, Placed, Queued, Serving
    <2>2. CASE \E j \in Jobs, t \in JobTypes : SubmitJob(j, t)
      BY <1>2, <2>2, SubmitJobInv
    <2>3. CASE \E j \in Jobs : EnqueueJob(j) \/ DropJob(j)
      BY <1>2, <2>3, EnqueueJobInv, DropJobInv
    <2>4. CASE WorkerStep
      BY <1>2, <2>4, WorkerGetInv, WorkerStartInv, WorkerDropsInv,
         WorkerSucceedInv, WorkerFailInv, WorkerSubmitCheckInv,
         WorkerEnqueueCheckInv, WorkerRetractsInv, WorkerAbandonsInv
      DEF WorkerStep
    <2>5. CASE BootStep
      BY <1>2, <2>5, RecoverInv, RequeueInv, RequeueCommitInv DEF BootStep
    <2>6. CASE Crash
      BY <1>2, <2>6, CrashInv
    <2>. QED
      BY <1>2, <2>1, <2>2, <2>3, <2>4, <2>5, <2>6 DEF QueueNext
  <1>. QED  BY <1>1, <1>2

\* The types of the table, the queue and the worker's registers hold in every
\* reachable state, for any finite set of jobs (entities.Job, inprocess).
THEOREM QueueTypeCorrect == QueueSpec => []QueueTypeOK
  <1>1. QueueInv => QueueTypeOK
    BY DEF QueueInv
  <1>. QED  BY <1>1, QueueInvInductive, PTL DEF QueueSpec

\* While requests are served, a queued job that nobody holds has been struck by a
\* database error since the last start. Crashes alone lose none: one between a
\* handler's commit and its put, or after the worker's get, is made good by
\* requeue_queued_jobs.
THEOREM NoJobIsLost == QueueSpec => []NoLostJob
  <1>1. QueueInv => NoLostJob
    BY DEF QueueInv
  <1>. QED  BY <1>1, QueueInvInductive, PTL DEF QueueSpec

\* No job is on the queue twice, or on the queue and in someone's hands.
THEOREM NoJobIsDoubled == QueueSpec => []NoDoubleDelivery
  <1>1. QueueInv => NoDoubleDelivery
    BY DEF QueueInv
  <1>. QED  BY <1>1, QueueInvInductive, PTL DEF QueueSpec

\* A row is marked running while the worker runs it, or after a database error that
\* kept dispatch from recording its end: mark_orphaned_running_as_failed ends no other.
THEOREM RunningRowIsCurrentJob == QueueSpec => []RunningIsCurrent
  <1>1. QueueInv => RunningIsCurrent
    BY DEF QueueInv
  <1>. QED  BY <1>1, QueueInvInductive, PTL DEF QueueSpec

\* A job - a deletion, say - is run at most once, across any number of crashes, errors
\* and restarts: dispatch never overwrites a status other than queued with running.
THEOREM JobsRunAtMostOnce == QueueSpec => RunAtMostOnce
  <1>1. ASSUME QueueInv, [QueueNext]_queueVars PROVE [JobStep]_queueVars
    <2> USE <1>1 DEF QueueInv, QueueTypeOK, WorkerAgrees, JobStep, Forward
    <2>1. CASE UNCHANGED queueVars
      BY <2>1
    <2>2. CASE \E j \in Jobs, t \in JobTypes : SubmitJob(j, t)
      BY <2>2 DEF SubmitJob, InsertJob
    <2>3. CASE \E j \in Jobs : EnqueueJob(j) \/ DropJob(j)
      BY <2>3 DEF EnqueueJob, DropJob
    <2>4. CASE WorkerGet
      BY <2>4 DEF WorkerGet
    <2>5. CASE WorkerStart
      BY <2>5 DEF WorkerStart
    <2>6. CASE WorkerSucceed
      BY <2>6 DEF WorkerSucceed
    <2>7. CASE WorkerFail
      BY <2>7 DEF WorkerFail
    <2>8. CASE \E k \in Jobs : WorkerSubmitCheck(k)
      BY <2>8 DEF WorkerSubmitCheck, InsertJob
    <2>9. CASE WorkerEnqueueCheck
      BY <2>9 DEF WorkerEnqueueCheck
    <2>10. CASE WorkerDrops \/ WorkerAbandons
      BY <2>10 DEF WorkerDrops, WorkerAbandons, jobVars
    <2>11. CASE WorkerRetracts
      BY <2>11 DEF WorkerRetracts
    <2>12. CASE Recover
      BY <2>12 DEF Recover, procVars
    <2>13. CASE Requeue
      BY <2>13 DEF Requeue, jobVars
    <2>14. CASE RequeueCommit
      BY <2>14 DEF RequeueCommit, procVars
    <2>15. CASE Crash
      BY <2>15 DEF Crash, jobVars
    <2>. QED
      BY <2>1, <2>2, <2>3, <2>4, <2>5, <2>6, <2>7, <2>8, <2>9, <2>10, <2>11,
         <2>12, <2>13, <2>14, <2>15 DEF QueueNext, WorkerStep, BootStep
  <1>2. QueueInv /\ [QueueNext]_queueVars => [JobStep]_queueVars
    BY <1>1
  <1>. QED
    BY <1>2, QueueInvInductive, PTL DEF QueueSpec, RunAtMostOnce

-----------------------------------------------------------------------------
(* JobQueue implements JobPromise.                                         *)

\* The steps of the worker and the handlers.
LEMMA RunRefines ==
    ASSUME QueueInv, QueueInv',
           WorkerStep \/ \E j \in Jobs : \/ EnqueueJob(j) \/ DropJob(j)
                                         \/ \E t \in JobTypes : SubmitJob(j, t)
    PROVE  [Promise!Next]_(Promise!vars)
  <1>0. jobStatus \in [Jobs -> JobStatuses] /\ jobStatus' \in [Jobs -> JobStatuses]
    BY DEF QueueInv, QueueTypeOK
  <1>. DEFINE Moved(j, s) == jobStatus' = [jobStatus EXCEPT ![j] = s]
  <1>1. mode' = mode /\ mode \in {"requeued", "up"}
    BY DEF WorkerStep, WorkerGet, WorkerStart, WorkerSucceed, WorkerFail, WorkerSubmitCheck,
           WorkerEnqueueCheck, WorkerDrops, WorkerRetracts, WorkerAbandons, EnqueueJob,
           DropJob, SubmitJob, WorkerAlive, Serving
  <1>2. Phase' = Phase /\ Phase # "down"
    BY <1>1 DEF Phase
  <1>3. ASSUME UNCHANGED <<jobStatus, Working>> PROVE UNCHANGED Promise!vars
    BY <1>2, <1>3 DEF Promise!vars
  <1>4. ASSUME NEW j \in Jobs, jobStatus[j] = "none", Moved(j, "queued"), Working' = Working
        PROVE  Promise!Next
    <2>1. Promise!Submit(j)
      BY <1>2, <1>4 DEF Promise!Submit
    <2>. QED  BY <2>1 DEF Promise!Next
  <1>5. CASE WorkerStart
    <2>1. current \in Jobs /\ jobStatus[current] = "queued" /\ Moved(current, "running")
      BY <1>5 DEF WorkerStart, QueueInv, WorkerAgrees, QueueTypeOK
    <2>2. Working = {} /\ Working' = {current}
      BY <1>5 DEF WorkerStart, Working
    <2>3. Promise!Start(current)
      BY <1>2, <2>1, <2>2 DEF Promise!Start
    <2>. QED  BY <2>1, <2>3 DEF Promise!Next
  <1>6. CASE WorkerSucceed
    <2>1. current \in Jobs /\ jobStatus[current] = "running" /\ Moved(current, "success")
      BY <1>6 DEF WorkerSucceed, QueueInv, WorkerAgrees, QueueTypeOK
    <2>2. Working = {current} /\ Working' \in {{current}, {}}
      BY <1>6 DEF WorkerSucceed, Working
    <2>3. Promise!Succeed(current)
      BY <1>2, <2>1, <2>2 DEF Promise!Succeed
    <2>. QED  BY <2>1, <2>3 DEF Promise!Next
  <1>7. CASE WorkerFail \/ WorkerRetracts
    <2>1. /\ current \in Jobs /\ jobStatus[current] \in {"running", "success"}
          /\ Moved(current, "failed")
      BY <1>7 DEF WorkerFail, WorkerRetracts, QueueInv, WorkerAgrees, QueueTypeOK
    <2>2. Working = {current} /\ Working' = {}
      BY <1>7 DEF WorkerFail, WorkerRetracts, Working
    <2>3. Promise!Fail(current)
      BY <1>2, <2>1, <2>2 DEF Promise!Fail
    <2>. QED  BY <2>1, <2>3 DEF Promise!Next
  <1>8. CASE WorkerEnqueueCheck \/ WorkerAbandons
    <2>1. UNCHANGED jobStatus /\ Working = {current} /\ Working' = {}
      BY <1>8 DEF WorkerEnqueueCheck, WorkerAbandons, Working, jobVars
    <2>2. Promise!Leave
      BY <1>2, <2>1 DEF Promise!Leave
    <2>. QED  BY <2>2 DEF Promise!Next
  <1>9. CASE \E j \in Jobs : WorkerSubmitCheck(j) \/ \E t \in JobTypes : SubmitJob(j, t)
    BY <1>4, <1>9 DEF WorkerSubmitCheck, SubmitJob, InsertJob, Working
  <1>10. CASE WorkerGet \/ WorkerDrops \/ \E j \in Jobs : EnqueueJob(j) \/ DropJob(j)
    BY <1>3, <1>10 DEF WorkerGet, WorkerDrops, EnqueueJob, DropJob, jobVars, Working
  <1>. QED  BY <1>5, <1>6, <1>7, <1>8, <1>9, <1>10 DEF WorkerStep

\* Over any number of crashes and errors the jobs keep what a client is promised: one is
\* worked on at a time, only the start of a process ends a job that was not begun, and
\* only who works on a job ends it (dispatch, mark_orphaned_running_as_failed,
\* requeue_queued_jobs).
THEOREM QueueKeepsPromise == QueueSpec => KeepsJobPromise
  <1>1. QueueInit => Promise!Init
    BY DEF QueueInit, Promise!Init, Phase, Working
  <1>2. ASSUME QueueInv, QueueInv', [QueueNext]_queueVars
        PROVE  [Promise!Next]_(Promise!vars)
    <2>0. jobStatus \in [Jobs -> JobStatuses] /\ jobStatus' \in [Jobs -> JobStatuses]
      BY <1>2 DEF QueueInv, QueueTypeOK
    <2>1. CASE UNCHANGED queueVars
      BY <2>1 DEF queueVars, Promise!vars, Phase, Working
    <2>2. CASE Recover
      <3>1. Phase = "down" /\ Phase' = "starting" /\ UNCHANGED Working
        BY <2>2 DEF Recover, Phase, Working, procVars
      <3>2. Promise!Boot
        BY <2>2, <3>1 DEF Recover, Promise!Boot
      <3>. QED  BY <3>2 DEF Promise!Next
    <2>3. CASE Requeue
      BY <2>3 DEF Requeue, Phase, Working, jobVars, Promise!vars
    <2>4. CASE RequeueCommit
      <3>. DEFINE Dropped == {j \in Queued : ~Resumable(jobType[j])}
      <3>1. Phase = "starting" /\ Phase' = "serving" /\ UNCHANGED Working
        BY <2>4 DEF RequeueCommit, Phase, Working, procVars
      <3>2. Dropped \in SUBSET {j \in Jobs : jobStatus[j] = "queued"}
        BY DEF Queued
      <3>3. jobStatus' = [j \in Jobs |-> IF j \in Dropped THEN "failed" ELSE jobStatus[j]]
        BY <2>4 DEF RequeueCommit, Queued
      <3>. HIDE DEF Dropped
      <3>4. Promise!Serve
        BY <3>1, <3>2, <3>3 DEF Promise!Serve
      <3>. QED  BY <3>4 DEF Promise!Next
    <2>5. CASE Crash
      <3>1. Phase # "down" /\ Phase' = "down" /\ UNCHANGED jobStatus
        BY <1>2, <2>5 DEF Crash, Phase, jobVars, QueueInv, QueueTypeOK, Modes
      <3>2. Working' = {}
        BY <2>5 DEF Crash, Working
      <3>3. Promise!Die
        BY <3>1, <3>2 DEF Promise!Die
      <3>. QED  BY <3>3 DEF Promise!Next
    <2>6. CASE WorkerStep \/ \E j \in Jobs : \/ EnqueueJob(j) \/ DropJob(j)
                                             \/ \E t \in JobTypes : SubmitJob(j, t)
      BY <1>2, <2>6, RunRefines
    <2>. QED  BY <1>2, <2>1, <2>2, <2>3, <2>4, <2>5, <2>6 DEF QueueNext, BootStep
  <1>3. QueueInv /\ QueueInv' /\ [QueueNext]_queueVars => [Promise!Next]_(Promise!vars)
    BY <1>2
  <1>. QED
    BY <1>1, <1>3, QueueInvInductive, PTL DEF QueueSpec, KeepsJobPromise, Promise!Spec

=============================================================================
