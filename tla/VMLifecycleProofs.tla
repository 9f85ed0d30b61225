------------------------- MODULE VMLifecycleProofs -------------------------
(***************************************************************************)
(* Proofs about VMLifecycle, for any number of rows, hostnames, VMIDs,     *)
(* requests and jobs:                                                      *)
(*   - VMLifecycle implements JobQueue, so what JobQueueProofs shows of    *)
(*     jobs, and what JobPromise promises, holds of the jobs of the panel; *)
(*   - the types are right;                                                *)
(*   - no two live rows share a hostname;                                  *)
(*   - a live row in a transient status has a job that takes it further;   *)
(*   - a check is lost only with the process or by a database error;       *)
(*   - a row is marked deleted only when its guest does not exist, or the  *)
(*     lookup missed it;                                                   *)
(*   - a settled row says the truth about its guest, if no other row was   *)
(*     ever given the VMID;                                                *)
(*   - a job acts only on VMIDs that were once handed out for its own row; *)
(*   - SSH is ready only at an address;                                    *)
(*   - a guest the panel knows is forgotten in three cases only.           *)
(***************************************************************************)
EXTENDS VMLifecycle, JobQueueProofs

\* A job has a row, and so has a request about a row; rows are never removed.
\* Without this nothing could be said of what a job writes.
Born(v) == v \in VMs /\ vms[v].status # "none"

JobsHaveRows ==
    /\ \A j \in Jobs : jobStatus[j] # "none" => Born(jobVm[j])
    /\ \A r \in Requests :
          /\ req[r].pc = "marked" => req[r].type # "create_vm"
          /\ req[r].pc # "idle" /\ req[r].type # "create_vm" => Born(req[r].vm)

\* What the lock is for: one request holds it, and from its second lookup to
\* its commit no live row takes the hostname.
LockGuards ==
    /\ \A r, s \in Requests : req[r].pc = "locked" /\ req[s].pc = "locked" => r = s
    /\ \A r \in Requests : req[r].pc = "locked" => ~HostTaken(req[r].host)

PanelInv ==
    /\ QueueInv
    /\ TypeOK
    /\ JobsHaveRows
    /\ LockGuards
    /\ HostnameUnique

\* What every step but the insertion of a row does to the rows: it neither
\* makes nor renames one, and a deleted row stays deleted.
RowsKept ==
    \A v \in VMs : /\ vms'[v].host = vms[v].host
                   /\ vms'[v].status = "none" <=> vms[v].status = "none"
                   /\ vms[v].deleted => vms'[v].deleted

LEMMA PanelInit == Init => PanelInv
  <1>. SUFFICES ASSUME Init PROVE PanelInv
    OBVIOUS
  <1>1. QueueInv
    BY QueueInvInductive DEF Init
  <1>2. TypeOK
    BY <1>1 DEF QueueInv, Init, TypeOK, VMRows, Guests, ReqRecords, Bodies, Steps,
                NoRow, NoReq, NoBody, VMStatuses, SSHStatuses, JobTypes
  <1>3. JobsHaveRows /\ LockGuards /\ HostnameUnique
    BY DEF Init, QueueInit, JobsHaveRows, LockGuards, HostnameUnique, Live,
           NoReq, NoRow
  <1>. QED  BY <1>1, <1>2, <1>3 DEF PanelInv

LEMMA CurrentHasRow ==
    ASSUME PanelInv, pc # "idle"
    PROVE  current \in Jobs /\ jobStatus[current] # "none" /\ Born(me)
  <1>1. current \in Jobs
    BY DEF PanelInv, QueueInv, WorkerAgrees, QueueTypeOK
  <1>2. jobStatus[current] # "none"
    BY <1>1 DEF PanelInv, QueueInv, WorkerAgrees, QueueTypeOK, WorkerStates
  <1>. QED  BY <1>1, <1>2 DEF PanelInv, JobsHaveRows, me

-----------------------------------------------------------------------------
(* The bodies of the jobs.                                                 *)

\* What a step of a body leaves alone, and the types of what it does not.
BodyKept ==
    /\ UNCHANGED <<queueVars, jobVm, req>>
    /\ vms' \in [VMs -> VMRows]
    /\ jobTarget' \in [Jobs -> Vmids \cup {NoVmid}]
    /\ guests' \in [Vmids -> Guests]
    /\ body' \in Bodies
    /\ RowsKept

LEMMA CommitRowKeeps ==
    ASSUME PanelInv, pc = "running",
           NEW row \in VMRows, NEW s \in SSHStatuses, NEW step \in Steps,
           row.host = vms[me].host, row.status # "none",
           vms[me].deleted => row.deleted,
           CommitRow(row, s, step)
    PROVE  BodyKept
  <1>1. Born(me)
    BY CurrentHasRow
  <1>2. vms \in [VMs -> VMRows] /\ body \in Bodies /\ guests \in [Vmids -> Guests]
        /\ jobTarget \in [Jobs -> Vmids \cup {NoVmid}]
    BY DEF PanelInv, TypeOK
  <1>3. vms[me].ssh \in SSHStatuses
    BY <1>1, <1>2 DEF Born, VMRows
  <1> DEFINE new == [row EXCEPT !.ssh = IF body.ssh = s THEN vms[me].ssh ELSE s]
  <1>4. new \in VMRows /\ new.host = row.host /\ new.status = row.status
        /\ new.deleted = row.deleted
    BY <1>3 DEF VMRows
  <1>5. vms' = [vms EXCEPT ![me] = new]
    BY DEF CommitRow
  <1>6. vms' \in [VMs -> VMRows]
    BY <1>2, <1>4, <1>5
  <1>7. RowsKept
    BY <1>1, <1>2, <1>4, <1>5 DEF RowsKept, Born
  <1>8. body' \in Bodies
    BY <1>2 DEF CommitRow, Bodies
  <1>. QED
    BY <1>2, <1>6, <1>7, <1>8 DEF BodyKept, CommitRow, InBody

LEMMA TaskKeeps ==
    ASSUME PanelInv, NEW possible, NEW i \in Vmids \cup {NoVmid},
           NEW after, NEW failed, NEW step \in Steps,
           i \in Vmids => after \in Guests /\ failed \subseteq Guests,
           Task(possible, i, after, failed, step)
    PROVE  BodyKept
  <1>1. vms \in [VMs -> VMRows] /\ body \in Bodies /\ guests \in [Vmids -> Guests]
        /\ jobTarget \in [Jobs -> Vmids \cup {NoVmid}]
    BY DEF PanelInv, TypeOK
  <1>2. guests' \in [Vmids -> Guests]
    BY <1>1 DEF Task
  <1>3. body' \in Bodies
    <2>1. "lost" \in Steps
      BY DEF Steps
    <2>. QED  BY <1>1, <2>1 DEF Task, Bodies
  <1>4. UNCHANGED rowVars
    BY DEF Task
  <1>. QED
    BY <1>1, <1>2, <1>3, <1>4 DEF Task, BodyKept, InBody, rowVars, RowsKept

LEMMA BodyKeeps ==
    ASSUME PanelInv, BodyStep
    PROVE  BodyKept
  <1> USE DEF At
  <1>0. pc = "running"
    BY DEF BodyStep, ProvisionStep, DestroyStep, PowerStep, Provision, Clone,
           RecordTarget, CloneDone, Configure, StartGuest, GuestStarted, GotIp,
           NoIp, MakeUnique, MadeUnique, BeginReinstall, BeginDelete, NothingToDestroy,
           StopBeforeErase, Erase, Erased, FinishDelete, WipeRow, BeginPower,
           PostPower, Stopped, PoweredOn, PowerIp, CheckSsh
  <1>1. /\ vms \in [VMs -> VMRows] /\ body \in Bodies
        /\ guests \in [Vmids -> Guests]
        /\ jobTarget \in [Jobs -> Vmids \cup {NoVmid}]
        /\ me \in VMs /\ vms[me].status # "none" /\ vms[me] \in VMRows
        /\ body.ssh \in SSHStatuses /\ body.newid \in Vmids \cup {NoVmid}
        /\ vms[me].vmid \in Vmids \cup {NoVmid}
    BY <1>0, CurrentHasRow DEF PanelInv, TypeOK, Born, Bodies, VMRows
  <1>2. CASE ProvisionStep
    <2>1. CASE Provision
      BY <1>0, <1>1, <2>1, CommitRowKeeps DEF Provision, SSHStatuses, Steps
    <2>2. CASE Clone
      <3>1. PICK i \in Vmids :
                Task(TRUE, i, Cloned(i, "stopped"),
                     {[Cloned(i, "none") EXCEPT !.owner = NoVm]}, "record")
        BY <2>2 DEF Clone, NextIds
      <3>2. /\ Cloned(i, "stopped") \in Guests
            /\ [Cloned(i, "none") EXCEPT !.owner = NoVm] \in Guests
        BY <1>1 DEF Cloned, Guests
      <3>. HIDE DEF Cloned
      <3>. QED  BY <1>0, <3>1, <3>2, TaskKeeps DEF Steps
    <2>3. CASE RecordTarget
      BY <1>0, <1>1, <2>3
      DEF RecordTarget, Goto, InBody, BodyKept, RowsKept, Bodies, Steps
    <2>4. CASE CloneDone
      BY <1>0, <1>1, <2>4, CommitRowKeeps
      DEF CloneDone, Commit, VMRows, VMStatuses, Steps
    <2>5. CASE Configure \/ MadeUnique
      BY <1>0, <1>1, <2>5, CommitRowKeeps
      DEF Configure, MadeUnique, Commit, Steps
    <2>6. CASE StartGuest
      BY <1>0, <1>1, <2>6, TaskKeeps DEF StartGuest, Guests, Steps
    <2>7. CASE GuestStarted
      BY <1>0, <1>1, <2>7, CommitRowKeeps
      DEF GuestStarted, Commit, VMRows, VMStatuses, Steps
    <2>8. CASE GotIp
      BY <1>0, <1>1, <2>8, CommitRowKeeps DEF GotIp, Commit, VMRows, Steps
    <2>9. CASE NoIp
      BY <1>0, <1>1, <2>9, CommitRowKeeps DEF NoIp, SSHStatuses, Steps
    <2>10. CASE MakeUnique
      BY <1>0, <1>1, <2>10
      DEF MakeUnique, Goto, InBody, BodyKept, RowsKept, Bodies, Steps, rowVars, Guests
    <2>. QED
      BY <1>2, <2>1, <2>2, <2>3, <2>4, <2>5, <2>6, <2>7, <2>8, <2>9, <2>10
      DEF ProvisionStep
  <1>3. CASE DestroyStep
    <2>0. AfterDestroy \in Steps
      BY DEF AfterDestroy, Steps
    <2>1. CASE BeginReinstall
      BY <1>0, <1>1, <2>1, CommitRowKeeps
      DEF BeginReinstall, VMRows, VMStatuses, SSHStatuses, Steps
    <2>2. CASE BeginDelete
      BY <1>0, <1>1, <2>2, CommitRowKeeps
      DEF BeginDelete, Commit, VMRows, VMStatuses, Steps
    <2>3. CASE Erased
      BY <1>0, <1>1, <2>0, <2>3, CommitRowKeeps DEF Erased, Commit
    <2>4. CASE StopBeforeErase
      BY <1>0, <1>1, <2>4
      DEF StopBeforeErase, Goto, InBody, BodyKept, RowsKept, Bodies, Steps,
          rowVars, Guests
    <2>5. CASE Erase
      <3>1. ASSUME NEW k \in Vmids PROVE Erasure(k) \in Guests
        <4>1. guests[k] \in Guests
          BY <1>1
        <4>. QED  BY <4>1 DEF Erasure, Guests
      <3>. DEFINE i == vms[me].vmid
                  after == Erasure(i)
                  failed == {guests[i]}
                  possible == Off(i)
      <3>2. Task(possible, i, after, failed, "waiterase") /\ "waiterase" \in Steps
        BY <2>5 DEF Erase, Steps
      <3>3. i \in Vmids => after \in Guests /\ failed \subseteq Guests
        BY <1>1, <3>1
      <3>. HIDE DEF after, failed, possible
      <3>. QED  BY <1>0, <1>1, <3>2, <3>3, TaskKeeps
    <2>6. CASE FinishDelete
      BY <1>0, <1>1, <2>6, CommitRowKeeps
      DEF FinishDelete, Commit, VMRows, VMStatuses, Steps
    <2>7. CASE WipeRow
      BY <1>0, <1>1, <2>7, CommitRowKeeps
      DEF WipeRow, Commit, VMRows, VMStatuses, Steps
    <2>8. CASE NothingToDestroy
      <3>1. HasGuest(me) \in BOOLEAN
        BY DEF HasGuest
      <3>. QED
        BY <1>0, <1>1, <2>0, <2>8, <3>1
        DEF NothingToDestroy, InBody, BodyKept, RowsKept, Bodies
    <2>. QED
      BY <1>3, <2>1, <2>2, <2>3, <2>4, <2>5, <2>6, <2>7, <2>8 DEF DestroyStep
  <1>4. CASE PowerStep
    <2>1. CASE BeginPower
      <3>1. PICK s \in SSHStatuses :
              CommitRow([vms[me] EXCEPT !.status = PowerTransient(jobType[current])],
                        s, "post")
        BY <1>1, <2>1 DEF BeginPower, SSHStatuses
      <3>2. PowerTransient(jobType[current]) \in VMStatuses \ {"none"}
        BY <2>1 DEF BeginPower, PowerTransient, VMStatuses
      <3>. QED
        BY <1>0, <1>1, <3>1, <3>2, CommitRowKeeps DEF VMRows, Steps
    <2>2. CASE PostPower
      BY <1>0, <1>1, <2>2, TaskKeeps DEF PostPower, Guests, Steps
    <2>3. CASE Stopped
      BY <1>0, <1>1, <2>3, CommitRowKeeps
      DEF Stopped, Commit, VMRows, VMStatuses, Steps
    <2>4. CASE PoweredOn
      BY <1>0, <1>1, <2>4, CommitRowKeeps DEF PoweredOn, Commit, Steps
    <2>5. CASE PowerIp
      <3>1. CASE Commit([vms[me] EXCEPT !.status = "running", !.ip = TRUE], "done")
        BY <1>0, <1>1, <3>1, CommitRowKeeps
        DEF Commit, VMRows, VMStatuses, Steps
      <3>2. CASE CommitRow([vms[me] EXCEPT !.status = "running"], "failed", "done")
        BY <1>0, <1>1, <3>2, CommitRowKeeps
        DEF VMRows, VMStatuses, SSHStatuses, Steps
      <3>. QED  BY <2>5, <3>1, <3>2 DEF PowerIp
    <2>. QED
      BY <1>4, <2>1, <2>2, <2>3, <2>4, <2>5 DEF PowerStep
  <1>5. CASE CheckSsh
    BY <1>0, <1>1, <1>5, CommitRowKeeps DEF CheckSsh, SSHStatuses, Steps
  <1>. QED
    BY <1>2, <1>3, <1>4, <1>5 DEF BodyStep

-----------------------------------------------------------------------------
(* Every step of the panel is a step of the queue or leaves it alone.      *)

LEMMA StepRefines ==
    ASSUME PanelInv, [Next]_vars
    PROVE  [QueueNext]_queueVars
  <1>1. CASE UNCHANGED vars
    BY <1>1 DEF vars
  <1>2. CASE Client
    BY <1>2 DEF Client, CheckCreate, CheckRow, HandlerOnly
  <1>3. CASE Handler
    <2>1. ASSUME NEW r \in Requests,
                 LockCreate(r) \/ HandlerFails(r) \/ MarkPending(r)
          PROVE  UNCHANGED queueVars
      BY <2>1 DEF LockCreate, HandlerFails, MarkPending, HandlerOnly
    <2>2. ASSUME NEW r \in Requests, NEW v \in VMs, NEW j \in Jobs,
                 CommitCreate(r, v, j)
          PROVE  QueueNext
      <3>1. SubmitJob(j, "create_vm") /\ "create_vm" \in JobTypes
        BY <2>2 DEF CommitCreate, JobTypes
      <3>. QED  BY <3>1 DEF QueueNext
    <2>3. ASSUME NEW r \in Requests, NEW j \in Jobs, CommitJob(r, j)
          PROVE  QueueNext
      <3>1. SubmitJob(j, req[r].type)
        BY <2>3 DEF CommitJob
      <3>2. req[r].type \in JobTypes
        BY DEF PanelInv, TypeOK, ReqRecords
      <3>. QED  BY <3>1, <3>2 DEF QueueNext
    <2>4. ASSUME NEW j \in Jobs, Enqueue(j) \/ Drop(j)
          PROVE  QueueNext
      BY <2>4 DEF Enqueue, Drop, QueueNext
    <2>. QED
      BY <1>3, <2>1, <2>2, <2>3, <2>4 DEF Handler, HandlerStep
  <1>4. CASE Worker
    <2>1. CASE BodyStep
      BY <2>1, BodyKeeps DEF BodyKept
    <2>2. CASE \/ TakeJob \/ StartJob \/ JobSucceeds \/ JobFails \/ EnqueueCheck
               \/ JobDropped \/ JobAbandoned \/ CheckRetracted
      BY <2>2 DEF TakeJob, StartJob, JobSucceeds, JobFails, EnqueueCheck, JobDropped,
                  JobAbandoned, CheckRetracted, QueueNext, WorkerStep
    <2>3. CASE \E k \in Jobs : SubmitCheck(k)
      BY <2>3 DEF SubmitCheck, QueueNext, WorkerStep
    <2>. QED
      BY <1>4, <2>1, <2>2, <2>3 DEF Worker
  <1>5. CASE Boot
    BY <1>5 DEF Boot, RecoverRows, RequeueJobs, QueueNext, BootStep
  <1>6. CASE ProcessDies
    BY <1>6 DEF ProcessDies, QueueNext
  <1>. QED
    BY <1>1, <1>2, <1>3, <1>4, <1>5, <1>6 DEF Next

-----------------------------------------------------------------------------
(* PanelInv is inductive.                                                  *)

\* Types of the variables VMLifecycle adds.
PanelTypes ==
    /\ vms \in [VMs -> VMRows]
    /\ jobVm \in [Jobs -> VMs \cup {NoVm}]
    /\ jobTarget \in [Jobs -> Vmids \cup {NoVmid}]
    /\ guests \in [Vmids -> Guests]
    /\ req \in [Requests -> ReqRecords]
    /\ body \in Bodies

\* A step that keeps the rows and does not touch the requests cannot break
\* what is said of hostnames.
LEMMA KeptHosts ==
    ASSUME PanelInv, RowsKept, UNCHANGED req
    PROVE  LockGuards' /\ HostnameUnique'
  <1>1. \A v \in VMs : Live(v)' => Live(v) /\ vms'[v].host = vms[v].host
    BY DEF RowsKept, Live
  <1>2. LockGuards'
    BY <1>1 DEF PanelInv, LockGuards, HostTaken
  <1>3. HostnameUnique'
    BY <1>1 DEF PanelInv, HostnameUnique
  <1>. QED  BY <1>2, <1>3

\* ... nor what is said of the rows of jobs, if it commits no job.
LEMMA KeptJobs ==
    ASSUME PanelInv, PanelTypes', RowsKept, UNCHANGED <<req, jobVm>>,
           \A j \in Jobs : jobStatus'[j] # "none" => jobStatus[j] # "none"
    PROVE  JobsHaveRows'
  BY DEF PanelInv, JobsHaveRows, Born, RowsKept

LEMMA ClientKeeps ==
    ASSUME PanelInv, Client
    PROVE  PanelTypes' /\ JobsHaveRows' /\ LockGuards' /\ HostnameUnique'
  <1> USE DEF HandlerOnly, rowVars, queueVars
  <1>0. vms \in [VMs -> VMRows] /\ req \in [Requests -> ReqRecords]
    BY DEF PanelInv, TypeOK
  <1>1. ASSUME NEW r \in Requests, NEW h \in Hosts, CheckCreate(r, h)
        PROVE  PanelTypes' /\ JobsHaveRows' /\ LockGuards' /\ HostnameUnique'
    <2>1. PanelTypes'
      BY <1>0, <1>1
      DEF CheckCreate, PanelInv, TypeOK, PanelTypes, ReqRecords, NoReq,
          JobTypes, SSHStatuses
    <2>2. JobsHaveRows'
      BY <1>0, <1>1 DEF CheckCreate, PanelInv, JobsHaveRows, Born, NoReq
    <2>3. LockGuards' /\ HostnameUnique'
      BY <1>0, <1>1
      DEF CheckCreate, PanelInv, LockGuards, HostnameUnique, HostTaken, Live, NoReq
    <2>. QED  BY <2>1, <2>2, <2>3
  <1>2. ASSUME NEW r \in Requests, NEW t \in Wanted, NEW v \in VMs, CheckRow(r, t, v)
        PROVE  PanelTypes' /\ JobsHaveRows' /\ LockGuards' /\ HostnameUnique'
    <2>0. t \in JobTypes \ {"create_vm"}
      BY WantedAssumption
    <2>1. PanelTypes'
      BY <1>0, <1>2, <2>0
      DEF CheckRow, PanelInv, TypeOK, PanelTypes, ReqRecords, VMRows, NoReq
    <2>2. JobsHaveRows'
      BY <1>0, <1>2, <2>0 DEF CheckRow, PanelInv, JobsHaveRows, Born, Live, NoReq
    <2>3. LockGuards' /\ HostnameUnique'
      BY <1>0, <1>2
      DEF CheckRow, PanelInv, LockGuards, HostnameUnique, HostTaken, Live, NoReq
    <2>. QED  BY <2>1, <2>2, <2>3
  <1>. QED  BY <1>1, <1>2 DEF Client

\* create_vm: the lock is taken and the hostname looked up in one step, and no
\* row can appear before the holder's commit but the holder's own.
LEMMA CreateKeeps ==
    ASSUME PanelInv, NEW r \in Requests,
           LockCreate(r) \/ \E v \in VMs, j \in Jobs : CommitCreate(r, v, j)
    PROVE  PanelTypes' /\ JobsHaveRows' /\ LockGuards' /\ HostnameUnique'
  <1>0. /\ vms \in [VMs -> VMRows] /\ req \in [Requests -> ReqRecords]
        /\ jobVm \in [Jobs -> VMs \cup {NoVm}]
        /\ jobStatus \in [Jobs -> JobStatuses]
    BY DEF PanelInv, TypeOK, QueueTypeOK
  <1>1. CASE LockCreate(r)
    <2> USE DEF HandlerOnly, rowVars, queueVars
    <2>1. PanelTypes'
      BY <1>0, <1>1
      DEF LockCreate, PanelInv, TypeOK, PanelTypes, ReqRecords, NoReq, JobTypes,
          SSHStatuses
    <2>2. JobsHaveRows'
      BY <1>0, <1>1 DEF LockCreate, PanelInv, JobsHaveRows, Born, NoReq, ReqRecords
    <2>3. LockGuards' /\ HostnameUnique'
      BY <1>0, <1>1
      DEF LockCreate, PanelInv, LockGuards, HostnameUnique, HostTaken, Live, NoReq,
          ReqRecords
    <2>. QED  BY <2>1, <2>2, <2>3
  <1>2. ASSUME NEW v \in VMs, NEW j \in Jobs, CommitCreate(r, v, j)
        PROVE  PanelTypes' /\ JobsHaveRows' /\ LockGuards' /\ HostnameUnique'
    <2> DEFINE row == [NoRow EXCEPT !.host = req[r].host, !.status = "creating"]
    <2>1. row \in VMRows /\ row.host = req[r].host /\ row.status # "none"
      BY <1>0 DEF VMRows, NoRow, ReqRecords, VMStatuses, SSHStatuses
    <2>2. /\ vms' = [vms EXCEPT ![v] = row] /\ vms[v].status = "none"
          /\ req' = [req EXCEPT ![r] = NoReq] /\ req[r].pc = "locked"
          /\ jobVm' = [jobVm EXCEPT ![j] = v]
          /\ UNCHANGED <<jobTarget, guests, body>>
      BY <1>2 DEF CommitCreate
    <2>3. NoReq \in ReqRecords /\ NoReq.pc = "idle"
      BY DEF NoReq, ReqRecords, JobTypes, SSHStatuses
    <2>4. PanelTypes'
      BY <1>0, <2>1, <2>2, <2>3 DEF PanelInv, TypeOK, PanelTypes
    <2>5. JobsHaveRows'
      <3>1. \A k \in Jobs \ {j} : jobStatus'[k] = jobStatus[k]
        BY <1>0, <1>2 DEF CommitCreate, SubmitJob, InsertJob
      <3>. QED
        BY <1>0, <2>1, <2>2, <2>3, <3>1 DEF PanelInv, JobsHaveRows, Born
    <2>6. ~HostTaken(req[r].host)
      BY <2>2 DEF PanelInv, LockGuards
    <2>7. HostnameUnique'
      BY <1>0, <2>1, <2>2, <2>6 DEF PanelInv, HostnameUnique, HostTaken, Live
    <2>8. LockGuards'
      BY <1>0, <2>2, <2>3 DEF PanelInv, LockGuards
    <2>. QED  BY <2>4, <2>5, <2>7, <2>8
  <1>. QED  BY <1>1, <1>2

LEMMA HandlerKeeps ==
    ASSUME PanelInv, Handler
    PROVE  PanelTypes' /\ JobsHaveRows' /\ LockGuards' /\ HostnameUnique'
  <1>0. /\ vms \in [VMs -> VMRows] /\ req \in [Requests -> ReqRecords]
        /\ jobVm \in [Jobs -> VMs \cup {NoVm}]
        /\ jobStatus \in [Jobs -> JobStatuses]
    BY DEF PanelInv, TypeOK, QueueTypeOK
  <1>1. ASSUME NEW r \in Requests, HandlerFails(r) \/ MarkPending(r)
        PROVE  PanelTypes' /\ JobsHaveRows' /\ LockGuards' /\ HostnameUnique'
    <2> USE <1>0, <1>1 DEF HandlerFails, MarkPending, HandlerOnly, rowVars, queueVars
    <2>0. UNCHANGED <<jobVm, jobTarget, guests, body>>
      OBVIOUS
    <2>1. PanelTypes'
      <3>1. req' \in [Requests -> ReqRecords]
        BY DEF ReqRecords, NoReq, JobTypes, SSHStatuses
      <3>2. vms' \in [VMs -> VMRows]
        BY DEF VMRows, SSHStatuses
      <3>. QED  BY <2>0, <3>1, <3>2 DEF PanelInv, TypeOK, PanelTypes
    <2>2. RowsKept
      BY DEF RowsKept, VMRows
    <2>3. \A s \in Requests : req'[s].pc = "locked" => req'[s] = req[s]
      BY DEF NoReq, ReqRecords
    <2>4. \A v \in VMs : Live(v)' => Live(v) /\ vms'[v].host = vms[v].host
      BY <2>2 DEF RowsKept, Live
    <2>5. LockGuards' /\ HostnameUnique'
      BY <2>3, <2>4 DEF PanelInv, LockGuards, HostnameUnique, HostTaken
    <2>6. JobsHaveRows'
      BY <2>2 DEF PanelInv, JobsHaveRows, Born, RowsKept, NoReq, ReqRecords
    <2>. QED  BY <2>1, <2>5, <2>6
  <1>2. ASSUME NEW r \in Requests, NEW j \in Jobs, CommitJob(r, j)
        PROVE  PanelTypes' /\ JobsHaveRows' /\ LockGuards' /\ HostnameUnique'
    <2>1. Born(req[r].vm)
      BY <1>2 DEF CommitJob, PanelInv, JobsHaveRows
    <2>2. /\ req' = [req EXCEPT ![r] = NoReq]
          /\ jobVm' = [jobVm EXCEPT ![j] = req[r].vm]
          /\ UNCHANGED <<vms, jobTarget, guests, body>>
          /\ \A k \in Jobs \ {j} : jobStatus'[k] = jobStatus[k]
      BY <1>0, <1>2 DEF CommitJob, SubmitJob, InsertJob
    <2>3. NoReq \in ReqRecords /\ NoReq.pc = "idle"
      BY DEF NoReq, ReqRecords, JobTypes, SSHStatuses
    <2>4. PanelTypes'
      BY <1>0, <2>1, <2>2, <2>3 DEF PanelInv, TypeOK, PanelTypes, Born
    <2>5. JobsHaveRows'
      BY <1>0, <2>1, <2>2, <2>3 DEF PanelInv, JobsHaveRows, Born
    <2>6. LockGuards' /\ HostnameUnique'
      BY <1>0, <2>2, <2>3
      DEF PanelInv, LockGuards, HostnameUnique, HostTaken, Live
    <2>. QED  BY <2>4, <2>5, <2>6
  <1>3. ASSUME NEW j \in Jobs, Enqueue(j) \/ Drop(j)
        PROVE  PanelTypes' /\ JobsHaveRows' /\ LockGuards' /\ HostnameUnique'
    <2>1. UNCHANGED <<vms, jobVm, jobTarget, guests, req, body, jobStatus>>
      BY <1>3 DEF Enqueue, EnqueueJob, Drop, DropJob, rowVars
    <2>2. PanelTypes' /\ RowsKept
      BY <2>1 DEF PanelInv, TypeOK, PanelTypes, RowsKept
    <2>. QED  BY <2>1, <2>2, KeptHosts, KeptJobs
  <1>. QED  BY <1>1, <1>2, <1>3, CreateKeeps DEF Handler, HandlerStep

LEMMA WorkerKeeps ==
    ASSUME PanelInv, Worker
    PROVE  PanelTypes' /\ JobsHaveRows' /\ LockGuards' /\ HostnameUnique'
  <1>0. /\ vms \in [VMs -> VMRows] /\ body \in Bodies
        /\ jobVm \in [Jobs -> VMs \cup {NoVm}]
        /\ jobStatus \in [Jobs -> JobStatuses]
        /\ jobType \in [Jobs -> JobTypes]
        /\ queue \in Seq(Jobs)
    BY DEF PanelInv, TypeOK, QueueTypeOK
  <1>1. NoBody \in Bodies
    BY DEF NoBody, Bodies, Steps, SSHStatuses
  <1>2. CASE TakeJob
    <2>1. current' \in Jobs /\ Born(jobVm[current'])
      <3>1. queue # <<>> /\ current' = Head(queue)
        BY <1>2 DEF TakeJob, WorkerGet
      <3>2. current' \in Jobs /\ InQueue(current')
        BY <1>0, <3>1, TailFacts DEF InQueue
      <3>. QED
        BY <3>2 DEF PanelInv, QueueInv, NoDoubleDelivery, JobsHaveRows
    <2>2. body' \in Bodies
      BY <1>0, <1>1, <1>2, <2>1 DEF TakeJob, Bodies, Born, VMRows
    <2>3. UNCHANGED <<vms, jobVm, jobTarget, guests, req, jobStatus>>
      BY <1>2 DEF TakeJob, WorkerGet, rowVars
    <2>4. PanelTypes' /\ RowsKept
      BY <2>2, <2>3 DEF PanelInv, TypeOK, PanelTypes, RowsKept
    <2>. QED  BY <2>3, <2>4, KeptHosts, KeptJobs
  <1>3. CASE \/ StartJob \/ JobSucceeds \/ EnqueueCheck
             \/ JobDropped \/ JobAbandoned
    <2>1. pc # "idle"
      BY <1>3 DEF StartJob, JobSucceeds, EnqueueCheck, JobDropped, JobAbandoned,
                  WorkerStart, WorkerSucceed, WorkerEnqueueCheck, WorkerDrops,
                  WorkerAbandons
    <2>2. /\ UNCHANGED <<vms, jobVm, jobTarget, guests, req>>
          /\ \A j \in Jobs : jobStatus'[j] # "none" => jobStatus[j] # "none"
      BY <1>0, <1>3, <2>1, CurrentHasRow
      DEF StartJob, JobSucceeds, EnqueueCheck, JobDropped, JobAbandoned, WorkerStart,
          WorkerSucceed, WorkerEnqueueCheck, WorkerDrops, WorkerAbandons, rowVars, jobVars
    <2>3. body' \in Bodies
      <3>1. CASE StartJob
        <4>1. FirstStep(jobType[current]) \in Steps
          BY <1>0, <2>1, CurrentHasRow DEF FirstStep, JobTypes, PowerTypes, Steps
        <4>. QED  BY <1>0, <3>1, <4>1 DEF StartJob, Goto, Bodies
      <3>2. CASE JobSucceeds \/ EnqueueCheck \/ JobDropped \/ JobAbandoned
        BY <1>0, <1>1, <3>2 DEF JobSucceeds, EnqueueCheck, JobDropped, JobAbandoned
      <3>. QED  BY <1>3, <3>1, <3>2
    <2>4. PanelTypes' /\ RowsKept
      BY <2>2, <2>3 DEF PanelInv, TypeOK, PanelTypes, RowsKept
    <2>. QED  BY <2>2, <2>4, KeptHosts, KeptJobs
  <1>4. CASE BodyStep
    <2>1. BodyKept
      BY <1>4, BodyKeeps
    <2>2. PanelTypes' /\ RowsKept /\ UNCHANGED <<req, jobVm, jobStatus>>
      BY <2>1 DEF PanelInv, TypeOK, PanelTypes, BodyKept, queueVars
    <2>. QED  BY <2>2, KeptHosts, KeptJobs
  <1>5. CASE JobFails \/ CheckRetracted
    <2>1. pc # "idle"
      BY <1>5 DEF JobFails, WorkerFail, CheckRetracted, WorkerRetracts
    <2>2. /\ vms' = [vms EXCEPT ![me].status = "error"] /\ body' \in {NoBody, body}
          /\ UNCHANGED <<jobVm, jobTarget, guests, req>>
          /\ \A j \in Jobs : jobStatus'[j] # "none" => jobStatus[j] # "none"
      BY <1>0, <1>5, <2>1, CurrentHasRow
      DEF JobFails, WorkerFail, CheckRetracted, WorkerRetracts
    <2>3. vms' \in [VMs -> VMRows] /\ RowsKept
      BY <1>0, <2>1, <2>2, CurrentHasRow DEF VMRows, VMStatuses, RowsKept, Born
    <2>4. PanelTypes'
      BY <1>0, <1>1, <2>2, <2>3 DEF PanelInv, TypeOK, PanelTypes
    <2>. QED  BY <2>2, <2>3, <2>4, KeptHosts, KeptJobs
  <1>6. ASSUME NEW k \in Jobs, SubmitCheck(k)
        PROVE  PanelTypes' /\ JobsHaveRows' /\ LockGuards' /\ HostnameUnique'
    <2>1. Born(me)
      BY <1>6, CurrentHasRow DEF SubmitCheck, WorkerSubmitCheck
    <2>2. /\ jobVm' = [jobVm EXCEPT ![k] = me]
          /\ UNCHANGED <<vms, jobTarget, guests, req, body>>
          /\ \A j \in Jobs \ {k} : jobStatus'[j] = jobStatus[j]
      BY <1>0, <1>6 DEF SubmitCheck, WorkerSubmitCheck, InsertJob
    <2>3. PanelTypes' /\ RowsKept
      BY <1>0, <2>1, <2>2 DEF PanelInv, TypeOK, PanelTypes, RowsKept, Born
    <2>4. JobsHaveRows'
      BY <1>0, <2>1, <2>2 DEF PanelInv, JobsHaveRows, Born
    <2>. QED  BY <2>2, <2>3, <2>4, KeptHosts
  <1>. QED
    BY <1>2, <1>3, <1>4, <1>5, <1>6 DEF Worker

LEMMA RestartKeeps ==
    ASSUME PanelInv, Boot \/ ProcessDies
    PROVE  PanelTypes' /\ JobsHaveRows' /\ LockGuards' /\ HostnameUnique'
  <1>0. /\ vms \in [VMs -> VMRows]
        /\ jobVm \in [Jobs -> VMs \cup {NoVm}]
        /\ jobTarget \in [Jobs -> Vmids \cup {NoVmid}]
        /\ jobStatus \in [Jobs -> JobStatuses]
    BY DEF PanelInv, TypeOK, QueueTypeOK
  <1>1. CASE RecoverRows
    <2>1. PICK f \in [VMs -> Vmids \cup {NoVmid}] :
              vms' = [v \in VMs |-> Recovered(v, f[v])]
      BY <1>1 DEF RecoverRows
    <2>2. /\ UNCHANGED <<jobVm, jobTarget, guests, req, body>>
          /\ \A j \in Jobs : jobStatus'[j] # "none" => jobStatus[j] # "none"
      BY <1>1 DEF RecoverRows, Recover
    <2>3. \A v \in VMs : /\ vms'[v] \in VMRows
                         /\ vms'[v].host = vms[v].host
                         /\ vms'[v].status = "none" <=> vms[v].status = "none"
                         /\ vms'[v].deleted = vms[v].deleted
      <3>1. ASSUME NEW v \in VMs, NEW i \in Vmids \cup {NoVmid}
            PROVE  /\ Recovered(v, i) \in VMRows
                   /\ Recovered(v, i).host = vms[v].host
                   /\ Recovered(v, i).status = "none" <=> vms[v].status = "none"
                   /\ Recovered(v, i).deleted = vms[v].deleted
        BY <1>0 DEF Recovered, VMRows, VMStatuses, Transient
      <3>. HIDE DEF Recovered
      <3>2. \A v \in VMs : vms'[v] = Recovered(v, f[v]) /\ f[v] \in Vmids \cup {NoVmid}
        BY <2>1
      <3>. QED  BY <3>1, <3>2
    <2>4. PanelTypes' /\ RowsKept
      BY <2>1, <2>2, <2>3 DEF PanelInv, TypeOK, PanelTypes, RowsKept
    <2>. QED  BY <2>2, <2>4, KeptHosts, KeptJobs
  <1>2. CASE RequeueJobs
    <2>1. /\ UNCHANGED <<vms, jobVm, jobTarget, guests, req, body>>
          /\ \A j \in Jobs : jobStatus'[j] # "none" => jobStatus[j] # "none"
      BY <1>2 DEF RequeueJobs, Requeue, RequeueCommit, rowVars, jobVars
    <2>2. PanelTypes' /\ RowsKept
      BY <2>1 DEF PanelInv, TypeOK, PanelTypes, RowsKept
    <2>. QED  BY <2>1, <2>2, KeptHosts, KeptJobs
  <1>3. CASE ProcessDies
    <2>1. /\ UNCHANGED <<vms, jobVm, jobTarget, guests, jobStatus>>
          /\ body' = NoBody /\ req' = [r \in Requests |-> NoReq]
      BY <1>3 DEF ProcessDies, Crash, rowVars, jobVars
    <2>2. NoReq \in ReqRecords /\ NoReq.pc = "idle" /\ NoBody \in Bodies
      BY DEF NoReq, NoBody, ReqRecords, Bodies, Steps, JobTypes, SSHStatuses
    <2>3. PanelTypes'
      BY <2>1, <2>2 DEF PanelInv, TypeOK, PanelTypes
    <2>4. JobsHaveRows' /\ LockGuards' /\ HostnameUnique'
      BY <2>1, <2>2
      DEF PanelInv, JobsHaveRows, Born, LockGuards, HostnameUnique, Live
    <2>. QED  BY <2>3, <2>4
  <1>. QED  BY <1>1, <1>2, <1>3 DEF Boot

LEMMA PanelInvInductive ==
    ASSUME PanelInv, [Next]_vars
    PROVE  PanelInv'
  <1>1. QueueInv'
    BY StepRefines, QueueInvInductive DEF PanelInv
  <1>2. PanelTypes' /\ JobsHaveRows' /\ LockGuards' /\ HostnameUnique'
    <2>1. CASE UNCHANGED vars
      <3>1. UNCHANGED <<vms, jobVm, jobTarget, guests, req, body, jobStatus>>
        BY <2>1 DEF vars, rowVars, queueVars
      <3>2. PanelTypes' /\ RowsKept
        BY <3>1 DEF PanelInv, TypeOK, PanelTypes, RowsKept
      <3>. QED  BY <3>1, <3>2, KeptHosts, KeptJobs
    <2>. QED
      BY <2>1, ClientKeeps, HandlerKeeps, WorkerKeeps, RestartKeeps DEF Next
  <1>3. TypeOK'
    BY <1>1, <1>2 DEF QueueInv, TypeOK, PanelTypes
  <1>. QED  BY <1>1, <1>2, <1>3 DEF PanelInv

-----------------------------------------------------------------------------
\* PanelInv holds in every reachable state.
LEMMA PanelInvariant == Spec => []PanelInv
  BY PanelInit, PanelInvInductive, PTL DEF Spec

\* Every variable keeps its type, whatever the sizes of the constants.
THEOREM PanelTypeCorrect == Spec => []TypeOK
  <1>1. PanelInv => TypeOK
    BY DEF PanelInv
  <1>. QED  BY <1>1, PanelInvariant, PTL

\* The panel implements the queue: the handlers, the job bodies and the restart
\* of VMLifecycle use jobs, JOB_QUEUE and the worker only as JobQueue says.
THEOREM LifecycleImplementsQueue == Spec => QueueSpec
  <1>1. Init => QueueInit
    BY DEF Init
  <1>2. PanelInv /\ [Next]_vars => [QueueNext]_queueVars
    BY StepRefines
  <1>. QED
    BY <1>1, <1>2, PanelInvariant, PTL DEF Spec, QueueSpec

\* So in the panel, too, a job runs at most once: a deletion is never repeated
\* by a restart.
THEOREM PanelJobsRunAtMostOnce == Spec => RunAtMostOnce
  BY LifecycleImplementsQueue, JobsRunAtMostOnce, PTL

\* ... and a client of the panel is kept the promise JobPromise states: one job is
\* worked on at a time, and none fails unrun but in the start of a process.
THEOREM PanelKeepsJobPromise == Spec => KeepsJobPromise
  BY LifecycleImplementsQueue, QueueKeepsPromise, PTL

\* No two live rows ever share a hostname, for any number of concurrent
\* create requests, deletions and restarts (routes.create_vm).
THEOREM HostnamesAreUnique == Spec => []HostnameUnique
  <1>1. PanelInv => HostnameUnique
    BY DEF PanelInv
  <1>. QED  BY <1>1, PanelInvariant, PTL

-----------------------------------------------------------------------------
(* What a step of a body does, and what the worker knows at each.          *)

\* Which jobs get to which steps.
StepFits ==
    pc = "running" =>
        LET t == jobType[current]
            s == body.step
        IN  /\ s \in {"provision", "clone", "record", "waitclone", "configure",
                      "start", "waitstart", "waitip", "uniq", "waituniq"} =>
                   t \in {"create_vm", "reinstall_vm"}
            /\ s \in {"reinstall", "wiped"} => t = "reinstall_vm"
            /\ s \in {"delete", "deleted"} => t = "delete_vm"
            /\ s \in {"destroy", "erase", "waiterase"} =>
                   t \in {"reinstall_vm", "delete_vm"}
            /\ s \in {"power", "post", "waitpower"} => t \in PowerTypes
            /\ s = "powerip" => t \in {"start_vm", "reboot_vm"}
            /\ s = "check" => t = "ssh_readiness_check"
            /\ s = "done" /\ t = "ssh_readiness_check" => body.ssh # "pending"

\* An error kept dispatch from recording how one of v's jobs ended.
LeftRunning(v) == \E j \in struck : jobVm[j] = v /\ jobStatus[j] = "running"

\* What the status of the worker's row is at a step.
StatusFits ==
    /\ pc = "running" =>
          /\ body.step \in {"provision", "clone", "record", "waitclone", "configure",
                            "start", "waitstart", "destroy", "erase", "waiterase", "wiped",
                            "deleted", "post", "waitpower", "powerip"} =>
                vms[me].status \in Transient
          /\ body.step \in {"waitip", "uniq", "waituniq"} => vms[me].status = "running"
          /\ body.step \in {"check", "done"} /\ Live(me) =>
                vms[me].status \notin Transient \/ LeftRunning(me)
          /\ body.step \in {"check", "done"} => vms[me].status # "creating"
    /\ pc \in {"followup", "put"} => vms[me].status # "creating"

\* What a step knows of the guest.
GuestFits ==
    pc = "running" =>
        LET i == vms[me].vmid
        IN  /\ body.step \in {"record", "waitclone"} => body.newid \in Vmids
            /\ body.step \in {"configure", "start", "waitstart"} => i \in Vmids
            /\ body.step = "waitstart" /\ body.taskOk => guests[i].state = "running"
            /\ body.step \in {"waitip", "uniq"} =>
                   i \in Vmids /\ guests[i].state = "running"
            /\ body.step \in {"erase", "waitpower"} => i \in Vmids
            /\ body.step = "waitpower" /\ body.taskOk =>
                   guests[i].state = IF jobType[current] = "stop_vm" THEN "stopped"
                                     ELSE "running"
            /\ body.step = "powerip" => i \in Vmids /\ guests[i].state = "running"
            /\ body.step = "waiterase" /\ body.taskOk => ~HasGuest(me)
            /\ body.step \in {"deleted", "wiped"} => ~HasGuest(me) \/ body.missed

\* Only the job it was inserted with finds a row in status creating.
JobsFit ==
    /\ \A j \in Jobs : jobStatus[j] # "none" /\ jobType[j] # "create_vm" =>
                           vms[jobVm[j]].status # "creating"
    /\ \A r \in Requests : req[r].pc # "idle" /\ req[r].type # "create_vm" =>
                               vms[req[r].vm].status # "creating"
    /\ \A r \in Requests : req[r].pc = "marked" => req[r].type = "ssh_readiness_check"

\* A row gets its first job with its insertion, and until that is run it names no guest.
CreateFits ==
    /\ \A v \in VMs : vms[v].status \in {"none", "creating"} =>
                          vms[v].vmid = NoVmid /\ ~vms[v].deleted
    /\ \A j, k \in Jobs :
          jobStatus[j] # "none" /\ jobType[j] = "create_vm" /\ jobStatus[k] # "none"
             /\ jobType[k] = "create_vm" /\ jobVm[j] = jobVm[k] => j = k
    /\ mode = "up" => \A j \in Jobs : jobStatus[j] = "queued" /\ jobType[j] = "create_vm" =>
                                          vms[jobVm[j]].status = "creating"

\* Who may still take v out of a transient status: the worker, its create job, or, if an
\* error kept dispatch from ending one of its jobs, only the next start.
WorkedOn(v) == pc = "running" /\ me = v

CreateQueued(v) ==
    mode = "up" /\ vms[v].status = "creating" /\
        \E j \in Jobs : jobVm[j] = v /\ jobStatus[j] = "queued" /\ jobType[j] = "create_vm"

TransientCovered ==
    /\ mode = "recovered" => \A v \in VMs : Live(v) => vms[v].status \notin Transient
    /\ WorkerAlive => \A v \in VMs : Live(v) /\ vms[v].status \in Transient =>
                          WorkedOn(v) \/ CreateQueued(v) \/ LeftRunning(v)

BodyFits == StepFits /\ StatusFits /\ GuestFits

\* What a step of a body does to the rows, as far as the other tasks care: it leaves
\* other rows alone, makes none look new, and lets its own await a check only if it
\* did before or if its job ends with one; and when it has to write ssh_status
\* it does.
RowStep ==
    /\ \A v \in VMs \ {me} : vms'[v] = vms[v]
    /\ vms'[me].status = "creating" => vms[me].status = "creating"
    /\ vms'[me].status = "running" /\ vms'[me].ssh = "pending" =>
           \/ vms[me].status = "running" /\ vms[me].ssh = "pending"
           \/ HasFollowUp(jobType[current])
    /\ body'.ssh # "pending" /\ vms'[me].ssh = "pending" =>
           body.ssh # "pending" /\ vms[me].ssh = "pending"
    /\ vms'[me].deleted => vms[me].deleted \/ body.step = "deleted"

\* ... and what becomes of the guest, as far as the row names it: a row is called running
\* or stopped if it was, or if its guest is known to be so.
GuestStep ==
    /\ vms'[me].status \in {"running", "stopped"} =>
          /\ vms'[me].vmid = vms[me].vmid
          /\ \/ vms'[me].status = vms[me].status
             \/ vms[me].vmid \in Vmids /\ guests[vms[me].vmid].state = vms'[me].status
    /\ \/ vms'[me].vmid = vms[me].vmid
       \/ body.step = "wiped" /\ vms'[me].vmid = NoVmid
       \/ /\ body.step = "waitclone" /\ vms'[me].vmid = body.newid
          /\ vms'[me].status # "creating"
    /\ guests' = guests
         \/ body.step \in {"clone", "start", "uniq", "destroy", "erase", "post"}
    /\ jobTarget' = jobTarget \/ body.step = "record"
    /\ body'.step = "record" => body.step = "clone"
    /\ body'.step = "waitclone" => body.step = "record"

BodyPost == UNCHANGED <<queueVars, jobVm, req>> /\ RowStep /\ GuestStep /\ BodyFits'

\* What is known of the worker's row and variables in a body.
LEMMA InBodyTypes ==
    ASSUME PanelInv, pc = "running"
    PROVE  /\ vms \in [VMs -> VMRows] /\ body \in Bodies /\ guests \in [Vmids -> Guests]
           /\ me \in VMs /\ vms[me] \in VMRows /\ vms[me].status # "none"
           /\ vms[me].vmid \in Vmids \cup {NoVmid}
           /\ vms[me].ssh \in SSHStatuses /\ body.ssh \in SSHStatuses
           /\ current \in Jobs /\ jobType[current] \in JobTypes
  BY CurrentHasRow DEF PanelInv, TypeOK, QueueTypeOK, Born, Bodies, VMRows

LEMMA CommitFacts ==
    ASSUME PanelInv, pc = "running",
           NEW row \in VMRows, NEW s \in SSHStatuses, NEW step \in Steps,
           CommitRow(row, s, step)
    PROVE  /\ UNCHANGED <<queueVars, pc, current, jobType, jobVm, jobTarget, req, guests>> /\ me' = me
           /\ \A v \in VMs \ {me} : vms'[v] = vms[v]
           /\ vms'[me].status = row.status /\ vms'[me].vmid = row.vmid
           /\ vms'[me].deleted = row.deleted /\ vms'[me].ip = row.ip
           /\ vms'[me].ssh = IF body.ssh = s THEN vms[me].ssh ELSE s
           /\ body'.step = step /\ body'.ssh = s
           /\ body'.newid = body.newid /\ body'.taskOk = body.taskOk
           /\ body'.missed = body.missed
  <1>1. /\ vms \in [VMs -> VMRows] /\ body \in Bodies /\ me \in VMs
    BY InBodyTypes
  <1>2. UNCHANGED <<queueVars, pc, current, jobType, jobVm, jobTarget, req, guests>>
    BY DEF CommitRow, InBody, queueVars
  <1>3. me' = me
    BY <1>2 DEF me
  <1>4. vms'[me] = [row EXCEPT !.ssh = IF body.ssh = s THEN vms[me].ssh ELSE s]
        /\ \A v \in VMs \ {me} : vms'[v] = vms[v]
    BY <1>1 DEF CommitRow
  <1>5. /\ body'.step = step /\ body'.ssh = s
        /\ body'.newid = body.newid /\ body'.taskOk = body.taskOk
        /\ body'.missed = body.missed
    BY <1>1 DEF CommitRow, Bodies
  <1>. QED  BY <1>2, <1>3, <1>4, <1>5 DEF VMRows

LEMMA TaskFacts ==
    ASSUME PanelInv, pc = "running", NEW possible, NEW i, NEW after, NEW failed,
           NEW step \in Steps \ {"lost"}, Task(possible, i, after, failed, step)
    PROVE  /\ UNCHANGED <<queueVars, pc, current, jobType, jobVm, jobTarget, req, vms>> /\ me' = me
           /\ body'.step \in {step, "lost"} /\ body'.newid = i /\ body'.ssh = body.ssh
           /\ body'.step = step /\ body'.taskOk =>
                 possible /\ guests' = [guests EXCEPT ![i] = after]
           /\ \/ possible /\ guests' = [guests EXCEPT ![i] = after]
              \/ \E g \in failed : guests' = [guests EXCEPT ![i] = g]
  <1>1. body \in Bodies
    BY InBodyTypes
  <1>2. UNCHANGED <<queueVars, pc, current, jobType, jobVm, jobTarget, req, vms>>
    BY DEF Task, InBody, queueVars, rowVars
  <1>3. me' = me
    BY <1>2 DEF me
  <1>4. /\ body'.step \in {step, "lost"} /\ body'.newid = i /\ body'.ssh = body.ssh
        /\ body'.step = step /\ body'.taskOk =>
              possible /\ guests' = [guests EXCEPT ![i] = after]
        /\ \/ possible /\ guests' = [guests EXCEPT ![i] = after]
           \/ \E g \in failed : guests' = [guests EXCEPT ![i] = g]
    <2>1. CASE /\ possible
               /\ guests' = [guests EXCEPT ![i] = after]
               /\ \E s \in {step, "lost"} :
                     body' = [body EXCEPT !.step = s, !.taskOk = TRUE, !.newid = i]
      BY <1>1, <2>1 DEF Bodies
    <2>2. CASE /\ \E g \in failed : guests' = [guests EXCEPT ![i] = g]
               /\ body' = [body EXCEPT !.step = step, !.taskOk = FALSE, !.newid = i]
      BY <1>1, <2>2 DEF Bodies
    <2>. QED  BY <2>1, <2>2 DEF Task
  <1>. QED  BY <1>2, <1>3, <1>4

LEMMA ProvisionFits ==
    ASSUME PanelInv, BodyFits, ProvisionStep
    PROVE  BodyPost
  <1> USE DEF At
  <1>0. pc = "running"
    BY DEF ProvisionStep, Provision, Clone, RecordTarget, CloneDone, Configure,
           StartGuest, GuestStarted, GotIp, NoIp, MakeUnique, MadeUnique
  <1>. DEFINE Type == /\ vms \in [VMs -> VMRows] /\ body \in Bodies
                      /\ guests \in [Vmids -> Guests]
                      /\ me \in VMs /\ vms[me] \in VMRows
                      /\ vms[me].vmid \in Vmids \cup {NoVmid}
                      /\ body.ssh \in SSHStatuses
  <1>1. Type
    BY <1>0, InBodyTypes
  <1>. HIDE DEF Type
  <1>2. jobType[current] \in {"create_vm", "reinstall_vm"}
    BY <1>0 DEF BodyFits, StepFits, ProvisionStep, Provision, Clone, RecordTarget,
                CloneDone, Configure, StartGuest, GuestStarted, GotIp, NoIp, MakeUnique,
                MadeUnique
  <1>. USE DEF BodyFits, StepFits, StatusFits, GuestFits
  <1>3. CASE Provision
    <2>1. CommitRow(vms[me], "pending", "clone") /\ "clone" \in Steps
          /\ "pending" \in SSHStatuses /\ vms[me].status \in Transient
      BY <1>0, <1>3 DEF Provision, Steps, SSHStatuses
    <2>. QED
      BY <1>0, <1>1, <1>2, <2>1, CommitFacts
      DEF Type, BodyPost, RowStep, GuestStep, HasFollowUp
  <1>4. CASE Clone
    <2>0. PICK i \in NextIds : \E possible, new, failed :
                                    Task(possible, i, new, failed, "record")
      BY <1>4, Zenon DEF Clone
    <2>1. PICK possible, new, failed : Task(possible, i, new, failed, "record")
      BY <2>0
    <2>2. i \in Vmids /\ "record" \in Steps \ {"lost"} /\ body.step = "clone"
          /\ vms[me].status \in Transient
      BY <1>0, <1>4 DEF Clone, NextIds, Steps
    <2>3. /\ UNCHANGED <<queueVars, pc, current, jobType, jobVm, jobTarget, req, vms>> /\ me' = me
          /\ body'.step \in {"record", "lost"} /\ body'.newid = i /\ body'.ssh = body.ssh
      BY <1>0, <2>1, <2>2, TaskFacts
    <2>. QED
      BY <1>0, <1>1, <1>2, <2>2, <2>3 DEF Type, BodyPost, RowStep, GuestStep
  <1>5. CASE RecordTarget
    <2>1. /\ UNCHANGED <<queueVars, jobVm, req, vms, guests>>
          /\ body' = [body EXCEPT !.step = "waitclone"] /\ body.step = "record"
          /\ vms[me].status \in Transient
      BY <1>0, <1>5 DEF RecordTarget, Goto, InBody
    <2>2. /\ UNCHANGED <<pc, current, jobType>> /\ me' = me
          /\ body'.step = "waitclone" /\ body'.newid = body.newid /\ body'.ssh = body.ssh
      BY <1>1, <2>1 DEF Type, Bodies, queueVars, me
    <2>. QED
      BY <1>0, <1>1, <1>2, <2>1, <2>2 DEF Type, BodyPost, RowStep, GuestStep
  <1>6. CASE CloneDone
    <2>. DEFINE row == [vms[me] EXCEPT !.vmid = body.newid, !.status = "provisioning"]
    <2>1. row \in VMRows /\ row.status = "provisioning" /\ row.vmid = body.newid
          /\ body.newid \in Vmids /\ row.deleted = vms[me].deleted
          /\ body.step = "waitclone"
      BY <1>0, <1>1, <1>6 DEF Type, CloneDone, VMRows, VMStatuses
    <2>2. CommitRow(row, body.ssh, "configure") /\ "configure" \in Steps
      BY <1>6 DEF CloneDone, Commit, Steps
    <2>. HIDE DEF row
    <2>. QED
      BY <1>0, <1>1, <1>2, <2>1, <2>2, CommitFacts
      DEF Type, BodyPost, RowStep, GuestStep, HasFollowUp, Transient
  <1>7. CASE Configure
    <2>1. CommitRow(vms[me], body.ssh, "start") /\ "start" \in Steps
      BY <1>7 DEF Configure, Commit, Steps
    <2>. QED
      BY <1>0, <1>1, <1>2, <1>7, <2>1, CommitFacts
      DEF Type, BodyPost, RowStep, GuestStep, Configure
  <1>8. CASE StartGuest
    <2>. DEFINE i == vms[me].vmid
    <2>1. Task(Off(i), i, [guests[i] EXCEPT !.state = "running"], {guests[i]}, "waitstart")
          /\ "waitstart" \in Steps \ {"lost"} /\ i \in Vmids
          /\ vms[me].status \in Transient /\ body.step = "start"
      BY <1>0, <1>8 DEF StartGuest, Steps
    <2>2. guests[i] \in Guests
      BY <1>1, <2>1 DEF Type
    <2>. QED
      BY <1>0, <1>1, <1>2, <2>1, <2>2, TaskFacts DEF Type, BodyPost, RowStep, GuestStep, Guests
  <1>9. CASE GuestStarted
    <2>. DEFINE row == [vms[me] EXCEPT !.status = "running"]
    <2>1. row \in VMRows /\ row.status = "running"
          /\ row.vmid = vms[me].vmid /\ row.deleted = vms[me].deleted
          /\ row.vmid \in Vmids /\ guests[row.vmid].state = "running"
      BY <1>0, <1>1, <1>9 DEF Type, GuestStarted, VMRows, VMStatuses
    <2>2. CommitRow(row, body.ssh, "waitip") /\ "waitip" \in Steps
      BY <1>9 DEF GuestStarted, Commit, Steps
    <2>. HIDE DEF row
    <2>. QED
      BY <1>0, <1>1, <1>2, <2>1, <2>2, CommitFacts
      DEF Type, BodyPost, RowStep, GuestStep, HasFollowUp
  <1>10. CASE GotIp
    <2>. DEFINE row == [vms[me] EXCEPT !.ip = TRUE]
    <2>1. row \in VMRows /\ row.status = vms[me].status /\ row.status = "running"
          /\ row.vmid = vms[me].vmid /\ row.deleted = vms[me].deleted
          /\ row.vmid \in Vmids /\ guests[row.vmid].state = "running"
      BY <1>0, <1>1, <1>10 DEF Type, VMRows, GotIp
    <2>2. CommitRow(row, body.ssh, "uniq") /\ "uniq" \in Steps
      BY <1>10 DEF GotIp, Commit, Steps
    <2>. HIDE DEF row
    <2>. QED
      BY <1>0, <1>1, <1>2, <2>1, <2>2, CommitFacts
      DEF Type, BodyPost, RowStep, GuestStep, HasFollowUp
  <1>11. CASE NoIp
    <2>1. CommitRow(vms[me], "failed", "done") /\ "done" \in Steps
          /\ "failed" \in SSHStatuses /\ vms[me].status = "running"
      BY <1>0, <1>11 DEF NoIp, Steps, SSHStatuses
    <2>. QED
      BY <1>0, <1>1, <1>2, <2>1, CommitFacts
      DEF Type, BodyPost, RowStep, GuestStep, HasFollowUp, Transient
  <1>12. CASE MakeUnique
    <2>1. /\ UNCHANGED <<queueVars, jobVm, jobTarget, req, vms>>
          /\ body' = [body EXCEPT !.step = "waituniq"] /\ body.step = "uniq"
          /\ vms[me].status = "running"
      BY <1>0, <1>12 DEF MakeUnique, Goto, InBody, rowVars
    <2>2. /\ UNCHANGED <<pc, current, jobType>> /\ me' = me
          /\ body'.step = "waituniq" /\ body'.ssh = body.ssh
      BY <1>1, <2>1 DEF Type, Bodies, queueVars, me
    <2>. QED
      BY <1>0, <1>1, <1>2, <2>1, <2>2 DEF Type, BodyPost, RowStep, GuestStep
  <1>13. CASE MadeUnique
    <2>1. CommitRow(vms[me], body.ssh, "done") /\ "done" \in Steps
          /\ vms[me].status = "running"
      BY <1>0, <1>13 DEF MadeUnique, Commit, Steps
    <2>. QED
      BY <1>0, <1>1, <1>2, <2>1, CommitFacts
      DEF Type, BodyPost, RowStep, GuestStep, HasFollowUp, Transient
  <1>. QED
    BY <1>3, <1>4, <1>5, <1>6, <1>7, <1>8, <1>9, <1>10, <1>11, <1>12, <1>13
    DEF ProvisionStep

LEMMA DestroyFits ==
    ASSUME PanelInv, BodyFits, DestroyStep
    PROVE  BodyPost
  <1> USE DEF At
  <1>0. pc = "running"
    BY DEF DestroyStep, BeginReinstall, BeginDelete, NothingToDestroy, StopBeforeErase,
           Erase, Erased, FinishDelete, WipeRow
  <1>. DEFINE Type == /\ vms \in [VMs -> VMRows] /\ body \in Bodies
                      /\ guests \in [Vmids -> Guests]
                      /\ me \in VMs /\ vms[me] \in VMRows
                      /\ vms[me].vmid \in Vmids \cup {NoVmid}
                      /\ body.ssh \in SSHStatuses
  <1>1. Type
    BY <1>0, InBodyTypes
  <1>. HIDE DEF Type
  <1>2. jobType[current] \in {"reinstall_vm", "delete_vm"}
    BY <1>0 DEF BodyFits, StepFits, DestroyStep, BeginReinstall, BeginDelete,
                NothingToDestroy, StopBeforeErase, Erase, Erased, FinishDelete, WipeRow
  <1>. USE DEF BodyFits, StepFits, StatusFits, GuestFits
  <1>3. CASE BeginReinstall
    <2>. DEFINE row == [vms[me] EXCEPT !.status = "deleting"]
    <2>1. row \in VMRows /\ row.status = "deleting"
          /\ row.vmid = vms[me].vmid /\ row.deleted = vms[me].deleted
      BY <1>1 DEF Type, VMRows, VMStatuses
    <2>2. CommitRow(row, "pending", "destroy") /\ "destroy" \in Steps
          /\ "pending" \in SSHStatuses /\ jobType[current] = "reinstall_vm"
      BY <1>0, <1>3 DEF BeginReinstall, Steps, SSHStatuses
    <2>. HIDE DEF row
    <2>. QED
      BY <1>0, <1>1, <2>1, <2>2, CommitFacts
      DEF Type, BodyPost, RowStep, GuestStep, HasFollowUp, Transient
  <1>4. CASE BeginDelete
    <2>. DEFINE row == [vms[me] EXCEPT !.status = "deleting"]
    <2>1. row \in VMRows /\ row.status = "deleting"
          /\ row.vmid = vms[me].vmid /\ row.deleted = vms[me].deleted
      BY <1>1 DEF Type, VMRows, VMStatuses
    <2>2. CommitRow(row, body.ssh, "destroy") /\ "destroy" \in Steps
      BY <1>4 DEF BeginDelete, Commit, Steps
    <2>. HIDE DEF row
    <2>. QED
      BY <1>0, <1>1, <1>2, <2>1, <2>2, CommitFacts DEF Type, BodyPost, RowStep, GuestStep, Transient
  <1>5. CASE Erased
    <2>1. /\ CommitRow(vms[me], body.ssh, AfterDestroy) /\ AfterDestroy \in Steps
          /\ vms[me].status \in Transient /\ ~HasGuest(me)
          /\ AfterDestroy = IF jobType[current] = "delete_vm" THEN "deleted" ELSE "wiped"
      BY <1>0, <1>5 DEF Erased, Commit, AfterDestroy, Steps
    <2>2. HasGuest(me)' => HasGuest(me)
      BY <1>0, <1>1, <2>1, CommitFacts DEF Type, HasGuest, Exists, Off
    <2>. QED
      BY <1>0, <1>1, <1>2, <2>1, <2>2, CommitFacts DEF Type, BodyPost, RowStep, GuestStep
  <1>10. CASE NothingToDestroy
    <2>1. /\ UNCHANGED <<queueVars, jobVm, jobTarget, req, vms, guests>>
          /\ body' = [body EXCEPT !.step = AfterDestroy, !.missed = HasGuest(me)]
          /\ body.step = "destroy" /\ vms[me].status \in Transient
      BY <1>0, <1>10 DEF NothingToDestroy, InBody
    <2>2. /\ UNCHANGED <<pc, current, jobType>> /\ me' = me
          /\ body'.step = AfterDestroy /\ body'.ssh = body.ssh
          /\ body'.missed = HasGuest(me) /\ HasGuest(me)' = HasGuest(me)
      BY <1>1, <2>1 DEF Type, Bodies, queueVars, me, HasGuest, Exists, Off
    <2>3. AfterDestroy = IF jobType[current] = "delete_vm" THEN "deleted" ELSE "wiped"
      BY DEF AfterDestroy
    <2>. QED
      BY <1>0, <1>1, <1>2, <2>1, <2>2, <2>3 DEF Type, BodyPost, RowStep, GuestStep
  <1>6. CASE StopBeforeErase
    <2>1. /\ UNCHANGED <<queueVars, jobVm, jobTarget, req, vms>>
          /\ body' = [body EXCEPT !.step = "erase"] /\ body.step = "destroy"
          /\ vms[me].vmid \in Vmids
      BY <1>6 DEF StopBeforeErase, Goto, InBody, rowVars, HasGuest
    <2>2. /\ UNCHANGED <<pc, current, jobType, jobTarget>> /\ me' = me
          /\ body'.step = "erase" /\ body'.ssh = body.ssh
      BY <1>1, <2>1 DEF Type, Bodies, queueVars, me
    <2>. QED
      BY <1>0, <1>1, <1>2, <2>1, <2>2 DEF Type, BodyPost, RowStep, GuestStep
  <1>7. CASE Erase
    <2>. DEFINE i == vms[me].vmid
                gone == Erasure(i)
    <2>1. Task(Off(i), i, gone, {guests[i]}, "waiterase")
          /\ "waiterase" \in Steps \ {"lost"} /\ vms[me].status \in Transient
          /\ body.step = "erase" /\ i \in Vmids
      BY <1>0, <1>7 DEF Erase, Steps
    <2>2. gone.state = "none"
      BY <1>1, <2>1 DEF Type, Erasure, Guests
    <2>. HIDE DEF gone
    <2>3. /\ UNCHANGED <<queueVars, pc, current, jobType, jobVm, jobTarget, req, vms>> /\ me' = me
          /\ body'.step \in {"waiterase", "lost"} /\ body'.ssh = body.ssh
          /\ body'.step = "waiterase" /\ body'.taskOk =>
                guests' = [guests EXCEPT ![i] = gone]
      BY <1>0, <2>1, TaskFacts
    <2>4. guests' = [guests EXCEPT ![i] = gone] => ~HasGuest(me)'
      BY <1>1, <2>1, <2>2, <2>3 DEF Type, HasGuest, Exists, Off
    <2>. QED
      BY <1>0, <1>1, <1>2, <2>1, <2>3, <2>4 DEF Type, BodyPost, RowStep, GuestStep
  <1>8. CASE FinishDelete
    <2>. DEFINE row == [vms[me] EXCEPT !.status = "deleted", !.deleted = TRUE]
    <2>1. row \in VMRows /\ row.status = "deleted" /\ row.deleted
          /\ row.vmid = vms[me].vmid /\ body.step = "deleted"
      BY <1>1, <1>8 DEF Type, FinishDelete, VMRows, VMStatuses
    <2>2. CommitRow(row, body.ssh, "done") /\ "done" \in Steps
          /\ jobType[current] = "delete_vm"
      BY <1>0, <1>8 DEF FinishDelete, Commit, Steps
    <2>. HIDE DEF row
    <2>. QED
      BY <1>0, <1>1, <2>1, <2>2, CommitFacts DEF Type, BodyPost, RowStep, GuestStep, Live
  <1>9. CASE WipeRow
    <2>. DEFINE row == [vms[me] EXCEPT !.vmid = NoVmid, !.ip = FALSE,
                                       !.status = "provisioning"]
    <2>1. row \in VMRows /\ row.status = "provisioning"
          /\ row.vmid = NoVmid /\ row.deleted = vms[me].deleted
      BY <1>1 DEF Type, VMRows, VMStatuses
    <2>2. CommitRow(row, body.ssh, "provision") /\ "provision" \in Steps
          /\ jobType[current] = "reinstall_vm" /\ body.step = "wiped"
      BY <1>0, <1>9 DEF WipeRow, Commit, Steps
    <2>. HIDE DEF row
    <2>. QED
      BY <1>0, <1>1, <2>1, <2>2, CommitFacts DEF Type, BodyPost, RowStep, GuestStep, Transient
  <1>. QED
    BY <1>3, <1>4, <1>5, <1>6, <1>7, <1>8, <1>9, <1>10 DEF DestroyStep

LEMMA PowerFits ==
    ASSUME PanelInv, BodyFits, PowerStep \/ CheckSsh
    PROVE  BodyPost
  <1> USE DEF At
  <1>0. pc = "running"
    BY DEF PowerStep, BeginPower, PostPower, Stopped, PoweredOn, PowerIp, CheckSsh
  <1>. DEFINE Type == /\ vms \in [VMs -> VMRows] /\ body \in Bodies
                      /\ guests \in [Vmids -> Guests]
                      /\ me \in VMs /\ vms[me] \in VMRows
                      /\ vms[me].vmid \in Vmids \cup {NoVmid}
                      /\ body.ssh \in SSHStatuses
  <1>1. Type
    BY <1>0, InBodyTypes
  <1>. HIDE DEF Type
  <1>2. PowerStep => jobType[current] \in PowerTypes
    BY <1>0 DEF BodyFits, StepFits, PowerStep, BeginPower, PostPower, Stopped, PoweredOn,
                PowerIp, PowerTypes
  <1>. USE DEF BodyFits, StepFits, StatusFits, GuestFits
  <1>3. CASE BeginPower
    <2>. DEFINE t == PowerTransient(jobType[current])
                s == IF jobType[current] = "start_vm" THEN "pending" ELSE body.ssh
                row == [vms[me] EXCEPT !.status = t]
    <2>1. t \in VMStatuses /\ t \in Transient /\ t # "creating"
      BY DEF PowerTransient, VMStatuses, Transient
    <2>. HIDE DEF t
    <2>2. row \in VMRows /\ row.status = t
          /\ row.vmid = vms[me].vmid /\ row.deleted = vms[me].deleted
      BY <1>1, <2>1 DEF Type, VMRows
    <2>3. CommitRow(row, s, "post") /\ "post" \in Steps /\ s \in SSHStatuses
      BY <1>1, <1>3 DEF BeginPower, Type, Steps, SSHStatuses, t
    <2>. HIDE DEF row
    <2>. QED
      BY <1>0, <1>1, <1>2, <1>3, <2>1, <2>2, <2>3, CommitFacts
      DEF Type, BodyPost, RowStep, GuestStep, HasFollowUp, PowerStep, PowerTypes, Transient
  <1>4. CASE PostPower
    <2>. DEFINE i == vms[me].vmid
                t == jobType[current]
                after == [guests[i] EXCEPT !.state =
                             IF t = "stop_vm" THEN "stopped" ELSE "running"]
                failed == {guests[i]}
                   \cup (IF t = "reboot_vm" THEN {[guests[i] EXCEPT !.state = "stopped"]}
                         ELSE {})
                ok == IF t = "start_vm" THEN Off(i) ELSE guests[i].state = "running"
    <2>1. Task(ok, i, after, failed, "waitpower")
          /\ "waitpower" \in Steps \ {"lost"} /\ i \in Vmids
          /\ vms[me].status \in Transient /\ body.step = "post"
      BY <1>0, <1>4 DEF PostPower, Steps, HasGuest
    <2>2. guests[i] \in Guests
      BY <1>1, <2>1 DEF Type
    <2>3. after.state = IF t = "stop_vm" THEN "stopped" ELSE "running"
      BY <2>2 DEF Guests
    <2>. HIDE DEF after, ok, failed
    <2>. QED
      BY <1>0, <1>1, <1>2, <1>4, <2>1, <2>3, TaskFacts
      DEF Type, BodyPost, RowStep, GuestStep, PowerStep
  <1>5. CASE Stopped
    <2>. DEFINE row == [vms[me] EXCEPT !.status = "stopped"]
    <2>1. row \in VMRows /\ row.status = "stopped"
          /\ row.vmid = vms[me].vmid /\ row.deleted = vms[me].deleted
          /\ row.vmid \in Vmids /\ guests[row.vmid].state = "stopped"
      BY <1>0, <1>1, <1>5 DEF Type, Stopped, VMRows, VMStatuses
    <2>2. CommitRow(row, body.ssh, "done") /\ "done" \in Steps
          /\ jobType[current] = "stop_vm"
      BY <1>5 DEF Stopped, Commit, Steps
    <2>. HIDE DEF row
    <2>. QED
      BY <1>0, <1>1, <2>1, <2>2, CommitFacts DEF Type, BodyPost, RowStep, GuestStep, Transient
  <1>6. CASE PoweredOn
    <2>1. CommitRow(vms[me], body.ssh, "powerip") /\ "powerip" \in Steps
          /\ jobType[current] \in {"start_vm", "reboot_vm"}
      BY <1>2, <1>6 DEF PoweredOn, Commit, Steps, PowerStep, PowerTypes
    <2>2. vms[me].status \in Transient /\ vms[me].vmid \in Vmids
          /\ guests[vms[me].vmid].state = "running"
      BY <1>0, <1>6 DEF PoweredOn
    <2>. QED
      BY <1>0, <1>1, <2>1, <2>2, CommitFacts DEF Type, BodyPost, RowStep, GuestStep, HasFollowUp
  <1>7. CASE PowerIp
    <2>1. PICK row \in VMRows, s \in SSHStatuses :
             CommitRow(row, s, "done") /\ row.status = "running"
             /\ row.vmid = vms[me].vmid /\ row.deleted = vms[me].deleted
      <3>1. CASE Commit([vms[me] EXCEPT !.status = "running", !.ip = TRUE], "done")
        <4>. DEFINE row == [vms[me] EXCEPT !.status = "running", !.ip = TRUE]
        <4>1. row \in VMRows /\ row.status = "running"
              /\ row.vmid = vms[me].vmid /\ row.deleted = vms[me].deleted
          BY <1>1 DEF Type, VMRows, VMStatuses
        <4>2. CommitRow(row, body.ssh, "done")
          BY <3>1 DEF Commit
        <4>. QED  BY <1>1, <4>1, <4>2 DEF Type
      <3>2. CASE CommitRow([vms[me] EXCEPT !.status = "running"], "failed", "done")
        <4>. DEFINE row == [vms[me] EXCEPT !.status = "running"]
        <4>1. row \in VMRows /\ row.status = "running" /\ "failed" \in SSHStatuses
              /\ row.vmid = vms[me].vmid /\ row.deleted = vms[me].deleted
          BY <1>1 DEF Type, VMRows, VMStatuses, SSHStatuses
        <4>. QED  BY <3>2, <4>1
      <3>. QED  BY <1>7, <3>1, <3>2 DEF PowerIp
    <2>2. /\ "done" \in Steps /\ jobType[current] \in {"start_vm", "reboot_vm"}
          /\ vms[me].vmid \in Vmids /\ guests[vms[me].vmid].state = "running"
      BY <1>0, <1>7 DEF PowerIp, Steps
    <2>. QED
      BY <1>0, <1>1, <2>1, <2>2, CommitFacts
      DEF Type, BodyPost, RowStep, GuestStep, HasFollowUp, Transient
  <1>8. CASE CheckSsh
    <2>1. PICK s \in {"ready", "failed"} : CommitRow(vms[me], s, "done")
      BY <1>8 DEF CheckSsh
    <2>2. "done" \in Steps /\ s \in SSHStatuses /\ jobType[current] = "ssh_readiness_check"
          /\ (Live(me) => vms[me].status \notin Transient \/ LeftRunning(me))
          /\ vms[me].status # "creating"
      BY <1>0, <1>8 DEF CheckSsh, Steps, SSHStatuses
    <2>3. LeftRunning(me)' = LeftRunning(me)
      BY <1>0, <1>1, <2>1, <2>2, CommitFacts DEF Type, LeftRunning, queueVars
    <2>. QED
      BY <1>0, <1>1, <2>1, <2>2, <2>3, CommitFacts DEF Type, BodyPost, RowStep, GuestStep, Live, Transient
  <1>. QED
    BY <1>3, <1>4, <1>5, <1>6, <1>7, <1>8 DEF PowerStep

LEMMA StepFitsBody ==
    ASSUME PanelInv, BodyFits, BodyStep
    PROVE  BodyPost
  BY ProvisionFits, DestroyFits, PowerFits DEF BodyStep

-----------------------------------------------------------------------------
(* No row is left waiting: the invariant.                                  *)

LifeInv == BodyFits /\ JobsFit /\ CreateFits /\ TransientCovered

LEMMA LifeInit == Init => LifeInv
  <1>. SUFFICES ASSUME Init PROVE LifeInv
    OBVIOUS
  <1>1. BodyFits /\ JobsFit /\ TransientCovered
    BY DEF Init, QueueInit, BodyFits, StepFits, StatusFits, GuestFits, JobsFit,
           TransientCovered, WorkerAlive, NoReq
  <1>2. CreateFits
    BY DEF Init, QueueInit, CreateFits, NoRow
  <1>. QED  BY <1>1, <1>2 DEF LifeInv

\* A step of another task does not change what the body knows.
LEMMA SameBody ==
    ASSUME BodyFits, UNCHANGED <<pc, current, body, guests>>,
           pc \in {"running", "followup", "put"} =>
              /\ me' = me /\ jobType'[current] = jobType[current]
              /\ vms'[me].status = vms[me].status /\ vms'[me].vmid = vms[me].vmid
              /\ vms'[me].deleted = vms[me].deleted
              /\ LeftRunning(me) => LeftRunning(me)'
    PROVE  BodyFits'
  <1>1. StepFits'
    BY DEF BodyFits, StepFits
  <1>2. StatusFits'
    BY DEF BodyFits, StatusFits, Live
  <1>3. GuestFits'
    BY DEF BodyFits, GuestFits, HasGuest, Exists, Off
  <1>. QED  BY <1>1, <1>2, <1>3 DEF BodyFits

\* Handlers that neither insert a row nor a job.
LEMMA RequestsLive ==
    ASSUME PanelInv, LifeInv,
           \/ Client
           \/ \E r \in Requests : LockCreate(r) \/ HandlerFails(r) \/ MarkPending(r)
    PROVE  LifeInv'
  <1>0. vms \in [VMs -> VMRows] /\ req \in [Requests -> ReqRecords]
    BY DEF PanelInv, TypeOK
  <1>1. /\ UNCHANGED <<queueVars, jobVm, guests, body>>
        /\ \A v \in VMs : /\ vms'[v].status = vms[v].status
                          /\ vms'[v].vmid = vms[v].vmid
                          /\ vms'[v].deleted = vms[v].deleted
    <2>1. CASE UNCHANGED vms
      BY <2>1 DEF Client, CheckCreate, CheckRow, LockCreate, HandlerFails, MarkPending,
                  HandlerOnly, rowVars
    <2>2. CASE \E r \in Requests : MarkPending(r)
      BY <1>0, <2>2 DEF MarkPending, VMRows
    <2>3. (\E r \in Requests : MarkPending(r)) \/ UNCHANGED vms
      BY DEF Client, CheckCreate, CheckRow, LockCreate, HandlerFails, HandlerOnly, rowVars
    <2>. QED  BY <2>1, <2>2, <2>3
  <1>2. /\ UNCHANGED <<jobStatus, jobType, pc, current, mode, struck>> /\ me' = me
    BY <1>1 DEF queueVars, me
  <1>. DEFINE Fit(s) ==
         /\ req'[s].pc = "marked" => req'[s].type = "ssh_readiness_check"
         /\ req'[s].pc # "idle" /\ req'[s].type # "create_vm" =>
               vms[req'[s].vm].status # "creating"
  <1>3. ASSUME NEW s \in Requests PROVE Fit(s)
    <2>. USE <1>0 DEF LifeInv, JobsFit, NoReq, ReqRecords
    <2>1. CASE Client
      <3>1. ASSUME NEW r \in Requests, NEW h \in Hosts, CheckCreate(r, h)
            PROVE  Fit(s)
        BY <3>1 DEF CheckCreate
      <3>2. ASSUME NEW r \in Requests, NEW t \in Wanted, NEW v \in VMs, CheckRow(r, t, v)
            PROVE  Fit(s)
        BY <3>2 DEF CheckRow, Allowed
      <3>. QED  BY <2>1, <3>1, <3>2 DEF Client
    <2>2. ASSUME NEW r \in Requests, LockCreate(r) \/ HandlerFails(r) \/ MarkPending(r)
          PROVE  Fit(s)
      BY <2>2 DEF LockCreate, HandlerFails, MarkPending
    <2>. QED  BY <2>1, <2>2
  <1>4. PanelInv'
    BY PanelInvInductive DEF Next, Handler, HandlerStep
  <1>5. BodyFits'
    <2>1. pc \in {"running", "followup", "put"} => me \in VMs
      BY CurrentHasRow DEF Born
    <2>. QED  BY <1>1, <1>2, <2>1, SameBody DEF LifeInv, LeftRunning
  <1>6. \A j \in Jobs : jobStatus[j] # "none" => jobVm[j] \in VMs
    BY DEF PanelInv, JobsHaveRows, Born
  <1>7. JobsFit'
    <2>1. \A r \in Requests : req'[r].pc # "idle" /\ req'[r].type # "create_vm" =>
                                  vms'[req'[r].vm].status # "creating"
      <3>. SUFFICES ASSUME NEW r \in Requests, req'[r].pc # "idle",
                           req'[r].type # "create_vm"
                    PROVE  vms'[req'[r].vm].status # "creating"
        OBVIOUS
      <3>1. req'[r].vm \in VMs
        BY <1>4 DEF PanelInv, JobsHaveRows, Born
      <3>. QED  BY <1>1, <1>3, <3>1
    <2>. QED  BY <1>1, <1>2, <1>3, <1>6, <2>1 DEF LifeInv, JobsFit
  <1>8. CreateFits'
    BY <1>1, <1>2, <1>6 DEF LifeInv, CreateFits
  <1>9. TransientCovered'
    BY <1>1, <1>2
    DEF LifeInv, TransientCovered, WorkerAlive, Live, WorkedOn, CreateQueued, LeftRunning
  <1>. QED  BY <1>5, <1>7, <1>8, <1>9 DEF LifeInv

\* The worker's job is not one that is yet to come, nor is one that an error struck.
LEMMA CurrentIsOld ==
    ASSUME PanelInv, NEW j \in Jobs, jobStatus[j] = "none"
    PROVE  j # current /\ j \notin struck
  BY CurrentHasRow, JobsAssumption DEF PanelInv, QueueInv, WorkerAgrees, StruckIsOut

\* create_vm inserts a row and the job that works on it.
LEMMA CreateLives ==
    ASSUME PanelInv, LifeInv, NEW r \in Requests, NEW v \in VMs, NEW j \in Jobs,
           CommitCreate(r, v, j)
    PROVE  LifeInv'
  <1>0. /\ vms \in [VMs -> VMRows] /\ req \in [Requests -> ReqRecords]
        /\ jobVm \in [Jobs -> VMs \cup {NoVm}] /\ struck \subseteq Jobs
        /\ jobStatus \in [Jobs -> JobStatuses] /\ jobType \in [Jobs -> JobTypes]
    BY DEF PanelInv, TypeOK, QueueTypeOK
  <1>. DEFINE row == [NoRow EXCEPT !.host = req[r].host, !.status = "creating"]
  <1>1. row.status = "creating" /\ row.vmid = NoVmid /\ ~row.deleted
    BY DEF NoRow
  <1>2. /\ mode = "up" /\ jobStatus[j] = "none" /\ vms[v].status = "none"
        /\ vms' = [vms EXCEPT ![v] = row]
        /\ jobStatus' = [jobStatus EXCEPT ![j] = "queued"]
        /\ jobType' = [jobType EXCEPT ![j] = "create_vm"]
        /\ jobVm' = [jobVm EXCEPT ![j] = v]
        /\ req' = [req EXCEPT ![r] = NoReq] /\ req[r].pc = "locked"
        /\ UNCHANGED <<pc, current, mode, struck, guests, body>>
    BY DEF CommitCreate, SubmitJob, InsertJob, Serving
  <1>. HIDE DEF row
  <1>3. j # current /\ j \notin struck
    BY <1>2, CurrentIsOld
  <1>4. /\ \A k \in Jobs : jobStatus[k] # "none" => k # j /\ jobVm[k] \in VMs \ {v}
        /\ \A s \in Requests : req[s].pc # "idle" /\ req[s].type # "create_vm" =>
                                   req[s].vm \in VMs \ {v}
        /\ \A s \in Requests : req[s].pc = "marked" => req[s].type # "create_vm"
    BY <1>2 DEF PanelInv, JobsHaveRows, Born
  <1>5. pc # "idle" => /\ current \in Jobs /\ jobStatus[current] # "none"
                       /\ me \in VMs \ {v} /\ me' = me
                       /\ jobType'[current] = jobType[current]
    BY <1>0, <1>2, <1>3, <1>4, CurrentHasRow DEF me
  <1>6. NoReq.pc = "idle"
    BY DEF NoReq
  <1>7. BodyFits'
    <2>1. pc # "idle" /\ LeftRunning(me) => LeftRunning(me)'
      BY <1>0, <1>2, <1>3, <1>5 DEF LeftRunning
    <2>. QED  BY <1>0, <1>2, <1>5, <2>1, SameBody DEF LifeInv
  <1>8. JobsFit'
    BY <1>0, <1>2, <1>4, <1>6 DEF LifeInv, JobsFit
  <1>9. CreateFits'
    BY <1>0, <1>1, <1>2, <1>4 DEF LifeInv, CreateFits
  <1>10. TransientCovered'
    <2>1. CreateQueued(v)'
      BY <1>0, <1>1, <1>2 DEF CreateQueued
    <2>2. ASSUME NEW u \in VMs \ {v}, Live(u)', vms'[u].status \in Transient
          PROVE  WorkedOn(u)' \/ CreateQueued(u)' \/ LeftRunning(u)'
      <3>1. WorkedOn(u) \/ CreateQueued(u) \/ LeftRunning(u)
        BY <1>0, <1>2, <2>2 DEF LifeInv, TransientCovered, WorkerAlive, Live
      <3>2. LeftRunning(u) => LeftRunning(u)'
        BY <1>0, <1>2, <1>3 DEF LeftRunning
      <3>. QED
        BY <1>0, <1>2, <1>4, <1>5, <2>2, <3>1, <3>2 DEF WorkedOn, CreateQueued
    <2>. QED  BY <1>2, <2>1, <2>2 DEF TransientCovered, WorkerAlive
  <1>. QED  BY <1>7, <1>8, <1>9, <1>10 DEF LifeInv

\* The other handlers insert a job, the worker its check.
LEMMA InsertLives ==
    ASSUME PanelInv, LifeInv, NEW j \in Jobs,
           (\E r \in Requests : CommitJob(r, j)) \/ SubmitCheck(j)
    PROVE  LifeInv'
  <1>0. /\ vms \in [VMs -> VMRows] /\ req \in [Requests -> ReqRecords]
        /\ jobVm \in [Jobs -> VMs \cup {NoVm}] /\ struck \subseteq Jobs
        /\ jobStatus \in [Jobs -> JobStatuses] /\ jobType \in [Jobs -> JobTypes]
    BY DEF PanelInv, TypeOK, QueueTypeOK
  <1>. DEFINE Job(t, u) ==
         /\ t # "create_vm" /\ u \in VMs /\ vms[u].status # "creating"
         /\ jobStatus[j] = "none" /\ jobStatus' = [jobStatus EXCEPT ![j] = "queued"]
         /\ jobType' = [jobType EXCEPT ![j] = t]
         /\ jobVm' = [jobVm EXCEPT ![j] = u]
         /\ UNCHANGED <<vms, mode, struck, guests, body, current>>
         /\ \A s \in Requests : req'[s] = req[s] \/ req'[s] = NoReq
         /\ pc' = pc \/ (pc = "followup" /\ pc' = "put")
  <1>1. PICK t \in JobTypes, u \in VMs : Job(t, u)
    <2>1. ASSUME NEW r \in Requests, CommitJob(r, j)
          PROVE  Job(req[r].type, req[r].vm)
      <3>1. req[r].type # "create_vm" /\ req[r].vm \in VMs /\ req[r].pc # "idle"
        BY <2>1 DEF CommitJob, PanelInv, JobsHaveRows, Born
      <3>2. vms[req[r].vm].status # "creating"
        BY <3>1 DEF LifeInv, JobsFit
      <3>. QED
        BY <1>0, <2>1, <3>1, <3>2 DEF CommitJob, SubmitJob, InsertJob
    <2>2. ASSUME SubmitCheck(j)
          PROVE  Job("ssh_readiness_check", me)
      <3>1. pc = "followup" /\ me \in VMs /\ vms[me].status # "creating"
        BY <2>2, CurrentHasRow
        DEF SubmitCheck, WorkerSubmitCheck, LifeInv, BodyFits, StatusFits, Born
      <3>. QED
        BY <1>0, <2>2, <3>1 DEF SubmitCheck, WorkerSubmitCheck, InsertJob
    <2>3. ASSUME NEW r \in Requests, CommitJob(r, j)
          PROVE  req[r].type \in JobTypes /\ req[r].vm \in VMs
      BY <1>0, <2>1, <2>3 DEF ReqRecords
    <2>4. SubmitCheck(j) => me \in VMs /\ "ssh_readiness_check" \in JobTypes
      BY <2>2 DEF JobTypes
    <2>. QED  BY <2>1, <2>2, <2>3, <2>4
  <1>2. j # current /\ j \notin struck
    BY <1>1, CurrentIsOld
  <1>3. \A k \in Jobs \ {j} : /\ jobStatus'[k] = jobStatus[k] /\ jobType'[k] = jobType[k]
                              /\ jobVm'[k] = jobVm[k]
    BY <1>0, <1>1
  <1>4. jobStatus'[j] = "queued" /\ jobType'[j] = t /\ jobVm'[j] = u
    BY <1>0, <1>1
  <1>5. pc # "idle" => /\ current \in Jobs /\ me \in VMs /\ me' = me
                       /\ jobType'[current] = jobType[current]
    BY <1>1, <1>2, <1>3, CurrentHasRow DEF Born, me
  <1>6. NoReq.pc = "idle"
    BY DEF NoReq
  <1>7. BodyFits'
    <2>1. CASE pc' = pc
      <3>1. pc # "idle" /\ LeftRunning(me) => LeftRunning(me)'
        BY <1>0, <1>1, <1>2, <1>3, <1>5 DEF LeftRunning
      <3>. QED  BY <1>1, <1>5, <2>1, <3>1, SameBody DEF LifeInv
    <2>2. CASE pc = "followup" /\ pc' = "put"
      BY <1>1, <1>5, <2>2 DEF LifeInv, BodyFits, StepFits, StatusFits, GuestFits
    <2>. QED  BY <1>1, <2>1, <2>2
  <1>8. JobsFit'
    BY <1>0, <1>1, <1>3, <1>4, <1>6 DEF LifeInv, JobsFit
  <1>9. CreateFits'
    BY <1>1, <1>3, <1>4 DEF LifeInv, CreateFits
  <1>10. TransientCovered'
    <2>1. ASSUME NEW v \in VMs, WorkedOn(v) \/ CreateQueued(v) \/ LeftRunning(v)
          PROVE  WorkedOn(v)' \/ CreateQueued(v)' \/ LeftRunning(v)'
      <3>1. CASE WorkedOn(v)
        BY <1>1, <1>5, <3>1 DEF WorkedOn
      <3>2. CASE CreateQueued(v)
        BY <1>1, <1>3, <3>2 DEF CreateQueued
      <3>3. CASE LeftRunning(v)
        BY <1>0, <1>1, <1>2, <1>3, <3>3 DEF LeftRunning
      <3>. QED  BY <2>1, <3>1, <3>2, <3>3
    <2>. QED  BY <1>1, <2>1 DEF LifeInv, TransientCovered, WorkerAlive, Live
  <1>. QED  BY <1>7, <1>8, <1>9, <1>10 DEF LifeInv

\* The worker outside the bodies, and the jobs put or dropped by their handlers.
LEMMA QueueLives ==
    ASSUME PanelInv, LifeInv,
           (\E j \in Jobs : Enqueue(j) \/ Drop(j)) \/ EnqueueCheck \/ TakeJob \/ JobDropped
    PROVE  LifeInv'
  <1>1. /\ UNCHANGED <<vms, jobVm, jobStatus, jobType, guests, req, mode>>
        /\ struck \subseteq struck'
        /\ \/ UNCHANGED <<pc, current, body>>
           \/ pc \in {"idle", "put", "loaded"} /\ pc' \in {"idle", "loaded"}
    <2>1. CASE \E j \in Jobs : Enqueue(j) \/ Drop(j)
      BY <2>1 DEF Enqueue, EnqueueJob, Drop, DropJob, Strike, rowVars
    <2>2. CASE EnqueueCheck
      BY <2>2 DEF EnqueueCheck, WorkerEnqueueCheck, rowVars
    <2>3. CASE TakeJob \/ JobDropped
      BY <2>3 DEF TakeJob, WorkerGet, JobDropped, WorkerDrops, Strike, rowVars, jobVars
    <2>. QED  BY <2>1, <2>2, <2>3
  <1>2. JobsFit' /\ CreateFits'
    BY <1>1 DEF LifeInv, JobsFit, CreateFits
  <1>3. BodyFits'
    <2>1. CASE UNCHANGED <<pc, current, body>>
      BY <1>1, <2>1, SameBody DEF LifeInv, me, LeftRunning
    <2>2. CASE pc' \in {"idle", "loaded"}
      BY <2>2 DEF BodyFits, StepFits, StatusFits, GuestFits
    <2>. QED  BY <1>1, <2>1, <2>2
  <1>4. TransientCovered'
    <2>1. \A v \in VMs : WorkedOn(v) => WorkedOn(v)'
      BY <1>1 DEF WorkedOn, me
    <2>2. \A v \in VMs : LeftRunning(v) => LeftRunning(v)'
      BY <1>1 DEF LeftRunning
    <2>. QED
      BY <1>1, <2>1, <2>2 DEF LifeInv, TransientCovered, WorkerAlive, Live, CreateQueued
  <1>. QED  BY <1>2, <1>3, <1>4 DEF LifeInv

LEMMA StartLives ==
    ASSUME PanelInv, LifeInv, StartJob
    PROVE  LifeInv'
  <1>0. /\ jobStatus \in [Jobs -> JobStatuses] /\ jobType \in [Jobs -> JobTypes]
        /\ body \in Bodies /\ struck \subseteq Jobs
    BY DEF PanelInv, TypeOK, QueueTypeOK
  <1>1. /\ pc = "loaded" /\ pc' = "running" /\ WorkerAlive
        /\ jobStatus' = [jobStatus EXCEPT ![current] = "running"]
        /\ UNCHANGED <<vms, jobVm, jobType, guests, req, current, mode, struck>>
        /\ body' = [body EXCEPT !.step = FirstStep(jobType[current])]
    BY DEF StartJob, WorkerStart, Goto, rowVars
  <1>2. /\ current \in Jobs /\ jobStatus[current] = "queued" /\ me' = me /\ me \in VMs
        /\ jobType[current] \in JobTypes
        /\ body'.step = FirstStep(jobType[current]) /\ body'.ssh = body.ssh
    BY <1>0, <1>1, CurrentHasRow DEF PanelInv, QueueInv, WorkerAgrees, Born, Bodies, me
  <1>3. BodyFits'
    <2>1. jobType[current] = "ssh_readiness_check" =>
             /\ vms[me].status # "creating"
             /\ Live(me) => vms[me].status \notin Transient \/ LeftRunning(me)
      <3>1. jobType[current] = "ssh_readiness_check" => vms[me].status # "creating"
        BY <1>2 DEF LifeInv, JobsFit, me
      <3>2. Live(me) /\ vms[me].status \in Transient =>
               CreateQueued(me) \/ LeftRunning(me)
        BY <1>1, <1>2 DEF LifeInv, TransientCovered, WorkedOn
      <3>. QED  BY <3>1, <3>2 DEF CreateQueued
    <2>2. jobType[current] = "create_vm" => vms[me].status \in Transient
      <3>1. jobType[current] = "create_vm" => mode = "up"
        BY <1>1, <1>2
        DEF WorkerAlive, PanelInv, QueueInv, HalfRequeued, Placed, Queued, Resumable
      <3>. QED  BY <1>2, <3>1 DEF LifeInv, CreateFits, Transient, me
    <2>3. StepFits' /\ GuestFits'
      BY <1>1, <1>2 DEF StepFits, GuestFits, FirstStep, JobTypes, PowerTypes
    <2>4. StatusFits'
      <3>1. LeftRunning(me) => LeftRunning(me)'
        BY <1>0, <1>1, <1>2 DEF LeftRunning
      <3>. QED
        BY <1>1, <1>2, <2>1, <2>2, <3>1 DEF StatusFits, FirstStep, JobTypes, PowerTypes, Live
    <2>. QED  BY <2>3, <2>4 DEF BodyFits
  <1>4. JobsFit' /\ CreateFits'
    BY <1>0, <1>1, <1>2 DEF LifeInv, JobsFit, CreateFits
  <1>5. TransientCovered'
    <2>1. \A v \in VMs : LeftRunning(v) => LeftRunning(v)'
      BY <1>0, <1>1, <1>2 DEF LeftRunning
    <2>. QED
      BY <1>0, <1>1, <1>2, <2>1
      DEF LifeInv, TransientCovered, WorkerAlive, Live, WorkedOn, CreateQueued, me
  <1>. QED  BY <1>3, <1>4, <1>5 DEF LifeInv

LEMMA BodyLives ==
    ASSUME PanelInv, LifeInv, BodyStep
    PROVE  LifeInv'
  <1>1. BodyPost
    BY StepFitsBody DEF LifeInv
  <1>2. /\ UNCHANGED <<jobStatus, jobType, pc, current, mode, struck, jobVm, req>>
        /\ me' = me
    BY <1>1 DEF BodyPost, queueVars, me
  <1>3. pc = "running" /\ WorkerAlive
    BY DEF BodyStep, ProvisionStep, DestroyStep, PowerStep, Provision, Clone,
           RecordTarget, CloneDone, Configure, StartGuest, GuestStarted, GotIp,
           NoIp, MakeUnique, MadeUnique, BeginReinstall, BeginDelete, NothingToDestroy,
           StopBeforeErase, Erase, Erased, FinishDelete, WipeRow, BeginPower,
           PostPower, Stopped, PoweredOn, PowerIp, CheckSsh, At
  <1>4. current \in Jobs /\ me \in VMs /\ jobStatus[current] = "running"
        /\ vms[me].status # "none" /\ jobVm[current] = me
    BY <1>3, CurrentHasRow DEF PanelInv, QueueInv, WorkerAgrees, Born, me
  <1>5. RowStep /\ GuestStep /\ RowsKept
    BY <1>1, BodyKeeps DEF BodyPost, BodyKept
  <1>6. \A v \in VMs : vms'[v].status = "creating" => vms[v].status = "creating"
    BY <1>5 DEF RowStep
  <1>7. JobsFit'
    <2>1. /\ \A j \in Jobs : jobStatus[j] # "none" => jobVm[j] \in VMs
          /\ \A r \in Requests : req[r].pc # "idle" /\ req[r].type # "create_vm" =>
                                     req[r].vm \in VMs
      BY DEF PanelInv, JobsHaveRows, Born
    <2>. QED  BY <1>2, <1>6, <2>1 DEF LifeInv, JobsFit
  <1>8. CreateFits'
    <2>1. jobType[current] # "create_vm" => vms[me].status # "creating"
      BY <1>4 DEF LifeInv, JobsFit
    <2>2. ASSUME NEW v \in VMs, vms'[v].status \in {"none", "creating"}
          PROVE  vms'[v].vmid = NoVmid /\ ~vms'[v].deleted
      <3>1. CASE v # me
        BY <1>5, <2>2, <3>1 DEF RowStep, LifeInv, CreateFits
      <3>2. CASE v = me
        <4>1. vms'[me].status = "creating" /\ vms[me].status = "creating"
          BY <1>4, <1>5, <1>6, <2>2, <3>2 DEF RowsKept
        <4>2. body.step # "deleted"
          BY <1>3, <2>1, <4>1 DEF LifeInv, BodyFits, StepFits
        <4>. QED
          BY <1>5, <3>2, <4>1, <4>2 DEF RowStep, GuestStep, LifeInv, CreateFits
      <3>. QED  BY <3>1, <3>2
    <2>3. ASSUME mode = "up", NEW j \in Jobs, jobStatus[j] = "queued", jobType[j] = "create_vm"
          PROVE  vms'[jobVm[j]].status = "creating"
      <3>1. vms[jobVm[j]].status = "creating" /\ jobVm[j] \in VMs
        BY <2>3 DEF LifeInv, CreateFits, PanelInv, JobsHaveRows, Born
      <3>2. jobVm[j] # me
        BY <1>4, <2>1, <2>3, <3>1 DEF LifeInv, CreateFits
      <3>. QED  BY <1>5, <3>1, <3>2 DEF RowStep
    <2>4. \A j, k \in Jobs :
             jobStatus[j] # "none" /\ jobType[j] = "create_vm" /\ jobStatus[k] # "none"
                /\ jobType[k] = "create_vm" /\ jobVm[j] = jobVm[k] => j = k
      BY DEF LifeInv, CreateFits
    <2>. QED  BY <1>2, <2>2, <2>3, <2>4 DEF CreateFits
  <1>9. TransientCovered'
    <2>1. \A v \in VMs \ {me} : vms'[v] = vms[v]
      BY <1>5 DEF RowStep
    <2>2. \A v \in VMs : /\ LeftRunning(v)' = LeftRunning(v)
                         /\ v # me /\ CreateQueued(v) => CreateQueued(v)'
      BY <1>2, <2>1 DEF LeftRunning, CreateQueued
    <2>3. WorkedOn(me)' /\ mode # "recovered"
      BY <1>2, <1>3 DEF WorkedOn, WorkerAlive
    <2>. QED
      BY <1>2, <1>3, <2>1, <2>2, <2>3
      DEF LifeInv, TransientCovered, WorkerAlive, Live, WorkedOn
  <1>. QED  BY <1>1, <1>7, <1>8, <1>9 DEF LifeInv, BodyPost

\* A job ends: well, badly, or with an error that keeps dispatch from recording how.
LEMMA EndLives ==
    ASSUME PanelInv, LifeInv, JobSucceeds \/ JobFails \/ JobAbandoned \/ CheckRetracted
    PROVE  LifeInv'
  <1>0. /\ vms \in [VMs -> VMRows] /\ struck \subseteq Jobs
        /\ jobStatus \in [Jobs -> JobStatuses] /\ jobType \in [Jobs -> JobTypes]
    BY DEF PanelInv, TypeOK, QueueTypeOK
  <1>1. pc # "idle" /\ WorkerAlive
    BY DEF JobSucceeds, JobFails, WorkerFail, JobAbandoned, WorkerAbandons, CheckRetracted,
           WorkerRetracts, At
  <1>2. /\ current \in Jobs /\ me \in VMs /\ jobVm[current] = me
        /\ pc = "running" => jobStatus[current] = "running"
        /\ jobStatus[current] # "none" /\ current \notin struck
        /\ pc \in {"running", "followup", "put"} => jobStatus[current] # "queued"
    BY <1>1, CurrentHasRow
    DEF PanelInv, QueueInv, WorkerAgrees, StruckIsOut, Born, me
  <1>3. /\ \A j \in Jobs : jobStatus[j] # "none" => jobVm[j] \in VMs
        /\ \A r \in Requests : req[r].pc # "idle" /\ req[r].type # "create_vm" =>
                                   req[r].vm \in VMs
    BY DEF PanelInv, JobsHaveRows, Born
  <1>. DEFINE Ended(s) ==
         /\ jobStatus' = [jobStatus EXCEPT ![current] = s]
         /\ UNCHANGED <<jobVm, jobType, guests, req, mode>> /\ struck \subseteq struck'
         /\ pc \in {"running", "followup", "put"}
         /\ pc' = "idle" \/ (pc' = "followup" /\ current' = current /\ vms' = vms
                                /\ vms[me].status # "creating")
         /\ \A v \in VMs :
               /\ vms'[v].vmid = vms[v].vmid /\ vms'[v].deleted = vms[v].deleted
               /\ vms'[v].status = vms[v].status \/ (v = me /\ vms'[v].status = "error")
         /\ ~vms'[me].deleted => vms'[me].status \notin Transient \/ LeftRunning(me)
  <1>4. ASSUME NEW s \in {"success", "failed"}, Ended(s)
        PROVE  LifeInv'
    <2>1. \A j \in Jobs : /\ jobStatus'[j] = "none" <=> jobStatus[j] = "none"
                          /\ jobStatus'[j] = "queued" => jobStatus[j] = "queued" /\ j # current
                          /\ j # current => jobStatus'[j] = jobStatus[j]
      BY <1>0, <1>2, <1>4
    <2>2. \A v \in VMs : vms'[v].status = "creating" => vms[v].status = "creating"
      BY <1>4
    <2>3. BodyFits'
      BY <1>4 DEF BodyFits, StepFits, StatusFits, GuestFits, me
    <2>4. JobsFit'
      BY <1>3, <1>4, <2>1, <2>2 DEF LifeInv, JobsFit
    <2>5. \A j \in Jobs : jobStatus[j] = "queued" /\ jobType[j] = "create_vm"
                             /\ mode = "up" => jobVm[j] # me
      <3>. SUFFICES ASSUME NEW j \in Jobs, jobStatus[j] = "queued",
                           jobType[j] = "create_vm", mode = "up", jobVm[j] = me
                    PROVE  FALSE
        OBVIOUS
      <3>1. vms[me].status = "creating"
        BY DEF LifeInv, CreateFits
      <3>2. jobType[current] = "create_vm"
        BY <1>2, <3>1 DEF LifeInv, JobsFit
      <3>. QED  BY <1>2, <1>4, <3>2 DEF LifeInv, CreateFits
    <2>6. CreateFits'
      <3>1. \A v \in VMs : vms'[v].status \in {"none", "creating"} =>
                              vms'[v].vmid = NoVmid /\ ~vms'[v].deleted
        BY <1>4 DEF LifeInv, CreateFits
      <3>2. \A j, k \in Jobs :
               jobStatus'[j] # "none" /\ jobType[j] = "create_vm" /\ jobStatus'[k] # "none"
                  /\ jobType[k] = "create_vm" /\ jobVm[j] = jobVm[k] => j = k
        BY <2>1 DEF LifeInv, CreateFits
      <3>3. ASSUME mode = "up", NEW j \in Jobs, jobStatus'[j] = "queued",
                   jobType[j] = "create_vm"
            PROVE  vms'[jobVm[j]].status = "creating"
        <4>1. jobStatus[j] = "queued" /\ jobVm[j] \in VMs \ {me}
          BY <1>3, <2>1, <2>5, <3>3
        <4>. QED  BY <1>4, <3>3, <4>1 DEF LifeInv, CreateFits
      <3>. QED  BY <1>4, <3>1, <3>2, <3>3 DEF CreateFits
    <2>7. TransientCovered'
      <3>1. \A v \in VMs : LeftRunning(v) => LeftRunning(v)'
        BY <1>0, <1>2, <1>4, <2>1 DEF LeftRunning
      <3>2. \A v \in VMs \ {me} : CreateQueued(v) => CreateQueued(v)'
        BY <1>0, <1>2, <1>4, <2>1 DEF CreateQueued
      <3>3. \A v \in VMs \ {me} : Live(v)' /\ vms'[v].status \in Transient =>
               Live(v) /\ vms[v].status \in Transient /\ ~WorkedOn(v)
        BY <1>4 DEF Live, WorkedOn
      <3>4. ASSUME NEW v \in VMs, Live(v)', vms'[v].status \in Transient
            PROVE  CreateQueued(v)' \/ LeftRunning(v)'
        <4>1. CASE v = me
          BY <1>4, <3>1, <3>4, <4>1 DEF Live
        <4>2. CASE v # me
          BY <1>1, <3>1, <3>2, <3>3, <3>4, <4>2 DEF LifeInv, TransientCovered
        <4>. QED  BY <4>1, <4>2
      <3>. QED  BY <1>1, <1>4, <3>4 DEF TransientCovered, WorkerAlive
    <2>. QED  BY <2>3, <2>4, <2>6, <2>7 DEF LifeInv
  <1>5. CASE JobSucceeds
    <2>1. /\ body.step = "done" /\ UNCHANGED <<vms, jobVm, jobType, guests, req, mode, struck>>
          /\ jobStatus' = [jobStatus EXCEPT ![current] = "success"] /\ pc = "running"
          /\ pc' = "idle" \/ (pc' = "followup" /\ current' = current)
      BY <1>5 DEF JobSucceeds, WorkerSucceed, At, rowVars
    <2>2. /\ Live(me) => vms[me].status \notin Transient \/ LeftRunning(me)
          /\ vms[me].status # "creating"
      BY <2>1 DEF LifeInv, BodyFits, StatusFits
    <2>3. Ended("success")
      BY <1>2, <2>1, <2>2 DEF Live, Transient
    <2>. QED  BY <1>4, <2>3
  <1>6. CASE JobFails \/ CheckRetracted
    <2>1. /\ UNCHANGED <<jobVm, jobType, guests, req, mode>> /\ struck \subseteq struck'
          /\ vms' = [vms EXCEPT ![me].status = "error"]
          /\ jobStatus' = [jobStatus EXCEPT ![current] = "failed"]
          /\ pc \in {"running", "put"} /\ pc' = "idle"
      BY <1>6 DEF JobFails, WorkerFail, CheckRetracted, WorkerRetracts, Strike
    <2>2. /\ vms'[me].status = "error" /\ \A v \in VMs \ {me} : vms'[v] = vms[v]
          /\ \A v \in VMs : vms'[v].vmid = vms[v].vmid /\ vms'[v].deleted = vms[v].deleted
      BY <1>0, <1>2, <2>1 DEF VMRows
    <2>3. Ended("failed")
      BY <2>1, <2>2 DEF Transient
    <2>. QED  BY <1>4, <2>3
  <1>7. CASE JobAbandoned
    <2>1. /\ UNCHANGED <<vms, jobVm, jobStatus, jobType, guests, req, mode>>
          /\ pc' = "idle" /\ struck \subseteq struck'
          /\ pc = "running" => current \in struck'
      BY <1>7 DEF JobAbandoned, WorkerAbandons, Strike, rowVars, jobVars
    <2>2. BodyFits' /\ JobsFit' /\ CreateFits'
      BY <2>1
      DEF LifeInv, BodyFits, StepFits, StatusFits, GuestFits, JobsFit, CreateFits
    <2>3. \A v \in VMs : WorkedOn(v) \/ LeftRunning(v) => LeftRunning(v)'
      BY <1>2, <2>1 DEF WorkedOn, LeftRunning
    <2>4. TransientCovered'
      BY <2>1, <2>3 DEF LifeInv, TransientCovered, WorkerAlive, Live, CreateQueued
    <2>. QED  BY <2>2, <2>4 DEF LifeInv
  <1>. QED  BY <1>5, <1>6, <1>7

LEMMA RestartLives ==
    ASSUME PanelInv, LifeInv, Boot \/ ProcessDies
    PROVE  LifeInv'
  <1>0. /\ vms \in [VMs -> VMRows]
        /\ jobStatus \in [Jobs -> JobStatuses] /\ jobType \in [Jobs -> JobTypes]
    BY DEF PanelInv, TypeOK, QueueTypeOK
  <1>1. /\ \A j \in Jobs : jobStatus[j] # "none" => jobVm[j] \in VMs
                                                    /\ vms[jobVm[j]].status # "none"
        /\ \A r \in Requests : req[r].pc # "idle" /\ req[r].type # "create_vm" =>
                                   req[r].vm \in VMs
    BY DEF PanelInv, JobsHaveRows, Born
  <1>2. CASE RecoverRows
    <2>1. PICK f \in [VMs -> Vmids \cup {NoVmid}] :
             /\ \A v \in VMs : f[v] \in VmidAfter(v)
             /\ vms' = [v \in VMs |-> Recovered(v, f[v])]
      BY <1>2 DEF RecoverRows
    <2>2. /\ mode = "down" /\ mode' = "recovered" /\ pc' = pc
          /\ jobStatus' = [j \in Jobs |->
                              IF jobStatus[j] = "running" THEN "failed" ELSE jobStatus[j]]
          /\ UNCHANGED <<jobVm, jobType, req>>
      BY <1>2 DEF RecoverRows, Recover, procVars
    <2>3. pc = "idle"
      BY <2>2 DEF PanelInv, QueueInv, QuietBoot
    <2>4. ASSUME NEW v \in VMs
          PROVE  /\ vms'[v].status = IF vms[v].status \in Transient /\ ~vms[v].deleted
                                     THEN "error" ELSE vms[v].status
                 /\ vms'[v].vmid = f[v]
                 /\ vms'[v].deleted = vms[v].deleted
      BY <1>0, <2>1 DEF Recovered, VMRows
    <2>5. \A v \in VMs : vms'[v].status = "creating" => vms[v].status = "creating"
      BY <2>4
    <2>6. BodyFits'
      BY <2>2, <2>3 DEF BodyFits, StepFits, StatusFits, GuestFits
    <2>7. JobsFit'
      BY <1>0, <1>1, <2>2, <2>5 DEF LifeInv, JobsFit
    <2>8. CreateFits'
      <3>1. ASSUME NEW v \in VMs, vms'[v].status \in {"none", "creating"}
            PROVE  vms'[v].vmid = NoVmid /\ ~vms'[v].deleted
        <4>1. vms[v].status = "none" /\ vms[v].vmid = NoVmid /\ ~vms[v].deleted
          BY <2>4, <3>1 DEF LifeInv, CreateFits, Transient
        <4>2. Adopted(v) = {}
          BY <1>1, <4>1 DEF Adopted
        <4>. QED  BY <2>1, <2>4, <4>1, <4>2 DEF VmidAfter
      <3>2. \A j \in Jobs : jobStatus'[j] = "none" <=> jobStatus[j] = "none"
        BY <1>0, <2>2
      <3>. QED  BY <2>2, <3>1, <3>2 DEF LifeInv, CreateFits
    <2>9. TransientCovered'
      BY <2>2, <2>4 DEF TransientCovered, WorkerAlive, Live, Transient
    <2>. QED  BY <2>6, <2>7, <2>8, <2>9 DEF LifeInv
  <1>3. CASE RequeueJobs
    <2>1. /\ UNCHANGED <<vms, jobVm, jobType, guests, req, body, pc, current, struck>>
          /\ \/ mode = "recovered" /\ mode' = "requeued" /\ UNCHANGED jobStatus
             \/ /\ mode = "requeued" /\ mode' = "up"
                /\ \A j \in Jobs : jobStatus'[j] = "queued" => jobType[j] # "create_vm"
          /\ \A j \in Jobs : /\ jobStatus'[j] = "none" <=> jobStatus[j] = "none"
                             /\ jobStatus[j] = "running" => jobStatus'[j] = "running"
      BY <1>0, <1>3 DEF RequeueJobs, Requeue, RequeueCommit, Resumable, rowVars, jobVars,
                        procVars
    <2>2. me' = me /\ struck \subseteq Jobs
      BY <2>1 DEF me, PanelInv, TypeOK, QueueTypeOK
    <2>3. \A v \in VMs : LeftRunning(v) => LeftRunning(v)'
      BY <2>1, <2>2 DEF LeftRunning
    <2>4. BodyFits'
      <3>1. pc \in {"running", "followup", "put"} => me \in VMs
        BY CurrentHasRow DEF Born
      <3>. QED  BY <2>1, <2>2, <2>3, <3>1, SameBody DEF LifeInv
    <2>5. JobsFit' /\ CreateFits'
      BY <2>1 DEF LifeInv, JobsFit, CreateFits
    <2>6. TransientCovered'
      BY <2>1, <2>2, <2>3
      DEF LifeInv, TransientCovered, WorkerAlive, Live, WorkedOn, CreateQueued
    <2>. QED  BY <2>4, <2>5, <2>6 DEF LifeInv
  <1>4. CASE ProcessDies
    <2>1. /\ mode' = "down" /\ pc' = "idle"
          /\ req' = [r \in Requests |-> NoReq]
          /\ UNCHANGED <<vms, jobVm, jobStatus, jobType>>
      BY <1>4 DEF ProcessDies, Crash, rowVars, jobVars
    <2>. QED
      BY <2>1 DEF LifeInv, BodyFits, StepFits, StatusFits, GuestFits, JobsFit, CreateFits,
                  TransientCovered, WorkerAlive, NoReq
  <1>. QED  BY <1>2, <1>3, <1>4 DEF Boot

LEMMA LifeInvInductive ==
    ASSUME PanelInv, LifeInv, [Next]_vars
    PROVE  LifeInv'
  <1>1. CASE UNCHANGED vars
    BY <1>1 DEF vars, queueVars, rowVars, LifeInv, BodyFits, StepFits, StatusFits, GuestFits,
                HasGuest, Exists, Off, Live, me, JobsFit, CreateFits, TransientCovered,
                WorkerAlive, WorkedOn, CreateQueued, LeftRunning
  <1>2. CASE Client \/ Handler
    BY <1>2, RequestsLive, CreateLives, InsertLives, QueueLives DEF Handler, HandlerStep
  <1>3. CASE Worker
    BY <1>3, QueueLives, StartLives, BodyLives, EndLives, InsertLives DEF Worker
  <1>. QED
    BY <1>1, <1>2, <1>3, RestartLives DEF Next

LEMMA LifeInvariant == Spec => [](PanelInv /\ LifeInv)
  <1>1. LifeInv /\ PanelInv /\ [Next]_vars => LifeInv'
    BY LifeInvInductive
  <1>. QED  BY <1>1, LifeInit, PanelInvariant, PTL DEF Spec

\* A live row in a transient status is being worked on or will be, for any number of
\* crashes and database errors: no creation, deletion, restart or failure leaves a VM that
\* nothing takes further, unless an error kept dispatch from recording how one of its jobs
\* ended (mark_orphaned_running_as_failed, dispatch).
THEOREM TransientRowsHaveJobs == Spec => []TransientHasJob
  <1>1. PanelInv /\ LifeInv => TransientHasJob
    <2>. SUFFICES ASSUME PanelInv, LifeInv, WorkerAlive, NEW v \in VMs, Live(v),
                         vms[v].status \in Transient
                  PROVE  \E j \in Jobs :
                            /\ jobVm[j] = v
                            /\ \/ pc = "running" /\ current = j
                               \/ j \in struck /\ jobStatus[j] = "running"
                               \/ /\ jobStatus[j] = "queued" /\ jobType[j] = "create_vm"
                                  /\ vms[v].status = "creating"
      BY DEF TransientHasJob
    <2>1. CASE WorkedOn(v)
      BY <2>1, CurrentHasRow DEF WorkedOn, me
    <2>2. CASE CreateQueued(v)
      BY <2>2 DEF CreateQueued
    <2>3. CASE LeftRunning(v)
      BY <2>3 DEF LeftRunning, PanelInv, TypeOK, QueueTypeOK
    <2>. QED  BY <2>1, <2>2, <2>3 DEF LifeInv, TransientCovered
  <1>. QED  BY <1>1, LifeInvariant, PTL

-----------------------------------------------------------------------------
(* The guests.                                                             *)

\* What every other step does to rows and guests. The restart adopts the VMID of a clone.
ElsewhereStep ==
    /\ UNCHANGED <<guests, jobTarget>>
    /\ \A v \in VMs :
          /\ vms'[v].deleted => vms[v].deleted
          /\ vms[v].status = "none" /\ vms'[v].status # "none" => vms'[v].status = "creating"
          /\ vms'[v].status \in {"running", "stopped"} =>
                vms'[v].status = vms[v].status /\ vms'[v].deleted = vms[v].deleted
          /\ \/ vms'[v].vmid \in {vms[v].vmid, NoVmid}
             \/ vms[v].vmid = NoVmid /\ vms'[v].vmid \in Adopted(v)
          /\ vms'[v].status \in {"running", "stopped"} /\ vms[v].vmid # NoVmid =>
                vms'[v].vmid = vms[v].vmid
    /\ \A j \in Jobs : jobStatus[j] # "none" => jobStatus'[j] # "none" /\ jobVm'[j] = jobVm[j]
    /\ pc' = "running" => body'.step \notin {"record", "waitclone"}
                            \/ UNCHANGED <<pc, current, body>>

LEMMA ElsewhereSteps ==
    ASSUME PanelInv, [Next]_vars, ~BodyStep
    PROVE  ElsewhereStep
  <1>0. /\ vms \in [VMs -> VMRows] /\ jobStatus \in [Jobs -> JobStatuses]
        /\ jobType \in [Jobs -> JobTypes]
        /\ jobVm \in [Jobs -> VMs \cup {NoVm}] /\ body \in Bodies
    BY DEF PanelInv, TypeOK, QueueTypeOK
  <1>1. ASSUME NEW r \in Requests, NEW v \in VMs, NEW j \in Jobs, CommitCreate(r, v, j)
        PROVE  ElsewhereStep
    <2>. DEFINE row == [NoRow EXCEPT !.host = req[r].host, !.status = "creating"]
    <2>1. row.status = "creating" /\ row.vmid = NoVmid /\ ~row.deleted
      BY DEF NoRow
    <2>2. /\ vms' = [vms EXCEPT ![v] = row] /\ jobVm' = [jobVm EXCEPT ![j] = v]
          /\ jobStatus[j] = "none" /\ jobStatus' = [jobStatus EXCEPT ![j] = "queued"]
          /\ UNCHANGED <<guests, jobTarget, pc, current, body>>
      BY <1>1 DEF CommitCreate, SubmitJob, InsertJob
    <2>. HIDE DEF row
    <2>. QED  BY <1>0, <2>1, <2>2 DEF ElsewhereStep
  <1>2. CASE RecoverRows
    <2>0. PICK f \in [VMs -> Vmids \cup {NoVmid}] :
             /\ \A v \in VMs : f[v] \in VmidAfter(v)
             /\ vms' = [v \in VMs |-> Recovered(v, f[v])]
      BY <1>2 DEF RecoverRows
    <2>1. /\ pc' = pc /\ mode = "down"
          /\ jobStatus' = [j \in Jobs |->
                              IF jobStatus[j] = "running" THEN "failed" ELSE jobStatus[j]]
          /\ UNCHANGED <<guests, jobTarget, jobVm>>
      BY <1>2 DEF RecoverRows, Recover, procVars
    <2>2. pc = "idle"
      BY <2>1 DEF PanelInv, QueueInv, QuietBoot
    <2>3. ASSUME NEW v \in VMs
          PROVE  /\ vms'[v].status = IF vms[v].status \in Transient /\ ~vms[v].deleted
                                     THEN "error" ELSE vms[v].status
                 /\ vms'[v].vmid \in VmidAfter(v)
                 /\ vms'[v].deleted = vms[v].deleted
      BY <1>0, <2>0 DEF Recovered, VMRows
    <2>. QED  BY <1>0, <2>1, <2>2, <2>3 DEF ElsewhereStep, Transient, VmidAfter
  <1>3. CASE JobFails \/ CheckRetracted
    <2>1. /\ vms' = [vms EXCEPT ![me].status = "error"] /\ pc' = "idle"
          /\ jobStatus' = [jobStatus EXCEPT ![current] = "failed"]
          /\ UNCHANGED <<guests, jobTarget, jobVm>> /\ pc # "idle"
      BY <1>3 DEF JobFails, WorkerFail, CheckRetracted, WorkerRetracts
    <2>2. me \in VMs /\ vms[me].status # "none"
      BY <2>1, CurrentHasRow DEF Born
    <2>. QED  BY <1>0, <2>1, <2>2 DEF ElsewhereStep, VMRows
  <1>4. ASSUME NEW r \in Requests, MarkPending(r)
        PROVE  ElsewhereStep
    BY <1>0, <1>4 DEF MarkPending, ElsewhereStep, VMRows, queueVars
  <1>5. ASSUME NEW j \in Jobs, (\E r \in Requests : CommitJob(r, j)) \/ SubmitCheck(j)
        PROVE  ElsewhereStep
    <2>1. /\ UNCHANGED <<vms, guests, jobTarget, body>>
          /\ jobStatus[j] = "none" /\ jobStatus' = [jobStatus EXCEPT ![j] = "queued"]
          /\ \E u : jobVm' = [jobVm EXCEPT ![j] = u]
          /\ UNCHANGED <<pc, current>> \/ pc' = "put"
      BY <1>5 DEF CommitJob, SubmitJob, SubmitCheck, WorkerSubmitCheck, InsertJob
    <2>. QED  BY <1>0, <2>1 DEF ElsewhereStep
  <1>6. CASE StartJob
    <2>1. FirstStep(jobType[current]) \notin {"record", "waitclone"}
      BY <1>0, <1>6, CurrentHasRow
      DEF StartJob, WorkerStart, FirstStep, JobTypes, PowerTypes
    <2>2. body'.step = FirstStep(jobType[current])
      BY <1>0, <1>6 DEF StartJob, Goto, Bodies
    <2>. QED
      BY <1>0, <1>6, <2>1, <2>2 DEF StartJob, WorkerStart, ElsewhereStep, rowVars
  <1>. DEFINE Idle == /\ UNCHANGED <<vms, guests, jobTarget, jobVm>>
                      /\ \A j \in Jobs : jobStatus[j] # "none" => jobStatus'[j] # "none"
                      /\ UNCHANGED <<pc, current, body>> \/ pc' # "running"
  <1>7. CASE UNCHANGED vars
    BY <1>7 DEF vars, queueVars, rowVars, ElsewhereStep
  <1>8. CASE Client \/ \E r \in Requests : LockCreate(r) \/ HandlerFails(r)
    <2>1. Idle
      BY <1>8 DEF Client, CheckCreate, CheckRow, LockCreate, HandlerFails, HandlerOnly,
                  rowVars, queueVars
    <2>. QED  BY <2>1 DEF ElsewhereStep
  <1>9. CASE \/ \E j \in Jobs : Enqueue(j) \/ Drop(j)
             \/ TakeJob \/ EnqueueCheck \/ JobDropped \/ JobAbandoned
    <2>1. Idle
      BY <1>9 DEF TakeJob, WorkerGet, EnqueueCheck, WorkerEnqueueCheck, Enqueue, EnqueueJob,
                  Drop, DropJob, JobDropped, WorkerDrops, JobAbandoned, WorkerAbandons,
                  rowVars, jobVars
    <2>. QED  BY <2>1 DEF ElsewhereStep
  <1>10. CASE JobSucceeds \/ RequeueJobs \/ ProcessDies
    <2>1. Idle
      <3>1. CASE JobSucceeds
        BY <1>0, <3>1, CurrentHasRow DEF JobSucceeds, WorkerSucceed, rowVars
      <3>2. CASE RequeueJobs
        BY <1>0, <3>2 DEF RequeueJobs, Requeue, RequeueCommit, rowVars, jobVars, procVars
      <3>3. CASE ProcessDies
        BY <3>3 DEF ProcessDies, Crash, rowVars, jobVars
      <3>. QED  BY <1>10, <3>1, <3>2, <3>3
    <2>. QED  BY <2>1 DEF ElsewhereStep
  <1>. QED
    BY <1>1, <1>2, <1>3, <1>4, <1>5, <1>6, <1>7, <1>8, <1>9, <1>10
    DEF Next, Handler, HandlerStep, Worker, Boot

\* A row is marked deleted only when its guest does not exist - its task was seen to end
\* well, or the row names none - or when the lookup before the destruction missed a guest
\* that does (destroy_existing_vm, delete_vm_job, resolve_vm_node).
THEOREM DeletionIsClean == Spec => DeleteIsClean
  <1>1. PanelInv /\ LifeInv /\ [Next]_vars => [DeleteStep]_vars
    <2>. SUFFICES ASSUME PanelInv, LifeInv, [Next]_vars, NEW v \in VMs,
                         ~vms[v].deleted, vms'[v].deleted
                  PROVE  ~HasGuest(v) \/ body.missed
      BY DEF DeleteStep
    <2>1. CASE BodyStep
      <3>1. BodyPost
        BY <2>1, StepFitsBody DEF LifeInv
      <3>2. pc = "running" /\ v = me /\ body.step = "deleted"
        BY <2>1, <3>1
        DEF BodyPost, RowStep, BodyStep, ProvisionStep, DestroyStep, PowerStep, Provision,
            Clone, RecordTarget, CloneDone, Configure, StartGuest, GuestStarted, GotIp,
            NoIp, MakeUnique, MadeUnique, BeginReinstall, BeginDelete, NothingToDestroy,
            StopBeforeErase, Erase, Erased, FinishDelete, WipeRow, BeginPower,
            PostPower, Stopped, PoweredOn, PowerIp, CheckSsh, At
      <3>. QED  BY <3>2 DEF LifeInv, BodyFits, GuestFits
    <2>2. CASE ~BodyStep
      BY <2>2, ElsewhereSteps DEF ElsewhereStep
    <2>. QED  BY <2>1, <2>2
  <1>. QED  BY <1>1, LifeInvariant, PTL DEF Spec, DeleteIsClean

-----------------------------------------------------------------------------
(* Whose guest a VMID names.                                               *)

\* A VMID gets into a row or a job only if it was handed out for that row, for the job
\* of that row.
RowsNamed == \A v \in VMs : vms[v].vmid \in Vmids => v \in guests[vms[v].vmid].past

TargetsNamed ==
    \A j \in Jobs : jobTarget[j] \in Vmids =>
        jobStatus[j] # "none" /\ jobVm[j] \in guests[jobTarget[j]].past

CloneNamed ==
    pc = "running" /\ body.step \in {"record", "waitclone"} =>
        me \in guests[body.newid].past

NamesOwn == RowsNamed /\ TargetsNamed /\ CloneNamed

OwnInv == NamesOwn /\ PanelAgrees

LEMMA OwnInit == Init => OwnInv
  <1>. SUFFICES ASSUME Init PROVE OwnInv
    OBVIOUS
  <1>. QED
    BY NullsAssumption
    DEF Init, QueueInit, OwnInv, NamesOwn, RowsNamed, TargetsNamed, CloneNamed,
        PanelAgrees, Live, NoRow

\* What a job does to the guest its row names: the guest keeps its owner or is gone, and
\* is only halted behind the back of a row that says running.
GuestAct(i, g) ==
    /\ i = vms[me].vmid /\ i \in Vmids /\ Exists(i)
    /\ guests' = [guests EXCEPT ![i] = g]
    /\ g.past = guests[i].past /\ (g.state = "none" \/ g.owner = guests[i].owner)
    /\ vms[me].status \in Transient \/ (vms[me].status = "running" /\ g.state = "halted")

ActsOnGuest == StartGuest \/ MakeUnique \/ StopBeforeErase \/ Erase \/ PostPower

LEMMA GuestActs ==
    ASSUME PanelInv, LifeInv, ActsOnGuest
    PROVE  /\ UNCHANGED <<queueVars, rowVars>> /\ me' = me
           /\ pc = "running" /\ body'.step \notin {"record", "waitclone"}
           /\ guests' = guests \/ \E g : GuestAct(vms[me].vmid, g)
  <1>0. pc = "running"
    BY DEF ActsOnGuest, StartGuest, MakeUnique, StopBeforeErase, Erase, PostPower, At
  <1>1. /\ vms[me].vmid \in Vmids \cup {NoVmid} /\ guests \in [Vmids -> Guests]
        /\ body \in Bodies
    BY <1>0, InBodyTypes
  <1>. DEFINE i == vms[me].vmid
              Kept(g) == g.past = guests[i].past
                            /\ (g.state = "none" \/ g.owner = guests[i].owner)
  <1>2. ~MakeUnique => vms[me].status \in Transient
    BY <1>0 DEF LifeInv, BodyFits, StatusFits, ActsOnGuest, StartGuest, StopBeforeErase,
                Erase, PostPower, At
  <1>3. i \in Vmids
    BY <1>0 DEF LifeInv, BodyFits, GuestFits, ActsOnGuest, StartGuest, MakeUnique,
                StopBeforeErase, Erase, PostPower, HasGuest, At
  <1>4. guests[i] \in Guests
    BY <1>1, <1>3
  <1>5. ASSUME NEW possible, NEW after, NEW failed,
               NEW step \in {"waitstart", "waiterase", "waitpower"},
               Task(possible, i, after, failed, step), vms[me].status \in Transient,
               possible => Exists(i), Kept(after),
               \A g \in failed : g = guests[i] \/ (Exists(i) /\ Kept(g))
        PROVE  /\ UNCHANGED <<queueVars, rowVars>> /\ me' = me
               /\ body'.step \notin {"record", "waitclone"}
               /\ guests' = guests \/ \E g : GuestAct(i, g)
    <2>1. step \in Steps \ {"lost"}
      BY DEF Steps
    <2>2. /\ UNCHANGED <<queueVars, rowVars>> /\ me' = me
          /\ body'.step \in {step, "lost"}
          /\ \/ possible /\ guests' = [guests EXCEPT ![i] = after]
             \/ \E g \in failed : guests' = [guests EXCEPT ![i] = g]
      <3>1. Task(possible, i, after, failed, step)
        BY <1>5
      <3>2. /\ UNCHANGED <<queueVars, pc, current, jobType, jobVm, jobTarget, req, vms>>
            /\ me' = me /\ body'.step \in {step, "lost"}
            /\ \/ possible /\ guests' = [guests EXCEPT ![i] = after]
               \/ \E g \in failed : guests' = [guests EXCEPT ![i] = g]
        BY <1>0, <2>1, <3>1, TaskFacts
      <3>. QED  BY <3>2 DEF rowVars
    <2>3. [guests EXCEPT ![i] = guests[i]] = guests
      BY <1>1
    <2>. QED  BY <1>3, <1>5, <2>2, <2>3 DEF GuestAct
  <1>6. CASE StartGuest
    <2>. DEFINE a == [guests[i] EXCEPT !.state = "running"]
    <2>1. Kept(a)
      BY <1>4 DEF Guests
    <2>2. Task(Off(i), i, a, {guests[i]}, "waitstart")
      BY <1>6 DEF StartGuest
    <2>3. ~MakeUnique
      BY <1>6 DEF StartGuest, MakeUnique, At
    <2>. HIDE DEF a
    <2>. QED  BY <1>0, <1>2, <1>5, <2>1, <2>2, <2>3 DEF Exists
  <1>7. CASE MakeUnique
    <2>1. /\ UNCHANGED <<queueVars, rowVars>> /\ body' = [body EXCEPT !.step = "waituniq"]
          /\ body.step = "uniq"
          /\ guests' = guests \/ guests' = [guests EXCEPT ![i].state = "halted"]
      BY <1>7 DEF MakeUnique, Goto, InBody, At
    <2>2. me' = me /\ body'.step = "waituniq"
      BY <1>1, <2>1 DEF me, queueVars, rowVars, Bodies
    <2>3. vms[me].status = "running" /\ Exists(i)
      BY <1>0, <2>1 DEF LifeInv, BodyFits, StatusFits, GuestFits, Exists
    <2>. DEFINE a == [guests[i] EXCEPT !.state = "halted"]
    <2>4. a.state = "halted" /\ Kept(a)
      BY <1>4 DEF Guests
    <2>5. guests' = guests \/ guests' = [guests EXCEPT ![i] = a]
      BY <2>1
    <2>. HIDE DEF a
    <2>6. guests' = guests \/ GuestAct(i, a)
      BY <1>3, <2>3, <2>4, <2>5 DEF GuestAct
    <2>. QED  BY <1>0, <2>1, <2>2, <2>6
  <1>8. CASE StopBeforeErase
    <2>1. /\ UNCHANGED <<queueVars, rowVars>> /\ body' = [body EXCEPT !.step = "erase"]
          /\ body.step = "destroy" /\ Exists(i)
          /\ guests' = guests \/ guests' = [guests EXCEPT ![i].state = "stopped"]
      BY <1>8 DEF StopBeforeErase, Goto, InBody, HasGuest, At
    <2>2. me' = me /\ body'.step = "erase"
      BY <1>1, <2>1 DEF me, queueVars, rowVars, Bodies
    <2>3. vms[me].status \in Transient
      BY <1>0, <2>1 DEF LifeInv, BodyFits, StatusFits
    <2>. DEFINE a == [guests[i] EXCEPT !.state = "stopped"]
    <2>4. Kept(a)
      BY <1>4 DEF Guests
    <2>5. guests' = guests \/ guests' = [guests EXCEPT ![i] = a]
      BY <2>1
    <2>. HIDE DEF a
    <2>6. guests' = guests \/ GuestAct(i, a)
      BY <1>3, <2>1, <2>3, <2>4, <2>5 DEF GuestAct
    <2>. QED  BY <1>0, <2>1, <2>2, <2>6
  <1>9. CASE Erase
    <2>1. Kept(Erasure(i))
      BY <1>4 DEF Guests, Erasure
    <2>2. Task(Off(i), i, Erasure(i), {guests[i]}, "waiterase")
      BY <1>9 DEF Erase
    <2>3. ~MakeUnique
      BY <1>9 DEF Erase, MakeUnique, At
    <2>. QED  BY <1>0, <1>2, <1>5, <2>1, <2>2, <2>3 DEF Exists
  <1>10. CASE PostPower
    <2>. DEFINE t == jobType[current]
                on == [guests[i] EXCEPT !.state = "running"]
                off == [guests[i] EXCEPT !.state = "stopped"]
                a == IF t = "stop_vm" THEN off ELSE on
                failed == {guests[i]} \cup (IF t = "reboot_vm" THEN {off} ELSE {})
                ok == IF t = "start_vm" THEN Off(i) ELSE guests[i].state = "running"
    <2>1. Exists(i)
      BY <1>10 DEF PostPower, HasGuest
    <2>2. Kept(on) /\ Kept(off)
      BY <1>4 DEF Guests
    <2>3. Task(ok, i, a, failed, "waitpower")
      BY <1>10 DEF PostPower
    <2>4. ~MakeUnique
      BY <1>10 DEF PostPower, MakeUnique, At
    <2>. HIDE DEF on, off
    <2>5. Kept(a) /\ \A g \in failed : g = guests[i] \/ Kept(g)
      BY <2>2
    <2>. HIDE DEF a, ok, failed, Kept
    <2>. QED  BY <1>0, <1>2, <1>5, <2>1, <2>3, <2>4, <2>5
  <1>. QED  BY <1>6, <1>7, <1>8, <1>9, <1>10 DEF ActsOnGuest

\* A clone gets a VMID that no guest has, and adds its row to those that had it.
LEMMA CloneFacts ==
    ASSUME PanelInv, LifeInv, Clone
    PROVE  /\ UNCHANGED <<queueVars, rowVars>> /\ me' = me /\ me \in VMs
           /\ vms[me].status \in Transient
           /\ \E i \in Vmids : \E g :
                 /\ ~Exists(i) /\ body'.newid = i
                 /\ guests' = [guests EXCEPT ![i] = g]
                 /\ g.past = guests[i].past \cup {me}
                 /\ g.state = "none" \/ g.owner = me
  <1>0. pc = "running" /\ vms[me].status \in Transient
    BY DEF Clone, At, LifeInv, BodyFits, StatusFits
  <1>1. me \in VMs
    BY <1>0, InBodyTypes
  <1>. DEFINE Kept(i, g) == g.past = guests[i].past \cup {me}
                               /\ (g.state = "none" \/ g.owner = me)
              No(i) == [Cloned(i, "none") EXCEPT !.owner = NoVm]
  <1>2. PICK i \in NextIds : Task(TRUE, i, Cloned(i, "stopped"), {No(i)}, "record")
    BY DEF Clone
  <1>3. i \in Vmids /\ ~Exists(i)
    BY DEF NextIds
  <1>4. Kept(i, Cloned(i, "stopped")) /\ Kept(i, No(i))
    BY DEF Cloned
  <1>. HIDE DEF No
  <1>5. guests' = [guests EXCEPT ![i] = Cloned(i, "stopped")]
           \/ guests' = [guests EXCEPT ![i] = No(i)]
    BY <1>2 DEF Task
  <1>6. UNCHANGED <<queueVars, rowVars>> /\ me' = me
    BY <1>2 DEF Task, InBody, me, queueVars, rowVars
  <1>7. body'.newid = i
    BY <1>0, <1>2, InBodyTypes DEF Task, Bodies
  <1>. QED  BY <1>0, <1>1, <1>3, <1>4, <1>5, <1>6, <1>7

\* The steps of a body that call nothing which changes a guest.
LEMMA OtherBodySteps ==
    ASSUME BodyStep, ~Clone, ~ActsOnGuest
    PROVE  guests' = guests
  BY DEF ActsOnGuest, BodyStep, ProvisionStep, DestroyStep, PowerStep, Provision, RecordTarget,
         CloneDone, Configure, GuestStarted, GotIp, NoIp, MadeUnique, BeginReinstall,
         BeginDelete, NothingToDestroy, Erased, FinishDelete, WipeRow, BeginPower,
         Stopped, PoweredOn, PowerIp, CheckSsh, Commit, CommitRow

LEMMA OwnInvInductive ==
    ASSUME PanelInv, LifeInv, OwnInv, [Next]_vars
    PROVE  OwnInv'
  <1>0. /\ vms \in [VMs -> VMRows] /\ jobVm \in [Jobs -> VMs \cup {NoVm}]
        /\ jobTarget \in [Jobs -> Vmids \cup {NoVmid}] /\ guests \in [Vmids -> Guests]
        /\ jobStatus \in [Jobs -> JobStatuses] /\ NoVmid \notin Vmids
    BY NullsAssumption DEF PanelInv, TypeOK, QueueTypeOK
  <1>. USE DEF OwnInv, NamesOwn
  <1>1. CASE Clone
    <2>0. PICK i \in Vmids : \E g :
             /\ ~Exists(i) /\ body'.newid = i
             /\ guests' = [guests EXCEPT ![i] = g]
             /\ g.past = guests[i].past \cup {me}
      BY <1>1, CloneFacts
    <2>1. PICK g : /\ ~Exists(i) /\ body'.newid = i
                   /\ guests' = [guests EXCEPT ![i] = g]
                   /\ g.past = guests[i].past \cup {me}
      BY <2>0
    <2>2. UNCHANGED <<queueVars, rowVars>> /\ me' = me /\ vms[me].status \in Transient
      BY <1>1, CloneFacts
    <2>3. \A k \in Vmids : guests[k].past \subseteq guests'[k].past
      BY <1>0, <2>1
    <2>4. me \in guests'[i].past
      BY <1>0, <2>1
    <2>5. RowsNamed' /\ TargetsNamed'
      BY <2>2, <2>3 DEF RowsNamed, TargetsNamed, rowVars, queueVars
    <2>6. CloneNamed'
      BY <2>1, <2>2, <2>4 DEF CloneNamed
    <2>7. PanelAgrees'
      <3>. SUFFICES ASSUME NEW v \in VMs, Live(v), vms[v].status \in {"running", "stopped"}
                    PROVE  /\ vms[v].vmid # NoVmid
                           /\ guests'[vms[v].vmid].past = {v} =>
                                 Matches(vms[v].vmid, vms[v].status)'
        BY <2>2 DEF PanelAgrees, Live, rowVars, Matches
      <3>1. /\ vms[v].vmid # NoVmid
            /\ guests[vms[v].vmid].past = {v} => Matches(vms[v].vmid, vms[v].status)
        BY DEF PanelAgrees
      <3>2. v # me
        BY <2>2 DEF Transient
      <3>3. vms[v].vmid \in Vmids
        BY <1>0, <3>1 DEF VMRows
      <3>. QED  BY <1>0, <2>1, <2>2, <2>4, <3>1, <3>2, <3>3 DEF Matches, rowVars
    <2>. QED  BY <2>5, <2>6, <2>7
  <1>2. CASE ActsOnGuest
    <2>1. /\ UNCHANGED <<queueVars, rowVars>> /\ me' = me /\ pc = "running" /\ me \in VMs
          /\ body'.step \notin {"record", "waitclone"}
      BY <1>2, GuestActs, InBodyTypes
    <2>2. CASE guests' = guests
      BY <2>1, <2>2
      DEF RowsNamed, TargetsNamed, CloneNamed, PanelAgrees, Matches, Live, rowVars, queueVars
    <2>3. ASSUME NEW g, GuestAct(vms[me].vmid, g)
          PROVE  OwnInv'
      <3>. DEFINE i == vms[me].vmid
      <3>1. /\ i \in Vmids /\ guests' = [guests EXCEPT ![i] = g]
            /\ g.past = guests[i].past
            /\ vms[me].status \in Transient
                  \/ (vms[me].status = "running" /\ g.state = "halted")
        BY <2>3 DEF GuestAct
      <3>2. \A k \in Vmids : guests'[k].past = guests[k].past
        BY <1>0, <3>1
      <3>3. RowsNamed' /\ TargetsNamed' /\ CloneNamed'
        BY <2>1, <3>2 DEF RowsNamed, TargetsNamed, CloneNamed, rowVars, queueVars
      <3>4. me \in guests[i].past
        BY <2>1, <3>1 DEF RowsNamed
      <3>5. PanelAgrees'
        <4>. SUFFICES ASSUME NEW v \in VMs, Live(v), vms[v].status \in {"running", "stopped"}
                      PROVE  /\ vms[v].vmid # NoVmid
                             /\ guests'[vms[v].vmid].past = {v} =>
                                   Matches(vms[v].vmid, vms[v].status)'
          BY <2>1 DEF PanelAgrees, Live, rowVars, Matches
        <4>1. /\ vms[v].vmid # NoVmid /\ vms[v].vmid \in Vmids
              /\ guests[vms[v].vmid].past = {v} => Matches(vms[v].vmid, vms[v].status)
          BY <1>0 DEF PanelAgrees, VMRows
        <4>2. CASE vms[v].vmid # i
          BY <1>0, <2>1, <3>1, <4>1, <4>2 DEF Matches, rowVars
        <4>3. CASE vms[v].vmid = i /\ v = me
          BY <1>0, <2>1, <3>1, <4>1, <4>3 DEF Matches, Transient, rowVars
        <4>4. CASE vms[v].vmid = i /\ v # me
          BY <3>2, <3>4, <4>1, <4>4
        <4>. QED  BY <4>2, <4>3, <4>4
      <3>. QED  BY <3>3, <3>5
    <2>. QED  BY <1>2, <2>2, <2>3, GuestActs
  <1>3. CASE BodyStep /\ ~Clone /\ ~ActsOnGuest
    <2>1. BodyPost /\ guests' = guests
      BY <1>3, StepFitsBody, OtherBodySteps DEF LifeInv
    <2>2. pc = "running"
      BY <1>3
      DEF ActsOnGuest, BodyStep, ProvisionStep, DestroyStep, PowerStep, Provision, RecordTarget,
          CloneDone, Configure, GuestStarted, GotIp, NoIp, MadeUnique, BeginReinstall,
          BeginDelete, NothingToDestroy, Erased, FinishDelete, WipeRow, BeginPower,
          Stopped, PoweredOn, PowerIp, CheckSsh, At
    <2>3. /\ me \in VMs /\ current \in Jobs /\ jobStatus[current] # "none" /\ jobVm[current] = me
          /\ UNCHANGED <<pc, current, jobStatus, jobVm>> /\ me' = me
      BY <2>1, <2>2, CurrentHasRow DEF BodyPost, queueVars, Born, me
    <2>4. RowsNamed'
      <3>1. vms'[me].vmid \in Vmids => me \in guests[vms'[me].vmid].past
        BY <1>0, <2>1, <2>2, <2>3 DEF BodyPost, GuestStep, RowsNamed, CloneNamed
      <3>. QED  BY <2>1, <2>3, <3>1 DEF BodyPost, RowStep, RowsNamed
    <2>5. body'.step \in {"record", "waitclone"} =>
             body.step = "record" /\ body'.newid = body.newid
      <3>1. CASE RecordTarget
        <4>1. body \in Bodies
          BY <2>2, InBodyTypes
        <4>. QED  BY <3>1, <4>1 DEF RecordTarget, At, Goto, Bodies
      <3>2. CASE ~RecordTarget
        <4>1. body'.step \notin {"record", "waitclone"}
          <5>1. \A row, s, step : CommitRow(row, s, step) => body'.step = step
            BY <2>2, InBodyTypes DEF CommitRow, Bodies
          <5>2. NothingToDestroy => body'.step \in {"deleted", "wiped"}
            BY <2>2, InBodyTypes DEF NothingToDestroy, AfterDestroy, Bodies
          <5>. QED
            BY <1>3, <2>2, <3>2, <5>1, <5>2
            DEF ActsOnGuest, BodyStep, ProvisionStep, DestroyStep, PowerStep, Provision,
                CloneDone, Configure, GuestStarted, GotIp, NoIp, MadeUnique, BeginReinstall,
                BeginDelete, Erased, FinishDelete, WipeRow, BeginPower,
                Stopped, PoweredOn, PowerIp, CheckSsh, Commit, AfterDestroy
        <4>. QED  BY <4>1
      <3>. QED  BY <3>1, <3>2
    <2>6. TargetsNamed'
      <3>1. CASE RecordTarget
        <4>1. /\ jobTarget' = [jobTarget EXCEPT ![current] = body.newid]
              /\ body.step = "record"
          BY <3>1 DEF RecordTarget, At
        <4>. QED
          BY <1>0, <2>1, <2>2, <2>3, <4>1 DEF TargetsNamed, CloneNamed
      <3>2. CASE ~RecordTarget
        <4>1. jobTarget' = jobTarget
          BY <1>3, <3>2
          DEF ActsOnGuest, BodyStep, ProvisionStep, DestroyStep, PowerStep, Provision,
              CloneDone, Configure, GuestStarted, GotIp, NoIp, MadeUnique, BeginReinstall,
              BeginDelete, NothingToDestroy, Erased, FinishDelete, WipeRow, BeginPower,
              Stopped, PoweredOn, PowerIp, CheckSsh, Commit, CommitRow
        <4>. QED  BY <2>1, <2>3, <4>1 DEF TargetsNamed
      <3>. QED  BY <3>1, <3>2
    <2>7. CloneNamed'
      BY <2>1, <2>2, <2>3, <2>5 DEF CloneNamed
    <2>8. PanelAgrees'
      <3>. SUFFICES ASSUME NEW v \in VMs, Live(v)', vms'[v].status \in {"running", "stopped"}
                    PROVE  /\ vms'[v].vmid # NoVmid
                           /\ guests'[vms'[v].vmid].past = {v} =>
                                 Matches(vms[v].vmid, vms[v].status)'
        BY DEF PanelAgrees
      <3>1. CASE v # me \/ vms'[v].status = vms[v].status
        <4>1. /\ vms'[v].status = vms[v].status /\ vms'[v].vmid = vms[v].vmid
          BY <2>1, <2>3, <3>1 DEF BodyPost, RowStep, GuestStep
        <4>2. Live(v)
          <5>1. RowsKept
            BY <1>3, BodyKeeps DEF BodyKept
          <5>. QED  BY <4>1, <5>1 DEF Live, RowsKept
        <4>. QED  BY <2>1, <4>1, <4>2 DEF PanelAgrees, Matches
      <3>2. CASE v = me /\ vms'[v].status # vms[v].status
        <4>1. /\ vms'[v].vmid = vms[v].vmid /\ vms[v].vmid \in Vmids
              /\ guests[vms[v].vmid].state = vms'[v].status
          BY <2>1, <3>2 DEF BodyPost, GuestStep
        <4>. QED  BY <1>0, <2>1, <4>1 DEF Matches
      <3>. QED  BY <3>1, <3>2
    <2>. QED  BY <2>4, <2>6, <2>7, <2>8
  <1>4. CASE ~BodyStep
    <2>1. ElsewhereStep
      BY <1>4, ElsewhereSteps
    <2>2. RowsNamed'
      <3>1. ASSUME NEW v \in VMs, vms'[v].vmid \in Vmids
            PROVE  v \in guests[vms'[v].vmid].past
        <4>1. CASE vms'[v].vmid \in Adopted(v)
          BY <3>1, <4>1 DEF Adopted, TargetsNamed
        <4>. QED
          BY <1>0, <2>1, <3>1, <4>1 DEF ElsewhereStep, RowsNamed
      <3>. QED  BY <2>1, <3>1 DEF ElsewhereStep, RowsNamed
    <2>3. TargetsNamed'
      BY <2>1 DEF ElsewhereStep, TargetsNamed
    <2>4. CloneNamed'
      <3>. SUFFICES ASSUME pc' = "running", body'.step \in {"record", "waitclone"}
                    PROVE  me' \in guests'[body'.newid].past
        BY DEF CloneNamed
      <3>1. UNCHANGED <<pc, current, body>>
        BY <2>1 DEF ElsewhereStep
      <3>2. me' = me
        BY <2>1, <3>1, CurrentHasRow DEF ElsewhereStep, me
      <3>. QED
        BY <2>1, <3>1, <3>2 DEF ElsewhereStep, CloneNamed
    <2>5. PanelAgrees'
      <3>. SUFFICES ASSUME NEW v \in VMs, Live(v)', vms'[v].status \in {"running", "stopped"}
                    PROVE  /\ vms'[v].vmid # NoVmid
                           /\ guests'[vms'[v].vmid].past = {v} =>
                                 Matches(vms[v].vmid, vms[v].status)'
        BY DEF PanelAgrees
      <3>1. vms'[v].status = vms[v].status /\ vms[v].status # "none"
        BY <2>1 DEF ElsewhereStep, Live
      <3>2. Live(v)
        BY <2>1, <3>1 DEF Live, ElsewhereStep
      <3>3. /\ vms[v].vmid # NoVmid
            /\ guests[vms[v].vmid].past = {v} => Matches(vms[v].vmid, vms[v].status)
        BY <3>1, <3>2 DEF PanelAgrees
      <3>4. vms'[v].vmid = vms[v].vmid
        BY <2>1, <3>3 DEF ElsewhereStep
      <3>. QED
        BY <2>1, <3>1, <3>3, <3>4 DEF Matches, ElsewhereStep
    <2>. QED  BY <2>2, <2>3, <2>4, <2>5
  <1>. QED  BY <1>1, <1>2, <1>3, <1>4

LEMMA OwnInvariant == Spec => [](PanelInv /\ LifeInv /\ OwnInv)
  <1>1. PanelInv /\ LifeInv /\ OwnInv /\ [Next]_vars => OwnInv'
    BY OwnInvInductive
  <1>. QED  BY <1>1, OwnInit, LifeInvariant, PTL DEF Spec

\* A VM shown as running or stopped whose VMID was handed out for no other row has a guest
\* that is, or was halted by the reboot that ends its provisioning, for any number of VMs,
\* jobs, failures and crashes (power_job, provision_vm_from_template).
THEOREM SettledRowsAgree == Spec => []PanelAgrees
  <1>1. OwnInv => PanelAgrees
    BY DEF OwnInv
  <1>. QED  BY <1>1, OwnInvariant, PTL

\* A job changes or destroys only guests whose VMID was once handed out for its own row,
\* the one a restart adopted for it included, and although the cluster reuses VMIDs
\* (destroy_existing_vm, power_job, _adopt_target_vmid).
THEOREM OnlyOwnGuests == Spec => OwnGuestOnly
  <1>1. PanelInv /\ LifeInv /\ OwnInv /\ [Next]_vars => [OwnGuestStep]_vars
    <2>. SUFFICES ASSUME PanelInv, LifeInv, OwnInv, [Next]_vars,
                         NEW i \in Vmids, Exists(i), guests'[i] # guests[i]
                  PROVE  me \in guests[i].past
      BY DEF OwnGuestStep
    <2>0. guests \in [Vmids -> Guests]
      BY DEF PanelInv, TypeOK
    <2>1. CASE Clone
      <3>1. PICK k \in Vmids : ~Exists(k) /\ \E g : guests' = [guests EXCEPT ![k] = g]
        BY <2>1, CloneFacts
      <3>. QED  BY <2>0, <3>1
    <2>2. CASE ActsOnGuest
      <3>1. PICK g : GuestAct(vms[me].vmid, g)
        BY <2>2, GuestActs
      <3>2. i = vms[me].vmid /\ me \in VMs
        BY <2>0, <2>2, <3>1, GuestActs, InBodyTypes DEF GuestAct
      <3>. QED  BY <3>2 DEF OwnInv, NamesOwn, RowsNamed
    <2>3. CASE BodyStep /\ ~Clone /\ ~ActsOnGuest
      BY <2>3, OtherBodySteps
    <2>4. CASE ~BodyStep
      BY <2>4, ElsewhereSteps DEF ElsewhereStep
    <2>. QED  BY <2>1, <2>2, <2>3, <2>4
  <1>. QED  BY <1>1, OwnInvariant, PTL DEF Spec, OwnGuestOnly

-----------------------------------------------------------------------------
(* ssh_status and the address.                                             *)

Destroying == {"destroy", "erase", "waiterase", "wiped"}

\* The body's copy of ssh_status is the row's value, unless a handler has written pending
\* since; and a reinstall starts to destroy the old machine with a copy of pending.
SshFits ==
    /\ pc \in {"loaded", "running"} => vms[me].ssh \in {body.ssh, "pending"}
    /\ pc = "running" /\ jobType[current] = "reinstall_vm" /\ body.step \in Destroying
          => body.ssh = "pending"

SshInv == SshFits /\ ReadyHasIp

LEMMA SshCommits ==
    ASSUME PanelInv, SshInv, pc = "running",
           NEW row \in VMRows, NEW s \in SSHStatuses, NEW step \in Steps,
           CommitRow(row, s, step),
           s # "ready" \/ row.ip \/ (s = body.ssh /\ row.ip = vms[me].ip),
           jobType[current] = "reinstall_vm" /\ step \in Destroying => s = "pending"
    PROVE  SshInv'
  <1>1. /\ UNCHANGED <<pc, current, jobType>> /\ me' = me /\ me \in VMs
        /\ \A v \in VMs \ {me} : vms'[v] = vms[v]
        /\ vms'[me].ip = row.ip
        /\ vms'[me].ssh = IF body.ssh = s THEN vms[me].ssh ELSE s
        /\ body'.step = step /\ body'.ssh = s
    BY CommitFacts, InBodyTypes
  <1>2. vms[me].ssh \in {body.ssh, "pending"}
    BY DEF SshInv, SshFits
  <1>3. SshFits'
    BY <1>1, <1>2 DEF SshFits
  <1>4. vms'[me].ssh = "ready" => vms'[me].ip
    BY <1>1, <1>2 DEF SshInv, ReadyHasIp
  <1>5. ReadyHasIp'
    BY <1>1, <1>4 DEF SshInv, ReadyHasIp
  <1>. QED  BY <1>3, <1>5 DEF SshInv

\* A step that writes no row, and goes on with the destruction if it was under way.
LEMMA SshKept ==
    ASSUME PanelInv, SshInv, pc = "running",
           UNCHANGED <<pc, current, jobType, jobVm, vms>>, body'.ssh = body.ssh,
           body'.step \in Destroying => body.step \in Destroying
    PROVE  SshInv'
  <1>1. me' = me
    BY DEF me
  <1>. QED  BY <1>1 DEF SshInv, SshFits, ReadyHasIp

LEMMA SshTask ==
    ASSUME PanelInv, SshInv, pc = "running", NEW possible, NEW i, NEW after, NEW failed,
           NEW step \in Steps \ {"lost"}, Task(possible, i, after, failed, step),
           step \in Destroying => body.step \in Destroying
    PROVE  SshInv'
  <1>1. /\ UNCHANGED <<pc, current, jobType, jobVm, vms>>
        /\ body'.step \in {step, "lost"} /\ body'.ssh = body.ssh
    BY TaskFacts
  <1>. QED  BY <1>1, SshKept DEF Destroying

LEMMA SshBody ==
    ASSUME PanelInv, BodyFits, SshInv, BodyStep
    PROVE  SshInv'
  <1>. USE DEF At
  <1>0. pc = "running"
    BY DEF BodyStep, ProvisionStep, DestroyStep, PowerStep, Provision, Clone,
           RecordTarget, CloneDone, Configure, StartGuest, GuestStarted, GotIp,
           NoIp, MakeUnique, MadeUnique, BeginReinstall, BeginDelete, NothingToDestroy,
           StopBeforeErase, Erase, Erased, FinishDelete, WipeRow, BeginPower,
           PostPower, Stopped, PoweredOn, PowerIp, CheckSsh
  <1>1. /\ body \in Bodies /\ vms[me] \in VMRows /\ body.ssh \in SSHStatuses
        /\ vms[me].vmid \in Vmids \cup {NoVmid}
    BY <1>0, InBodyTypes
  <1>2. CASE ProvisionStep
    <2>1. CASE Provision \/ NoIp
      BY <1>0, <1>1, <2>1, SshCommits DEF Provision, NoIp, SSHStatuses, Steps, Destroying
    <2>2. CASE Clone \/ StartGuest
      <3>1. PICK step \in {"record", "waitstart"} :
               \E possible, i, after, failed : Task(possible, i, after, failed, step)
        BY <2>2, Zenon DEF Clone, StartGuest
      <3>. QED  BY <1>0, <3>1, SshTask DEF Steps, Destroying
    <2>3. CASE RecordTarget \/ MakeUnique
      BY <1>0, <1>1, <2>3, SshKept
      DEF RecordTarget, MakeUnique, Goto, InBody, queueVars, rowVars, Bodies, Destroying
    <2>4. CASE CloneDone
      <3>. DEFINE row == [vms[me] EXCEPT !.vmid = body.newid, !.status = "provisioning"]
      <3>1. row \in VMRows /\ row.ip = vms[me].ip
        BY <1>0, <1>1, <2>4 DEF CloneDone, BodyFits, GuestFits, VMRows, VMStatuses
      <3>2. CommitRow(row, body.ssh, "configure")
        BY <2>4 DEF CloneDone, Commit
      <3>. HIDE DEF row
      <3>. QED  BY <1>0, <1>1, <3>1, <3>2, SshCommits DEF Steps, Destroying
    <2>5. CASE Configure \/ MadeUnique
      BY <1>0, <1>1, <2>5, SshCommits DEF Configure, MadeUnique, Commit, Steps, Destroying
    <2>6. CASE GuestStarted \/ GotIp
      <3>1. PICK row \in VMRows, step \in {"waitip", "uniq"} :
               CommitRow(row, body.ssh, step) /\ (row.ip \/ row.ip = vms[me].ip)
        <4>1. [vms[me] EXCEPT !.status = "running"] \in VMRows
              /\ [vms[me] EXCEPT !.status = "running"].ip = vms[me].ip
              /\ [vms[me] EXCEPT !.ip = TRUE] \in VMRows
              /\ [vms[me] EXCEPT !.ip = TRUE].ip
          BY <1>1 DEF VMRows, VMStatuses
        <4>. QED  BY <2>6, <4>1 DEF GuestStarted, GotIp, Commit
      <3>. QED  BY <1>0, <1>1, <3>1, SshCommits DEF Steps, Destroying
    <2>. QED
      BY <1>2, <2>1, <2>2, <2>3, <2>4, <2>5, <2>6 DEF ProvisionStep
  <1>3. CASE DestroyStep
    <2>1. CASE BeginReinstall \/ BeginDelete
      <3>. DEFINE row == [vms[me] EXCEPT !.status = "deleting"]
      <3>1. row \in VMRows /\ row.ip = vms[me].ip
        BY <1>1 DEF VMRows, VMStatuses
      <3>2. \/ CommitRow(row, "pending", "destroy")
            \/ CommitRow(row, body.ssh, "destroy") /\ jobType[current] = "delete_vm"
        BY <1>0, <2>1 DEF BeginReinstall, BeginDelete, Commit, BodyFits, StepFits
      <3>. HIDE DEF row
      <3>. QED  BY <1>0, <1>1, <3>1, <3>2, SshCommits DEF Steps, SSHStatuses
    <2>7. CASE NothingToDestroy
      <3>1. body'.ssh = body.ssh /\ body.step = "destroy"
        BY <1>1, <2>7 DEF NothingToDestroy, Bodies
      <3>. QED  BY <1>0, <2>7, <3>1, SshKept DEF NothingToDestroy, InBody, queueVars, Destroying
    <2>2. CASE Erased
      <3>1. CommitRow(vms[me], body.ssh, AfterDestroy) /\ AfterDestroy \in Steps
            /\ body.step \in Destroying
        BY <2>2 DEF Erased, Commit, AfterDestroy, Steps, Destroying
      <3>2. jobType[current] = "reinstall_vm" => body.ssh = "pending"
        BY <1>0, <3>1 DEF SshInv, SshFits
      <3>. QED  BY <1>0, <1>1, <3>1, <3>2, SshCommits
    <2>3. CASE StopBeforeErase
      BY <1>0, <1>1, <2>3, SshKept
      DEF StopBeforeErase, Goto, InBody, queueVars, rowVars, Bodies, Destroying
    <2>4. CASE Erase
      BY <1>0, <2>4, SshTask DEF Erase, Steps, Destroying
    <2>5. CASE FinishDelete
      <3>. DEFINE row == [vms[me] EXCEPT !.status = "deleted", !.deleted = TRUE]
      <3>1. row \in VMRows /\ row.ip = vms[me].ip
        BY <1>1 DEF VMRows, VMStatuses
      <3>2. CommitRow(row, body.ssh, "done")
        BY <2>5 DEF FinishDelete, Commit
      <3>. HIDE DEF row
      <3>. QED  BY <1>0, <1>1, <3>1, <3>2, SshCommits DEF Steps, Destroying
    <2>6. CASE WipeRow
      <3>. DEFINE row == [vms[me] EXCEPT !.vmid = NoVmid, !.ip = FALSE,
                                         !.status = "provisioning"]
      <3>1. row \in VMRows
        BY <1>1 DEF VMRows, VMStatuses
      <3>2. CommitRow(row, body.ssh, "provision") /\ body.step = "wiped"
        BY <2>6 DEF WipeRow, Commit
      <3>3. body.ssh = "pending"
        BY <1>0, <3>2 DEF BodyFits, StepFits, SshInv, SshFits, Destroying
      <3>. HIDE DEF row
      <3>. QED  BY <1>0, <1>1, <3>1, <3>2, <3>3, SshCommits DEF Steps, Destroying
    <2>. QED  BY <1>3, <2>1, <2>2, <2>3, <2>4, <2>5, <2>6, <2>7 DEF DestroyStep
  <1>4. CASE PowerStep
    <2>1. CASE BeginPower
      <3>. DEFINE t == PowerTransient(jobType[current])
                  row == [vms[me] EXCEPT !.status = t]
      <3>1. t \in VMStatuses
        BY DEF PowerTransient, VMStatuses
      <3>2. row \in VMRows /\ row.ip = vms[me].ip
        BY <1>1, <3>1 DEF VMRows
      <3>3. \E s \in {"pending", body.ssh} : CommitRow(row, s, "post")
        BY <2>1 DEF BeginPower
      <3>. HIDE DEF row
      <3>. QED  BY <1>0, <1>1, <3>2, <3>3, SshCommits DEF Steps, SSHStatuses, Destroying
    <2>2. CASE PostPower
      <3>1. PICK possible, i, after, failed :
               Task(possible, i, after, failed, "waitpower")
        BY <2>2 DEF PostPower
      <3>. QED  BY <1>0, <3>1, SshTask DEF Steps, Destroying
    <2>3. CASE Stopped \/ PoweredOn \/ PowerIp
      <3>1. PICK row \in VMRows, s \in {body.ssh, "failed"}, step \in {"done", "powerip"} :
               CommitRow(row, s, step) /\ (row.ip \/ row.ip = vms[me].ip)
        <4>. DEFINE on == [vms[me] EXCEPT !.status = "running", !.ip = TRUE]
                    on2 == [vms[me] EXCEPT !.status = "running"]
                    off == [vms[me] EXCEPT !.status = "stopped"]
        <4>1. /\ on \in VMRows /\ on.ip
              /\ on2 \in VMRows /\ on2.ip = vms[me].ip
              /\ off \in VMRows /\ off.ip = vms[me].ip
          BY <1>1 DEF VMRows, VMStatuses
        <4>2. \/ CommitRow(on, body.ssh, "done") \/ CommitRow(on2, "failed", "done")
              \/ CommitRow(off, body.ssh, "done") \/ CommitRow(vms[me], body.ssh, "powerip")
          BY <2>3 DEF Stopped, PoweredOn, PowerIp, Commit
        <4>. HIDE DEF on, on2, off
        <4>. QED  BY <1>1, <4>1, <4>2
      <3>. QED  BY <1>0, <1>1, <3>1, SshCommits DEF Steps, SSHStatuses, Destroying
    <2>. QED  BY <1>4, <2>1, <2>2, <2>3 DEF PowerStep
  <1>5. CASE CheckSsh
    BY <1>0, <1>1, <1>5, SshCommits DEF CheckSsh, Steps, SSHStatuses, Destroying
  <1>. QED  BY <1>2, <1>3, <1>4, <1>5 DEF BodyStep

\* The other tasks: handlers write pending, and the body's copy is read when the job is
\* taken.
LEMMA SshElsewhere ==
    ASSUME PanelInv, SshInv, [Next]_vars, ~BodyStep
    PROVE  SshInv'
  <1>0. /\ vms \in [VMs -> VMRows] /\ jobVm \in [Jobs -> VMs \cup {NoVm}]
        /\ jobStatus \in [Jobs -> JobStatuses] /\ jobType \in [Jobs -> JobTypes]
        /\ body \in Bodies /\ req \in [Requests -> ReqRecords]
    BY DEF PanelInv, TypeOK, QueueTypeOK
  <1>1. pc # "idle" => current \in Jobs /\ jobStatus[current] # "none"
                       /\ me \in VMs /\ vms[me].status # "none"
    BY CurrentHasRow DEF Born
  <1>2. ASSUME NEW r \in Requests, NEW v \in VMs, NEW j \in Jobs, CommitCreate(r, v, j)
        PROVE  SshInv'
    <2>. DEFINE row == [NoRow EXCEPT !.host = req[r].host, !.status = "creating"]
    <2>1. row.ssh = "pending"
      BY DEF NoRow
    <2>2. /\ vms' = [vms EXCEPT ![v] = row] /\ vms[v].status = "none"
          /\ jobVm' = [jobVm EXCEPT ![j] = v] /\ jobStatus[j] = "none"
          /\ jobType' = [jobType EXCEPT ![j] = "create_vm"]
          /\ UNCHANGED <<pc, current, body>>
      BY <1>2 DEF CommitCreate, SubmitJob, InsertJob
    <2>. HIDE DEF row
    <2>3. pc # "idle" => me' = me /\ me # v /\ jobType'[current] = jobType[current]
      BY <1>0, <1>1, <2>2 DEF me
    <2>4. SshFits'
      BY <1>0, <1>1, <2>2, <2>3 DEF SshInv, SshFits
    <2>. QED  BY <1>0, <2>1, <2>2, <2>4 DEF SshInv, ReadyHasIp
  <1>3. CASE RecoverRows
    <2>0. PICK f : vms' = [v \in VMs |-> Recovered(v, f[v])]
      BY <1>3 DEF RecoverRows
    <2>1. pc' = pc /\ mode = "down"
      BY <1>3 DEF RecoverRows, Recover, procVars
    <2>2. pc = "idle"
      BY <2>1 DEF PanelInv, QueueInv, QuietBoot
    <2>3. \A v \in VMs : vms'[v].ssh = vms[v].ssh /\ vms'[v].ip = vms[v].ip
      BY <1>0, <2>0 DEF Recovered, VMRows
    <2>. QED  BY <2>1, <2>2, <2>3 DEF SshInv, SshFits, ReadyHasIp
  <1>4. CASE JobFails \/ CheckRetracted
    <2>1. vms' = [vms EXCEPT ![me].status = "error"] /\ pc' = "idle"
      BY <1>4 DEF JobFails, WorkerFail, CheckRetracted, WorkerRetracts
    <2>2. \A v \in VMs : vms'[v].ssh = vms[v].ssh /\ vms'[v].ip = vms[v].ip
      BY <1>0, <2>1 DEF VMRows
    <2>. QED  BY <2>1, <2>2 DEF SshInv, SshFits, ReadyHasIp
  <1>5. ASSUME NEW r \in Requests, MarkPending(r)
        PROVE  SshInv'
    <2>1. \/ UNCHANGED vms
          \/ vms' = [vms EXCEPT ![req[r].vm].ssh = "pending"]
      BY <1>5 DEF MarkPending
    <2>2. /\ UNCHANGED <<pc, current, jobType, body>> /\ me' = me
          /\ \A v \in VMs : vms'[v].ip = vms[v].ip /\ vms'[v].ssh \in {vms[v].ssh, "pending"}
      BY <1>0, <1>5, <2>1 DEF MarkPending, queueVars, me, VMRows
    <2>. QED  BY <1>1, <2>2 DEF SshInv, SshFits, ReadyHasIp
  <1>6. ASSUME NEW j \in Jobs, (\E r \in Requests : CommitJob(r, j)) \/ SubmitCheck(j)
        PROVE  SshInv'
    <2>1. /\ UNCHANGED <<vms, body>> /\ jobStatus[j] = "none"
          /\ \E t : jobType' = [jobType EXCEPT ![j] = t]
          /\ \E u : jobVm' = [jobVm EXCEPT ![j] = u]
          /\ UNCHANGED <<pc, current>> \/ pc' = "put"
      BY <1>6 DEF CommitJob, SubmitJob, SubmitCheck, WorkerSubmitCheck, InsertJob
    <2>2. pc' \notin {"idle", "put"} => me' = me /\ jobType'[current] = jobType[current]
      BY <1>0, <1>1, <2>1 DEF me
    <2>. QED  BY <2>1, <2>2 DEF SshInv, SshFits, ReadyHasIp
  <1>7. CASE StartJob
    <2>1. /\ pc = "loaded" /\ UNCHANGED <<vms, jobVm, jobType, current>>
          /\ body' = [body EXCEPT !.step = FirstStep(jobType[current])]
      BY <1>7 DEF StartJob, WorkerStart, Goto, rowVars
    <2>2. body'.ssh = body.ssh /\ body'.step = FirstStep(jobType[current])
      BY <1>0, <2>1 DEF Bodies
    <2>3. me' = me /\ FirstStep(jobType[current]) \notin Destroying
      BY <1>0, <1>1, <2>1 DEF me, FirstStep, JobTypes, PowerTypes, Destroying
    <2>. QED  BY <2>1, <2>2, <2>3 DEF SshInv, SshFits, ReadyHasIp
  <1>8. CASE TakeJob
    <2>1. /\ UNCHANGED <<vms, jobVm>> /\ pc' = "loaded"
          /\ body'.ssh = vms[jobVm[current']].ssh
      BY <1>8 DEF TakeJob, WorkerGet, rowVars, NoBody
    <2>. QED  BY <2>1 DEF SshInv, SshFits, ReadyHasIp, me
  <1>. DEFINE Idle == /\ UNCHANGED vms
                      /\ \/ UNCHANGED <<pc, current, jobVm, jobType, body>>
                         \/ pc' \notin {"loaded", "running"}
  <1>9. Idle => SshInv'
    BY DEF SshInv, SshFits, ReadyHasIp, me
  <1>10. CASE UNCHANGED vars \/ Client
    <2>1. Idle
      BY <1>10 DEF vars, queueVars, rowVars, Client, CheckCreate, CheckRow, HandlerOnly
    <2>. QED  BY <1>9, <2>1
  <1>11. CASE \/ \E r \in Requests : LockCreate(r) \/ HandlerFails(r)
              \/ \E j \in Jobs : Enqueue(j) \/ Drop(j)
              \/ EnqueueCheck \/ JobSucceeds \/ RequeueJobs \/ ProcessDies
              \/ JobDropped \/ JobAbandoned
    <2>1. Idle
      BY <1>11 DEF LockCreate, HandlerFails, HandlerOnly, rowVars, queueVars, Enqueue,
                   EnqueueJob, EnqueueCheck, WorkerEnqueueCheck, JobSucceeds, WorkerSucceed,
                   RequeueJobs, Requeue, RequeueCommit, jobVars, procVars, ProcessDies, Crash,
                   Drop, DropJob, JobDropped, WorkerDrops, JobAbandoned, WorkerAbandons
    <2>. QED  BY <1>9, <2>1
  <1>. QED
    BY <1>2, <1>3, <1>4, <1>5, <1>6, <1>7, <1>8, <1>10, <1>11
    DEF Next, Handler, HandlerStep, Worker, Boot

\* SSH is called ready only at an address, for any number of rechecks that write the
\* column under the worker's feet: the worker's stale copy never brings back a ready that
\* a reinstall has taken away (check_ssh_ready, reinstall_vm_job, recheck_ssh).
THEOREM ReadyMachinesHaveAddress == Spec => []ReadyHasIp
  <1>1. Init => SshInv
    BY DEF Init, QueueInit, SshInv, SshFits, ReadyHasIp, NoRow
  <1>2. PanelInv /\ LifeInv /\ SshInv /\ [Next]_vars => SshInv'
    BY SshBody, SshElsewhere DEF LifeInv
  <1>3. SshInv => ReadyHasIp
    BY DEF SshInv
  <1>. QED  BY <1>1, <1>2, <1>3, LifeInvariant, PTL DEF Spec

-----------------------------------------------------------------------------
(* The guests the panel knows.                                             *)

\* Where a job that creates, reinstalls or deletes has no clone of its own yet.
Early == {"reinstall", "delete", "destroy", "erase", "waiterase", "wiped", "provision",
          "clone", "record"}

\* A job's target_vmid is recorded once, while it runs, and its row names that guest or
\* none until the job has ended: that is what makes the adoption after a crash right. Of
\* a job that an error has left running it is not so: the next one may clone again.
TargetFits ==
    \A j \in Jobs :
       /\ jobStatus[j] \in {"none", "queued"} => jobTarget[j] = NoVmid
       /\ jobStatus[j] = "running" /\ jobTarget[j] # NoVmid /\ j \notin struck =>
             vms[jobVm[j]].vmid \in {NoVmid, jobTarget[j]}

CloneFits ==
    pc = "running" =>
       /\ body.step \in {"provision", "clone", "record", "waitclone"} => vms[me].vmid = NoVmid
       /\ body.step \in Early => jobTarget[current] = NoVmid
       /\ body.step = "waitclone" => jobTarget[current] = body.newid
       /\ jobTarget[current] # NoVmid /\ body.step # "waitclone" =>
             vms[me].vmid = jobTarget[current]

OwnersFit == \A i \in Vmids : Exists(i) => guests[i].owner \in VMs

KnowInv == TargetFits /\ CloneFits /\ OwnersFit

\* RunningIsCurrent speaks of a live process only; what a start finds in the table must
\* be known too: the job the process died in, and those that an error left running.
OneUnstruck ==
    \A j, k \in Jobs \ struck : jobStatus[j] = "running" /\ jobStatus[k] = "running" => j = k

LEMMA DownKeepsJobs ==
    ASSUME [QueueNext]_queueVars, mode' = "down"
    PROVE  UNCHANGED <<jobStatus, struck>>
  BY DEF QueueNext, WorkerStep, BootStep, SubmitJob, EnqueueJob, DropJob, WorkerGet,
         WorkerStart, WorkerDrops, WorkerSucceed, WorkerFail, WorkerSubmitCheck,
         WorkerEnqueueCheck, WorkerRetracts, WorkerAbandons, Recover, Requeue,
         RequeueCommit, Crash, Serving, WorkerAlive, jobVars, queueVars

LEMMA OneUnstruckInvariant == Spec => []OneUnstruck
  <1>1. QueueInit => OneUnstruck
    BY DEF QueueInit, OneUnstruck
  <1>2. ASSUME QueueInv', OneUnstruck, [QueueNext]_queueVars
        PROVE  OneUnstruck'
    <2>1. CASE mode' = "down"
      BY <1>2, <2>1, DownKeepsJobs DEF OneUnstruck
    <2>2. CASE mode' # "down"
      BY <1>2, <2>2 DEF QueueInv, RunningIsCurrent, OneUnstruck
    <2>. QED  BY <2>1, <2>2
  <1>3. QueueInv' /\ OneUnstruck /\ [QueueNext]_queueVars => OneUnstruck'
    BY <1>2
  <1>. QED
    BY <1>1, <1>3, QueueInvInductive, LifecycleImplementsQueue, PTL DEF QueueSpec

\* The order of the steps of a body, as far as clones are concerned.
StepOrder ==
    /\ body'.step \in Early => body.step \in Early
    /\ body'.step \in {"clone", "record"} => body.step \in {"provision", "clone"}
    /\ body'.step = "provision" => vms'[me].vmid = NoVmid
    /\ body'.step = "waitclone" => RecordTarget
    /\ body.step = "waitclone" => CloneDone
    /\ body.step = "record" => RecordTarget
    /\ ~RecordTarget => jobTarget' = jobTarget

LEMMA StepOrderHolds ==
    ASSUME PanelInv, BodyStep
    PROVE  StepOrder
  <1>. USE DEF At
  <1>0. pc = "running"
    BY DEF BodyStep, ProvisionStep, DestroyStep, PowerStep, Provision, Clone,
           RecordTarget, CloneDone, Configure, StartGuest, GuestStarted, GotIp,
           NoIp, MakeUnique, MadeUnique, BeginReinstall, BeginDelete, NothingToDestroy,
           StopBeforeErase, Erase, Erased, FinishDelete, WipeRow, BeginPower,
           PostPower, Stopped, PoweredOn, PowerIp, CheckSsh
  <1>1. body \in Bodies /\ vms[me] \in VMRows /\ vms \in [VMs -> VMRows] /\ me \in VMs
    BY <1>0, InBodyTypes
  <1>2. ASSUME NEW row, NEW s, NEW step, CommitRow(row, s, step)
        PROVE  body'.step = step /\ jobTarget' = jobTarget
    BY <1>1, <1>2 DEF CommitRow, Bodies
  <1>3. ASSUME NEW possible, NEW i, NEW after, NEW failed, NEW step,
               Task(possible, i, after, failed, step)
        PROVE  body'.step \in {step, "lost"} /\ jobTarget' = jobTarget
    BY <1>1, <1>3 DEF Task, Bodies, rowVars
  <1>4. ASSUME NEW step, Goto(step)
        PROVE  body'.step = step
    BY <1>1, <1>4 DEF Goto, Bodies
  <1>5. CASE RecordTarget
    BY <1>4, <1>5 DEF RecordTarget, StepOrder, Early
  <1>6. CASE ProvisionStep /\ ~RecordTarget
    <2>1. CASE Provision \/ Clone
      <3>1. /\ jobTarget' = jobTarget
            /\ \/ body.step = "provision" /\ body'.step = "clone"
               \/ body.step = "clone" /\ body'.step \in {"record", "lost"}
        BY <1>2, <1>3, <2>1 DEF Provision, Clone
      <3>. QED  BY <1>6, <3>1 DEF StepOrder, Early
    <2>2. CASE ~(Provision \/ Clone)
      <3>1. /\ jobTarget' = jobTarget
            /\ body.step \in {"waitclone", "configure", "start", "waitstart", "waitip", "uniq",
                             "waituniq"}
            /\ body.step = "waitclone" => CloneDone
        BY <1>2, <1>3, <1>4, <1>6, <2>2
        DEF ProvisionStep, CloneDone, Configure, StartGuest, GuestStarted, GotIp, NoIp,
            MakeUnique, MadeUnique, Commit, rowVars
      <3>2. body'.step \in {"configure", "start", "waitstart", "waitip", "uniq", "waituniq",
                            "done", "lost"}
        BY <1>2, <1>3, <1>4, <1>6, <2>2
        DEF ProvisionStep, CloneDone, Configure, StartGuest, GuestStarted, GotIp, NoIp,
            MakeUnique, MadeUnique, Commit, rowVars
      <3>. QED  BY <1>6, <3>1, <3>2 DEF StepOrder, Early
    <2>. QED  BY <2>1, <2>2
  <1>7. CASE DestroyStep
    <2>1. WipeRow => vms'[me].vmid = NoVmid
      <3>. DEFINE row == [vms[me] EXCEPT !.vmid = NoVmid, !.ip = FALSE,
                                         !.status = "provisioning"]
      <3>1. row \in VMRows /\ row.vmid = NoVmid
        BY <1>1 DEF VMRows, VMStatuses
      <3>2. WipeRow => CommitRow(row, body.ssh, "provision")
        BY DEF WipeRow, Commit
      <3>. HIDE DEF row
      <3>. QED  BY <1>0, <1>1, <3>1, <3>2, CommitFacts DEF Steps, Bodies
    <2>3. NothingToDestroy => body'.step = AfterDestroy /\ jobTarget' = jobTarget
      BY <1>1 DEF NothingToDestroy, Bodies
    <2>2. /\ jobTarget' = jobTarget
          /\ body.step \in {"reinstall", "delete", "destroy", "erase", "waiterase", "wiped",
                            "deleted"}
          /\ body.step = "deleted" => body'.step = "done"
          /\ body'.step \in {"destroy", "erase", "waiterase", "wiped", "deleted", "lost",
                             "done"} \/ WipeRow
          /\ WipeRow => body'.step = "provision"
      BY <1>2, <1>3, <1>4, <1>7, <2>3
      DEF DestroyStep, BeginReinstall, BeginDelete, NothingToDestroy, StopBeforeErase,
          Erase, Erased, FinishDelete, WipeRow, Commit, AfterDestroy, rowVars
    <2>. QED  BY <2>1, <2>2 DEF StepOrder, Early
  <1>8. CASE PowerStep \/ CheckSsh
    <2>1. /\ jobTarget' = jobTarget
          /\ body.step \in {"power", "post", "waitpower", "powerip", "check"}
          /\ body'.step \in {"post", "waitpower", "powerip", "done", "lost"}
      BY <1>2, <1>3, <1>8
      DEF PowerStep, BeginPower, PostPower, Stopped, PoweredOn, PowerIp, CheckSsh, Commit
    <2>. QED  BY <2>1 DEF StepOrder, Early
  <1>. QED  BY <1>5, <1>6, <1>7, <1>8 DEF BodyStep

\* A body's step changes no guest's owner; only a clone makes one.
LEMMA OwnersKept ==
    ASSUME PanelInv, LifeInv, OwnersFit, BodyStep
    PROVE  /\ OwnersFit'
           /\ \A i \in Vmids : Exists(i) /\ Exists(i)' => guests'[i].owner = guests[i].owner
  <1>0. pc = "running"
    BY DEF BodyStep, ProvisionStep, DestroyStep, PowerStep, Provision, Clone,
           RecordTarget, CloneDone, Configure, StartGuest, GuestStarted, GotIp,
           NoIp, MakeUnique, MadeUnique, BeginReinstall, BeginDelete, NothingToDestroy,
           StopBeforeErase, Erase, Erased, FinishDelete, WipeRow, BeginPower,
           PostPower, Stopped, PoweredOn, PowerIp, CheckSsh, At
  <1>1. guests \in [Vmids -> Guests] /\ me \in VMs
    BY <1>0, InBodyTypes
  <1>2. CASE Clone
    <2>0. PICK i \in Vmids : \E g :
             /\ ~Exists(i) /\ guests' = [guests EXCEPT ![i] = g]
             /\ g.state = "none" \/ g.owner = me
      BY <1>2, CloneFacts
    <2>1. PICK g : /\ ~Exists(i) /\ guests' = [guests EXCEPT ![i] = g]
                   /\ g.state = "none" \/ g.owner = me
      BY <2>0
    <2>. QED  BY <1>1, <2>1 DEF OwnersFit, Exists, Off
  <1>3. CASE ActsOnGuest
    <2>1. guests' = guests \/ \E g : GuestAct(vms[me].vmid, g)
      BY <1>3, GuestActs
    <2>. QED  BY <1>1, <2>1 DEF GuestAct, OwnersFit, Exists, Off
  <1>4. CASE ~Clone /\ ~ActsOnGuest
    <2>1. guests' = guests
      BY <1>4, OtherBodySteps
    <2>. QED  BY <2>1 DEF OwnersFit, Exists, Off
  <1>. QED  BY <1>2, <1>3, <1>4

\* What a body's step needs to know of its own job, and keeps true: at most the row it
\* works on becomes another, and at the end of a clone the row gets the VMID recorded.
LEMMA KnowBody ==
    ASSUME PanelInv, LifeInv, KnowInv, BodyStep
    PROVE  KnowInv' /\ RememberStep
  <1>0. /\ pc = "running" /\ WorkerAlive
    BY DEF BodyStep, ProvisionStep, DestroyStep, PowerStep, Provision, Clone,
           RecordTarget, CloneDone, Configure, StartGuest, GuestStarted, GotIp,
           NoIp, MakeUnique, MadeUnique, BeginReinstall, BeginDelete, NothingToDestroy,
           StopBeforeErase, Erase, Erased, FinishDelete, WipeRow, BeginPower,
           PostPower, Stopped, PoweredOn, PowerIp, CheckSsh, At
  <1>1. RowStep /\ GuestStep /\ UNCHANGED <<queueVars, jobVm>> /\ RowsKept /\ StepOrder
    BY StepFitsBody, StepOrderHolds, BodyKeeps DEF LifeInv, BodyPost, BodyKept
  <1>2. /\ UNCHANGED <<jobStatus, jobType, pc, current, mode>> /\ me' = me
        /\ current \in Jobs /\ jobStatus[current] = "running" /\ jobVm[current] = me
        /\ me \in VMs /\ vms[me].status # "none" /\ struck' = struck
        /\ \A j \in Jobs : jobStatus[j] = "running" => j = current \/ j \in struck
    BY <1>0, <1>1, CurrentHasRow
    DEF queueVars, me, PanelInv, QueueInv, WorkerAgrees, Born, RunningIsCurrent, WorkerAlive
  <1>3. /\ jobTarget \in [Jobs -> Vmids \cup {NoVmid}] /\ NoVmid \notin Vmids
        /\ body \in Bodies /\ vms \in [VMs -> VMRows] /\ vms[me] \in VMRows
    BY <1>0, NullsAssumption, InBodyTypes DEF PanelInv, TypeOK
  <1>6. CASE RecordTarget
    <2>1. /\ UNCHANGED <<vms, guests>> /\ body.step = "record"
          /\ jobTarget' = [jobTarget EXCEPT ![current] = body.newid]
          /\ body' = [body EXCEPT !.step = "waitclone"]
      BY <1>6 DEF RecordTarget, At, Goto
    <2>2. body'.step = "waitclone" /\ body'.newid = body.newid
      BY <1>3, <2>1 DEF Bodies
    <2>3. vms[me].vmid = NoVmid /\ jobTarget[current] = NoVmid
      BY <1>0, <2>1 DEF KnowInv, CloneFits, Early
    <2>4. CloneFits'
      BY <1>2, <1>3, <2>1, <2>2, <2>3 DEF CloneFits, Early
    <2>5. TargetFits'
      BY <1>1, <1>2, <1>3, <2>1, <2>3 DEF KnowInv, TargetFits
    <2>6. RememberStep
      BY <1>1, <1>2, <1>3, <2>1, <2>3 DEF RememberStep, Known, Exists
    <2>. QED  BY <2>4, <2>5, <2>6, OwnersKept DEF KnowInv
  <1>7. CASE ~RecordTarget
    <2>1. jobTarget' = jobTarget
      BY <1>1, <1>7 DEF StepOrder
    <2>2. body.step = "waitclone" => vms'[me].vmid = body.newid
      <3>. DEFINE row == [vms[me] EXCEPT !.vmid = body.newid, !.status = "provisioning"]
      <3>1. ASSUME body.step = "waitclone"
            PROVE  row \in VMRows /\ row.vmid = body.newid
        BY <1>0, <1>3, <3>1 DEF LifeInv, BodyFits, GuestFits, VMRows, VMStatuses
      <3>2. ASSUME body.step = "waitclone"
            PROVE  CommitRow(row, body.ssh, "configure")
        BY <1>1, <3>2 DEF StepOrder, CloneDone, Commit
      <3>3. body.ssh \in SSHStatuses /\ "configure" \in Steps
        BY <1>3 DEF Bodies, Steps
      <3>. HIDE DEF row
      <3>. QED  BY <1>0, <3>1, <3>2, <3>3, CommitFacts
    <2>3. vms'[me].vmid # vms[me].vmid =>
             \/ body.step = "wiped" /\ vms'[me].vmid = NoVmid
             \/ body.step = "waitclone"
      BY <1>1 DEF GuestStep
    <2>4. CloneFits'
      <3>1. body'.step \in {"provision", "clone", "record", "waitclone"} =>
               vms'[me].vmid = NoVmid
        BY <1>0, <1>1, <1>7, <2>3 DEF StepOrder, KnowInv, CloneFits
      <3>2. body'.step \in Early => jobTarget[current] = NoVmid
        BY <1>0, <1>1 DEF StepOrder, KnowInv, CloneFits
      <3>3. jobTarget[current] # NoVmid => vms'[me].vmid = jobTarget[current]
        BY <1>0, <2>2, <2>3 DEF KnowInv, CloneFits, Early
      <3>4. body'.step # "waitclone"
        BY <1>1, <1>7 DEF StepOrder
      <3>. QED  BY <1>2, <2>1, <3>1, <3>2, <3>3, <3>4 DEF CloneFits
    <2>5. TargetFits'
      <3>1. jobTarget[current] # NoVmid => vms'[me].vmid \in {NoVmid, jobTarget[current]}
        BY <1>0, <1>2, <2>1, <2>4 DEF CloneFits
      <3>. QED  BY <1>1, <1>2, <2>1, <3>1 DEF KnowInv, TargetFits
    <2>6. RememberStep
      <3>. SUFFICES ASSUME NEW i \in Vmids, Exists(i), Known(i), Exists(i)',
                           ~(body.step = "wiped" /\ body.missed)
                    PROVE  Known(i)'
        BY <1>0 DEF RememberStep, At
      <3>. DEFINE v == guests[i].owner
      <3>1. v \in VMs /\ guests'[i].owner = v
        BY OwnersKept DEF KnowInv, OwnersFit
      <3>2. CASE vms[v].vmid = i
        <4>1. vms'[v].vmid = i
          <5>1. CASE v # me
            BY <1>1, <3>1, <3>2, <5>1 DEF RowStep
          <5>2. CASE v = me
            <6>1. HasGuest(me)
              BY <3>2, <5>2 DEF HasGuest
            <6>2. body.step # "wiped"
              BY <1>0, <6>1 DEF LifeInv, BodyFits, GuestFits
            <6>3. body.step # "waitclone"
              BY <1>0, <1>3, <3>2, <5>2 DEF KnowInv, CloneFits
            <6>. QED  BY <2>3, <3>2, <5>2, <6>2, <6>3
          <5>. QED  BY <5>1, <5>2
        <4>. QED  BY <3>1, <4>1 DEF Known
      <3>3. CASE \E j \in Jobs : jobStatus[j] = "running" /\ jobVm[j] = v /\ jobTarget[j] = i
        BY <1>1, <1>2, <2>1, <3>1, <3>3 DEF Known
      <3>. QED  BY <3>2, <3>3 DEF Known
    <2>. QED  BY <2>4, <2>5, <2>6, OwnersKept DEF KnowInv
  <1>. QED  BY <1>6, <1>7

\* What the other steps do, those that end a job or a process aside: a VMID in a row stays,
\* and so does the running job.
KnowKept ==
    /\ UNCHANGED <<guests, jobTarget>>
    /\ \A v \in VMs : vms[v].vmid # NoVmid => vms'[v].vmid = vms[v].vmid
    /\ \A j \in Jobs : jobStatus[j] = "running" =>
                           jobStatus'[j] = "running" /\ jobVm'[j] = jobVm[j]

LEMMA KeptRemembers ==
    ASSUME KnowInv, KnowKept
    PROVE  RememberStep /\ OwnersFit'
  <1>1. ASSUME NEW i \in Vmids, Exists(i), Known(i)
        PROVE  Known(i)'
    <2>1. guests'[i].owner = guests[i].owner /\ guests[i].owner \in VMs /\ i # NoVmid
      BY <1>1, NullsAssumption DEF KnowInv, OwnersFit, KnowKept
    <2>. QED  BY <1>1, <2>1 DEF Known, KnowKept
  <1>. QED  BY <1>1 DEF RememberStep, KnowInv, OwnersFit, KnowKept, Exists, Off

LEMMA KnowElsewhere ==
    ASSUME PanelInv, LifeInv, OneUnstruck, KnowInv, [Next]_vars, ~BodyStep
    PROVE  KnowInv' /\ RememberStep
  <1>0. /\ vms \in [VMs -> VMRows] /\ jobVm \in [Jobs -> VMs \cup {NoVm}]
        /\ jobStatus \in [Jobs -> JobStatuses] /\ jobType \in [Jobs -> JobTypes]
        /\ jobTarget \in [Jobs -> Vmids \cup {NoVmid}] /\ NoVmid \notin Vmids
        /\ body \in Bodies /\ guests \in [Vmids -> Guests]
    BY NullsAssumption DEF PanelInv, TypeOK, QueueTypeOK
  <1>1. pc # "idle" => current \in Jobs /\ jobStatus[current] # "none"
                       /\ me \in VMs /\ vms[me].status # "none"
    BY CurrentHasRow DEF Born
  <1>2. \A j \in Jobs : jobStatus[j] # "none" => jobVm[j] \in VMs /\ vms[jobVm[j]].status # "none"
    BY DEF PanelInv, JobsHaveRows, Born
  <1>3. /\ pc = "running" => jobStatus[current] = "running"
        /\ current \notin struck
        /\ pc = "running" /\ WorkerAlive =>
              \A j \in Jobs : jobStatus[j] = "running" => j = current \/ j \in struck
    BY <1>1 DEF PanelInv, QueueInv, WorkerAgrees, StruckIsOut, RunningIsCurrent, WorkerAlive
  <1>4. ASSUME NEW r \in Requests, NEW v \in VMs, NEW j \in Jobs, CommitCreate(r, v, j)
        PROVE  KnowInv' /\ RememberStep
    <2>. DEFINE row == [NoRow EXCEPT !.host = req[r].host, !.status = "creating"]
    <2>1. row.status = "creating" /\ row.vmid = NoVmid /\ ~row.deleted
      BY DEF NoRow
    <2>2. /\ vms' = [vms EXCEPT ![v] = row] /\ vms[v].status = "none"
          /\ jobVm' = [jobVm EXCEPT ![j] = v]
          /\ jobStatus[j] = "none" /\ jobStatus' = [jobStatus EXCEPT ![j] = "queued"]
          /\ jobType' = [jobType EXCEPT ![j] = "create_vm"]
          /\ UNCHANGED <<pc, current, body, guests, jobTarget, mode, struck>>
      BY <1>4 DEF CommitCreate, SubmitJob, InsertJob
    <2>. HIDE DEF row
    <2>3. vms[v].vmid = NoVmid
      BY <2>2 DEF LifeInv, CreateFits
    <2>4. KnowKept
      BY <1>0, <1>2, <2>2, <2>3 DEF KnowKept
    <2>6. TargetFits'
      BY <1>0, <1>2, <2>2 DEF KnowInv, TargetFits
    <2>7. pc = "running" => me' = me /\ me # v /\ vms'[me] = vms[me]
      BY <1>0, <1>1, <2>2 DEF me
    <2>8. CloneFits'
      BY <2>2, <2>7 DEF KnowInv, CloneFits
    <2>. QED  BY <2>4, <2>6, <2>8, KeptRemembers DEF KnowInv
  <1>5. CASE RecoverRows
    <2>0. PICK f \in [VMs -> Vmids \cup {NoVmid}] :
             /\ \A v \in VMs : f[v] \in VmidAfter(v)
             /\ vms' = [v \in VMs |-> Recovered(v, f[v])]
      BY <1>5 DEF RecoverRows
    <2>1. /\ pc' = pc /\ mode = "down"
          /\ jobStatus' = [j \in Jobs |->
                              IF jobStatus[j] = "running" THEN "failed" ELSE jobStatus[j]]
          /\ UNCHANGED <<guests, jobTarget, jobVm>>
      BY <1>5 DEF RecoverRows, Recover, procVars
    <2>2. pc = "idle"
      BY <2>1 DEF PanelInv, QueueInv, QuietBoot
    <2>3. \A v \in VMs : vms'[v].vmid \in VmidAfter(v)
      BY <1>0, <2>0 DEF Recovered, VMRows
    <2>4. TargetFits'
      BY <2>1 DEF KnowInv, TargetFits
    <2>5. CloneFits' /\ OwnersFit'
      BY <2>1, <2>2 DEF KnowInv, CloneFits, OwnersFit, Exists, Off
    <2>6. RememberStep
      <3>. SUFFICES ASSUME NEW i \in Vmids, Exists(i), Known(i), ~Struck(guests[i].owner)
                    PROVE  Known(i)'
        BY <2>1 DEF RememberStep
      <3>. DEFINE v == guests[i].owner
      <3>1. v \in VMs /\ guests'[i].owner = v /\ i # NoVmid
        BY <1>0, <2>1 DEF KnowInv, OwnersFit
      <3>2. CASE vms[v].vmid = i
        BY <2>3, <3>1, <3>2 DEF Known, VmidAfter
      <3>3. CASE vms[v].vmid # i
        <4>1. PICK j \in Jobs : jobStatus[j] = "running" /\ jobVm[j] = v /\ jobTarget[j] = i
          BY <3>3 DEF Known
        <4>2. \A k \in Jobs : jobVm[k] = v => k \notin struck
          BY DEF Struck
        <4>3. vms[v].vmid = NoVmid
          BY <3>1, <3>3, <4>1, <4>2 DEF KnowInv, TargetFits
        <4>4. \A k \in Jobs : jobStatus[k] = "running" /\ jobVm[k] = v => k = j
          BY <4>1, <4>2 DEF OneUnstruck
        <4>5. Adopted(v) = {i}
          BY <3>1, <4>1, <4>4 DEF Adopted
        <4>6. VmidAfter(v) = {i}
          BY <4>3, <4>5 DEF VmidAfter
        <4>. QED  BY <2>3, <3>1, <4>6 DEF Known
      <3>. QED  BY <3>2, <3>3
    <2>. QED  BY <2>4, <2>5, <2>6 DEF KnowInv
  <1>6. CASE JobFails \/ JobSucceeds
    <2>1. /\ pc = "running" /\ WorkerAlive /\ UNCHANGED <<guests, jobTarget, jobVm, struck>>
          /\ pc' # "running"
          /\ \E s \in {"success", "failed"} : jobStatus' = [jobStatus EXCEPT ![current] = s]
          /\ vms' = vms \/ vms' = [vms EXCEPT ![me].status = "error"]
      BY <1>6 DEF JobFails, WorkerFail, JobSucceeds, WorkerSucceed, rowVars
    <2>2. \A v \in VMs : vms'[v].vmid = vms[v].vmid
      BY <1>0, <2>1 DEF VMRows
    <2>3. \A j \in Jobs \ {current} : jobStatus'[j] = jobStatus[j]
      BY <1>0, <2>1
    <2>4. \A j \in Jobs : jobStatus'[j] = "running" => j # current /\ j \in struck
      BY <1>0, <1>1, <1>3, <2>1, <2>3
    <2>5. \A j \in Jobs : jobStatus'[j] = "queued" => jobStatus[j] = "queued"
      BY <1>0, <1>1, <2>1, <2>3
    <2>6. TargetFits'
      <3>1. \A j \in Jobs : jobStatus'[j] = "none" => jobStatus[j] = "none"
        BY <1>0, <1>1, <2>1, <2>3
      <3>. QED  BY <2>1, <2>4, <2>5, <3>1 DEF KnowInv, TargetFits
    <2>7. CloneFits' /\ OwnersFit'
      BY <2>1 DEF KnowInv, CloneFits, OwnersFit, Exists, Off
    <2>8. RememberStep
      <3>. SUFFICES ASSUME NEW i \in Vmids, Exists(i), Known(i)
                    PROVE  Known(i)' \/ (At("waitclone") /\ jobStatus'[current] = "failed")
        BY DEF RememberStep
      <3>. DEFINE v == guests[i].owner
      <3>1. v \in VMs /\ guests'[i].owner = v /\ i # NoVmid
        BY <1>0, <2>1 DEF KnowInv, OwnersFit
      <3>2. CASE vms[v].vmid = i
        BY <2>2, <3>1, <3>2 DEF Known
      <3>4. CASE \E j \in Jobs \ {current} : jobStatus[j] = "running" /\ jobVm[j] = v
                                              /\ jobTarget[j] = i
        BY <2>1, <2>3, <3>1, <3>4 DEF Known
      <3>3. CASE vms[v].vmid # i /\ jobVm[current] = v /\ jobTarget[current] = i
        <4>1. jobVm[current] = v /\ jobTarget[current] = i
          BY <3>3
        <4>2. body.step = "waitclone"
          BY <2>1, <3>1, <3>3, <4>1 DEF KnowInv, CloneFits, me
        <4>3. JobFails
          BY <1>6, <4>2 DEF JobSucceeds, At
        <4>4. jobStatus'[current] = "failed"
          BY <1>0, <1>1, <2>1, <4>3 DEF JobFails, WorkerFail
        <4>. QED  BY <2>1, <4>2, <4>4 DEF At
      <3>. QED  BY <3>2, <3>3, <3>4 DEF Known
    <2>. QED  BY <2>6, <2>7, <2>8 DEF KnowInv
  <1>7. ASSUME NEW r \in Requests, MarkPending(r)
        PROVE  KnowInv' /\ RememberStep
    <2>1. \/ UNCHANGED vms
          \/ vms' = [vms EXCEPT ![req[r].vm].ssh = "pending"]
      BY <1>7 DEF MarkPending
    <2>2. /\ UNCHANGED <<pc, current, jobStatus, jobVm, jobTarget, guests, body, struck>>
          /\ me' = me
          /\ \A v \in VMs : vms'[v].vmid = vms[v].vmid
      BY <1>0, <1>7, <2>1 DEF MarkPending, queueVars, me, VMRows
    <2>3. TargetFits' /\ CloneFits'
      BY <1>1, <1>2, <2>2 DEF KnowInv, TargetFits, CloneFits
    <2>4. KnowKept
      BY <2>2 DEF KnowKept
    <2>. QED  BY <2>3, <2>4, KeptRemembers DEF KnowInv
  <1>8. ASSUME NEW j \in Jobs, (\E r \in Requests : CommitJob(r, j)) \/ SubmitCheck(j)
        PROVE  KnowInv' /\ RememberStep
    <2>1. /\ UNCHANGED <<vms, body, guests, jobTarget, struck>> /\ jobStatus[j] = "none"
          /\ jobStatus' = [jobStatus EXCEPT ![j] = "queued"]
          /\ \E u : jobVm' = [jobVm EXCEPT ![j] = u]
          /\ UNCHANGED <<pc, current>> \/ pc' = "put"
      BY <1>8
      DEF CommitJob, SubmitJob, SubmitCheck, WorkerSubmitCheck, InsertJob
    <2>3. TargetFits'
      BY <1>0, <2>1 DEF KnowInv, TargetFits
    <2>4. pc' = "running" => UNCHANGED <<pc, current>> /\ me' = me
      BY <1>0, <1>1, <2>1 DEF me
    <2>5. CloneFits'
      BY <2>1, <2>4 DEF KnowInv, CloneFits
    <2>6. KnowKept
      BY <1>0, <2>1 DEF KnowKept
    <2>. QED  BY <2>3, <2>5, <2>6, KeptRemembers DEF KnowInv
  <1>14. CASE CheckRetracted
    <2>1. /\ pc = "put" /\ pc' = "idle" /\ UNCHANGED <<guests, jobTarget, jobVm>>
          /\ vms' = [vms EXCEPT ![me].status = "error"]
          /\ jobStatus' = [jobStatus EXCEPT ![current] = "failed"]
          /\ struck \subseteq struck'
      BY <1>14 DEF CheckRetracted, WorkerRetracts, Strike
    <2>2. \A v \in VMs : vms'[v].vmid = vms[v].vmid
      BY <1>0, <2>1 DEF VMRows
    <2>3. jobStatus[current] = "success"
      BY <2>1 DEF PanelInv, QueueInv, WorkerAgrees
    <2>4. \A j \in Jobs : jobStatus'[j] \in {"none", "queued", "running"} =>
                              jobStatus'[j] = jobStatus[j]
      BY <1>0, <2>1
    <2>5. TargetFits' /\ CloneFits'
      BY <1>0, <1>1, <1>2, <2>1, <2>2, <2>4 DEF KnowInv, TargetFits, CloneFits
    <2>6. KnowKept
      BY <1>0, <2>1, <2>2, <2>3 DEF KnowKept
    <2>. QED  BY <2>5, <2>6, KeptRemembers DEF KnowInv
  <1>9. CASE StartJob
    <2>1. /\ pc = "loaded" /\ UNCHANGED <<vms, jobVm, jobType, jobTarget, guests, current, mode, struck>>
          /\ body' = [body EXCEPT !.step = FirstStep(jobType[current])]
          /\ jobStatus' = [jobStatus EXCEPT ![current] = "running"]
      BY <1>9 DEF StartJob, WorkerStart, Goto, rowVars
    <2>2. /\ body'.step = FirstStep(jobType[current]) /\ me' = me
          /\ jobStatus[current] = "queued" /\ jobVm[current] = me
      BY <1>0, <2>1 DEF Bodies, me, PanelInv, QueueInv, WorkerAgrees
    <2>3. jobTarget[current] = NoVmid
      BY <1>1, <2>1, <2>2 DEF KnowInv, TargetFits
    <2>4. body'.step \in {"provision", "clone", "record", "waitclone"} =>
             body'.step = "provision" /\ jobType[current] = "create_vm"
      BY <1>0, <1>1, <2>1, <2>2 DEF FirstStep, JobTypes, PowerTypes
    <2>5. jobType[current] = "create_vm" => mode = "up"
      BY <1>1, <1>9, <2>1, <2>2
      DEF StartJob, WorkerStart, WorkerAlive, PanelInv, QueueInv, HalfRequeued, Placed, Queued,
          Resumable
    <2>6. jobType[current] = "create_vm" => vms[me].vmid = NoVmid
      BY <1>1, <2>1, <2>2, <2>5 DEF LifeInv, CreateFits
    <2>7. CloneFits'
      BY <2>1, <2>2, <2>3, <2>4, <2>6 DEF CloneFits
    <2>8. TargetFits'
      BY <1>0, <1>1, <2>1, <2>2, <2>3 DEF KnowInv, TargetFits
    <2>9. KnowKept
      BY <1>0, <1>1, <2>1 DEF KnowKept
    <2>. QED  BY <2>7, <2>8, <2>9, KeptRemembers DEF KnowInv
  <1>. DEFINE Idle == /\ UNCHANGED <<vms, guests, jobTarget, jobVm>>
                      /\ struck \subseteq struck'
                      /\ \A j \in Jobs :
                            /\ jobStatus'[j] = "none" <=> jobStatus[j] = "none"
                            /\ jobStatus'[j] = "queued" => jobStatus[j] = "queued"
                            /\ jobStatus'[j] = "running" <=> jobStatus[j] = "running"
                      /\ UNCHANGED <<pc, current, body>> \/ pc' # "running"
  <1>10. ASSUME Idle PROVE KnowInv' /\ RememberStep
    <2>1. pc' = "running" => UNCHANGED <<pc, current, body, me>>
      BY <1>10 DEF me
    <2>2. CloneFits'
      BY <1>10, <2>1 DEF KnowInv, CloneFits
    <2>3. TargetFits'
      BY <1>10 DEF KnowInv, TargetFits
    <2>4. KnowKept
      BY <1>10 DEF KnowKept
    <2>. QED  BY <2>2, <2>3, <2>4, KeptRemembers DEF KnowInv
  <1>11. CASE UNCHANGED vars \/ Client \/ TakeJob
    <2>1. Idle
      BY <1>11 DEF vars, queueVars, rowVars, Client, CheckCreate, CheckRow, HandlerOnly,
                   TakeJob, WorkerGet
    <2>. QED  BY <1>10, <2>1
  <1>12. CASE \/ \E r \in Requests : LockCreate(r) \/ HandlerFails(r)
              \/ \E j \in Jobs : Enqueue(j) \/ Drop(j)
              \/ EnqueueCheck \/ ProcessDies \/ JobDropped \/ JobAbandoned
    <2>1. Idle
      BY <1>12 DEF LockCreate, HandlerFails, HandlerOnly, rowVars, queueVars, Enqueue,
                   EnqueueJob, EnqueueCheck, WorkerEnqueueCheck, ProcessDies, Crash, jobVars,
                   Drop, DropJob, JobDropped, WorkerDrops, JobAbandoned, WorkerAbandons, Strike
    <2>. QED  BY <1>10, <2>1
  <1>13. CASE RequeueJobs
    <2>1. Idle
      BY <1>0, <1>13 DEF RequeueJobs, Requeue, RequeueCommit, Resumable, rowVars, jobVars,
                         procVars
    <2>. QED  BY <1>10, <2>1
  <1>. QED
    BY <1>4, <1>5, <1>6, <1>7, <1>8, <1>9, <1>11, <1>12, <1>13, <1>14
    DEF Next, Handler, HandlerStep, Worker, Boot

\* A guest the panel knows - its row names it, or would after a crash now - is known as
\* long as it exists, for any number of VMs, jobs, failures and crashes and even when VMIDs
\* are reused: the adoption of a restart finds the clone the crash interrupted, and a
\* reinstall forgets a VMID only when its guest is seen to be gone. The ways out are three:
\* the failure of a job that waits for its clone, a lookup that misses the guest before a
\* reinstall, and a restart after a database error left one of the row's jobs running
\* (provision_vm_from_template, mark_orphaned_running_as_failed, reinstall_vm_job).
THEOREM GuestsAreRemembered == Spec => KnownGuestsStay
  <1>1. Init => KnowInv
    BY DEF Init, QueueInit, KnowInv, TargetFits, CloneFits, OwnersFit, Exists, Off
  <1>2. PanelInv /\ LifeInv /\ OneUnstruck /\ KnowInv /\ [Next]_vars => KnowInv'
    BY KnowBody, KnowElsewhere
  <1>3. PanelInv /\ LifeInv /\ OneUnstruck /\ KnowInv /\ [Next]_vars => [RememberStep]_vars
    BY KnowBody, KnowElsewhere
  <1>. QED
    BY <1>1, <1>2, <1>3, LifeInvariant, OneUnstruckInvariant, PTL DEF Spec, KnownGuestsStay

-----------------------------------------------------------------------------
(* A check is lost only with the process or by a database error.           *)

\* Most steps take a check from no row, and make none need one.
ChecksStay ==
    \A v \in VMs : /\ AwaitsSsh(v)' => AwaitsSsh(v)
                   /\ AwaitsSsh(v)' /\ CheckComing(v) => CheckComing(v)'

LEMMA BodyChecks ==
    ASSUME PanelInv, LifeInv, BodyStep
    PROVE  CheckStep
  <1>1. UNCHANGED <<queueVars, jobVm, req>> /\ RowStep /\ RowsKept
    BY StepFitsBody, BodyKeeps DEF LifeInv, BodyPost, BodyKept
  <1>2. pc = "running"
    BY DEF BodyStep, ProvisionStep, DestroyStep, PowerStep, Provision, Clone,
           RecordTarget, CloneDone, Configure, StartGuest, GuestStarted, GotIp,
           NoIp, MakeUnique, MadeUnique, BeginReinstall, BeginDelete, NothingToDestroy,
           StopBeforeErase, Erase, Erased, FinishDelete, WipeRow, BeginPower,
           PostPower, Stopped, PoweredOn, PowerIp, CheckSsh, At
  <1>3. /\ current \in Jobs /\ jobStatus[current] = "running" /\ current \notin struck
        /\ jobVm[current] = me
    BY <1>2, CurrentHasRow DEF PanelInv, QueueInv, WorkerAgrees, StruckIsOut, me
  <1>4. UNCHANGED <<jobStatus, jobType, jobVm, struck, pc, current, req>>
    BY <1>1 DEF queueVars
  <1>5. \A v \in VMs \ {me} : NeedsCheck(v)' => NeedsCheck(v)
    BY <1>1, <1>3, <1>4 DEF NeedsCheck, AwaitsSsh, Live, CheckComing, RowStep
  <1>6. ASSUME NeedsCheck(me)'
        PROVE  NeedsCheck(me)
    <2>0. me' = me
      BY <1>4 DEF me
    <2>1. ~HasFollowUp(jobType[current])
      BY <1>3, <1>4, <1>6, <2>0 DEF NeedsCheck, CheckComing
    <2>2. AwaitsSsh(me)
      BY <1>1, <1>6, <2>0, <2>1, <1>2, InBodyTypes
      DEF NeedsCheck, AwaitsSsh, Live, RowStep, RowsKept
    <2>3. body.ssh = "pending" => body'.ssh = "pending"
      BY <1>1, <1>6, <2>0 DEF NeedsCheck, AwaitsSsh, RowStep
    <2>4. CheckComing(me) => CheckComing(me)'
      BY <1>4, <2>0, <2>3 DEF CheckComing
    <2>. QED  BY <1>6, <2>0, <2>2, <2>4 DEF NeedsCheck
  <1>7. me' = me
    BY <1>4 DEF me
  <1>. QED  BY <1>5, <1>6, <1>7 DEF CheckStep

\* The end of a job: what its follow-up or, after a check, the worker's copy has to say.
LEMMA EndChecks ==
    ASSUME PanelInv, LifeInv, JobSucceeds \/ JobFails
    PROVE  ChecksStay
  <1>0. /\ vms \in [VMs -> VMRows]
        /\ jobStatus \in [Jobs -> JobStatuses] /\ jobType \in [Jobs -> JobTypes]
    BY DEF PanelInv, TypeOK, QueueTypeOK
  <1>1. pc = "running" /\ WorkerAlive
    BY DEF JobSucceeds, JobFails, WorkerFail, At
  <1>2. /\ current \in Jobs /\ me \in VMs /\ jobStatus[current] = "running"
        /\ NoJob \notin Jobs /\ jobVm[current] = me
    BY <1>1, CurrentHasRow, JobsAssumption DEF PanelInv, QueueInv, WorkerAgrees, Born, me
  <1>3. CASE JobSucceeds
    <2>1. /\ body.step = "done" /\ UNCHANGED <<vms, jobVm, jobType, req, struck>>
          /\ jobStatus' = [jobStatus EXCEPT ![current] = "success"]
          /\ current' \in {current, NoJob}
          /\ HasFollowUp(jobType[current]) => pc' = "followup" /\ current' = current
      BY <1>3 DEF JobSucceeds, WorkerSucceed, At, rowVars
    <2>2. ASSUME NEW v \in VMs, CheckComing(v)
          PROVE  CheckComing(v)'
      <3>1. CASE \E j \in Jobs \ {current} :
                    /\ jobVm[j] = v /\ j \notin struck
                    /\ \/ jobType[j] = "ssh_readiness_check" /\ jobStatus[j] \in {"queued", "running"}
                       \/ HasFollowUp(jobType[j]) /\ jobStatus[j] = "running"
        BY <1>0, <1>2, <2>1, <3>1 DEF CheckComing
      <3>2. CASE \E r \in Requests : req[r].pc = "marked" /\ req[r].vm = v
        BY <2>1, <3>2 DEF CheckComing
      <3>3. CASE me = v /\ current \notin struck /\ HasFollowUp(jobType[current])
        BY <1>2, <2>1, <3>3 DEF CheckComing
      <3>4. CASE jobType[current] = "ssh_readiness_check" /\ body.ssh = "pending"
        BY <1>1, <2>1, <3>4 DEF LifeInv, BodyFits, StepFits
      <3>. QED
        BY <1>1, <1>2, <2>2, <3>1, <3>2, <3>3, <3>4 DEF CheckComing
    <2>. QED  BY <2>1, <2>2 DEF ChecksStay, AwaitsSsh, Live
  <1>4. CASE JobFails
    <2>1. /\ UNCHANGED <<jobVm, jobType, req, struck>> /\ current' = NoJob
          /\ vms' = [vms EXCEPT ![me].status = "error"]
          /\ jobStatus' = [jobStatus EXCEPT ![current] = "failed"]
      BY <1>4 DEF JobFails, WorkerFail
    <2>2. /\ vms'[me].status = "error" /\ \A v \in VMs \ {me} : vms'[v] = vms[v]
      BY <1>0, <1>2, <2>1 DEF VMRows
    <2>3. \A v \in VMs \ {me} : CheckComing(v) => CheckComing(v)'
      BY <1>0, <1>1, <1>2, <2>1 DEF CheckComing, me
    <2>. QED  BY <2>2, <2>3 DEF ChecksStay, AwaitsSsh, Live
  <1>. QED  BY <1>3, <1>4

\* A new job, and the request or the worker that hands its row over to it.
LEMMA InsertChecks ==
    ASSUME PanelInv, LifeInv, NEW j \in Jobs,
           \/ \E r \in Requests, v \in VMs : CommitCreate(r, v, j)
           \/ \E r \in Requests : CommitJob(r, j)
           \/ SubmitCheck(j)
    PROVE  ChecksStay
  <1>0. /\ vms \in [VMs -> VMRows] /\ jobVm \in [Jobs -> VMs \cup {NoVm}]
        /\ jobStatus \in [Jobs -> JobStatuses] /\ jobType \in [Jobs -> JobTypes]
        /\ req \in [Requests -> ReqRecords]
        /\ j # current /\ j \notin struck
        /\ pc = "followup" => current \in Jobs
    <2>1. jobStatus[j] = "none"
      BY DEF CommitCreate, CommitJob, SubmitCheck, SubmitJob, WorkerSubmitCheck, InsertJob
    <2>. QED
      BY <2>1, CurrentIsOld, CurrentHasRow DEF PanelInv, TypeOK, QueueTypeOK
  <1>1. PICK t, u : /\ jobStatus[j] = "none" /\ UNCHANGED <<current, body, struck>>
                    /\ jobStatus' = [jobStatus EXCEPT ![j] = "queued"]
                    /\ jobType' = [jobType EXCEPT ![j] = t]
                    /\ jobVm' = [jobVm EXCEPT ![j] = u]
    BY DEF CommitCreate, CommitJob, SubmitCheck, SubmitJob, WorkerSubmitCheck, InsertJob
  <1>2. ASSUME NEW k \in Jobs, k # j
        PROVE  /\ jobStatus'[k] = jobStatus[k] /\ jobType'[k] = jobType[k]
               /\ jobVm'[k] = jobVm[k]
    BY <1>0, <1>1, <1>2
  <1>3. ASSUME NEW r \in Requests, NEW v \in VMs, CommitCreate(r, v, j)
        PROVE  ChecksStay
    <2>. DEFINE row == [NoRow EXCEPT !.host = req[r].host, !.status = "creating"]
    <2>1. row.status = "creating"
      BY DEF NoRow
    <2>2. /\ vms' = [vms EXCEPT ![v] = row] /\ req' = [req EXCEPT ![r] = NoReq]
          /\ req[r].pc = "locked" /\ UNCHANGED <<pc, current>>
      BY <1>3 DEF CommitCreate, SubmitJob
    <2>. HIDE DEF row
    <2>3. \A w \in VMs : AwaitsSsh(w)' => AwaitsSsh(w)
      BY <1>0, <2>1, <2>2 DEF AwaitsSsh, Live
    <2>4. \A w \in VMs : CheckComing(w) => CheckComing(w)'
      BY <1>0, <1>1, <1>2, <2>2 DEF CheckComing
    <2>. QED  BY <2>3, <2>4 DEF ChecksStay
  <1>4. ASSUME NEW r \in Requests, CommitJob(r, j)
        PROVE  ChecksStay
    <2>1. /\ UNCHANGED <<vms, pc, current>> /\ req' = [req EXCEPT ![r] = NoReq]
          /\ jobType' = [jobType EXCEPT ![j] = req[r].type]
          /\ jobStatus' = [jobStatus EXCEPT ![j] = "queued"]
          /\ jobVm' = [jobVm EXCEPT ![j] = req[r].vm]
      BY <1>4 DEF CommitJob, SubmitJob, InsertJob
    <2>2. ASSUME NEW w \in VMs, req[r].pc = "marked", req[r].vm = w
          PROVE  CheckComing(w)'
      <3>1. jobType'[j] = "ssh_readiness_check" /\ jobStatus'[j] = "queued" /\ jobVm'[j] = w
        BY <1>0, <2>1, <2>2 DEF LifeInv, JobsFit
      <3>. QED  BY <1>0, <1>1, <3>1 DEF CheckComing
    <2>3. \A w \in VMs : CheckComing(w) => CheckComing(w)'
      BY <1>0, <1>1, <1>2, <2>1, <2>2 DEF CheckComing
    <2>. QED  BY <2>1, <2>3 DEF ChecksStay, AwaitsSsh, Live
  <1>5. CASE SubmitCheck(j)
    <2>1. /\ UNCHANGED <<vms, req>> /\ pc = "followup"
          /\ jobType' = [jobType EXCEPT ![j] = "ssh_readiness_check"]
          /\ jobStatus' = [jobStatus EXCEPT ![j] = "queued"]
          /\ jobVm' = [jobVm EXCEPT ![j] = me]
      BY <1>5 DEF SubmitCheck, WorkerSubmitCheck, InsertJob
    <2>2. ASSUME NEW w \in VMs, w = me
          PROVE  CheckComing(w)'
      <3>1. jobType'[j] = "ssh_readiness_check" /\ jobStatus'[j] = "queued" /\ jobVm'[j] = w
        BY <1>0, <2>1, <2>2
      <3>. QED  BY <1>0, <1>1, <3>1 DEF CheckComing
    <2>3. \A w \in VMs : CheckComing(w) => CheckComing(w)'
      BY <1>0, <1>1, <1>2, <2>1, <2>2 DEF CheckComing, me
    <2>. QED  BY <2>1, <2>3 DEF ChecksStay, AwaitsSsh, Live
  <1>. QED  BY <1>3, <1>4, <1>5

\* The other steps but a restart's and the process's death, recheck_ssh's mark aside.
LEMMA OtherChecks ==
    ASSUME PanelInv,
           UNCHANGED vars \/ Client \/ TakeJob \/ StartJob \/ EnqueueCheck \/ RequeueJobs
             \/ (\E r \in Requests : LockCreate(r))
             \/ (\E j \in Jobs : Enqueue(j))
    PROVE  ChecksStay
  <1>0. /\ jobStatus \in [Jobs -> JobStatuses] /\ jobType \in [Jobs -> JobTypes]
        /\ req \in [Requests -> ReqRecords] /\ body \in Bodies /\ NoJob \notin Jobs
    BY JobsAssumption DEF PanelInv, TypeOK, QueueTypeOK
  <1>. DEFINE Same == /\ UNCHANGED <<vms, jobVm, jobType, struck>>
                      /\ \A j \in Jobs : current' = j =>
                            \/ current = j /\ body'.ssh = body.ssh
                            \/ body'.ssh = vms[jobVm[j]].ssh
                      /\ \A r \in Requests : req[r].pc = "marked" => req'[r] = req[r]
                      /\ pc = "followup" => UNCHANGED <<pc, current>>
                      /\ \A j \in Jobs :
                            \/ jobStatus'[j] = jobStatus[j]
                            \/ jobStatus[j] = "queued" /\ jobStatus'[j] = "running"
                            \/ ~Resumable(jobType[j]) /\ jobStatus[j] = "queued"
  <1>1. ASSUME Same PROVE ChecksStay
    <2>1. \A v \in VMs : AwaitsSsh(v) /\ CheckComing(v) => CheckComing(v)'
      BY <1>1 DEF AwaitsSsh, CheckComing, Resumable, HasFollowUp
    <2>. QED  BY <1>1, <2>1 DEF ChecksStay, AwaitsSsh, Live
  <1>2. CASE UNCHANGED vars \/ TakeJob \/ EnqueueCheck \/ \E j \in Jobs : Enqueue(j)
    <2>1. Same
      BY <1>0, <1>2 DEF NoBody, vars, queueVars, rowVars, TakeJob, WorkerGet, EnqueueCheck,
                  WorkerEnqueueCheck, Enqueue, EnqueueJob
    <2>. QED  BY <1>1, <2>1
  <1>3. CASE Client \/ \E r \in Requests : LockCreate(r)
    <2>1. Same
      BY <1>0, <1>3 DEF Client, CheckCreate, CheckRow, LockCreate, HandlerOnly,
                        rowVars, queueVars
    <2>. QED  BY <1>1, <2>1
  <1>4. CASE StartJob
    <2>1. jobStatus[current] = "queued"
      BY <1>4 DEF StartJob, WorkerStart, PanelInv, QueueInv, WorkerAgrees
    <2>2. Same
      BY <1>0, <1>4, <2>1 DEF StartJob, WorkerStart, rowVars, Goto, Bodies
    <2>. QED  BY <1>1, <2>2
  <1>5. CASE RequeueJobs
    <2>1. Same
      BY <1>0, <1>5 DEF RequeueJobs, Requeue, RequeueCommit, rowVars, jobVars, procVars
    <2>. QED  BY <1>1, <2>1
  <1>. QED  BY <1>2, <1>3, <1>4, <1>5

\* A database error takes the job it strikes out of account, and no other check.
LEMMA StrikeChecks ==
    ASSUME PanelInv,
           \/ \E j \in Jobs : Drop(j)
           \/ JobDropped \/ JobAbandoned \/ CheckRetracted
    PROVE  CheckStep
  <1>0. /\ vms \in [VMs -> VMRows] /\ jobStatus \in [Jobs -> JobStatuses] /\ NoJob \notin Jobs
    BY JobsAssumption DEF PanelInv, TypeOK, QueueTypeOK
  <1>. DEFINE Out(k) == /\ k \in Jobs \ struck /\ struck' = struck \cup {k}
                        /\ UNCHANGED <<jobVm, jobType, req>>
                        /\ \A v \in VMs : AwaitsSsh(v)' => AwaitsSsh(v)
                        /\ current' = NoJob \/ UNCHANGED <<pc, current, body>>
                        /\ pc = "followup" => k = current \/ UNCHANGED <<pc, current>>
                        /\ \A j \in Jobs : jobStatus[j] \in {"queued", "running"} =>
                                              jobStatus'[j] = jobStatus[j]
  <1>1. ASSUME NEW k, Out(k) PROVE CheckStep
    <2>1. ASSUME NEW v \in VMs, jobVm[k] # v, CheckComing(v)
          PROVE  CheckComing(v)'
      BY <1>0, <1>1, <2>1 DEF CheckComing
    <2>2. k \in struck' \ struck
      BY <1>1
    <2>. QED  BY <1>1, <2>1, <2>2 DEF CheckStep, NeedsCheck
  <1>2. pc # "idle" => current \in Jobs /\ current \notin struck /\ me \in VMs
    BY CurrentHasRow DEF PanelInv, QueueInv, StruckIsOut, Born
  <1>3. pc = "put" => check \in Jobs /\ check \notin struck /\ jobStatus[current] = "success"
    BY DEF PanelInv, QueueInv, WorkerAgrees, StruckIsOut, QueueTypeOK
  <1>4. ASSUME NEW j \in Jobs, Drop(j)
        PROVE  CheckStep
    <2>1. Out(j)
      BY <1>4 DEF Drop, DropJob, Strike, rowVars, AwaitsSsh, Live, PanelInv, QueueInv, StruckIsOut
    <2>. QED  BY <1>1, <2>1
  <1>5. CASE JobDropped
    <2>1. Out(current)
      BY <1>2, <1>5 DEF JobDropped, WorkerDrops, Strike, rowVars, jobVars, AwaitsSsh, Live
    <2>. QED  BY <1>1, <2>1
  <1>6. CASE JobAbandoned
    <2>1. \E k : Out(k)
      BY <1>2, <1>3, <1>6
      DEF JobAbandoned, WorkerAbandons, Strike, rowVars, jobVars, AwaitsSsh, Live
    <2>. QED  BY <1>1, <2>1
  <1>7. CASE CheckRetracted
    <2>1. /\ pc = "put" /\ vms' = [vms EXCEPT ![me].status = "error"]
          /\ jobStatus' = [jobStatus EXCEPT ![current] = "failed"]
          /\ struck' = struck \cup {check} /\ current' = NoJob
          /\ UNCHANGED <<jobVm, jobType, req>>
      BY <1>7 DEF CheckRetracted, WorkerRetracts, Strike
    <2>2. \A v \in VMs : AwaitsSsh(v)' => AwaitsSsh(v)
      BY <1>0, <1>2, <2>1 DEF AwaitsSsh, Live, VMRows
    <2>3. Out(check)
      BY <1>0, <1>2, <1>3, <2>1, <2>2
    <2>. QED  BY <1>1, <2>3
  <1>. QED  BY <1>4, <1>5, <1>6, <1>7

\* A running VM with SSH pending loses its check only with the process, in the recovery that
\* follows, or by a database error that strikes one of its jobs or keeps recheck_ssh from
\* its second commit, for any number of crashes, overlapping rechecks and jobs with a stale
\* copy of ssh_status (recheck_ssh, dispatch, requeue_queued_jobs).
THEOREM OnlyFaultsLoseChecks == Spec => ChecksKept
  <1>1. PanelInv /\ LifeInv /\ [Next]_vars => [CheckStep]_vars
    <2>. SUFFICES ASSUME PanelInv, LifeInv, Next PROVE CheckStep
      OBVIOUS
    <2>1. ChecksStay => CheckStep
      BY DEF ChecksStay, CheckStep, NeedsCheck
    <2>2. CASE BodyStep
      BY <2>2, BodyChecks
    <2>3. CASE RecoverRows \/ ProcessDies
      BY <2>3 DEF RecoverRows, Recover, ProcessDies, Crash, CheckStep
    <2>4. ASSUME NEW r \in Requests, MarkPending(r)
          PROVE  CheckStep
      <3>1. /\ UNCHANGED vms \/ vms' = [vms EXCEPT ![req[r].vm].ssh = "pending"]
            /\ req' = [req EXCEPT ![r].pc = "marked"] /\ UNCHANGED <<queueVars, jobVm>>
        BY <2>4 DEF MarkPending
      <3>2. vms \in [VMs -> VMRows] /\ req \in [Requests -> ReqRecords]
        BY DEF PanelInv, TypeOK
      <3>3. req'[r].pc = "marked" /\ req'[r].vm = req[r].vm
        BY <3>1, <3>2 DEF ReqRecords
      <3>4. \A s \in Requests : req[s].pc = "marked" => req'[s].pc = "marked"
                                                        /\ req'[s].vm = req[s].vm
        BY <3>1, <3>2, <3>3
      <3>5. \A v \in VMs : (CheckComing(v) \/ v = req[r].vm) => CheckComing(v)'
        BY <2>4, <3>1, <3>3, <3>4 DEF MarkPending, CheckComing, queueVars
      <3>6. \A v \in VMs : AwaitsSsh(v)' => AwaitsSsh(v) \/ v = req[r].vm
        BY <3>1, <3>2 DEF AwaitsSsh, Live
      <3>. QED  BY <3>5, <3>6 DEF CheckStep, NeedsCheck
    <2>5. ASSUME NEW r \in Requests, HandlerFails(r)
          PROVE  CheckStep
      <3>1. /\ UNCHANGED <<vms, queueVars, jobVm, body>>
            /\ \A s \in Requests \ {r} : req'[s] = req[s]
        <4>1. req \in [Requests -> ReqRecords]
          BY DEF PanelInv, TypeOK
        <4>. QED  BY <2>5, <4>1 DEF HandlerFails, HandlerOnly, rowVars
      <3>2. ASSUME NEW v \in VMs, CheckComing(v), ~(req[r].pc = "marked" /\ req[r].vm = v)
            PROVE  CheckComing(v)'
        BY <3>1, <3>2 DEF CheckComing, queueVars
      <3>3. \A v \in VMs : AwaitsSsh(v)' <=> AwaitsSsh(v)
        BY <3>1 DEF AwaitsSsh, Live
      <3>. QED  BY <2>5, <3>2, <3>3 DEF CheckStep, NeedsCheck
    <2>. QED
      BY <2>1, <2>2, <2>3, <2>4, <2>5, EndChecks, InsertChecks, OtherChecks, StrikeChecks
      DEF Next, Handler, HandlerStep, Worker, Boot
  <1>. QED  BY <1>1, LifeInvariant, PTL DEF Spec, ChecksKept

=============================================================================
