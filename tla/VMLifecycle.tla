----------------------------- MODULE VMLifecycle -----------------------------
(***************************************************************************)
(* The life of the panel's VMs: the rows of table vms, the API handlers    *)
(* that check a row and queue a job for it (api/routes), the bodies of the *)
(* jobs step by step (workers/inprocess.dispatch, services/lifecycle,      *)
(* services/terminal.check_ssh_ready), and the guests of the Proxmox       *)
(* cluster the jobs act on. The queue itself is JobQueue, whose actions    *)
(* are conjoined here with what they do to the rows.                       *)
(*                                                                         *)
(* A step of a handler or of the worker ends at an await at which another  *)
(* task can see what it did or can change what it read: a commit, or a     *)
(* call to Proxmox. Any call to Proxmox may fail; a POST or DELETE may     *)
(* fail after it took effect; a lookup may miss what there is. Any access  *)
(* to the database may raise.                                              *)
(***************************************************************************)
EXTENDS JobQueue

CONSTANTS
    VMs,          \* ids of rows in table vms, numbered in order of insertion
    Hosts,        \* hostnames clients ask for
    Vmids,        \* VMIDs the cluster can hand out
    Requests,     \* bound: requests in flight at one time
    Wanted,       \* bound: what clients ask of a VM that is there
    NoVm, NoHost, NoVmid

ASSUME VMsAssumption == VMs \subseteq Nat /\ IsFiniteSet(VMs)
ASSUME WantedAssumption == Wanted \subseteq JobTypes \ {"create_vm"}
ASSUME NullsAssumption ==
    NoVm \notin VMs /\ NoHost \notin Hosts /\ NoVmid \notin Vmids

VARIABLES
    vms,        \* table vms
    jobVm,      \* jobs.vm_id
    jobTarget,  \* jobs.metadata["target_vmid"]
    guests,     \* the cluster's guests
    req,        \* the request handlers
    body        \* local variables of the job's body

rowVars == <<vms, jobVm, jobTarget>>
vars == <<queueVars, rowVars, guests, req, body>>

-----------------------------------------------------------------------------
VMStatuses == {"none", "creating", "provisioning", "stopped", "starting",
               "running", "stopping", "rebooting", "deleting", "deleted", "error"}

Transient == {"creating", "provisioning", "starting", "stopping", "rebooting",
              "deleting"}

SSHStatuses == {"pending", "ready", "failed"}

VMRows == [host: Hosts \cup {NoHost}, status: VMStatuses, ssh: SSHStatuses,
           vmid: Vmids \cup {NoVmid}, ip: BOOLEAN, deleted: BOOLEAN]

NoRow == [host |-> NoHost, status |-> "none", ssh |-> "pending",
          vmid |-> NoVmid, ip |-> FALSE, deleted |-> FALSE]

\* owner is the row a guest was cloned for: the clone is named after its hostname.
\* past is a ghost: the rows the VMID was ever handed out for. "halted" is a stopped
\* guest, too: the reboot that ends its provisioning has stopped it, or failed to start
\* it again.
Guests == [state: {"none", "stopped", "running", "halted"}, owner: VMs \cup {NoVm},
           past: SUBSET VMs]

PowerTypes == {"start_vm", "stop_vm", "reboot_vm"}

\* "checked": the guards passed, the handler awaits (the preflight, or just
\*            the commit);
\* "locked":  create_vm inside _CREATE_VM_LOCK, the hostname checked again;
\* "marked":  recheck_ssh has committed ssh_status = pending.
ReqRecords == [pc: {"idle", "checked", "locked", "marked"},
               type: JobTypes, vm: VMs \cup {NoVm},
               host: Hosts \cup {NoHost}, ssh: SSHStatuses]

NoReq == [pc |-> "idle", type |-> "create_vm", vm |-> NoVm, host |-> NoHost,
          ssh |-> "pending"]

\* Where a body can be, named after what it does next or waits for; "lost": an
\* answer did not arrive, "done": only the commit of success is left.
Steps == {"none", "provision", "clone", "record", "waitclone", "configure",
          "start", "waitstart", "waitip", "uniq", "waituniq", "reinstall",
          "delete", "destroy", "erase", "waiterase", "wiped", "deleted", "power",
          "post", "waitpower", "powerip", "check", "lost", "done"}

\* step: where the body is; ssh: the session's copy of vm.ssh_status;
\* newid: new_vmid; taskOk: whether the Proxmox task awaited ends well;
\* missed, a ghost: the lookup before a destruction did not find a guest there is.
Bodies == [step: Steps, ssh: SSHStatuses, newid: Vmids \cup {NoVmid},
           taskOk: BOOLEAN, missed: BOOLEAN]

NoBody == [step |-> "none", ssh |-> "pending", newid |-> NoVmid, taskOk |-> FALSE,
           missed |-> FALSE]

Live(v) == vms[v].status # "none" /\ ~vms[v].deleted

Off(i) == guests[i].state \in {"stopped", "halted"}

Exists(i) == Off(i) \/ guests[i].state = "running"

\* The guest the row's VMID names exists; one cloned for another row will do.
HasGuest(v) == vms[v].vmid \in {i \in Vmids : Exists(i)}

HostTaken(h) == \E v \in VMs : Live(v) /\ vms[v].host = h

\* The row of the job the worker holds.
me == jobVm[current]

At(s) == WorkerAlive /\ pc = "running" /\ body.step = s

Goto(s) == body' = [body EXCEPT !.step = s]

-----------------------------------------------------------------------------
Init ==
    /\ QueueInit
    /\ vms = [v \in VMs |-> NoRow]
    /\ jobVm = [j \in Jobs |-> NoVm]
    /\ jobTarget = [j \in Jobs |-> NoVmid]
    /\ guests = [i \in Vmids |-> [state |-> "none", owner |-> NoVm, past |-> {}]]
    /\ req = [r \in Requests |-> NoReq]
    /\ body = NoBody

-----------------------------------------------------------------------------
(* Request handlers.                                                       *)

\* Bound: a request is taken only if the job ids it and the ones before it
\* need, follow-up checks included, are left.
JobsOf(t) == IF HasFollowUp(t) THEN 2 ELSE 1
Busy == {r \in Requests : req[r].pc # "idle"}
Owed == OwedChecks + Cardinality(Busy)
          + Cardinality({r \in Busy : HasFollowUp(req[r].type)})
Room(t) == Cardinality({j \in Jobs : jobStatus[j] = "none"}) >= Owed + JobsOf(t)

HandlerOnly == UNCHANGED <<queueVars, rowVars, guests, body>>

\* create_vm, up to the preflight.
CheckCreate(r, h) ==
    /\ Serving /\ req[r].pc = "idle" /\ Room("create_vm")
    /\ ~HostTaken(h)
    /\ req' = [req EXCEPT ![r] = [NoReq EXCEPT !.pc = "checked", !.host = h]]
    /\ HandlerOnly

\* Mutant: the second lookup without the lock.
LookupCreate(r) ==
    /\ Serving /\ req[r].pc = "checked" /\ req[r].type = "create_vm"
    /\ IF HostTaken(req[r].host)
       THEN req' = [req EXCEPT ![r] = NoReq]
       ELSE req' = [req EXCEPT ![r].pc = "locked"]
    /\ HandlerOnly

\* create_vm takes the lock and looks the hostname up again.
LockCreate(r) ==
    /\ Serving /\ req[r].pc = "checked" /\ req[r].type = "create_vm"
    /\ \A s \in Requests : req[s].pc # "locked"
    /\ IF HostTaken(req[r].host)
       THEN req' = [req EXCEPT ![r] = NoReq]
       ELSE req' = [req EXCEPT ![r].pc = "locked"]
    /\ HandlerOnly

\* create_vm commits the row and its job, and releases the lock.
CommitCreate(r, v, j) ==
    /\ req[r].pc = "locked"
    /\ vms[v].status = "none"
    /\ \A u \in VMs : u < v => vms[u].status # "none"
    /\ vms' = [vms EXCEPT ![v] = [NoRow EXCEPT !.host = req[r].host,
                                               !.status = "creating"]]
    /\ SubmitJob(j, "create_vm")
    /\ jobVm' = [jobVm EXCEPT ![j] = v]
    /\ req' = [req EXCEPT ![r] = NoReq]
    /\ UNCHANGED <<jobTarget, guests, body>>

\* What the handlers ask of the row they loaded.
Allowed(t, row) ==
    \/ t = "start_vm" /\ row.status \in {"stopped", "error"} /\ row.vmid # NoVmid
    \/ t \in {"stop_vm", "reboot_vm", "ssh_readiness_check"} /\ row.status = "running"
    \/ t \in {"reinstall_vm", "delete_vm"}
         /\ row.status \in {"running", "stopped", "error"}

\* start_vm, stop_vm, reboot_vm, reinstall_vm, delete_vm, recheck_ssh: the row
\* is loaded and checked once, here.
CheckRow(r, t, v) ==
    /\ Serving /\ req[r].pc = "idle" /\ Room(t)
    /\ Live(v) /\ Allowed(t, vms[v])
    /\ req' = [req EXCEPT ![r] = [NoReq EXCEPT !.pc = "checked", !.type = t,
                                               !.vm = v, !.ssh = vms[v].ssh]]
    /\ HandlerOnly

\* The handler raises before its commit: the preflight failed (403 or 502), or the
\* database did. recheck_ssh may have marked the row pending by then.
HandlerFails(r) ==
    /\ Serving /\ req[r].pc # "idle"
    /\ req' = [req EXCEPT ![r] = NoReq]
    /\ HandlerOnly

\* recheck_ssh sets ssh_status and commits; the UPDATE is issued only if the
\* value it loaded was another one.
MarkPending(r) ==
    /\ Serving /\ req[r].pc = "checked" /\ req[r].type = "ssh_readiness_check"
    /\ IF req[r].ssh = "pending"
       THEN UNCHANGED vms
       ELSE vms' = [vms EXCEPT ![req[r].vm].ssh = "pending"]
    /\ req' = [req EXCEPT ![r].pc = "marked"]
    /\ UNCHANGED <<queueVars, jobVm, jobTarget, guests, body>>

\* The commit of the job, whatever has become of the row since it was checked.
CommitJob(r, j) ==
    /\ \/ req[r].pc = "checked" /\ req[r].type \notin {"create_vm", "ssh_readiness_check"}
       \/ req[r].pc = "marked"
    /\ SubmitJob(j, req[r].type)
    /\ jobVm' = [jobVm EXCEPT ![j] = req[r].vm]
    /\ req' = [req EXCEPT ![r] = NoReq]
    /\ UNCHANGED <<vms, jobTarget, guests, body>>

\* Mutant: the job is put while its handler still means to put it.
EnqueueTwice(j) ==
    /\ Serving /\ j \in committed
    /\ queue' = Append(queue, j)
    /\ UNCHANGED <<jobStatus, jobType, committed, pc, current, check, mode, faults, struck>>
    /\ UNCHANGED <<rowVars, guests, req, body>>

Enqueue(j) == EnqueueJob(j) /\ UNCHANGED <<rowVars, guests, req, body>>

Drop(j) == DropJob(j) /\ UNCHANGED <<rowVars, guests, req, body>>

-----------------------------------------------------------------------------
(* The worker around a job's body.                                         *)

\* dispatch loads the row into its session, whose copy of ssh_status is not
\* refreshed any more (expire_on_commit is off). Every other column the body
\* reads is written by the worker alone.
TakeJob ==
    /\ WorkerGet
    /\ body' = [NoBody EXCEPT !.ssh = vms[jobVm[current']].ssh]
    /\ UNCHANGED <<rowVars, guests, req>>

FirstStep(t) ==
    CASE t = "create_vm" -> "provision"
      [] t = "reinstall_vm" -> "reinstall"
      [] t \in PowerTypes -> "power"
      [] t = "delete_vm" -> "delete"
      [] t = "ssh_readiness_check" -> "check"

StartJob ==
    /\ WorkerStart
    /\ Goto(FirstStep(jobType[current]))
    /\ UNCHANGED <<rowVars, guests, req>>

\* The database fails before the job is marked running.
JobDropped == WorkerDrops /\ body' = NoBody /\ UNCHANGED <<rowVars, guests, req>>

JobSucceeds ==
    /\ At("done")
    /\ WorkerSucceed
    /\ body' = NoBody
    /\ UNCHANGED <<rowVars, guests, req>>

\* The steps in which Proxmox is called, a template is looked up, or the VMID is
\* missing. MakeUnique swallows what the client raises, but that is not all there is.
MayFail ==
    \/ body.step \in {"provision", "clone", "lost", "waitclone", "configure", "start",
                      "waitstart", "waitip", "uniq", "waituniq", "reinstall",
                      "destroy", "erase", "waiterase", "post", "waitpower", "powerip"}
    \/ body.step = "power" /\ vms[me].vmid = NoVmid

\* Mutant: the job fails, its VM keeps the transient status.
JobFailsAlone ==
    /\ MayFail
    /\ WorkerFail
    /\ body' = NoBody
    /\ UNCHANGED <<rowVars, guests, req>>

\* except Exception in dispatch.
JobFails ==
    /\ MayFail
    /\ WorkerFail
    /\ vms' = [vms EXCEPT ![me].status = "error"]
    /\ body' = NoBody
    /\ UNCHANGED <<jobVm, jobTarget, guests, req>>

\* A commit fails, the one in that clause included: the row stays as it is.
JobAbandoned ==
    /\ WorkerAbandons
    /\ body' = NoBody
    /\ UNCHANGED <<rowVars, guests, req>>

SubmitCheck(k) ==
    /\ WorkerSubmitCheck(k)
    /\ jobVm' = [jobVm EXCEPT ![k] = me]
    /\ UNCHANGED <<vms, jobTarget, guests, req, body>>

EnqueueCheck == WorkerEnqueueCheck /\ UNCHANGED <<rowVars, guests, req, body>>

\* The same clause when the follow-up check was committed and could not be put.
CheckRetracted ==
    /\ WorkerRetracts
    /\ vms' = [vms EXCEPT ![me].status = "error"]
    /\ UNCHANGED <<jobVm, jobTarget, guests, req, body>>

-----------------------------------------------------------------------------
(* The bodies. A step leaves the queue and the requests alone.             *)

InBody == UNCHANGED <<queueVars, req>>

\* A commit of the worker's session, with ssh_status set to s: unchanged in
\* the table when the session's copy already has that value.
CommitRow(row, s, step) ==
    /\ vms' = [vms EXCEPT ![me] =
                  [row EXCEPT !.ssh = IF body.ssh = s THEN vms[me].ssh ELSE s]]
    /\ body' = [body EXCEPT !.step = step, !.ssh = s]
    /\ UNCHANGED <<jobVm, jobTarget, guests>>
    /\ InBody

Commit(row, step) == CommitRow(row, body.ssh, step)

\* A POST or DELETE that starts a task on guest i. If the task can do its work
\* it may do so, and then the answer may still get lost; or the task fails, and
\* leaves one of the guests in failed.
Task(possible, i, after, failed, step) ==
    /\ \/ /\ possible
          /\ guests' = [guests EXCEPT ![i] = after]
          /\ \E s \in {step, "lost"} :
                 body' = [body EXCEPT !.step = s, !.taskOk = TRUE, !.newid = i]
       \/ /\ \E g \in failed : guests' = [guests EXCEPT ![i] = g]
          /\ body' = [body EXCEPT !.step = step, !.taskOk = FALSE, !.newid = i]
    /\ UNCHANGED rowVars
    /\ InBody

\* provision_vm_from_template.
Provision == At("provision") /\ CommitRow(vms[me], "pending", "clone")

\* /cluster/nextid: any VMID without a guest, whether or not it once had one.
NextIds == {i \in Vmids : ~Exists(i)}

Cloned(i, s) == [state |-> s, owner |-> me, past |-> guests[i].past \cup {me}]

Erasure(i) == [guests[i] EXCEPT !.state = "none", !.owner = NoVm]

Clone ==
    /\ At("clone")
    /\ \E i \in NextIds :
          Task(TRUE, i, Cloned(i, "stopped"),
               {[Cloned(i, "none") EXCEPT !.owner = NoVm]}, "record")

RecordTarget ==
    /\ At("record")
    /\ jobTarget' = [jobTarget EXCEPT ![current] = body.newid]
    /\ Goto("waitclone")
    /\ UNCHANGED <<vms, jobVm, guests>>
    /\ InBody

CloneDone ==
    /\ At("waitclone") /\ body.taskOk
    /\ Commit([vms[me] EXCEPT !.vmid = body.newid, !.status = "provisioning"],
              "configure")

Configure == At("configure") /\ Commit(vms[me], "start")

StartGuest ==
    /\ At("start")
    /\ LET i == vms[me].vmid
       IN  Task(Off(i), i,
                [guests[i] EXCEPT !.state = "running"], {guests[i]}, "waitstart")

GuestStarted ==
    /\ At("waitstart") /\ body.taskOk
    /\ Commit([vms[me] EXCEPT !.status = "running"], "waitip")

\* wait_for_ip; a timeout ends the job well, without an address.
GotIp == At("waitip") /\ Commit([vms[me] EXCEPT !.ip = TRUE], "uniq")

NoIp == At("waitip") /\ CommitRow(vms[me], "failed", "done")

\* Machine id and reboot: whatever comes of them, a ProxmoxError is swallowed. The
\* reboot may stop the guest without starting it again.
MakeUnique ==
    /\ At("uniq")
    /\ guests' \in {guests, [guests EXCEPT ![vms[me].vmid].state = "halted"]}
    /\ Goto("waituniq")
    /\ UNCHANGED rowVars
    /\ InBody

\* The waits for the reboot and for an address: the row keeps the one it has, or a
\* new one, and is not told what became of the guest.
MadeUnique == At("waituniq") /\ Commit(vms[me], "done")

\* Mutant: the old machine's ssh_status stays until the new one is set up.
BeginReinstallAsIs ==
    /\ At("reinstall")
    /\ Commit([vms[me] EXCEPT !.status = "deleting"], "destroy")

\* reinstall_vm_job and delete_vm_job, up to destroy_existing_vm.
BeginReinstall ==
    /\ At("reinstall")
    /\ CommitRow([vms[me] EXCEPT !.status = "deleting"], "pending", "destroy")

BeginDelete ==
    /\ At("delete")
    /\ Commit([vms[me] EXCEPT !.status = "deleting"], "destroy")

AfterDestroy == IF jobType[current] = "delete_vm" THEN "deleted" ELSE "wiped"

\* destroy_existing_vm: no VMID, or the cluster does not find it. It may miss a guest
\* there is: resolve_vm_node passes over an error of the node, and an answer of the
\* cluster that is no list counts as an empty one.
NothingToDestroy ==
    /\ At("destroy")
    /\ vms' = vms
    /\ body' = [body EXCEPT !.step = AfterDestroy, !.missed = HasGuest(me)]
    /\ UNCHANGED <<jobVm, jobTarget, guests>>
    /\ InBody

\* ... otherwise a running guest is stopped, at best effort ...
StopBeforeErase ==
    /\ At("destroy")
    /\ HasGuest(me)
    /\ guests' \in {guests, [guests EXCEPT ![vms[me].vmid].state = "stopped"]}
    /\ Goto("erase")
    /\ UNCHANGED rowVars
    /\ InBody

\* ... and destroyed.
Erase ==
    /\ At("erase")
    /\ LET i == vms[me].vmid
       IN  Task(Off(i), i, Erasure(i), {guests[i]}, "waiterase")

\* Mutant: the outcome of the task is not looked at.
ErasedAnyway == At("waiterase") /\ Commit(vms[me], AfterDestroy)

Erased == At("waiterase") /\ body.taskOk /\ Commit(vms[me], AfterDestroy)

FinishDelete ==
    /\ At("deleted")
    /\ Commit([vms[me] EXCEPT !.status = "deleted", !.deleted = TRUE], "done")

WipeRow ==
    /\ At("wiped")
    /\ Commit([vms[me] EXCEPT !.vmid = NoVmid, !.ip = FALSE,
                              !.status = "provisioning"], "provision")

\* Mutant: a status VMStatus does not have.
PowerTransientNew(t) ==
    CASE t = "start_vm" -> "starting" [] t = "stop_vm" -> "stopping"
      [] OTHER -> "restarting"

\* power_job.
PowerTransient(t) ==
    CASE t = "start_vm" -> "starting" [] t = "stop_vm" -> "stopping"
      [] OTHER -> "rebooting"

BeginPower ==
    /\ At("power")
    /\ vms[me].vmid # NoVmid
    /\ CommitRow([vms[me] EXCEPT !.status = PowerTransient(jobType[current])],
                 IF jobType[current] = "start_vm" THEN "pending" ELSE body.ssh,
                 "post")

\* A reboot that fails may have stopped the guest.
PostPower ==
    /\ At("post")
    /\ HasGuest(me)
    /\ LET i == vms[me].vmid
           t == jobType[current]
           Turned(s) == [guests[i] EXCEPT !.state = s]
       IN  Task(IF t = "start_vm" THEN Off(i) ELSE guests[i].state = "running", i,
                Turned(IF t = "stop_vm" THEN "stopped" ELSE "running"),
                {guests[i]} \cup (IF t = "reboot_vm" THEN {Turned("stopped")} ELSE {}),
                "waitpower")

\* Mutant: the outcome of the task is not looked at.
StoppedAnyway ==
    /\ At("waitpower") /\ jobType[current] = "stop_vm"
    /\ Commit([vms[me] EXCEPT !.status = "stopped"], "done")

\* The final status is in the session only until the commit that follows the
\* wait for an address; a stop does not wait for one.
Stopped ==
    /\ At("waitpower") /\ body.taskOk /\ jobType[current] = "stop_vm"
    /\ Commit([vms[me] EXCEPT !.status = "stopped"], "done")

PoweredOn ==
    /\ At("waitpower") /\ body.taskOk /\ jobType[current] # "stop_vm"
    /\ Commit(vms[me], "powerip")

PowerIp ==
    /\ At("powerip")
    /\ \/ Commit([vms[me] EXCEPT !.status = "running", !.ip = TRUE], "done")
       \/ CommitRow([vms[me] EXCEPT !.status = "running"], "failed", "done")

\* check_ssh_ready: without an address it fails at once.
CheckSsh ==
    /\ At("check")
    /\ \E s \in (IF vms[me].ip THEN {"ready", "failed"} ELSE {"failed"}) :
          CommitRow(vms[me], s, "done")

ProvisionStep ==
    \/ Provision \/ Clone \/ RecordTarget \/ CloneDone \/ Configure
    \/ StartGuest \/ GuestStarted \/ GotIp \/ NoIp \/ MakeUnique \/ MadeUnique

DestroyStep ==
    \/ BeginReinstall \/ BeginDelete \/ NothingToDestroy \/ StopBeforeErase
    \/ Erase \/ Erased \/ FinishDelete \/ WipeRow

PowerStep == BeginPower \/ PostPower \/ Stopped \/ PoweredOn \/ PowerIp

BodyStep == ProvisionStep \/ DestroyStep \/ PowerStep \/ CheckSsh

-----------------------------------------------------------------------------
(* The process dies and comes back.                                        *)

ProcessDies ==
    /\ Crash
    /\ req' = [r \in Requests |-> NoReq]
    /\ body' = NoBody
    /\ UNCHANGED <<rowVars, guests>>

\* Mutant: any interrupted job's VMID is adopted.
AdoptedFromAny(v) ==
    {jobTarget[j] : j \in {k \in Jobs : /\ jobStatus[k] = "running"
                                        /\ jobTarget[k] # NoVmid}}

\* mark_orphaned_running_as_failed: a running job that had got as far as its
\* clone hands the VMID to its row; live rows in a transient status get error.
Adopted(v) ==
    {jobTarget[j] : j \in {k \in Jobs : /\ jobStatus[k] = "running"
                                        /\ jobVm[k] = v
                                        /\ jobTarget[k] # NoVmid}}

\* The query has no ORDER BY: the first of several jobs, whichever it is, counts.
VmidAfter(v) ==
    IF vms[v].vmid = NoVmid /\ Adopted(v) # {} THEN Adopted(v) ELSE {vms[v].vmid}

\* Mutant: only the VMIDs are seen to.
RecoveredVmid(v, i) == [vms[v] EXCEPT !.vmid = i]

\* Mutant: the clone of the interrupted job is not adopted.
RecoveredStatus(v, i) ==
    [vms[v] EXCEPT
        !.status = IF @ \in Transient /\ ~vms[v].deleted THEN "error" ELSE @]

Recovered(v, i) ==
    [vms[v] EXCEPT
        !.vmid = i,
        !.status = IF @ \in Transient /\ ~vms[v].deleted THEN "error" ELSE @]

RecoverRows ==
    /\ Recover
    /\ \E f \in [VMs -> Vmids \cup {NoVmid}] :
          /\ \A v \in VMs : f[v] \in VmidAfter(v)
          /\ vms' = [v \in VMs |-> Recovered(v, f[v])]
    /\ UNCHANGED <<jobVm, jobTarget, guests, req, body>>

RequeueJobs ==
    /\ Requeue \/ RequeueCommit
    /\ UNCHANGED <<rowVars, guests, req, body>>

-----------------------------------------------------------------------------
Client ==
    \E r \in Requests :
        \/ \E h \in Hosts : CheckCreate(r, h)
        \/ \E t \in Wanted, v \in VMs : CheckRow(r, t, v)

HandlerStep(r) ==
    \/ LockCreate(r) \/ HandlerFails(r) \/ MarkPending(r)
    \/ \E v \in VMs, j \in Jobs : CommitCreate(r, v, j)
    \/ \E j \in Jobs : CommitJob(r, j)

Handler ==
    \/ \E r \in Requests : HandlerStep(r)
    \/ \E j \in Jobs : Enqueue(j) \/ Drop(j)

Worker ==
    \/ TakeJob \/ StartJob \/ BodyStep \/ JobSucceeds \/ JobFails
    \/ \E k \in Jobs : SubmitCheck(k)
    \/ EnqueueCheck
    \/ JobDropped \/ JobAbandoned \/ CheckRetracted

Boot == RecoverRows \/ RequeueJobs

Next == Client \/ Handler \/ Worker \/ Boot \/ ProcessDies

Spec == Init /\ [][Next]_vars

(***************************************************************************)
(* Fairness, as in JobQueue: the worker's waits all have deadlines (600 s  *)
(* for a task, at most 600 s for an address, 90 s for SSH), each handler   *)
(* runs on to its answer, and the container restarts a process that died.  *)
(***************************************************************************)
FairSpec ==
    /\ Spec
    /\ WF_vars(Worker) /\ WF_vars(Boot)
    /\ \A r \in Requests : WF_vars(HandlerStep(r))
    /\ \A j \in Jobs : WF_vars(Enqueue(j) \/ Drop(j))

-----------------------------------------------------------------------------
(* Properties.                                                             *)

TypeOK ==
    /\ QueueTypeOK
    /\ vms \in [VMs -> VMRows]
    /\ jobVm \in [Jobs -> VMs \cup {NoVm}]
    /\ jobTarget \in [Jobs -> Vmids \cup {NoVmid}]
    /\ guests \in [Vmids -> Guests]
    /\ req \in [Requests -> ReqRecords]
    /\ body \in Bodies

\* No two live rows have the same hostname, although the table has no unique
\* index on it and create_vm awaits the preflight after its first lookup
\* (routes.create_vm, _CREATE_VM_LOCK).
HostnameUnique ==
    \A u, v \in VMs : Live(u) /\ Live(v) /\ vms[u].host = vms[v].host => u = v

\* A database error has struck one of v's jobs since the last start.
Struck(v) == \E j \in struck : jobVm[j] = v

\* A live row in a transient status is being worked on: the worker is in one of its
\* jobs, or its create job is queued - unless a database error kept dispatch from
\* recording how one of its jobs ended. Otherwise nothing would ever take it out of
\* that status (comments in lifecycle.py:102 and inprocess.py:82).
TransientHasJob ==
    WorkerAlive => \A v \in VMs : Live(v) /\ vms[v].status \in Transient =>
        \E j \in Jobs : /\ jobVm[j] = v
                        /\ \/ pc = "running" /\ current = j
                           \/ j \in struck /\ jobStatus[j] = "running"
                           \/ /\ jobStatus[j] = "queued" /\ jobType[j] = "create_vm"
                              /\ vms[v].status = "creating"

\* A row is only reported deleted when its guest no longer exists, or when the lookup
\* before the destruction said so of a guest that does (delete_vm_job,
\* destroy_existing_vm, resolve_vm_node): no failed or unanswered task is taken for a
\* destruction.
DeleteStep ==
    \A v \in VMs : ~vms[v].deleted /\ vms'[v].deleted => ~HasGuest(v) \/ body.missed

DeleteIsClean == [][DeleteStep]_vars

\* What the panel says of a settled VM whose VMID was never handed out for another row
\* is true of its guest: it has one, and it is running or stopped as the row says,
\* whatever failed or crashed before - but a running one may have been halted by the
\* reboot that ends its provisioning, whose failure the panel ignores.
\* (Guests are not operated from outside the panel here.)
Matches(i, status) ==
    guests[i].state = status \/ (guests[i].state = "halted" /\ status = "running")

PanelAgrees ==
    \A v \in VMs : Live(v) /\ vms[v].status \in {"running", "stopped"} =>
        /\ vms[v].vmid # NoVmid
        /\ guests[vms[v].vmid].past = {v} => Matches(vms[v].vmid, vms[v].status)

\* A job acts only on guests whose VMID was once handed out for its own VM: the VMID in
\* the row is all that says which guest is the row's (destroy_existing_vm, power_job),
\* and it gets there by way of the job's metadata, over failures and restarts. That it
\* outlives the guest is the business of ErasesOwnGuest below.
OwnGuestStep ==
    \A i \in Vmids : Exists(i) /\ guests'[i] # guests[i] => me \in guests[i].past

OwnGuestOnly == [][OwnGuestStep]_vars

\* A VM's SSH is only ready at an address the panel has (check_ssh_ready), however
\* handlers and worker, whose copy of ssh_status goes stale, overwrite each other's
\* value, and whatever a reinstall does with the address (reinstall_vm_job).
ReadyHasIp == \A v \in VMs : vms[v].ssh = "ready" => vms[v].ip

\* The panel knows guest i: its row names it or, should the process die now, will
\* adopt it from the running job that cloned it.
Known(i) ==
    LET v == guests[i].owner
    IN  \/ vms[v].vmid = i
        \/ \E j \in Jobs : jobStatus[j] = "running" /\ jobVm[j] = v /\ jobTarget[j] = i

\* A guest the panel knows is forgotten while it exists in three cases only: the job
\* that cloned it fails while it waits for the clone; a reinstall wipes the row after a
\* lookup that missed the guest; a restart ends a job that was left running by a database
\* error, and adopts another VMID. No other crash, restart, reinstall or failed job does
\* it (mark_orphaned_running_as_failed, reinstall_vm_job).
RememberStep ==
    \A i \in Vmids : Exists(i) /\ Known(i) /\ Exists(i)' =>
        \/ Known(i)'
        \/ At("waitclone") /\ jobStatus'[current] = "failed"
        \/ At("wiped") /\ body.missed
        \/ mode = "down" /\ Struck(guests[i].owner)

KnownGuestsStay == [][RememberStep]_vars

\* A running VM whose SSH is pending has a check coming: the dashboard polls until the
\* check's result is in (app.js:248, dispatch's follow-ups, routes.recheck_ssh). A check
\* that is under way counts if its copy of ssh_status is pending: it would not write
\* the value it has already.
CheckComing(v) ==
    \/ \E j \in Jobs : jobVm[j] = v /\ j \notin struck /\
          \/ /\ jobType[j] = "ssh_readiness_check"
             /\ jobStatus[j] \in {"queued", "running"}
             /\ current = j => body.ssh = "pending"
          \/ HasFollowUp(jobType[j]) /\ jobStatus[j] = "running"
          \/ pc = "followup" /\ current = j
    \/ \E r \in Requests : req[r].pc = "marked" /\ req[r].vm = v

AwaitsSsh(v) == Live(v) /\ vms[v].status = "running" /\ vms[v].ssh = "pending"

NeedsCheck(v) == AwaitsSsh(v) /\ ~CheckComing(v)

\* A running VM whose SSH is pending loses its check only with the process or by a
\* database error: no other step of a handler, of the worker or of a start that has done
\* its recovery leaves it without (dispatch, recheck_ssh, requeue_queued_jobs). The error
\* strikes one of its jobs, or keeps recheck_ssh from its second commit.
CheckStep ==
    mode' \notin {"down", "recovered"} =>
        \A v \in VMs : NeedsCheck(v)' =>
            \/ NeedsCheck(v)
            \/ \E j \in struck' \ struck : jobVm[j] = v
            \/ \E r \in Requests : HandlerFails(r) /\ req[r].pc = "marked" /\ req[r].vm = v

ChecksKept == [][CheckStep]_vars

\* No VM stays in a transient status, unless a database error strikes one of its jobs.
TransientEnds ==
    \A v \in VMs : (Live(v) /\ vms[v].status \in Transient)
                      ~> (vms[v].status \notin Transient \/ Struck(v))

-----------------------------------------------------------------------------
(* What the repository says of the panel and the code does not keep.       *)

\* app.js:351 and app.js:561: an error row without VMID "failed before
\* creating a VMID", and removing it leaves no disk behind.
NoVmidNoGuest ==
    \A v \in VMs : Live(v) /\ vms[v].status = "error" /\ vms[v].vmid = NoVmid =>
        \A i \in Vmids : Exists(i) => guests[i].owner # v

\* app.js:560, deployment.md:284: deleting or reinstalling a VM erases that VM,
\* and no other, in Proxmox.
EraseStep ==
    \A i \in Vmids : Exists(i) /\ ~Exists(i)' => guests[i].owner = me

ErasesOwnGuest == [][EraseStep]_vars

\* app.js:560: deleting a VM removes it from Proxmox "permanently": a deleted row
\* whose guest is gone does not get another.
GoneStep == \A v \in VMs : vms[v].deleted /\ ~HasGuest(v) => ~HasGuest(v)'

DeletedStaysGone == [][GoneStep]_vars

\* lifecycle.py:102-104: a restart leaves nothing behind that keeps the dashboard
\* refreshing for ever.
DashboardWork ==
    \E v \in VMs : AwaitsSsh(v) \/ (Live(v) /\ vms[v].status \in Transient)

RestartSettles == mode = "recovered" ~> ~DashboardWork

=============================================================================
