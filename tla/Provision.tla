------------------------------ MODULE Provision ------------------------------
(***************************************************************************)
(* provision_vm_from_template call by call (the steps Provision to        *)
(* MakeUnique of VMLifecycle), and the size of the disk: what the client   *)
(* asked for (vms.disk_gb), what the clone of a template brings along, and *)
(* ensure_disk_size, which brings the two together. A VM is created once   *)
(* and reinstalled any number of times, from templates with disks of any   *)
(* size.                                                                   *)
(***************************************************************************)
EXTENDS ProxmoxCall

CONSTANTS
    Requests,        \* sizes a client may ask for, in GB
    TemplateDisks,   \* sizes of the templates' disks, in parts of a GB
    Minima,          \* values of a template's min_disk_gb
    Parts,           \* parts in a GB: disks need not have whole gigabytes
    Unknown          \* None

ASSUME SizesAssumption ==
    /\ Requests \subseteq Nat \ {0}
    /\ TemplateDisks \subseteq Nat \ {0}
    /\ Minima \subseteq Nat
ASSUME PartsAssumption == Parts \in Nat \ {0}
ASSUME UnknownAssumption == Unknown \notin Nat

VARIABLES
    pc,         \* where the job is
    diskGb,     \* vms.disk_gb; 0: no VM yet
    disk,       \* the disk of the guest, or of the one being cloned, in parts of a GB
    currentGb   \* current_gb, the size the job found out

sizeVars == <<diskGb, disk, currentGb>>
vars == <<callVars, pc, sizeVars>>

\* The calls of the job, by step.
CallOf == [template |-> "read", tplnode |-> "read", nextid |-> "read",
           clone |-> "task", config |-> "set", resource |-> "read", node |-> "read",
           resize |-> "set", start |-> "task", ip |-> "ip", uniq |-> "exec",
           reboot |-> "task", newip |-> "ip"]
Calling == DOMAIN CallOf
Ended == {"ok", "failed"}

Larger(a, b) == IF a > b THEN a ELSE b

\* disk_size_gb_from_resource and parse_disk_size_gb: whole gigabytes, rounded up.
InGb(parts) == Larger(1, (parts + Parts - 1) \div Parts)

Init ==
    /\ CallInit
    /\ pc = "idle" /\ diskGb = 0 /\ disk = 0
    /\ currentGb = Unknown

Enter(step) ==
    /\ pc' = step
    /\ IF step \in Calling THEN Begin(CallOf[step]) ELSE UNCHANGED callVars

BeginJob(templateDisk) ==
    /\ disk' = templateDisk
    /\ currentGb' = Unknown
    /\ Enter("template")

\* create_vm rounds the request up to the template's minimum.
Create(gb, min, templateDisk) ==
    /\ pc = "idle"
    /\ diskGb' = Larger(gb, min)
    /\ BeginJob(templateDisk)

\* reinstall_vm takes the size of the row as it is.
Reinstall(templateDisk) ==
    /\ pc \in Ended
    /\ UNCHANGED diskGb
    /\ BeginJob(templateDisk)

\* The call of a step is under way. Proxmox grows a disk and refuses to shrink one.
Possible == pc = "resize" => diskGb * Parts >= disk

Calls(step) ==
    /\ step
    /\ disk' = IF pc = "resize" /\ op # "yes" /\ op' = "yes" THEN diskGb * Parts ELSE disk
    /\ UNCHANGED <<pc, diskGb, currentGb>>

CallProceeds == pc \in Calling /\ Calls(ClientStep(Possible))
ClusterProceeds == Calls(ClusterStep)
TimePasses == Calls(DeadlinePasses)

-----------------------------------------------------------------------------
(* The job, when the call of its step has returned or raised.              *)

Came(step, result) == pc = step /\ stage = "idle" /\ outcome = result

\* resolve_template_node: the cluster may know the template, not know it, or know
\* something else by its id; the node is asked if the cluster did not know it or did
\* not answer, and if a node is configured.
LookedUp ==
    /\ \/ Came("template", "done") /\ \E s \in {"nextid", "tplnode", "failed"} : Enter(s)
       \/ Came("template", "failed") /\ \E s \in {"tplnode", "failed"} : Enter(s)
       \/ Came("tplnode", "done") /\ \E s \in {"nextid", "failed"} : Enter(s)
    /\ UNCHANGED sizeVars

\* tplnode, nextid, clone, config, start: what they raise ends the job; so does what is no
\* ProxmoxError in any step. A resize that outlives its job grows a disk which the
\* next one replaces.
Fails ==
    /\ \/ \E s \in Calling : Came(s, "broken")
       \/ \E s \in {"tplnode", "nextid", "clone", "config", "start"} : Came(s, "failed")
    /\ Enter("failed")
    /\ UNCHANGED sizeVars

Following == [nextid |-> "clone", clone |-> "config", config |-> "resource",
              start |-> "ip", ip |-> "uniq", uniq |-> "reboot", reboot |-> "newip"]

Proceeds ==
    /\ \E s \in DOMAIN Following : Came(s, "done") /\ Enter(Following[s])
    /\ UNCHANGED sizeVars

\* Without an address the job ends, with a warning or with none; so it does when
\* the machine-id or the reboot fails, and when the new address came.
Settles ==
    /\ \/ \E s \in {"ip", "uniq", "reboot", "newip"} : Came(s, "failed")
       \/ Came("newip", "done")
    /\ Enter("ok")
    /\ UNCHANGED sizeVars

\* vm_disk_size_gb asks the cluster, which may not know or not answer ...
AskedCluster ==
    /\ \/ Came("resource", "done") /\ currentGb' = InGb(disk) /\ Enter("decide")
       \/ \E r \in {"done", "failed"} : Came("resource", r)
          /\ UNCHANGED currentGb /\ Enter("node")
    /\ UNCHANGED <<diskGb, disk>>

\* ... and then the node, which may not say or refuse.
AskedNode ==
    /\ \/ Came("node", "done") /\ currentGb' \in {InGb(disk), Unknown}
       \/ Came("node", "failed") /\ UNCHANGED currentGb
    /\ Enter("decide")
    /\ UNCHANGED <<diskGb, disk>>

\* Mutant: a disk of unknown size is left as it is.
BigEnoughOrUnknown == currentGb = Unknown \/ diskGb <= currentGb

\* Mutant: the comparison the wrong way round.
SmallEnough == currentGb # Unknown /\ diskGb >= currentGb

BigEnough == currentGb # Unknown /\ diskGb <= currentGb

\* Mutant: the row is not told of the size the template has.
SkipSilently ==
    /\ pc = "decide" /\ BigEnough
    /\ Enter("start")
    /\ UNCHANGED <<diskGb, disk, currentGb>>

Skip ==
    /\ pc = "decide" /\ BigEnough
    /\ diskGb' = currentGb
    /\ Enter("start")
    /\ UNCHANGED <<disk, currentGb>>

Resize ==
    /\ pc = "decide" /\ ~BigEnough
    /\ Enter("resize")
    /\ UNCHANGED sizeVars

\* A failure is forgiven only when the current size is unknown; a resize that is
\* still under way then grows the disk now or never.
Resized ==
    /\ \/ Came("resize", "done") /\ Enter("start")
       \/ Came("resize", "failed") /\ Enter(IF currentGb = Unknown THEN "start" ELSE "failed")
    /\ \/ UNCHANGED disk
       \/ op = "running" /\ disk' = diskGb * Parts
    /\ UNCHANGED <<diskGb, currentGb>>

JobStep ==
    \/ LookedUp \/ Fails \/ Proceeds \/ Settles \/ AskedCluster \/ AskedNode
    \/ Skip \/ Resize \/ Resized

Next ==
    \/ \E gb \in Requests, min \in Minima, t \in TemplateDisks : Create(gb, min, t)
    \/ \E t \in TemplateDisks : Reinstall(t)
    \/ CallProceeds \/ ClusterProceeds \/ TimePasses \/ JobStep

Spec == Init /\ [][Next]_vars

\* Every attempt has a timeout, every loop a deadline, and the worker goes on.
FairSpec ==
    Spec /\ WF_vars(CallProceeds) /\ WF_vars(TimePasses) /\ WF_vars(JobStep)

-----------------------------------------------------------------------------
(* Properties.                                                             *)

TypeOK ==
    /\ CallTypeOK
    /\ pc \in Calling \cup Ended \cup {"idle", "decide"}
    /\ diskGb \in Nat /\ disk \in Nat
    /\ currentGb \in Nat \cup {Unknown}

\* ProxmoxClient keeps its promise: whatever got lost and was repeated, a call that
\* returns has had its effect (_request, wait_for_task, wait_for_ip,
\* reset_machine_id).
Promise == INSTANCE CallPromise WITH effect <- op = "yes"
KeepsPromise == Promise!Spec

\* After a job that knew the size of the disk, the row has the size the disk
\* really has, whole gigabytes: neither the request nor the template's is left
\* in the row by mistake, over any number of reinstalls (ensure_disk_size).
RowHasRealSize ==
    pc = "ok" /\ currentGb # Unknown => diskGb = InGb(disk)

\* A disk never ends up smaller than what its client was last shown: a reinstall
\* from a template with a smaller disk grows it again, unless the size could
\* not be found out (ensure_disk_size, reinstall_vm_job).
SizeKept ==
    [][/\ diskGb' >= diskGb
       /\ pc' = "ok" /\ currentGb' # Unknown => disk' > (diskGb - 1) * Parts]_vars

\* A job comes to an end whatever the cluster does, and even if it does nothing:
\* the only worker is never stuck in a call (_request, wait_for_task, wait_for_ip,
\* agent_exec, reset_machine_id).
JobEnds == pc \notin Ended \cup {"idle"} ~> pc \in Ended

=============================================================================
