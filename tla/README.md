# A TLA+ model of the VM panel

The repository is a single-process web panel (FastAPI, SQLAlchemy on SQLite or
Postgres, asyncio) that creates and operates virtual machines on a Proxmox
cluster. Requests record *jobs*; one worker inside the process runs them against
Proxmox; a single-page dashboard polls the result. This directory holds TLA+
modules of its core, TLC configurations that check them on small instances, and
proofs, checked by TLAPS, of the properties that hold for every instance.

All paths below are relative to `src/backend/app/` unless they say otherwise.

## 1. The system

| Component | State it keeps | Operations | Talks to |
|---|---|---|---|
| Job queue and worker (`workers/inprocess.py`, `main.py` lifespan) | table `jobs`; in-memory `JOB_QUEUE` | `enqueue`, `worker_loop`/`dispatch`, `mark_orphaned_running_as_failed`, `requeue_queued_jobs` | handlers put jobs; the worker calls the job bodies |
| VM lifecycle (`api/routes.py`, `services/lifecycle.py`) | table `vms`, job metadata | create, start, stop, reboot, reinstall, delete, recheck SSH; the bodies of these jobs | queue, Proxmox client, SSH |
| Proxmox client (`services/proxmox.py`) | none; the cluster's guests and tasks | requests with retries, waits for tasks and addresses, lookups, parsers | Proxmox API |
| Terminal sessions (`services/terminal.py`) | table `terminal_sessions`, WebSockets | create, claim, pump, close; SSH readiness | `vms`, SSH |
| Admin auth (`api/auth.py`, `services/credentials.py`) | `admin_credentials`, `password_resets`, in-memory throttles | login, forgot, reset, change password | e-mail |
| Exposures (`api/routes.py`, `api/internal.py`, `exposure_proxy.py`) | `vm_exposures`; the proxy's cache | create, delete, look up, proxy | `vms` |
| Disk sizing, templates (`services/lifecycle.py`) | `vms.disk_gb`, table `templates` | `ensure_disk_size`, `seed_templates` | Proxmox client |
| Backup (`services/backup.py`) | snapshot files | snapshot, rotate | the database file |
| Dashboard (`web/js/app.js`) | page, timers | polling, create monitor, forms | the API |
| Audit, e-mail, config, readiness, errors | append-only rows, settings | - | - |
| Server-rendered pages (`ui/`, `templates/`, `static/`) | - | not mounted by `main.py` | - |
| Migrations, operator scripts | - | DDL, interactive administration | - |

How they interact. A handler checks the VM's row, commits a `jobs` row with
status `queued`, and puts its id on `JOB_QUEUE`. The worker takes one id at a
time, marks the row `running`, runs the body - a series of commits to the VM's
row and calls to Proxmox - and commits `success` or `failed`. A job that leaves
the VM running ends with a second job, an SSH readiness check. Everything runs
on one event loop, so steps interleave only at an `await`; every commit and every
Proxmox call is one. When the process dies its queue is gone; at the next start
rows left `running` are failed, VMs in a transient status become `error`, and
rows left `queued` are put on the new queue - except jobs that need a root
password, which is never stored.

What is hard here, and what correctness means:

- **Queue.** Two stores, table and memory, are updated one after the other by
  several tasks, crashes hit between, and a commit or a refresh that raises ends what it
  interrupts: nothing is tried again or rolled back. *No accepted job is delivered twice or
  run twice; only a database error loses one, until the next start; every other job ends.*
- **Lifecycle.** A request is checked long before its job runs; requests that
  exclude each other can be queued together. Proxmox calls fail before or after
  they took effect, and a lookup may say that a guest does not exist because nobody
  could tell. *Hostnames stay unique; no VM is stuck in a transient status but by a
  database error; the row of a settled VM agrees with its guest; a row is only called
  deleted when its guest is gone or was reported missing; a job touches only guests with a
  VMID its own VM was given; a pending SSH status has a check to come.*
- **Terminal sessions.** *A session that has ended is never connected again; a
  connected one is being served; a VM or client that went away has no terminal.*
- **Proxmox client.** Every request is lost, late or repeated at times, and tasks go on
  when nobody waits any more. *A call that returns has had its effect; a call ends
  even if the cluster does nothing.*
- **Admin auth.** Handlers read a row or a list, await, and write back what they made of
  it. *A used code stays used; two codes are good only if they were asked for at the same
  time; guesses are limited; the password changes only by who holds a code or knows it;
  throttles refuse nobody else and let through no more than they say.*
- **Exposures.** *A slug leads to its VM or nowhere, up to the cache's age.*
- **Disk sizing, backup, templates.** *A disk is never shrunk; rotation keeps a good
  snapshot; seeding keeps what an operator stored and is idempotent.*
- **Dashboard.** *It stops polling when nothing is going on, shows no answer older
  than the form it belongs to.*

The hazards behind these, each at its line, are in `PROJECT.json`.

## 2. Modules

| Module | What it is |
|---|---|
| `JobQueue` | the queue: table, memory, handlers, worker, crash, start-up; what a job does is left open |
| `JobPromise` | what clients of the panel rely on, the abstract specification of `JobQueue` |
| `VMLifecycle` | extends `JobQueue`: rows, handlers, job bodies step by step, the cluster's guests |
| `MCVMLifecycle` | symmetry for the runs without liveness |
| `JobQueueProofs` | inductive invariant of the queue and its theorems |
| `VMLifecycleProofs` | inductive invariant of the panel, the refinement of `JobQueue`, and its theorems |
| `ProxmoxCall` | one call of the client: attempts, polling, and what becomes of the operation at the cluster |
| `CallPromise` | what jobs rely on when they call Proxmox, the abstract specification of `ProxmoxCall` |
| `Provision`, `ProvisionProofs` | extends `ProxmoxCall`: `provision_vm_from_template` call by call, and the size of the disk; the refinement of `CallPromise` and theorems |
| `Exposure`, `MCExposure`, `ExposureProofs` | slugs, the upstream lookup and the proxy's cache; symmetry; theorems |
| `TerminalSession`, `TerminalSessionProofs` | the rows of terminal sessions and the sockets on them; theorems |
| `Throttle`, `MCThrottle`, `ThrottleProofs` | the lists of times `login` and `_throttle` keep; symmetry; theorems |
| `AdminPassword`, `MCAdminPassword`, `AdminPasswordProofs` | reset codes and the administrator's password; symmetry; theorems |
| `Backup`, `BackupProofs` | snapshots and their rotation; theorems |

### JobQueue

`jobStatus`, `jobType` are the table; `queue` is `JOB_QUEUE`; `committed` holds the
jobs some task has committed but not yet put; `pc` and `current` are the worker;
`mode` is how far the process has started. `struck` is a ghost: the jobs whose handling a
database error has cut short since the last start. Job ids are numbered in the order of
their commits (UUIDs in the code; nothing reads an order out of them).

| Action | Code |
|---|---|
| `SubmitJob`, `EnqueueJob` | a handler's commit; its `enqueue` after the refresh (`routes.py:560-566` and alike) |
| `DropJob` | that refresh raises: nobody puts the job |
| `WorkerGet`, `WorkerStart` | `worker_loop` and `dispatch` up to the commit of `running` |
| `WorkerDrops` | its reads or that commit raise, before `dispatch`'s `try` block: `worker_loop` logs it and goes on, the job stays `queued` in the table |
| `WorkerSucceed`, `WorkerFail` | the commit of `success`; the `except` clause |
| `WorkerSubmitCheck`, `WorkerEnqueueCheck` | `enqueue_ssh_check` and the put that follows it |
| `WorkerRetracts` | the refresh in `enqueue_ssh_check` raises and the `except` clause commits: the success becomes `failed`, nobody puts the check |
| `WorkerAbandons` | a commit inside the `try` block raises, and so does the one of the `except` clause, in the same session and without a rollback: the row keeps what the last good commit said |
| `Crash` | the process dies at any point: queue, handlers and worker are gone |
| `Recover` | `mark_orphaned_running_as_failed` |
| `Requeue`, `RequeueCommit` | `requeue_queued_jobs`: its loop of puts (which never suspend), and its final commit, with the worker already running between the two |

A commit that raises has had its effect or not; if it had, that is the step of the commit
followed by the step of the error. `Strike` counts a database error against `MaxFaults`
and marks the job; the next start ends it or takes it up again, so `Recover` clears the
marks. An error in the start-up itself keeps the process from starting, which is a crash.

`OrderingsOf` gives every order in which the query of `requeue_queued_jobs`,
which has no ORDER BY, may return its rows.

### VMLifecycle

Each action is a step of `JobQueue` conjoined with what it does to the rows, or
leaves the queue alone. A row keeps hostname, status, SSH status, VMID, whether it
has an address, and whether `deleted_at` is set. A guest has a state and the
row it was cloned for (its name); the ghost `past` remembers every row its VMID was ever handed
out for, since `/cluster/nextid` (`NextIds`) gives out any VMID that has no guest, used
before or not. `halted` is the state of a guest that the reboot at the end of its
provisioning has left stopped. `req[r]` is a handler between two awaits:
`CheckCreate`, `LockCreate` and `CommitCreate` are `create_vm` before the
preflight, at the lock, and at the commit; `CheckRow`, `MarkPending` and
`CommitJob` are the other handlers. `body` holds the local variables of the job's
body, among them the session's own copy of `ssh_status`: sessions do not refresh
rows after a commit (`db/session.py:10`), so an assignment equal to the copy
writes nothing (`CommitRow`). The other columns a body reads are written by the
worker alone, so no copy is needed.

Each step of a body is one action, named for what it does: `Provision`, `Clone`,
`RecordTarget`, `CloneDone`, ... for `provision_vm_from_template`;
`BeginDelete`, `StopBeforeErase`, `Erase`, `Erased`, `FinishDelete` for
`delete_vm_job` and `destroy_existing_vm`; and so on. `Task` is any POST or DELETE that
starts a Proxmox task: it takes effect and is answered, takes effect and the
answer is lost, or is accepted and fails; `JobFails` is also possible at every step
that calls Proxmox, before any effect. A task's effect is one step, placed at the
request: Proxmox locks a guest while a task works on it, so no other task of the
panel can come between. A task that was seen to end well is taken to have done its work.

`NothingToDestroy` is possible whether or not there is a guest: `resolve_vm_node`
(`services/proxmox.py:136-152`) passes over an error of the node, `cluster_resources` (line
84) takes an answer that is no list for an empty one, and `destroy_existing_vm` returns on
the "não encontrado" that follows. The ghost `body.missed` remembers that there was a guest.
Elsewhere a lookup that misses a guest fails the job, as `JobFails` does. `MakeUnique` and
`MadeUnique` are the new machine id and the reboot at the end of a provisioning
(`services/lifecycle.py:263-299`): the reboot may halt the guest, and the row stays `running`
and gets an address or keeps the one it has, since `ProxmoxError` is swallowed.

| Step of a database error | Code |
|---|---|
| `HandlerFails` | a handler raises before its commit (or its preflight failed); `recheck_ssh` may have committed `pending` already |
| `Drop`, `JobDropped` | `DropJob` and `WorkerDrops` of the queue |
| `JobAbandoned` | `WorkerAbandons`: the row of the VM stays as the last commit left it |
| `CheckRetracted` | `WorkerRetracts`: the VM gets `error` |

Abstractions: retries inside a call are part of its outcomes; metadata other than
`target_vmid`, sizes, templates, audit rows and error texts are left out; the
preflight only passes or fails; guests are not operated from outside the panel.

### ProxmoxCall and Provision

A call of `ProxmoxClient` is a few requests, and `Begin` names its kind: a read, a
setting (PUT), a task with `wait_for_task`, `wait_for_ip`, or `reset_machine_id` with the
script it has the guest run. `attempt` counts the failed attempts of a request, `late` says
that the deadline of the polling has passed, `round` is the loop of `reset_machine_id`.
`op` is the operation at the cluster, which goes on by itself (`OpEnds`).

| Action | Code |
|---|---|
| `Answered`, `Polled` | a good answer to a request, to a poll |
| `Transient` | an attempt that is repeated, up to `MaxAttempts` (`_request`); it may have got through all the same (`Reached`) |
| `Refused` | a status that is not repeated |
| `Breaks` | an exception `_request` does not catch |
| `RequestFails`, `NextRound` | what the loops make of a request that failed for good: `wait_for_task` raises, `wait_for_ip` and `reset_machine_id` go on |
| `DeadlinePasses` | the clock, at any moment while a loop polls |

`Provision` runs these calls in the order of `provision_vm_from_template` over a creation
and any number of reinstalls. `CallOf` gives the kind of each step's call; the actions of
the job say what it does with a call that returned or raised: `LookedUp` (the node of the
template), `Proceeds`, `Fails`, `Settles` (failures after the start are forgiven),
`AskedCluster` and `AskedNode` (the two lookups of `vm_disk_size_gb`, each of which may not
know), `Skip`, `Resize` and `Resized` (`ensure_disk_size`). `diskGb` is the column, `disk` the
guest's disk in parts of a gigabyte, since a template's disk need not have whole ones;
`InGb` is the rounding of both parsers.

Assumed of the cluster: a task that failed has an exit status other than OK; a task that
is under way or done is not started a second time by a repeated request (the VMID is
locked, or taken); a resize only grows a disk. `wait_for_ip` asks of the guest only that it
gets an address. `VMLifecycle` places a task's effect at the request; here it may come when
the job has long given up, and `CallPromise` says so.

### Exposure

`exposure` is `vm_exposures` by slug; `creating` and `removing` are handlers between their
checks and their commits; `addr` and `deleted` are columns of `vms` that jobs change. The
proxy is a process of its own with a clock, `cache` (`_cache`) and `lookup`, the calls of
`resolve` that wait: `Ask` takes the time, `ReadExposure` and `ReadVm` are the two reads of
`exposure_upstream`, `Arrive` writes the cache, `ErrorPage` and `Raise` are an answer
other than 200 and an exception. Two ghosts, `slugAt` and `addrAt`, remember when a slug
was last a VM's and an address last a live VM's.

### TerminalSession

`status` is the table; `overdue` says which `expires_at` have passed. A socket's `pc` is at
an await of `validate_and_claim_session` (`Open`, `MarkExpired`, `CheckVm`, `Claim`, `Refresh`) or
of `terminal_websocket` (`Accept`, `Dial`, `PumpEnds`, `UserEnds`, `Close`). `seen` is the
status the ORM has loaded, which decides whether `Close` writes one. The VM's row, its
guest, the clients and the process change at any point. `accept` is outside the `try`
block, so a row may be left connected; the ghost `left` remembers which. Two sockets may
be on one session, and the first to end closes the row for both: nothing in the
repository says otherwise, and no property does.

### Throttle

One client address. A list of times is the set of the calls that read the clock at these
times (`at`), so equal times are no problem. `Login` is the handler up to `await verify_admin`:
it stores the filtered list (`loginFails`) and keeps it in a variable (`fails`); `Wrong` stores that
variable with the call's own time, whatever has been stored meanwhile, `Right` pops the
list, `VerifyRaises` leaves it. `Request` is `_throttle`, which has no await. `Restart` empties
everything: the lists live in memory. The ghosts `wrong`, `passed` and `overlapped` remember
what happened. Lists of other addresses are lists of their own; the clock is monotonic.

### AdminPassword

`issued`, `users`, `attempts` and `overdue` are the columns of `password_resets`; a code goes by
the call of `forgot` it is of, and `users` says whose commits set its `used_at` (the ORM writes
only columns that were assigned, so a call that commits `attempts` leaves `used_at` alone).
`password` is the one row of `admin_credentials`. Each call is at an await: `SelectOlds` and
`Issue` are `forgot`, `SelectEntry`, then `LockCode`, `WrongCode` or `RightCode` and `StoreReset` are
`reset`, `VerifyCurrent` and `StoreChange` are `change_password`. `Boot` is a crash and
`seed_admin_credential`. `Fails` is a database that does not answer.

Left out: requests that a throttle or the length of the new password stops, hashing, the
mail (it is sent after the commit: when it fails the code stays issued), cookies.
`SelectEntry` takes any unused code, where the query takes the newest: `OneGoodCode`
shows that there are two only from calls of `forgot` that overlapped, and their order
is arbitrary. Without a row `verify_admin` compares with the environment, which would have
been stored at the start if it had a password: nobody can log in. The ghost `met` remembers
which calls overlapped.

### Backup

Files are identified with the stamps in their names; `good` are those whose copy was
completed. `Wake` creates the file, `Copied` completes it and looks up the files to remove,
`CopyFails` leaves it behind, `Remove` takes the oldest first and may fail. The clock is
assumed not to be set back: with a stamp from the future in the directory a new copy
would be rotated out at once.

## 3. Runs

| Run | Instance | Shows |
|---|---|---|
| `VMLifecycle` | 2 rows, 2 hostnames, 2 requests, 4 jobs, 1 fault, reinstalls and deletions | `HostnameUnique`, `ReadyHasIp`, `DeleteIsClean`, `OwnGuestOnly`, `QueueSpec` (the refinement) |
| `VMLifecycle_live` | 1 row, 3 jobs, 2 faults, all requests | `TypeOK`, `TransientHasJob`, `PanelAgrees`, `KnownGuestsStay`, `ChecksKept`, `TransientEnds`; the queue's `NoLostJob`, `NoDoubleDelivery`, `RunningIsCurrent`, `RunAtMostOnce`, `KeepsJobPromise` (the refinement of `JobPromise`), `EveryJobEnds` |
| `VMLifecycle_reuse` | 2 rows, 5 jobs, no faults | `ErasesOwnGuest` is violated |
| `VMLifecycle_orphan` | 1 row, 3 jobs, no faults | `NoVmidNoGuest` is violated |
| `VMLifecycle_revived` | 1 row, 5 jobs, no faults | `DeletedStaysGone` is violated |
| `VMLifecycle_restart` | 1 row, 3 jobs, 1 fault | `RestartSettles` is violated |
| `Provision` | 4 attempts, 15 rounds, requests 2, 3, 6 GB, templates of 0.5 to 5.5 GB, minimum none or 3 GB | `TypeOK`, `RowHasRealSize`, `SizeKept`, `KeepsPromise` (the refinement), `JobEnds` |
| `Exposure` | 2 VMs, 1 slug, 1 address, 2 concurrent lookups, TTL 2, times to 2 | `TypeOK`, `CacheFresh`, `SlugNotStolen` |
| `TerminalSession` | 1 session, 3 sockets | `TypeOK`, `ConnectedIsServed`, `EndedStaysEnded`, `CallsEnd` |
| `Backup` | keep 2, times to 6 | `TypeOK`, `NewestStays` |
| `Throttle` | 5 calls, windows of 2, limits of 2, times to 3 | `TypeOK`, `ThrottleHolds`, `LoginHolds`, `NobodyElseBlocked` |
| `AdminPassword` | 4 calls, 1 attempt | `TypeOK`, `OneGoodCode`, `GuessesLimited`, `UsedForGood`, `PasswordHeld` |

**Bounds.** `Jobs` bounds the accepted requests; three jobs are a job, its
follow-up check and one more that overlaps both, four let two VMs be created or
one be created and then acted upon while a second request is in flight. `MaxFaults` bounds
the deaths of the process and the database errors together. Two faults are a crash in the
recovery from a crash, a crash after an error, or an error in a process that has just
recovered. `Wanted` is what clients ask of a VM that is there: with two VMs it is what
makes VMIDs free and takes them again, a reinstall and a deletion; with one VM it is everything. Two requests suffice for every race of
two handlers, two VMIDs for the guest of a reinstall next to the one before. A
request is accepted only when job ids are left for it, for the requests in flight
and for all their follow-up checks (`Room`), so that the bound never
makes the worker wait. When ids and faults are used up the system stops, and so
deadlock is not checked. The queue is checked inside the panel, where a job does what its body does. The run
`VMLifecycle` has about one and a half million states. `MaxAttempts` and `MaxRounds` are the values in the code. The sizes of `Provision` lie below, at and above one another, on and off a whole
gigabyte. A TTL of 2 with times to 2 has room for an answer that is on its way while the
clock passes its expiry, and for a second question after the first answer has
expired; two lookups answer in either order, and two VMs may have the one
address one after the other. Three sockets are one that
closes, one that claims and one that expires a row. Seven stamps hold two good files,
failed ones between them, and the next copy. Five calls fill a limit of two while two
overlap and one is refused, and times to 3 let a hit leave a window of 2. Four calls are
two codes from overlapping calls of `forgot`, and two that use them, or a code that is
guessed at, locked and used after its replacement was asked for. VMIDs, hostnames, requests, the VMs,
addresses and lookups of `Exposure`, and the calls of `Throttle` and `AdminPassword` are symmetric in the safety runs; no symmetry is used where liveness is checked.

**Fairness.** Weak fairness of the worker's steps, of the start-up and of
handlers that are past their checks; which of its steps the worker or a handler takes, a
failing one or another, is left open. The worker is one task of the event loop
and all its waits have deadlines (600 s for a task, up to 600 s for an address,
90 s for SSH); a handler runs on to its answer; the container is restarted by
`docker-compose.yml` (`restart: unless-stopped`). Nothing is assumed of clients, and
faults are finitely many, as in any argument that something eventually gets done. What a
database error has struck need not end before the next start, which nobody promises:
`EveryJobEnds` and `TransientEnds` except it.
Weak fairness is enough: no step of one task disables another's for good. In
`TerminalSession` each call goes on at its awaits: SSH has `login_timeout` and keepalives, and
the receive of the other pump a timeout; nothing is assumed of clients, who may keep a
terminal open for ever (the dashboard's pings count as input, `terminal.py:187`, so a tab
in the browser is never idle). In `Provision` each attempt ends within its timeout (30 s), the deadlines of the
loops pass, and the worker goes on; `JobEnds` needs nothing of the cluster, which may lose every
request and never end a task.

**Disagreements** between the code and what the repository says, one per
violated run; the quoted lines are in `PROJECT.json`, `findings`:

1. *Another VM's guest is erased* (`VMLifecycle_reuse`). A deletion takes effect,
   its answer is lost, the row keeps the VMID. `/cluster/nextid` hands the VMID to
   another VM. Deleting the first row again erases the second VM.
   `OwnGuestOnly` says how far the row is to be trusted all the same: its VMID was once
   handed out for that row, and never came from another job or another row.
2. *"Failed before creating a VMID"* (`VMLifecycle_orphan`). The clone was made and
   the job failed before the VMID reached the row: the dashboard says there is
   nothing to erase, and removing the record leaves the guest behind.
   `KnownGuestsStay`: once the row has the VMID, or a restart would adopt it, the panel forgets a
   guest only when that wait fails, after a lookup that missed the guest, or after a
   database error.
3. *A deleted VM comes back* (`VMLifecycle_revived`). Delete and reinstall are
   both accepted while the VM is running; the deletion erases the guest, and the reinstall
   runs on the deleted row and gives it another.
4. *Refreshing for ever* (`VMLifecycle_restart`). A restart while a running VM waits
   for its address loses the SSH check; `pending` is never resolved.
   `ChecksKept`: but for the death of the process, the recovery after it and a database
   error, no step loses a check.

More were met that no run is spent on, since reading the code settles them:
- A VM is deleted "permanentemente no Proxmox" (`web/js/app.js:560`), but a guest that the
  lookup of `destroy_existing_vm` missed (`services/lifecycle.py:355-357`) lives on: a deletion
  hides its row, a reinstall clones a second one. `DeleteIsClean` and `KnownGuestsStay` except the
  missed lookup, and show that nothing else does it.
- A failed delete "must not leave the VM stuck in "deleting" forever"
  (`workers/inprocess.py:82-84`), but it does, until the next start, if what failed is a commit:
  the one of that clause is made in the same session and fails, too. `TransientHasJob` and
  `TransientEnds` except such a job, and show that nothing else does it.
- A success is taken back, and the VM called `error`, when its follow-up check cannot be
  put (`workers/inprocess.py:48-49`): the `try` block of `dispatch` is one step too long.
  `JobPromise` says so (`Fail`).
- `ensure_disk_size` requests a resize to any size, also a smaller one, when nobody tells
  the current size (`services/lifecycle.py:422`), although `docs/deployment.md:266` says the panel
  never tries to reduce a disk. Proxmox refuses, as `Provision` has it.
- A denied resize fails the job when the current size is known (`services/lifecycle.py:442`),
  although `docs/deploy-audit-2026-06-20.md:35` says that provisioning continues.
- The rotation keeps "the newest `keep` snapshots" (`services/backup.py:51`), but the file of a
  copy that failed counts as one, and a complete snapshot is rotated out for it. `NewestStays`
  shows that it is never the newest one.
- A code "só pode ser usado uma vez" ("can be used only once", `api/auth.py:126`), but two
  resets that both loaded it before either committed both use it; the properties of
  `AdminPassword` except calls that overlapped.
- Likewise `login` loses the failures that others recorded during its await, and
  `reset` counts two overlapping guesses as one: `LoginHolds` and `GuessesLimited` count those that
  ran alone.

## 4. Proofs

Checked by TLAPS for every value of the constants, from the named assumptions:
job and row ids are finite sets of naturals, the null values are not members of
the sets they stand next to, `MaxFaults` is a natural number, clients' wishes are job types.

`JobQueueProofs`. The properties are not inductive one by one: that a queue entry is
delivered once needs to know that the worker and the start-up agree on who may
hold a job. `QueueInv` adds to the properties
- `WorkerAgrees` - what the worker's `pc` says of the row of `current`;
- `CommittedAgrees` - a job not yet put is queued, and not the one the worker runs;
- `StruckIsOut` - a job that an error has struck is in nobody's hands;
- `QuietBoot` - queue, handlers and worker are empty until the start-up gets to them, and
  nothing is struck when it has recovered;
- `HalfRequeued` - between the loop and the commit of `requeue_queued_jobs` a queued
  row that can be taken up is on its way, or struck.

One lemma per action shows `QueueInv` inductive; the theorems `QueueTypeCorrect`,
`NoJobIsLost`, `NoJobIsDoubled`, `RunningRowIsCurrentJob` and `JobsRunAtMostOnce` follow.

`JobPromise` says the same to a client who sees only the status of the jobs, whether the
process lives, and which job it works on: they are worked on one at a time and at most
once, none fails without having been begun but while a process starts, only who works on
a job ends it or takes its success back, and one that is still `running` when a process
starts has failed when it gets to work. `Phase` maps `mode` to what the client sees of the
process: the loop of `requeue_queued_jobs` changes nothing for him, its commit does. `Working`
is the worker's job until the worker lets go of it, which after a database error may leave
the row as it is (`Leave`). `QueueKeepsPromise` maps each action of the queue to one of
`JobPromise` or a stutter.

`VMLifecycleProofs`. `LifecycleImplementsQueue` shows that every step of the panel is
a step of the queue or leaves its variables alone, so `QueueInv` holds of the panel
and `PanelJobsRunAtMostOnce` and `PanelKeepsJobPromise` are corollaries. `PanelInv` adds
- `JobsHaveRows` - a job, and a request past its checks, has a row, and rows stay;
- `LockGuards` - one request holds the lock, and no live row has the hostname it
  looked up: the fact that makes the second lookup and the insert one step.

`PanelTypeCorrect` and `HostnamesAreUnique` follow. The other properties need to know
where a job is and what it has learnt; `LifeInv` says so:
- `StepFits`, `StatusFits`, `GuestFits` (`BodyFits`) - which jobs get to which step of a body,
  the status of the row there, and what is known of its guest: after a task seen to end
  well it runs, is stopped or is gone, and it is gone or was missed before the row is
  marked or wiped. `BodyPost` says what a body's step does to row and guest, so the rest of
  the argument has one case for all of them;
- `JobsFit`, `CreateFits` - no job but the one inserted with it finds a row in status
  `creating`, and that one finds no VMID;
- `TransientCovered` - a transient row is the worker's, its create job is queued, or an
  error has left a job of it `running` (`LeftRunning`), and none is left when the start-up has
  recovered.

`TransientRowsHaveJobs` and `DeletionIsClean` follow.

`SettledRowsAgree` and `OnlyOwnGuests` assume nothing of `/cluster/nextid` but that a VMID it
gives out has no guest. `OwnInv` follows a VMID from the clone's answer (`CloneNamed`) to the
job's `target_vmid` (`TargetsNamed`) and to the row, directly or by adoption at a restart
(`RowsNamed`): whoever names a VMID is the row it was once handed out for. With it
`PanelAgrees` is inductive: only the row's own jobs act on a guest whose VMID no other row was ever
given (`GuestActs`), and while they do the row is in a transient status, or the guest is
halted by the last reboot of its provisioning.

`GuestsAreRemembered`: who knows a guest may be its row or the metadata of the running job,
and a crash passes it from one to the other. `KnowInv` says that a job's `target_vmid` is its
row's VMID or the row has none until the job has ended, struck ones excepted (`TargetFits`),
which of the two holds at each step of a body (`CloneFits`), and that a guest has an owner
(`OwnersFit`). `StepOrder` is the order of the steps as far as clones are concerned. That the
adoption of a restart has one candidate and not several, unless an error has left some
`running`, is `OneUnstruck`: of the jobs no error has struck at most one says `running`, dead or
alive.

`ReadyMachinesHaveAddress` rests on `SshFits`: the row's `ssh_status` is what the worker's copy
says or `pending`, since `recheck_ssh` writes nothing else, so a write that the stale copy
suppresses leaves no `ready` behind; and a reinstall gets to the steps that take the address away only
with a copy that says `pending`.

`OnlyFaultsLoseChecks` is argued step by step: each step of a live process that no error cuts
short keeps every check that is coming (`ChecksStay`), or the row it leaves pending has
one. `QueueTypeOK` is a conjunct of `TypeOK` and not checked by a run of its own.

`ExposureProofs`. `CacheFresh` follows from what a call knows at each of its steps: after
the first read that the slug was the VM's when the call began or later, after the second
that the address was too; `EntryTrue` says the same of a cache entry, counted back from its
expiry. That it survives time passing needs the ghosts to move forward only
(`GhostsStep`). This is where it matters that `resolve` takes the time before it asks.

`TerminalSessionProofs`. `EndedForGood` needs only types and the condition in the UPDATE of
`Claim`. `ConnectedRowsAreServed` adds `LoadedIsOver`: a call whose ORM has loaded `closed` may
skip the write because the row has ended for good.

`BackupProofs`. `RotatesAfterGood`: a rotation follows a completed copy, and no file is newer
than that one, so it is among the newest however few are kept, and it is the newest
good one (`NewestSnapshotStays`).

`ProvisionProofs`. `CallInv` says that a call is pending exactly while it has a stage, and that
one that is done has `op` = "yes"; with it each step of `Provision` is a step of `CallPromise` or
a stutter (`ClientKeepsPromise`), for any number of attempts and rounds. `SizeInv` says
what the job knows of the disk at each step. `RoundsUp` and `WholeGigabytes` are
the lemmas about `InGb`, a rounding up for any number of parts in a gigabyte.

`ThrottleProofs`. That a list has an exact count is one thing, that it has the right
members another: the invariant says that the list contains every recent request, or
every recent wrong password of a call that ran alone, although a stale list may have
replaced it. A stale list belongs to a call that overlapped with what it lost.

`AdminPasswordProofs`. `MetInv` says that `met` is symmetric and that two calls under way
have met; `KnowsBut` that what a call has loaded is still so but for what calls it has
met did. `LoneInv` is a counting argument: the guesses made alone on a code are never more than
its `attempts`, and a reset that has loaded the code will write back more than there are.

Only model-checkable: `EveryJobEnds`,
`TransientEnds`, `CallsEnd` and `JobEnds`, because the prover does not reason about fairness and ENABLED;
likewise anything a recursive definition computes for all inputs, since the
induction theorems cannot be instantiated.

## 5. Plan

1. `Dashboard`: polling, the create monitor and stale answers of the preflight.
2. `Templates`: `seed_templates` as operators over bounded inputs: idempotent, keeps what
   an operator stored.

## 6. Not modelled

Template seeding runs once at each start, before requests are served, with nothing
beside it. The dashboard's only rule that the server's properties depend on, when it goes
on refreshing, is in `RestartSettles`; its timers and forms are the browser's.
The audit log, e-mail, configuration and error envelopes keep no state the
system acts on. The server-rendered pages are not mounted. Migrations are straight-line DDL;
what matters of the schema (no unique index on hostnames, no version column) is a
premise of `VMLifecycle`. The operator scripts are interactive and outside the panel.
