------------------------------ MODULE Exposure ------------------------------
(***************************************************************************)
(* Exposures: a slug names a VM, and the exposure proxy, a process of its  *)
(* own, sends what arrives for the slug's host to the address of that VM.  *)
(* The proxy asks the panel for the address and keeps the answer for TTL   *)
(* seconds. Rows, addresses and exposures change while it asks. Ports go   *)
(* with their exposure, and a host is identified with its slug.            *)
(***************************************************************************)
EXTENDS Integers

CONSTANTS
    Hosts,      \* hosts, one for each slug
    VMs,        \* rows of vms
    Addrs,      \* addresses a guest may get
    Lookups,    \* concurrent calls of resolve
    TTL,        \* seconds an answer is kept: 5.0 in resolve
    MaxTime,    \* bound of the clock
    None

ASSUME TTLAssumption == TTL \in Nat
ASSUME MaxTimeAssumption == MaxTime \in Nat
ASSUME NoneAssumption == None \notin VMs /\ None \notin Addrs

VARIABLES
    exposure,   \* vm_exposures: the VM a slug belongs to, or None
    creating,   \* create_exposure requests past their checks: <<host, vm>>
    removing,   \* hosts whose exposure a delete_exposure request is about to remove
    addr,       \* vms.ip_address
    deleted,    \* vms.deleted_at is set
    now,        \* the proxy's clock
    cache,      \* _cache: until when an answer may be used, and the answer
    lookup      \* the calls of resolve that wait for the panel

rows == <<exposure, creating, removing>>
machines == <<addr, deleted>>
proxy == <<cache, lookup>>

\* Ghosts: the last time the slug was the VM's, and the address the live VM's.
VARIABLES slugAt, addrAt

vars == <<rows, machines, now, proxy, slugAt, addrAt>>

Never == -1

\* A call of resolve between two awaits, and one that is not under way.
Call == [pc: {"asked"}, host: Hosts, since: Nat, answer: {None}]
        \cup [pc: {"found"}, host: Hosts, since: Nat, answer: VMs]
        \cup [pc: {"answered"}, host: Hosts, since: Nat, answer: Addrs \cup {None}]
Idle == [pc |-> "idle", host |-> None, since |-> 0, answer |-> None]

\* What exposure_upstream makes of a row of vms.
Upstream(v) == IF deleted[v] THEN None ELSE addr[v]

Init ==
    /\ exposure = [h \in Hosts |-> None]
    /\ creating = {} /\ removing = {}
    /\ addr = [v \in VMs |-> None]
    /\ deleted = [v \in VMs |-> FALSE]
    /\ now = 0
    /\ cache = [h \in Hosts |-> [until |-> 0, dial |-> None]]
    /\ lookup = [l \in Lookups |-> Idle]
    /\ slugAt = [h \in Hosts |-> [v \in VMs |-> Never]]
    /\ addrAt = [v \in VMs |-> [a \in Addrs |-> Never]]

-----------------------------------------------------------------------------
(* The panel.                                                              *)

\* create_exposure finds the VM live and the slug free ...
CheckCreate(h, v) ==
    /\ ~deleted[v] /\ exposure[h] = None
    /\ creating' = creating \cup {<<h, v>>}
    /\ UNCHANGED <<exposure, removing, machines, now, proxy>>

\* Mutant: the schema without its unique index.
InsertAnyway(h, v) ==
    /\ <<h, v>> \in creating
    /\ creating' = creating \ {<<h, v>>}
    /\ exposure' = [exposure EXCEPT ![h] = v]
    /\ UNCHANGED <<removing, machines, now, proxy>>

\* ... and inserts its row, which the unique index refuses if another request
\* was faster.
Insert(h, v) ==
    /\ <<h, v>> \in creating
    /\ creating' = creating \ {<<h, v>>}
    /\ exposure' = [exposure EXCEPT ![h] = IF @ = None THEN v ELSE @]
    /\ UNCHANGED <<removing, machines, now, proxy>>

\* delete_exposure finds the VM live, so the exposures of a deleted VM stay ...
CheckRemove(h) ==
    /\ exposure[h] # None /\ ~deleted[exposure[h]]
    /\ removing' = removing \cup {h}
    /\ UNCHANGED <<exposure, creating, machines, now, proxy>>

\* ... and removes the row.
Remove(h) ==
    /\ h \in removing
    /\ removing' = removing \ {h}
    /\ exposure' = [exposure EXCEPT ![h] = None]
    /\ UNCHANGED <<creating, machines, now, proxy>>

\* A job writes the address of a VM, or None when it reinstalls it.
SetAddr(v, a) ==
    /\ addr' = [addr EXCEPT ![v] = a]
    /\ UNCHANGED <<rows, deleted, now, proxy>>

DeleteVm(v) ==
    /\ deleted' = [deleted EXCEPT ![v] = TRUE]
    /\ UNCHANGED <<rows, addr, now, proxy>>

-----------------------------------------------------------------------------
(* The proxy.                                                              *)

Tick ==
    /\ now < MaxTime /\ now' = now + 1
    /\ UNCHANGED <<rows, machines, proxy>>

Usable(h) == cache[h].until > now

\* resolve takes the time before it asks; a cached answer needs no asking.
Ask(l, h) ==
    /\ lookup[l] = Idle /\ ~Usable(h)
    /\ lookup' = [lookup EXCEPT ![l] =
                     [pc |-> "asked", host |-> h, since |-> now, answer |-> None]]
    /\ UNCHANGED <<rows, machines, now, cache>>

\* The call goes on with what it read.
Read(l, pc, answer) ==
    /\ lookup' = [lookup EXCEPT ![l] =
                     [pc |-> pc, host |-> @.host, since |-> @.since, answer |-> answer]]
    /\ UNCHANGED <<rows, machines, now, cache>>

\* Mutant: a host without an exposure goes unnoticed.
ReadUnchecked(l) ==
    /\ lookup[l].pc = "asked"
    /\ Read(l, "found", exposure[lookup[l].host])

\* exposure_upstream reads the exposure, and then, in a read of its own, the VM.
ReadExposure(l) ==
    /\ lookup[l].pc = "asked"
    /\ LET v == exposure[lookup[l].host] IN
           Read(l, IF v = None THEN "answered" ELSE "found", v)

ReadVm(l) ==
    /\ lookup[l].pc = "found"
    /\ Read(l, "answered", Upstream(lookup[l].answer))

\* Mutant: the answer counts from its arrival.
KeepFromArrival(l, dial) ==
    /\ cache' = [cache EXCEPT ![lookup[l].host] = [until |-> now + TTL, dial |-> dial]]
    /\ lookup' = [lookup EXCEPT ![l] = Idle]
    /\ UNCHANGED <<rows, machines, now>>

Keep(l, dial) ==
    /\ cache' = [cache EXCEPT ![lookup[l].host] =
                    [until |-> lookup[l].since + TTL, dial |-> dial]]
    /\ lookup' = [lookup EXCEPT ![l] = Idle]
    /\ UNCHANGED <<rows, machines, now>>

\* The answer arrives, however late other calls for the same host were answered.
Arrive(l) ==
    /\ lookup[l].pc = "answered"
    /\ Keep(l, lookup[l].answer)

\* A status other than 200 counts as "no such host".
ErrorPage(l) ==
    /\ lookup[l].pc \in {"asked", "found"}
    /\ Keep(l, None)

\* A timeout, a broken connection or a broken body raises out of resolve.
Raise(l) ==
    /\ lookup[l] # Idle
    /\ lookup' = [lookup EXCEPT ![l] = Idle]
    /\ UNCHANGED <<rows, machines, now, cache>>

Restart ==
    /\ cache' = [h \in Hosts |-> [until |-> 0, dial |-> None]]
    /\ lookup' = [l \in Lookups |-> Idle]
    /\ UNCHANGED <<rows, machines, now>>

-----------------------------------------------------------------------------
Panel ==
    \/ \E h \in Hosts, v \in VMs : CheckCreate(h, v) \/ Insert(h, v)
    \/ \E h \in Hosts : CheckRemove(h) \/ Remove(h)
    \/ \E v \in VMs, a \in Addrs \cup {None} : SetAddr(v, a)
    \/ \E v \in VMs : DeleteVm(v)

Proxy ==
    \/ Tick
    \/ \E l \in Lookups, h \in Hosts : Ask(l, h)
    \/ \E l \in Lookups :
          ReadExposure(l) \/ ReadVm(l) \/ Arrive(l) \/ ErrorPage(l) \/ Raise(l)
    \/ Restart

\* The ghosts remember when each fact was last true.
Remember ==
    /\ slugAt' = [h \in Hosts |-> [v \in VMs |->
                     IF exposure'[h] = v THEN now' ELSE slugAt[h][v]]]
    /\ addrAt' = [v \in VMs |-> [a \in Addrs |->
                     IF addr'[v] = a /\ ~deleted'[v] THEN now' ELSE addrAt[v][a]]]

Next == (Panel \/ Proxy) /\ Remember

Spec == Init /\ [][Next]_vars

-----------------------------------------------------------------------------
(* Properties.                                                             *)

TypeOK ==
    /\ exposure \in [Hosts -> VMs \cup {None}]
    /\ creating \subseteq Hosts \X VMs /\ removing \subseteq Hosts
    /\ addr \in [VMs -> Addrs \cup {None}]
    /\ deleted \in [VMs -> BOOLEAN]
    /\ now \in Nat
    /\ cache \in [Hosts -> [until: Nat, dial: Addrs \cup {None}]]
    /\ lookup \in [Lookups -> Call \cup {Idle}]
    /\ slugAt \in [Hosts -> [VMs -> Int]] /\ addrAt \in [VMs -> [Addrs -> Int]]

\* An address the proxy may dial without asking belonged, within the last TTL
\* seconds, to a live VM that the slug named within the last TTL seconds: however
\* long the panel took to answer, and in whatever order its answers came.
CacheFresh ==
    \A h \in Hosts :
        Usable(h) /\ cache[h].dial # None =>
            \E v \in VMs : /\ slugAt[h][v] > now - TTL
                           /\ addrAt[v][cache[h].dial] > now - TTL

\* A slug passes to another VM only after its exposure was removed, whatever
\* requests for it run side by side (create_exposure).
SlugNotStolen ==
    [][\A h \in Hosts : exposure[h] # None => exposure'[h] \in {exposure[h], None}]_vars

=============================================================================
