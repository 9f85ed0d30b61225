--------------------------- MODULE ExposureProofs ---------------------------
(***************************************************************************)
(* Proofs about Exposure, for any number of hosts, VMs and concurrent      *)
(* calls, any TTL and any bound of the clock. What a call of resolve knows *)
(* grows step by step: first that the slug was the VM's, then that the     *)
(* address was too, both at its start or later; the cache inherits it.     *)
(***************************************************************************)
EXTENDS Exposure, TLAPS

\* The ghosts agree with the present and do not run ahead of the clock.
GhostsAgree ==
    /\ \A h \in Hosts, v \in VMs :
          slugAt[h][v] <= now /\ (exposure[h] = v => slugAt[h][v] = now)
    /\ \A v \in VMs, a \in Addrs :
          addrAt[v][a] <= now /\ (addr[v] = a /\ ~deleted[v] => addrAt[v][a] = now)

\* The slug h led to the address a, by way of some VM, at time t or later.
LedTo(h, a, t) == \E v \in VMs : slugAt[h][v] >= t /\ addrAt[v][a] >= t

\* What a call has read was true when the call began or later.
CallTrue(c) ==
    /\ c.since <= now
    /\ c.pc = "found" => slugAt[c.host][c.answer] >= c.since
    /\ c.pc = "answered" /\ c.answer # None => LedTo(c.host, c.answer, c.since)

\* So was what the cache holds, counted back from its expiry.
EntryTrue(h, e) == e.dial # None => LedTo(h, e.dial, e.until - TTL)

CallsAgree == \A l \in Lookups : CallTrue(lookup[l])
CacheAgrees == \A h \in Hosts : EntryTrue(h, cache[h])

FreshInv == TypeOK /\ GhostsAgree /\ CallsAgree /\ CacheAgrees

-----------------------------------------------------------------------------
\* The variables of the program, without the ghosts, keep their types in every action.
Typed ==
    /\ exposure \in [Hosts -> VMs \cup {None}]
    /\ creating \subseteq Hosts \X VMs /\ removing \subseteq Hosts
    /\ addr \in [VMs -> Addrs \cup {None}]
    /\ deleted \in [VMs -> BOOLEAN]
    /\ now \in Nat
    /\ cache \in [Hosts -> [until: Nat, dial: Addrs \cup {None}]]
    /\ lookup \in [Lookups -> Call \cup {Idle}]

LEMMA PanelTyped == Typed /\ Panel => Typed'
<1> SUFFICES ASSUME Typed, Panel PROVE Typed'
    OBVIOUS
<1> USE NoneAssumption DEF Typed, rows, machines, proxy
<1>1. ASSUME NEW h \in Hosts, NEW v \in VMs, CheckCreate(h, v) \/ Insert(h, v)
      PROVE Typed'
    BY <1>1 DEF CheckCreate, Insert
<1>2. ASSUME NEW h \in Hosts, CheckRemove(h) \/ Remove(h)
      PROVE Typed'
    BY <1>2 DEF CheckRemove, Remove
<1>3. ASSUME NEW v \in VMs, NEW a \in Addrs \cup {None}, SetAddr(v, a)
      PROVE Typed'
    BY <1>3 DEF SetAddr
<1>4. ASSUME NEW v \in VMs, DeleteVm(v)
      PROVE Typed'
    BY <1>4 DEF DeleteVm
<1> QED
    BY <1>1, <1>2, <1>3, <1>4 DEF Panel

LEMMA ProxyTyped == Typed /\ Proxy => Typed'
<1> SUFFICES ASSUME Typed, Proxy PROVE Typed'
    OBVIOUS
<1> USE TTLAssumption, NoneAssumption DEF Typed, rows, machines, proxy, Call, Idle
<1>1. CASE Tick
    BY <1>1 DEF Tick
<1>2. ASSUME NEW l \in Lookups, NEW h \in Hosts, Ask(l, h)
      PROVE Typed'
    BY <1>2 DEF Ask
<1>3. ASSUME NEW l \in Lookups, ReadExposure(l)
      PROVE Typed'
    BY <1>3 DEF ReadExposure, Read
<1>4. ASSUME NEW l \in Lookups, ReadVm(l)
      PROVE Typed'
    BY <1>4 DEF ReadVm, Read, Upstream
<1>5. ASSUME NEW l \in Lookups, Arrive(l) \/ ErrorPage(l)
      PROVE Typed'
    BY <1>5 DEF Arrive, ErrorPage, Keep
<1>6. ASSUME NEW l \in Lookups, Raise(l)
      PROVE Typed'
    BY <1>6 DEF Raise
<1>7. CASE Restart
    BY <1>7 DEF Restart
<1> QED
    BY <1>1, <1>2, <1>3, <1>4, <1>5, <1>6, <1>7 DEF Proxy

LEMMA TypeStep == TypeOK /\ [Next]_vars => TypeOK'
<1> SUFFICES ASSUME TypeOK, [Next]_vars PROVE TypeOK'
    OBVIOUS
<1>1. CASE UNCHANGED vars
    BY <1>1 DEF TypeOK, vars, rows, machines, proxy, Call, Idle
<1>2. CASE Next
    <2>1. Typed'
        BY <1>2, PanelTyped, ProxyTyped DEF Next, Typed, TypeOK
    <2>2. slugAt' \in [Hosts -> [VMs -> Int]] /\ addrAt' \in [VMs -> [Addrs -> Int]]
        BY <1>2, <2>1 DEF Next, Remember, Typed, TypeOK
    <2> QED
        BY <2>1, <2>2 DEF Typed, TypeOK
<1> QED
    BY <1>1, <1>2

LEMMA TypeInit == Init => TypeOK
BY NoneAssumption DEF Init, TypeOK, Call, Idle, Never

\* Type correctness (property TypeOK), for every value of the constants.
THEOREM ExposureTypeCorrect == Spec => []TypeOK
BY TypeInit, TypeStep, PTL DEF Spec

-----------------------------------------------------------------------------
LEMMA ClockRuns == Typed /\ (Panel \/ Proxy) => now <= now'
<1> SUFFICES ASSUME Typed, Panel \/ Proxy PROVE now <= now'
    OBVIOUS
<1>1. CASE Panel
    <2>1. now' = now
        BY <1>1 DEF Panel, CheckCreate, Insert, CheckRemove, Remove, SetAddr, DeleteVm,
                    rows, machines, proxy
    <2> QED
        BY <2>1 DEF Typed
<1>2. CASE Tick
    BY <1>2 DEF Typed, Tick
<1>3. CASE Proxy /\ ~Tick
    <2>1. now' = now
        BY <1>3 DEF Proxy, Ask, ReadExposure, ReadVm, Read, Arrive, ErrorPage, Keep,
                    Raise, Restart, rows, machines
    <2> QED
        BY <2>1 DEF Typed
<1> QED
    BY <1>1, <1>2, <1>3

\* Later is never less: what the ghosts say only moves forward in time.
Forward ==
    /\ now <= now'
    /\ \A h \in Hosts, v \in VMs : slugAt[h][v] <= slugAt'[h][v]
    /\ \A v \in VMs, a \in Addrs : addrAt[v][a] <= addrAt'[v][a]

LEMMA GhostsStep == TypeOK /\ GhostsAgree /\ [Next]_vars => Forward /\ GhostsAgree'
<1> SUFFICES ASSUME TypeOK, GhostsAgree, [Next]_vars PROVE Forward /\ GhostsAgree'
    OBVIOUS
<1>1. CASE UNCHANGED vars
    BY <1>1 DEF TypeOK, GhostsAgree, Forward, vars, rows, machines
<1>2. CASE Next
    <2>1. now <= now' /\ now \in Nat /\ now' \in Nat
        BY <1>2, ClockRuns, PanelTyped, ProxyTyped DEF Next, Typed, TypeOK
    <2>2. ASSUME NEW h \in Hosts, NEW v \in VMs
          PROVE /\ slugAt[h][v] <= slugAt'[h][v] /\ slugAt'[h][v] <= now'
                /\ exposure'[h] = v => slugAt'[h][v] = now'
        <3>1. slugAt'[h][v] = IF exposure'[h] = v THEN now' ELSE slugAt[h][v]
            BY <1>2 DEF Next, Remember
        <3>2. slugAt[h][v] \in Int /\ slugAt[h][v] <= now
            BY DEF TypeOK, GhostsAgree
        <3> QED
            BY <2>1, <3>1, <3>2
    <2>3. ASSUME NEW v \in VMs, NEW a \in Addrs
          PROVE /\ addrAt[v][a] <= addrAt'[v][a] /\ addrAt'[v][a] <= now'
                /\ addr'[v] = a /\ ~deleted'[v] => addrAt'[v][a] = now'
        <3>1. addrAt'[v][a] = IF addr'[v] = a /\ ~deleted'[v] THEN now' ELSE addrAt[v][a]
            BY <1>2 DEF Next, Remember
        <3>2. addrAt[v][a] \in Int /\ addrAt[v][a] <= now
            BY DEF TypeOK, GhostsAgree
        <3> QED
            BY <2>1, <3>1, <3>2
    <2> QED
        BY <2>1, <2>2, <2>3 DEF GhostsAgree, Forward
<1> QED
    BY <1>1, <1>2

\* Once true of a time, LedTo stays true of it.
LEMMA LedToStays ==
    ASSUME TypeOK, TypeOK', Forward, NEW h \in Hosts, NEW a \in Addrs, NEW t \in Int,
           LedTo(h, a, t)
    PROVE  LedTo(h, a, t)'
<1> PICK v \in VMs : slugAt[h][v] >= t /\ addrAt[v][a] >= t
    BY DEF LedTo
<1>1. slugAt[h][v] \in Int /\ addrAt[v][a] \in Int
    BY DEF TypeOK
<1>2. slugAt'[h][v] \in Int /\ addrAt'[v][a] \in Int
    BY DEF TypeOK
<1>3. slugAt'[h][v] >= t /\ addrAt'[v][a] >= t
    BY <1>1, <1>2 DEF Forward
<1> QED
    BY <1>3 DEF LedTo

\* What was true of a call or of a cache entry stays true as time goes on.
LEMMA CallStays ==
    ASSUME TypeOK, TypeOK', Forward, NEW c \in Call \cup {Idle}, CallTrue(c)
    PROVE  CallTrue(c)'
<1>1. c.since \in Nat /\ now \in Nat /\ now' \in Nat
    BY DEF TypeOK, Call, Idle
<1>2. c.since <= now'
    BY <1>1 DEF CallTrue, Forward
<1>3. ASSUME c.pc = "found" PROVE slugAt'[c.host][c.answer] >= c.since
    <2>1. c.host \in Hosts /\ c.answer \in VMs
        BY <1>3 DEF Call, Idle
    <2>2. slugAt[c.host][c.answer] \in Int /\ slugAt'[c.host][c.answer] \in Int
        BY <2>1 DEF TypeOK
    <2> QED
        BY <1>1, <1>3, <2>1, <2>2 DEF CallTrue, Forward
<1>4. ASSUME c.pc = "answered", c.answer # None
      PROVE  LedTo(c.host, c.answer, c.since)'
    <2>1. c.host \in Hosts /\ c.answer \in Addrs
        BY <1>4 DEF Call, Idle
    <2>2. LedTo(c.host, c.answer, c.since)
        BY <1>4 DEF CallTrue
    <2> QED
        BY <1>1, <2>1, <2>2, LedToStays
<1> QED
    BY <1>2, <1>3, <1>4 DEF CallTrue

LEMMA EntryStays ==
    ASSUME TypeOK, TypeOK', Forward, NEW h \in Hosts,
           NEW e \in [until: Nat, dial: Addrs \cup {None}], EntryTrue(h, e)
    PROVE  EntryTrue(h, e)'
<1> SUFFICES ASSUME e.dial # None PROVE LedTo(h, e.dial, e.until - TTL)'
    BY DEF EntryTrue
<1>1. e.dial \in Addrs /\ e.until - TTL \in Int
    BY TTLAssumption
<1>2. LedTo(h, e.dial, e.until - TTL)
    BY DEF EntryTrue
<1> QED
    BY <1>1, <1>2, LedToStays

LEMMA FreshStep == FreshInv /\ [Next]_vars => FreshInv'
<1> SUFFICES ASSUME FreshInv, [Next]_vars PROVE FreshInv'
    OBVIOUS
<1>1. TypeOK /\ TypeOK' /\ Forward /\ GhostsAgree /\ GhostsAgree'
    BY TypeStep, GhostsStep DEF FreshInv
<1>2. ASSUME NEW l \in Lookups, lookup'[l] = lookup[l]
      PROVE  CallTrue(lookup[l])'
    <2>1. PICK c \in Call \cup {Idle} : c = lookup[l]
        BY <1>1 DEF TypeOK
    <2>2. CallTrue(c)
        BY <2>1 DEF FreshInv, CallsAgree
    <2>3. CallTrue(c)'
        BY <1>1, <2>2, CallStays
    <2> QED
        BY <1>2, <2>1, <2>3
<1>3. ASSUME NEW l \in Lookups, lookup'[l] = Idle
      PROVE  CallTrue(lookup[l])'
    BY <1>1, <1>3 DEF CallTrue, Idle, TypeOK
<1>4. ASSUME NEW h \in Hosts, cache'[h] = cache[h]
      PROVE  EntryTrue(h, cache[h])'
    <2>1. PICK e \in [until: Nat, dial: Addrs \cup {None}] : e = cache[h]
        BY <1>1 DEF TypeOK
    <2>2. EntryTrue(h, e)
        BY <2>1 DEF FreshInv, CacheAgrees
    <2>3. EntryTrue(h, e)'
        BY <1>1, <2>2, EntryStays
    <2> QED
        BY <1>4, <2>1, <2>3
<1>5. CASE UNCHANGED <<lookup, cache>>
    BY <1>1, <1>2, <1>4, <1>5 DEF FreshInv, CallsAgree, CacheAgrees
<1>6. ASSUME NEW l \in Lookups, \A m \in Lookups \ {l} : lookup'[m] = lookup[m],
             CallTrue(lookup[l])', cache' = cache
      PROVE  FreshInv'
    BY <1>1, <1>2, <1>4, <1>6 DEF FreshInv, CallsAgree, CacheAgrees
<1>7. ASSUME NEW l \in Lookups, NEW h \in Hosts, Ask(l, h)
      PROVE  FreshInv'
    <2>1. lookup'[l] = [pc |-> "asked", host |-> h, since |-> now, answer |-> None]
        BY <1>1, <1>7 DEF Ask, TypeOK
    <2>2. CallTrue(lookup[l])'
        BY <1>1, <2>1 DEF CallTrue, Forward
    <2> QED
        BY <1>1, <1>6, <1>7, <2>2 DEF Ask, TypeOK
<1>8. ASSUME NEW l \in Lookups, ReadExposure(l)
      PROVE  FreshInv'
    <2> DEFINE c == lookup[l]
    <2>1. c \in [pc: {"asked"}, host: Hosts, since: Nat, answer: {None}] /\ c.since <= now
        BY <1>1, <1>8 DEF ReadExposure, TypeOK, Call, Idle, FreshInv, CallsAgree, CallTrue
    <2>2. now' = now /\ exposure' = exposure
        BY <1>8 DEF ReadExposure, Read, rows
    <2>3. CASE exposure[c.host] = None
        <3>1. lookup'[l] = [pc |-> "answered", host |-> c.host, since |-> c.since, answer |-> None]
            BY <1>1, <1>8, <2>3 DEF ReadExposure, Read, TypeOK
        <3>2. CallTrue(lookup[l])'
            BY <2>1, <2>2, <3>1 DEF CallTrue
        <3> QED
            BY <1>1, <1>6, <1>8, <3>2 DEF ReadExposure, Read, TypeOK
    <2>4. CASE exposure[c.host] # None
        <3>1. lookup'[l] = [pc |-> "found", host |-> c.host, since |-> c.since,
                            answer |-> exposure[c.host]]
            BY <1>1, <1>8, <2>4 DEF ReadExposure, Read, TypeOK
        <3>2. slugAt'[c.host][exposure[c.host]] = now
            BY <1>1, <2>1, <2>2, <2>4 DEF GhostsAgree, TypeOK
        <3>3. CallTrue(lookup[l])'
            BY <2>1, <2>2, <3>1, <3>2 DEF CallTrue
        <3> QED
            BY <1>1, <1>6, <1>8, <3>3 DEF ReadExposure, Read, TypeOK
    <2> QED
        BY <2>3, <2>4
<1>9. ASSUME NEW l \in Lookups, ReadVm(l)
      PROVE  FreshInv'
    <2>1. PICK c \in [pc: {"found"}, host: Hosts, since: Nat, answer: VMs] : c = lookup[l]
        BY <1>1, <1>9 DEF ReadVm, TypeOK, Call, Idle
    <2>2. PICK a \in Addrs \cup {None} : a = Upstream(c.answer)
        BY <1>1, <2>1 DEF TypeOK, Upstream
    <2>3. c.since <= now /\ slugAt[c.host][c.answer] >= c.since
        BY <1>9, <2>1 DEF ReadVm, FreshInv, CallsAgree, CallTrue
    <2>4. now' = now /\ addr' = addr /\ deleted' = deleted
        BY <1>9 DEF ReadVm, Read, machines
    <2>5. lookup'[l] = [pc |-> "answered", host |-> c.host, since |-> c.since, answer |-> a]
        BY <1>1, <1>9, <2>1, <2>2 DEF ReadVm, Read, TypeOK
    <2>6. ASSUME a # None PROVE LedTo(c.host, a, c.since)'
        <3>1. addrAt'[c.answer][a] = now
            BY <1>1, <2>1, <2>2, <2>4, <2>6 DEF GhostsAgree, TypeOK, Upstream
        <3>2. slugAt[c.host][c.answer] \in Int /\ slugAt'[c.host][c.answer] \in Int
            BY <1>1, <2>1 DEF TypeOK
        <3>3. slugAt'[c.host][c.answer] >= c.since
            BY <1>1, <2>1, <2>3, <3>2 DEF Forward
        <3> QED
            BY <2>1, <2>3, <3>1, <3>3 DEF LedTo
    <2>7. CallTrue(lookup[l])'
        BY <2>1, <2>3, <2>4, <2>5, <2>6 DEF CallTrue
    <2> QED
        BY <1>1, <1>6, <1>9, <2>7 DEF ReadVm, Read, TypeOK
<1>10. ASSUME NEW l \in Lookups, NEW dial \in Addrs \cup {None}, Keep(l, dial),
              lookup[l] \in Call,
              dial # None => LedTo(lookup[l].host, dial, lookup[l].since)
       PROVE  FreshInv'
    <2>1. PICK c \in Call : c = lookup[l]
        BY <1>10
    <2>2. PICK until \in Nat : until = c.since + TTL
        BY TTLAssumption DEF Call
    <2>3. c.host \in Hosts /\ c.since \in Nat
        BY DEF Call
    <2>4. cache'[c.host] = [until |-> until, dial |-> dial]
        BY <1>1, <1>10, <2>1, <2>2, <2>3 DEF Keep, TypeOK
    <2>5. dial # None => LedTo(c.host, dial, until - TTL)'
        BY <1>1, <1>10, <2>1, <2>2, <2>3, TTLAssumption, LedToStays
    <2>6. EntryTrue(c.host, cache[c.host])'
        BY <2>4, <2>5 DEF EntryTrue
    <2>7. \A h \in Hosts \ {c.host} : cache'[h] = cache[h]
        BY <1>1, <1>10, <2>1 DEF Keep, TypeOK
    <2>8. \A m \in Lookups : lookup'[m] = IF m = l THEN Idle ELSE lookup[m]
        BY <1>1, <1>10 DEF Keep, TypeOK
    <2> QED
        BY <1>1, <1>2, <1>3, <1>4, <2>3, <2>6, <2>7, <2>8 DEF FreshInv, CallsAgree, CacheAgrees
<1>11. ASSUME NEW l \in Lookups, Arrive(l)
       PROVE  FreshInv'
    <2>1. lookup[l] \in Call /\ lookup[l].answer \in Addrs \cup {None}
        BY <1>1, <1>11 DEF Arrive, TypeOK, Call, Idle
    <2>2. lookup[l].answer # None =>
              LedTo(lookup[l].host, lookup[l].answer, lookup[l].since)
        BY <1>11 DEF Arrive, FreshInv, CallsAgree, CallTrue
    <2> QED
        BY <1>10, <1>11, <2>1, <2>2 DEF Arrive
<1>12. ASSUME NEW l \in Lookups, ErrorPage(l)
       PROVE  FreshInv'
    <2>1. lookup[l] \in Call
        BY <1>1, <1>12 DEF ErrorPage, TypeOK, Idle
    <2> QED
        BY <1>10, <1>12, <2>1 DEF ErrorPage
<1>13. ASSUME NEW l \in Lookups, Raise(l)
       PROVE  FreshInv'
    BY <1>1, <1>3, <1>6, <1>13 DEF Raise, TypeOK
<1>14. CASE Restart
    <2>1. \A h \in Hosts : EntryTrue(h, cache[h])'
        BY <1>14 DEF Restart, EntryTrue
    <2> QED
        BY <1>1, <1>3, <1>14, <2>1 DEF Restart, FreshInv, CallsAgree, CacheAgrees
<1>15. CASE Panel
    BY <1>5, <1>15 DEF Panel, CheckCreate, Insert, CheckRemove, Remove, SetAddr, DeleteVm, proxy
<1>16. CASE Tick
    BY <1>5, <1>16 DEF Tick, proxy
<1>17. CASE UNCHANGED vars
    BY <1>5, <1>17 DEF vars, proxy
<1> QED
    BY <1>7, <1>8, <1>9, <1>11, <1>12, <1>13, <1>14, <1>15, <1>16, <1>17 DEF Next, Proxy

LEMMA FreshInit == Init => FreshInv
<1> SUFFICES ASSUME Init PROVE FreshInv
    OBVIOUS
<1>1. TypeOK
    BY TypeInit
<1>2. GhostsAgree
    BY NoneAssumption DEF Init, GhostsAgree, Never
<1>3. CallsAgree
    BY DEF Init, CallsAgree, CallTrue, Idle
<1>4. CacheAgrees
    BY DEF Init, CacheAgrees, EntryTrue
<1> QED
    BY <1>1, <1>2, <1>3, <1>4 DEF FreshInv

LEMMA FreshGoal == FreshInv => CacheFresh
<1> SUFFICES ASSUME FreshInv, NEW h \in Hosts, Usable(h), cache[h].dial # None
             PROVE  \E v \in VMs : /\ slugAt[h][v] > now - TTL
                                   /\ addrAt[v][cache[h].dial] > now - TTL
    BY DEF CacheFresh
<1>1. cache[h].until \in Nat /\ cache[h].dial \in Addrs /\ now \in Nat
    BY DEF FreshInv, TypeOK
<1>2. PICK v \in VMs : /\ slugAt[h][v] >= cache[h].until - TTL
                       /\ addrAt[v][cache[h].dial] >= cache[h].until - TTL
    BY DEF FreshInv, CacheAgrees, EntryTrue, LedTo
<1>3. slugAt[h][v] \in Int /\ addrAt[v][cache[h].dial] \in Int
    BY <1>1 DEF FreshInv, TypeOK
<1> QED
    BY <1>1, <1>2, <1>3, TTLAssumption DEF Usable

\* The proxy's cache is at most TTL seconds behind (property CacheFresh), for any
\* number of concurrent calls whose answers are late or come in any order.
THEOREM CacheIsFresh == Spec => []CacheFresh
BY FreshInit, FreshStep, FreshGoal, PTL DEF Spec

-----------------------------------------------------------------------------
\* A slug changes hands only by way of a removal (property SlugNotStolen).
THEOREM SlugsAreNotStolen == Spec => SlugNotStolen
<1>1. TypeOK /\ [Next]_vars =>
          [\A h \in Hosts : exposure[h] # None => exposure'[h] \in {exposure[h], None}]_vars
    <2> SUFFICES ASSUME TypeOK, Next, NEW h \in Hosts, exposure[h] # None
                 PROVE  exposure'[h] \in {exposure[h], None}
        OBVIOUS
    <2>1. CASE exposure' = exposure
        BY <2>1
    <2>2. ASSUME NEW g \in Hosts, NEW v \in VMs, Insert(g, v)
          PROVE  exposure'[h] \in {exposure[h], None}
        BY <2>2 DEF Insert, TypeOK
    <2>3. ASSUME NEW g \in Hosts, Remove(g)
          PROVE  exposure'[h] \in {exposure[h], None}
        BY <2>3 DEF Remove, TypeOK
    <2>4. CASE Panel
        BY <2>1, <2>2, <2>3, <2>4 DEF Panel, CheckCreate, CheckRemove, SetAddr, DeleteVm, rows
    <2>5. CASE Proxy
        BY <2>1, <2>5 DEF Proxy, Tick, Ask, ReadExposure, ReadVm, Read, Arrive, ErrorPage,
                          Keep, Raise, Restart, rows
    <2> QED
        BY <2>4, <2>5 DEF Next
<1> QED
    BY <1>1, ExposureTypeCorrect, PTL DEF Spec, SlugNotStolen

=============================================================================
