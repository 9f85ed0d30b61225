------------------------------ MODULE Throttle ------------------------------
(***************************************************************************)
(* The throttles api/auth keeps in the memory of the panel's process, for  *)
(* the requests of one client address: the wrong passwords login counts,   *)
(* and the requests _throttle lets through. login reads its list before it *)
(* awaits the database and stores it afterwards; _throttle never awaits.   *)
(* A list of times is modelled by the set of the calls that read the clock *)
(* at these times.                                                         *)
(***************************************************************************)
EXTENDS Integers, FiniteSets

CONSTANTS
    Calls,            \* calls of login and of the endpoints with a _throttle
    LoginWindow, LoginMaxFails,
    Window, MaxHits,  \* the arguments of _throttle
    MaxTime           \* bound: the time the clock reaches

ASSUME CallsAssumption == IsFiniteSet(Calls)
ASSUME LimitsAssumption ==
    {LoginWindow, LoginMaxFails, Window, MaxHits, MaxTime} \subseteq Nat \ {0}

VARIABLES
    now,         \* time.monotonic()
    at,          \* what the calls read from it
    pc,          \* where the calls are, or how they ended
    loginFails,  \* _LOGIN_FAILS[ip]
    fails,       \* the list a call of login holds while it awaits
    hits,        \* _RESET_REQUESTS[ip] or _RESET_ATTEMPTS[ip]
    wrong,       \* ghost: calls with a wrong password since the last boot or login
    passed,      \* ghost: calls _throttle let through since the last boot
    overlapped   \* ghost: calls of login that ran at the same time as another one

vars == <<now, at, pc, loginFails, fails, hits, wrong, passed, overlapped>>
ghosts == <<wrong, passed, overlapped>>

PCs == {"none", "verify", "in", "failed", "blocked", "error", "passed", "refused"}
Verifying == {c \in Calls : pc[c] = "verify"}

Init ==
    /\ now = 0
    /\ at = [c \in Calls |-> 0] /\ pc = [c \in Calls |-> "none"]
    /\ loginFails = {} /\ hits = {}
    /\ fails = [c \in Calls |-> {}]
    /\ wrong = {} /\ passed = {} /\ overlapped = {}

\* The members of s that are not out of the window.
Recent(s, window) == {c \in s : now - at[c] < window}

\* Mutant: the list is stored without having been filtered.
LoginUnfiltered(c) ==
    /\ pc[c] = "none"
    /\ LET recent == loginFails
           blocked == Cardinality(recent) >= LoginMaxFails
       IN  /\ loginFails' = recent
           /\ fails' = [fails EXCEPT ![c] = IF blocked THEN {} ELSE recent]
           /\ pc' = [pc EXCEPT ![c] = IF blocked THEN "blocked" ELSE "verify"]
           /\ overlapped' = IF blocked \/ Verifying = {} THEN overlapped
                            ELSE overlapped \cup Verifying \cup {c}
    /\ at' = [at EXCEPT ![c] = now]
    /\ UNCHANGED <<now, hits, wrong, passed>>

\* login, up to its await of verify_admin.
Login(c) ==
    /\ pc[c] = "none"
    /\ LET recent == Recent(loginFails, LoginWindow)
           blocked == Cardinality(recent) >= LoginMaxFails
       IN  /\ loginFails' = recent
           /\ fails' = [fails EXCEPT ![c] = IF blocked THEN {} ELSE recent]
           /\ pc' = [pc EXCEPT ![c] = IF blocked THEN "blocked" ELSE "verify"]
           /\ overlapped' = IF blocked \/ Verifying = {} THEN overlapped
                            ELSE overlapped \cup Verifying \cup {c}
    /\ at' = [at EXCEPT ![c] = now]
    /\ UNCHANGED <<now, hits, wrong, passed>>

Return(c, result) ==
    /\ pc' = [pc EXCEPT ![c] = result]
    /\ fails' = [fails EXCEPT ![c] = {}]

\* Mutant: a failure starts the list anew.
WrongAlone(c) ==
    /\ pc[c] = "verify"
    /\ loginFails' = {c}
    /\ wrong' = wrong \cup {c}
    /\ Return(c, "failed")
    /\ UNCHANGED <<now, at, hits, passed, overlapped>>

\* A wrong password: the call's own list, with its own time, becomes the list.
\* What other calls have stored since the call began is lost.
Wrong(c) ==
    /\ pc[c] = "verify"
    /\ loginFails' = fails[c] \cup {c}
    /\ wrong' = wrong \cup {c}
    /\ Return(c, "failed")
    /\ UNCHANGED <<now, at, hits, passed, overlapped>>

\* The right one: the list is popped.
Right(c) ==
    /\ pc[c] = "verify"
    /\ loginFails' = {} /\ wrong' = {}
    /\ Return(c, "in")
    /\ UNCHANGED <<now, at, hits, passed, overlapped>>

\* The database does not answer: nothing is counted.
VerifyRaises(c) ==
    /\ pc[c] = "verify"
    /\ Return(c, "error")
    /\ UNCHANGED <<now, at, loginFails, hits>> /\ UNCHANGED ghosts

\* Mutant: the limit is exceeded by one.
RequestOneMore(c) ==
    /\ pc[c] = "none"
    /\ LET recent == Recent(hits, Window)
           full == Cardinality(recent) > MaxHits
       IN  /\ hits' = IF full THEN recent ELSE recent \cup {c}
           /\ passed' = IF full THEN passed ELSE passed \cup {c}
           /\ pc' = [pc EXCEPT ![c] = IF full THEN "refused" ELSE "passed"]
    /\ at' = [at EXCEPT ![c] = now]
    /\ UNCHANGED <<now, loginFails, fails, wrong, overlapped>>

\* Mutant: refused requests count as well.
RequestAlwaysCounts(c) ==
    /\ pc[c] = "none"
    /\ LET recent == Recent(hits, Window)
           full == Cardinality(recent) >= MaxHits
       IN  /\ hits' = recent \cup {c}
           /\ passed' = IF full THEN passed ELSE passed \cup {c}
           /\ pc' = [pc EXCEPT ![c] = IF full THEN "refused" ELSE "passed"]
    /\ at' = [at EXCEPT ![c] = now]
    /\ UNCHANGED <<now, loginFails, fails, wrong, overlapped>>

\* _throttle, called first by forgot and by reset.
Request(c) ==
    /\ pc[c] = "none"
    /\ LET recent == Recent(hits, Window)
           full == Cardinality(recent) >= MaxHits
       IN  /\ hits' = IF full THEN recent ELSE recent \cup {c}
           /\ passed' = IF full THEN passed ELSE passed \cup {c}
           /\ pc' = [pc EXCEPT ![c] = IF full THEN "refused" ELSE "passed"]
    /\ at' = [at EXCEPT ![c] = now]
    /\ UNCHANGED <<now, loginFails, fails, wrong, overlapped>>

\* Mutant: a clock that may be set back, as time.time() is.
TickOrBack ==
    /\ now < MaxTime
    /\ now' \in {now - 1, now + 1}
    /\ UNCHANGED <<at, pc, loginFails, fails, hits>> /\ UNCHANGED ghosts

Tick ==
    /\ now < MaxTime
    /\ now' = now + 1
    /\ UNCHANGED <<at, pc, loginFails, fails, hits>> /\ UNCHANGED ghosts

\* The process dies and starts again with empty lists.
Restart ==
    /\ loginFails' = {} /\ hits' = {}
    /\ wrong' = {} /\ passed' = {}
    /\ pc' = [c \in Calls |-> IF pc[c] = "verify" THEN "error" ELSE pc[c]]
    /\ fails' = [c \in Calls |-> {}]
    /\ UNCHANGED <<now, at, overlapped>>

Next ==
    \/ Tick \/ Restart
    \/ \E c \in Calls :
          Login(c) \/ Wrong(c) \/ Right(c) \/ VerifyRaises(c) \/ Request(c)

Spec == Init /\ [][Next]_vars

-----------------------------------------------------------------------------
(* Properties.                                                             *)

TypeOK ==
    /\ now \in Nat /\ at \in [Calls -> Nat]
    /\ pc \in [Calls -> PCs]
    /\ loginFails \subseteq Calls /\ hits \subseteq Calls
    /\ fails \in [Calls -> SUBSET Calls]
    /\ {wrong, passed, overlapped} \subseteq SUBSET Calls

\* No window of time, wherever it begins, sees more requests get past _throttle
\* than it was told, within one life of the process (forgot, reset).
ThrottleHolds == Cardinality(Recent(passed, Window)) <= MaxHits

\* No window sees more wrong passwords than login's limit, also after requests that
\* were blocked or raised, in one life of the process and between two logins; but
\* only calls that ran alone are sure to be counted, as login's list is read before
\* an await and stored after it.
LoginHolds ==
    Cardinality(Recent(wrong \ overlapped, LoginWindow)) <= LoginMaxFails

\* login blocks nobody who did not enter as many wrong passwords within the
\* window, although stale lists are stored back; a request that is refused comes
\* within the window after as many that were let through (login, _throttle).
NobodyElseBlocked ==
    [][\A c \in Calls :
         /\ pc[c] = "none" /\ pc'[c] = "blocked" =>
              Cardinality({d \in Calls : pc[d] = "failed" /\ now - at[d] < LoginWindow})
                  >= LoginMaxFails
         /\ pc[c] = "none" /\ pc'[c] = "refused" =>
              Cardinality(Recent(passed, Window)) >= MaxHits]_vars

=============================================================================
