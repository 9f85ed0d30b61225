--------------------------- MODULE ThrottleProofs ---------------------------
(* Proofs about Throttle, for any number of calls and any limits.          *)
EXTENDS Throttle, FiniteSetTheorems, TLAPS

\* Any set of calls is finite, and its subsets are no larger.
LEMMA SubsetsOfCalls ==
    ASSUME NEW S \in SUBSET Calls, NEW T \in SUBSET S
    PROVE  /\ IsFiniteSet(S) /\ IsFiniteSet(T)
           /\ Cardinality(S) \in Nat /\ Cardinality(T) \in Nat
           /\ Cardinality(T) <= Cardinality(S)
BY CallsAssumption, FS_Subset, FS_CardinalityType

\* The length of a list to which a call has been appended.
LEMMA OneMore ==
    ASSUME NEW S \in SUBSET Calls, NEW c \in Calls
    PROVE  /\ Cardinality(S) \in Nat /\ Cardinality(S \cup {c}) \in Nat
           /\ Cardinality(S \cup {c}) <= Cardinality(S) + 1
<1>1. IsFiniteSet(S) /\ Cardinality(S) \in Nat
  BY SubsetsOfCalls
<1>2. IsFiniteSet(S \cup {c}) /\ Cardinality(S \cup {c}) \in Nat
  BY <1>1, FS_AddElement, FS_CardinalityType
<1>3. \/ Cardinality(S \cup {c}) = Cardinality(S)
      \/ Cardinality(S \cup {c}) = Cardinality(S) + 1
  BY <1>1, FS_AddElement
<1> QED
  BY <1>1, <1>2, <1>3

-----------------------------------------------------------------------------
\* Type correctness of the throttles (api/auth).
THEOREM ThrottleTypeCorrect == Spec => []TypeOK
<1>1. Init => TypeOK
  BY DEF Init, TypeOK, PCs
<1>2. TypeOK /\ [Next]_vars => TypeOK'
  <2> SUFFICES ASSUME TypeOK, [Next]_vars PROVE TypeOK'
    OBVIOUS
  <2> USE DEF TypeOK, PCs, ghosts, Return
  <2>1. ASSUME Tick PROVE TypeOK'
    BY <2>1, LimitsAssumption DEF Tick
  <2>2. ASSUME Restart PROVE TypeOK'
    BY <2>2 DEF Restart
  <2>3. ASSUME NEW c \in Calls, Login(c) PROVE TypeOK'
    BY <2>3 DEF Login, Recent, Verifying
  <2>4. ASSUME NEW c \in Calls, Wrong(c) PROVE TypeOK'
    BY <2>4 DEF Wrong
  <2>5. ASSUME NEW c \in Calls, Right(c) PROVE TypeOK'
    BY <2>5 DEF Right
  <2>6. ASSUME NEW c \in Calls, VerifyRaises(c) PROVE TypeOK'
    BY <2>6 DEF VerifyRaises
  <2>7. ASSUME NEW c \in Calls, Request(c) PROVE TypeOK'
    BY <2>7 DEF Request, Recent
  <2>8. ASSUME UNCHANGED vars PROVE TypeOK'
    BY <2>8 DEF vars
  <2> QED
    BY <2>1, <2>2, <2>3, <2>4, <2>5, <2>6, <2>7, <2>8 DEF Next
<1> QED
  BY <1>1, <1>2, PTL DEF Spec

-----------------------------------------------------------------------------
(* _throttle.                                                              *)

\* What _throttle remembers: of the requests it let through, all that count still,
\* and no more than its limit.
HitsInv ==
    /\ passed \subseteq {c \in Calls : pc[c] = "passed"}
    /\ hits \subseteq passed
    /\ Recent(passed, Window) \subseteq hits
    /\ Cardinality(hits) <= MaxHits

\* The list of _throttle is exact, whatever the interleaving (api/auth._throttle).
LEMMA HitsInvariant == Spec => []HitsInv
<1>1. Init => HitsInv
  BY FS_EmptySet, LimitsAssumption DEF Init, HitsInv, Recent
<1>2. TypeOK /\ HitsInv /\ [Next]_vars => HitsInv'
  <2> SUFFICES ASSUME TypeOK, HitsInv, [Next]_vars PROVE HitsInv'
    OBVIOUS
  <2> USE DEF HitsInv, Recent
  <2>1. ASSUME Tick PROVE HitsInv'
    <3>1. UNCHANGED <<pc, at, hits, passed>> /\ now' = now + 1
      BY <2>1 DEF Tick, ghosts
    <3>2. Recent(passed, Window)' \subseteq Recent(passed, Window)
      BY <3>1, LimitsAssumption DEF TypeOK
    <3> QED
      BY <3>1, <3>2
  <2>2. ASSUME Restart PROVE HitsInv'
    BY <2>2, FS_EmptySet, LimitsAssumption DEF Restart
  <2>3. ASSUME NEW c \in Calls, Login(c) PROVE HitsInv'
    BY <2>3 DEF Login, TypeOK
  <2>4. ASSUME NEW c \in Calls, Wrong(c) \/ Right(c) \/ VerifyRaises(c) PROVE HitsInv'
    BY <2>4 DEF Wrong, Right, VerifyRaises, Return, ghosts, TypeOK
  <2>5. ASSUME NEW c \in Calls, Request(c) PROVE HitsInv'
    <3> DEFINE recent == Recent(hits, Window)
    <3>1. recent \subseteq hits /\ recent \in SUBSET Calls
      BY DEF TypeOK
    <3>2. CASE Cardinality(recent) >= MaxHits
      <4>1. hits' = recent /\ passed' = passed
        BY <2>5, <3>2 DEF Request
      <4>2. Cardinality(recent) <= MaxHits
        BY <3>1, SubsetsOfCalls, LimitsAssumption DEF TypeOK
      <4> QED
        BY <2>5, <4>1, <4>2 DEF Request, TypeOK
    <3>3. CASE ~(Cardinality(recent) >= MaxHits)
      <4>1. hits' = recent \cup {c} /\ passed' = passed \cup {c} /\ pc'[c] = "passed"
        BY <2>5, <3>3 DEF Request, TypeOK
      <4>2. Cardinality(recent \cup {c}) <= MaxHits
        BY <3>1, <3>3, OneMore, LimitsAssumption
      <4> QED
        BY <2>5, <4>1, <4>2 DEF Request, TypeOK
    <3> QED
      BY <3>2, <3>3
  <2>6. ASSUME UNCHANGED vars PROVE HitsInv'
    BY <2>6 DEF vars
  <2> QED
    BY <2>1, <2>2, <2>3, <2>4, <2>5, <2>6 DEF Next
<1> QED
  BY <1>1, <1>2, ThrottleTypeCorrect, PTL DEF Spec

\* For any window and limit, and any number of concurrent requests: no window sees
\* more of them get past _throttle, in one life of the process.
THEOREM ThrottleIsExact == Spec => []ThrottleHolds
<1>1. TypeOK /\ HitsInv => ThrottleHolds
  BY SubsetsOfCalls, LimitsAssumption DEF TypeOK, HitsInv, ThrottleHolds, Recent
<1> QED
  BY <1>1, ThrottleTypeCorrect, HitsInvariant, PTL

-----------------------------------------------------------------------------
(* login.                                                                  *)

Failed == {c \in Calls : pc[c] = "failed"}
Counted == Recent(wrong \ overlapped, LoginWindow)

\* The lists of login hold real failures, and all those of calls that ran alone:
\* the stored list, and the one every call took before its await.
LoginInv ==
    /\ wrong \subseteq Failed /\ loginFails \subseteq Failed
    /\ Counted \subseteq loginFails
    /\ Cardinality(loginFails) <= LoginMaxFails
    /\ \A c \in Verifying :
          /\ fails[c] \subseteq Failed
          /\ Counted \subseteq fails[c]
          /\ Cardinality(fails[c]) < LoginMaxFails
          /\ \A d \in Verifying : d # c => c \in overlapped

\* What login has counted, at every await of every call (api/auth.login).
LEMMA LoginInvariant == Spec => []LoginInv
<1>1. Init => LoginInv
  BY FS_EmptySet, LimitsAssumption DEF Init, LoginInv, Counted, Recent, Verifying
<1>2. TypeOK /\ LoginInv /\ [Next]_vars => LoginInv'
  <2> SUFFICES ASSUME TypeOK, LoginInv, [Next]_vars PROVE LoginInv'
    OBVIOUS
  <2> USE DEF LoginInv, Counted, Recent, Failed, Verifying
  <2>1. ASSUME Tick PROVE LoginInv'
    <3>1. UNCHANGED <<pc, at, loginFails, fails, wrong, overlapped>> /\ now' = now + 1
      BY <2>1 DEF Tick, ghosts
    <3>2. Counted' \subseteq Counted
      BY <3>1, LimitsAssumption DEF TypeOK
    <3> QED
      BY <3>1, <3>2
  <2>2. ASSUME Restart PROVE LoginInv'
    BY <2>2, FS_EmptySet, LimitsAssumption DEF Restart
  <2>3. ASSUME NEW c \in Calls, Login(c) PROVE LoginInv'
    <3> DEFINE recent == Recent(loginFails, LoginWindow)
    <3>1. recent \in SUBSET loginFails /\ loginFails \in SUBSET Calls
      BY DEF TypeOK
    <3>2. Cardinality(recent) <= LoginMaxFails /\ Cardinality(recent) \in Nat
      BY <3>1, SubsetsOfCalls, LimitsAssumption
    <3>3. Failed' = Failed /\ Counted' \subseteq Counted /\ Counted \subseteq recent
      BY <2>3 DEF Login, TypeOK
    <3>4. loginFails' = recent
      BY <2>3 DEF Login
    <3>5. CASE Cardinality(recent) >= LoginMaxFails
      <4>1. Verifying' = Verifying /\ overlapped' = overlapped
        BY <2>3, <3>5 DEF Login, TypeOK
      <4>2. \A d \in Verifying : fails'[d] = fails[d]
        BY <2>3 DEF Login, TypeOK
      <4>3. wrong' = wrong /\ loginFails' \subseteq Failed /\ Counted' \subseteq loginFails'
        BY <2>3, <3>1, <3>3, <3>4 DEF Login
      <4>4. \A d \in Verifying : fails[d] \subseteq Failed' /\ Counted' \subseteq fails[d]
        BY <3>3
      <4> QED
        BY <3>2, <3>3, <3>4, <4>1, <4>2, <4>3, <4>4
    <3>6. CASE ~(Cardinality(recent) >= LoginMaxFails)
      <4>1. Verifying' = Verifying \cup {c} /\ c \notin Verifying
        BY <2>3, <3>6 DEF Login, TypeOK
      <4>2. overlapped' = IF Verifying = {} THEN overlapped
                          ELSE overlapped \cup Verifying \cup {c}
        BY <2>3, <3>6 DEF Login
      <4>3. fails' = [fails EXCEPT ![c] = recent]
        BY <2>3, <3>6 DEF Login
      <4>4. fails'[c] = recent /\ \A d \in Verifying : fails'[d] = fails[d]
        BY <4>1, <4>3 DEF TypeOK
      <4>5. Cardinality(recent) < LoginMaxFails
        BY <3>2, <3>6, LimitsAssumption
      <4>6. \A d \in Verifying' : \A e \in Verifying' : e # d => d \in overlapped'
        BY <4>1, <4>2
      <4>7. \A d \in Verifying' : /\ fails'[d] \subseteq Failed'
                                  /\ Counted' \subseteq fails'[d]
                                  /\ Cardinality(fails'[d]) < LoginMaxFails
        BY <3>1, <3>3, <4>1, <4>4, <4>5
      <4> QED
        BY <2>3, <3>1, <3>2, <3>3, <3>4, <4>6, <4>7 DEF Login
    <3> QED
      BY <3>5, <3>6
  <2>4. ASSUME NEW c \in Calls, Wrong(c) PROVE LoginInv'
    <3>1. c \in Verifying /\ Verifying' = Verifying \ {c} /\ Failed' = Failed \cup {c}
      BY <2>4 DEF Wrong, Return, TypeOK
    <3>2. Counted' \subseteq Counted \cup {c}
      BY <2>4 DEF Wrong, TypeOK
    <3>3. \A d \in Verifying' : c \notin Counted'
      BY <2>4, <3>1 DEF Wrong
    <3>4. Cardinality(fails[c] \cup {c}) <= LoginMaxFails
      BY <3>1, OneMore, LimitsAssumption DEF TypeOK
    <3>5. \A d \in Verifying' : fails'[d] = fails[d]
      BY <2>4, <3>1 DEF Wrong, Return, TypeOK
    <3> QED
      BY <2>4, <3>1, <3>2, <3>3, <3>4, <3>5 DEF Wrong
  <2>5. ASSUME NEW c \in Calls, Right(c) \/ VerifyRaises(c) PROVE LoginInv'
    <3>1. Verifying' = Verifying \ {c} /\ Failed' = Failed
      BY <2>5 DEF Right, VerifyRaises, Return, TypeOK
    <3>2. \A d \in Verifying' : fails'[d] = fails[d]
      BY <2>5, <3>1 DEF Right, VerifyRaises, Return, TypeOK
    <3>3. UNCHANGED <<now, at, overlapped>>
      BY <2>5 DEF Right, VerifyRaises, ghosts
    <3>4. \/ wrong' = wrong /\ loginFails' = loginFails
          \/ wrong' = {} /\ loginFails' = {}
      BY <2>5 DEF Right, VerifyRaises, ghosts
    <3>5. Counted' \subseteq Counted
      BY <3>3, <3>4
    <3>6. Cardinality(loginFails') <= LoginMaxFails /\ Counted' \subseteq loginFails'
      BY <3>3, <3>4, <3>5, FS_EmptySet, LimitsAssumption
    <3>7. \A d \in Verifying' : /\ fails'[d] \subseteq Failed'
                                /\ Counted' \subseteq fails'[d]
                                /\ Cardinality(fails'[d]) < LoginMaxFails
                                /\ \A e \in Verifying' : e # d => d \in overlapped'
      BY <3>1, <3>2, <3>3, <3>5
    <3> QED
      BY <3>1, <3>4, <3>6, <3>7
  <2>6. ASSUME NEW c \in Calls, Request(c) PROVE LoginInv'
    <3>1. Verifying' = Verifying /\ Failed' = Failed /\ Counted' = Counted
      BY <2>6 DEF Request, TypeOK
    <3> QED
      BY <2>6, <3>1 DEF Request
  <2>7. ASSUME UNCHANGED vars PROVE LoginInv'
    BY <2>7 DEF vars
  <2> QED
    BY <2>1, <2>2, <2>3, <2>4, <2>5, <2>6, <2>7 DEF Next
<1> QED
  BY <1>1, <1>2, ThrottleTypeCorrect, PTL DEF Spec

\* For any limit: of the calls of login that ran alone, no window sees more than the
\* limit fail, between two logins and in one life of the process.
THEOREM LoginIsLimited == Spec => []LoginHolds
<1>1. TypeOK /\ LoginInv => LoginHolds
  BY SubsetsOfCalls, LimitsAssumption DEF TypeOK, LoginInv, LoginHolds, Counted, Recent
<1> QED
  BY <1>1, ThrottleTypeCorrect, LoginInvariant, PTL

\* Whoever is blocked or refused had as many failures, or requests let through,
\* within the window, whatever lists were stored back meanwhile.
THEOREM NobodyElseIsBlocked == Spec => NobodyElseBlocked
<1> DEFINE Fair(c) ==
      /\ pc[c] = "none" /\ pc'[c] = "blocked" =>
           Cardinality({d \in Calls : pc[d] = "failed" /\ now - at[d] < LoginWindow})
               >= LoginMaxFails
      /\ pc[c] = "none" /\ pc'[c] = "refused" =>
           Cardinality(Recent(passed, Window)) >= MaxHits
<1>1. TypeOK /\ HitsInv /\ LoginInv /\ [Next]_vars => [\A c \in Calls : Fair(c)]_vars
  <2> SUFFICES ASSUME TypeOK, HitsInv, LoginInv, [Next]_vars, NEW c \in Calls,
                      pc[c] = "none", pc'[c] \in {"blocked", "refused"}
               PROVE  Fair(c)
    OBVIOUS
  <2>1. Login(c) \/ Request(c)
    BY DEF Next, vars, Tick, Restart, Login, Wrong, Right, VerifyRaises, Request, Return,
           ghosts, TypeOK
  <2>2. CASE Login(c)
    <3> DEFINE recent == Recent(loginFails, LoginWindow)
               failed == {d \in Calls : pc[d] = "failed" /\ now - at[d] < LoginWindow}
    <3>1. pc'[c] = "blocked" /\ Cardinality(recent) >= LoginMaxFails
      BY <2>2 DEF Login, TypeOK
    <3>2. failed \in SUBSET Calls /\ recent \in SUBSET failed
      BY DEF LoginInv, Failed, Recent
    <3> QED
      BY <3>1, <3>2, SubsetsOfCalls, LimitsAssumption
  <2>3. CASE Request(c)
    <3> DEFINE recent == Recent(hits, Window)
    <3>1. pc'[c] = "refused" /\ Cardinality(recent) >= MaxHits
      BY <2>3 DEF Request, TypeOK
    <3>2. Recent(passed, Window) \in SUBSET Calls /\ recent \in SUBSET Recent(passed, Window)
      BY DEF TypeOK, HitsInv, Recent
    <3> QED
      BY <3>1, <3>2, SubsetsOfCalls, LimitsAssumption
  <2> QED
    BY <2>1, <2>2, <2>3
<1> QED
  BY <1>1, ThrottleTypeCorrect, HitsInvariant, LoginInvariant, PTL
       DEF Spec, NobodyElseBlocked

=============================================================================
