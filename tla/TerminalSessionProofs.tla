----------------------- MODULE TerminalSessionProofs -----------------------
(***************************************************************************)
(* Proofs about TerminalSession, for any number of sessions and sockets.   *)
(* ConnectedIsServed needs to know why closing may leave the row alone: a  *)
(* call that has loaded "closed" works on a row that has ended for good.   *)
(***************************************************************************)
EXTENDS TerminalSession, TLAPS

\* What the ORM has loaded as closed is over.
LoadedIsOver == \A k \in Sockets : sock[k].seen = "closed" => status[sock[k].of] \in Ended

ServedInv == TypeOK /\ LoadedIsOver /\ ConnectedIsServed

LEMMA TypeInit == Init => TypeOK
BY DEF Init, TypeOK, Idle

\* A call that loses its line or its client is still a call.
LEMMA LosingKeepsType ==
    ASSUME NEW c \in Calls
    PROVE  [c EXCEPT !.line = FALSE] \in Calls /\ [c EXCEPT !.client = FALSE] \in Calls
BY DEF Calls

LEMMA TypeStep == TypeOK /\ [Next]_vars => TypeOK'
<1> SUFFICES ASSUME TypeOK, [Next]_vars PROVE TypeOK'
    OBVIOUS
<1> USE DEF TypeOK, Calls, Idle, PCs, TerminalSessionStatuses, At, Goto, Return
<1>1. CASE RowChanges
    BY <1>1 DEF RowChanges
<1>2. CASE GuestChanges
    <2>1. \A k \in Sockets : At(k, "open") => sock[k] \in Calls
        OBVIOUS
    <2>2. \A k \in Sockets : sock'[k] \in Calls \cup {Idle}
        BY ONLY TypeOK, <1>2, <2>1, LosingKeepsType DEF GuestChanges, TypeOK
    <2> QED
        BY <1>2, <2>2 DEF GuestChanges
<1>3. CASE Crash
    BY <1>3 DEF Crash, Working
<1>4. ASSUME NEW s \in Sessions, Create(s) \/ TimePasses(s)
      PROVE  TypeOK'
    BY <1>4 DEF Create, TimePasses
<1>5. ASSUME NEW k \in Sockets, ClientLeaves(k) \/ UserEnds(k)
      PROVE  TypeOK'
    <2>1. sock[k] \in Calls
        BY <1>5 DEF ClientLeaves, UserEnds
    <2>2. CASE ClientLeaves(k)
        BY ONLY TypeOK, <2>1, <2>2, LosingKeepsType DEF ClientLeaves, TypeOK
    <2>3. CASE UserEnds(k)
        BY <2>1, <2>3 DEF UserEnds
    <2> QED
        BY <1>5, <2>2, <2>3
<1>6. ASSUME NEW k \in Sockets, NEW s \in Sessions, Open(k, s)
      PROVE  TypeOK'
    BY <1>6 DEF Open
<1>7. ASSUME NEW k \in Sockets, MarkExpired(k) \/ Claim(k) \/ Close(k)
      PROVE  TypeOK'
    BY <1>7 DEF MarkExpired, Claim, Close
<1>8. ASSUME NEW k \in Sockets, CheckVm(k) \/ Refresh(k) \/ PumpEnds(k)
      PROVE  TypeOK'
    BY <1>8 DEF CheckVm, Refresh, PumpEnds
<1>9. ASSUME NEW k \in Sockets, Accept(k) \/ Dial(k)
      PROVE  TypeOK'
    BY <1>9 DEF Accept, Dial
<1>10. CASE UNCHANGED vars
    BY <1>10 DEF vars
<1> QED
    BY <1>1, <1>2, <1>3, <1>4, <1>5, <1>6, <1>7, <1>8, <1>9, <1>10 DEF Next, Call

\* Type correctness (property TypeOK), for any number of sessions and sockets.
THEOREM TerminalTypeCorrect == Spec => []TypeOK
BY TypeInit, TypeStep, PTL DEF Spec

-----------------------------------------------------------------------------
\* The heart of the matter: the guard of the UPDATE in Claim.
LEMMA EndedStep ==
    TypeOK /\ [Next]_vars =>
        \A s \in Sessions : status[s] \in Ended => status'[s] \in Ended
<1> SUFFICES ASSUME TypeOK, [Next]_vars, NEW s \in Sessions, status[s] \in Ended
             PROVE  status'[s] \in Ended
    OBVIOUS
<1> USE DEF Ended
<1>1. CASE status' = status
    BY <1>1
<1>2. ASSUME NEW t \in Sessions, Create(t) PROVE status'[s] \in Ended
    BY <1>2 DEF Create, TypeOK
<1>3. ASSUME NEW k \in Sockets, MarkExpired(k) \/ Claim(k) \/ Close(k)
      PROVE  status'[s] \in Ended
    BY <1>3 DEF MarkExpired, Claim, Close, TypeOK
<1> QED
    BY <1>1, <1>2, <1>3 DEF Next, Call, RowChanges, GuestChanges, Crash, TimePasses,
       ClientLeaves, UserEnds, CheckVm, Refresh, Accept, Dial, PumpEnds, Open, vars

\* No call brings a session back (property EndedStaysEnded), in whatever state of
\* the row it read it first.
THEOREM EndedForGood == Spec => EndedStaysEnded
<1>1. TypeOK /\ [Next]_vars =>
          [\A s \in Sessions : status[s] \in Ended => status'[s] \in Ended]_vars
    BY EndedStep
<1> QED
    BY <1>1, TerminalTypeCorrect, PTL DEF Spec, EndedStaysEnded

-----------------------------------------------------------------------------
\* Where a call may take what the ORM has loaded from.
LEMMA LoadedStep ==
    ASSUME TypeOK, [Next]_vars, NEW k \in Sockets, sock'[k].seen = "closed"
    PROVE  \/ sock[k].seen = "closed" /\ sock'[k].of = sock[k].of
           \/ /\ sock'[k].of = sock[k].of /\ status[sock[k].of] = "closed"
              /\ sock[k] \in Calls
<1> USE DEF TypeOK, Idle, Goto, Return, At
<1>1. CASE sock' = sock \/ Crash
    BY <1>1 DEF Crash
<1>2. CASE GuestChanges
    BY <1>2 DEF GuestChanges, Calls
<1>3. ASSUME NEW j \in Sockets, ClientLeaves(j) \/ UserEnds(j) \/ CheckVm(j) \/ PumpEnds(j)
      PROVE  sock[k].seen = "closed" /\ sock'[k].of = sock[k].of
    BY <1>3 DEF ClientLeaves, UserEnds, CheckVm, PumpEnds, Calls
<1>4. ASSUME NEW j \in Sockets, MarkExpired(j) \/ Claim(j) \/ Close(j) \/ Accept(j) \/ Dial(j)
      PROVE  sock[k].seen = "closed" /\ sock'[k].of = sock[k].of
    BY <1>4 DEF MarkExpired, Claim, Close, Accept, Dial, Calls
<1>5. ASSUME NEW j \in Sockets, NEW s \in Sessions, Open(j, s)
      PROVE  sock[k].seen = "closed" /\ sock'[k].of = sock[k].of
    BY <1>5 DEF Open
<1>6. ASSUME NEW j \in Sockets, Refresh(j)
      PROVE  \/ sock[k].seen = "closed" /\ sock'[k].of = sock[k].of
             \/ sock'[k].of = sock[k].of /\ status[sock[k].of] = "closed" /\ sock[k] \in Calls
    BY <1>6 DEF Refresh, Calls
<1> QED
    BY <1>1, <1>2, <1>3, <1>4, <1>5, <1>6 DEF Next, Call, RowChanges, Create, TimePasses, vars

LEMMA LoadedIsOverStep == TypeOK /\ LoadedIsOver /\ [Next]_vars => LoadedIsOver'
<1> SUFFICES ASSUME TypeOK, LoadedIsOver, [Next]_vars,
                    NEW k \in Sockets, sock'[k].seen = "closed"
             PROVE  status'[sock'[k].of] \in Ended
    BY DEF LoadedIsOver
<1>1. sock'[k].of = sock[k].of /\ status[sock[k].of] \in Ended /\ sock[k] \in Calls
    BY LoadedStep DEF LoadedIsOver, Ended, TypeOK, Idle
<1>2. sock[k].of \in Sessions
    BY <1>1 DEF Calls
<1> QED
    BY <1>1, <1>2, EndedStep

-----------------------------------------------------------------------------
Serves(k, s) == sock[k].of = s /\ sock[k].pc \in Working

LEMMA ServedStep == ServedInv /\ [Next]_vars => ConnectedIsServed'
<1> SUFFICES ASSUME ServedInv, [Next]_vars,
                    NEW s \in Sessions, status'[s] = "connected", s \notin left'
             PROVE  \E k \in Sockets : Serves(k, s)'
    BY DEF ConnectedIsServed, Serves
<1> USE DEF TypeOK, At, Goto, Return
<1>1. TypeOK /\ (status[s] = "connected" /\ s \notin left => \E k \in Sockets : Serves(k, s))
    BY DEF ServedInv, ConnectedIsServed, Serves
<1>2. CASE UNCHANGED <<status, left, sock>>
    BY <1>1, <1>2 DEF Serves
<1>3. ASSUME NEW t \in Sessions, Create(t)
      PROVE  \E k \in Sockets : Serves(k, s)'
    BY <1>1, <1>3 DEF Create, Serves
<1>4. CASE GuestChanges
    <2>1. PICK k \in Sockets : Serves(k, s)
        BY <1>1, <1>4 DEF GuestChanges
    <2>2. Serves(k, s)'
        BY <1>1, <1>4, <2>1 DEF GuestChanges, Serves, Calls, Idle
    <2> QED
        BY <2>2
<1>5. ASSUME NEW j \in Sockets, ClientLeaves(j) \/ UserEnds(j) \/ Refresh(j) \/ PumpEnds(j)
      PROVE  \E k \in Sockets : Serves(k, s)'
    <2>1. PICK k \in Sockets : Serves(k, s)
        BY <1>1, <1>5 DEF ClientLeaves, UserEnds, Refresh, PumpEnds
    <2>2. Serves(k, s)'
        BY <1>1, <1>5, <2>1
        DEF ClientLeaves, UserEnds, Refresh, PumpEnds, Serves, Calls, Idle, Working
    <2> QED
        BY <2>2
<1>6. ASSUME NEW j \in Sockets, \A k \in Sockets \ {j} : sock'[k] = sock[k],
             ~Serves(j, s), status[s] = "connected", s \notin left
      PROVE  \E k \in Sockets : Serves(k, s)'
    BY <1>1, <1>6 DEF Serves
<1>7. ASSUME NEW j \in Sockets, NEW t \in Sessions, Open(j, t)
      PROVE  \E k \in Sockets : Serves(k, s)'
    BY <1>1, <1>6, <1>7 DEF Open, Serves, Working
<1>8. ASSUME NEW j \in Sockets, MarkExpired(j) \/ CheckVm(j)
      PROVE  \E k \in Sockets : Serves(k, s)'
    BY <1>1, <1>6, <1>8 DEF MarkExpired, CheckVm, Serves, Working
<1>9. ASSUME NEW j \in Sockets, Claim(j)
      PROVE  \E k \in Sockets : Serves(k, s)'
    <2>1. CASE sock[j].of = s /\ status[s] \notin Ended
        <3>1. Serves(j, s)'
            BY <1>1, <1>9, <2>1 DEF Claim, Serves, Working, Calls, Idle
        <3> QED
            BY <3>1
    <2>2. CASE ~(sock[j].of = s /\ status[s] \notin Ended)
        BY <1>1, <1>6, <1>9, <2>2 DEF Claim, Serves, Working, Ended
    <2> QED
        BY <2>1, <2>2
<1>10. ASSUME NEW j \in Sockets, Accept(j) \/ Dial(j)
       PROVE  \E k \in Sockets : Serves(k, s)'
    <2>1. CASE sock'[j] = Idle /\ s # sock[j].of
        BY <1>1, <1>6, <1>10, <2>1 DEF Accept, Dial, Serves
    <2>2. CASE ~(sock'[j] = Idle /\ s # sock[j].of)
        <3>1. PICK k \in Sockets : Serves(k, s)
            BY <1>1, <1>10 DEF Accept, Dial
        <3>2. Serves(k, s)'
            BY <1>1, <1>10, <2>2, <3>1 DEF Accept, Dial, Serves, Calls, Idle, Working
        <3> QED
            BY <3>2
    <2> QED
        BY <2>1, <2>2
<1>11. ASSUME NEW j \in Sockets, Close(j)
       PROVE  \E k \in Sockets : Serves(k, s)'
    <2>1. s # sock[j].of
        BY <1>1, <1>11 DEF Close, ServedInv, LoadedIsOver, Ended
    <2> QED
        BY <1>1, <1>6, <1>11, <2>1 DEF Close, Serves
<1>12. CASE Crash
    <2>1. status[s] = "connected" /\ s \notin left
        BY <1>12 DEF Crash
    <2>2. PICK k \in Sockets : Serves(k, s)
        BY <1>1, <2>1
    <2> QED
        BY <1>12, <2>2 DEF Crash, Serves
<1> QED
    BY <1>2, <1>3, <1>4, <1>5, <1>7, <1>8, <1>9, <1>10, <1>11, <1>12
    DEF Next, Call, RowChanges, TimePasses, vars

\* A connected row is being served (property ConnectedIsServed), for any number of
\* sockets that claim it one after the other or at once.
THEOREM ConnectedRowsAreServed == Spec => []ConnectedIsServed
<1>1. Init => ServedInv
    BY TypeInit DEF Init, ServedInv, LoadedIsOver, ConnectedIsServed, Idle
<1>2. ServedInv /\ [Next]_vars => ServedInv'
    BY TypeStep, LoadedIsOverStep, ServedStep DEF ServedInv
<1>3. ServedInv => ConnectedIsServed
    BY DEF ServedInv
<1> QED
    BY <1>1, <1>2, <1>3, PTL DEF Spec

=============================================================================
