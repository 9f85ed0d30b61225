------------------------- MODULE AdminPasswordProofs -------------------------
(* Proofs about AdminPassword, for any number of calls and attempts.       *)
EXTENDS AdminPassword, FiniteSetTheorems, TLAPS

-----------------------------------------------------------------------------
(* The records of the calls.                                               *)

LEMMA NoRecordType == NoRecord \in CallRecords
BY MaxAttemptsAssumption
   DEF NoRecord, CallRecords, PCs, UnderWay, Passwords

\* Each lemma is about the record a step leaves behind.
LEMMA BeginRecord ==
    ASSUME TypeOK, NEW p \in PCs
    PROVE  LET r == [NoRecord EXCEPT !.pc = p, !.late = overdue]
           IN  r \in CallRecords /\ r.pc = p /\ r.entry = NoCall
BY NoRecordType DEF TypeOK, NoRecord, CallRecords

LEMMA ReturnRecord ==
    ASSUME TypeOK, NEW c \in Calls, NEW p \in PCs
    PROVE  LET r == [NoRecord EXCEPT !.pc = p, !.entry = call[c].entry]
           IN  r \in CallRecords /\ r.pc = p /\ r.entry = call[c].entry
<1>1. call[c].entry \in Calls \cup {NoCall}
  BY DEF TypeOK, CallRecords
<1> QED
  BY <1>1, NoRecordType DEF NoRecord, CallRecords

LEMMA OldsRecord ==
    ASSUME TypeOK, NEW c \in Calls, NEW s \in SUBSET Calls
    PROVE  LET r == [call[c] EXCEPT !.pc = "mail", !.olds = s]
           IN  r \in CallRecords /\ r.pc = "mail" /\ r.olds = s /\ r.entry = call[c].entry
<1>1. call[c] \in CallRecords
  BY DEF TypeOK
<1> QED
  BY <1>1 DEF CallRecords, PCs, UnderWay

LEMMA FromRecord ==
    ASSUME TypeOK, NEW c \in Calls, NEW p \in {"store", "held"}
    PROVE  LET r == [call[c] EXCEPT !.pc = p, !.from = password]
           IN  /\ r \in CallRecords /\ r.pc = p /\ r.from = password
               /\ r.entry = call[c].entry /\ r.count = call[c].count
               /\ r.late = call[c].late
<1>1. call[c] \in CallRecords /\ password \in Passwords
  BY DEF TypeOK
<1> QED
  BY <1>1 DEF CallRecords, PCs, UnderWay

-----------------------------------------------------------------------------
(* What the steps of a call under way have in common.                      *)

\* A call goes on at pc and keeps the code it is about; the others stay where they are.
Moved(c, pc) ==
    /\ c \in Active /\ met' = met /\ overdue' = overdue
    /\ call' \in [Calls -> CallRecords]
    /\ call'[c].pc = pc
    /\ call[c].entry # NoCall => call'[c].entry = call[c].entry
    /\ \A d \in Calls \ {c} : call'[d] = call[d]

UsersGrow(c) ==
    /\ users' \in [Calls -> SUBSET Calls]
    /\ \A e \in Calls : users'[e] = users[e] \/ users'[e] = users[e] \cup {c}

LEMMA GotoMoves ==
    ASSUME TypeOK, NEW c \in Active, NEW r \in CallRecords, Goto(c, r), overdue' = overdue,
           call[c].entry # NoCall => r.entry = call[c].entry
    PROVE  Moved(c, r.pc) /\ call'[c] = r
BY DEF TypeOK, Goto, Moved, Active

LEMMA ReturnMoves ==
    ASSUME TypeOK, NEW c \in Active, NEW p \in PCs, Return(c, p), overdue' = overdue
    PROVE  Moved(c, p) /\ call'[c].entry = call[c].entry
<1> DEFINE r == [NoRecord EXCEPT !.pc = p, !.entry = call[c].entry]
<1>1. r \in CallRecords /\ r.pc = p /\ r.entry = call[c].entry
  BY ReturnRecord DEF Active
<1>2. Goto(c, r)
  BY DEF Return
<1> QED
  BY <1>1, <1>2, GotoMoves

\* The actions, one by one.
LEMMA SelectOldsStep ==
    ASSUME TypeOK, NEW c \in Calls, SelectOlds(c)
    PROVE  /\ Moved(c, "mail") /\ call'[c].olds = Unused
           /\ UNCHANGED <<password, issued, users, attempts>>
<1> DEFINE r == [call[c] EXCEPT !.pc = "mail", !.olds = Unused]
<1>1. r \in CallRecords /\ r.pc = "mail" /\ r.olds = Unused /\ r.entry = call[c].entry
  <2>1. Unused \in SUBSET Calls
    BY DEF TypeOK, Unused
  <2> QED
    BY <2>1, OldsRecord
<1>2. c \in Active /\ Goto(c, r) /\ overdue' = overdue
  BY DEF SelectOlds, At, Active, UnderWay
<1> QED
  BY <1>1, <1>2, GotoMoves DEF SelectOlds, table

LEMMA IssueStep ==
    ASSUME TypeOK, NEW c \in Calls, Issue(c)
    PROVE  /\ Moved(c, "issued") /\ At(c, "mail")
           /\ call'[c].entry = call[c].entry
           /\ UsersGrow(c) /\ issued' = issued \cup {c}
           /\ \A e \in call[c].olds : e \in Calls => users'[e] # {}
           /\ UNCHANGED <<password, attempts>>
<1>1. c \in Active /\ At(c, "mail") /\ Return(c, "issued") /\ overdue' = overdue
  BY DEF Issue, At, Active, UnderWay
<1>2. "issued" \in PCs
  BY DEF PCs
<1>3. Moved(c, "issued") /\ call'[c].entry = call[c].entry
  BY <1>1, <1>2, ReturnMoves
<1>4. UsersGrow(c) /\ \A e \in call[c].olds : e \in Calls => users'[e] # {}
  BY DEF Issue, UsersGrow, TypeOK
<1> QED
  BY <1>1, <1>3, <1>4 DEF Issue

\* What a reset that loaded the code e with attempts n knows of it.
LEMMA SelectEntryStep ==
    ASSUME TypeOK, NEW c \in Calls, SelectEntry(c), call[c].entry = NoCall,
           \A e \in issued : attempts[e] > MaxAttempts => users[e] # {}
    PROVE  /\ UNCHANGED <<password, issued, users, attempts>>
           /\ \/ Moved(c, "refused")
              \/ \E e \in Unused \ call[c].late :
                    /\ Moved(c, "guess")
                    /\ call'[c].entry = e /\ call'[c].late = call[c].late
                    /\ call'[c].count = attempts[e] + 1
<1>1. /\ c \in Active /\ overdue' = overdue
      /\ UNCHANGED <<password, issued, users, attempts>>
  BY DEF SelectEntry, At, Active, UnderWay, table
<1>2. CASE Return(c, "refused")
  <2>1. "refused" \in PCs
    BY DEF PCs
  <2> QED
    BY <1>1, <1>2, <2>1, ReturnMoves
<1>3. ASSUME NEW e \in Unused \ call[c].late,
             Goto(c, [call[c] EXCEPT !.pc = "guess", !.entry = e, !.count = attempts[e] + 1])
      PROVE  /\ Moved(c, "guess")
             /\ call'[c].entry = e /\ call'[c].late = call[c].late
             /\ call'[c].count = attempts[e] + 1
  <2>1. e \in Calls /\ e \in issued /\ users[e] = {}
    BY DEF TypeOK, Unused
  <2>2. attempts[e] \in 0 .. MaxAttempts + 1 /\ ~(attempts[e] > MaxAttempts)
    BY <2>1 DEF TypeOK
  <2>3. PICK n \in 0 .. MaxAttempts + 1 : n = attempts[e] + 1
    BY <2>2, MaxAttemptsAssumption
  <2> DEFINE r == [call[c] EXCEPT !.pc = "guess", !.entry = e, !.count = n]
  <2>4. /\ r \in CallRecords /\ r.pc = "guess" /\ r.entry = e
        /\ r.count = n /\ r.late = call[c].late
    <3>1. call[c] \in CallRecords
      BY DEF TypeOK
    <3> QED
      BY <2>1, <3>1 DEF CallRecords, PCs, UnderWay
  <2>5. Goto(c, r)
    BY <1>3, <2>3
  <2> HIDE DEF r
  <2>6. Moved(c, "guess") /\ call'[c] = r
    BY <1>1, <2>4, <2>5, GotoMoves
  <2> QED
    BY <2>3, <2>4, <2>6
<1> QED
  BY <1>1, <1>2, <1>3 DEF SelectEntry

LEMMA LockCodeStep ==
    ASSUME TypeOK, NEW c \in Calls, LockCode(c), call[c].entry \in Calls
    PROVE  /\ Moved(c, "refused") /\ UsersGrow(c)
           /\ At(c, "guess") /\ call[c].count > MaxAttempts
           /\ attempts' = [attempts EXCEPT ![call[c].entry] = call[c].count]
           /\ users'[call[c].entry] # {}
           /\ UNCHANGED <<password, issued>>
<1>1. c \in Active /\ Return(c, "refused") /\ overdue' = overdue
  BY DEF LockCode, At, Active, UnderWay
<1>2. "refused" \in PCs
  BY DEF PCs
<1>3. Moved(c, "refused")
  BY <1>1, <1>2, ReturnMoves
<1>4. UsersGrow(c) /\ users'[call[c].entry] # {}
  BY DEF LockCode, UsersGrow, TypeOK
<1> QED
  BY <1>3, <1>4 DEF LockCode

LEMMA WrongCodeStep ==
    ASSUME TypeOK, NEW c \in Calls, WrongCode(c)
    PROVE  /\ Moved(c, "wrong") /\ call'[c].entry = call[c].entry
           /\ At(c, "guess") /\ call[c].count <= MaxAttempts
           /\ attempts' = [attempts EXCEPT ![call[c].entry] = call[c].count]
           /\ UNCHANGED <<password, issued, users>>
<1>1. c \in Active /\ Return(c, "wrong") /\ overdue' = overdue
  BY DEF WrongCode, At, Active, UnderWay
<1>2. "wrong" \in PCs
  BY DEF PCs
<1> QED
  BY <1>1, <1>2, ReturnMoves DEF WrongCode

LEMMA RightCodeStep ==
    ASSUME TypeOK, NEW c \in Calls, RightCode(c)
    PROVE  /\ Moved(c, "store")
           /\ At(c, "guess") /\ call[c].count <= MaxAttempts
           /\ call'[c].entry = call[c].entry /\ call'[c].late = call[c].late
           /\ call'[c].count = call[c].count
           /\ UNCHANGED <<password, issued, users, attempts>>
<1> DEFINE r == [call[c] EXCEPT !.pc = "store", !.from = password]
<1>1. /\ r \in CallRecords /\ r.pc = "store" /\ r.entry = call[c].entry
      /\ r.count = call[c].count /\ r.late = call[c].late
  BY FromRecord
<1>2. c \in Active /\ Goto(c, r) /\ overdue' = overdue
  BY DEF RightCode, At, Active, UnderWay
<1> QED
  BY <1>1, <1>2, GotoMoves DEF RightCode, table

LEMMA StoreResetStep ==
    ASSUME TypeOK, NEW c \in Calls, StoreReset(c)
    PROVE  /\ At(c, "store") /\ call'[c].entry = call[c].entry
           /\ \/ Moved(c, "error") /\ UNCHANGED <<password, issued, users, attempts>>
              \/ /\ Moved(c, "stored") /\ UsersGrow(c)
                 /\ password' = c /\ issued' = issued
                 /\ attempts' = [attempts EXCEPT ![call[c].entry] = call[c].count]
<1>1. c \in Active /\ overdue' = overdue /\ At(c, "store")
  BY DEF StoreReset, At, Active, UnderWay
<1>2. "error" \in PCs /\ "stored" \in PCs
  BY DEF PCs
<1>3. CASE call[c].from = NoRow /\ password # NoRow
  BY <1>1, <1>2, <1>3, ReturnMoves DEF StoreReset, table
<1>4. CASE ~(call[c].from = NoRow /\ password # NoRow)
  <2>1. UsersGrow(c)
    BY <1>4 DEF StoreReset, UsersGrow, TypeOK
  <2> QED
    BY <1>1, <1>2, <1>4, <2>1, ReturnMoves DEF StoreReset
<1> QED
  BY <1>3, <1>4

LEMMA VerifyCurrentStep ==
    ASSUME TypeOK, NEW c \in Calls, VerifyCurrent(c)
    PROVE  /\ Moved(c, "refused") \/ (Moved(c, "held") /\ call'[c].from = password)
           /\ call'[c].entry = call[c].entry
           /\ UNCHANGED <<password, issued, users, attempts>>
<1> DEFINE r == [call[c] EXCEPT !.pc = "held", !.from = password]
<1>1. r \in CallRecords /\ r.pc = "held" /\ r.entry = call[c].entry /\ r.from = password
  BY FromRecord
<1>2. c \in Active /\ overdue' = overdue /\ (Return(c, "refused") \/ Goto(c, r))
  BY DEF VerifyCurrent, At, Active, UnderWay
<1>3. "refused" \in PCs
  BY DEF PCs
<1>4. CASE Return(c, "refused")
  BY <1>2, <1>3, <1>4, ReturnMoves DEF VerifyCurrent, table
<1>5. CASE Goto(c, r)
  BY <1>1, <1>2, <1>5, GotoMoves DEF VerifyCurrent, table
<1> QED
  BY <1>2, <1>4, <1>5

LEMMA StoreChangeStep ==
    ASSUME TypeOK, NEW c \in Calls, StoreChange(c)
    PROVE  /\ Moved(c, "stored") /\ At(c, "held") /\ password' = c
           /\ call'[c].entry = call[c].entry
           /\ UNCHANGED <<issued, users, attempts>>
<1>1. c \in Active /\ Return(c, "stored") /\ overdue' = overdue
  BY DEF StoreChange, At, Active, UnderWay
<1>2. "stored" \in PCs
  BY DEF PCs
<1> QED
  BY <1>1, <1>2, ReturnMoves DEF StoreChange, table

LEMMA FailsStep ==
    ASSUME TypeOK, NEW c \in Calls, Fails(c)
    PROVE  Moved(c, "error") /\ UNCHANGED <<password, issued, users, attempts>>
<1>1. "error" \in PCs
  BY DEF PCs
<1> QED
  BY <1>1, ReturnMoves DEF Fails, table

-----------------------------------------------------------------------------
(* The invariant.                                                          *)

\* Calls meet each other; calls under way have met; one that has not begun has met
\* none.
MetInv ==
    /\ \A c, d \in Calls : d \in met[c] <=> c \in met[d]
    /\ \A c, d \in Calls : At(c, "none") => d \notin met[c]
    /\ \A c, d \in Active : c # d => d \in met[c]

\* What a call knows is out of date only by what the calls it met have done.
KnowsBut(c) ==
    /\ At(c, "mail") => Unused \subseteq call[c].olds \cup met[c]
    /\ call[c].pc \in {"guess", "store"} =>
          call[c].entry \in issued \ call[c].late /\ users[call[c].entry] \subseteq met[c]
    /\ At(c, "held") => password \in met[c] \cup {call[c].from}
    /\ At(c, "store") => call[c].count <= MaxAttempts
    /\ call[c].pc \in {"none", "reset", "change", "held"} => call[c].entry = NoCall

CodeInv ==
    /\ \A e \in issued : At(e, "issued")
    /\ \A e \in Calls : attempts[e] > MaxAttempts => users[e] # {}
    /\ OneGoodCode
    /\ \A c \in Calls : KnowsBut(c)

Inv == TypeOK /\ MetInv /\ CodeInv

LEMMA MovedKeepsMet ==
    ASSUME TypeOK, MetInv, NEW c \in Calls, NEW p \in PCs \ {"none"}, Moved(c, p)
    PROVE  MetInv'
<1>1. Active' \subseteq Active
  BY DEF Moved, Active
<1>2. \A d \in Calls : At(d, "none")' => At(d, "none")
  BY DEF Moved, At
<1> QED
  BY <1>1, <1>2 DEF Moved, MetInv, Active

\* The calls that do not move know as much as before but for the one they met.
LEMMA OthersKnow ==
    ASSUME Inv, NEW c \in Calls, NEW p \in PCs \ {"none"}, Moved(c, p), UsersGrow(c),
           password' = password \/ password' = c,
           issued' = issued \/ issued' = issued \cup {c},
           NEW d \in Calls \ {c}
    PROVE  KnowsBut(d)'
<1>1. call'[d] = call[d] /\ met'[d] = met[d]
  BY DEF Moved
<1>2. call[d].pc \in UnderWay => c \in met[d]
  BY DEF Moved, Inv, MetInv, Active
<1>3. Unused' \subseteq Unused \cup {c}
  BY DEF Unused, UsersGrow, Inv, TypeOK
<1>4. At(d, "mail")' => Unused' \subseteq call'[d].olds \cup met'[d]
  BY <1>1, <1>2, <1>3 DEF Inv, CodeInv, KnowsBut, At, UnderWay
<1>5. call'[d].pc \in {"guess", "store"} =>
         call'[d].entry \in issued' \ call'[d].late /\ users'[call'[d].entry] \subseteq met'[d]
  <2>1. SUFFICES ASSUME call[d].pc \in {"guess", "store"}
                 PROVE  call[d].entry \in issued' \ call[d].late
                        /\ users'[call[d].entry] \subseteq met[d]
    BY <1>1
  <2>2. call[d].entry \in issued \ call[d].late /\ users[call[d].entry] \subseteq met[d]
    BY <2>1 DEF Inv, CodeInv, KnowsBut
  <2>3. call[d].entry \in Calls
    BY <2>2 DEF Inv, TypeOK
  <2> QED
    BY <1>2, <2>1, <2>2, <2>3 DEF UsersGrow, UnderWay
<1>6. At(d, "held")' => password' \in met'[d] \cup {call'[d].from}
  BY <1>1, <1>2 DEF Inv, CodeInv, KnowsBut, At, UnderWay
<1> QED
  BY <1>1, <1>4, <1>5, <1>6 DEF Inv, CodeInv, KnowsBut, At

\* Of a call that moves, it remains to be shown what it knows afterwards.
LEMMA MovedKeeps ==
    ASSUME Inv, NEW c \in Calls, NEW p \in PCs \ {"none"}, Moved(c, p), UsersGrow(c),
           password' = password \/ password' = c,
           issued' = issued \/ (p = "issued" /\ issued' = issued \cup {c}
                                /\ Unused' \subseteq met[c] \cup {c}),
           attempts' \in [Calls -> 0 .. MaxAttempts + 1],
           \A e \in Calls : attempts'[e] > MaxAttempts => users'[e] # {},
           KnowsBut(c)'
    PROVE  Inv'
<1>1. TypeOK'
  BY DEF Inv, TypeOK, Moved, UsersGrow, Passwords
<1>2. MetInv'
  BY MovedKeepsMet DEF Inv
<1>3. \A e \in issued' : At(e, "issued")'
  <2>1. c \notin issued
    BY DEF Moved, Active, Inv, CodeInv, At, UnderWay
  <2> QED
    BY <2>1 DEF Moved, Inv, CodeInv, TypeOK, At
<1>4. OneGoodCode'
  <2> SUFFICES ASSUME NEW a \in Unused', NEW b \in Unused', a # b
               PROVE  b \in met'[a]
    BY DEF OneGoodCode
  <2>1. a \in Calls /\ b \in Calls /\ met' = met
    BY DEF Inv, TypeOK, Unused, Moved
  <2>2. CASE issued' = issued
    <3>1. a \in Unused /\ b \in Unused
      BY <2>1, <2>2 DEF Unused, UsersGrow, Inv, TypeOK
    <3> QED
      BY <2>1, <3>1 DEF Inv, CodeInv, OneGoodCode
  <2>3. CASE issued' = issued \cup {c} /\ Unused' \subseteq met[c] \cup {c}
    <3>1. CASE a # c /\ b # c
      <4>1. a \in Unused /\ b \in Unused
        BY <2>1, <2>3, <3>1 DEF Unused, UsersGrow, Inv, TypeOK
      <4> QED
        BY <2>1, <4>1 DEF Inv, CodeInv, OneGoodCode
    <3>2. CASE a = c \/ b = c
      BY <2>1, <2>3, <3>2 DEF Inv, MetInv
    <3> QED
      BY <3>1, <3>2
  <2> QED
    BY <2>2, <2>3
<1>5. \A d \in Calls : KnowsBut(d)'
  BY OthersKnow
<1> QED
  BY <1>1, <1>2, <1>3, <1>4, <1>5 DEF Inv, CodeInv

LEMMA UnchangedGrow ==
    ASSUME TypeOK, NEW c \in Calls, users' = users
    PROVE  UsersGrow(c)
BY DEF UsersGrow, TypeOK

LEMMA BeginKeeps ==
    ASSUME Inv, NEW c \in Calls, NEW p \in {"forgot", "reset", "change"}, Begin(c, p)
    PROVE  /\ Inv'
           /\ \A d \in Calls : call'[d].entry = call[d].entry
           /\ \A d \in Calls : met[d] \subseteq met'[d]
           /\ \A d \in Calls : call'[d].pc # p => call'[d] = call[d]
<1> DEFINE r == [NoRecord EXCEPT !.pc = p, !.late = overdue]
<1>1. r \in CallRecords /\ r.pc = p /\ r.entry = NoCall
  <2>1. p \in PCs
    BY DEF PCs, UnderWay
  <2> QED
    BY <2>1, BeginRecord DEF Inv
<1>2. /\ call' = [call EXCEPT ![c] = r] /\ At(c, "none")
      /\ met' = [d \in Calls |-> IF d = c THEN Active
                                 ELSE IF d \in Active THEN met[d] \cup {c} ELSE met[d]]
      /\ UNCHANGED <<password, overdue, issued, users, attempts>>
  BY DEF Begin, table
<1> HIDE DEF r
<1>3. TypeOK'
  BY <1>1, <1>2 DEF Inv, TypeOK, Active
<1>4. \A d \in Calls : call'[d] = IF d = c THEN r ELSE call[d]
  BY <1>2 DEF Inv, TypeOK
<1>5. Active' = Active \cup {c} /\ c \notin Active
  BY <1>1, <1>2, <1>4 DEF Active, UnderWay, At
<1>6. MetInv'
  <2>1. \A d \in Calls : c \notin met[d] /\ d \notin met[c]
    BY <1>2 DEF Inv, MetInv
  <2>2. \A d \in Active : d \in Calls
    BY DEF Active
  <2>3. \A d, e \in Calls : d \in met'[e] <=> e \in met'[d]
    BY <1>2, <1>5, <2>1, <2>2 DEF Inv, MetInv
  <2>4. \A d, e \in Calls : At(d, "none")' => e \notin met'[d]
    <3> SUFFICES ASSUME NEW d \in Calls, NEW e \in Calls, At(d, "none")'
                 PROVE  e \notin met'[d]
      OBVIOUS
    <3>1. d # c /\ At(d, "none")
      BY <1>1, <1>4 DEF At
    <3>2. d \notin Active
      BY <3>1 DEF Active, At, UnderWay
    <3> QED
      BY <1>2, <3>1, <3>2 DEF Inv, MetInv
  <2>5. \A d, e \in Active' : d # e => e \in met'[d]
    BY <1>2, <1>5, <2>2 DEF Inv, MetInv
  <2> QED
    BY <2>3, <2>4, <2>5 DEF MetInv
<1>7. \A e \in issued' : At(e, "issued")'
  BY <1>2, <1>4 DEF Inv, CodeInv, TypeOK, At
<1>8. \A d \in Calls : met[d] \subseteq met'[d]
  <2>1. met[c] = {}
    BY <1>2 DEF Inv, MetInv, TypeOK
  <2> QED
    BY <1>2, <2>1
<1>9. OneGoodCode'
  BY <1>2, <1>8 DEF Inv, CodeInv, OneGoodCode, Unused, TypeOK
<1>10. ASSUME NEW d \in Calls PROVE KnowsBut(d)'
  <2>1. CASE d = c
    BY <1>1, <1>4, <2>1 DEF KnowsBut, At
  <2>2. CASE d # c
    <3>1. call'[d] = call[d] /\ met[d] \subseteq met'[d]
      BY <1>4, <1>8, <2>2
    <3>2. KnowsBut(d)
      BY DEF Inv, CodeInv
    <3> QED
      BY <1>2, <3>1, <3>2 DEF KnowsBut, At, Unused
  <2> QED
    BY <2>1, <2>2
<1>11. call[c].entry = NoCall
  BY <1>2 DEF Inv, CodeInv, KnowsBut, At
<1> QED
  BY <1>1, <1>2, <1>3, <1>4, <1>6, <1>7, <1>8, <1>9, <1>10, <1>11 DEF Inv, CodeInv

LEMMA TimePassesKeeps ==
    ASSUME Inv, NEW e \in Calls, TimePasses(e)
    PROVE  Inv'
<1>1. UNCHANGED <<password, issued, users, attempts, call, met>> /\ overdue' = overdue \cup {e}
  BY DEF TimePasses, table
<1>2. TypeOK'
  BY <1>1 DEF Inv, TypeOK
<1> QED
  BY <1>1, <1>2 DEF Inv, MetInv, CodeInv, OneGoodCode, KnowsBut, At, Active, Unused

LEMMA BootKeeps ==
    ASSUME Inv, Boot
    PROVE  /\ Inv'
           /\ \A c \in Calls : call'[c].entry = call[c].entry
           /\ \A c \in Calls : call'[c].pc \in {"wrong", "stored"} => call'[c] = call[c]
           /\ \A c \in Calls : call'[c].pc \notin {"guess", "store"}
<1>1. /\ UNCHANGED <<overdue, issued, users, attempts, met>>
      /\ password' \in {password, NoRow, Seed}
  BY DEF Boot, table
<1>2. \A c \in Calls :
         /\ call'[c] \in CallRecords
         /\ call'[c] = call[c] \/ call'[c].pc = "error"
         /\ call'[c].pc \notin UnderWay
         /\ call'[c].entry = call[c].entry
  <2> TAKE c \in Calls
  <2>1. CASE c \in Active
    <3>1. PICK p \in PCs : p = "error"
      BY DEF PCs
    <3> DEFINE r == [NoRecord EXCEPT !.pc = p, !.entry = call[c].entry]
    <3>2. r \in CallRecords /\ r.pc = p /\ r.entry = call[c].entry
      BY ReturnRecord DEF Inv
    <3>3. call'[c] = r
      BY <2>1, <3>1 DEF Boot
    <3> HIDE DEF r
    <3> QED
      BY <3>1, <3>2, <3>3 DEF UnderWay
  <2>2. CASE c \notin Active
    BY <2>2 DEF Boot, Inv, TypeOK, Active
  <2> QED
    BY <2>1, <2>2
<1>3. call' \in [Calls -> CallRecords]
  BY <1>2 DEF Boot
<1>4. TypeOK'
  BY <1>1, <1>3 DEF Inv, TypeOK, Passwords
<1>5. MetInv'
  BY <1>1, <1>2 DEF Inv, MetInv, Active, At
<1>6. \A e \in issued' : At(e, "issued")'
  <2> SUFFICES ASSUME NEW e \in issued PROVE At(e, "issued")'
    BY <1>1
  <2>1. e \in Calls /\ e \notin Active
    BY DEF Inv, CodeInv, TypeOK, At, Active, UnderWay
  <2> QED
    BY <2>1 DEF Boot, Inv, CodeInv, At
<1>7. \A c \in Calls : KnowsBut(c)'
  <2> TAKE c \in Calls
  <2>1. call'[c].pc \in {"none", "reset", "change", "held"} => call'[c].entry = NoCall
    BY <1>2 DEF Inv, CodeInv, KnowsBut, UnderWay
  <2> QED
    BY <1>2, <2>1 DEF KnowsBut, At, UnderWay
<1>8. OneGoodCode'
  BY <1>1 DEF Inv, CodeInv, OneGoodCode, Unused
<1> QED
  BY <1>1, <1>2, <1>4, <1>5, <1>6, <1>7, <1>8 DEF Inv, CodeInv, UnderWay

-----------------------------------------------------------------------------
(* Counting the guesses.                                                   *)

Lone(e) == {c \in Guesses(e) : Alone(c)}

\* A code's attempts count the guesses made alone, and a reset that loaded the code
\* will write more than there are.
LoneInv ==
    /\ \A e \in Calls : Cardinality(Lone(e)) <= attempts[e]
    /\ \A e \in Calls : Cardinality(Lone(e)) <= MaxAttempts
    /\ \A d \in Calls : call[d].pc \in {"guess", "store"} =>
                           Cardinality(Lone(call[d].entry)) < call[d].count

\* Counting calls.
LEMMA Counted ==
    ASSUME NEW S \in SUBSET Calls, NEW T \in SUBSET Calls, NEW c \in Calls
    PROVE  /\ Cardinality(S) \in Nat
           /\ T \subseteq S => Cardinality(T) <= Cardinality(S)
           /\ T \subseteq S \cup {c} => Cardinality(T) <= Cardinality(S) + 1
<1>1. IsFiniteSet(S) /\ IsFiniteSet(T) /\ Cardinality(S) \in Nat /\ Cardinality(T) \in Nat
  BY CallsAssumption, FS_Subset, FS_CardinalityType
<1>2. T \subseteq S => Cardinality(T) <= Cardinality(S)
  BY <1>1, FS_Subset
<1>3. ASSUME T \subseteq S \cup {c} PROVE Cardinality(T) <= Cardinality(S) + 1
  <2>1. /\ IsFiniteSet(S \cup {c})
        /\ Cardinality(S \cup {c}) = Cardinality(S) \/ Cardinality(S \cup {c}) = Cardinality(S) + 1
    BY <1>1, FS_AddElement
  <2>2. Cardinality(T) <= Cardinality(S \cup {c})
    BY <1>3, <2>1, FS_Subset
  <2> QED
    BY <1>1, <2>1, <2>2
<1> QED
  BY <1>1, <1>2, <1>3

\* Guesses made alone may turn out not to have been, and only a call that ends becomes
\* one.
LEMMA LoneShrinks ==
    ASSUME NullsAssumption, TypeOK, NEW c \in Calls, NEW e \in Calls,
           \A d \in Calls : call[d].entry # NoCall => call'[d].entry = call[d].entry,
           \A d \in Calls : met[d] \subseteq met'[d],
           \A d \in Calls \ {c} :
              call'[d].pc \in {"wrong", "stored"} => call'[d].pc = call[d].pc
                                                     /\ call'[d].entry = call[d].entry
    PROVE  /\ Lone(e)' \subseteq Lone(e) \cup {c}
           /\ c \notin Lone(e)' => Lone(e)' \subseteq Lone(e)
<1> SUFFICES ASSUME NEW x \in Lone(e)', x # c
             PROVE  x \in Lone(e)
  OBVIOUS
<1>1. /\ x \in Calls /\ call'[x].entry = e /\ call'[x].pc \in {"wrong", "stored"}
      /\ \A d \in met'[x] : call'[d].entry # e
  BY DEF Lone, Guesses, Alone
<1>2. call[x].entry = e /\ call[x].pc \in {"wrong", "stored"}
  BY <1>1
<1>3. ASSUME NEW d \in met[x], call[d].entry = e PROVE FALSE
  <2>1. d \in Calls /\ d \in met'[x] /\ e # NoCall
    BY <1>1 DEF TypeOK, NullsAssumption
  <2> QED
    BY <1>1, <1>3, <2>1
<1> QED
  BY <1>1, <1>2, <1>3 DEF Lone, Guesses, Alone

LEMMA MovedShrinks ==
    ASSUME Inv, NEW c \in Calls, NEW p, Moved(c, p), NEW e \in Calls
    PROVE  /\ Lone(e) \in SUBSET Calls /\ Lone(e)' \in SUBSET Calls
           /\ Lone(e)' \subseteq Lone(e) \cup {c}
           /\ \/ p \notin {"wrong", "stored"} \/ call'[c].entry # e
              \/ \E d \in Calls : d \in met[c] /\ d # c /\ call[d].entry = e
              => Lone(e)' \subseteq Lone(e)
<1>1. Lone(e) \in SUBSET Calls /\ Lone(e)' \in SUBSET Calls
  BY DEF Lone, Guesses
<1>2. /\ Lone(e)' \subseteq Lone(e) \cup {c}
      /\ c \notin Lone(e)' => Lone(e)' \subseteq Lone(e)
  <2>1. \A d \in Calls : call[d].entry # NoCall => call'[d].entry = call[d].entry
    BY DEF Moved
  <2>2. \A d \in Calls : met[d] \subseteq met'[d]
    BY DEF Moved
  <2>3. \A d \in Calls \ {c} : call'[d] = call[d]
    BY DEF Moved
  <2> QED
    BY <2>1, <2>2, <2>3, NullsAssumption, LoneShrinks DEF Inv
<1>3. ASSUME c \in Lone(e)'
      PROVE  /\ p \in {"wrong", "stored"} /\ call'[c].entry = e
             /\ \A d \in Calls : d \in met[c] /\ d # c => call[d].entry # e
  BY <1>3 DEF Lone, Guesses, Alone, Moved
<1> QED
  BY <1>1, <1>2, <1>3

\* A step that is no guess.
LEMMA NoGuess ==
    ASSUME Inv, LoneInv, NEW c \in Calls, NEW p, Moved(c, p), TypeOK',
           p \notin {"wrong", "stored"} \/ call'[c].entry = NoCall,
           \A e \in Calls : attempts'[e] = attempts[e] \/ attempts'[e] > MaxAttempts,
           p \in {"guess", "store"} =>
              call'[c].entry \in Calls /\ Cardinality(Lone(call'[c].entry)) < call'[c].count
    PROVE  LoneInv'
<1>1. ASSUME NEW e \in Calls
      PROVE  /\ Cardinality(Lone(e)') <= Cardinality(Lone(e))
             /\ Cardinality(Lone(e)) \in Nat /\ Cardinality(Lone(e)') \in Nat
  <2>1. Lone(e)' \subseteq Lone(e) /\ Lone(e) \in SUBSET Calls /\ Lone(e)' \in SUBSET Calls
    BY MovedShrinks, NullsAssumption
  <2> QED
    BY <2>1, Counted
<1>2. \A e \in Calls : attempts[e] \in Nat /\ attempts'[e] \in Nat
  BY MaxAttemptsAssumption DEF Inv, TypeOK
<1>3. ASSUME NEW e \in Calls
      PROVE  Cardinality(Lone(e)') <= attempts'[e] /\ Cardinality(Lone(e)') <= MaxAttempts
  BY <1>1, <1>2, MaxAttemptsAssumption DEF LoneInv
<1>4. ASSUME NEW d \in Calls, call'[d].pc \in {"guess", "store"}
      PROVE  (Cardinality(Lone(call[d].entry)) < call[d].count)'
  <2>1. call'[d].entry \in Calls /\ Cardinality(Lone(call'[d].entry)) < call'[d].count
    <3>1. CASE d = c
      BY <1>4, <3>1 DEF Moved
    <3>2. CASE d # c
      <4>1. call'[d] = call[d]
        BY <3>2 DEF Moved
      <4>2. call[d].entry \in issued
        BY <1>4, <4>1 DEF Inv, CodeInv, KnowsBut
      <4> QED
        BY <1>4, <4>1, <4>2 DEF LoneInv, Inv, TypeOK
    <3> QED
      BY <3>1, <3>2
  <2>2. call'[d].count \in Nat
    BY MaxAttemptsAssumption DEF TypeOK, CallRecords
  <2>3. PICK e \in Calls : e = call'[d].entry
    BY <2>1
  <2>4. /\ Cardinality(Lone(e)') <= Cardinality(Lone(e))
        /\ Cardinality(Lone(e)) \in Nat /\ Cardinality(Lone(e)') \in Nat
    BY <1>1
  <2> QED
    BY <2>1, <2>2, <2>3, <2>4 DEF Lone, Guesses, Alone
<1> QED
  BY <1>3, <1>4 DEF LoneInv

\* A guess: the attempts written back count it, unless another reset of the same code
\* is under way, and then it was not made alone.
LEMMA Guess ==
    ASSUME Inv, LoneInv, NEW c \in Calls, NEW p \in {"wrong", "stored"}, Moved(c, p), TypeOK',
           call[c].pc \in {"guess", "store"}, call[c].count <= MaxAttempts,
           call'[c].entry = call[c].entry,
           attempts' = [attempts EXCEPT ![call[c].entry] = call[c].count]
    PROVE  LoneInv'
<1>1. PICK k \in Calls : k = call[c].entry
  BY DEF Inv, CodeInv, KnowsBut, TypeOK
<1>2. PICK n \in Nat : n = call[c].count /\ n <= MaxAttempts /\ Cardinality(Lone(k)) < n
  BY <1>1, MaxAttemptsAssumption DEF Inv, TypeOK, CallRecords, LoneInv
<1>3. \A e \in Calls : attempts'[e] = IF e = k THEN n ELSE attempts[e]
  BY <1>1, <1>2 DEF Inv, TypeOK
<1>4. ASSUME NEW e \in Calls
      PROVE  /\ Cardinality(Lone(e)) \in Nat /\ Cardinality(Lone(e)') \in Nat
             /\ Cardinality(Lone(e)') <= Cardinality(Lone(e)) + 1
             /\ e # k => Cardinality(Lone(e)') <= Cardinality(Lone(e))
  <2>1. /\ Lone(e) \in SUBSET Calls /\ Lone(e)' \in SUBSET Calls
        /\ Lone(e)' \subseteq Lone(e) \cup {c}
        /\ e # k => Lone(e)' \subseteq Lone(e)
    BY <1>1, MovedShrinks
  <2> QED
    BY <2>1, Counted
<1>5. ASSUME NEW e \in Calls
      PROVE  Cardinality(Lone(e)') <= attempts'[e] /\ Cardinality(Lone(e)') <= MaxAttempts
  <2>1. Cardinality(Lone(e)) <= attempts[e] /\ Cardinality(Lone(e)) <= MaxAttempts
    BY DEF LoneInv
  <2>2. attempts[e] \in Nat
    BY MaxAttemptsAssumption DEF Inv, TypeOK
  <2> QED
    BY <1>2, <1>3, <1>4, <2>1, <2>2, MaxAttemptsAssumption
<1>6. ASSUME NEW d \in Calls, call'[d].pc \in {"guess", "store"}
      PROVE  (Cardinality(Lone(call[d].entry)) < call[d].count)'
  <2>1. d # c
    BY <1>6 DEF Moved
  <2>2. call'[d] = call[d]
    BY <2>1 DEF Moved
  <2>3. PICK e \in Calls : e = call[d].entry /\ Cardinality(Lone(e)) < call[d].count
    BY <1>6, <2>2 DEF Inv, CodeInv, KnowsBut, TypeOK, LoneInv
  <2>4. d \in met[c]
    BY <1>6, <2>1, <2>2 DEF Inv, MetInv, Active, UnderWay
  <2>5. Lone(e)' \subseteq Lone(e) /\ Lone(e) \in SUBSET Calls /\ Lone(e)' \in SUBSET Calls
    BY <2>1, <2>3, <2>4, MovedShrinks
  <2>6. Cardinality(Lone(e)') <= Cardinality(Lone(e))
    BY <2>5, Counted
  <2>7. call[d].count \in Nat
    BY MaxAttemptsAssumption DEF Inv, TypeOK, CallRecords
  <2> QED
    BY <1>4, <2>2, <2>3, <2>6, <2>7 DEF Lone, Guesses, Alone
<1> QED
  BY <1>5, <1>6 DEF LoneInv

\* A start, and the clock.
LEMMA NobodyGuesses ==
    ASSUME Inv, LoneInv, TypeOK', attempts' = attempts,
           \A d \in Calls : call'[d].entry = call[d].entry,
           \A d \in Calls : met[d] \subseteq met'[d],
           \A d \in Calls : call'[d].pc \in {"guess", "store", "wrong", "stored"} =>
                               call'[d] = call[d]
    PROVE  LoneInv'
<1>1. ASSUME NEW e \in Calls
      PROVE  /\ Cardinality(Lone(e)') <= Cardinality(Lone(e))
             /\ Cardinality(Lone(e)) \in Nat /\ Cardinality(Lone(e)') \in Nat
  <2>1. Lone(e)' \subseteq Lone(e) /\ Lone(e) \in SUBSET Calls /\ Lone(e)' \in SUBSET Calls
    <3>1. ASSUME NEW x \in Lone(e)' PROVE x \in Lone(e)
      <4>1. /\ x \in Calls /\ call'[x].entry = e /\ call'[x].pc \in {"wrong", "stored"}
            /\ \A d \in met'[x] : call'[d].entry # e
        BY <3>1 DEF Lone, Guesses, Alone
      <4>2. \A d \in met[x] : d \in Calls /\ d \in met'[x]
        BY <4>1 DEF Inv, TypeOK
      <4> QED
        BY <4>1, <4>2 DEF Lone, Guesses, Alone
    <3> QED
      BY <3>1 DEF Lone, Guesses
  <2> QED
    BY <2>1, Counted
<1>2. ASSUME NEW e \in Calls
      PROVE  Cardinality(Lone(e)') <= attempts'[e] /\ Cardinality(Lone(e)') <= MaxAttempts
  <2>1. attempts[e] \in Nat
    BY MaxAttemptsAssumption DEF Inv, TypeOK
  <2> QED
    BY <1>1, <2>1, MaxAttemptsAssumption DEF LoneInv
<1>3. ASSUME NEW d \in Calls, call'[d].pc \in {"guess", "store"}
      PROVE  (Cardinality(Lone(call[d].entry)) < call[d].count)'
  <2>1. call'[d] = call[d]
    BY <1>3
  <2>2. PICK e \in Calls : e = call[d].entry /\ Cardinality(Lone(e)) < call[d].count
    BY <1>3, <2>1 DEF Inv, CodeInv, KnowsBut, TypeOK, LoneInv
  <2>3. call[d].count \in Nat
    BY MaxAttemptsAssumption DEF Inv, TypeOK, CallRecords
  <2> QED
    <3>1. Lone(call[d].entry)' = Lone(e)'
      BY <2>1, <2>2 DEF Lone, Guesses, Alone
    <3>2. /\ Cardinality(Lone(e)') <= Cardinality(Lone(e))
          /\ Cardinality(Lone(e)) \in Nat /\ Cardinality(Lone(e)') \in Nat
      BY <1>1
    <3> QED
      BY <2>1, <2>2, <2>3, <3>1, <3>2
<1> QED
  BY <1>2, <1>3 DEF LoneInv

-----------------------------------------------------------------------------
(* Every step.                                                             *)

LEMMA CallStepKeeps ==
    ASSUME Inv, LoneInv, NEW c \in Calls,
           \/ SelectOlds(c) \/ Issue(c) \/ SelectEntry(c) \/ LockCode(c) \/ WrongCode(c)
           \/ RightCode(c) \/ StoreReset(c) \/ VerifyCurrent(c) \/ StoreChange(c) \/ Fails(c)
    PROVE  Inv' /\ LoneInv'
<1>0. TypeOK /\ KnowsBut(c) /\ \A e \in Calls : attempts[e] > MaxAttempts => users[e] # {}
  BY DEF Inv, CodeInv
<1>1. CASE SelectOlds(c)
  <2>1. /\ Moved(c, "mail") /\ call'[c].olds = Unused
        /\ UNCHANGED <<password, issued, users, attempts>>
    BY <1>0, <1>1, SelectOldsStep
  <2>2. KnowsBut(c)'
    BY <2>1 DEF KnowsBut, Moved, At, Unused
  <2>3. Inv'
    BY <1>0, <2>1, <2>2, UnchangedGrow, MovedKeeps DEF TypeOK, PCs, UnderWay
  <2> QED
    BY <2>1, <2>3, NoGuess DEF Inv
<1>2. CASE Issue(c)
  <2>1. /\ Moved(c, "issued") /\ At(c, "mail") /\ UsersGrow(c) /\ issued' = issued \cup {c}
        /\ \A e \in call[c].olds : e \in Calls => users'[e] # {}
        /\ UNCHANGED <<password, attempts>>
    BY <1>0, <1>2, IssueStep
  <2>2. KnowsBut(c)'
    BY <2>1 DEF KnowsBut, Moved, At
  <2>3. Unused' \subseteq met[c] \cup {c}
    <3> SUFFICES ASSUME NEW e \in Unused', e # c PROVE e \in met[c]
      OBVIOUS
    <3>1. e \in Calls /\ e \in issued /\ users'[e] = {} /\ users[e] = {}
      BY <1>0, <2>1 DEF Unused, UsersGrow, TypeOK
    <3>2. e \in Unused /\ e \notin call[c].olds
      BY <2>1, <3>1 DEF Unused
    <3> QED
      BY <1>0, <2>1, <3>2 DEF KnowsBut
  <2>4. \A e \in Calls : attempts'[e] > MaxAttempts => users'[e] # {}
    BY <1>0, <2>1 DEF UsersGrow
  <2>5. Inv'
    BY <1>0, <2>1, <2>2, <2>3, <2>4, MovedKeeps DEF TypeOK, PCs
  <2> QED
    BY <2>1, <2>5, NoGuess DEF Inv
<1>3. CASE SelectEntry(c)
  <2>1. call[c].entry = NoCall
    BY <1>0, <1>3 DEF SelectEntry, At, KnowsBut
  <2>2. \A e \in issued : attempts[e] > MaxAttempts => users[e] # {}
    BY <1>0 DEF TypeOK
  <2>3. /\ UNCHANGED <<password, issued, users, attempts>>
        /\ \/ Moved(c, "refused")
           \/ \E e \in Unused \ call[c].late :
                 /\ Moved(c, "guess")
                 /\ call'[c].entry = e /\ call'[c].late = call[c].late
                 /\ call'[c].count = attempts[e] + 1
    BY <1>0, <1>3, <2>1, <2>2, SelectEntryStep
  <2>4. CASE Moved(c, "refused")
    <3>1. KnowsBut(c)'
      BY <2>4 DEF KnowsBut, Moved, At
    <3>2. Inv'
      BY <1>0, <2>3, <2>4, <3>1, UnchangedGrow, MovedKeeps DEF TypeOK, PCs
    <3> QED
      BY <2>3, <2>4, <3>2, NoGuess DEF Inv
  <2>5. ASSUME NEW e \in Unused \ call[c].late,
               Moved(c, "guess"), call'[c].entry = e, call'[c].late = call[c].late,
               call'[c].count = attempts[e] + 1
        PROVE  Inv' /\ LoneInv'
    <3>1. e \in Calls /\ e \in issued /\ users[e] = {}
      BY <1>0 DEF TypeOK, Unused
    <3>2. KnowsBut(c)'
      BY <2>3, <2>5, <3>1 DEF KnowsBut, Moved, At
    <3>3. Inv'
      BY <1>0, <2>3, <2>5, <3>2, UnchangedGrow, MovedKeeps DEF TypeOK, PCs, UnderWay
    <3>4. Cardinality(Lone(e)) <= attempts[e] /\ attempts[e] \in Nat
      BY <1>0, <3>1, MaxAttemptsAssumption DEF LoneInv, TypeOK
    <3>5. Cardinality(Lone(e)) \in Nat
      BY <3>1, Counted DEF Lone, Guesses
    <3>6. Cardinality(Lone(call'[c].entry)) < call'[c].count
      BY <2>5, <3>4, <3>5
    <3> QED
      BY <2>3, <2>5, <3>1, <3>3, <3>6, NoGuess DEF Inv
  <2> QED
    BY <2>3, <2>4, <2>5
<1>4. CASE LockCode(c)
  <2>1. call[c].entry \in Calls
    BY <1>0, <1>4 DEF LockCode, At, KnowsBut, TypeOK
  <2>2. /\ Moved(c, "refused") /\ UsersGrow(c)
        /\ call[c].count > MaxAttempts
        /\ attempts' = [attempts EXCEPT ![call[c].entry] = call[c].count]
        /\ users'[call[c].entry] # {}
        /\ UNCHANGED <<password, issued>>
    BY <1>0, <1>4, <2>1, LockCodeStep
  <2>3. KnowsBut(c)'
    BY <2>2 DEF KnowsBut, Moved, At
  <2>4. attempts' \in [Calls -> 0 .. MaxAttempts + 1]
    BY <1>0, <2>1, <2>2 DEF TypeOK, CallRecords
  <2>5. \A e \in Calls : attempts'[e] > MaxAttempts => users'[e] # {}
    BY <1>0, <2>1, <2>2 DEF TypeOK, UsersGrow
  <2>6. Inv'
    BY <2>2, <2>3, <2>4, <2>5, MovedKeeps DEF PCs
  <2>7. \A e \in Calls : attempts'[e] = attempts[e] \/ attempts'[e] > MaxAttempts
    BY <1>0, <2>1, <2>2 DEF TypeOK
  <2> QED
    BY <2>2, <2>6, <2>7, NoGuess DEF Inv
<1>5. CASE WrongCode(c)
  <2>1. /\ Moved(c, "wrong") /\ call'[c].entry = call[c].entry
        /\ At(c, "guess") /\ call[c].count <= MaxAttempts
        /\ attempts' = [attempts EXCEPT ![call[c].entry] = call[c].count]
        /\ UNCHANGED <<password, issued, users>>
    BY <1>0, <1>5, WrongCodeStep
  <2>2. KnowsBut(c)'
    BY <2>1 DEF KnowsBut, Moved, At
  <2>3. call[c].count \in 0 .. MaxAttempts + 1 /\ call[c].entry \in Calls
    BY <1>0, <2>1 DEF TypeOK, CallRecords, At, KnowsBut
  <2>4. attempts' \in [Calls -> 0 .. MaxAttempts + 1]
    BY <1>0, <2>1, <2>3 DEF TypeOK
  <2>5. \A e \in Calls : attempts'[e] > MaxAttempts => users'[e] # {}
    BY <1>0, <2>1, <2>3, MaxAttemptsAssumption DEF TypeOK
  <2>6. Inv'
    BY <1>0, <2>1, <2>2, <2>4, <2>5, UnchangedGrow, MovedKeeps DEF PCs
  <2>7. call[c].pc \in {"guess", "store"} /\ TypeOK'
    BY <2>1, <2>6 DEF At, Inv
  <2> QED
    BY <2>1, <2>6, <2>7, Guess
<1>6. CASE RightCode(c)
  <2>1. /\ Moved(c, "store")
        /\ At(c, "guess") /\ call[c].count <= MaxAttempts
        /\ call'[c].entry = call[c].entry /\ call'[c].late = call[c].late
        /\ call'[c].count = call[c].count
        /\ UNCHANGED <<password, issued, users, attempts>>
    BY <1>0, <1>6, RightCodeStep
  <2>2. KnowsBut(c)'
    BY <1>0, <2>1 DEF KnowsBut, Moved, At
  <2>3. Inv'
    BY <1>0, <2>1, <2>2, UnchangedGrow, MovedKeeps DEF TypeOK, PCs, UnderWay
  <2>4. call'[c].entry \in Calls /\ Cardinality(Lone(call'[c].entry)) < call'[c].count
    BY <1>0, <2>1 DEF KnowsBut, TypeOK, LoneInv, At
  <2> QED
    BY <2>1, <2>3, <2>4, NoGuess DEF Inv
<1>7. CASE StoreReset(c)
  <2>1. /\ At(c, "store") /\ call'[c].entry = call[c].entry
        /\ \/ Moved(c, "error") /\ UNCHANGED <<password, issued, users, attempts>>
           \/ /\ Moved(c, "stored") /\ UsersGrow(c)
              /\ password' = c /\ issued' = issued
              /\ attempts' = [attempts EXCEPT ![call[c].entry] = call[c].count]
    BY <1>0, <1>7, StoreResetStep
  <2>2. CASE Moved(c, "error") /\ UNCHANGED <<password, issued, users, attempts>>
    <3>1. KnowsBut(c)'
      BY <2>2 DEF KnowsBut, Moved, At
    <3>2. Inv'
      BY <1>0, <2>2, <3>1, UnchangedGrow, MovedKeeps DEF TypeOK, PCs
    <3> QED
      BY <2>2, <3>2, NoGuess DEF Inv
  <2>3. CASE /\ Moved(c, "stored") /\ UsersGrow(c)
             /\ password' = c /\ issued' = issued
             /\ attempts' = [attempts EXCEPT ![call[c].entry] = call[c].count]
    <3>1. KnowsBut(c)'
      BY <2>3 DEF KnowsBut, Moved, At
    <3>2. /\ call[c].count \in 0 .. MaxAttempts + 1 /\ call[c].count <= MaxAttempts
          /\ call[c].entry \in Calls
      BY <1>0, <2>1 DEF TypeOK, CallRecords, At, KnowsBut
    <3>3. attempts' \in [Calls -> 0 .. MaxAttempts + 1]
      BY <1>0, <2>3, <3>2 DEF TypeOK
    <3>4. \A e \in Calls : attempts'[e] > MaxAttempts => users'[e] # {}
      BY <1>0, <2>3, <3>2, MaxAttemptsAssumption DEF TypeOK, UsersGrow
    <3>5. Inv'
      BY <2>3, <3>1, <3>3, <3>4, MovedKeeps DEF PCs
    <3>6. call[c].pc \in {"guess", "store"} /\ TypeOK'
      BY <2>1, <3>5 DEF At, Inv
    <3> QED
      BY <2>1, <2>3, <3>2, <3>5, <3>6, Guess
  <2> QED
    BY <2>1, <2>2, <2>3
<1>8. CASE VerifyCurrent(c)
  <2>1. /\ Moved(c, "refused") \/ (Moved(c, "held") /\ call'[c].from = password)
        /\ call'[c].entry = call[c].entry
        /\ UNCHANGED <<password, issued, users, attempts>>
    BY <1>0, <1>8, VerifyCurrentStep
  <2>2. PICK p \in {"refused", "held"} : Moved(c, p) /\ (p = "held" => call'[c].from = password)
    BY <2>1
  <2>3. call[c].entry = NoCall
    BY <1>0, <1>8 DEF VerifyCurrent, At, KnowsBut
  <2>4. KnowsBut(c)'
    BY <2>1, <2>2, <2>3 DEF KnowsBut, Moved, At
  <2>5. Inv'
    BY <1>0, <2>1, <2>2, <2>4, UnchangedGrow, MovedKeeps DEF TypeOK, PCs, UnderWay
  <2> QED
    BY <2>1, <2>2, <2>5, NoGuess DEF Inv
<1>9. CASE StoreChange(c)
  <2>1. /\ Moved(c, "stored") /\ At(c, "held") /\ password' = c
        /\ call'[c].entry = call[c].entry
        /\ UNCHANGED <<issued, users, attempts>>
    BY <1>0, <1>9, StoreChangeStep
  <2>2. KnowsBut(c)' /\ call'[c].entry = NoCall
    BY <1>0, <2>1 DEF KnowsBut, Moved, At
  <2>3. Inv'
    BY <1>0, <2>1, <2>2, UnchangedGrow, MovedKeeps DEF TypeOK, PCs
  <2> QED
    BY <2>1, <2>2, <2>3, NoGuess DEF Inv
<1>10. CASE Fails(c)
  <2>1. Moved(c, "error") /\ UNCHANGED <<password, issued, users, attempts>>
    BY <1>0, <1>10, FailsStep
  <2>2. KnowsBut(c)'
    BY <2>1 DEF KnowsBut, Moved, At
  <2>3. Inv'
    BY <1>0, <2>1, <2>2, UnchangedGrow, MovedKeeps DEF TypeOK, PCs
  <2> QED
    BY <2>1, <2>3, NoGuess DEF Inv
<1> QED
  BY <1>1, <1>2, <1>3, <1>4, <1>5, <1>6, <1>7, <1>8, <1>9, <1>10

LEMMA NextKeeps ==
    ASSUME Inv, LoneInv, [Next]_vars
    PROVE  Inv' /\ LoneInv'
<1>1. ASSUME NEW c \in Calls,
             \/ SelectOlds(c) \/ Issue(c) \/ SelectEntry(c) \/ LockCode(c) \/ WrongCode(c)
             \/ RightCode(c) \/ StoreReset(c) \/ VerifyCurrent(c) \/ StoreChange(c) \/ Fails(c)
      PROVE  Inv' /\ LoneInv'
  BY <1>1, CallStepKeeps
<1>2. ASSUME NEW c \in Calls, NEW p \in {"forgot", "reset", "change"}, Begin(c, p)
      PROVE  Inv' /\ LoneInv'
  <2>1. attempts' = attempts
    BY <1>2 DEF Begin, table
  <2>2. /\ Inv'
        /\ \A d \in Calls : call'[d].entry = call[d].entry
        /\ \A d \in Calls : met[d] \subseteq met'[d]
        /\ \A d \in Calls : call'[d].pc # p => call'[d] = call[d]
    BY <1>2, BeginKeeps
  <2> QED
    BY <2>1, <2>2, NobodyGuesses DEF Inv
<1>3. ASSUME NEW c \in Calls, TimePasses(c)
      PROVE  Inv' /\ LoneInv'
  <2>1. attempts' = attempts /\ call' = call /\ met' = met /\ Inv'
    BY <1>3, TimePassesKeeps DEF TimePasses, table
  <2> QED
    BY <2>1, NobodyGuesses DEF Inv
<1>4. CASE Boot
  <2>1. attempts' = attempts /\ met' = met
    BY <1>4 DEF Boot, table
  <2>2. /\ Inv'
        /\ \A c \in Calls : call'[c].entry = call[c].entry
        /\ \A c \in Calls : call'[c].pc \in {"wrong", "stored"} => call'[c] = call[c]
        /\ \A c \in Calls : call'[c].pc \notin {"guess", "store"}
    BY <1>4, BootKeeps
  <2> QED
    BY <2>1, <2>2, NobodyGuesses DEF Inv
<1>5. CASE UNCHANGED vars
  <2>1. TypeOK' /\ MetInv' /\ CodeInv'
    BY <1>5 DEF vars, Inv, TypeOK, MetInv, CodeInv, OneGoodCode, KnowsBut, At, Active, Unused
  <2>2. attempts' = attempts /\ call' = call /\ met' = met
    BY <1>5 DEF vars
  <2> QED
    BY <2>1, <2>2, NobodyGuesses DEF Inv
<1> QED
  BY <1>1, <1>2, <1>3, <1>4, <1>5 DEF Next, Forgot, Reset, ChangePassword

LEMMA InvHolds == Spec => [](Inv /\ LoneInv)
<1>1. Init => Inv /\ LoneInv
  <2> SUFFICES ASSUME Init PROVE Inv /\ LoneInv
    OBVIOUS
  <2>1. TypeOK
    BY NoRecordType, MaxAttemptsAssumption DEF Init, TypeOK, Passwords
  <2>2. \A c \in Calls : call[c].pc = "none" /\ call[c].entry = NoCall
    BY DEF Init, NoRecord
  <2>3. MetInv
    BY <2>2 DEF Init, MetInv, Active, UnderWay
  <2>4. CodeInv
    BY <2>2, MaxAttemptsAssumption DEF Init, CodeInv, OneGoodCode, KnowsBut, At, Unused
  <2>5. \A e \in Calls : Lone(e) = {}
    BY <2>2 DEF Lone, Guesses
  <2>6. LoneInv
    BY <2>2, <2>5, FS_EmptySet, MaxAttemptsAssumption DEF LoneInv, Init
  <2> QED
    BY <2>1, <2>3, <2>4, <2>6 DEF Inv
<1>2. Inv /\ LoneInv /\ [Next]_vars => (Inv /\ LoneInv)'
  BY NextKeeps
<1> QED
  BY <1>1, <1>2, PTL DEF Spec

\* Every variable has its type; attempts never exceed the limit by more than one.
THEOREM AdminTypeCorrect == Spec => []TypeOK
<1>1. Inv => TypeOK
  BY DEF Inv
<1> QED
  BY <1>1, InvHolds, PTL

\* Codes good at the same time were issued by overlapping calls of forgot.
THEOREM OneCodeIsGood == Spec => []OneGoodCode
<1>1. Inv => OneGoodCode
  BY DEF Inv, CodeInv
<1> QED
  BY <1>1, InvHolds, PTL

\* A code gives away no more guesses than it has attempts, to resets that do not overlap
\* (reset).
THEOREM GuessesAreLimited == Spec => []GuessesLimited
<1>1. LoneInv => GuessesLimited
  BY DEF LoneInv, GuessesLimited, Lone
<1> QED
  BY <1>1, InvHolds, PTL

\* A used code stays used: no step takes used_at back (forgot, reset).
THEOREM UsedStaysUsed == Spec => UsedForGood
<1>1. Inv /\ [Next]_vars => [\A e \in Calls : users[e] # {} => users'[e] # {}]_vars
  <2> SUFFICES ASSUME Inv, Next, NEW e \in Calls, users[e] # {}
               PROVE  users'[e] # {}
    OBVIOUS
  <2>1. CASE users' = users
    BY <2>1
  <2>2. ASSUME NEW c \in Calls, Issue(c) PROVE users'[e] # {}
    BY <2>2 DEF Issue, Inv, TypeOK
  <2>3. ASSUME NEW c \in Calls, LockCode(c) PROVE users'[e] # {}
    BY <2>3 DEF LockCode, Inv, TypeOK
  <2>4. ASSUME NEW c \in Calls, StoreReset(c) PROVE users'[e] # {}
    BY <2>4 DEF StoreReset, Inv, TypeOK, table
  <2>5. \/ users' = users
        \/ \E c \in Calls : Issue(c) \/ LockCode(c) \/ StoreReset(c)
    BY DEF Next, Forgot, Reset, ChangePassword, Begin, SelectOlds, SelectEntry, WrongCode,
           RightCode, VerifyCurrent, StoreChange, Fails, TimePasses, Boot, table
  <2> QED
    BY <2>1, <2>2, <2>3, <2>4, <2>5
<1> QED
  BY <1>1, InvHolds, PTL DEF Spec, UsedForGood

\* The password changes only in the hands of a reset whose code was good when it began,
\* of a change that knew the password, or of the seed of an empty table
\* (set_admin_password, seed_admin_credential).
THEOREM PasswordIsHeld == Spec => PasswordHeld
<1> DEFINE Held ==
      \/ password = NoRow /\ password' = Seed
      \/ \E c \in Calls :
           /\ password' = c
           /\ \/ /\ At(c, "store")
                 /\ call[c].entry \in issued \ call[c].late
                 /\ users[call[c].entry] \subseteq met[c]
              \/ At(c, "held") /\ password \in met[c] \cup {call[c].from}
<1>1. Inv /\ [Next]_vars => [password' # password => Held]_vars
  <2> SUFFICES ASSUME Inv, Next, password' # password
               PROVE  Held
    OBVIOUS
  <2>1. \/ Boot
        \/ \E c \in Calls : StoreReset(c) \/ StoreChange(c)
    BY DEF Next, Forgot, Reset, ChangePassword, Begin, SelectOlds, Issue, SelectEntry,
           LockCode, WrongCode, RightCode, VerifyCurrent, Fails, TimePasses
  <2>2. CASE Boot
    BY <2>2 DEF Boot
  <2>3. ASSUME NEW c \in Calls, StoreReset(c) PROVE Held
    <3>1. At(c, "store") /\ password' = c
      BY <2>3 DEF StoreReset
    <3> QED
      BY <3>1 DEF Inv, CodeInv, KnowsBut, At
  <2>4. ASSUME NEW c \in Calls, StoreChange(c) PROVE Held
    BY <2>4 DEF StoreChange, Inv, CodeInv, KnowsBut
  <2> QED
    BY <2>1, <2>2, <2>3, <2>4
<1> QED
  BY <1>1, InvHolds, PTL DEF Spec, PasswordHeld

=============================================================================
