---------------------------- MODULE AdminPassword ----------------------------
(***************************************************************************)
(* The administrator's password: the codes that forgot mails, the reset of *)
(* the password with such a code, the change of the password by someone    *)
(* who knows it (api/auth), and the row of admin_credentials it is stored  *)
(* in (services/credentials). A request reads the database, awaits, and    *)
(* commits what it made of what it read; others run meanwhile, each in a   *)
(* session of its own. Requests with a new password that is too short, or  *)
(* that a throttle stops (see Throttle), change nothing and are left out.  *)
(***************************************************************************)
EXTENDS Integers, FiniteSets

CONSTANTS
    Calls,         \* calls of forgot, reset and change_password
    MaxAttempts,   \* guesses a code is good for
    NoCall, Seed,  \* Seed: the password of the environment
    NoRow          \* admin_credentials is empty: nobody can log in

ASSUME CallsAssumption == IsFiniteSet(Calls)
ASSUME NullsAssumption ==
    NoCall \notin Calls /\ Seed \notin Calls /\ NoRow \notin Calls \cup {Seed}
ASSUME MaxAttemptsAssumption == MaxAttempts \in Nat

VARIABLES
    password,  \* the stored password: the call that set it, or Seed
    issued,    \* the codes in password_resets: the calls of forgot they are of
    users,     \* the calls that set a code's used_at; {}: it is null
    attempts,  \* a code's attempts
    overdue,   \* the codes whose expires_at has passed
    call,      \* where the calls are, or how they ended
    met        \* ghost: the calls a call ran at the same time as

vars == <<password, issued, users, attempts, overdue, call, met>>
table == <<issued, users, attempts>>

Passwords == Calls \cup {Seed, NoRow}

\* A call that is under way is at the await that pc names.
UnderWay == {"forgot", "mail", "reset", "guess", "store", "change", "held"}
PCs == UnderWay \cup {"none", "issued", "wrong", "stored", "refused", "error"}

\* late: the codes overdue when the call read the clock; olds: the codes forgot
\* loaded; entry, count: the code reset loaded and its attempts, incremented;
\* from: what the call knows of the password in the row, NoRow if none.
CallRecords == [pc: PCs, late: SUBSET Calls, olds: SUBSET Calls,
                entry: Calls \cup {NoCall}, count: 0 .. MaxAttempts + 1,
                from: Passwords]

NoRecord == [pc |-> "none", late |-> {}, olds |-> {}, entry |-> NoCall,
             count |-> 0, from |-> NoRow]

Active == {c \in Calls : call[c].pc \in UnderWay}
Unused == {e \in issued : users[e] = {}}

At(c, pc) == call[c].pc = pc

\* The call goes on, or returns and forgets all but the code it was about.
Goto(c, record) == call' = [call EXCEPT ![c] = record] /\ UNCHANGED met
Return(c, result) == Goto(c, [NoRecord EXCEPT !.pc = result, !.entry = call[c].entry])

Init ==
    /\ password \in {Seed, NoRow}
    /\ issued = {} /\ overdue = {}
    /\ users = [e \in Calls |-> {}] /\ attempts = [e \in Calls |-> 0]
    /\ call = [c \in Calls |-> NoRecord] /\ met = [c \in Calls |-> {}]

Begin(c, pc) ==
    /\ At(c, "none")
    /\ call' = [call EXCEPT ![c] = [NoRecord EXCEPT !.pc = pc, !.late = overdue]]
    /\ met' = [d \in Calls |-> IF d = c THEN Active
                               ELSE IF d \in Active THEN met[d] \cup {c} ELSE met[d]]
    /\ UNCHANGED <<password, overdue, table>>

TimePasses(e) ==
    /\ e \in issued
    /\ overdue' = overdue \cup {e}
    /\ UNCHANGED <<password, table, call, met>>

-----------------------------------------------------------------------------
(* forgot.                                                                 *)

SelectOlds(c) ==
    /\ At(c, "forgot")
    /\ Goto(c, [call[c] EXCEPT !.pc = "mail", !.olds = Unused])
    /\ UNCHANGED <<password, overdue, table>>

\* Mutant: the codes issued before stay good.
IssueMore(c) ==
    /\ At(c, "mail")
    /\ issued' = issued \cup {c}
    /\ UNCHANGED <<users, attempts, password, overdue>>
    /\ Return(c, "issued")

\* The commit; the mail is sent afterwards and may fail, the code stays.
Issue(c) ==
    /\ At(c, "mail")
    /\ issued' = issued \cup {c}
    /\ users' = [e \in Calls |-> IF e \in call[c].olds THEN users[e] \cup {c} ELSE users[e]]
    /\ Return(c, "issued")
    /\ UNCHANGED <<attempts, password, overdue>>

-----------------------------------------------------------------------------
(* reset and change_password.                                              *)

\* Mutant: the code may have been used.
SelectAnyEntry(c) ==
    /\ At(c, "reset")
    /\ LET codes == issued \ call[c].late
       IN  \/ codes = {} /\ Return(c, "refused")
           \/ \E e \in codes :
                 Goto(c, [call[c] EXCEPT !.pc = "guess", !.entry = e,
                                         !.count = attempts[e] + 1])
    /\ UNCHANGED <<password, overdue, table>>

\* The newest code that is unused and was not overdue when the call looked at the
\* clock. Codes of calls of forgot that overlapped may be dated in any order.
SelectEntry(c) ==
    /\ At(c, "reset")
    /\ LET codes == Unused \ call[c].late
       IN  \/ codes = {} /\ Return(c, "refused")
           \/ \E e \in codes :
                 Goto(c, [call[c] EXCEPT !.pc = "guess", !.entry = e,
                                         !.count = attempts[e] + 1])
    /\ UNCHANGED <<password, overdue, table>>

\* Mutant: it is not marked as used.
LockCodeUnused(c) ==
    /\ At(c, "guess") /\ call[c].count > MaxAttempts
    /\ attempts' = [attempts EXCEPT ![call[c].entry] = call[c].count]
    /\ Return(c, "refused")
    /\ UNCHANGED <<issued, users, password, overdue>>

\* The code has been tried too often: it is used up.
LockCode(c) ==
    /\ At(c, "guess") /\ call[c].count > MaxAttempts
    /\ attempts' = [attempts EXCEPT ![call[c].entry] = call[c].count]
    /\ users' = [users EXCEPT ![call[c].entry] = @ \cup {c}]
    /\ Return(c, "refused")
    /\ UNCHANGED <<issued, password, overdue>>

\* Mutant: a wrong guess is not committed.
WrongCodeUncounted(c) ==
    /\ At(c, "guess") /\ call[c].count <= MaxAttempts
    /\ Return(c, "wrong")
    /\ UNCHANGED <<attempts, issued, users, password, overdue>>

\* Only the column attempts is written, with the value computed from the one read.
WrongCode(c) ==
    /\ At(c, "guess") /\ call[c].count <= MaxAttempts
    /\ attempts' = [attempts EXCEPT ![call[c].entry] = call[c].count]
    /\ Return(c, "wrong")
    /\ UNCHANGED <<issued, users, password, overdue>>

\* set_admin_password of a reset with the right code looks for the row.
RightCode(c) ==
    /\ At(c, "guess") /\ call[c].count <= MaxAttempts
    /\ Goto(c, [call[c] EXCEPT !.pc = "store", !.from = password])
    /\ UNCHANGED <<password, overdue, table>>

\* Mutant: when the insertion fails the code is given back.
StoreResetGivesBack(c) ==
    /\ At(c, "store")
    /\ IF call[c].from = NoRow /\ password # NoRow
       THEN /\ Return(c, "error")
            /\ users' = [users EXCEPT ![call[c].entry] = {}]
            /\ UNCHANGED <<password, issued, attempts>>
       ELSE /\ password' = c
            /\ users' = [users EXCEPT ![call[c].entry] = @ \cup {c}]
            /\ attempts' = [attempts EXCEPT ![call[c].entry] = call[c].count]
            /\ Return(c, "stored")
            /\ UNCHANGED issued
    /\ UNCHANGED overdue

\* One commit for the code and the password. It fails if the row was missing and
\* has been inserted by another call since.
StoreReset(c) ==
    /\ At(c, "store")
    /\ IF call[c].from = NoRow /\ password # NoRow
       THEN Return(c, "error") /\ UNCHANGED <<password, table>>
       ELSE /\ password' = c
            /\ users' = [users EXCEPT ![call[c].entry] = @ \cup {c}]
            /\ attempts' = [attempts EXCEPT ![call[c].entry] = call[c].count]
            /\ Return(c, "stored")
            /\ UNCHANGED issued
    /\ UNCHANGED overdue

\* verify_admin, for change_password.
VerifyCurrent(c) ==
    /\ At(c, "change")
    /\ \/ Return(c, "refused")
       \/ password # NoRow /\ Goto(c, [call[c] EXCEPT !.pc = "held", !.from = password])
    /\ UNCHANGED <<password, overdue, table>>

\* The password that was verified may have been replaced since.
StoreChange(c) ==
    /\ At(c, "held")
    /\ password' = c
    /\ Return(c, "stored")
    /\ UNCHANGED <<overdue, table>>

\* The database does not answer.
Fails(c) ==
    /\ c \in Active
    /\ Return(c, "error")
    /\ UNCHANGED <<password, overdue, table>>

\* Mutant: the environment's password is stored at every start.
BootOverwrites ==
    /\ password' \in {password, Seed}
    /\ call' = [c \in Calls |-> IF c \in Active
                                THEN [NoRecord EXCEPT !.pc = "error", !.entry = call[c].entry]
                                ELSE call[c]]
    /\ UNCHANGED <<overdue, table, met>>

\* The process dies with its calls; seed_admin_credential of the next one fills the
\* empty table, if the environment has a password by now.
Boot ==
    /\ IF password = NoRow THEN password' \in {NoRow, Seed} ELSE UNCHANGED password
    /\ call' = [c \in Calls |-> IF c \in Active
                                THEN [NoRecord EXCEPT !.pc = "error", !.entry = call[c].entry]
                                ELSE call[c]]
    /\ UNCHANGED <<overdue, table, met>>

-----------------------------------------------------------------------------
Forgot(c) == Begin(c, "forgot") \/ SelectOlds(c) \/ Issue(c)

Reset(c) ==
    \/ Begin(c, "reset") \/ SelectEntry(c)
    \/ LockCode(c) \/ WrongCode(c) \/ RightCode(c) \/ StoreReset(c)

ChangePassword(c) == Begin(c, "change") \/ VerifyCurrent(c) \/ StoreChange(c)

Next ==
    \/ \E c \in Calls : Forgot(c) \/ Reset(c) \/ ChangePassword(c)
    \/ \E c \in Calls : Fails(c) \/ TimePasses(c)
    \/ Boot

Spec == Init /\ [][Next]_vars

-----------------------------------------------------------------------------
(* Properties.                                                             *)

\* A code is not tried on once it has been tried too often.
TypeOK ==
    /\ password \in Passwords
    /\ issued \subseteq Calls /\ overdue \subseteq Calls
    /\ users \in [Calls -> SUBSET Calls]
    /\ attempts \in [Calls -> 0 .. MaxAttempts + 1]
    /\ call \in [Calls -> CallRecords] /\ met \in [Calls -> SUBSET Calls]

\* A code that has been used, or replaced, or locked is never good again, although
\* calls that loaded its row before still write to it (forgot, reset).
UsedForGood == [][\A e \in Calls : users[e] # {} => users'[e] # {}]_vars

\* Two codes are good at the same time only if the calls of forgot that issued them
\* overlapped (forgot).
OneGoodCode == \A a, b \in Unused : a # b => b \in met[a]

\* Of the resets that did not overlap another one of the same code, no more were
\* told whether their guess was right than a code has attempts, although the
\* attempts are read and written back in separate steps (reset).
Alone(c) == \A d \in met[c] : call[d].entry # call[c].entry
Guesses(e) == {c \in Calls : call[c].entry = e /\ call[c].pc \in {"wrong", "stored"}}
GuessesLimited ==
    \A e \in Calls : Cardinality({c \in Guesses(e) : Alone(c)}) <= MaxAttempts

\* A password is replaced only by a reset whose code was not overdue when the reset
\* began and is unused but by calls the reset overlapped; or by a change whose caller
\* knew the password that is being replaced, or one replaced by calls the change
\* overlapped. A start replaces none (set_admin_password, seed_admin_credential).
PasswordHeld ==
    [][password' # password =>
         \/ password = NoRow /\ password' = Seed
         \/ \E c \in Calls :
              /\ password' = c
              /\ \/ /\ At(c, "store")
                    /\ call[c].entry \in issued \ call[c].late
                    /\ users[call[c].entry] \subseteq met[c]
                 \/ At(c, "held") /\ password \in met[c] \cup {call[c].from}]_vars

=============================================================================
