---------------------------- MODULE BackupProofs ----------------------------
(***************************************************************************)
(* Proofs about Backup, for any number of files to keep and any length of  *)
(* time. The rotation cannot remove the newest good snapshot because the   *)
(* copy it follows was completed and no file is newer than that one.       *)
(***************************************************************************)
EXTENDS Backup, FiniteSetTheorems, TLAPS

\* No file is newer than the last one begun; a rotation follows a good copy,
\* which it spares.
RotatesAfterGood ==
    /\ \A f \in files : f <= dest
    /\ pc \in {"copying", "rotating"} => dest \in files
    /\ pc = "rotating" => dest \in good /\ dest \notin doomed

BackupInv == TypeOK /\ RotatesAfterGood

\* The newest file is one of the newest k.
LEMMA NewestHasLast ==
    ASSUME NEW S \in SUBSET Nat, NEW m \in S, \A f \in S : f <= m, NEW k \in Nat \ {0}
    PROVE  m \in Newest(k, S)
<1>1. {g \in S : g >= m} = {m}
    <2>1. m \in Nat
        OBVIOUS
    <2>2. ASSUME NEW g \in S, g >= m PROVE g = m
        <3>1. g \in Nat /\ g <= m
            OBVIOUS
        <3> QED
            BY <2>1, <2>2, <3>1
    <2> QED
        BY <2>1, <2>2
<1>2. Cardinality({m}) = 1
    BY FS_Singleton
<1> QED
    BY <1>1, <1>2 DEF Newest

LEMMA BackupInit == Init => BackupInv
BY FS_EmptySet DEF Init, BackupInv, TypeOK, RotatesAfterGood

LEMMA BackupStep == BackupInv /\ [Next]_vars => BackupInv'
<1> SUFFICES ASSUME BackupInv, [Next]_vars PROVE BackupInv'
    OBVIOUS
<1> USE DEF BackupInv, TypeOK, RotatesAfterGood
<1>1. CASE Wake
    <2>1. IsFiniteSet(files')
        BY <1>1, FS_AddElement DEF Wake
    <2> QED
        BY <1>1, <2>1 DEF Wake
<1>2. CASE Copied
    <2>1. dest \in Newest(Keep, files)
        BY <1>2, NewestHasLast, KeepAssumption DEF Copied
    <2> QED
        BY <1>2, <2>1 DEF Copied
<1>3. CASE CopyFails
    BY <1>3 DEF CopyFails
<1>4. ASSUME NEW f \in files, Remove(f) PROVE BackupInv'
    <2>1. IsFiniteSet(files')
        BY <1>4, FS_RemoveElement DEF Remove
    <2> QED
        BY <1>4, <2>1 DEF Remove
<1>5. CASE Rotated
    BY <1>5 DEF Rotated
<1>6. CASE Crash
    BY <1>6 DEF Crash
<1>7. CASE Tick
    BY <1>7 DEF Tick
<1>8. CASE UNCHANGED vars
    BY <1>8 DEF vars
<1> QED
    BY <1>1, <1>2, <1>3, <1>4, <1>5, <1>6, <1>7, <1>8 DEF Next

\* Type correctness (property TypeOK), for any Keep and MaxTime.
THEOREM BackupTypeCorrect == Spec => []TypeOK
<1>1. BackupInv => TypeOK
    BY DEF BackupInv
<1> QED
    BY <1>1, BackupInit, BackupStep, PTL DEF Spec

\* The newest complete snapshot is never lost (property NewestStays), for any Keep: a
\* rotation begins with the completion of a copy newer than every other file, so the
\* newest complete one is that copy, which the rotation spares.
THEOREM NewestSnapshotStays == Spec => NewestStays
<1>1. BackupInv /\ [Next]_vars => [\A f \in good : IsNewest(f) => f \in good']_vars
    <2> SUFFICES ASSUME BackupInv, Next, NEW f \in good, IsNewest(f) PROVE f \in good'
        OBVIOUS
    <2>1. ASSUME NEW g \in files, Remove(g) PROVE f \in good'
        <3>1. f = dest
            <4>1. dest \in good /\ f \in files /\ f \in Nat /\ dest \in Nat
                BY <2>1 DEF Remove, BackupInv, TypeOK, RotatesAfterGood
            <4>2. f <= dest /\ dest <= f
                BY <4>1 DEF BackupInv, RotatesAfterGood, IsNewest
            <4> QED
                BY <4>1, <4>2
        <3>2. g # dest
            BY <2>1 DEF Remove, BackupInv, RotatesAfterGood
        <3> QED
            BY <2>1, <3>1, <3>2 DEF Remove
    <2> QED
        BY <2>1 DEF Next, Wake, Copied, CopyFails, Rotated, Crash, Tick
<1> QED
    BY <1>1, BackupInit, BackupStep, PTL DEF Spec, NewestStays

=============================================================================
