------------------------------- MODULE Backup -------------------------------
(***************************************************************************)
(* The periodic snapshots of the panel's database: a copy at each start    *)
(* and every few hours, then a rotation that keeps the newest Keep files.  *)
(* Copies fail, files cannot be removed, and the process may die at any    *)
(* point. Files are identified with the time stamps in their names; the    *)
(* clock is not set back. A copy that is not finished leaves the contents  *)
(* of its file as they were, since SQLite writes it in one transaction.    *)
(***************************************************************************)
EXTENDS Naturals, FiniteSets

CONSTANTS Keep,     \* BACKUP_KEEP, at least 1 (make_backup)
          MaxTime   \* bound of the clock

ASSUME KeepAssumption == Keep \in Nat \ {0}
ASSUME MaxTimeAssumption == MaxTime \in Nat

VARIABLES
    now,      \* seconds, as in a stamp
    files,    \* the stamps of the files in BACKUP_DIR
    good,     \* those with a complete copy in them
    pc,       \* where backup_loop is
    dest,     \* the file of the last copy begun
    doomed    \* files the rotation is still to remove

vars == <<now, files, good, pc, dest, doomed>>

Init ==
    /\ now = 0 /\ dest = 0
    /\ files = {} /\ good = {} /\ doomed = {}
    /\ pc = "boot"

\* The k newest of a set of stamps.
Newest(k, stamps) == {f \in stamps : Cardinality({g \in stamps : g >= f}) <= k}

\* Mutant: the copy gets a name the rotation does not look for.
WakeUnnamed ==
    /\ pc = "boot" \/ (pc = "asleep" /\ now > dest)
    /\ dest' = now
    /\ pc' = "copying"
    /\ UNCHANGED <<now, files, good, doomed>>

\* A start makes a snapshot at once, the loop sleeps for at least an hour. Opening
\* the file creates it; a restart within the second finds it there.
Wake ==
    /\ pc = "boot" \/ (pc = "asleep" /\ now > dest)
    /\ dest' = now
    /\ files' = files \cup {now}
    /\ pc' = "copying"
    /\ UNCHANGED <<now, good, doomed>>

\* src.backup(dst) is done, and the files to rotate out are looked up.
Copied ==
    /\ pc = "copying"
    /\ good' = good \cup {dest}
    /\ doomed' = files \ Newest(Keep, files)
    /\ pc' = "rotating"
    /\ UNCHANGED <<now, files, dest>>

\* Mutant: the rotation is run even if the copy failed.
CopyFailsAndRotates ==
    /\ pc = "copying"
    /\ doomed' = files \ Newest(Keep, files)
    /\ pc' = "rotating"
    /\ UNCHANGED <<now, files, good, dest>>

\* An exception skips the rotation; the file stays.
CopyFails ==
    /\ pc = "copying"
    /\ pc' = "asleep"
    /\ UNCHANGED <<now, files, good, dest, doomed>>

\* The oldest first; an OSError is passed over.
Remove(f) ==
    /\ pc = "rotating" /\ f \in doomed /\ \A g \in doomed : f <= g
    /\ doomed' = doomed \ {f}
    /\ \/ files' = files \ {f} /\ good' = good \ {f}
       \/ UNCHANGED <<files, good>>
    /\ UNCHANGED <<now, pc, dest>>

Rotated ==
    /\ pc = "rotating" /\ doomed = {}
    /\ pc' = "asleep"
    /\ UNCHANGED <<now, files, good, dest, doomed>>

Crash ==
    /\ pc' = "boot" /\ doomed' = {}
    /\ UNCHANGED <<now, files, good, dest>>

Tick ==
    /\ now < MaxTime /\ now' = now + 1
    /\ UNCHANGED <<files, good, pc, dest, doomed>>

Next ==
    \/ Wake \/ Copied \/ CopyFails \/ Rotated \/ Crash \/ Tick
    \/ \E f \in files : Remove(f)

Spec == Init /\ [][Next]_vars

-----------------------------------------------------------------------------
(* Properties.                                                             *)

TypeOK ==
    /\ now \in Nat /\ dest \in 0..now
    /\ files \subseteq 0..now /\ IsFiniteSet(files)
    /\ good \subseteq files /\ doomed \subseteq files
    /\ pc \in {"boot", "asleep", "copying", "rotating"}

\* The newest complete snapshot is never lost, however many copies fail, are cut off
\* by a crash, or are rotated out: what could be restored a moment ago still can be,
\* and nothing older takes its place (_run_backup).
IsNewest(f) == \A g \in good : g <= f
NewestStays == [][\A f \in good : IsNewest(f) => f \in good']_vars

=============================================================================
