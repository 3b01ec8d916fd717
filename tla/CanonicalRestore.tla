--------------------------- MODULE CanonicalRestore ---------------------------
(***************************************************************************)
(* The database file and restoreFromBackup, as the steps between which the *)
(* restoring process may die.  A journal (<database>.restore.lock) stands  *)
(* from the first to the last of them: while it exists no store opens and  *)
(* no open store writes.  The generation beside the database tells an open *)
(* store that what it had opened is gone.                                  *)
(*                                                                         *)
(* The content is a schema and a set of rows; Controls are the rows that a *)
(* restore may not undo (user feedback, lifecycle decisions, discovery     *)
(* overrides, suppressions, tombstones, the cutoff of a reset).  The       *)
(* deletion key is left out: it is the same in every backup of the one     *)
(* installation modelled here, and travels with the content.               *)
(***************************************************************************)
EXTENDS Naturals, FiniteSets

CONSTANTS
    None,
    Rows,     \* rows that may be written
    Controls  \* those no restore may take away

ASSUME ControlsAreRows == Controls \subseteq Rows

VARIABLES
    db,        \* [schema, rows], or None when the file does not exist
    lock,      \* the journal: [phase, previous, replacement], or None
    generation \* bumped whenever a restore or its rollback replaces the content

storage == <<db, lock, generation>>

Contents == [schema : {"old", "new"}, rows : SUBSET Rows]
Journals ==
    [phase : {"preparing", "installing"},
     previous : Contents \cup {None}, replacement : Contents \cup {None}]

ASSUME NoneIsNoJournal == None \notin Contents \cup Journals

NoJournal == lock = None

\* #assertNoRestoreBarrier, inside the transaction of a write: h is the
\* generation the handle was opened at.
MayWrite(h) == NoJournal /\ db # None /\ h = generation

\* The constructor refuses while a journal stands, whoever left it.
MayOpen == NoJournal

\* Migrations run in one exclusive transaction; a missing file is created.
Opened == [schema |-> "new", rows |-> IF db = None THEN {} ELSE db.rows]
-------------------------------------------------------------------------------
\* Journal phase "preparing".  A journal in the way is recovered first, which
\* is Recover below.
TakeLock ==
    /\ NoJournal
    /\ lock' = [phase |-> "preparing", previous |-> None, replacement |-> None]
    /\ UNCHANGED <<db, generation>>

\* Mutant: only what the user decided is compared, not the fingerprint.
RestorableUnfingerprinted(backup, expected) ==
    db.rows \cap Controls \subseteq backup.rows

\* What the installed database holds now, read under an exclusive transaction,
\* against the fingerprint the caller expects and against the backup.
Restorable(backup, expected) ==
    /\ db = expected
    /\ db.rows \cap Controls \subseteq backup.rows

KeepPrevious ==
    /\ lock' = [lock EXCEPT !.previous = db]
    /\ UNCHANGED <<db, generation>>

\* Journal phase "installing", then a new generation.
Announce(backup) ==
    /\ lock' = [lock EXCEPT !.phase = "installing", !.replacement = backup]
    /\ generation' = generation + 1
    /\ UNCHANGED db

\* SQLite's online backup into the target is one transaction of the target.
CopyIn ==
    /\ db' = lock.replacement
    /\ UNCHANGED <<lock, generation>>

\* The temporary and previous copies, then the journal.
DropLock ==
    /\ lock' = None
    /\ UNCHANGED <<db, generation>>

\* #rollBackRestore: a target that is neither the previous content nor the
\* replacement is left alone, and the journal with it.
RollBack ==
    /\ db \in {lock.previous, lock.replacement}
    /\ db' = lock.previous
    /\ generation' = generation + 1
    /\ lock' = None

\* recoverInterruptedRestore, once the process in the journal is dead.
Recover ==
    /\ lock # None
    /\ IF lock.phase = "installing" THEN RollBack ELSE DropLock
===============================================================================
