------------------------------- MODULE LockFile -------------------------------
(***************************************************************************)
(* The lock file of shared/src/file-lock.ts, one action per system call.   *)
(*                                                                         *)
(* A File is an inode with its mtime, which is what stealStaleLock         *)
(* compares; its content, the nonce, says whose it is (mine).  rename and  *)
(* link keep both.                                                         *)
(*                                                                         *)
(* Time: a live holder's lock does not go stale (STALE_LOCK_MS is above    *)
(* the longest refresh, file-lock.ts:4-9); every other one may.            *)
(***************************************************************************)
EXTENDS FiniteSets

CONSTANTS
  Process,
  File,      \* bound: lock files that exist or are remembered at once
  NoFile

ASSUME LockAssumption == NoFile \notin File /\ File # {}

VARIABLES
  lock,      \* the file at lockPath
  moved,     \* the file at lockPath.stale-f, f being the file seen
  stale,     \* files older than STALE_LOCK_MS
  pc,        \* where a process is in withLockFile
  seen,      \* the file whose age stealStaleLock has checked
  mine       \* the file that holds the process's nonce

lockVars == <<lock, moved, stale, pc, seen, mine>>

\* out: not in withLockFile; try: about to open; move, inspect, restore, drop,
\* clean: in stealStaleLock; held: fn runs; leave, unlink: in the finally block.
Steps == {"out", "try", "move", "inspect", "restore", "drop", "clean", "held", "leave", "unlink"}

InUse == {lock} \cup {moved[f] : f \in File} \cup {seen[p] : p \in Process}
           \cup {mine[p] : p \in Process} \cup {f \in File : moved[f] # NoFile}

\* A crash may have left a lock behind.
LockInit ==
  /\ lock \in {NoFile, CHOOSE f \in File : TRUE}
  /\ moved = [f \in File |-> NoFile]
  /\ stale = {}
  /\ pc = [p \in Process |-> "out"]
  /\ seen = [p \in Process |-> NoFile]
  /\ mine = [p \in Process |-> NoFile]

-----------------------------------------------------------------------------
(* Acquire *)

At(p, step) == pc[p] = step
Goes(p, step) == pc' = [pc EXCEPT ![p] = step]

\* openSync(lockPath, "wx").  Which inode the new file gets makes no difference.
Acquire(p) ==
  /\ At(p, "try") /\ lock = NoFile /\ File \ InUse # {}
  /\ LET f == CHOOSE g \in File \ InUse : TRUE
     IN  /\ lock' = f
         /\ mine' = [mine EXCEPT ![p] = f]
         /\ stale' = stale \ {f}
  /\ Goes(p, "held")
  /\ UNCHANGED <<moved, seen>>

\* Mutant: the age is taken from the wrong end.
NeverStale(f) == FALSE

IsStale(f) == f \in stale

\* The deadline is over, and the lock in place is not stale.
GiveUp(p) ==
  /\ At(p, "try") /\ lock # NoFile /\ ~IsStale(lock)
  /\ Goes(p, "out")
  /\ UNCHANGED <<lock, moved, stale, seen, mine>>

-----------------------------------------------------------------------------
(* stealStaleLock *)

Stat(p) ==
  /\ At(p, "try") /\ IsStale(lock)
  /\ seen' = [seen EXCEPT ![p] = lock]
  /\ Goes(p, "move")
  /\ UNCHANGED <<lock, moved, stale, mine>>

\* stealStaleLock returns false: the next attempt, or the deadline is over.
NotStolen(p) ==
  /\ Goes(p, "try") \/ Goes(p, "out")
  /\ seen' = [seen EXCEPT ![p] = NoFile]

Move(p) ==
  /\ At(p, "move")
  /\ \/ lock = NoFile /\ NotStolen(p) /\ UNCHANGED <<lock, moved>>
     \/ /\ lock # NoFile
        /\ moved' = [moved EXCEPT ![seen[p]] = lock]
        /\ lock' = NoFile
        /\ Goes(p, "inspect")
        /\ UNCHANGED seen
  /\ UNCHANGED <<stale, mine>>

\* Mutant: whatever was moved is taken for the stale lock.
AnyFile(p) == moved[seen[p]]

\* The file that the second stat must find.
Expected(p) == seen[p]

Inspect(p) ==
  /\ At(p, "inspect")
  /\ \/ moved[seen[p]] = Expected(p) /\ Goes(p, "clean")
     \/ moved[seen[p]] \notin {Expected(p), NoFile} /\ Goes(p, "restore")
  /\ UNCHANGED <<lock, moved, stale, seen, mine>>

\* Another process removed the moved file: the second stat throws, and so
\* does withLockFile.
InspectFails(p) ==
  /\ At(p, "inspect") /\ moved[seen[p]] = NoFile
  /\ seen' = [seen EXCEPT ![p] = NoFile]
  /\ Goes(p, "out")
  /\ UNCHANGED <<lock, moved, stale, mine>>

\* link never overwrites.
Restore(p) ==
  /\ At(p, "restore")
  /\ lock' = IF lock = NoFile THEN moved[seen[p]] ELSE lock
  /\ Goes(p, "drop")
  /\ UNCHANGED <<moved, stale, seen, mine>>

\* The moved file is unlinked; once the stale lock is gone, open is tried at once.
Drop(p) ==
  /\ At(p, "drop") \/ At(p, "clean")
  /\ moved' = [moved EXCEPT ![seen[p]] = NoFile]
  /\ \/ At(p, "drop") /\ NotStolen(p)
     \/ At(p, "clean") /\ Goes(p, "try") /\ seen' = [seen EXCEPT ![p] = NoFile]
  /\ UNCHANGED <<lock, stale, mine>>

-----------------------------------------------------------------------------
(* Release *)

\* readFileSync(lockPath) === nonce.
OwnNonce(p) == lock = mine[p]

Leave(p) ==
  /\ At(p, "leave")
  /\ IF OwnNonce(p) THEN Goes(p, "unlink") /\ UNCHANGED mine
     ELSE Goes(p, "out") /\ mine' = [mine EXCEPT ![p] = NoFile]
  /\ UNCHANGED <<lock, moved, stale, seen>>

Unlink(p) ==
  /\ At(p, "unlink")
  /\ lock' = NoFile
  /\ mine' = [mine EXCEPT ![p] = NoFile]
  /\ Goes(p, "out")
  /\ UNCHANGED <<moved, stale, seen>>

-----------------------------------------------------------------------------
LockStep(p) ==
  \/ Acquire(p) \/ Stat(p) \/ Move(p) \/ Inspect(p) \/ InspectFails(p) \/ Restore(p) \/ Drop(p)
  \/ Leave(p) \/ Unlink(p)

\* The process dies; what it moved aside stays there.
LockCrash(p) ==
  /\ Goes(p, "out")
  /\ seen' = [seen EXCEPT ![p] = NoFile]
  /\ mine' = [mine EXCEPT ![p] = NoFile]
  /\ UNCHANGED <<lock, moved, stale>>

\* Minutes pass for a lock without a live holder.
Age(f) ==
  /\ f \in InUse \ stale /\ \A p \in Process : mine[p] # f
  /\ stale' = stale \cup {f}
  /\ UNCHANGED <<lock, moved, pc, seen, mine>>

-----------------------------------------------------------------------------
(* Safety *)

LockTypeOK ==
  /\ lock \in File \cup {NoFile} /\ moved \in [File -> File \cup {NoFile}] /\ stale \subseteq File
  /\ pc \in [Process -> Steps]
  /\ seen \in [Process -> File \cup {NoFile}] /\ mine \in [Process -> File \cup {NoFile}]

Holding(p) == pc[p] \in {"held", "leave", "unlink"}

\* A process died between moving a lock that is not stale and putting it back.
Abandoned == \E f \in File : moved[f] \notin {NoFile, f} /\ \A p \in Process : seen[p] # f

\* Two processes never hold the lock together, although one of them may take
\* the lock of the other for a stale one and move it away (file-lock.ts,
\* stealStaleLock and the finally block of withLockFile).  This is a property
\* of two: a third process may take the lock before the mover puts it back.
OneHolder == Abandoned \/ \A p, q \in Process : Holding(p) /\ Holding(q) => p = q

=============================================================================
