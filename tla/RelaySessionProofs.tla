-------------------------- MODULE RelaySessionProofs --------------------------
(***************************************************************************)
(* What the lock file and the sessions refreshed under it guarantee for    *)
(* any files, chains and servers, however many commands and crashes there  *)
(* are.                                                                    *)
(*                                                                         *)
(* With two processes the lock excludes: when one of them moves the other's *)
(* lock aside, it is itself the only one who could take it, and it puts it *)
(* back first.  The invariant says where a lock can be at each point of    *)
(* stealStaleLock.  A crash in the middle of it may lose a lock for good:  *)
(* then nothing is claimed any more (Lost).                                *)
(***************************************************************************)
EXTENDS RelaySession, TLAPS

-----------------------------------------------------------------------------
(* The lock file: the inductive invariant *)

Stealing == {"move", "inspect", "restore", "drop", "clean"}

\* A process that has moved a file and not dealt with it yet.
HasMoved(p) == pc[p] \in {"inspect", "restore"}
Removes(p) == HasMoved(p) \/ pc[p] = "clean"

\* What p has moved aside.
Aside(p) == moved[seen[p]]

\* Nonces and the files seen: a live holder's lock does not go stale.
Files ==
  \A p \in Process :
    /\ mine[p] # NoFile <=> Holding(p)
    /\ seen[p] # NoFile <=> pc[p] \in Stealing
    /\ mine[p] \notin stale
    /\ seen[p] # NoFile => seen[p] \in stale
    /\ \A q \in Process : p # q /\ mine[p] # NoFile => mine[p] # mine[q]

\* Another file has been moved to the name of f, and nobody will put it back
\* or remove it: f itself is gone, so that nobody will see it again.
Mistaken(f) == moved[f] \notin {NoFile, f}
Gone(f) == lock # f /\ \A g \in File : moved[g] # f
Unseen(f) == \A p \in Process : seen[p] # f
Lost == \E f \in File : Mistaken(f) /\ Gone(f) /\ Unseen(f)

\* A file whose name another one has taken is gone, and there is a process to
\* put the other one back.
Mistakes == \A f \in File : Mistaken(f) => Gone(f) /\ ~Unseen(f)

\* The file seen, or one moved aside to be put back, is not at lockPath.
AtMostOnce ==
  \A p \in Process :
    /\ Removes(p) => lock # seen[p]
    /\ HasMoved(p) /\ Aside(p) # NoFile => lock # Aside(p)

\* Two processes that steal.
NotBoth ==
  \A p, q \in Process : p # q =>
    /\ HasMoved(p) /\ HasMoved(q) /\ Aside(p) # NoFile => Aside(p) # Aside(q)
    /\ Removes(p) /\ HasMoved(q) => Aside(q) # seen[p]

\* The process q is about to move what it has seen, but p has moved it already:
\* then there is nothing to move; or p has put it back.
AboutToMove ==
  \A p, q \in Process : p # q /\ pc[q] = "move" =>
    /\ Removes(p) /\ seen[q] \in {seen[p], Aside(p)} => lock = NoFile
    /\ pc[p] \in {"move", "drop"} /\ seen[q] = Aside(p) /\ Aside(p) # seen[p] => lock = seen[q]

Cleaned == \A p \in Process : pc[p] = "clean" => Aside(p) \in {seen[p], NoFile}

\* The lock of a holder is in place, or it is going to be put back.
Safe(p) ==
  \/ lock = mine[p]
  \/ lock = NoFile /\ \E q \in Process : HasMoved(q) /\ Aside(q) = mine[p]

Excluded == \A p \in Process : Holding(p) => Safe(p)

Good == Mistakes /\ AtMostOnce /\ NotBoth /\ AboutToMove /\ Cleaned /\ Excluded

LockInv == LockTypeOK /\ Files /\ (Lost \/ Good)

-----------------------------------------------------------------------------
(* The lock file: types, nonces, and a lock that is lost *)

\* The steps of a process that are not system calls on the lock: withLockFile
\* is entered, times out, or its callback ends.
PlainStep(p) ==
  /\ \/ At(p, "out") /\ Goes(p, "try")
     \/ At(p, "try") /\ Goes(p, "out")
     \/ At(p, "held") /\ Goes(p, "leave")
  /\ UNCHANGED <<lock, moved, stale, seen, mine>>

Turns(p, x) ==
  /\ <<pc[p], x>> \in {<<"out", "try">>, <<"try", "out">>, <<"held", "leave">>, <<"leave", "unlink">>}
  /\ pc' = [pc EXCEPT ![p] = x] /\ UNCHANGED <<lock, moved, stale, seen, mine>>

LockAction(p) == LockStep(p) \/ LockCrash(p) \/ PlainStep(p)

\* What any step does to the places where files are.
Shuffle ==
  /\ \A g \in File : moved'[g] = moved[g] \/ (~Unseen(g) /\ moved'[g] \in {lock, NoFile})
  /\ lock' \in {lock, NoFile} \/ (\E g \in File : lock' = moved[g]) \/ lock' \in File \ InUse
  /\ \A q \in Process : seen'[q] \in {seen[q], NoFile, lock}

LEMMA LostStays ==
  ASSUME LockTypeOK, Lost, Shuffle
  PROVE  Lost'
<1>1. PICK f \in File : Mistaken(f) /\ Gone(f) /\ Unseen(f)
  BY DEF Lost
<1>2. f # NoFile
  BY LockAssumption
<1>3. moved'[f] = moved[f]
  BY <1>1 DEF Shuffle
<1>4. lock' # f
  BY <1>1, <1>2 DEF Shuffle, Gone, Mistaken, InUse
<1>5. \A g \in File : moved'[g] # f
  BY <1>1, <1>2 DEF Shuffle, Gone
<1>6. Unseen(f)'
  BY <1>1, <1>2 DEF Shuffle, Unseen, Gone
<1> QED BY <1>1, <1>3, <1>4, <1>5, <1>6 DEF Lost, Mistaken, Gone

LEMMA AcquireTypes ==
  ASSUME LockTypeOK, Files, NEW p \in Process, Acquire(p)
  PROVE  LockTypeOK' /\ Files' /\ Shuffle
<1> DEFINE f == CHOOSE g \in File \ InUse : TRUE
<1>1. f \in File \ InUse
  BY DEF Acquire
<1> HIDE DEF f
<1>2. /\ At(p, "try") /\ lock' = f /\ mine' = [mine EXCEPT ![p] = f] /\ stale' = stale \ {f}
      /\ pc' = [pc EXCEPT ![p] = "held"] /\ moved' = moved /\ seen' = seen
  BY DEF Acquire, Goes, f
<1>3. LockTypeOK'
  BY <1>1, <1>2 DEF LockTypeOK, Steps
<1>4. Files'
  BY <1>1, <1>2, LockAssumption DEF LockTypeOK, Files, Holding, At, InUse, Stealing, Steps
<1>5. Shuffle
  BY <1>1, <1>2 DEF Shuffle
<1> QED BY <1>3, <1>4, <1>5

LEMMA StatTypes ==
  ASSUME LockTypeOK, Files, NEW p \in Process, Stat(p)
  PROVE  LockTypeOK' /\ Files' /\ Shuffle
<1>1. /\ At(p, "try") /\ lock \in stale /\ seen' = [seen EXCEPT ![p] = lock]
      /\ pc' = [pc EXCEPT ![p] = "move"] /\ moved' = moved /\ lock' = lock /\ stale' = stale /\ mine' = mine
  BY DEF Stat, Goes, IsStale
<1>2. LockTypeOK'
  BY <1>1 DEF LockTypeOK, Steps
<1>3. Files'
  BY <1>1, LockAssumption DEF LockTypeOK, Files, Holding, At, Stealing
<1>4. Shuffle
  BY <1>1 DEF Shuffle, LockTypeOK
<1> QED BY <1>2, <1>3, <1>4

LEMMA SeenIsFile ==
  ASSUME LockTypeOK, Files, NEW p \in Process, pc[p] \in Stealing
  PROVE  seen[p] \in File /\ seen[p] \in stale /\ ~Unseen(seen[p]) /\ mine[p] = NoFile
  BY DEF LockTypeOK, Files, Unseen, Holding, Stealing

LEMMA MoveTypes ==
  ASSUME LockTypeOK, Files, NEW p \in Process, Move(p)
  PROVE  LockTypeOK' /\ Files' /\ Shuffle
<1>0. At(p, "move") /\ stale' = stale /\ mine' = mine
  BY DEF Move
<1>1. seen[p] \in File /\ ~Unseen(seen[p])
  BY <1>0, SeenIsFile DEF At, Stealing
<1>2. CASE lock = NoFile /\ NotStolen(p) /\ UNCHANGED <<lock, moved>>
  <2>1. /\ \/ pc' = [pc EXCEPT ![p] = "try"]
           \/ pc' = [pc EXCEPT ![p] = "out"]
        /\ seen' = [seen EXCEPT ![p] = NoFile]
    BY <1>2 DEF NotStolen, Goes
  <2>2. LockTypeOK'
    BY <1>0, <1>2, <2>1 DEF LockTypeOK, Steps
  <2>3. Files'
    BY <1>0, <1>2, <2>1 DEF LockTypeOK, Files, Holding, At, Stealing
  <2>4. Shuffle
    BY <1>0, <1>2, <2>1 DEF Shuffle, LockTypeOK
  <2> QED BY <2>2, <2>3, <2>4
<1>3. CASE /\ lock # NoFile /\ moved' = [moved EXCEPT ![seen[p]] = lock] /\ lock' = NoFile
           /\ Goes(p, "inspect") /\ UNCHANGED seen
  <2>1. pc' = [pc EXCEPT ![p] = "inspect"] /\ seen' = seen
    BY <1>3 DEF Goes
  <2>2. LockTypeOK'
    BY <1>0, <1>1, <1>3, <2>1 DEF LockTypeOK, Steps
  <2>3. Files'
    BY <1>0, <1>3, <2>1 DEF LockTypeOK, Files, Holding, At, Stealing
  <2>4. Shuffle
    BY <1>0, <1>1, <1>3, <2>1 DEF Shuffle, LockTypeOK
  <2> QED BY <2>2, <2>3, <2>4
<1> QED BY <1>2, <1>3 DEF Move

LEMMA InspectTypes ==
  ASSUME LockTypeOK, Files, NEW p \in Process, Inspect(p)
  PROVE  LockTypeOK' /\ Files' /\ Shuffle
<1>1. /\ At(p, "inspect") /\ UNCHANGED <<lock, moved, stale, seen, mine>>
      /\ \/ pc' = [pc EXCEPT ![p] = "clean"]
         \/ pc' = [pc EXCEPT ![p] = "restore"]
  BY DEF Inspect, Goes
<1>2. LockTypeOK'
  BY <1>1 DEF LockTypeOK, Steps
<1>3. Files'
  BY <1>1 DEF LockTypeOK, Files, Holding, At, Stealing
<1>4. Shuffle
  BY <1>1 DEF Shuffle
<1> QED BY <1>2, <1>3, <1>4

LEMMA RestoreTypes ==
  ASSUME LockTypeOK, Files, NEW p \in Process, Restore(p)
  PROVE  LockTypeOK' /\ Files' /\ Shuffle
<1>1. /\ At(p, "restore") /\ UNCHANGED <<moved, stale, seen, mine>>
      /\ pc' = [pc EXCEPT ![p] = "drop"] /\ lock' = IF lock = NoFile THEN moved[seen[p]] ELSE lock
  BY DEF Restore, Goes
<1>2. seen[p] \in File
  BY <1>1, SeenIsFile DEF At, Stealing
<1>3. LockTypeOK'
  BY <1>1, <1>2 DEF LockTypeOK, Steps
<1>4. Files'
  BY <1>1 DEF LockTypeOK, Files, Holding, At, Stealing
<1>5. Shuffle
  BY <1>1, <1>2 DEF Shuffle
<1> QED BY <1>3, <1>4, <1>5

LEMMA DropTypes ==
  ASSUME LockTypeOK, Files, NEW p \in Process, Drop(p)
  PROVE  LockTypeOK' /\ Files' /\ Shuffle
<1>1. /\ pc[p] \in {"drop", "clean"} /\ UNCHANGED <<lock, stale, mine>>
      /\ \/ pc' = [pc EXCEPT ![p] = "try"]
         \/ pc' = [pc EXCEPT ![p] = "out"]
      /\ seen' = [seen EXCEPT ![p] = NoFile] /\ moved' = [moved EXCEPT ![seen[p]] = NoFile]
  BY DEF Drop, Goes, At, NotStolen
<1>2. seen[p] \in File /\ ~Unseen(seen[p])
  BY <1>1, SeenIsFile DEF Stealing
<1>3. LockTypeOK'
  BY <1>1, <1>2 DEF LockTypeOK, Steps
<1>4. Files'
  BY <1>1 DEF LockTypeOK, Files, Holding, Stealing
<1>5. Shuffle
  BY <1>1, <1>2 DEF Shuffle, LockTypeOK
<1> QED BY <1>3, <1>4, <1>5

\* The process leaves stealStaleLock or withLockFile, or dies.
Quits(p) ==
  /\ \/ pc' = [pc EXCEPT ![p] = "out"]
     \/ pc' = [pc EXCEPT ![p] = "try"]
  /\ seen' = [seen EXCEPT ![p] = NoFile] /\ mine' = [mine EXCEPT ![p] = NoFile]
  /\ moved' = moved /\ stale' = stale

LEMMA QuitsTypes ==
  ASSUME LockTypeOK, Files, NEW p \in Process, Quits(p), lock' \in {lock, NoFile}
  PROVE  LockTypeOK' /\ Files' /\ Shuffle
<1>1. LockTypeOK'
  BY DEF Quits, LockTypeOK, Steps
<1>2. Files'
  BY LockAssumption DEF Quits, LockTypeOK, Files, Holding, Stealing
<1>3. Shuffle
  BY DEF Quits, Shuffle, LockTypeOK
<1> QED BY <1>1, <1>2, <1>3

\* Steps that quit.
LEMMA Quitting ==
  ASSUME LockTypeOK, Files, NEW p \in Process
  PROVE  /\ Move(p) /\ lock = NoFile => Quits(p) /\ lock' = lock
         /\ InspectFails(p) => Quits(p) /\ lock' = lock
         /\ Leave(p) /\ ~OwnNonce(p) => Quits(p) /\ lock' = lock
         /\ Unlink(p) => Quits(p) /\ lock' = NoFile
         /\ LockCrash(p) => Quits(p) /\ lock' = lock
<1>1. mine[p] = NoFile => mine = [mine EXCEPT ![p] = NoFile]
  BY DEF LockTypeOK
<1>2. seen[p] = NoFile => seen = [seen EXCEPT ![p] = NoFile]
  BY DEF LockTypeOK
<1>3. /\ pc[p] \in {"move", "inspect"} => mine[p] = NoFile
      /\ pc[p] \in {"leave", "unlink"} => seen[p] = NoFile
  BY DEF Files, Holding, Stealing
<1> QED BY <1>1, <1>2, <1>3 DEF Move, InspectFails, Leave, Unlink, LockCrash, Quits, NotStolen, Goes, At

LEMMA PlainTypes ==
  ASSUME LockTypeOK, Files, NEW p \in Process, NEW x,
         Turns(p, x)
  PROVE  LockTypeOK' /\ Files' /\ Shuffle
<1>1. x \in {"out", "try", "leave", "unlink"} /\ (Holding(p) <=> x \in {"leave", "unlink"})
      /\ pc[p] \notin Stealing
  BY DEF Turns, Holding, Stealing
<1>2. LockTypeOK'
  BY <1>1 DEF Turns, LockTypeOK, Steps
<1>3. Files'
  BY <1>1 DEF Turns, LockTypeOK, Files, Holding, Stealing
<1>4. Shuffle
  BY DEF Turns, Shuffle
<1> QED BY <1>2, <1>3, <1>4

LEMMA AgeTypes ==
  ASSUME LockTypeOK, Files, NEW f \in File, Age(f)
  PROVE  LockTypeOK' /\ Files' /\ Shuffle
<1>1. LockTypeOK'
  BY DEF Age, LockTypeOK
<1>2. Files'
  BY DEF Age, Files, Holding
<1>3. Shuffle
  BY DEF Age, Shuffle
<1> QED BY <1>1, <1>2, <1>3

-----------------------------------------------------------------------------
(* The lock file: exclusion *)

\* What is said of two processes.
AtMostTwo == \A p, q, r \in Process : p = q \/ q = r \/ p = r

Fine == LockTypeOK /\ Files /\ Good

\* The others do not move.
Elsewhere(p) ==
  \A q \in Process \ {p} : pc'[q] = pc[q] /\ seen'[q] = seen[q] /\ mine'[q] = mine[q]

LEMMA HoldersAreEqual ==
  ASSUME AtMostTwo, Fine, NEW p \in Process, NEW q \in Process, Holding(p), Holding(q)
  PROVE  p = q
<1> SUFFICES ASSUME p # q PROVE FALSE
  OBVIOUS
<1>1. Safe(p) /\ Safe(q) /\ mine[p] # mine[q] /\ mine[p] # NoFile /\ mine[q] # NoFile
  BY DEF Fine, Good, Excluded, Files
<1>2. ASSUME NEW r \in Process, HasMoved(r) PROVE FALSE
  <2>1. r # p /\ r # q
    BY <1>2 DEF HasMoved, Holding
  <2> QED BY <2>1 DEF AtMostTwo
<1> QED BY <1>1, <1>2 DEF Safe

LEMMA AcquireGood ==
  ASSUME AtMostTwo, Fine, NEW p \in Process, Acquire(p)
  PROVE  Good'
<1> DEFINE f == CHOOSE g \in File \ InUse : TRUE
<1>1. f \in File \ InUse
  BY DEF Acquire
<1> HIDE DEF f
<1>2. /\ pc[p] = "try" /\ lock = NoFile /\ lock' = f /\ mine' = [mine EXCEPT ![p] = f]
      /\ pc' = [pc EXCEPT ![p] = "held"] /\ moved' = moved /\ seen' = seen
  BY DEF Acquire, Goes, At, f
<1>3. LockTypeOK /\ Files /\ Good
  BY DEF Fine
<1>4. pc'[p] = "held" /\ mine'[p] = f /\ Elsewhere(p)
  BY <1>2, <1>3 DEF LockTypeOK, Elsewhere
<1>6. Mistakes'
  BY <1>1, <1>2, <1>3 DEF Good, Mistakes, Mistaken, Gone, Unseen, InUse
<1>7. AtMostOnce'
  <2>1. \A q \in Process : seen[q] # f /\ \A g \in File : moved[g] # f
    BY <1>1 DEF InUse
  <2>2. \A q \in Process : pc'[q] \in Stealing => seen[q] \in File
    BY <1>3, <1>4 DEF Elsewhere, Stealing, Files, LockTypeOK
  <2> QED BY <1>2, <1>4, <2>1, <2>2 DEF AtMostOnce, Removes, HasMoved, Aside, Stealing
<1>8. NotBoth'
  BY <1>2, <1>3, <1>4 DEF Good, NotBoth, Removes, HasMoved, Aside, Elsewhere
<1>9. AboutToMove'
  <2>1. SUFFICES ASSUME NEW a \in Process, NEW b \in Process, a # b, pc'[b] = "move",
                        pc'[a] \in Stealing
                 PROVE  FALSE
    BY DEF AboutToMove, Removes, HasMoved, Stealing
  <2>2. a # p /\ b # p
    BY <1>4, <2>1 DEF Stealing
  <2> QED BY <2>1, <2>2 DEF AtMostTwo
<1>10. Cleaned'
  BY <1>2, <1>3, <1>4 DEF Good, Cleaned, Aside, Elsewhere
<1>11. Excluded'
  <2>1. SUFFICES ASSUME NEW q \in Process, Holding(q)', q # p
                 PROVE  FALSE
    BY <1>2, <1>4 DEF Excluded, Safe
  <2>2. Holding(q) /\ mine[q] # NoFile
    BY <1>3, <1>4, <2>1 DEF Holding, Elsewhere, Files
  <2>3. PICK r \in Process : HasMoved(r)
    BY <1>2, <1>3, <2>2 DEF Good, Excluded, Safe
  <2>4. r # p /\ r # q
    BY <1>2, <2>2, <2>3 DEF HasMoved, Holding
  <2> QED BY <2>1, <2>4 DEF AtMostTwo
<1> QED BY <1>6, <1>7, <1>8, <1>9, <1>10, <1>11 DEF Good

LEMMA StatGood ==
  ASSUME Fine, NEW p \in Process, Stat(p)
  PROVE  Good'
<1>1. LockTypeOK /\ Files /\ Good
  BY DEF Fine
<1>2. /\ pc[p] = "try" /\ lock \in stale /\ seen' = [seen EXCEPT ![p] = lock]
      /\ pc' = [pc EXCEPT ![p] = "move"] /\ moved' = moved /\ lock' = lock /\ mine' = mine
  BY DEF Stat, Goes, IsStale, At
<1>3. lock \in File /\ lock # NoFile /\ seen[p] = NoFile
  BY <1>1, <1>2, LockAssumption DEF LockTypeOK, Files, Stealing
<1>4. pc'[p] = "move" /\ seen'[p] = lock /\ Elsewhere(p)
  BY <1>1, <1>2 DEF LockTypeOK, Elsewhere
<1>5. Mistakes'
  <2>1. \A f \in File : ~Unseen(f) => ~Unseen(f)'
    BY <1>3, <1>4, LockAssumption DEF Unseen, Elsewhere
  <2> QED BY <1>1, <1>2, <2>1 DEF Good, Mistakes, Mistaken, Gone
<1>6. AtMostOnce'
  BY <1>1, <1>2, <1>4 DEF Good, AtMostOnce, Removes, HasMoved, Aside, Elsewhere
<1>7. NotBoth'
  BY <1>1, <1>2, <1>4 DEF Good, NotBoth, Removes, HasMoved, Aside, Elsewhere
<1>8. AboutToMove'
  <2>1. SUFFICES ASSUME NEW a \in Process, NEW b \in Process, a # b, pc'[b] = "move"
                 PROVE  /\ Removes(a)' /\ seen'[b] \in {seen'[a], Aside(a)'} => lock' = NoFile
                        /\ pc'[a] \in {"move", "drop"} /\ seen'[b] = Aside(a)' /\ Aside(a)' # seen'[a]
                             => lock' = seen'[b]
    BY DEF AboutToMove
  <2>2. CASE b = p
    <3>1. pc'[a] = pc[a] /\ seen'[a] = seen[a] /\ Aside(a)' = Aside(a)
      BY <1>2, <1>4, <2>1, <2>2 DEF Elsewhere, Aside
    <3>2. Removes(a) => lock # seen[a] /\ lock # Aside(a)
      BY <1>1, <1>3 DEF Good, AtMostOnce, Cleaned, Removes, HasMoved
    <3> QED BY <1>2, <1>4, <2>2, <3>1, <3>2 DEF Removes, HasMoved
  <2>3. CASE a = p
    <3>1. pc[b] = "move" /\ seen'[b] = seen[b] /\ seen[b] \in File
      BY <1>1, <1>4, <2>1, <2>3, SeenIsFile DEF Elsewhere, Stealing
    <3>2. Aside(a)' = moved[lock]
      BY <1>2, <1>4, <2>3 DEF Aside
    <3>3. moved[lock] \in {NoFile, lock}
      BY <1>1, <1>3 DEF Good, Mistakes, Mistaken, Gone
    <3> QED BY <1>4, <2>3, <3>1, <3>2, <3>3, LockAssumption DEF Removes, HasMoved
  <2>4. CASE a # p /\ b # p
    <3>1. pc'[a] = pc[a] /\ seen'[a] = seen[a] /\ Aside(a)' = Aside(a) /\ pc[b] = "move" /\ seen'[b] = seen[b]
      BY <1>2, <1>4, <2>1, <2>4 DEF Elsewhere, Aside
    <3> QED BY <1>1, <1>2, <2>1, <3>1 DEF Good, AboutToMove, Removes, HasMoved
  <2> QED BY <2>2, <2>3, <2>4
<1>9. Cleaned'
  BY <1>1, <1>2, <1>4 DEF Good, Cleaned, Aside, Elsewhere
<1>10. Excluded'
  <2>1. SUFFICES ASSUME NEW q \in Process, Holding(q)'
                 PROVE  Safe(q)'
    BY DEF Excluded
  <2>2. Holding(q) /\ mine'[q] = mine[q] /\ Safe(q)
    BY <1>1, <1>2, <1>4, <2>1 DEF Good, Excluded, Holding, Elsewhere
  <2>3. \A r \in Process : HasMoved(r) => HasMoved(r)' /\ Aside(r)' = Aside(r)
    BY <1>2, <1>4 DEF HasMoved, Aside, Elsewhere
  <2> QED BY <1>2, <2>2, <2>3 DEF Safe
<1> QED BY <1>5, <1>6, <1>7, <1>8, <1>9, <1>10 DEF Good

LEMMA MoveGood ==
  ASSUME AtMostTwo, Fine, NEW p \in Process, Move(p), lock # NoFile
  PROVE  Good'
<1> DEFINE f == seen[p]
<1>1. LockTypeOK /\ Files /\ Good
  BY DEF Fine
<1>2. /\ pc[p] = "move" /\ seen' = seen /\ moved' = [moved EXCEPT ![f] = lock]
      /\ pc' = [pc EXCEPT ![p] = "inspect"] /\ lock' = NoFile /\ mine' = mine
  BY DEF Move, Goes, At
<1>3. f \in File /\ lock \in File
  BY <1>1, <1>2, SeenIsFile DEF Stealing, LockTypeOK
<1> HIDE DEF f
<1>4. pc'[p] = "inspect" /\ Elsewhere(p) /\ moved'[f] = lock /\ \A g \in File \ {f} : moved'[g] = moved[g]
  BY <1>1, <1>2, <1>3 DEF LockTypeOK, Elsewhere
<1>5. ASSUME NEW q \in Process \ {p}
      PROVE  /\ Removes(q) => seen[q] # f /\ Aside(q) # f
             /\ Removes(q)' <=> Removes(q)
             /\ HasMoved(q)' <=> HasMoved(q)
             /\ Removes(q) => seen[q] \in File /\ Aside(q)' = Aside(q)
  <2>1. Removes(q) => seen[q] # f /\ Aside(q) # f
    BY <1>1, <1>2 DEF Good, AboutToMove, f
  <2>2. Removes(q) => seen[q] \in File
    BY <1>1, SeenIsFile DEF Removes, HasMoved, Stealing
  <2> QED BY <1>2, <1>4, <2>1, <2>2 DEF Elsewhere, Removes, HasMoved, Aside
<1>6. Aside(p)' = lock
  BY <1>2, <1>4 DEF Aside, f
<1>7. ASSUME NEW h \in File \ {f}, moved[h] = f
      PROVE  lock = f
  <2>1. ~Unseen(h)
    BY <1>1, <1>3, <1>7, LockAssumption DEF Good, Mistakes, Mistaken
  <2>2. PICK a \in Process : seen[a] = h
    BY <2>1 DEF Unseen
  <2>3. a # p /\ Aside(a) = f /\ pc[a] \in Stealing
    BY <1>1, <1>7, <2>2, LockAssumption DEF Files, Aside, f
  <2>4. ~Removes(a)
    BY <1>5, <2>3
  <2> QED BY <1>1, <1>2, <1>7, <2>2, <2>3, <2>4 DEF Good, AboutToMove, Removes, HasMoved, Stealing, f
<1>8. Mistakes'
  <2>1. SUFFICES ASSUME NEW h \in File, Mistaken(h)'
                 PROVE  Gone(h)' /\ ~Unseen(h)'
    BY DEF Mistakes
  <2>2. CASE h = f
    <3>1. lock # f
      BY <1>4, <2>1, <2>2 DEF Mistaken
    <3> QED BY <1>2, <1>3, <1>4, <1>7, <2>2, <3>1, LockAssumption DEF Gone, Unseen, f
  <2>3. CASE h # f
    <3>1. Mistaken(h)
      BY <1>4, <2>1, <2>3 DEF Mistaken
    <3>2. Gone(h) /\ ~Unseen(h)
      BY <1>1, <3>1 DEF Good, Mistakes
    <3> QED BY <1>2, <1>4, <3>2, LockAssumption DEF Gone, Unseen
  <2> QED BY <2>2, <2>3
<1>9. AtMostOnce'
  <2>1. \A q \in Process : Removes(q)' => seen[q] \in File
    BY <1>3, <1>5 DEF f
  <2> QED BY <1>2, <2>1, LockAssumption DEF AtMostOnce, HasMoved, Removes
<1>10. NotBoth'
  <2>1. SUFFICES ASSUME NEW a \in Process, NEW b \in Process, a # b
                 PROVE  /\ HasMoved(a)' /\ HasMoved(b)' /\ Aside(a)' # NoFile => Aside(a)' # Aside(b)'
                        /\ Removes(a)' /\ HasMoved(b)' => Aside(b)' # seen'[a]
    BY DEF NotBoth
  <2>2. CASE a = p
    <3>1. HasMoved(b) => Removes(b) /\ lock # Aside(b)
      BY <1>1, <1>3, LockAssumption DEF Good, AtMostOnce, Removes
    <3> QED BY <1>2, <1>5, <1>6, <2>1, <2>2, <3>1 DEF f
  <2>3. CASE b = p
    <3>1. HasMoved(a) => Removes(a) /\ (Aside(a) # NoFile => lock # Aside(a))
      BY <1>1 DEF Good, AtMostOnce, Removes
    <3>2. Removes(a) => lock # seen[a]
      BY <1>1 DEF Good, AtMostOnce
    <3> QED BY <1>2, <1>5, <1>6, <2>1, <2>3, <3>1, <3>2
  <2> QED BY <2>1, <2>2, <2>3 DEF AtMostTwo
<1>11. AboutToMove'
  <2>1. SUFFICES ASSUME NEW a \in Process, NEW b \in Process, a # b, pc'[b] = "move", pc'[a] \in {"move", "drop"}
                 PROVE  FALSE
    BY <1>2 DEF AboutToMove
  <2>2. a # p /\ b # p
    BY <1>4, <2>1
  <2> QED BY <2>1, <2>2 DEF AtMostTwo
<1>12. Cleaned'
  <2>1. SUFFICES ASSUME NEW q \in Process, pc'[q] = "clean"
                 PROVE  Aside(q)' \in {seen'[q], NoFile}
    BY DEF Cleaned
  <2>2. q # p /\ pc[q] = "clean"
    BY <1>4, <2>1 DEF Elsewhere
  <2>3. Removes(q)
    BY <2>2 DEF Removes
  <2> QED BY <1>1, <1>2, <1>5, <2>2, <2>3 DEF Good, Cleaned
<1>13. Excluded'
  <2>1. SUFFICES ASSUME NEW q \in Process, Holding(q)'
                 PROVE  Safe(q)'
    BY DEF Excluded
  <2>2. q # p /\ Holding(q) /\ mine'[q] = mine[q]
    BY <1>2, <1>4, <2>1 DEF Holding, Elsewhere
  <2>3. lock = mine[q]
    BY <1>1, <2>2 DEF Good, Excluded, Safe
  <2> QED BY <1>2, <1>4, <1>6, <2>2, <2>3 DEF Safe, HasMoved
<1> QED BY <1>8, <1>9, <1>10, <1>11, <1>12, <1>13 DEF Good

LEMMA InspectGood ==
  ASSUME Fine, NEW p \in Process, Inspect(p)
  PROVE  Good'
<1>1. LockTypeOK /\ Files /\ Good
  BY DEF Fine
<1>2. /\ pc[p] = "inspect" /\ UNCHANGED <<lock, moved, stale, seen, mine>>
      /\ \/ pc' = [pc EXCEPT ![p] = "clean"] /\ Aside(p) = seen[p]
         \/ pc' = [pc EXCEPT ![p] = "restore"]
  BY DEF Inspect, Goes, At, Expected, Aside
<1>3. /\ \A q \in Process : Removes(q)' <=> Removes(q)
      /\ \A q \in Process : HasMoved(q)' => HasMoved(q)
      /\ \A q \in Process : pc'[q] \in {"move", "drop"} => pc[q] = pc'[q]
      /\ \A q \in Process : Holding(q)' => Holding(q)
  BY <1>1, <1>2 DEF LockTypeOK, Removes, HasMoved, Holding
<1>4. \A q \in Process : Aside(q)' = Aside(q)
  BY <1>2 DEF Aside
<1>5. Mistakes'
  BY <1>1, <1>2 DEF Good, Mistakes, Mistaken, Gone, Unseen
<1>6. AtMostOnce' /\ NotBoth'
  BY <1>1, <1>2, <1>3, <1>4 DEF Good, AtMostOnce, NotBoth
<1>7. AboutToMove'
  BY <1>1, <1>2, <1>3, <1>4 DEF Good, AboutToMove
<1>8. Cleaned'
  <2>1. \A q \in Process : pc'[q] = "clean" => pc[q] = "clean" \/ Aside(q) = seen[q]
    BY <1>1, <1>2 DEF LockTypeOK
  <2> QED BY <1>1, <1>2, <1>4, <2>1 DEF Good, Cleaned
<1>9. Excluded'
  <2>1. SUFFICES ASSUME NEW q \in Process, Holding(q), Safe(q)
                 PROVE  Safe(q)'
    BY <1>1, <1>3 DEF Good, Excluded
  <2>2. CASE lock = mine[q]
    BY <1>2, <2>2 DEF Safe
  <2>3. CASE lock # mine[q]
    <3>1. PICK r \in Process : lock = NoFile /\ HasMoved(r) /\ Aside(r) = mine[q]
      BY <2>1, <2>3 DEF Safe
    <3>2. seen[r] \in stale /\ mine[q] \notin stale
      BY <1>1, <3>1 DEF Files, HasMoved, Stealing
    <3>3. HasMoved(r)'
      BY <1>1, <1>2, <3>1, <3>2 DEF LockTypeOK, HasMoved
    <3> QED BY <1>2, <1>4, <3>1, <3>3 DEF Safe
  <2> QED BY <2>2, <2>3
<1> QED BY <1>5, <1>6, <1>7, <1>8, <1>9 DEF Good

LEMMA RestoreGood ==
  ASSUME AtMostTwo, Fine, NEW p \in Process, Restore(p)
  PROVE  Good'
<1>1. LockTypeOK /\ Files /\ Good
  BY DEF Fine
<1>2. /\ pc[p] = "restore" /\ UNCHANGED <<moved, stale, seen, mine>>
      /\ pc' = [pc EXCEPT ![p] = "drop"] /\ lock' = IF lock = NoFile THEN Aside(p) ELSE lock
  BY DEF Restore, Goes, At, Aside
<1>3. pc'[p] = "drop" /\ Elsewhere(p) /\ seen[p] \in File /\ HasMoved(p) /\ Removes(p)
  BY <1>1, <1>2, SeenIsFile DEF LockTypeOK, Elsewhere, Stealing, HasMoved, Removes
<1>4. \A q \in Process : Aside(q)' = Aside(q)
  BY <1>2 DEF Aside
<1>5. /\ \A q \in Process : Removes(q)' <=> q # p /\ Removes(q)
      /\ \A q \in Process : HasMoved(q)' <=> q # p /\ HasMoved(q)
      /\ \A q \in Process : Holding(q)' <=> q # p /\ Holding(q)
  BY <1>2, <1>3 DEF Elsewhere, Removes, HasMoved, Holding
<1>6. Mistakes'
  BY <1>1, <1>2, <1>3 DEF Good, Mistakes, Mistaken, Gone, Unseen, Aside
<1>7. AtMostOnce'
  BY <1>1, <1>2, <1>3, <1>4, <1>5 DEF Good, AtMostOnce, NotBoth
<1>8. NotBoth'
  BY <1>1, <1>2, <1>4, <1>5 DEF Good, NotBoth
<1>9. AboutToMove'
  <2>1. SUFFICES ASSUME NEW a \in Process, NEW b \in Process, a # b, pc'[b] = "move"
                 PROVE  /\ Removes(a)' /\ seen'[b] \in {seen'[a], Aside(a)'} => lock' = NoFile
                        /\ pc'[a] \in {"move", "drop"} /\ seen'[b] = Aside(a)' /\ Aside(a)' # seen'[a]
                             => lock' = seen'[b]
    BY DEF AboutToMove
  <2>2. b # p /\ a = p
    BY <1>3, <2>1 DEF AtMostTwo
  <2>3. pc[b] = "move"
    BY <1>3, <2>1, <2>2 DEF Elsewhere
  <2>4. seen[b] = Aside(p) => lock = NoFile
    BY <1>1, <1>3, <2>1, <2>2, <2>3 DEF Good, AboutToMove
  <2> QED BY <1>2, <1>4, <1>5, <2>2, <2>4
<1>10. Cleaned'
  BY <1>1, <1>2, <1>3, <1>4 DEF Good, Cleaned, Elsewhere
<1>11. Excluded'
  <2>1. SUFFICES ASSUME NEW q \in Process, q # p, Holding(q), Safe(q)
                 PROVE  Safe(q)'
    BY <1>1, <1>5 DEF Good, Excluded
  <2>2. CASE lock = mine[q]
    <3>1. mine[q] # NoFile
      BY <1>1, <2>1 DEF Files
    <3> QED BY <1>2, <2>2, <3>1 DEF Safe
  <2>3. CASE lock # mine[q]
    <3>1. PICK r \in Process : lock = NoFile /\ HasMoved(r) /\ Aside(r) = mine[q]
      BY <2>1, <2>3 DEF Safe
    <3>2. r = p
      <4>1. r # q
        BY <2>1, <3>1 DEF HasMoved, Holding
      <4> QED BY <2>1, <4>1 DEF AtMostTwo
    <3> QED BY <1>2, <3>1, <3>2 DEF Safe
  <2> QED BY <2>2, <2>3
<1> QED BY <1>6, <1>7, <1>8, <1>9, <1>10, <1>11 DEF Good

LEMMA DropGood ==
  ASSUME AtMostTwo, Fine, NEW p \in Process, Drop(p)
  PROVE  Good'
<1>1. LockTypeOK /\ Files /\ Good
  BY DEF Fine
<1>2. /\ pc[p] \in {"drop", "clean"} /\ UNCHANGED <<lock, stale, mine>>
      /\ \/ pc' = [pc EXCEPT ![p] = "try"]
         \/ pc' = [pc EXCEPT ![p] = "out"]
      /\ seen' = [seen EXCEPT ![p] = NoFile] /\ moved' = [moved EXCEPT ![seen[p]] = NoFile]
  BY DEF Drop, Goes, At, NotStolen
<1>3. /\ pc'[p] \in {"try", "out"} /\ seen'[p] = NoFile /\ Elsewhere(p) /\ seen[p] \in File
      /\ \A g \in File : moved'[g] = IF g = seen[p] THEN NoFile ELSE moved[g]
  BY <1>1, <1>2, SeenIsFile DEF LockTypeOK, Elsewhere, Stealing
<1>4. ASSUME NEW q \in Process, pc'[q] \in Stealing
      PROVE  /\ q # p /\ pc'[q] = pc[q] /\ seen'[q] = seen[q]
             /\ Aside(q)' \in {Aside(q), NoFile}
             /\ seen[q] # NoFile
  <2>1. q # p /\ pc'[q] = pc[q] /\ seen'[q] = seen[q]
    BY <1>3, <1>4 DEF Stealing, Elsewhere
  <2>2. seen[q] \in File
    BY <1>1, <1>4, <2>1, SeenIsFile
  <2> QED BY <1>3, <2>1, <2>2, LockAssumption DEF Aside
<1>5. \A a, b \in Process : a # b => pc'[a] \notin Stealing \/ pc'[b] \notin Stealing
  <2>1. SUFFICES ASSUME NEW a \in Process, NEW b \in Process, a # b, pc'[a] \in Stealing, pc'[b] \in Stealing
                 PROVE  FALSE
    OBVIOUS
  <2>2. a # p /\ b # p
    BY <1>4, <2>1
  <2> QED BY <2>1, <2>2 DEF AtMostTwo
<1>6. Mistakes'
  <2>1. SUFFICES ASSUME NEW h \in File, Mistaken(h)'
                 PROVE  Gone(h)' /\ ~Unseen(h)'
    BY DEF Mistakes
  <2>2. h # seen[p] /\ Mistaken(h)
    BY <1>3, <2>1 DEF Mistaken
  <2>3. Gone(h) /\ ~Unseen(h)
    BY <1>1, <2>2 DEF Good, Mistakes
  <2>4. Gone(h)'
    BY <1>2, <1>3, <2>3, LockAssumption DEF Gone
  <2>5. ~Unseen(h)'
    BY <1>3, <2>2, <2>3 DEF Unseen, Elsewhere
  <2> QED BY <2>4, <2>5
<1>7. AtMostOnce'
  <2>1. SUFFICES ASSUME NEW q \in Process, Removes(q)'
                 PROVE  lock' # seen'[q] /\ (HasMoved(q)' /\ Aside(q)' # NoFile => lock' # Aside(q)')
    BY DEF AtMostOnce, Removes
  <2>2. pc'[q] \in Stealing
    BY <2>1 DEF Removes, HasMoved, Stealing
  <2>3. Removes(q) /\ (HasMoved(q)' => HasMoved(q)) /\ seen'[q] = seen[q] /\ Aside(q)' \in {Aside(q), NoFile}
    BY <1>4, <2>1, <2>2 DEF Removes, HasMoved
  <2> QED BY <1>1, <1>2, <2>3 DEF Good, AtMostOnce
<1>8. NotBoth' /\ AboutToMove'
  BY <1>5 DEF NotBoth, AboutToMove, Removes, HasMoved, Stealing
<1>9. Cleaned'
  BY <1>1, <1>4 DEF Good, Cleaned, Stealing
<1>10. Excluded'
  <2>1. SUFFICES ASSUME NEW q \in Process, Holding(q)'
                 PROVE  Safe(q)'
    BY DEF Excluded
  <2>2. q # p /\ Holding(q)
    BY <1>3, <2>1 DEF Holding, Elsewhere
  <2>3. lock = mine[q]
    <3>1. ASSUME NEW r \in Process, HasMoved(r) PROVE FALSE
      <4>1. r # p /\ r # q
        BY <1>2, <2>2, <3>1 DEF HasMoved, Holding
      <4> QED BY <2>2, <4>1 DEF AtMostTwo
    <3> QED BY <1>1, <2>2, <3>1 DEF Good, Excluded, Safe
  <2> QED BY <1>2, <2>3 DEF Safe
<1> QED BY <1>6, <1>7, <1>8, <1>9, <1>10 DEF Good

\* A process that quits in the middle may leave a lock moved aside for good.
LEMMA QuitsGood ==
  ASSUME AtMostTwo, Fine, NEW p \in Process, Quits(p), lock' = lock
  PROVE  Good' \/ Lost'
<1>1. LockTypeOK /\ Files /\ Good
  BY DEF Fine
<1>2. /\ pc'[p] \in {"try", "out"} /\ seen'[p] = NoFile /\ mine'[p] = NoFile /\ Elsewhere(p)
      /\ moved' = moved
  BY <1>1 DEF Quits, LockTypeOK, Elsewhere
<1>3. CASE \E f \in File : Mistaken(f) /\ Unseen(f)'
  <2>1. PICK f \in File : Mistaken(f) /\ Unseen(f)'
    BY <1>3
  <2>2. Gone(f)
    BY <1>1, <2>1 DEF Good, Mistakes
  <2>3. Mistaken(f)' /\ Gone(f)'
    BY <1>2, <2>1, <2>2 DEF Mistaken, Gone
  <2> QED BY <2>1, <2>3 DEF Lost
<1>4. CASE ~\E f \in File : Mistaken(f) /\ Unseen(f)'
  <2>1. Mistakes'
    BY <1>1, <1>2, <1>4 DEF Good, Mistakes, Mistaken, Gone
  <2>2. \A q \in Process : pc'[q] \in Stealing =>
          q # p /\ pc'[q] = pc[q] /\ seen'[q] = seen[q] /\ Aside(q)' = Aside(q)
    BY <1>2 DEF Elsewhere, Stealing, Aside
  <2>3. AtMostOnce' /\ NotBoth' /\ Cleaned'
    BY <1>1, <2>2 DEF Good, AtMostOnce, NotBoth, Cleaned, Removes, HasMoved, Stealing
  <2>4. AboutToMove'
    BY <1>1, <2>2 DEF Good, AboutToMove, Removes, HasMoved, Stealing
  <2>5. Excluded'
    <3>1. SUFFICES ASSUME NEW q \in Process, Holding(q)'
                   PROVE  Safe(q)'
      BY DEF Excluded
    <3>2. q # p /\ Holding(q) /\ mine'[q] = mine[q]
      BY <1>2, <3>1 DEF Holding, Elsewhere
    <3>3. Safe(q) /\ mine[q] # NoFile /\ mine[q] \notin stale /\ seen[q] = NoFile
      BY <1>1, <3>2 DEF Good, Excluded, Files, Holding, Stealing
    <3>4. CASE lock = mine[q]
      BY <3>2, <3>4 DEF Safe
    <3>5. CASE lock # mine[q]
      <4>1. PICK r \in Process : lock = NoFile /\ HasMoved(r) /\ Aside(r) = mine[q]
        BY <3>3, <3>5 DEF Safe
      <4>2. PICK f \in File : seen[r] = f /\ f \in stale
        BY <1>1, <4>1, SeenIsFile DEF HasMoved, Stealing
      <4>3. Mistaken(f)
        BY <3>3, <4>1, <4>2 DEF Mistaken, Aside
      <4>4. r # p
        <5>1. SUFFICES ASSUME r = p PROVE FALSE
          OBVIOUS
        <5>2. \A a \in Process : a = p \/ a = q
          BY <3>2 DEF AtMostTwo
        <5>3. Unseen(f)'
          BY <1>2, <3>2, <3>3, <4>2, <5>2, LockAssumption DEF Unseen, Elsewhere
        <5> QED BY <1>4, <4>2, <4>3, <5>3
      <4>5. HasMoved(r)' /\ Aside(r)' = Aside(r)
        BY <1>2, <4>1, <4>4 DEF Elsewhere, HasMoved, Aside
      <4> QED BY <3>2, <4>1, <4>5 DEF Safe
    <3> QED BY <3>4, <3>5
  <2> QED BY <2>1, <2>3, <2>4, <2>5 DEF Good
<1> QED BY <1>3, <1>4

LEMMA UnlinkGood ==
  ASSUME AtMostTwo, Fine, NEW p \in Process, Unlink(p)
  PROVE  Good'
<1>1. LockTypeOK /\ Files /\ Good
  BY DEF Fine
<1>2. Holding(p) /\ seen[p] = NoFile /\ lock' = NoFile /\ moved' = moved /\ Quits(p)
  BY <1>1, Quitting DEF Unlink, Holding, At, Files, Stealing
<1>3. pc'[p] \in {"try", "out"} /\ seen'[p] = NoFile /\ Elsewhere(p)
  BY <1>1, <1>2 DEF Quits, LockTypeOK, Elsewhere
<1>4. \A q \in Process : pc'[q] \in Stealing =>
          q # p /\ pc'[q] = pc[q] /\ seen'[q] = seen[q] /\ Aside(q)' = Aside(q) /\ seen[q] # NoFile
  BY <1>1, <1>2, <1>3 DEF Elsewhere, Stealing, Aside, Files
<1>5. Mistakes'
  BY <1>1, <1>2, <1>3, LockAssumption DEF Good, Mistakes, Mistaken, Gone, Unseen, Elsewhere
<1>6. AtMostOnce' /\ NotBoth' /\ Cleaned'
  BY <1>1, <1>2, <1>4 DEF Good, AtMostOnce, NotBoth, Cleaned, Removes, HasMoved, Stealing
<1>7. AboutToMove'
  <2>1. SUFFICES ASSUME NEW a \in Process, NEW b \in Process, a # b, pc'[b] = "move", pc'[a] \in {"move", "drop"}
                 PROVE  FALSE
    BY <1>2 DEF AboutToMove
  <2>2. a # p /\ b # p
    BY <1>3, <2>1
  <2> QED BY <2>1, <2>2 DEF AtMostTwo
<1>8. Excluded'
  <2>1. \A q \in Process : ~Holding(q)'
    BY <1>2, <1>3, HoldersAreEqual DEF Holding, Elsewhere
  <2> QED BY <2>1 DEF Excluded
<1> QED BY <1>5, <1>6, <1>7, <1>8 DEF Good

\* Steps that do not touch the files.
LEMMA PlainGood ==
  ASSUME Fine, UNCHANGED <<lock, moved, seen, mine>>, pc' \in [Process -> Steps],
         \A q \in Process : pc'[q] = pc[q] \/ (pc'[q] \notin Stealing /\ pc[q] \notin Stealing
                                                  /\ (Holding(q)' => Holding(q)))
  PROVE  Good'
<1>1. Good
  BY DEF Fine
<1>2. \A q \in Process : /\ pc'[q] \in Stealing <=> pc[q] \in Stealing
                         /\ pc[q] \in Stealing => pc'[q] = pc[q]
                         /\ Holding(q)' => Holding(q)
                         /\ Aside(q)' = Aside(q)
  BY DEF Holding, Stealing, Aside
<1>3. \A q \in Process : /\ Removes(q)' <=> Removes(q)
                         /\ HasMoved(q)' <=> HasMoved(q)
                         /\ pc'[q] \in {"move", "drop", "clean"} => pc'[q] = pc[q]
  BY <1>2 DEF Removes, HasMoved, Stealing
<1>4. Mistakes'
  BY <1>1 DEF Good, Mistakes, Mistaken, Gone, Unseen
<1>5. AtMostOnce' /\ NotBoth' /\ Cleaned'
  BY <1>1, <1>2, <1>3 DEF Good, AtMostOnce, NotBoth, Cleaned
<1>6. AboutToMove'
  BY <1>1, <1>2, <1>3 DEF Good, AboutToMove
<1>7. Excluded'
  BY <1>1, <1>2, <1>3 DEF Good, Excluded, Safe
<1> QED BY <1>4, <1>5, <1>6, <1>7 DEF Good

\* Whatever a process does with the lock, and when it does nothing with it.
LEMMA LockActionTypes ==
  ASSUME LockTypeOK, Files, NEW p \in Process, LockAction(p)
  PROVE  LockTypeOK' /\ Files' /\ Shuffle
<1>1. CASE InspectFails(p) \/ LockCrash(p) \/ Unlink(p) \/ (Leave(p) /\ ~OwnNonce(p))
  <2>1. Quits(p) /\ lock' \in {lock, NoFile}
    BY <1>1, Quitting
  <2> QED BY <2>1, QuitsTypes
<1>2. ASSUME NEW x, Turns(p, x)
      PROVE  LockTypeOK' /\ Files' /\ Shuffle
  BY <1>2, PlainTypes
<1>3. CASE Leave(p) /\ OwnNonce(p)
  BY <1>2, <1>3 DEF Turns, Leave, Goes, At
<1>4. CASE PlainStep(p)
  BY <1>2, <1>4 DEF Turns, PlainStep, Goes, At
<1> QED BY <1>1, <1>3, <1>4, AcquireTypes, StatTypes, MoveTypes, InspectTypes, RestoreTypes, DropTypes
        DEF LockAction, LockStep

LEMMA LockQuietTypes ==
  ASSUME LockTypeOK, Files, UNCHANGED lockVars \/ \E f \in File : Age(f)
  PROVE  LockTypeOK' /\ Files' /\ Shuffle /\ UNCHANGED <<lock, moved, seen, mine, pc>>
<1>1. CASE UNCHANGED lockVars
  <2>1. UNCHANGED <<lock, moved, stale, pc, seen, mine>>
    BY <1>1 DEF lockVars
  <2>2. LockTypeOK'
    BY <2>1 DEF LockTypeOK
  <2>3. Files'
    BY <2>1 DEF Files, Holding
  <2> QED BY <2>1, <2>2, <2>3 DEF Shuffle
<1>2. ASSUME NEW f \in File, Age(f)
      PROVE  LockTypeOK' /\ Files' /\ Shuffle /\ UNCHANGED <<lock, moved, seen, mine, pc>>
  BY <1>2, AgeTypes DEF Age
<1> QED BY <1>1, <1>2

LEMMA LockActionInv ==
  ASSUME AtMostTwo, LockInv, NEW p \in Process, LockAction(p)
  PROVE  LockInv' /\ (Lost => Lost')
<1>1. LockTypeOK /\ Files /\ (Lost \/ Good)
  BY DEF LockInv
<1>2. LockTypeOK' /\ Files' /\ Shuffle
  BY <1>1, LockActionTypes
<1>3. Lost => Lost'
  BY <1>1, <1>2, LostStays
<1>4. ASSUME Good PROVE Good' \/ Lost'
  <2>1. Fine
    BY <1>1, <1>4 DEF Fine
  <2>2. CASE Acquire(p)
    BY <2>1, <2>2, AcquireGood
  <2>3. CASE Stat(p)
    BY <2>1, <2>3, StatGood
  <2>4. ASSUME Quits(p), lock' = lock
        PROVE  Good' \/ Lost'
    BY <2>1, <2>4, QuitsGood
  <2>5. CASE Move(p) /\ lock = NoFile
    BY <1>1, <2>4, <2>5, Quitting
  <2>6. CASE Move(p) /\ lock # NoFile
    BY <2>1, <2>6, MoveGood
  <2>7. CASE Inspect(p)
    BY <2>1, <2>7, InspectGood
  <2>8. CASE InspectFails(p) \/ LockCrash(p) \/ (Leave(p) /\ ~OwnNonce(p))
    BY <1>1, <2>4, <2>8, Quitting
  <2>9. CASE Restore(p)
    BY <2>1, <2>9, RestoreGood
  <2>10. CASE Drop(p)
    BY <2>1, <2>10, DropGood
  <2>11. ASSUME NEW x, Turns(p, x)
         PROVE  Good'
    <3>1. \A q \in Process : pc'[q] = pc[q] \/ (pc'[q] \notin Stealing /\ pc[q] \notin Stealing
                                                    /\ (Holding(q)' => Holding(q)))
      BY <1>1, <2>11 DEF Turns, LockTypeOK, Stealing, Holding
    <3>2. pc' \in [Process -> Steps] /\ UNCHANGED <<lock, moved, seen, mine>>
      BY <1>2, <2>11 DEF LockTypeOK, Turns
    <3> QED BY <2>1, <3>1, <3>2, PlainGood
  <2>12. CASE Leave(p) /\ OwnNonce(p)
    BY <2>11, <2>12 DEF Turns, Leave, Goes, At
  <2>13. CASE Unlink(p)
    BY <1>1, <2>1, <2>13, Quitting, UnlinkGood
  <2>14. CASE PlainStep(p)
    BY <2>11, <2>14 DEF Turns, PlainStep, Goes, At
  <2> QED BY <2>2, <2>3, <2>5, <2>6, <2>7, <2>8, <2>9, <2>10, <2>12, <2>13, <2>14 DEF LockAction, LockStep
<1> QED BY <1>1, <1>2, <1>3, <1>4 DEF LockInv

LEMMA LockQuietInv ==
  ASSUME LockInv, UNCHANGED lockVars \/ \E f \in File : Age(f)
  PROVE  LockInv' /\ (Lost => Lost')
<1>1. LockTypeOK /\ Files /\ (Lost \/ Good)
  BY DEF LockInv
<1>2. LockTypeOK' /\ Files' /\ Shuffle /\ UNCHANGED <<lock, moved, seen, mine, pc>>
  BY <1>1, LockQuietTypes
<1>3. Good => Good'
  BY <1>1, <1>2, PlainGood DEF Fine, LockTypeOK
<1> QED BY <1>1, <1>2, <1>3, LostStays DEF LockInv

LEMMA LockInitInv == LockInit => LockInv
<1> SUFFICES ASSUME LockInit PROVE LockInv
  OBVIOUS
<1>1. /\ lock \in File \cup {NoFile} /\ moved = [f \in File |-> NoFile] /\ stale = {}
      /\ pc = [p \in Process |-> "out"]
      /\ seen = [p \in Process |-> NoFile] /\ mine = [p \in Process |-> NoFile]
  BY LockAssumption DEF LockInit
<1>2. LockTypeOK /\ Files
  BY <1>1 DEF LockTypeOK, Steps, Files, Holding, Stealing
<1>3. Good
  BY <1>1, LockAssumption DEF Good, Mistakes, Mistaken, AtMostOnce, NotBoth, AboutToMove, Cleaned, Excluded,
                              Holding, Removes, HasMoved
<1> QED BY <1>2, <1>3 DEF LockInv

LEMMA LockInvExcludes ==
  ASSUME AtMostTwo, LockInv
  PROVE  OneHolder
<1>1. CASE Lost
  BY <1>1 DEF Lost, Mistaken, Unseen, OneHolder, Abandoned
<1>2. CASE Good
  BY <1>2, HoldersAreEqual DEF LockInv, Fine, OneHolder
<1> QED BY <1>1, <1>2 DEF LockInv

-----------------------------------------------------------------------------
(* The session: the inductive invariant *)

\* TypeOK without the lock file.
Typed ==
  /\ file \in Token \cup {NoToken} /\ fresh \in BOOLEAN /\ (fresh => file # NoToken)
  /\ at \in [Process -> Points] /\ have \in [Process -> Token \cup {NoToken}]
  /\ pin \in [Process -> Issuer \cup {NoIssuer}] /\ to \in [Process -> Issuer \cup {NoIssuer}]
  /\ wire \in [Process -> Token \cup {NoToken}]
  /\ newest \in [Chain -> 0..MaxRefresh] /\ origin \in [Chain -> Issuer \cup {NoIssuer}]
  /\ ended \subseteq Chain /\ named \in Issuer /\ mislaid \subseteq Token
  /\ commands \in 0..MaxCommands /\ crashes \in 0..MaxCrashes

\* Where a process is in withLockFile, at each point of its command.
PlacedAt(p) ==
  /\ at[p] \in {"idle", "discover", "poll", "store", "revoke", "remove"} => pc[p] = "out"
  /\ at[p] = "lock" => pc[p] \notin {"leave", "unlink"}
  /\ at[p] \in {"asking", "asked", "save", "refused"} => pc[p] = "held"
  /\ at[p] \in {"done", "failed", "expired"} => pc[p] \in {"leave", "unlink", "out"}

\* The token at hand at each point; a refreshed one has a predecessor.
Carries(p) ==
  /\ at[p] \in {"asking", "asked", "save", "store", "revoke"} => have[p] # NoToken
  /\ at[p] = "asked" => wire[p] = have[p]
  /\ at[p] = "save" => have[p][2] > 1

\* No token is ahead of its server.
Known(t) == t # NoToken => t[2] <= newest[t[1]]

\* SentToItsIssuer, of one process.
SentWell(p) == at[p] \in {"asked", "save"} => to[p] = origin[have[p][1]]

Local(p) == PlacedAt(p) /\ Carries(p) /\ Known(have[p]) /\ Known(wire[p]) /\ SentWell(p)

SessionInv == LockTypeOK /\ Files /\ Typed /\ Known(file) /\ \A p \in Process : Local(p)

\* A request that nobody waits for.
Unattended == \A p \in Process : wire[p] # NoToken /\ at[p] # "asked" => wire[p] \in mislaid

\* A spent token on disk has a successor in the memory of the process that is
\* about to write it, or the successor was lost.
Successor ==
  file # NoToken /\ Spent(file) =>
    file \in mislaid \/ \E p \in Process : at[p] = "save" /\ have[p] = <<file[1], file[2] + 1>>

\* A token that a process has decided to use.
Presented ==
  \A p \in Process : at[p] \in {"asking", "asked"} /\ Spent(have[p]) => have[p] \in mislaid

\* A token just received is nowhere else.
Received ==
  \A p \in Process : at[p] \in {"save", "store"} =>
    /\ ~Spent(have[p]) /\ file # have[p]
    /\ \A q \in Process :
         /\ wire[q] # have[p]
         /\ q # p /\ at[q] \in {"asking", "asked", "save", "store"} => have[q] # have[p]

Once == Successor /\ Presented /\ Received
OnceInv == Unattended /\ (Lost \/ Once)

-----------------------------------------------------------------------------
(* The session: one process at a time *)

Others(p) ==
  \A q \in Process \ {p} :
    at'[q] = at[q] /\ pc'[q] = pc[q] /\ have'[q] = have[q] /\ wire'[q] = wire[q] /\ to'[q] = to[q]

\* The servers forget no token and keep who issued what.
ServersGrow ==
  \A c \in Chain : newest[c] > 0 => newest'[c] >= newest[c] /\ origin'[c] = origin[c]

LEMMA TokenParts ==
  ASSUME NEW t \in Token
  PROVE  t[1] \in Chain /\ t[2] \in 1..MaxRefresh /\ t[2] \in Nat /\ t = <<t[1], t[2]>> /\ t # NoToken
BY SessionAssumption DEF Token

LEMMA KnownStays ==
  ASSUME Typed, Typed', ServersGrow, NEW t \in Token \cup {NoToken}, Known(t)
  PROVE  /\ t # NoToken => t[2] <= newest'[t[1]] /\ origin'[t[1]] = origin[t[1]] /\ newest[t[1]] > 0
<1>1. CASE t \in Token
  BY <1>1, TokenParts, SessionAssumption DEF Typed, ServersGrow, Known
<1> QED BY <1>1

LEMMA OthersStay ==
  ASSUME Typed, Typed', ServersGrow, NEW p \in Process, Others(p), NEW q \in Process \ {p}, Local(q)
  PROVE  Local(q)'
<1>1. at'[q] = at[q] /\ pc'[q] = pc[q] /\ have'[q] = have[q] /\ wire'[q] = wire[q] /\ to'[q] = to[q]
  BY DEF Others
<1>2. have[q] \in Token \cup {NoToken} /\ wire[q] \in Token \cup {NoToken}
  BY DEF Typed
<1>3. /\ have[q] # NoToken => have[q][2] <= newest'[have[q][1]] /\ origin'[have[q][1]] = origin[have[q][1]]
      /\ wire[q] # NoToken => wire[q][2] <= newest'[wire[q][1]]
  BY <1>2, KnownStays DEF Local
<1>4. PlacedAt(q)' /\ Carries(q)'
  BY <1>1 DEF Local, PlacedAt, Carries
<1>5. Known(have[q])' /\ Known(wire[q])'
  BY <1>1, <1>3 DEF Known
<1>6. SentWell(q)'
  BY <1>1, <1>3 DEF Local, SentWell, Carries
<1> QED BY <1>4, <1>5, <1>6 DEF Local

\* What an action has to show.
Stepped(p) ==
  /\ Typed' /\ Others(p) /\ ServersGrow
  /\ Local(p)' /\ (Known(file)' \/ file' = file)

LEMMA SteppedInv ==
  ASSUME SessionInv, LockTypeOK', Files', NEW p \in Process, Stepped(p)
  PROVE  SessionInv'
<1>1. \A q \in Process : Local(q)'
  BY OthersStay DEF SessionInv, Stepped
<1>2. Known(file)'
  <2>1. CASE file' = file
    <3>1. file \in Token \cup {NoToken} /\ Known(file)
      BY DEF SessionInv, Typed
    <3> QED BY <2>1, <3>1, KnownStays DEF SessionInv, Stepped, Known
  <2> QED BY <2>1 DEF Stepped
<1> QED BY <1>1, <1>2 DEF SessionInv, Stepped

LEMMA Facts ==
  ASSUME SessionInv
  PROVE  /\ Typed /\ pc \in [Process -> Steps] /\ Known(file) /\ \A p \in Process : Local(p)
BY DEF SessionInv, LockTypeOK

\* What LockStep does to where a process is.
LEMMA LockStepMoves ==
  ASSUME pc \in [Process -> Steps], NEW p \in Process, LockStep(p)
  PROVE  \E x \in Steps :
           /\ pc' = [pc EXCEPT ![p] = x]
           /\ pc[p] \in {"try", "move", "inspect", "restore", "drop", "clean", "leave", "unlink"}
           /\ pc[p] \in {"leave", "unlink"} => x \in {"unlink", "out"}
           /\ pc[p] \notin {"leave", "unlink"} => x \notin {"leave", "unlink"}
<1>1. /\ Acquire(p) => At(p, "try") /\ Goes(p, "held")
      /\ Stat(p) => At(p, "try") /\ Goes(p, "move")
      /\ Move(p) => At(p, "move") /\ (Goes(p, "try") \/ Goes(p, "out") \/ Goes(p, "inspect"))
      /\ Inspect(p) => At(p, "inspect") /\ (Goes(p, "clean") \/ Goes(p, "restore"))
      /\ InspectFails(p) => At(p, "inspect") /\ Goes(p, "out")
      /\ Restore(p) => At(p, "restore") /\ Goes(p, "drop")
      /\ Drop(p) => (At(p, "drop") \/ At(p, "clean")) /\ (Goes(p, "try") \/ Goes(p, "out"))
      /\ Leave(p) => At(p, "leave") /\ (Goes(p, "unlink") \/ Goes(p, "out"))
      /\ Unlink(p) => At(p, "unlink") /\ Goes(p, "out")
  BY DEF Acquire, Stat, Move, NotStolen, Inspect, InspectFails, Restore, Drop, Leave, Unlink
<1>2. \E x \in Steps : Goes(p, x)
        /\ pc[p] \in {"try", "move", "inspect", "restore", "drop", "clean", "leave", "unlink"}
        /\ (pc[p] \in {"leave", "unlink"} => x \in {"unlink", "out"})
        /\ (pc[p] \notin {"leave", "unlink"} => x \notin {"leave", "unlink"})
  BY <1>1 DEF LockStep, At, Steps
<1> QED BY <1>2 DEF Goes

LEMMA LockCallStepped ==
  ASSUME SessionInv, NEW p \in Process, LockCall(p)
  PROVE  Stepped(p)
<1>1. /\ Typed /\ pc \in [Process -> Steps] /\ Local(p)
      /\ UNCHANGED <<file, fresh, at, have, pin, to, wire, newest, origin, ended, named, mislaid, commands, crashes>>
  BY Facts DEF LockCall, sessionVars, serverVars, counters
<1>2. PICK x \in Steps :
        /\ pc' = [pc EXCEPT ![p] = x]
        /\ pc[p] \in {"try", "move", "inspect", "restore", "drop", "clean", "leave", "unlink"}
        /\ pc[p] \in {"leave", "unlink"} => x \in {"unlink", "out"}
        /\ pc[p] \notin {"leave", "unlink"} => x \notin {"leave", "unlink"}
  BY <1>1, LockStepMoves DEF LockCall
<1>3. Typed' /\ ServersGrow
  BY <1>1 DEF Typed, ServersGrow
<1>4. Others(p)
  BY <1>1, <1>2 DEF Others, Typed
<1>5. PlacedAt(p)'
  BY <1>1, <1>2 DEF Local, PlacedAt, Typed, Points
<1>6. Local(p)'
  BY <1>1, <1>5 DEF Local, Carries, Known, SentWell
<1> QED BY <1>1, <1>3, <1>4, <1>6 DEF Stepped

LEMMA UnlockedStepped ==
  ASSUME SessionInv, NEW p \in Process, Unlocked(p)
  PROVE  Stepped(p)
<1>1. Typed /\ pc \in [Process -> Steps] /\ Known(file) /\ Local(p)
  BY Facts
<1>2. Typed'
  BY <1>1, SessionAssumption DEF Unlocked, At, Ends, Reaches, Typed, Points, lockVars, serverVars, counters
<1>3. Others(p) /\ ServersGrow
  BY <1>1 DEF Unlocked, At, Ends, Reaches, Typed, Others, ServersGrow, lockVars, serverVars, counters
<1>4. Local(p)'
  BY <1>1 DEF Unlocked, At, Ends, Reaches, Typed, Local, PlacedAt, Carries, Known, SentWell, lockVars, serverVars, counters
<1>5. Known(file)' \/ file' = file
  BY <1>1 DEF Unlocked, At, Ends, Reaches, Local, Known, serverVars, Typed
<1> QED BY <1>2, <1>3, <1>4, <1>5 DEF Stepped

LEMMA RereadStepped ==
  ASSUME SessionInv, NEW p \in Process, Reread(p)
  PROVE  Stepped(p)
<1>1. Typed /\ pc \in [Process -> Steps] /\ Known(file) /\ Local(p)
  BY Facts
<1>2. Typed'
  BY <1>1, SessionAssumption DEF Reread, SecondRead, At, Goes, Reaches, Returns, Typed, Points, lockVars, serverVars, counters
<1>3. Others(p) /\ ServersGrow
  BY <1>1 DEF Reread, SecondRead, At, Goes, Reaches, Returns, Typed, Others, ServersGrow, lockVars, serverVars, counters
<1>4. Local(p)'
  BY <1>1 DEF Reread, SecondRead, At, Goes, Reaches, Returns, Typed, Local, PlacedAt, Carries, Known, SentWell, lockVars, serverVars, counters
<1>5. Known(file)' \/ file' = file
  BY <1>1 DEF Reread, SecondRead, At, Goes, Reaches, Returns, Local, Known, serverVars, Typed
<1> QED BY <1>2, <1>3, <1>4, <1>5 DEF Stepped

LEMMA DiscoverStepped ==
  ASSUME SessionInv, NEW p \in Process, Discover(p)
  PROVE  Stepped(p)
<1>1. Typed /\ pc \in [Process -> Steps] /\ Known(file) /\ Local(p)
  BY Facts
<1>2. Typed'
  BY <1>1, SessionAssumption DEF Discover, Named, Goes, Reaches, Returns, Typed, Points, lockVars, serverVars, counters
<1>3. Others(p) /\ ServersGrow
  BY <1>1 DEF Discover, Named, Goes, Reaches, Returns, Typed, Others, ServersGrow, lockVars, serverVars, counters
<1>4. Local(p)'
  BY <1>1 DEF Discover, Named, Goes, Reaches, Returns, Typed, Local, PlacedAt, Carries, Known, SentWell, lockVars, serverVars, counters
<1>5. Known(file)' \/ file' = file
  BY <1>1 DEF Discover, Named, Goes, Reaches, Returns, Local, Known, serverVars, Typed
<1> QED BY <1>2, <1>3, <1>4, <1>5 DEF Stepped

LEMMA SaveStepped ==
  ASSUME SessionInv, NEW p \in Process, Save(p)
  PROVE  Stepped(p)
<1>1. Typed /\ pc \in [Process -> Steps] /\ Known(file) /\ Local(p)
  BY Facts
<1>2. Typed'
  <2>1. have[p] \in Token /\ have[p] # NoToken
    BY <1>1 DEF Save, Typed, Local, Carries
  <2> QED BY <1>1, <2>1 DEF Save, Reaches, Returns, Typed, Points, serverVars, counters
<1>3. Others(p) /\ ServersGrow
  BY <1>1 DEF Save, Goes, Reaches, Returns, Typed, Others, ServersGrow, lockVars, serverVars, counters
<1>4. Local(p)'
  BY <1>1 DEF Save, Goes, Reaches, Returns, Typed, Local, PlacedAt, Carries, Known, SentWell, lockVars, serverVars, counters
<1>5. Known(file)' \/ file' = file
  BY <1>1 DEF Save, Goes, Reaches, Returns, Local, Known, serverVars, Typed
<1> QED BY <1>2, <1>3, <1>4, <1>5 DEF Stepped

LEMMA ForgetStepped ==
  ASSUME SessionInv, NEW p \in Process, Forget(p)
  PROVE  Stepped(p)
<1>1. Typed /\ pc \in [Process -> Steps] /\ Known(file) /\ Local(p)
  BY Facts
<1>2. Typed'
  BY <1>1, SessionAssumption DEF Forget, SessionDeleted, Goes, Reaches, Returns, Typed, Points, lockVars, serverVars, counters
<1>3. Others(p) /\ ServersGrow
  BY <1>1 DEF Forget, SessionDeleted, Goes, Reaches, Returns, Typed, Others, ServersGrow, lockVars, serverVars, counters
<1>4. Local(p)'
  BY <1>1 DEF Forget, SessionDeleted, Goes, Reaches, Returns, Typed, Local, PlacedAt, Carries, Known, SentWell, lockVars, serverVars, counters
<1>5. Known(file)' \/ file' = file
  BY <1>1 DEF Forget, SessionDeleted, Goes, Reaches, Returns, Local, Known, serverVars, Typed
<1> QED BY <1>2, <1>3, <1>4, <1>5 DEF Stepped

LEMMA RefreshedStepped ==
  ASSUME SessionInv, NEW p \in Process, Refreshed(p)
  PROVE  Stepped(p)
<1>1. Typed /\ pc \in [Process -> Steps] /\ Known(file) /\ Local(p)
  BY Facts
<1>2. Typed'
  BY <1>1, SessionAssumption DEF Refreshed, At, Ends, Reaches, Typed, Points, lockVars, serverVars, counters
<1>3. Others(p) /\ ServersGrow
  BY <1>1 DEF Refreshed, At, Ends, Reaches, Typed, Others, ServersGrow, lockVars, serverVars, counters
<1>4. Local(p)'
  BY <1>1 DEF Refreshed, At, Ends, Reaches, Typed, Local, PlacedAt, Carries, Known, SentWell, lockVars, serverVars, counters
<1>5. Known(file)' \/ file' = file
  BY <1>1 DEF Refreshed, At, Ends, Reaches, Local, Known, serverVars, Typed
<1> QED BY <1>2, <1>3, <1>4, <1>5 DEF Stepped

LEMMA StartDeviceStepped ==
  ASSUME SessionInv, NEW p \in Process, StartDevice(p)
  PROVE  Stepped(p)
<1>1. Typed /\ pc \in [Process -> Steps] /\ Known(file) /\ Local(p)
  BY Facts
<1>2. Typed'
  BY <1>1, SessionAssumption DEF StartDevice, Named, Ends, Reaches, Typed, Points, lockVars, serverVars, counters
<1>3. Others(p) /\ ServersGrow
  BY <1>1 DEF StartDevice, Named, Ends, Reaches, Typed, Others, ServersGrow, lockVars, serverVars, counters
<1>4. Local(p)'
  BY <1>1 DEF StartDevice, Named, Ends, Reaches, Typed, Local, PlacedAt, Carries, Known, SentWell, lockVars, serverVars, counters
<1>5. Known(file)' \/ file' = file
  BY <1>1 DEF StartDevice, Named, Ends, Reaches, Local, Known, serverVars, Typed
<1> QED BY <1>2, <1>3, <1>4, <1>5 DEF Stepped

LEMMA StoreStepped ==
  ASSUME SessionInv, NEW p \in Process, Store(p)
  PROVE  Stepped(p)
<1>1. Typed /\ pc \in [Process -> Steps] /\ Known(file) /\ Local(p)
  BY Facts
<1>2. Typed'
  <2>1. have[p] \in Token /\ have[p] # NoToken
    BY <1>1 DEF Store, Typed, Local, Carries
  <2> QED BY <1>1, <2>1 DEF Store, Ends, Reaches, Typed, Points, serverVars, counters
<1>3. Others(p) /\ ServersGrow
  BY <1>1 DEF Store, Ends, Reaches, Typed, Others, ServersGrow, lockVars, serverVars, counters
<1>4. Local(p)'
  BY <1>1 DEF Store, Ends, Reaches, Typed, Local, PlacedAt, Carries, Known, SentWell, lockVars, serverVars, counters
<1>5. Known(file)' \/ file' = file
  BY <1>1 DEF Store, Ends, Reaches, Local, Known, serverVars, Typed
<1> QED BY <1>2, <1>3, <1>4, <1>5 DEF Stepped

LEMMA RevokeStepped ==
  ASSUME SessionInv, NEW p \in Process, Revoke(p)
  PROVE  Stepped(p)
<1>1. Typed /\ pc \in [Process -> Steps] /\ Known(file) /\ Local(p)
  BY Facts
<1>2. Typed'
  <2>1. have[p] \in Token
    BY <1>1 DEF Revoke, Typed, Local, Carries
  <2>2. have[p][1] \in Chain
    BY <2>1, TokenParts
  <2> QED BY <1>1, <2>2 DEF Revoke, Reaches, Typed, Points, counters
<1>3. Others(p) /\ ServersGrow
  BY <1>1 DEF Revoke, Named, Reaches, Typed, Others, ServersGrow, lockVars, serverVars, counters
<1>4. Local(p)'
  BY <1>1 DEF Revoke, Named, Reaches, Typed, Local, PlacedAt, Carries, Known, SentWell, lockVars, serverVars, counters
<1>5. Known(file)' \/ file' = file
  BY <1>1 DEF Revoke, Named, Reaches, Local, Known, serverVars, Typed
<1> QED BY <1>2, <1>3, <1>4, <1>5 DEF Stepped

LEMMA RemoveStepped ==
  ASSUME SessionInv, NEW p \in Process, Remove(p)
  PROVE  Stepped(p)
<1>1. Typed /\ pc \in [Process -> Steps] /\ Known(file) /\ Local(p)
  BY Facts
<1>2. Typed'
  BY <1>1, SessionAssumption DEF Remove, SessionDeleted, Ends, Reaches, Typed, Points, lockVars, serverVars, counters
<1>3. Others(p) /\ ServersGrow
  BY <1>1 DEF Remove, SessionDeleted, Ends, Reaches, Typed, Others, ServersGrow, lockVars, serverVars, counters
<1>4. Local(p)'
  BY <1>1 DEF Remove, SessionDeleted, Ends, Reaches, Typed, Local, PlacedAt, Carries, Known, SentWell, lockVars, serverVars, counters
<1>5. Known(file)' \/ file' = file
  BY <1>1 DEF Remove, SessionDeleted, Ends, Reaches, Local, Known, serverVars, Typed
<1> QED BY <1>2, <1>3, <1>4, <1>5 DEF Stepped

LEMMA UseStepped ==
  ASSUME SessionInv, NEW p \in Process, Use(p)
  PROVE  Stepped(p)
<1>1. Typed /\ pc \in [Process -> Steps] /\ Known(file) /\ Local(p)
  BY Facts
<1>2. Typed'
  <2>1. file \in Token
    BY <1>1 DEF Use, Typed
  <2>2. origin[file[1]] \in Issuer \cup {NoIssuer}
    BY <1>1, <2>1, TokenParts DEF Typed
  <2> QED BY <1>1, <2>2, SessionAssumption DEF Use, Begins, Reaches, Typed, Points, serverVars
<1>3. Others(p) /\ ServersGrow
  BY <1>1 DEF Use, Begins, Goes, Reaches, Typed, Others, ServersGrow, lockVars, serverVars, counters
<1>4. Local(p)'
  BY <1>1 DEF Use, Begins, Goes, Reaches, Typed, Local, PlacedAt, Carries, Known, SentWell, lockVars, serverVars, counters
<1>5. Known(file)' \/ file' = file
  BY <1>1 DEF Use, Begins, Goes, Reaches, Local, Known, serverVars, Typed
<1> QED BY <1>2, <1>3, <1>4, <1>5 DEF Stepped

LEMMA TimesOutStepped ==
  ASSUME SessionInv, NEW p \in Process, TimesOut(p)
  PROVE  Stepped(p)
<1>1. Typed /\ pc \in [Process -> Steps] /\ Known(file) /\ Local(p)
  BY Facts
<1>2. Typed'
  BY <1>1, SessionAssumption DEF TimesOut, GiveUp, At, Goes, sessionVars, Typed, Points, lockVars, serverVars, counters
<1>3. Others(p) /\ ServersGrow
  BY <1>1 DEF TimesOut, GiveUp, At, Goes, sessionVars, Typed, Others, ServersGrow, lockVars, serverVars, counters
<1>4. Local(p)'
  BY <1>1 DEF TimesOut, GiveUp, At, Goes, sessionVars, Typed, Local, PlacedAt, Carries, Known, SentWell, lockVars, serverVars, counters
<1>5. Known(file)' \/ file' = file
  BY <1>1 DEF TimesOut, GiveUp, At, Goes, sessionVars, Local, Known, serverVars, Typed
<1> QED BY <1>2, <1>3, <1>4, <1>5 DEF Stepped

LEMMA RequestFailsStepped ==
  ASSUME SessionInv, NEW p \in Process, RequestFails(p)
  PROVE  Stepped(p)
<1>1. Typed /\ pc \in [Process -> Steps] /\ Known(file) /\ Local(p)
  BY Facts
<1>2. Typed'
  <2>1. at[p] = "asked" => have[p] \in Token
    BY <1>1 DEF Typed, Local, Carries
  <2>2. mislaid' \subseteq Token
    BY <1>1, <2>1 DEF RequestFails, Typed
  <2> QED BY <1>1, <2>2 DEF RequestFails, Reaches, Returns, Typed, Points, serverVars
<1>3. Others(p) /\ ServersGrow
  BY <1>1 DEF RequestFails, Goes, Reaches, Returns, Typed, Others, ServersGrow, lockVars, serverVars, counters
<1>4. Local(p)'
  BY <1>1 DEF RequestFails, Goes, Reaches, Returns, Typed, Local, PlacedAt, Carries, Known, SentWell, lockVars, serverVars, counters
<1>5. Known(file)' \/ file' = file
  BY <1>1 DEF RequestFails, Goes, Reaches, Returns, Local, Known, serverVars, Typed
<1> QED BY <1>2, <1>3, <1>4, <1>5 DEF Stepped

LEMMA LoginStepped ==
  ASSUME SessionInv, NEW p \in Process, Login(p)
  PROVE  Stepped(p)
<1>1. Typed /\ pc \in [Process -> Steps] /\ Known(file) /\ Local(p)
  BY Facts
<1>2. Typed'
  BY <1>1, SessionAssumption DEF Login, Begins, Reaches, Typed, Points, lockVars, serverVars, counters
<1>3. Others(p) /\ ServersGrow
  BY <1>1 DEF Login, Begins, Reaches, Typed, Others, ServersGrow, lockVars, serverVars, counters
<1>4. Local(p)'
  BY <1>1 DEF Login, Begins, Reaches, Typed, Local, PlacedAt, Carries, Known, SentWell, lockVars, serverVars, counters
<1>5. Known(file)' \/ file' = file
  BY <1>1 DEF Login, Begins, Reaches, Local, Known, serverVars, Typed
<1> QED BY <1>2, <1>3, <1>4, <1>5 DEF Stepped

LEMMA NotApprovedStepped ==
  ASSUME SessionInv, NEW p \in Process, NotApproved(p)
  PROVE  Stepped(p)
<1>1. Typed /\ pc \in [Process -> Steps] /\ Known(file) /\ Local(p)
  BY Facts
<1>2. Typed'
  BY <1>1, SessionAssumption DEF NotApproved, Ends, Reaches, Typed, Points, lockVars, serverVars, counters
<1>3. Others(p) /\ ServersGrow
  BY <1>1 DEF NotApproved, Ends, Reaches, Typed, Others, ServersGrow, lockVars, serverVars, counters
<1>4. Local(p)'
  BY <1>1 DEF NotApproved, Ends, Reaches, Typed, Local, PlacedAt, Carries, Known, SentWell, lockVars, serverVars, counters
<1>5. Known(file)' \/ file' = file
  BY <1>1 DEF NotApproved, Ends, Reaches, Local, Known, serverVars, Typed
<1> QED BY <1>2, <1>3, <1>4, <1>5 DEF Stepped

LEMMA LogoutStepped ==
  ASSUME SessionInv, NEW p \in Process, Logout(p)
  PROVE  Stepped(p)
<1>1. Typed /\ pc \in [Process -> Steps] /\ Known(file) /\ Local(p)
  BY Facts
<1>2. Typed'
  BY <1>1, SessionAssumption DEF Logout, Begins, Reaches, Typed, Points, lockVars, serverVars, counters
<1>3. Others(p) /\ ServersGrow
  BY <1>1 DEF Logout, Begins, Reaches, Typed, Others, ServersGrow, lockVars, serverVars, counters
<1>4. Local(p)'
  BY <1>1 DEF Logout, Begins, Reaches, Typed, Local, PlacedAt, Carries, Known, SentWell, lockVars, serverVars, counters
<1>5. Known(file)' \/ file' = file
  BY <1>1 DEF Logout, Begins, Reaches, Local, Known, serverVars, Typed
<1> QED BY <1>2, <1>3, <1>4, <1>5 DEF Stepped

LEMMA CrashStepped ==
  ASSUME SessionInv, NEW p \in Process, Crash(p)
  PROVE  Stepped(p)
<1>1. Typed /\ pc \in [Process -> Steps] /\ Known(file) /\ Local(p)
  BY Facts
<1>2. Typed'
  <2>1. at[p] \in {"asked", "save"} => have[p] \in Token
    BY <1>1 DEF Typed, Local, Carries
  <2>2. at[p] = "save" => <<have[p][1], have[p][2] - 1>> \in Token
    <3>1. SUFFICES ASSUME at[p] = "save" PROVE <<have[p][1], have[p][2] - 1>> \in Token
      OBVIOUS
    <3>2. have[p][1] \in Chain /\ have[p][2] \in 1..MaxRefresh /\ have[p][2] > 1
      BY <1>1, <2>1, <3>1, TokenParts DEF Local, Carries
    <3> QED BY <3>2, SessionAssumption DEF Token
  <2>3. mislaid' \subseteq Token
    BY <1>1, <2>1, <2>2 DEF Crash, Typed
  <2> QED BY <1>1, <2>3, SessionAssumption DEF Crash, Ends, Reaches, Typed, Points, serverVars
<1>3. Others(p) /\ ServersGrow
  BY <1>1 DEF Crash, LockCrash, Goes, Ends, Reaches, Typed, Others, ServersGrow, lockVars, serverVars, counters
<1>4. Local(p)'
  BY <1>1 DEF Crash, LockCrash, Goes, Ends, Reaches, Typed, Local, PlacedAt, Carries, Known, SentWell, lockVars, serverVars, counters
<1>5. Known(file)' \/ file' = file
  BY <1>1 DEF Crash, LockCrash, Goes, Ends, Reaches, Local, Known, serverVars, Typed
<1> QED BY <1>2, <1>3, <1>4, <1>5 DEF Stepped

LEMMA ApprovedStepped ==
  ASSUME SessionInv, NEW p \in Process, Approved(p)
  PROVE  Stepped(p)
<1>1. Typed /\ pc \in [Process -> Steps] /\ Known(file) /\ Local(p)
  BY Facts
<1>2. PICK c \in Chain :
        /\ newest[c] = 0
        /\ newest' = [newest EXCEPT ![c] = 1]
        /\ origin' = [origin EXCEPT ![c] = to[p]]
        /\ have' = [have EXCEPT ![p] = <<c, 1>>]
  BY DEF Approved
<1>3. /\ at[p] = "poll" /\ at' = [at EXCEPT ![p] = "store"]
      /\ UNCHANGED <<pc, file, fresh, pin, to, wire, ended, named, mislaid, commands, crashes>>
  BY DEF Approved, Reaches, lockVars, counters
<1>4. <<c, 1>> \in Token /\ <<c, 1>> # NoToken
  BY SessionAssumption DEF Token
<1>5. Typed'
  BY <1>1, <1>2, <1>3, <1>4, SessionAssumption DEF Typed, Points
<1>6. Others(p) /\ ServersGrow
  BY <1>1, <1>2, <1>3 DEF Typed, Others, ServersGrow
<1>7. Known(wire[p])'
  <2>1. wire[p] \in Token \cup {NoToken} /\ Known(wire[p])
    BY <1>1 DEF Typed, Local
  <2> QED BY <1>1, <1>3, <1>5, <1>6, <2>1, KnownStays DEF Known
<1>8. Known(have[p])' /\ PlacedAt(p)' /\ Carries(p)' /\ SentWell(p)'
  BY <1>1, <1>2, <1>3, <1>4 DEF Typed, Local, PlacedAt, Carries, Known, SentWell
<1> QED BY <1>3, <1>5, <1>6, <1>7, <1>8 DEF Stepped, Local

\* The server rotates the token of p's request.
LEMMA Rotating ==
  ASSUME SessionInv, NEW p \in Process, wire[p] # NoToken, Live(wire[p])
  PROVE  wire[p] \in Token /\ wire[p][1] \in Chain /\ newest[wire[p][1]] = wire[p][2] /\ wire[p][2] \in 1..MaxRefresh
<1>1. wire[p] \in Token
  BY Facts DEF Typed
<1> QED BY <1>1, TokenParts DEF Live

LEMMA AnswerStepped ==
  ASSUME SessionInv, NEW p \in Process, Answer(p)
  PROVE  Stepped(p)
<1> DEFINE t == wire[p]
<1>1. Typed /\ pc \in [Process -> Steps] /\ Known(file) /\ Local(p)
  BY Facts
<1>2. t # NoToken /\ t \in Token /\ t[1] \in Chain /\ t[2] \in 1..MaxRefresh
  BY <1>1, TokenParts DEF Answer, Typed
<1> HIDE DEF t
<1>3. /\ wire' = [wire EXCEPT ![p] = NoToken]
      /\ UNCHANGED <<pc, file, fresh, pin, to, origin, named, mislaid, commands, crashes>>
  BY DEF Answer, lockVars, counters
<1>4. CASE /\ Live(t) /\ t[2] < MaxRefresh
           /\ newest' = [newest EXCEPT ![t[1]] = @ + 1]
           /\ UNCHANGED ended
           /\ IF at[p] = "asked" THEN Reaches(p, "save") /\ have' = [have EXCEPT ![p] = <<@[1], @[2] + 1>>]
              ELSE UNCHANGED <<at, have>>
  <2>1. newest[t[1]] = t[2] /\ t[2] + 1 \in 1..MaxRefresh
    BY <1>2, <1>4, SessionAssumption DEF Live
  <2>2. newest' \in [Chain -> 0..MaxRefresh] /\ newest'[t[1]] = t[2] + 1 /\ ServersGrow
    BY <1>1, <1>2, <1>3, <1>4, <2>1, SessionAssumption DEF Typed, ServersGrow
  <2>3. CASE at[p] = "asked"
    <3>1. have[p] = t
      BY <1>1, <2>3 DEF Local, Carries, t
    <3>2. at' = [at EXCEPT ![p] = "save"] /\ have' = [have EXCEPT ![p] = <<t[1], t[2] + 1>>]
      BY <1>4, <2>3, <3>1 DEF Reaches
    <3>3. <<t[1], t[2] + 1>> \in Token /\ <<t[1], t[2] + 1>> # NoToken
      BY <1>2, <2>1, SessionAssumption DEF Token
    <3>4. Typed'
      BY <1>1, <1>3, <1>4, <2>2, <3>2, <3>3 DEF Typed, Points
    <3>5. Others(p)
      BY <1>1, <1>3, <3>2 DEF Typed, Others
    <3>6. have'[p] = <<t[1], t[2] + 1>> /\ at'[p] = "save" /\ wire'[p] = NoToken
      BY <1>1, <1>3, <3>2 DEF Typed
    <3>7. PlacedAt(p)' /\ Known(wire[p])' /\ Known(have[p])'
      <4>1. PlacedAt(p)'
        BY <1>1, <1>3, <2>3, <3>6 DEF Local, PlacedAt
      <4>2. Known(wire[p])'
        BY <3>6 DEF Known
      <4>3. have'[p][2] = t[2] + 1 /\ have'[p][1] = t[1]
        BY <3>6
      <4>4. have'[p][2] <= newest'[have'[p][1]]
        BY <1>2, <2>2, <4>3
      <4>5. Known(have[p])'
        BY <4>4 DEF Known
      <4> QED BY <4>1, <4>2, <4>5
    <3>8. Carries(p)'
      BY <1>2, <3>3, <3>6 DEF Carries
    <3>9. SentWell(p)'
      BY <1>1, <1>3, <2>3, <3>1, <3>6 DEF Local, SentWell
    <3> QED BY <1>3, <2>2, <3>4, <3>5, <3>7, <3>8, <3>9 DEF Stepped, Local
  <2>4. CASE at[p] # "asked"
    <3>1. UNCHANGED <<at, have>>
      BY <1>4, <2>4
    <3>2. Typed'
      BY <1>1, <1>3, <1>4, <2>2, <3>1 DEF Typed
    <3>3. Others(p)
      BY <1>1, <1>3, <3>1 DEF Typed, Others
    <3>4. Known(have[p])'
      <4>1. have[p] \in Token \cup {NoToken} /\ Known(have[p])
        BY <1>1 DEF Typed, Local
      <4> QED BY <1>1, <2>2, <3>1, <3>2, <4>1, KnownStays DEF Known
    <3>5. PlacedAt(p)' /\ Carries(p)' /\ Known(wire[p])' /\ SentWell(p)'
      BY <1>1, <1>3, <2>4, <3>1 DEF Local, PlacedAt, Carries, Known, SentWell, Typed
    <3> QED BY <1>3, <2>2, <3>2, <3>3, <3>4, <3>5 DEF Stepped, Local
  <2> QED BY <2>3, <2>4
<1>5. CASE /\ ~Live(t)
           /\ ended' = ended \cup IF Spent(t) THEN {c \in Chain : origin[c] = origin[t[1]]} ELSE {}
           /\ IF at[p] = "asked" THEN Reaches(p, "refused") ELSE UNCHANGED at
           /\ UNCHANGED <<newest, have>>
  <2>1. Typed'
    BY <1>1, <1>3, <1>5 DEF Typed, Points, Reaches
  <2>2. Others(p) /\ ServersGrow
    BY <1>1, <1>3, <1>5 DEF Typed, Others, ServersGrow, Reaches
  <2>3. Local(p)'
    BY <1>1, <1>3, <1>5 DEF Typed, Local, PlacedAt, Carries, Known, SentWell, Reaches
  <2> QED BY <1>3, <2>1, <2>2, <2>3 DEF Stepped
<1> QED BY <1>4, <1>5 DEF Answer, t

\* The session file, the processes and the servers' tokens are as they were.
LEMMA WorldStepped ==
  ASSUME SessionInv, UNCHANGED pc,
         \/ \E c \in Chain : ChainEnds(c)
         \/ \E i \in Issuer : RelayNames(i)
         \/ \E f \in File : LockGrowsOld(f)
         \/ AccessTokenExpires
         \/ UNCHANGED vars
  PROVE  Typed' /\ Known(file)' /\ \A p \in Process : Local(p)'
<1>1. Typed /\ Known(file) /\ \A p \in Process : Local(p)
  BY Facts
<1>2. UNCHANGED <<file, at, have, pin, to, wire, newest, origin, mislaid, commands, crashes>>
  BY DEF ChainEnds, RelayNames, LockGrowsOld, AccessTokenExpires, vars, sessionVars, serverVars, counters
<1>3. fresh' \in BOOLEAN /\ (fresh' => fresh) /\ ended' \subseteq Chain /\ named' \in Issuer
  <2>1. ASSUME NEW c \in Chain, ChainEnds(c)
        PROVE  ended' = ended \cup {c} /\ UNCHANGED <<fresh, named>>
    BY <2>1 DEF ChainEnds, sessionVars
  <2>2. ASSUME NEW i \in Issuer, RelayNames(i)
        PROVE  named' \in Issuer /\ UNCHANGED <<fresh, ended>>
    BY <2>2 DEF RelayNames, sessionVars
  <2>3. ASSUME NEW f \in File, LockGrowsOld(f)
        PROVE  UNCHANGED <<fresh, ended, named>>
    BY <2>3 DEF LockGrowsOld, sessionVars, serverVars
  <2>4. AccessTokenExpires => fresh' = FALSE /\ UNCHANGED <<ended, named>>
    BY DEF AccessTokenExpires, serverVars
  <2>5. UNCHANGED vars => UNCHANGED <<fresh, ended, named>>
    BY DEF vars, sessionVars, serverVars
  <2>6. fresh \in BOOLEAN /\ ended \subseteq Chain /\ named \in Issuer
    BY <1>1 DEF Typed
  <2>7. fresh' \in BOOLEAN /\ (fresh' => fresh)
    <3>1. fresh' = fresh \/ fresh' = FALSE
      BY <2>1, <2>2, <2>3, <2>4, <2>5
    <3>2. CASE fresh' = FALSE
      BY <3>2
    <3>3. CASE fresh' = fresh
      BY <2>6, <3>3
    <3> QED BY <3>1, <3>2, <3>3
  <2>8. ended' \subseteq Chain
    BY <2>1, <2>2, <2>3, <2>4, <2>5, <2>6
  <2>9. named' \in Issuer
    BY <2>1, <2>2, <2>3, <2>4, <2>5, <2>6
  <2> QED BY <2>7, <2>8, <2>9
<1>4. Typed'
  BY <1>1, <1>2, <1>3 DEF Typed
<1>5. Known(file)'
  BY <1>1, <1>2 DEF Known
<1>6. \A p \in Process : Local(p)'
  BY <1>1, <1>2 DEF Local, PlacedAt, Carries, Known, SentWell
<1> QED BY <1>4, <1>5, <1>6

-----------------------------------------------------------------------------
(* The session: the invariant holds *)

Acts(p) ==
  \/ Works(p) \/ Use(p) \/ TimesOut(p) \/ RequestFails(p) \/ Login(p) \/ Approved(p)
  \/ NotApproved(p) \/ Logout(p) \/ Answer(p) \/ Crash(p)

LEMMA ActsStepped ==
  ASSUME SessionInv, NEW p \in Process, Acts(p)
  PROVE  Stepped(p)
BY LockCallStepped, UnlockedStepped, RereadStepped, DiscoverStepped, SaveStepped, ForgetStepped, RefreshedStepped,
   StartDeviceStepped, StoreStepped, RevokeStepped, RemoveStepped, UseStepped, TimesOutStepped,
   RequestFailsStepped, LoginStepped, ApprovedStepped, NotApprovedStepped, LogoutStepped, AnswerStepped,
   CrashStepped DEF Acts, Works

\* A command does with the lock what withLockFile does, or nothing.
LEMMA ActsOnLock ==
  ASSUME SessionInv, NEW p \in Process, Acts(p)
  PROVE  LockAction(p) \/ UNCHANGED lockVars
<1>1. PlacedAt(p)
  BY Facts DEF Local
<1>2. LockCall(p) \/ Crash(p) => LockAction(p)
  BY DEF LockCall, Crash, LockAction
<1>3. TimesOut(p) => LockAction(p)
  BY DEF TimesOut, GiveUp, LockAction, PlainStep
<1>4. Use(p) => LockAction(p)
  BY <1>1 DEF PlacedAt, Use, Begins, LockAction, PlainStep, At
<1>5. \A x : Returns(p, x) /\ pc[p] = "held" => LockAction(p)
  BY DEF Returns, LockAction, PlainStep, At
<1>6. Reread(p) => LockAction(p) \/ UNCHANGED lockVars
  BY <1>5 DEF Reread, At
<1>7. Discover(p) => LockAction(p) \/ UNCHANGED lockVars
  BY <1>1, <1>5 DEF Discover, PlacedAt
<1>8. Save(p) \/ Forget(p) \/ RequestFails(p) => LockAction(p)
  BY <1>1, <1>5 DEF Save, Forget, RequestFails, PlacedAt
<1>9. Unlocked(p) \/ Refreshed(p) \/ StartDevice(p) \/ Store(p) \/ Revoke(p) \/ Remove(p) \/ Login(p) \/ Approved(p)
        \/ NotApproved(p) \/ Logout(p) \/ Answer(p) => UNCHANGED lockVars
  BY DEF Unlocked, Refreshed, StartDevice, Store, Revoke, Remove, Login, Approved, NotApproved, Logout, Answer
<1> QED BY <1>2, <1>3, <1>4, <1>6, <1>7, <1>8, <1>9 DEF Acts, Works

World ==
  \/ \E c \in Chain : ChainEnds(c)
  \/ \E i \in Issuer : RelayNames(i)
  \/ \E f \in File : LockGrowsOld(f)
  \/ AccessTokenExpires
  \/ UNCHANGED vars

LEMMA WorldOnLock ==
  ASSUME World
  PROVE  UNCHANGED lockVars \/ \E f \in File : Age(f)
BY DEF World, ChainEnds, RelayNames, LockGrowsOld, AccessTokenExpires, vars

LEMMA NextSplits ==
  ASSUME [Next]_vars
  PROVE  (\E p \in Process : Acts(p)) \/ World
BY DEF Next, Acts, World

LEMMA SessionNext ==
  ASSUME SessionInv, [Next]_vars
  PROVE  SessionInv'
<1>1. LockTypeOK /\ Files
  BY DEF SessionInv
<1>2. ASSUME NEW p \in Process, Acts(p)
      PROVE  SessionInv'
  <2>1. LockTypeOK' /\ Files'
    BY <1>1, <1>2, ActsOnLock, LockActionTypes, LockQuietTypes
  <2> QED BY <1>2, <2>1, ActsStepped, SteppedInv
<1>3. CASE World
  <2>1. LockTypeOK' /\ Files' /\ UNCHANGED pc
    BY <1>1, <1>3, WorldOnLock, LockQuietTypes
  <2>2. Typed' /\ Known(file)' /\ \A p \in Process : Local(p)'
    BY <1>3, <2>1, WorldStepped DEF World
  <2> QED BY <2>1, <2>2 DEF SessionInv
<1> QED BY <1>2, <1>3, NextSplits

LEMMA SessionInit == Init => SessionInv /\ LockInv
<1> SUFFICES ASSUME Init PROVE SessionInv /\ LockInv
  OBVIOUS
<1>1. LockInit /\ LockInv
  BY LockInitInv DEF Init
<1>2. LockTypeOK /\ Files /\ \A p \in Process : pc[p] = "out"
  BY <1>1 DEF LockInv, LockInit
<1>3. named \in Issuer
  BY SessionAssumption DEF Init
<1>4. PICK c \in Chain :
        /\ file = <<c, 1>> /\ newest = [d \in Chain |-> IF d = c THEN 1 ELSE 0]
        /\ origin = [d \in Chain |-> IF d = c THEN named ELSE NoIssuer]
  BY SessionAssumption DEF Init
<1>5. /\ fresh = FALSE /\ ended = {} /\ mislaid = {} /\ commands = 0 /\ crashes = 0
      /\ at = [p \in Process |-> "idle"] /\ have = [p \in Process |-> NoToken]
      /\ pin = [p \in Process |-> NoIssuer] /\ to = [p \in Process |-> NoIssuer]
      /\ wire = [p \in Process |-> NoToken]
  BY DEF Init
<1>6. file \in Token
  BY <1>4, SessionAssumption DEF Token
<1>7. Typed
  <2>1. newest \in [Chain -> 0..MaxRefresh] /\ origin \in [Chain -> Issuer \cup {NoIssuer}]
    <3>1. 0 \in 0..MaxRefresh /\ 1 \in 0..MaxRefresh
      BY SessionAssumption
    <3> QED BY <1>3, <1>4, <3>1
  <2>2. commands \in 0..MaxCommands /\ crashes \in 0..MaxCrashes
    BY <1>5, SessionAssumption
  <2> QED BY <1>3, <1>5, <1>6, <2>1, <2>2 DEF Typed, Points
<1>8. Known(file)
  BY <1>4 DEF Known
<1>9. \A p \in Process : Local(p)
  BY <1>2, <1>5 DEF Local, PlacedAt, Carries, Known, SentWell
<1> QED BY <1>1, <1>2, <1>7, <1>8, <1>9 DEF SessionInv

LEMMA SessionAlways == Spec => []SessionInv
<1>1. Init => SessionInv
  BY SessionInit
<1>2. SessionInv /\ [Next]_vars => SessionInv'
  BY SessionNext
<1> QED BY <1>1, <1>2, PTL DEF Spec

\* Every variable of the sign-in has its type, and a process works on the
\* session inside the callback of withLockFile only (session.ts,
\* refreshSession), for any number of processes.
THEOREM TypeCorrect == Spec => []TypeOK
<1>1. SessionInv => TypeOK
  BY DEF SessionInv, Typed, TypeOK, Local, PlacedAt
<1> QED BY <1>1, SessionAlways, PTL

\* A refresh token only goes to the authorization server that issued it,
\* whatever server the relay names by then, for any number of processes,
\* chains and servers (session.ts:130-132).
THEOREM SentToIssuer == Spec => []SentToItsIssuer
<1>1. SessionInv => SentToItsIssuer
  BY DEF SessionInv, Local, SentWell, SentToItsIssuer
<1> QED BY <1>1, SessionAlways, PTL

LEMMA LockNext ==
  ASSUME AtMostTwo, SessionInv, LockInv, [Next]_vars
  PROVE  LockInv' /\ (Lost => Lost')
BY NextSplits, ActsOnLock, WorldOnLock, LockActionInv, LockQuietInv

\* Two processes never hold the lock file together, although either may take
\* the lock of the other for a stale one, move it away and put it back
\* (file-lock.ts, stealStaleLock): for any number of commands, crashes and
\* files, unless a crash between the two steps has lost a lock.
THEOREM OneHolds ==
  ASSUME AtMostTwo
  PROVE  Spec => []OneHolder
<1>1. Init => SessionInv /\ LockInv
  BY SessionInit
<1>2. SessionInv /\ LockInv /\ [Next]_vars => (SessionInv /\ LockInv)'
  BY SessionNext, LockNext
<1>3. SessionInv /\ LockInv => OneHolder
  BY LockInvExcludes
<1> QED BY <1>1, <1>2, <1>3, PTL DEF Spec

-----------------------------------------------------------------------------
(* The session: a token is spent once *)

Using == {"asking", "asked", "save", "store"}

\* Steps of p that spend no token and bring none.
Quiet(p) ==
  /\ newest' = newest /\ file' \in {file, NoToken} /\ mislaid \subseteq mislaid'
  /\ Others(p) /\ wire'[p] \in {wire[p], NoToken}
  /\ at'[p] \notin Using \/ (at'[p] = at[p] /\ have'[p] = have[p])
  /\ at[p] = "save" /\ at'[p] # "save" => <<have[p][1], have[p][2] - 1>> \in mislaid'
  /\ at[p] = "asked" /\ at'[p] # "asked" => have[p] \in mislaid' \/ wire'[p] = NoToken

LEMMA QuietOnce ==
  ASSUME SessionInv, Unattended, NEW p \in Process, Quiet(p)
  PROVE  Unattended' /\ (Once => Once')
<1>1. /\ newest' = newest /\ file' \in {file, NoToken} /\ mislaid \subseteq mislaid'
      /\ wire'[p] \in {wire[p], NoToken}
      /\ at'[p] \notin Using \/ (at'[p] = at[p] /\ have'[p] = have[p])
      /\ \A q \in Process \ {p} : at'[q] = at[q] /\ have'[q] = have[q] /\ wire'[q] = wire[q]
  BY DEF Quiet, Others
<1>2. \A q \in Process :
        /\ at'[q] \in Using => at'[q] = at[q] /\ have'[q] = have[q]
        /\ wire'[q] \in {wire[q], NoToken}
  BY <1>1
<1>3. Unattended'
  <2>1. SUFFICES ASSUME NEW q \in Process, wire'[q] # NoToken, at'[q] # "asked"
                 PROVE  wire'[q] \in mislaid'
    BY DEF Unattended
  <2>2. CASE at[q] # "asked"
    BY <1>1, <1>2, <2>1, <2>2 DEF Unattended
  <2>3. CASE at[q] = "asked"
    <3>1. q = p
      BY <1>1, <2>1, <2>3
    <3>2. wire[q] = have[q]
      BY <2>3, Facts DEF Local, Carries
    <3> QED BY <1>2, <2>1, <2>3, <3>1, <3>2 DEF Quiet
  <2> QED BY <2>2, <2>3
<1>4. ASSUME Once
      PROVE  Successor'
  <2>1. SUFFICES ASSUME file' # NoToken, Spent(file)'
                 PROVE  file' \in mislaid' \/ \E q \in Process : at'[q] = "save" /\ have'[q] = <<file'[1], file'[2] + 1>>
    BY DEF Successor
  <2>2. file' = file /\ Spent(file)
    BY <1>1, <2>1 DEF Spent
  <2>3. CASE file \in mislaid
    BY <1>1, <2>2, <2>3
  <2>4. ASSUME NEW q \in Process, at[q] = "save", have[q] = <<file[1], file[2] + 1>>
        PROVE  file \in mislaid' \/ (at'[q] = "save" /\ have'[q] = have[q])
    <3>1. CASE at'[q] = "save"
      BY <1>2, <3>1 DEF Using
    <3>2. CASE at'[q] # "save"
      <4>1. q = p
        BY <1>1, <2>4, <3>2
      <4>2. <<have[p][1], have[p][2] - 1>> \in mislaid'
        BY <2>4, <3>2, <4>1 DEF Quiet
      <4>3. file \in Token
        BY <2>1, <2>2, Facts DEF Typed
      <4>4. file[2] \in Nat /\ file = <<file[1], file[2]>>
        BY <4>3, TokenParts
      <4>5. have[p][1] = file[1] /\ have[p][2] = file[2] + 1
        BY <2>4, <4>1
      <4>6. <<have[p][1], have[p][2] - 1>> = file
        BY <4>4, <4>5
      <4> QED BY <4>2, <4>6
    <3> QED BY <3>1, <3>2
  <2> QED BY <1>4, <2>1, <2>2, <2>3, <2>4 DEF Once, Successor
<1>5. ASSUME Once
      PROVE  Presented'
  BY <1>1, <1>2, <1>5 DEF Once, Presented, Spent, Using
<1>6. ASSUME Once
      PROVE  Received'
  <2>1. SUFFICES ASSUME NEW q \in Process, at'[q] \in {"save", "store"}
                 PROVE  /\ ~Spent(have[q])' /\ file' # have'[q]
                        /\ \A r \in Process :
                             /\ wire'[r] # have'[q]
                             /\ r # q /\ at'[r] \in Using => have'[r] # have'[q]
    BY DEF Received, Using
  <2>2. at'[q] = at[q] /\ have'[q] = have[q] /\ have[q] # NoToken
    BY <1>2, <2>1, Facts DEF Using, Local, Carries
  <2>3. /\ ~Spent(have[q]) /\ file # have[q]
        /\ \A r \in Process :
             /\ wire[r] # have[q]
             /\ r # q /\ at[r] \in Using => have[r] # have[q]
    BY <1>6, <2>1, <2>2 DEF Once, Received, Using
  <2> QED BY <1>1, <1>2, <2>2, <2>3 DEF Spent
<1> QED BY <1>3, <1>4, <1>5, <1>6 DEF Once

\* The actions that do neither.
LEMMA QuietActs ==
  ASSUME SessionInv, NEW p \in Process,
         \/ LockCall(p) \/ Unlocked(p) \/ (Reread(p) /\ at'[p] # "asking") \/ (Discover(p) /\ at'[p] # "asked")
         \/ Forget(p) \/ Refreshed(p) \/ StartDevice(p) \/ Revoke(p) \/ Remove(p) \/ Use(p) \/ TimesOut(p)
         \/ RequestFails(p) \/ Login(p) \/ NotApproved(p) \/ Logout(p) \/ Crash(p)
  PROVE  Quiet(p)
<1>1. Typed /\ Others(p) /\ Local(p)
  BY Facts, ActsStepped DEF Acts, Works, Stepped
<1>2. /\ at \in [Process -> Points] /\ have \in [Process -> Token \cup {NoToken}]
      /\ wire \in [Process -> Token \cup {NoToken}]
  BY <1>1 DEF Typed
<1>3. LockCall(p) \/ TimesOut(p) => Quiet(p)
  BY <1>1 DEF LockCall, TimesOut, Quiet, sessionVars, serverVars, counters
<1>4. Unlocked(p) \/ Refreshed(p) \/ NotApproved(p) => Quiet(p)
  BY <1>1, <1>2 DEF Unlocked, Refreshed, NotApproved, Ends, Reaches, Quiet, Using, serverVars, counters
<1>5. Reread(p) /\ at'[p] # "asking" => Quiet(p)
  BY <1>1, <1>2 DEF Reread, Returns, Reaches, Quiet, Using, serverVars, counters
<1>6. Discover(p) /\ at'[p] # "asked" => Quiet(p)
  BY <1>1, <1>2 DEF Discover, Returns, Reaches, Quiet, Using, serverVars, counters
<1>7. Forget(p) \/ Remove(p) => Quiet(p)
  BY <1>1, <1>2 DEF Forget, Remove, SessionDeleted, Returns, Ends, Reaches, Quiet, Using, serverVars, counters
<1>8. StartDevice(p) \/ Revoke(p) => Quiet(p)
  BY <1>1, <1>2 DEF StartDevice, Revoke, Ends, Reaches, Quiet, Using, serverVars, counters
<1>9. Use(p) \/ Login(p) \/ Logout(p) => Quiet(p)
  BY <1>1, <1>2 DEF Use, Login, Logout, Begins, Reaches, Quiet, Using, serverVars
<1>10. RequestFails(p) => Quiet(p)
  BY <1>1, <1>2 DEF RequestFails, Returns, Reaches, Quiet, Using, serverVars
<1>11. Crash(p) => Quiet(p)
  BY <1>1, <1>2 DEF Crash, Ends, Reaches, Quiet, Using, serverVars
<1> QED BY <1>3, <1>4, <1>5, <1>6, <1>7, <1>8, <1>9, <1>10, <1>11

\* Two processes do not work on the session together.
OneWorks == \A p, q \in Process : Holding(p) /\ Holding(q) => p = q

\* The session read under the lock, when it is spent, was lost: there is no
\* other process left to write its successor.
LEMMA RereadOnce ==
  ASSUME SessionInv, OneWorks, Unattended, Once, NEW p \in Process, Reread(p), at'[p] = "asking"
  PROVE  Unattended' /\ Once'
<1>1. Typed /\ Local(p) /\ Others(p)
  BY Facts, ActsStepped DEF Acts, Works, Stepped
<1>2. /\ at[p] = "lock" /\ pc[p] = "held" /\ file # NoToken
      /\ have' = [have EXCEPT ![p] = file] /\ at' = [at EXCEPT ![p] = "asking"]
      /\ UNCHANGED <<file, wire, newest, mislaid>>
  BY <1>1 DEF Reread, At, SecondRead, Returns, Reaches, serverVars, counters, Typed
<1>3. have'[p] = file /\ \A q \in Process \ {p} : at'[q] = at[q] /\ have'[q] = have[q]
  BY <1>1, <1>2 DEF Typed
<1>4. Spent(file) => file \in mislaid
  <2>1. SUFFICES ASSUME NEW q \in Process, at[q] = "save" PROVE FALSE
    BY <1>2 DEF Once, Successor
  <2>2. pc[q] = "held"
    BY <2>1, Facts DEF Local, PlacedAt
  <2> QED BY <1>2, <2>1, <2>2 DEF OneWorks, Holding
<1>5. Unattended'
  BY <1>1, <1>2, <1>3 DEF Unattended
<1>6. Successor'
  BY <1>2, <1>3 DEF Once, Successor, Spent
<1>7. Presented'
  BY <1>2, <1>3, <1>4 DEF Once, Presented, Spent
<1>8. Received'
  BY <1>2, <1>3 DEF Once, Received, Spent
<1> QED BY <1>5, <1>6, <1>7, <1>8 DEF Once

LEMMA DiscoverOnce ==
  ASSUME SessionInv, Unattended, Once, NEW p \in Process, Discover(p), at'[p] = "asked"
  PROVE  Unattended' /\ Once'
<1>1. Typed /\ Local(p)
  BY Facts
<1>2. /\ at[p] = "asking" /\ at' = [at EXCEPT ![p] = "asked"] /\ wire' = [wire EXCEPT ![p] = have[p]]
      /\ UNCHANGED <<file, have, newest, mislaid>>
  BY <1>1 DEF Discover, Returns, Reaches, serverVars, counters, Typed
<1>3. /\ at'[p] = "asked" /\ wire'[p] = have[p]
      /\ \A q \in Process \ {p} : at'[q] = at[q] /\ wire'[q] = wire[q]
  BY <1>1, <1>2 DEF Typed
<1>4. Unattended'
  BY <1>2, <1>3 DEF Unattended
<1>5. Successor'
  BY <1>2, <1>3 DEF Once, Successor, Spent
<1>6. Presented'
  BY <1>2, <1>3 DEF Once, Presented, Spent
<1>7. Received'
  BY <1>2, <1>3 DEF Once, Received, Spent
<1> QED BY <1>4, <1>5, <1>6, <1>7 DEF Once

\* The token received is written: it is not spent.
LEMMA WriteOnce ==
  ASSUME SessionInv, Unattended, Once, NEW p \in Process, Save(p) \/ Store(p)
  PROVE  Unattended' /\ Once'
<1>1. Typed /\ Local(p) /\ Others(p)
  BY Facts, ActsStepped DEF Acts, Works, Stepped
<1>2. /\ at[p] \in {"save", "store"} /\ at'[p] \in {"done", "idle"} /\ file' = have[p]
      /\ UNCHANGED <<wire, newest, mislaid>>
  BY <1>1 DEF Save, Store, Returns, Ends, Reaches, serverVars, counters, Typed
<1>3. \A q \in Process \ {p} : at'[q] = at[q] /\ have'[q] = have[q]
  BY <1>1 DEF Others
<1>4. Unattended'
  <2>1. at[p] # "asked"
    BY <1>2
  <2> QED BY <1>2, <1>3, <2>1 DEF Unattended
<1>5. ~Spent(have[p]) /\ \A q \in Process \ {p} : at[q] \in {"save", "store"} => have[p] # have[q]
  BY <1>2 DEF Once, Received
<1>6. Successor'
  BY <1>2, <1>5 DEF Successor, Spent
<1>7. Presented'
  <2>1. \A q \in Process : at'[q] \in {"asking", "asked"} => at'[q] = at[q] /\ have'[q] = have[q]
    BY <1>2, <1>3
  <2> QED BY <1>2, <2>1 DEF Once, Presented, Spent
<1>8. Received'
  <2>1. \A q \in Process : at'[q] \in Using => q # p /\ at'[q] = at[q] /\ have'[q] = have[q]
    BY <1>2, <1>3 DEF Using
  <2> QED BY <1>2, <1>5, <2>1 DEF Once, Received, Spent, Using
<1> QED BY <1>4, <1>6, <1>7, <1>8 DEF Once

\* The first token of a new chain.
LEMMA ApprovedOnce ==
  ASSUME SessionInv, Unattended, Once, NEW p \in Process, Approved(p)
  PROVE  Unattended' /\ Once'
<1>1. Typed /\ Known(file) /\ (\A q \in Process : Local(q)) /\ Others(p)
  BY Facts, ActsStepped DEF Acts, Stepped
<1>2. PICK c \in Chain :
        /\ newest[c] = 0 /\ newest' = [newest EXCEPT ![c] = 1]
        /\ have' = [have EXCEPT ![p] = <<c, 1>>]
  BY DEF Approved
<1>3. at[p] = "poll" /\ at' = [at EXCEPT ![p] = "store"] /\ UNCHANGED <<file, wire, mislaid>>
  BY DEF Approved, Reaches, counters
<1>4. /\ at'[p] = "store" /\ have'[p] = <<c, 1>> /\ newest'[c] = 1
      /\ \A q \in Process \ {p} : at'[q] = at[q] /\ have'[q] = have[q]
      /\ \A d \in Chain \ {c} : newest'[d] = newest[d]
  BY <1>1, <1>2, <1>3 DEF Typed
<1>5. ASSUME NEW t \in Token, Known(t)
      PROVE  t[1] \in Chain \ {c} /\ (Spent(t)' <=> Spent(t)) /\ t # <<c, 1>>
  <2>1. t[1] \in Chain /\ t[2] \in 1..MaxRefresh /\ t # NoToken
    BY TokenParts
  <2>2. t[1] # c
    BY <1>2, <1>5, <2>1, SessionAssumption DEF Known
  <2> QED BY <1>4, <2>1, <2>2 DEF Spent
<1>6. /\ file # NoToken => (Spent(file)' <=> Spent(file)) /\ file # <<c, 1>>
      /\ \A q \in Process :
           /\ have[q] # NoToken => (Spent(have[q]) <=> have[q][2] < newest'[have[q][1]]) /\ have[q] # <<c, 1>>
           /\ wire[q] # NoToken => wire[q] # <<c, 1>>
  <2>1. /\ file \in Token \cup {NoToken}
        /\ \A q \in Process : have[q] \in Token \cup {NoToken} /\ wire[q] \in Token \cup {NoToken}
    BY <1>1 DEF Typed
  <2>2. \A q \in Process : Known(have[q]) /\ Known(wire[q])
    BY <1>1 DEF Local
  <2>3. file # NoToken => (Spent(file)' <=> Spent(file)) /\ file # <<c, 1>>
    BY <1>1, <1>3, <1>5, <2>1 DEF Spent
  <2>4. ASSUME NEW q \in Process, have[q] # NoToken
        PROVE  (Spent(have[q]) <=> have[q][2] < newest'[have[q][1]]) /\ have[q] # <<c, 1>>
    BY <1>4, <1>5, <2>1, <2>2, <2>4 DEF Spent
  <2>5. ASSUME NEW q \in Process, wire[q] # NoToken
        PROVE  wire[q] # <<c, 1>>
    BY <1>5, <2>1, <2>2, <2>5
  <2> QED BY <2>3, <2>4, <2>5
<1>7. <<c, 1>> # NoToken /\ ~Spent(have[p])'
  <2>1. <<c, 1>> # NoToken
    BY SessionAssumption DEF Token
  <2>2. have'[p][1] = c /\ have'[p][2] = 1
    BY <1>4
  <2> QED BY <1>4, <2>1, <2>2 DEF Spent
<1>8. \A q \in Process : at[q] \in Using => have[q] # NoToken
  BY <1>1 DEF Local, Carries, Using
<1>9. Unattended'
  BY <1>3, <1>4 DEF Unattended
<1>10. Successor'
  <2>1. ASSUME NEW q \in Process, at[q] = "save"
        PROVE  at'[q] = "save" /\ have'[q] = have[q]
    BY <1>3, <1>4, <2>1
  <2> QED BY <1>3, <1>6, <2>1 DEF Once, Successor
<1>11. Presented'
  <2>1. ASSUME NEW q \in Process, at'[q] \in {"asking", "asked"}
        PROVE  at'[q] = at[q] /\ have'[q] = have[q] /\ have[q] # NoToken
    BY <1>4, <1>8, <2>1 DEF Using
  <2> QED BY <1>3, <1>6, <2>1 DEF Once, Presented, Spent
<1>12. Received'
  <2>1. SUFFICES ASSUME NEW q \in Process, at'[q] \in {"save", "store"}
                 PROVE  /\ ~Spent(have[q])' /\ file' # have'[q]
                        /\ \A r \in Process :
                             /\ wire'[r] # have'[q]
                             /\ r # q /\ at'[r] \in Using => have'[r] # have'[q]
    BY DEF Received, Using
  <2>2. CASE q = p
    BY <1>3, <1>4, <1>6, <1>7, <1>8, <2>2
  <2>3. CASE q # p
    <3>1. at'[q] = at[q] /\ have'[q] = have[q] /\ have[q] # NoToken
      BY <1>4, <1>8, <2>1, <2>3 DEF Using
    <3>2. /\ ~Spent(have[q]) /\ file # have[q]
          /\ \A r \in Process : /\ wire[r] # have[q]
                                /\ r # q /\ at[r] \in Using => have[r] # have[q]
      BY <2>1, <3>1 DEF Once, Received, Using
    <3>3. ~Spent(have[q])'
      BY <1>6, <3>1, <3>2 DEF Spent
    <3> QED BY <1>3, <1>4, <1>6, <3>1, <3>2, <3>3
  <2> QED BY <2>2, <2>3
<1> QED BY <1>9, <1>10, <1>11, <1>12 DEF Once

\* The server rotates the token t of p's request: of the tokens there are, t
\* alone becomes spent.
Rotates(p, t) ==
  /\ wire[p] = t /\ t[2] = newest[t[1]] /\ t[2] < MaxRefresh /\ newest' = [newest EXCEPT ![t[1]] = @ + 1]
  /\ wire' = [wire EXCEPT ![p] = NoToken]
  /\ UNCHANGED <<file, mislaid>>
  /\ \/ at[p] = "asked" /\ at' = [at EXCEPT ![p] = "save"] /\ have' = [have EXCEPT ![p] = <<t[1], t[2] + 1>>]
     \/ at[p] # "asked" /\ UNCHANGED <<at, have>>

LEMMA SpentNow ==
  ASSUME Typed, NEW t \in Token, NEW u \in Token, Known(u),
         t[2] = newest[t[1]], newest' = [newest EXCEPT ![t[1]] = @ + 1]
  PROVE  (u[2] < newest'[u[1]] <=> Spent(u) \/ u = t) /\ u # <<t[1], t[2] + 1>>
<1>1. /\ t[1] \in Chain /\ t[2] \in Nat /\ t = <<t[1], t[2]>>
      /\ u[1] \in Chain /\ u[2] \in Nat /\ u = <<u[1], u[2]>> /\ u # NoToken
  BY TokenParts
<1>2. u[2] <= newest[u[1]] /\ newest[u[1]] \in Nat
  BY <1>1, SessionAssumption DEF Known, Typed
<1>3. CASE u[1] = t[1]
  <2>1. newest'[u[1]] = t[2] + 1 /\ u[2] <= t[2]
    BY <1>1, <1>2, <1>3 DEF Typed
  <2>2. u[2] < newest'[u[1]]
    BY <1>1, <2>1
  <2>3. Spent(u) <=> u[2] < t[2]
    BY <1>3 DEF Spent
  <2>4. u = t <=> u[2] = t[2]
    BY <1>1, <1>3
  <2>5. u # <<t[1], t[2] + 1>>
    BY <1>1, <2>1
  <2> QED BY <1>1, <2>1, <2>2, <2>3, <2>4, <2>5
<1>4. CASE u[1] # t[1]
  BY <1>1, <1>4 DEF Typed, Spent
<1> QED BY <1>3, <1>4

LEMMA RotatesOnce ==
  ASSUME SessionInv, OneWorks, Unattended, Once, NEW p \in Process, NEW t \in Token, Rotates(p, t)
  PROVE  Unattended' /\ Once'
<1>1. Typed /\ Known(file) /\ \A q \in Process : Local(q)
  BY Facts
<1> DEFINE new == <<t[1], t[2] + 1>>
<1>2. /\ wire[p] = t /\ t[2] = newest[t[1]] /\ newest' = [newest EXCEPT ![t[1]] = @ + 1]
      /\ UNCHANGED <<file, mislaid>> /\ wire'[p] = NoToken
      /\ \A q \in Process \ {p} : wire'[q] = wire[q] /\ at'[q] = at[q] /\ have'[q] = have[q]
      /\ \/ at[p] = "asked" /\ at'[p] = "save" /\ have'[p] = new
         \/ at[p] # "asked" /\ at'[p] = at[p] /\ have'[p] = have[p]
  BY <1>1 DEF Rotates, Typed
<1>3. t[1] \in Chain /\ t[2] \in Nat /\ t = <<t[1], t[2]>> /\ t # NoToken
  BY TokenParts
<1> HIDE DEF new
<1>4. /\ file # NoToken => (Spent(file)' => Spent(file) \/ file = t) /\ file # new
      /\ \A q \in Process :
           /\ have[q] # NoToken => (have[q][2] < newest'[have[q][1]] => Spent(have[q]) \/ have[q] = t) /\ have[q] # new
           /\ wire[q] # NoToken => wire[q] # new
  <2>1. /\ file \in Token \cup {NoToken}
        /\ \A q \in Process : have[q] \in Token \cup {NoToken} /\ wire[q] \in Token \cup {NoToken}
    BY <1>1 DEF Typed
  <2>2. \A q \in Process : Known(have[q]) /\ Known(wire[q])
    BY <1>1 DEF Local
  <2>3. ASSUME NEW u \in Token, Known(u)
        PROVE  (u[2] < newest'[u[1]] <=> Spent(u) \/ u = t) /\ u # new
    BY <1>1, <1>2, <2>3, SpentNow DEF new
  <2>4. file # NoToken => (Spent(file)' => Spent(file) \/ file = t) /\ file # new
    BY <1>1, <1>2, <2>1, <2>3 DEF Spent
  <2>5. ASSUME NEW q \in Process, have[q] # NoToken
        PROVE  (have[q][2] < newest'[have[q][1]] => Spent(have[q]) \/ have[q] = t) /\ have[q] # new
    BY <2>1, <2>2, <2>3, <2>5
  <2>6. ASSUME NEW q \in Process, wire[q] # NoToken
        PROVE  wire[q] # new
    BY <2>1, <2>2, <2>3, <2>6
  <2> QED BY <2>4, <2>5, <2>6
<1>5. new # NoToken /\ ~(new[2] < newest'[new[1]])
  <2>1. t[2] + 1 = newest'[t[1]]
    BY <1>1, <1>2, <1>3 DEF Typed
  <2>2. new[1] = t[1] /\ new[2] = t[2] + 1
    BY DEF new
  <2>3. new # NoToken
    BY <1>3, SessionAssumption DEF Rotates, Token, new
  <2> QED BY <1>3, <2>1, <2>2, <2>3
<1>6. \A q \in Process : at[q] \in Using => have[q] # NoToken
  BY <1>1 DEF Local, Carries, Using
<1>7. at[p] = "asked" => have[p] = t
  BY <1>1, <1>2 DEF Local, Carries
<1>8. at[p] # "asked" => t \in mislaid
  BY <1>2, <1>3 DEF Unattended
<1>9. \A q \in Process : q # p /\ at[p] = "asked" => at[q] \notin {"asking", "asked", "save"}
  BY <1>1 DEF OneWorks, Holding, Local, PlacedAt
<1>10. Unattended'
  BY <1>2 DEF Unattended
<1>11. Successor'
  <2>1. SUFFICES ASSUME file # NoToken, Spent(file)'
                 PROVE  file \in mislaid \/ \E q \in Process : at'[q] = "save" /\ have'[q] = <<file[1], file[2] + 1>>
    BY <1>2 DEF Successor
  <2>2. CASE file = t
    BY <1>2, <1>8, <2>2 DEF new
  <2>3. CASE file # t
    <3>1. file \in mislaid \/ \E q \in Process : at[q] = "save" /\ have[q] = <<file[1], file[2] + 1>>
      BY <1>4, <2>1, <2>3 DEF Once, Successor
    <3>2. ASSUME NEW q \in Process, at[q] = "save"
          PROVE  at'[q] = "save" /\ have'[q] = have[q]
      BY <1>2, <3>2
    <3> QED BY <3>1, <3>2
  <2> QED BY <2>2, <2>3
<1>12. Presented'
  <2>1. SUFFICES ASSUME NEW q \in Process, at'[q] \in {"asking", "asked"}, Spent(have[q])'
                 PROVE  have'[q] \in mislaid'
    BY DEF Presented
  <2>2. at'[q] = at[q] /\ have'[q] = have[q] /\ have[q] # NoToken /\ at[p] # "asked"
    BY <1>2, <1>6, <1>9, <2>1 DEF Using
  <2>3. Spent(have[q]) \/ have[q] = t
    BY <1>4, <2>1, <2>2 DEF Spent
  <2> QED BY <1>2, <1>8, <2>1, <2>2, <2>3 DEF Once, Presented
<1>13. Received'
  <2>1. SUFFICES ASSUME NEW q \in Process, at'[q] \in {"save", "store"}
                 PROVE  /\ ~Spent(have[q])' /\ file' # have'[q]
                        /\ \A r \in Process :
                             /\ wire'[r] # have'[q]
                             /\ r # q /\ at'[r] \in Using => have'[r] # have'[q]
    BY DEF Received, Using
  <2>2. CASE q = p /\ at[p] = "asked"
    <3>1. have'[q] = new /\ \A r \in Process : r # q => at'[r] = at[r] /\ have'[r] = have[r] /\ wire'[r] = wire[r]
      BY <1>2, <2>2
    <3>2. ~Spent(have[q])'
      BY <1>5, <3>1 DEF Spent
    <3>3. \A r \in Process : wire'[r] # new
      BY <1>2, <1>4, <1>5
    <3>4. \A r \in Process : r # q /\ at'[r] \in Using => have'[r] # new
      BY <1>4, <1>6, <3>1
    <3>5. file' # new
      BY <1>2, <1>4, <1>5
    <3> QED BY <3>1, <3>2, <3>3, <3>4, <3>5
  <2>3. CASE ~(q = p /\ at[p] = "asked")
    <3>1. at'[q] = at[q] /\ have'[q] = have[q] /\ have[q] # NoToken
      BY <1>2, <1>6, <2>1, <2>3 DEF Using
    <3>2. /\ ~Spent(have[q]) /\ file # have[q]
          /\ \A r \in Process : /\ wire[r] # have[q]
                                /\ r # q /\ at[r] \in Using => have[r] # have[q]
      BY <2>1, <3>1 DEF Once, Received, Using
    <3>3. have[q] # t
      BY <1>2, <3>2
    <3>4. ~Spent(have[q])'
      BY <1>4, <3>1, <3>2, <3>3 DEF Spent
    <3>5. \A r \in Process : wire'[r] # have'[q]
      BY <1>2, <3>1, <3>2
    <3>6. \A r \in Process : r # q /\ at'[r] \in Using => have'[r] # have'[q]
      BY <1>2, <1>4, <3>1, <3>2
    <3> QED BY <1>2, <3>1, <3>2, <3>4, <3>5, <3>6
  <2> QED BY <2>2, <2>3
<1> QED BY <1>10, <1>11, <1>12, <1>13 DEF Once

LEMMA AnswerOnce ==
  ASSUME SessionInv, Unattended, NEW p \in Process, Answer(p)
  PROVE  Unattended' /\ (OneWorks /\ Once => Once')
<1>1. Typed /\ Local(p) /\ Others(p)
  BY Facts, ActsStepped DEF Acts, Stepped
<1>2. wire[p] \in Token /\ wire[p] # NoToken /\ UNCHANGED <<file, mislaid>>
      /\ wire' = [wire EXCEPT ![p] = NoToken]
  BY <1>1 DEF Answer, Typed, counters
<1>3. Unattended'
  <2>1. wire'[p] = NoToken
    BY <1>1, <1>2 DEF Typed
  <2> QED BY <1>1, <1>2, <2>1 DEF Unattended, Others
<1>4. CASE Live(wire[p]) /\ newest' # newest
  <2>1. /\ wire[p][2] < MaxRefresh
        /\ newest' = [newest EXCEPT ![wire[p][1]] = @ + 1]
        /\ IF at[p] = "asked" THEN Reaches(p, "save") /\ have' = [have EXCEPT ![p] = <<@[1], @[2] + 1>>]
           ELSE UNCHANGED <<at, have>>
    BY <1>4 DEF Answer
  <2>2. at[p] = "asked" => have[p] = wire[p]
    BY <1>1 DEF Local, Carries
  <2>3. Rotates(p, wire[p])
    BY <1>2, <1>4, <2>1, <2>2 DEF Rotates, Live, Reaches
  <2> QED BY <1>2, <1>3, <2>3, RotatesOnce
<1>5. CASE ~Live(wire[p])
  <2>1. UNCHANGED <<newest, have>> /\ (IF at[p] = "asked" THEN Reaches(p, "refused") ELSE UNCHANGED at)
    BY <1>5 DEF Answer
  <2>2. Quiet(p)
    BY <1>1, <1>2, <2>1 DEF Quiet, Using, Reaches, Typed
  <2> QED BY <1>3, <2>2, QuietOnce
<1>6. Live(wire[p]) => newest' # newest
  <2>1. SUFFICES ASSUME Live(wire[p]) PROVE newest' # newest
    OBVIOUS
  <2>2. newest' = [newest EXCEPT ![wire[p][1]] = @ + 1]
    BY <2>1 DEF Answer
  <2>3. wire[p][1] \in Chain /\ newest[wire[p][1]] \in Nat
    BY <1>1, <1>2, TokenParts, SessionAssumption DEF Typed
  <2>4. newest'[wire[p][1]] = newest[wire[p][1]] + 1
    BY <1>1, <2>2, <2>3 DEF Typed
  <2> QED BY <2>3, <2>4
<1> QED BY <1>4, <1>5, <1>6

LEMMA WorldOnce ==
  ASSUME SessionInv, Unattended, World
  PROVE  Unattended' /\ (Once => Once')
<1>1. UNCHANGED <<file, at, have, wire, newest, mislaid>>
  BY DEF World, ChainEnds, RelayNames, LockGrowsOld, AccessTokenExpires, vars, sessionVars, serverVars, counters
<1>2. Unattended'
  BY <1>1 DEF Unattended
<1>3. Once => Once'
  BY <1>1 DEF Once, Successor, Presented, Received, Spent
<1> QED BY <1>2, <1>3

LEMMA ActsOnce ==
  ASSUME SessionInv, Unattended, NEW p \in Process, Acts(p)
  PROVE  Unattended' /\ (OneWorks /\ Once => Once')
<1>0. at \in [Process -> Points] /\ Others(p)
  BY Facts, ActsStepped DEF Typed, Stepped
<1>1. Quiet(p) => Unattended' /\ (Once => Once')
  BY QuietOnce
<1>2. CASE Reread(p) /\ at'[p] = "asking"
  <2>1. Unattended'
    <3>1. at[p] = "lock" /\ UNCHANGED <<wire, mislaid>>
      BY <1>2 DEF Reread, counters
    <3> QED BY <1>0, <1>2, <3>1 DEF Unattended, Others
  <2> QED BY <1>2, <2>1, RereadOnce
<1>3. CASE Discover(p) /\ at'[p] = "asked"
  <2>1. Unattended'
    <3>1. UNCHANGED mislaid
      BY <1>3 DEF Discover, counters
    <3> QED BY <1>0, <1>3, <3>1 DEF Unattended, Others
  <2> QED BY <1>3, <2>1, DiscoverOnce
<1>4. CASE Save(p) \/ Store(p) \/ Approved(p)
  <2>1. Unattended'
    <3>1. at[p] # "asked" /\ UNCHANGED <<wire, mislaid>>
      BY <1>4 DEF Save, Store, Approved, counters
    <3> QED BY <1>0, <3>1 DEF Unattended, Others
  <2> QED BY <1>4, <2>1, WriteOnce, ApprovedOnce
<1> QED BY <1>1, <1>2, <1>3, <1>4, QuietActs, AnswerOnce DEF Acts, Works

\* Once a lock is lost, nothing is claimed of the tokens.
LEMMA OnceNext ==
  ASSUME AtMostTwo, SessionInv, LockInv, OnceInv, [Next]_vars
  PROVE  OnceInv'
<1>1. Unattended /\ (Lost \/ Once)
  BY DEF OnceInv
<1>2. Lost => Lost'
  BY LockNext
<1>3. ~Lost => OneWorks
  BY HoldersAreEqual DEF LockInv, Fine, OneWorks
<1>4. Unattended' /\ (OneWorks /\ Once => Once')
  BY <1>1, NextSplits, ActsOnce, WorldOnce
<1> QED BY <1>1, <1>2, <1>3, <1>4 DEF OnceInv

\* A refresh token is presented a second time only if the answer to its first
\* use was lost: two commands never spend the same one (session.ts:117-119,
\* refreshSession), for two processes and any number of sign-ins, logouts,
\* commands and crashes, unless a crash has lost a lock.
THEOREM SpentOnce ==
  ASSUME AtMostTwo
  PROVE  Spec => []SpentOnlyOnce
<1>1. Init => SessionInv /\ LockInv /\ OnceInv
  <2>1. SUFFICES ASSUME Init PROVE OnceInv
    BY SessionInit
  <2>2. /\ at = [p \in Process |-> "idle"] /\ wire = [p \in Process |-> NoToken]
        /\ \E c \in Chain : file = <<c, 1>> /\ newest = [d \in Chain |-> IF d = c THEN 1 ELSE 0]
    BY <2>1, SessionAssumption DEF Init
  <2> QED BY <2>2 DEF OnceInv, Unattended, Once, Successor, Presented, Received, Spent
<1>2. SessionInv /\ LockInv /\ OnceInv /\ [Next]_vars => (SessionInv /\ LockInv /\ OnceInv)'
  BY SessionNext, LockNext, OnceNext
<1>3. SessionInv /\ OnceInv => SpentOnlyOnce
  <2>1. SUFFICES ASSUME SessionInv, OnceInv, NEW p \in Process, wire[p] # NoToken, Spent(wire[p]), ~Abandoned
                 PROVE  wire[p] \in mislaid
    BY DEF SpentOnlyOnce
  <2>2. ~Lost
    BY <2>1 DEF Lost, Mistaken, Unseen, Abandoned
  <2>3. CASE at[p] # "asked"
    BY <2>1, <2>3 DEF OnceInv, Unattended
  <2>4. CASE at[p] = "asked"
    BY <2>1, <2>2, <2>4, Facts DEF OnceInv, Once, Presented, Local, Carries
  <2> QED BY <2>3, <2>4
<1> QED BY <1>1, <1>2, <1>3, PTL DEF Spec

=============================================================================
