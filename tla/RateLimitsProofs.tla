-------------------------- MODULE RateLimitsProofs --------------------------
(***************************************************************************)
(* Proofs about RateLimits, for any limits, any lengths of the windows and *)
(* any number of calls.  What holds an array to its window is that it      *)
(* keeps every call that still counts (Kept): cutting expired times off    *)
(* its front (Live) and filtering them out (Fresh) then both give the      *)
(* window itself, and the decision is that of a complete log.              *)
(***************************************************************************)
EXTENDS RateLimits, FiniteSetTheorems, TLAPS

\* The recorded calls less than a window old.
InWindow(l) == {i \in Calls(l) : now - times[l][i] < Window}

\* Calls are recorded in order of time.
Sorted ==
  \A l \in Limiter :
    /\ \A i \in Calls(l) : times[l][i] <= now
    /\ \A i, j \in Calls(l) : i <= j => times[l][i] <= times[l][j]

\* No array forgets a call that still counts.
Kept == \A l \in Limiter : InWindow(l) \subseteq held[l]

\* A window is full at a refusal; refusals are not later than the clock.
Refusals == RefusedOnlyWhenFull /\ \A l \in Limiter : \A r \in refusedAt[l] : r <= now

\* The time of the last event is remembered for as long as it counts.
Logged ==
  /\ FloodIsLogged
  /\ \A e \in DOMAIN events : events[e] <= now
  /\ \A e, f \in DOMAIN events : e <= f => events[e] <= events[f]
  /\ events # <<>> /\ now - events[Len(events)] < Window => loggedAt = events[Len(events)]
  /\ loggedAt # NoTime => events # <<>> /\ loggedAt = events[Len(events)]

Windows == TypeOK /\ Sorted /\ Kept

\* The messages handled in the window that is counted, and those just before it.
InCount     == {f \in DOMAIN handled : handled[f] >= msg.start}
BeforeCount == {f \in DOMAIN handled : handled[f] < msg.start /\ msg.start - handled[f] < MsgWindow}

\* The count is that of the window under way, and the window before it was in its limit.
Messages ==
  /\ BurstIsBounded
  /\ msg.start <= now
  /\ \A e \in DOMAIN handled : handled[e] <= now /\ handled[e] - msg.start < MsgWindow
  /\ Cardinality(InCount) <= msg.count /\ Cardinality(InCount) <= MsgMax
  /\ Cardinality(BeforeCount) <= MsgMax

\* Everything about the arrays and what they decide.
Arrays ==
  /\ times \in [Limiter -> Seq(Nat)]
  /\ held \in [Limiter -> SUBSET (Nat \ {0})]
  /\ admitted \in [Limiter -> SUBSET (Nat \ {0})]
  /\ \A l \in Limiter : held[l] \subseteq Calls(l) /\ admitted[l] \subseteq Calls(l)
  /\ refusedAt \in [Limiter -> SUBSET Nat]
  /\ Sorted /\ Kept /\ AtMostLimit /\ Refusals

-----------------------------------------------------------------------------
(* Finite sets of calls *)

LEMMA CallSets ==
  ASSUME NEW n \in Nat, NEW S \in SUBSET (1..n), NEW T \in SUBSET S
  PROVE  /\ IsFiniteSet(S) /\ Cardinality(S) \in Nat
         /\ IsFiniteSet(T) /\ Cardinality(T) \in Nat
         /\ Cardinality(T) <= Cardinality(S)
<1>1. IsFiniteSet(1..n)
  BY FS_Interval
<1>2. IsFiniteSet(S)
  BY <1>1, FS_Subset
<1>3. IsFiniteSet(T) /\ Cardinality(T) <= Cardinality(S)
  BY <1>2, FS_Subset
<1> QED BY <1>2, <1>3, FS_CardinalityType

\* One call more makes a set one larger at most.
LEMMA OneMore ==
  ASSUME NEW n \in Nat, NEW S \in SUBSET (1..n), NEW x
  PROVE  /\ IsFiniteSet(S \cup {x}) /\ Cardinality(S \cup {x}) \in Nat
         /\ Cardinality(S \cup {x}) <= Cardinality(S) + 1
<1>1. IsFiniteSet(S) /\ Cardinality(S) \in Nat
  BY CallSets
<1>2. IsFiniteSet(S \cup {x}) /\ (Cardinality(S \cup {x}) = Cardinality(S) \/ Cardinality(S \cup {x}) = Cardinality(S) + 1)
  BY <1>1, FS_AddElement
<1> QED BY <1>1, <1>2

\* A time joins the end of a sequence of times.
LEMMA AppendTime ==
  ASSUME NEW T \in Seq(Nat), NEW t \in Nat
  PROVE  /\ Append(T, t) \in Seq(Nat)
         /\ Len(T) \in Nat /\ Len(Append(T, t)) = Len(T) + 1
         /\ DOMAIN T = 1..Len(T) /\ DOMAIN Append(T, t) = 1..(Len(T) + 1)
         /\ \A i \in 1..Len(T) : Append(T, t)[i] = T[i]
         /\ Append(T, t)[Len(T) + 1] = t
         /\ Append(T, t) # <<>>
  OBVIOUS

-----------------------------------------------------------------------------
(* Both ways of dropping expired calls give the window *)

LEMMA DropsGiveTheWindow ==
  ASSUME Windows, NEW l \in Limiter
  PROVE  /\ Live(l) = InWindow(l) /\ Fresh(l) = InWindow(l)
         /\ InWindow(l) \in SUBSET Calls(l)
         /\ Len(times[l]) \in Nat
         /\ Cardinality(InWindow(l)) \in Nat
<1>0. TypeOK /\ Sorted /\ Kept /\ Window \in Nat
  BY RateAssumption DEF Windows
<1>1. times[l] \in Seq(Nat) /\ Len(times[l]) \in Nat /\ held[l] \subseteq Calls(l) /\ now \in Nat
  BY <1>0 DEF TypeOK
<1>2. \A i \in Calls(l) : times[l][i] \in Nat
  BY <1>1 DEF Calls
<1>3. Fresh(l) = InWindow(l)
  BY <1>0, <1>1, <1>2 DEF Fresh, InWindow, Kept, Expired
<1>4. Live(l) = InWindow(l)
  <2>1. InWindow(l) \subseteq Live(l)
    BY <1>0, <1>1, <1>2 DEF Live, InWindow, Kept, Expired, Calls
  <2>2. ASSUME NEW i \in Live(l) PROVE i \in InWindow(l)
    <3>1. PICK j \in held[l] : j <= i /\ ~Expired(times[l][j])
      BY DEF Live
    <3>2. i \in Calls(l) /\ j \in Calls(l)
      BY <1>1, <3>1 DEF Live
    <3>3. times[l][j] <= times[l][i]
      BY <1>0, <3>1, <3>2 DEF Sorted
    <3>4. times[l][i] \in Nat /\ times[l][j] \in Nat /\ now \in Nat /\ Window \in Nat
      BY <1>0, <1>1, <1>2, <3>2
    <3>5. now - times[l][j] < Window
      BY <3>1, <3>4 DEF Expired
    <3>6. now - times[l][i] < Window
      BY <3>3, <3>4, <3>5
    <3> QED BY <3>2, <3>6 DEF InWindow
  <2> QED BY <2>1, <2>2
<1>5. InWindow(l) \in SUBSET Calls(l)
  BY DEF InWindow
<1> QED BY <1>1, <1>3, <1>4, <1>5, CallSets DEF Calls

-----------------------------------------------------------------------------
(* What the two kinds of steps on an array leave behind *)

\* A call is recorded: its array now holds the window and the call.
LEMMA RecordChanges ==
  ASSUME Windows, NEW l \in Limiter, NEW ok \in BOOLEAN, Record(l, InWindow(l), ok)
  PROVE  /\ times' \in [Limiter -> Seq(Nat)]
         /\ held' \in [Limiter -> SUBSET (Nat \ {0})]
         /\ admitted' \in [Limiter -> SUBSET (Nat \ {0})]
         /\ Len(times[l]) \in Nat
         /\ Calls(l)' = Calls(l) \cup {Len(times[l]) + 1}
         /\ Calls(l)' = 1..(Len(times[l]) + 1)
         /\ times'[l][Len(times[l]) + 1] = now
         /\ \A i \in Calls(l) : times'[l][i] = times[l][i] /\ times[l][i] \in Nat
         /\ held'[l] = InWindow(l) \cup {Len(times[l]) + 1}
         /\ admitted'[l] = IF ok THEN admitted[l] \cup {Len(times[l]) + 1} ELSE admitted[l]
         /\ \A m \in Limiter \ {l} : /\ times'[m] = times[m] /\ Calls(m)' = Calls(m)
                                     /\ held'[m] = held[m] /\ admitted'[m] = admitted[m]
<1> USE DEF Windows
<1> DEFINE n == Len(times[l]) + 1
<1>1. /\ times \in [Limiter -> Seq(Nat)] /\ times[l] \in Seq(Nat) /\ now \in Nat
      /\ held \in [Limiter -> SUBSET (Nat \ {0})] /\ admitted \in [Limiter -> SUBSET (Nat \ {0})]
  BY DEF TypeOK
<1>2. /\ times' = [times EXCEPT ![l] = Append(times[l], now)]
      /\ held' = [held EXCEPT ![l] = InWindow(l) \cup {n}]
      /\ admitted' = [admitted EXCEPT ![l] = IF ok THEN admitted[l] \cup {n} ELSE admitted[l]]
  BY DEF Record
<1>3. Append(times[l], now) \in Seq(Nat) /\ n \in Nat \ {0}
  BY <1>1, AppendTime
<1>4. times'[l] = Append(times[l], now) /\ times' \in [Limiter -> Seq(Nat)]
  BY <1>1, <1>2, <1>3
<1>5. InWindow(l) \in SUBSET (Nat \ {0})
  BY <1>1 DEF InWindow, Calls
<1>6. /\ held' \in [Limiter -> SUBSET (Nat \ {0})] /\ held'[l] = InWindow(l) \cup {n}
      /\ admitted' \in [Limiter -> SUBSET (Nat \ {0})]
      /\ admitted'[l] = IF ok THEN admitted[l] \cup {n} ELSE admitted[l]
  <2>1. admitted[l] \cup {n} \in SUBSET (Nat \ {0}) /\ InWindow(l) \cup {n} \in SUBSET (Nat \ {0})
    BY <1>1, <1>3, <1>5
  <2> QED BY <1>1, <1>2, <2>1
<1>7. /\ Calls(l)' = 1..n /\ Calls(l)' = Calls(l) \cup {n}
      /\ times'[l][n] = now /\ \A i \in Calls(l) : times'[l][i] = times[l][i] /\ times[l][i] \in Nat
  BY <1>1, <1>4, AppendTime DEF Calls
<1>8. \A m \in Limiter \ {l} : /\ times'[m] = times[m] /\ Calls(m)' = Calls(m)
                               /\ held'[m] = held[m] /\ admitted'[m] = admitted[m]
  BY <1>1, <1>2 DEF Calls
<1> QED BY <1>1, <1>3, <1>4, <1>6, <1>7, <1>8

\* A recorded call keeps the arrays in order and complete.
LEMMA RecordKeeps ==
  ASSUME Windows, NEW l \in Limiter, NEW ok \in BOOLEAN, Record(l, InWindow(l), ok), now' = now
  PROVE  /\ Sorted' /\ Kept'
         /\ \A m \in Limiter : held'[m] \subseteq Calls(m)' /\ admitted'[m] \subseteq Calls(m)'
<1> DEFINE n == Len(times[l]) + 1
<1>1. now \in Nat /\ Sorted /\ Kept
      /\ \A m \in Limiter : held[m] \subseteq Calls(m) /\ admitted[m] \subseteq Calls(m)
  BY DEF Windows, TypeOK
<1>0. n \in Nat /\ Calls(l) = 1..(n - 1)
  <2>1. Len(times[l]) \in Nat
    BY RecordChanges
  <2> QED BY <2>1 DEF Calls
<1>2. /\ Calls(l)' = 1..n /\ times'[l][n] = now
      /\ \A i \in Calls(l) : times'[l][i] = times[l][i] /\ times[l][i] \in Nat
      /\ held'[l] = InWindow(l) \cup {n}
      /\ admitted'[l] = IF ok THEN admitted[l] \cup {n} ELSE admitted[l]
  BY RecordChanges
<1>3. \A m \in Limiter \ {l} : /\ times'[m] = times[m] /\ Calls(m)' = Calls(m)
                               /\ held'[m] = held[m] /\ admitted'[m] = admitted[m]
  BY RecordChanges
<1>4. Sorted'
  <2> SUFFICES ASSUME NEW m \in Limiter
               PROVE  /\ \A i \in Calls(m)' : times'[m][i] <= now
                      /\ \A i, j \in Calls(m)' : i <= j => times'[m][i] <= times'[m][j]
    BY DEF Sorted
  <2>0. Sorted
    BY <1>1
  <2>1. CASE m = l
    <3> HIDE DEF Windows
    <3>1. \A i \in Calls(l) : times[l][i] <= now
      BY <2>0 DEF Sorted
    <3>2. \A i, j \in Calls(l) : i <= j => times[l][i] <= times[l][j]
      BY <2>0 DEF Sorted
    <3>3. \A i \in Calls(l)' : i = n \/ (i \in Calls(l) /\ i < n)
      BY <1>0, <1>2
    <3>4. now \in Nat
      BY <1>1
    <3>5. \A i \in Calls(l)' : times'[l][i] <= now
      BY <1>2, <3>1, <3>3, <3>4
    <3>6. \A i, j \in Calls(l)' : i <= j => times'[l][i] <= times'[l][j]
      <4> TAKE i, j \in Calls(l)'
      <4>1. CASE j = n
        BY <1>2, <3>5, <4>1
      <4>2. CASE j \in Calls(l) /\ j < n
        BY <1>0, <1>2, <3>2, <3>3, <4>2
      <4> QED BY <3>3, <4>1, <4>2
    <3> QED BY <2>1, <3>5, <3>6
  <2>2. CASE m # l
    BY <1>1, <1>3, <2>0, <2>2 DEF Sorted
  <2> QED BY <2>1, <2>2
<1>5. Kept'
  <2> SUFFICES ASSUME NEW m \in Limiter, NEW i \in Calls(m)', now - times'[m][i] < Window
               PROVE  i \in held'[m]
    BY DEF Kept, InWindow
  <2>1. CASE m = l
    BY <1>0, <1>1, <1>2, <2>1 DEF InWindow
  <2>2. CASE m # l
    BY <1>1, <1>3, <2>2 DEF Kept, InWindow
  <2> QED BY <2>1, <2>2
<1>6. \A m \in Limiter : held'[m] \subseteq Calls(m)' /\ admitted'[m] \subseteq Calls(m)'
  <2> TAKE m \in Limiter
  <2>1. CASE m = l
    BY <1>0, <1>1, <1>2, <2>1 DEF InWindow
  <2>2. CASE m # l
    BY <1>1, <1>3, <2>2
  <2> QED BY <2>1, <2>2
<1> QED BY <1>4, <1>5, <1>6

\* A call let through when there is room for it leaves no window over the limit.
LEMMA RecordInLimit ==
  ASSUME Windows, AtMostLimit, NEW l \in Limiter, NEW ok \in BOOLEAN,
         Record(l, InWindow(l), ok), ok => Cardinality(InWindow(l)) + 1 <= Limit[l]
  PROVE  AtMostLimit'
<1> USE RateAssumption
<1> DEFINE n == Len(times[l]) + 1
           Before(T, A, i) == {j \in A : j <= i /\ T[i] - T[j] < Window}
<1>1. now \in Nat /\ admitted[l] \subseteq Calls(l) /\ Limit[l] \in Nat
  BY DEF Windows, TypeOK
<1>0. n \in Nat /\ n - 1 \in Nat /\ Calls(l) = 1..(n - 1)
  <2>1. Len(times[l]) \in Nat
    BY RecordChanges
  <2> QED BY <2>1 DEF Calls
<1>2. /\ times'[l][n] = now
      /\ \A i \in Calls(l) : times'[l][i] = times[l][i] /\ times[l][i] \in Nat
      /\ admitted'[l] = IF ok THEN admitted[l] \cup {n} ELSE admitted[l]
  BY RecordChanges
<1>3. \A m \in Limiter \ {l} : times'[m] = times[m] /\ admitted'[m] = admitted[m]
  BY RecordChanges
<1> SUFFICES ASSUME NEW m \in Limiter, NEW i \in admitted'[m]
             PROVE  Cardinality(Before(times'[m], admitted'[m], i)) <= Limit[m]
  BY DEF AtMostLimit
<1>4. CASE m # l
  BY <1>3, <1>4 DEF AtMostLimit
<1>5. CASE m = l /\ i \in admitted[l]
  <2>1. i \in 1..(n - 1) /\ n \notin 1..i
    BY <1>0, <1>1, <1>2, <1>5
  <2>2. Before(times'[l], admitted'[l], i) = Before(times[l], admitted[l], i)
    BY <1>0, <1>1, <1>2, <2>1
  <2> QED BY <1>5, <2>2 DEF AtMostLimit
<1>6. CASE m = l /\ ok /\ i = n
  <2>1. Before(times'[l], admitted'[l], n) \subseteq InWindow(l) \cup {n}
    BY <1>0, <1>1, <1>2, <1>6 DEF InWindow
  <2>2. InWindow(l) \in SUBSET (1..(n - 1)) /\ InWindow(l) \cup {n} \in SUBSET (1..n)
    BY <1>0, <1>2 DEF InWindow
  <2>3. /\ Cardinality(InWindow(l)) \in Nat
        /\ Cardinality(InWindow(l) \cup {n}) <= Cardinality(InWindow(l)) + 1
    BY <1>0, <1>2, <2>2, OneMore, CallSets
  <2>4. /\ Cardinality(Before(times'[l], admitted'[l], n)) \in Nat
        /\ Cardinality(InWindow(l) \cup {n}) \in Nat
        /\ Cardinality(Before(times'[l], admitted'[l], n)) <= Cardinality(InWindow(l) \cup {n})
    BY <1>0, <1>2, <2>1, <2>2, CallSets
  <2> QED BY <1>1, <1>6, <2>3, <2>4
<1> QED BY <1>0, <1>2, <1>4, <1>5, <1>6

\* Recorded calls only add to the windows refusals were decided by.
LEMMA RecordRefusals ==
  ASSUME Windows, Refusals, NEW l \in Limiter, NEW ok \in BOOLEAN, now' = now,
         Record(l, InWindow(l), ok),
         refusedAt' = refusedAt \/ (Refuse(l) /\ Cardinality(InWindow(l)) + 1 > Limit[l])
  PROVE  refusedAt' \in [Limiter -> SUBSET Nat] /\ Refusals'
<1> USE RateAssumption
<1> DEFINE n == Len(times[l]) + 1
           Around(T, k, r) == {j \in 1..k : T[j] <= r /\ r - T[j] < Window}
<1>0. n \in Nat /\ n - 1 \in Nat /\ Calls(l) = 1..(n - 1) /\ Len(times'[l]) \in Nat
  <2>1. Len(times[l]) \in Nat /\ times'[l] \in Seq(Nat)
    BY RecordChanges
  <2> QED BY <2>1 DEF Calls
<1>1. now \in Nat /\ refusedAt \in [Limiter -> SUBSET Nat] /\ Limit[l] \in Nat
      /\ \A i \in Calls(l) : times[l][i] <= now
  BY DEF Windows, TypeOK, Sorted
<1>2. /\ Calls(l)' = 1..n /\ times'[l][n] = now
      /\ \A i \in Calls(l) : times'[l][i] = times[l][i] /\ times[l][i] \in Nat
  BY RecordChanges
<1>3. \A m \in Limiter \ {l} : times'[m] = times[m] /\ Calls(m)' = Calls(m)
  BY RecordChanges
<1>4. \/ refusedAt' = refusedAt
      \/ /\ refusedAt' = [refusedAt EXCEPT ![l] = refusedAt[l] \cup {now}]
         /\ Cardinality(InWindow(l)) + 1 > Limit[l]
  BY DEF Refuse
<1>5. /\ refusedAt' \in [Limiter -> SUBSET Nat]
      /\ \A m \in Limiter \ {l} : refusedAt'[m] = refusedAt[m]
      /\ \A r \in refusedAt'[l] : \/ r \in refusedAt[l]
                                  \/ r = now /\ Cardinality(InWindow(l)) + 1 > Limit[l]
  BY <1>1, <1>4
<1>6. \A m \in Limiter : \A r \in refusedAt'[m] : r <= now
  BY <1>1, <1>5 DEF Refusals
<1>7. ASSUME NEW m \in Limiter \ {l}, NEW r \in refusedAt'[m]
      PROVE  Cardinality({j \in Calls(m)' : times'[m][j] <= r /\ r - times'[m][j] < Window}) >= Limit[m]
  BY <1>3, <1>5, <1>7 DEF Refusals, RefusedOnlyWhenFull
<1>8. ASSUME NEW r \in refusedAt'[l]
      PROVE  Cardinality(Around(times'[l], n, r)) >= Limit[l]
  <2>1. CASE r \in refusedAt[l]
    <3>1. Cardinality(Around(times[l], n - 1, r)) >= Limit[l]
      BY <1>0, <2>1 DEF Refusals, RefusedOnlyWhenFull
    <3>2. Around(times[l], n - 1, r) \subseteq Around(times'[l], n, r)
      BY <1>0, <1>2
    <3>3. /\ Cardinality(Around(times[l], n - 1, r)) \in Nat
          /\ Cardinality(Around(times'[l], n, r)) \in Nat
          /\ Cardinality(Around(times[l], n - 1, r)) <= Cardinality(Around(times'[l], n, r))
      BY <1>0, <3>2, CallSets
    <3> QED BY <1>1, <3>1, <3>3
  <2>2. CASE r = now /\ Cardinality(InWindow(l)) + 1 > Limit[l]
    <3>1. InWindow(l) \in SUBSET (1..(n - 1)) /\ n \notin InWindow(l)
      BY <1>0 DEF InWindow
    <3>2. IsFiniteSet(InWindow(l)) /\ Cardinality(InWindow(l)) \in Nat
      BY <1>0, <3>1, CallSets
    <3>3. Cardinality(InWindow(l) \cup {n}) = Cardinality(InWindow(l)) + 1
      BY <3>1, <3>2, FS_AddElement
    <3>4. InWindow(l) \cup {n} \subseteq Around(times'[l], n, now)
      <4>1. \A i \in Calls(l) : times[l][i] <= now
        BY <1>1
      <4>2. \A i \in InWindow(l) : i \in 1..n /\ times'[l][i] <= now /\ now - times'[l][i] < Window
        BY <1>0, <1>1, <1>2, <4>1 DEF InWindow
      <4>3. n \in 1..n /\ times'[l][n] <= now /\ now - times'[l][n] < Window
        BY <1>0, <1>1, <1>2
      <4> QED BY <4>2, <4>3
    <3>5. /\ Cardinality(Around(times'[l], n, now)) \in Nat
          /\ Cardinality(InWindow(l) \cup {n}) <= Cardinality(Around(times'[l], n, now))
      BY <1>0, <3>4, CallSets
    <3> QED BY <1>1, <2>2, <3>2, <3>3, <3>5
  <2> QED BY <1>5, <2>1, <2>2
<1>9. RefusedOnlyWhenFull'
  BY <1>2, <1>7, <1>8 DEF RefusedOnlyWhenFull
<1> QED BY <1>5, <1>6, <1>9 DEF Refusals

-----------------------------------------------------------------------------
(* The steps on one array *)

LEMMA RecordArrays ==
  ASSUME TypeOK, Arrays, NEW l \in Limiter, NEW ok \in BOOLEAN, now' = now,
         Record(l, InWindow(l), ok),
         ok => Cardinality(InWindow(l)) + 1 <= Limit[l],
         refusedAt' = refusedAt \/ (Refuse(l) /\ Cardinality(InWindow(l)) + 1 > Limit[l])
  PROVE  Arrays'
<1>1. Windows /\ AtMostLimit /\ Refusals
  BY DEF Arrays, Windows
<1>2. /\ times' \in [Limiter -> Seq(Nat)]
      /\ held' \in [Limiter -> SUBSET (Nat \ {0})]
      /\ admitted' \in [Limiter -> SUBSET (Nat \ {0})]
  BY <1>1, RecordChanges
<1>3. /\ Sorted' /\ Kept'
      /\ \A m \in Limiter : held'[m] \subseteq Calls(m)' /\ admitted'[m] \subseteq Calls(m)'
  BY <1>1, RecordKeeps
<1>4. AtMostLimit'
  BY <1>1, RecordInLimit
<1>5. refusedAt' \in [Limiter -> SUBSET Nat] /\ Refusals'
  BY <1>1, RecordRefusals
<1> QED BY <1>2, <1>3, <1>4, <1>5 DEF Arrays

\* A call let through.
LEMMA AdmitArrays ==
  ASSUME TypeOK, Arrays, NEW l \in Limiter, Admit(l), now' = now
  PROVE  Arrays'
<1>1. Live(l) = InWindow(l) /\ Cardinality(InWindow(l)) \in Nat /\ Limit[l] \in Nat
  BY DropsGiveTheWindow, RateAssumption DEF Arrays, Windows
<1>2. Record(l, InWindow(l), TRUE) /\ refusedAt' = refusedAt
  BY <1>1 DEF Admit
<1>3. Cardinality(InWindow(l)) + 1 <= Limit[l]
  BY <1>1 DEF Admit, Full
<1> QED BY <1>2, <1>3, RecordArrays

\* An attempt, recorded whatever becomes of it.
LEMMA AttemptArrays ==
  ASSUME TypeOK, Arrays, NEW l \in Limiter, Attempt(l), now' = now
  PROVE  Arrays'
<1>1. Fresh(l) = InWindow(l) /\ Cardinality(InWindow(l)) \in Nat /\ Limit[l] \in Nat
  BY DropsGiveTheWindow, RateAssumption DEF Arrays, Windows
<1> DEFINE ok == Cardinality(InWindow(l)) + 1 <= Limit[l]
<1>2. ok \in BOOLEAN /\ Record(l, InWindow(l), ok)
  BY <1>1 DEF Attempt
<1>3. refusedAt' = refusedAt \/ (Refuse(l) /\ Cardinality(InWindow(l)) + 1 > Limit[l])
  BY <1>1 DEF Attempt
<1> HIDE DEF ok
<1>4. ok => Cardinality(InWindow(l)) + 1 <= Limit[l]
  BY DEF ok
<1> QED BY <1>2, <1>3, <1>4, RecordArrays

\* What is not touched stays decided.
LEMMA SameRefusals ==
  ASSUME UNCHANGED <<times, refusedAt>>, RefusedOnlyWhenFull
  PROVE  RefusedOnlyWhenFull'
  BY DEF RefusedOnlyWhenFull, Calls

\* A call turned away: the window it met is full.
LEMMA TurnAwayArrays ==
  ASSUME TypeOK, Arrays, NEW l \in Limiter, TurnAway(l), now' = now
  PROVE  Arrays'
<1>1. /\ Live(l) = InWindow(l) /\ InWindow(l) \in SUBSET Calls(l)
      /\ Cardinality(InWindow(l)) >= Limit[l]
  BY DropsGiveTheWindow DEF Arrays, Windows, TurnAway, Full
<1>2. /\ held' = [held EXCEPT ![l] = InWindow(l)]
      /\ refusedAt' = [refusedAt EXCEPT ![l] = refusedAt[l] \cup {now}]
      /\ times' = times /\ admitted' = admitted
  BY <1>1 DEF TurnAway, Refuse
<1>3. /\ held \in [Limiter -> SUBSET (Nat \ {0})] /\ InWindow(l) \in SUBSET (Nat \ {0})
      /\ refusedAt \in [Limiter -> SUBSET Nat] /\ now \in Nat
  BY <1>1 DEF TypeOK, Calls
<1>4. /\ held' \in [Limiter -> SUBSET (Nat \ {0})] /\ held'[l] = InWindow(l)
      /\ refusedAt' \in [Limiter -> SUBSET Nat] /\ refusedAt'[l] = refusedAt[l] \cup {now}
      /\ \A m \in Limiter \ {l} : held'[m] = held[m] /\ refusedAt'[m] = refusedAt[m]
  BY <1>2, <1>3
<1>5. \A m \in Limiter : Calls(m)' = Calls(m) /\ InWindow(m)' = InWindow(m)
  BY <1>2 DEF Calls, InWindow
<1>6. Kept' /\ Sorted' /\ AtMostLimit'
      /\ \A m \in Limiter : held'[m] \subseteq Calls(m)' /\ admitted'[m] \subseteq Calls(m)'
  BY <1>1, <1>2, <1>4, <1>5 DEF Arrays, Kept, Sorted, AtMostLimit
<1>7. {j \in Calls(l) : times[l][j] <= now /\ now - times[l][j] < Window} = InWindow(l)
  BY DEF Arrays, Sorted, InWindow
<1>8. RefusedOnlyWhenFull'
  <2> SUFFICES ASSUME NEW m \in Limiter, NEW r \in refusedAt'[m]
               PROVE  Cardinality({j \in Calls(m) : times[m][j] <= r /\ r - times[m][j] < Window}) >= Limit[m]
    BY <1>2, <1>5 DEF RefusedOnlyWhenFull
  <2>1. CASE m = l /\ r = now
    BY <1>1, <1>7, <2>1
  <2>2. CASE r \in refusedAt[m]
    BY <2>2 DEF Arrays, Refusals, RefusedOnlyWhenFull
  <2> QED BY <1>4, <2>1, <2>2
<1>9. ASSUME NEW m \in Limiter, NEW r \in refusedAt'[m] PROVE r <= now
  <2>1. r = now \/ r \in refusedAt[m]
    BY <1>4
  <2> QED BY <1>3, <2>1 DEF Arrays, Refusals
<1>10. times' \in [Limiter -> Seq(Nat)] /\ admitted' \in [Limiter -> SUBSET (Nat \ {0})]
  BY <1>2 DEF TypeOK
<1> QED BY <1>4, <1>6, <1>8, <1>9, <1>10 DEF Arrays, Refusals

\* The prune and the clock: nothing that still counts is dropped, and less counts later.
LEMMA PruneArrays ==
  ASSUME TypeOK, Arrays, Prune
  PROVE  Arrays'
<1>1. \A l \in Limiter : Fresh(l) = InWindow(l) /\ InWindow(l) \in SUBSET Calls(l)
  BY DropsGiveTheWindow DEF Arrays, Windows
<1>2. /\ held' = [l \in Limiter |-> Fresh(l)]
      /\ now' = now /\ times' = times /\ admitted' = admitted /\ refusedAt' = refusedAt
  BY DEF Prune
<1>3. \A l \in Limiter : Calls(l)' = Calls(l) /\ InWindow(l)' = InWindow(l) /\ held'[l] = InWindow(l)
  BY <1>1, <1>2 DEF Calls, InWindow
<1>4. held' \in [Limiter -> SUBSET (Nat \ {0})]
  BY <1>1, <1>2 DEF Calls
<1>5. Kept' /\ Sorted' /\ AtMostLimit'
  BY <1>2, <1>3 DEF Arrays, Kept, Sorted, AtMostLimit
<1>6. RefusedOnlyWhenFull' /\ \A l \in Limiter : \A r \in refusedAt'[l] : r <= now'
  BY <1>2, SameRefusals DEF Arrays, Refusals
<1>7. \A l \in Limiter : held'[l] \subseteq Calls(l)' /\ admitted'[l] \subseteq Calls(l)'
  BY <1>1, <1>2, <1>3 DEF Arrays
<1> QED BY <1>2, <1>4, <1>5, <1>6, <1>7 DEF Arrays, Refusals

LEMMA TickArrays ==
  ASSUME TypeOK, Arrays, now' \in Nat, now' >= now,
         UNCHANGED <<times, held, admitted, refusedAt>>
  PROVE  Arrays'
<1>1. now \in Nat /\ \A l \in Limiter : Calls(l)' = Calls(l) /\ \A i \in Calls(l) : times[l][i] \in Nat
  BY DEF TypeOK, Calls
<1>2. \A l \in Limiter : InWindow(l)' \subseteq InWindow(l)
  BY <1>1, RateAssumption DEF InWindow
<1>3. Kept'
  BY <1>2 DEF Arrays, Kept
<1>4. Sorted'
  BY <1>1 DEF Arrays, Sorted
<1>5. Refusals'
  <2>1. RefusedOnlyWhenFull'
    BY SameRefusals DEF Arrays, Refusals
  <2>2. ASSUME NEW l \in Limiter, NEW r \in refusedAt'[l] PROVE r <= now'
    <3>1. r \in refusedAt[l] /\ r \in Nat /\ r <= now
      BY DEF Arrays, Refusals
    <3> QED BY <1>1, <3>1
  <2> QED BY <2>1, <2>2 DEF Refusals
<1>6. AtMostLimit'
  BY DEF Arrays, AtMostLimit
<1> QED BY <1>1, <1>3, <1>4, <1>5, <1>6 DEF Arrays

-----------------------------------------------------------------------------
(* The log of refusals *)

\* The refusal of this step is logged, or the last event is recent enough.
LEMMA RefusalIsLogged ==
  ASSUME TypeOK, Logged, LogRefusal, now' = now,
         \A l \in Tools : \A r \in refusedAt'[l] : r \in refusedAt[l] \/ r = now
  PROVE  Logged' /\ events' \in Seq(Nat) /\ loggedAt' \in Nat \cup {NoTime}
<1> USE RateAssumption
<1>1. /\ events \in Seq(Nat) /\ Len(events) \in Nat /\ DOMAIN events = 1..Len(events)
      /\ now \in Nat /\ \A e \in DOMAIN events : events[e] \in Nat
  BY DEF TypeOK
<1>2. CASE loggedAt # NoTime /\ ~Expired(loggedAt)
  <2>1. events' = events /\ loggedAt' = loggedAt
    BY <1>2 DEF LogRefusal
  <2>2. Len(events) \in DOMAIN events /\ events[Len(events)] <= now /\ now - events[Len(events)] < Window
    BY <1>1, <1>2 DEF Logged, Expired
  <2>3. \A l \in Tools : \A r \in refusedAt'[l] : \E e \in DOMAIN events : events[e] <= r /\ r - events[e] < Window
    BY <2>2 DEF Logged, FloodIsLogged
  <2> QED BY <2>1, <2>3 DEF Logged, FloodIsLogged, TypeOK
<1>3. CASE ~(loggedAt # NoTime /\ ~Expired(loggedAt))
  <2> DEFINE n == Len(events) + 1
  <2>1. events' = Append(events, now) /\ loggedAt' = now
    BY <1>3 DEF LogRefusal
  <2>2. /\ events' \in Seq(Nat) /\ Len(events') = n /\ DOMAIN events' = 1..n /\ n \in DOMAIN events'
        /\ \A e \in DOMAIN events : e \in DOMAIN events' /\ events'[e] = events[e]
        /\ events'[n] = now /\ events' # <<>>
    BY <1>1, <2>1, AppendTime
  <2>9. \A e \in DOMAIN events' : e \in DOMAIN events \/ e = n
    BY <1>1, <2>2
  <2>3. \A l \in Tools : \A r \in refusedAt'[l] : \E e \in DOMAIN events' : events'[e] <= r /\ r - events'[e] < Window
    <3> TAKE l \in Tools
    <3> TAKE r \in refusedAt'[l]
    <3>1. CASE r = now
      BY <1>1, <2>2, <3>1
    <3>2. CASE r \in refusedAt[l]
      BY <2>2, <3>2 DEF Logged, FloodIsLogged
    <3> QED BY <3>1, <3>2
  <2>4. \A e \in DOMAIN events : now - events[e] >= Window
    <3>1. events # <<>> => now - events[Len(events)] >= Window
      BY <1>1, <1>3 DEF Logged, Expired
    <3> TAKE e \in DOMAIN events
    <3>2. Len(events) \in DOMAIN events /\ e <= Len(events) /\ events # <<>>
      BY <1>1
    <3>3. events[e] <= events[Len(events)]
      BY <3>2 DEF Logged
    <3>4. events[e] \in Nat /\ events[Len(events)] \in Nat /\ Window \in Nat
      BY <1>1, <3>2
    <3> QED BY <1>1, <3>1, <3>2, <3>3, <3>4
  <2>5. \A e, f \in DOMAIN events' : e < f => events'[f] - events'[e] >= Window
    <3> TAKE e, f \in DOMAIN events'
    <3>1. CASE f = n /\ e \in DOMAIN events
      BY <2>2, <2>4, <3>1
    <3>2. CASE f \in DOMAIN events /\ e \in DOMAIN events
      BY <2>2, <3>2 DEF Logged, FloodIsLogged
    <3>3. CASE e = n
      BY <1>1, <2>2, <3>3
    <3> QED BY <2>9, <3>1, <3>2, <3>3
  <2>6. \A e \in DOMAIN events' : events'[e] <= now
    BY <1>1, <2>2, SMTT(20) DEF Logged
  <2>7. \A e, f \in DOMAIN events' : e <= f => events'[e] <= events'[f]
    <3> TAKE e, f \in DOMAIN events'
    <3>1. CASE f = n
      BY <2>2, <2>6, <3>1
    <3>2. CASE f \in DOMAIN events /\ e \in DOMAIN events
      BY <2>2, <3>2 DEF Logged
    <3>3. CASE f \in DOMAIN events /\ e = n
      BY <1>1, <2>2, <3>3
    <3> QED BY <2>9, <3>1, <3>2, <3>3
  <2>8. FloodIsLogged'
    BY <2>3, <2>5 DEF FloodIsLogged
  <2> QED BY <1>1, <2>1, <2>2, <2>6, <2>7, <2>8 DEF Logged
<1> QED BY <1>2, <1>3

\* A step that refuses no tool call keeps the log, as does the time that goes by.
LEMMA LogKeeps ==
  ASSUME TypeOK, Logged, now' \in Nat, now' >= now, UNCHANGED events,
         \A l \in Tools : refusedAt'[l] = refusedAt[l],
         loggedAt' = loggedAt \/ (loggedAt' = NoTime /\ now' = now /\ loggedAt # NoTime /\ Expired(loggedAt))
  PROVE  Logged'
<1> USE RateAssumption
<1>1. /\ Len(events) \in Nat /\ DOMAIN events = 1..Len(events) /\ now \in Nat
      /\ \A e \in DOMAIN events : events[e] \in Nat
  BY DEF TypeOK
<1>2. FloodIsLogged'
  BY DEF Logged, FloodIsLogged
<1>3. \A e \in DOMAIN events : events[e] <= now'
  BY <1>1 DEF Logged
<1>4. events # <<>> => Len(events) \in DOMAIN events
  BY <1>1
<1>5. events # <<>> /\ now' - events[Len(events)] < Window => loggedAt' = events[Len(events)]
  BY <1>1, <1>4 DEF Logged, Expired
<1> QED BY <1>2, <1>3, <1>5 DEF Logged

-----------------------------------------------------------------------------
(* The messages of one connection *)

\* A message handled now: the two windows it can share are in their limits.
LEMMA MessageKeeps ==
  ASSUME TypeOK, Messages, Message
  PROVE  Messages' /\ handled' \in Seq(Nat) /\ msg' \in [start : Nat, count : Nat]
<1> USE RateAssumption
<1> DEFINE k == Len(handled)
           n == k + 1
           Counted(H, m, s) == {f \in 1..m : H[f] >= s}
           Before(H, m, s) == {f \in 1..m : H[f] < s /\ s - H[f] < MsgWindow}
<1>1. /\ handled \in Seq(Nat) /\ k \in Nat /\ n \in Nat /\ DOMAIN handled = 1..k
      /\ now \in Nat /\ msg \in [start : Nat, count : Nat] /\ msg.start \in Nat /\ msg.count \in Nat
      /\ \A f \in 1..k : handled[f] \in Nat /\ handled[f] <= now /\ handled[f] - msg.start < MsgWindow
      /\ MsgWindow \in Nat \ {0} /\ MsgMax \in Nat
  BY DEF TypeOK, Messages
<1>2. /\ InCount = Counted(handled, k, msg.start) /\ BeforeCount = Before(handled, k, msg.start)
      /\ Cardinality(Counted(handled, k, msg.start)) <= msg.count
      /\ Cardinality(Counted(handled, k, msg.start)) <= MsgMax
      /\ Cardinality(Before(handled, k, msg.start)) <= MsgMax
  BY <1>1 DEF InCount, BeforeCount, Messages
<1>3. /\ now' = now /\ CountNow \in [start : Nat, count : Nat] /\ CountNow.start <= now
      /\ msg' \in [start : Nat, count : Nat]
      /\ msg'.start = CountNow.start /\ msg'.count = CountNow.count + 1
      /\ \/ CountNow.count + 1 <= MsgMax /\ handled' = Append(handled, now)
         \/ handled' = handled
  <2>1. CountNow \in [start : Nat, count : Nat] /\ CountNow.start <= now
    BY <1>1 DEF CountNow, Messages
  <2>2. now' = now /\ msg' = [CountNow EXCEPT !.count = CountNow.count + 1]
    BY DEF Message
  <2>3. \/ CountNow.count + 1 <= MsgMax /\ handled' = Append(handled, now)
        \/ handled' = handled
    BY DEF Message
  <2>4. CountNow.count + 1 \in Nat
    BY <2>1
  <2> QED BY <2>1, <2>2, <2>3, <2>4
<1> DEFINE s == CountNow.start
<1>4. s \in Nat /\ s >= msg.start /\ now - s < MsgWindow /\ CountNow.count \in Nat
      /\ \A f \in 1..k : handled[f] - s < MsgWindow
  <2>1. s \in Nat /\ CountNow.count \in Nat
    BY <1>3
  <2>2. msg.start <= now
    BY DEF Messages
  <2>3. CASE now - msg.start >= MsgWindow
    <3>1. s = now
      BY <2>3 DEF CountNow
    <3> QED BY <1>1, <2>1, <2>2, <3>1
  <2>4. CASE now - msg.start < MsgWindow
    <3>1. s = msg.start
      BY <1>1, <2>4 DEF CountNow
    <3> QED BY <1>1, <2>1, <2>4, <3>1
  <2> QED BY <1>1, <2>3, <2>4
\* Whatever becomes of the message, the two windows before it are in their limits.
<1>5. /\ Cardinality(Counted(handled, k, s)) \in Nat /\ Cardinality(Before(handled, k, s)) \in Nat
      /\ Cardinality(Counted(handled, k, s)) <= CountNow.count
      /\ Cardinality(Counted(handled, k, s)) <= MsgMax
      /\ Cardinality(Before(handled, k, s)) <= MsgMax
  <2>1. CASE now - msg.start < MsgWindow
    <3>1. s = msg.start /\ CountNow.count = msg.count
      BY <1>1, <2>1 DEF CountNow
    <3>2. Cardinality(Counted(handled, k, s)) \in Nat /\ Cardinality(Before(handled, k, s)) \in Nat
      BY <1>1, CallSets
    <3> QED BY <1>2, <3>1, <3>2
  <2>2. CASE now - msg.start >= MsgWindow
    <3>1. s = now /\ CountNow.count = 0
      BY <1>1, <2>2 DEF CountNow
    <3>2. Counted(handled, k, s) = {}
      BY <1>1, <2>2, <3>1
    <3>3. Before(handled, k, s) \subseteq Counted(handled, k, msg.start)
      BY <1>1, <2>2, <3>1
    <3>4. /\ Cardinality(Before(handled, k, s)) \in Nat
          /\ Cardinality(Counted(handled, k, msg.start)) \in Nat
          /\ Cardinality(Before(handled, k, s)) <= Cardinality(Counted(handled, k, msg.start))
      BY <1>1, <3>3, CallSets
    <3>5. Cardinality({}) = 0
      BY FS_EmptySet
    <3>6. Cardinality(Counted(handled, k, s)) = 0
      BY <3>2, <3>5
    <3> QED BY <1>1, <1>2, <3>1, <3>4, <3>6
  <2> QED BY <1>1, <2>1, <2>2
<1>6. CASE handled' = handled
  <2>1. BurstIsBounded'
    BY <1>6 DEF Messages, BurstIsBounded
  <2>2. InCount' = Counted(handled, k, s) /\ BeforeCount' = Before(handled, k, s)
    BY <1>1, <1>3, <1>6 DEF InCount, BeforeCount
  <2>3. Cardinality(InCount') <= msg'.count
    BY <1>3, <1>4, <1>5, <2>2
  <2> QED BY <1>1, <1>3, <1>4, <1>5, <1>6, <2>1, <2>2, <2>3 DEF Messages
<1>7. CASE CountNow.count + 1 <= MsgMax /\ handled' = Append(handled, now)
  <2>1. /\ handled' \in Seq(Nat) /\ DOMAIN handled' = 1..n /\ handled'[n] = now
        /\ \A f \in 1..k : handled'[f] = handled[f]
        /\ DOMAIN handled' = (1..k) \cup {n} /\ n \notin 1..k
    BY <1>1, <1>7, AppendTime
  <2>2. InCount' = Counted(handled, k, s) \cup {n} /\ BeforeCount' = Before(handled, k, s)
    <3>1. \A f \in DOMAIN handled' : f \in InCount' <=> (f \in 1..k /\ handled[f] >= s) \/ f = n
      BY <1>3, <1>4, <1>1, <2>1 DEF InCount
    <3>2. \A f \in DOMAIN handled' : f \in BeforeCount' <=>
                                        f \in 1..k /\ handled[f] < s /\ s - handled[f] < MsgWindow
      <4> SUFFICES ASSUME NEW f \in DOMAIN handled'
                   PROVE  f \in BeforeCount' <=>
                            f \in 1..k /\ handled[f] < s /\ s - handled[f] < MsgWindow
        OBVIOUS
      <4>1. f \in BeforeCount' <=> handled'[f] < s /\ s - handled'[f] < MsgWindow
        BY <1>3 DEF BeforeCount
      <4>2. CASE f \in 1..k
        BY <2>1, <4>1, <4>2
      <4>3. CASE f = n
        <5>1. ~(now < s)
          BY <1>1, <1>3, <1>4
        <5> QED BY <2>1, <4>1, <4>3, <5>1
      <4> QED BY <2>1, <4>2, <4>3
    <3> QED BY <2>1, <3>1, <3>2 DEF InCount, BeforeCount
  <2>3. /\ IsFiniteSet(Counted(handled, k, s) \cup {n})
        /\ Cardinality(Counted(handled, k, s) \cup {n}) \in Nat
        /\ Cardinality(Counted(handled, k, s) \cup {n}) <= Cardinality(Counted(handled, k, s)) + 1
        /\ IsFiniteSet(Before(handled, k, s))
    BY <1>1, OneMore, CallSets
  <2>4. Cardinality(InCount') <= msg'.count /\ Cardinality(InCount') <= MsgMax
    <3>1. Cardinality(InCount') <= CountNow.count + 1
      BY <1>4, <1>5, <2>2, <2>3
    <3>2. Cardinality(InCount') \in Nat
      BY <2>2, <2>3
    <3>3. CountNow.count \in Nat /\ CountNow.count + 1 <= MsgMax /\ MsgMax \in Nat
      BY <1>1, <1>4, <1>7
    <3>4. msg'.count = CountNow.count + 1
      BY <1>3
    <3>5. Cardinality(InCount') <= MsgMax
      BY <3>1, <3>2, <3>3
    <3> QED BY <3>1, <3>4, <3>5
  <2>5. Cardinality(BeforeCount') <= MsgMax
    BY <1>5, <2>2
  <2>6. BurstIsBounded'
    <3> DEFINE Burst(H, e) == {f \in DOMAIN H : f <= e /\ H[e] - H[f] < MsgWindow}
    <3> SUFFICES ASSUME NEW e \in 1..n PROVE Cardinality(Burst(handled', e)) <= 2 * MsgMax
      BY <2>1 DEF BurstIsBounded
    <3>1. CASE e \in 1..k
      <4>1. ASSUME NEW f PROVE f \in Burst(handled', e) <=> f \in Burst(handled, e)
        <5>1. f \in 1..n /\ f <= e <=> f \in 1..k /\ f <= e
          BY <1>1, <3>1
        <5>2. handled'[e] = handled[e] /\ (f \in 1..k => handled'[f] = handled[f])
          BY <2>1, <3>1
        <5> QED BY <1>1, <2>1, <5>1, <5>2
      <4>2. Burst(handled', e) = Burst(handled, e)
        BY <4>1
      <4> QED BY <1>1, <3>1, <4>2 DEF Messages, BurstIsBounded
    <3>2. CASE e = n
      <4> DEFINE both == (Counted(handled, k, s) \cup {n}) \cup Before(handled, k, s)
      <4>1. ASSUME NEW f \in Burst(handled', n) PROVE f \in both
        <5>1. CASE f = n
          BY <5>1
        <5>2. CASE f \in 1..k
          <6>1. now - handled[f] < MsgWindow /\ handled[f] \in Nat
            BY <1>1, <2>1, <5>2
          <6>2. handled[f] >= s \/ (handled[f] < s /\ s - handled[f] < MsgWindow)
            <7>1. s \in Nat /\ now \in Nat /\ MsgWindow \in Int /\ s <= now
              BY <1>1, <1>3, <1>4
            <7>2. s - handled[f] <= now - handled[f]
              BY <6>1, <7>1
            <7> HIDE DEF s
            <7> QED BY <6>1, <7>1, <7>2
          <6> QED BY <5>2, <6>2
        <5> QED BY <2>1, <5>1, <5>2
      <4>2. both \in SUBSET (1..n)
        BY <1>1
      <4>3. /\ Cardinality(both) \in Nat /\ Cardinality(Burst(handled', n)) \in Nat
            /\ Cardinality(Burst(handled', n)) <= Cardinality(both)
        BY <1>1, <4>1, <4>2, CallSets
      <4>4. /\ Cardinality(both) = Cardinality(Counted(handled, k, s) \cup {n})
                 + Cardinality(Before(handled, k, s))
                 - Cardinality((Counted(handled, k, s) \cup {n}) \cap Before(handled, k, s))
            /\ Cardinality((Counted(handled, k, s) \cup {n}) \cap Before(handled, k, s)) \in Nat
        BY <2>3, FS_Union, FS_Intersection, FS_CardinalityType
      <4> QED BY <1>1, <1>5, <2>2, <2>3, <2>4, <3>2, <4>3, <4>4
    <3> QED BY <1>1, <3>1, <3>2
  <2>7. \A e \in DOMAIN handled' : handled'[e] <= now' /\ handled'[e] - msg'.start < MsgWindow
    <3> TAKE e \in DOMAIN handled'
    <3>1. CASE e \in 1..k
      BY <1>1, <1>3, <1>4, <2>1, <3>1
    <3>2. CASE e = n
      BY <1>1, <1>3, <1>4, <2>1, <3>2
    <3> QED BY <2>1, <3>1, <3>2
  <2> QED BY <1>3, <2>1, <2>4, <2>5, <2>6, <2>7 DEF Messages
<1> QED BY <1>3, <1>6, <1>7, <1>1

\* Nothing else touches the count; time only goes on.
LEMMA MessagesKept ==
  ASSUME TypeOK, Messages, now' \in Nat, now' >= now, UNCHANGED <<msg, handled>>
  PROVE  Messages'
<1>1. now \in Nat /\ msg.start \in Nat /\ \A e \in DOMAIN handled : handled[e] \in Nat
  BY DEF TypeOK
<1>2. BurstIsBounded' /\ InCount' = InCount /\ BeforeCount' = BeforeCount
  BY DEF Messages, BurstIsBounded, InCount, BeforeCount
<1> QED BY <1>1, <1>2 DEF Messages

-----------------------------------------------------------------------------
(* The theorems *)

Inv == TypeOK /\ Arrays /\ Logged /\ Messages

LEMMA InitInv == Init => Inv
<1> SUFFICES ASSUME Init PROVE Inv
  OBVIOUS
<1> USE RateAssumption DEF Init
<1>1. TypeOK
  BY DEF TypeOK, Calls
<1>2. \A l \in Limiter : Calls(l) = {}
  BY DEF Calls
<1>3. Arrays
  BY <1>1, <1>2 DEF TypeOK, Arrays, Sorted, Kept, InWindow, AtMostLimit, Refusals, RefusedOnlyWhenFull
<1>4. Logged
  BY DEF Logged, FloodIsLogged, Tools, Limiter, Admitting
<1>5. InCount = {} /\ BeforeCount = {}
  BY DEF InCount, BeforeCount
<1>6. Messages
  BY <1>5, FS_EmptySet DEF Messages, BurstIsBounded
<1> QED BY <1>1, <1>3, <1>4, <1>6 DEF Inv

LEMMA StepInv == Inv /\ [Next]_vars => Inv'
<1> SUFFICES ASSUME Inv, [Next]_vars PROVE Inv'
  OBVIOUS
<1> USE DEF Inv
<1>1. /\ now \in Nat /\ calls \in Nat /\ loggedAt \in Nat \cup {NoTime} /\ events \in Seq(Nat)
      /\ msg \in [start : Nat, count : Nat] /\ handled \in Seq(Nat) /\ open \in BOOLEAN
      /\ refusedAt \in [Limiter -> SUBSET Nat] /\ Tools \subseteq Limiter
  BY DEF TypeOK, Tools, Limiter, Admitting
<1>2. ASSUME OneCall PROVE calls' \in Nat
  BY <1>1, <1>2 DEF OneCall
\* The arrays make up the rest of the shapes.
<1>3. ASSUME Arrays', now' \in Nat, calls' \in Nat, loggedAt' \in Nat \cup {NoTime},
             events' \in Seq(Nat), msg' \in [start : Nat, count : Nat],
             handled' \in Seq(Nat), open' \in BOOLEAN
      PROVE  TypeOK'
  BY <1>3 DEF TypeOK, Arrays
<1>4. ASSUME NEW l \in Limiter \ Tools, Admit(l) \/ TurnAway(l) \/ Attempt(l)
      PROVE  \A m \in Tools : refusedAt'[m] = refusedAt[m]
  BY <1>1, <1>4 DEF Admit, TurnAway, Attempt, Refuse
<1>5. CASE McpRequest
  <2>1. "mcp" \in Limiter \ Tools
    BY DEF Limiter, Admitting, Tools
  <2>2. Arrays'
    BY <1>5, <2>1, AdmitArrays, TurnAwayArrays DEF McpRequest
  <2>3. Logged' /\ Messages'
    BY <1>1, <1>4, <1>5, <2>1, LogKeeps, MessagesKept DEF McpRequest
  <2> QED BY <1>1, <1>2, <1>3, <1>5, <2>2, <2>3 DEF McpRequest
<1>6. ASSUME NEW tool \in Tool, ToolCall(tool) PROVE Inv'
  <2>1. Bucket(tool) \in Limiter /\ Bucket(tool) \in Tools
    BY DEF Bucket, Limiter, Admitting, Tools
  <2>2. Arrays'
    BY <1>6, <2>1, AdmitArrays, TurnAwayArrays DEF ToolCall
  <2>3. Messages'
    BY <1>1, <1>6, MessagesKept DEF ToolCall
  <2>4. Logged' /\ events' \in Seq(Nat) /\ loggedAt' \in Nat \cup {NoTime}
    <3>1. CASE Admit(Bucket(tool)) /\ UNCHANGED <<loggedAt, events>>
      BY <1>1, <1>6, <3>1, LogKeeps DEF ToolCall, Admit
    <3>2. CASE TurnAway(Bucket(tool)) /\ LogRefusal
      <4>1. \A l \in Tools : \A r \in refusedAt'[l] : r \in refusedAt[l] \/ r = now
        BY <1>1, <2>1, <3>2 DEF TurnAway, Refuse
      <4> QED BY <1>6, <3>2, <4>1, RefusalIsLogged DEF ToolCall
    <3> QED BY <1>6, <3>1, <3>2 DEF ToolCall
  <2> QED BY <1>1, <1>2, <1>3, <1>6, <2>2, <2>3, <2>4 DEF ToolCall
<1>7. CASE Upgrade
  <2>1. "upgrade" \in Limiter \ Tools
    BY DEF Limiter, Attempts, Tools
  <2>2. Arrays'
    BY <1>7, <2>1, AttemptArrays DEF Upgrade
  <2>3. Logged' /\ Messages'
    BY <1>1, <1>4, <1>7, <2>1, LogKeeps, MessagesKept DEF Upgrade
  <2> QED BY <1>1, <1>2, <1>3, <1>7, <2>2, <2>3 DEF Upgrade
<1>8. CASE Reconnect
  <2>1. "reconnect" \in Limiter \ Tools
    BY DEF Limiter, Attempts, Tools
  <2>2. Arrays'
    BY <1>8, <2>1, AttemptArrays DEF Reconnect
  <2>3. Logged' /\ Messages'
    BY <1>1, <1>4, <1>8, <2>1, LogKeeps, MessagesKept DEF Reconnect
  <2> QED BY <1>1, <1>2, <1>3, <1>8, <2>2, <2>3 DEF Reconnect
<1>9. CASE Message
  <2>1. /\ UNCHANGED <<now, times, held, admitted, refusedAt, loggedAt, events>>
        /\ calls' \in Nat /\ open' \in BOOLEAN
    BY <1>1, <1>2, <1>9 DEF Message
  <2>2. Arrays' /\ Logged'
    BY <1>1, <2>1, TickArrays, LogKeeps
  <2>3. Messages' /\ handled' \in Seq(Nat) /\ msg' \in [start : Nat, count : Nat]
    BY <1>9, MessageKeeps
  <2> QED BY <1>1, <1>3, <2>1, <2>2, <2>3
<1>10. CASE Prune
  <2>1. Arrays'
    BY <1>10, PruneArrays
  <2>2. Logged' /\ Messages'
    BY <1>1, <1>10, LogKeeps, MessagesKept DEF Prune
  <2> QED BY <1>1, <1>3, <1>10, <2>1, <2>2 DEF Prune
<1>11. CASE Tick
  <2>1. now' \in Nat /\ now' >= now
    BY <1>1, <1>11, RateAssumption DEF Tick
  <2>2. Arrays' /\ Logged' /\ Messages'
    BY <1>1, <1>11, <2>1, TickArrays, LogKeeps, MessagesKept DEF Tick
  <2> QED BY <1>1, <1>3, <1>11, <2>1, <2>2 DEF Tick
<1>12. CASE UNCHANGED vars
  <2>1. Arrays' /\ Logged' /\ Messages'
    BY <1>1, <1>12, TickArrays, LogKeeps, MessagesKept DEF vars
  <2> QED BY <1>1, <1>3, <1>12, <2>1 DEF vars
<1> QED BY <1>5, <1>6, <1>7, <1>8, <1>9, <1>10, <1>11, <1>12 DEF Next

LEMMA Invariance == Spec => []Inv
<1> QED BY InitInv, StepInv, PTL DEF Spec

\* In no window are more calls let through than the limit, for any limit and any window.
THEOREM LimitHolds == Spec => []AtMostLimit
<1>1. Inv => AtMostLimit
  BY DEF Inv, Arrays
<1> QED BY Invariance, <1>1, PTL

\* No call is refused while the window before it has room, for any limit and any window.
THEOREM RefusalsAreDue == Spec => []RefusedOnlyWhenFull
<1>1. Inv => RefusedOnlyWhenFull
  BY DEF Inv, Arrays, Refusals
<1> QED BY Invariance, <1>1, PTL

\* Every refused tool call has its event in the window, and events are a window apart.
THEOREM RefusalsAreLogged == Spec => []FloodIsLogged
<1>1. Inv => FloodIsLogged
  BY DEF Inv, Logged
<1> QED BY Invariance, <1>1, PTL

\* A fixed window lets twice its limit through in the time of one, never more.
THEOREM BurstsAreBounded == Spec => []BurstIsBounded
<1>1. Inv => BurstIsBounded
  BY DEF Inv, Messages
<1> QED BY Invariance, <1>1, PTL

\* The shapes, for any limits and windows.
THEOREM ShapesHold == Spec => []TypeOK
<1>1. Inv => TypeOK
  BY DEF Inv
<1> QED BY Invariance, <1>1, PTL

=============================================================================
