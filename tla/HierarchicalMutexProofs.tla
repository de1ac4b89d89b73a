----------------------- MODULE HierarchicalMutexProofs -----------------------
(***************************************************************************)
(* Theorems about HierarchicalMutex, for any threads, mutexes and levels.  *)
(*                                                                         *)
(* OwnInv says who owns what, LevelInv relates the levels to the guards a  *)
(* thread holds.  With TypeOK they are inductive, and NoCycle follows from *)
(* them: the thread that waits for the lowest mutex of a *)
(* cycle would wait for one whose owner waits for a lower one still.       *)
(***************************************************************************)
EXTENDS HierarchicalMutex, SequenceTheorems, WellFoundedInduction, TLAPS

USE MutexAssumption

(* A mutex in the hands of a call of lock() or unlock() is under no guard  *)
(* of that thread (hierarchical_mutex.cpp:28-29, 33-34).                   *)
CallsNotHeld ==
  \A t \in Threads : pc[t] \in {"locked", "unlocking"} =>
    \A i \in 1..Len(held[t]) : held[t][i] # mutex[t]

(* An owner has the mutex under a guard or in a call. *)
OwnersHave ==
  \A m \in Mutexes : owner[m] \in Threads =>
    \/ \E i \in 1..Len(held[owner[m]]) : held[owner[m]][i] = m
    \/ pc[owner[m]] \in {"locked", "unlocking"} /\ mutex[owner[m]] = m

OwnInv == GuardsOwn /\ CallsNotHeld /\ OwnersHave

(* The check of a pending lock is still true: the level is the thread's.   *)
Passed ==
  \A t \in Threads : pc[t] \in {"locking", "locked"} =>
    hcl_val[mutex[t]] < this_hcl_val[t]

(* pre_hcl_val of a guarded mutex is the level of the guard outside it.    *)
SavedLevels ==
  \A t \in Threads : \A i \in 1..Len(held[t]) :
    pre_hcl_val[held[t][i]] =
      IF i = 1 THEN Top ELSE hcl_val[held[t][i - 1]]

LevelInv == Passed /\ SavedLevels /\ LevelIsInnermost /\ HeldDescends

-----------------------------------------------------------------------------
(* What SubSeq(_, 1, Len - 1) leaves of the guards. *)
LEMMA Popped ==
  ASSUME NEW s \in Seq(Mutexes), s # <<>>
  PROVE  /\ Len(s) \in Nat \ {0}
         /\ Innermost(s) \in Mutexes
         /\ SubSeq(s, 1, Len(s) - 1) \in Seq(Mutexes)
         /\ Len(SubSeq(s, 1, Len(s) - 1)) = Len(s) - 1
         /\ \A i \in 1..(Len(s) - 1) :
              SubSeq(s, 1, Len(s) - 1)[i] = s[i]
<1>1. Len(s) \in Nat \ {0}
  BY LenProperties, EmptySeq
<1>2. \A i \in 1..Len(s) : s[i] \in Mutexes
  BY ElementOfSeq
<1> DEFINE n == Len(s) - 1
<1>3. n \in Int /\ \A i \in 1..n : s[i] \in Mutexes
  BY <1>1, <1>2
<1>4. /\ SubSeq(s, 1, n) \in Seq(Mutexes)
      /\ Len(SubSeq(s, 1, n)) = IF 1 <= n THEN n - 1 + 1 ELSE 0
      /\ \A i \in 1..(n - 1 + 1) : SubSeq(s, 1, n)[i] = s[1 + i - 1]
  <2> HIDE DEF n
  <2> QED BY <1>3, SubSeqProperties
<1>5. Innermost(s) \in Mutexes
  BY <1>1, <1>2 DEF Innermost
<1>6. Len(SubSeq(s, 1, n)) = n /\ n - 1 + 1 = n
  <2>1. n \in Nat
    BY <1>1
  <2> HIDE DEF n
  <2> QED BY <1>4, <2>1
<1>7. \A i \in 1..n : SubSeq(s, 1, n)[i] = s[i]
  <2>1. \A i \in 1..n : 1 + i - 1 = i
    BY <1>1
  <2> HIDE DEF n
  <2> QED BY <1>4, <1>6, <2>1
<1> QED BY <1>1, <1>4, <1>5, <1>6, <1>7

-----------------------------------------------------------------------------
(* Every step keeps the types. *)
LEMMA TypeStep == TypeOK /\ GuardsOwn /\ [Next]_vars => TypeOK'
<1> SUFFICES ASSUME TypeOK, GuardsOwn, [Next]_vars PROVE TypeOK'
  OBVIOUS
<1> USE DEF TypeOK, CallsOwn, Go
<1>1. ASSUME NEW t \in Threads, NEW m \in Mutexes, Lock(t, m)
      PROVE  TypeOK'
  BY <1>1 DEF Lock
<1>2. ASSUME NEW t \in Threads, NEW m \in Mutexes, TryLock(t, m)
      PROVE  TypeOK'
  BY <1>2 DEF TryLock
<1>3. ASSUME NEW t \in Threads, Acquire(t)
      PROVE  TypeOK'
  BY <1>3 DEF Acquire
<1>4. ASSUME NEW t \in Threads, Update(t)
      PROVE  TypeOK'
  <2>1. mutex[t] \in Mutexes /\ hcl_val[mutex[t]] \in 0..Top
    BY <1>4 DEF Update
  <2>2. Append(held[t], mutex[t]) \in Seq(Mutexes)
    BY <2>1, AppendProperties
  <2> QED BY <1>4, <2>1, <2>2 DEF Update
<1>5. ASSUME NEW t \in Threads, Unlock(t)
      PROVE  TypeOK'
  <2>1. held[t] \in Seq(Mutexes) /\ held[t] # <<>>
    BY <1>5 DEF Unlock
  <2>2. /\ Innermost(held[t]) \in Mutexes
        /\ SubSeq(held[t], 1, Len(held[t]) - 1) \in Seq(Mutexes)
    BY <2>1, Popped
  <2>3. this_hcl_val' \in [Threads -> 0..Top]
    BY <1>5, <2>2 DEF Unlock
  <2>4. held' \in [Threads -> Seq(Mutexes)]
    BY <1>5, <2>2 DEF Unlock
  <2>5. /\ pc' = [pc EXCEPT ![t] = "unlocking"]
        /\ mutex' = [mutex EXCEPT ![t] = Innermost(held[t])]
        /\ UNCHANGED <<owner, pre_hcl_val>>
    BY <1>5 DEF Unlock
  <2>6. owner[Innermost(held[t])] = t
    BY <2>1, Popped DEF GuardsOwn, Innermost
  <2> QED BY <2>2, <2>3, <2>4, <2>5, <2>6
<1>6. ASSUME NEW t \in Threads, Release(t)
      PROVE  TypeOK'
  BY <1>6 DEF Release
<1>7. ASSUME UNCHANGED vars PROVE TypeOK'
  BY <1>7 DEF vars
<1> QED BY <1>1, <1>2, <1>3, <1>4, <1>5, <1>6, <1>7 DEF Next

(* Every step keeps owners and guards in agreement. *)
LEMMA OwnStep ==
  TypeOK /\ OwnInv /\ HeldDescends /\ [Next]_vars => OwnInv'
<1> SUFFICES ASSUME TypeOK, OwnInv, HeldDescends, [Next]_vars
             PROVE  OwnInv'
  OBVIOUS
<1> USE DEF OwnInv, Go
<1>a. /\ owner \in [Mutexes -> Threads \cup {NoThread}]
      /\ pc \in [Threads -> {"run", "locking", "locked", "unlocking"}]
      /\ mutex \in [Threads -> Mutexes \cup {NoMutex}]
      /\ held \in [Threads -> Seq(Mutexes)]
  BY DEF TypeOK
<1>b. \A u \in Threads : \A i \in 1..Len(held[u]) : held[u][i] \in Mutexes
  BY <1>a, ElementOfSeq
<1>c. \A u \in Threads : /\ pc[u] # "run" => mutex[u] \in Mutexes
                         /\ pc[u] \in {"locked", "unlocking"} => owner[mutex[u]] = u
  BY DEF TypeOK, CallsOwn
<1>d. hcl_val \in [Mutexes -> Nat]
  OBVIOUS
<1>1. ASSUME NEW t \in Threads, NEW m \in Mutexes, Lock(t, m)
      PROVE  OwnInv'
  <2>1. GuardsOwn'
    BY <1>a, <1>1 DEF Lock, GuardsOwn
  <2>2. CallsNotHeld'
    BY <1>a, <1>1 DEF Lock, CallsNotHeld
  <2>3. OwnersHave'
    BY <1>a, <1>1 DEF Lock, OwnersHave
  <2> QED BY <2>1, <2>2, <2>3
<1>2. ASSUME NEW t \in Threads, NEW m \in Mutexes, owner[m] = NoThread,
             owner' = [owner EXCEPT ![m] = t], Go(t, "locked", m),
             pc[t] \in {"run", "locking"}, UNCHANGED held
      PROVE  OwnInv'
  <2>1. \A u \in Threads : \A i \in 1..Len(held[u]) : held[u][i] # m
    BY <1>2 DEF GuardsOwn
  <2>a. \A u \in Threads \ {t} : pc'[u] = pc[u] /\ mutex'[u] = mutex[u]
    BY <1>a, <1>2
  <2>b. pc'[t] = "locked" /\ mutex'[t] = m /\ held' = held
    BY <1>a, <1>2
  <2>c. owner'[m] = t /\ \A k \in Mutexes \ {m} : owner'[k] = owner[k]
    BY <1>a, <1>2
  <2>2. GuardsOwn'
    BY <1>b, <2>1, <2>b, <2>c DEF GuardsOwn
  <2>3. CallsNotHeld'
    BY <2>1, <2>a, <2>b DEF CallsNotHeld
  <2>4. OwnersHave'
    <3> SUFFICES ASSUME NEW k \in Mutexes, owner'[k] \in Threads
                 PROVE  \/ \E i \in 1..Len(held[owner'[k]]) : held[owner'[k]][i] = k
                        \/ /\ pc'[owner'[k]] \in {"locked", "unlocking"}
                           /\ mutex'[owner'[k]] = k
      BY <2>b DEF OwnersHave
    <3>1. CASE k = m
      BY <2>b, <2>c, <3>1
    <3>2. CASE k # m /\ owner[k] # t
      BY <2>a, <2>c, <3>2 DEF OwnersHave
    <3>3. CASE k # m /\ owner[k] = t
      BY <1>2, <2>c, <3>3 DEF OwnersHave
    <3> QED BY <3>1, <3>2, <3>3
  <2> QED BY <2>2, <2>3, <2>4
<1>3. ASSUME NEW t \in Threads, NEW m \in Mutexes, TryLock(t, m)
      PROVE  OwnInv'
  BY <1>2, <1>3 DEF TryLock
<1>4. ASSUME NEW t \in Threads, Acquire(t)
      PROVE  OwnInv'
  BY <1>c, <1>2, <1>4 DEF Acquire
<1>5. ASSUME NEW t \in Threads, Update(t)
      PROVE  OwnInv'
  <2> DEFINE n == Len(held[t])
  <2>1. mutex[t] \in Mutexes /\ owner[mutex[t]] = t
    BY <1>c, <1>5 DEF Update
  <2>2. /\ n \in Nat
        /\ held'[t] = Append(held[t], mutex[t])
        /\ Len(held'[t]) = n + 1
        /\ \A i \in 1..n : held'[t][i] = held[t][i]
        /\ held'[t][n + 1] = mutex[t]
    BY <1>a, <1>5, <2>1, AppendProperties, LenProperties DEF Update
  <2>3. /\ \A u \in Threads \ {t} : /\ held'[u] = held[u]
                                   /\ pc'[u] = pc[u]
                                   /\ mutex'[u] = mutex[u]
        /\ pc'[t] = "run" /\ owner' = owner
    BY <1>a, <1>5 DEF Update
  <2> HIDE DEF n
  <2>4. \A i \in 1..(n + 1) : i \in 1..n \/ i = n + 1
    BY <2>2
  <2>5. GuardsOwn'
    <3>1. \A i \in 1..n : owner[held[t][i]] = t
      BY DEF GuardsOwn, n
    <3>2. \A i \in 1..Len(held'[t]) : owner'[held'[t][i]] = t
      BY <2>1, <2>2, <2>3, <2>4, <3>1
    <3> QED BY <2>3, <3>2 DEF GuardsOwn
  <2>6. CallsNotHeld'
    <3>1. \A u \in Threads : pc'[u] \in {"locked", "unlocking"} => u # t
      BY <2>3
    <3> QED BY <2>3, <3>1 DEF CallsNotHeld
  <2>7. OwnersHave'
    <3> SUFFICES ASSUME NEW m \in Mutexes, owner[m] \in Threads
                 PROVE  \/ \E i \in 1..Len(held'[owner[m]]) : held'[owner[m]][i] = m
                        \/ /\ pc'[owner[m]] \in {"locked", "unlocking"}
                           /\ mutex'[owner[m]] = m
      BY <2>3 DEF OwnersHave
    <3> DEFINE o == owner[m]
    <3>a. \/ \E i \in 1..Len(held[o]) : held[o][i] = m
          \/ pc[o] \in {"locked", "unlocking"} /\ mutex[o] = m
      BY DEF OwnersHave
    <3>1. CASE owner[m] # t
      <4>1. held'[o] = held[o] /\ pc'[o] = pc[o] /\ mutex'[o] = mutex[o]
        BY <2>3, <3>1
      <4> QED BY <3>a, <4>1
    <3>2. CASE owner[m] = t /\ m = mutex[t]
      <4>1. n + 1 \in 1..Len(held'[t])
        BY <2>2
      <4> QED BY <2>2, <3>2, <4>1
    <3>3. CASE owner[m] = t /\ m # mutex[t]
      <4>1. PICK i \in 1..n : held[t][i] = m
        BY <3>3, <3>a, <1>5 DEF n, Update
      <4>2. i \in 1..Len(held'[t])
        BY <2>2
      <4> QED BY <2>2, <3>3, <4>1, <4>2
    <3> QED BY <3>1, <3>2, <3>3
  <2> QED BY <2>5, <2>6, <2>7
<1>6. ASSUME NEW t \in Threads, Unlock(t)
      PROVE  OwnInv'
  <2> DEFINE n == Len(held[t]) - 1
  <2> DEFINE last == Innermost(held[t])
  <2>1. held[t] \in Seq(Mutexes) /\ held[t] # <<>>
    BY <1>a, <1>6 DEF Unlock
  <2>2. /\ n \in Nat /\ Len(held[t]) = n + 1
        /\ last \in Mutexes /\ last = held[t][n + 1]
        /\ held'[t] = SubSeq(held[t], 1, n)
        /\ Len(held'[t]) = n
        /\ \A i \in 1..n : held'[t][i] = held[t][i]
    BY <1>a, <1>6, <2>1, Popped DEF Unlock, Innermost
  <2>3. /\ \A u \in Threads \ {t} : /\ held'[u] = held[u]
                                   /\ pc'[u] = pc[u]
                                   /\ mutex'[u] = mutex[u]
        /\ pc'[t] = "unlocking" /\ mutex'[t] = last /\ owner' = owner
    BY <1>a, <1>6 DEF Unlock
  <2> HIDE DEF n, last
  <2>4. \A i \in 1..(n + 1) : i \in 1..n \/ i = n + 1
    BY <2>2
  <2>5. GuardsOwn'
    <3>1. \A i \in 1..n : owner[held[t][i]] = t
      <4>1. \A i \in 1..n : i \in 1..Len(held[t])
        BY <2>2
      <4> QED BY <4>1 DEF GuardsOwn
    <3>2. \A i \in 1..Len(held'[t]) : owner'[held'[t][i]] = t
      BY <2>2, <2>3, <3>1
    <3> QED BY <2>3, <3>2 DEF GuardsOwn
  <2>6. CallsNotHeld'
    <3>1. ASSUME NEW i \in 1..n PROVE held[t][i] # last
      <4>1. i \in 1..Len(held[t]) /\ n + 1 \in 1..Len(held[t]) /\ i < n + 1
        BY <2>2
      <4>2. hcl_val[last] < hcl_val[held[t][i]]
        BY <2>2, <4>1 DEF HeldDescends
      <4>3. hcl_val[last] \in Nat
        BY <2>2
      <4> QED BY <4>2, <4>3
    <3>2. \A i \in 1..Len(held'[t]) : held'[t][i] # mutex'[t]
      BY <2>2, <2>3, <3>1
    <3> QED BY <2>3, <3>2 DEF CallsNotHeld
  <2>7. OwnersHave'
    <3> SUFFICES ASSUME NEW m \in Mutexes, owner[m] \in Threads
                 PROVE  \/ \E i \in 1..Len(held'[owner[m]]) : held'[owner[m]][i] = m
                        \/ /\ pc'[owner[m]] \in {"locked", "unlocking"}
                           /\ mutex'[owner[m]] = m
      BY <2>3 DEF OwnersHave
    <3> DEFINE o == owner[m]
    <3>a. \/ \E i \in 1..Len(held[o]) : held[o][i] = m
          \/ pc[o] \in {"locked", "unlocking"} /\ mutex[o] = m
      BY DEF OwnersHave
    <3>1. CASE owner[m] # t
      <4>1. held'[o] = held[o] /\ pc'[o] = pc[o] /\ mutex'[o] = mutex[o]
        BY <2>3, <3>1
      <4> QED BY <3>a, <4>1
    <3>2. CASE owner[m] = t
      <4>1. pc[t] = "run"
        BY <1>6 DEF Unlock
      <4>2. PICK i \in 1..(n + 1) : held[t][i] = m
        BY <2>2, <3>2, <3>a, <4>1
      <4>3. CASE i \in 1..n
        BY <2>2, <3>2, <4>2, <4>3
      <4>4. CASE i = n + 1
        BY <2>2, <2>3, <3>2, <4>2, <4>4
      <4> QED BY <2>4, <4>2, <4>3, <4>4
    <3> QED BY <3>1, <3>2
  <2> QED BY <2>5, <2>6, <2>7
<1>7. ASSUME NEW t \in Threads, Release(t)
      PROVE  OwnInv'
  <2>1. mutex[t] \in Mutexes /\ owner[mutex[t]] = t
    BY <1>c, <1>7 DEF Release
  <2>2. \A u \in Threads : \A i \in 1..Len(held[u]) : held[u][i] # mutex[t]
    BY <1>7, <2>1 DEF GuardsOwn, CallsNotHeld, Release
  <2>3. GuardsOwn'
    BY <1>a, <1>b, <1>7, <2>1, <2>2 DEF GuardsOwn, Release
  <2>4. CallsNotHeld'
    BY <1>a, <1>7 DEF CallsNotHeld, Release
  <2>5. OwnersHave'
    BY <1>a, <1>7, <2>1 DEF OwnersHave, Release
  <2> QED BY <2>3, <2>4, <2>5
<1>8. ASSUME UNCHANGED vars PROVE OwnInv'
  BY <1>8 DEF vars, GuardsOwn, CallsNotHeld, OwnersHave
<1> QED BY <1>1, <1>3, <1>4, <1>5, <1>6, <1>7, <1>8 DEF Next

-----------------------------------------------------------------------------
(* Every step keeps the levels. *)
LEMMA LevelStep == TypeOK /\ OwnInv /\ LevelInv /\ [Next]_vars => LevelInv'
<1> SUFFICES ASSUME TypeOK, OwnInv, LevelInv, [Next]_vars
             PROVE  LevelInv'
  OBVIOUS
<1> USE DEF LevelInv, Go
<1>a. /\ pre_hcl_val \in [Mutexes -> 0..Top]
      /\ this_hcl_val \in [Threads -> 0..Top]
      /\ pc \in [Threads -> {"run", "locking", "locked", "unlocking"}]
      /\ mutex \in [Threads -> Mutexes \cup {NoMutex}]
      /\ held \in [Threads -> Seq(Mutexes)]
  BY DEF TypeOK
<1>b. \A u \in Threads : \A i \in 1..Len(held[u]) : held[u][i] \in Mutexes
  BY <1>a, ElementOfSeq
<1>c. \A u \in Threads : /\ pc[u] # "run" => mutex[u] \in Mutexes
                         /\ pc[u] \in {"locked", "unlocking"} => owner[mutex[u]] = u
  BY DEF TypeOK, CallsOwn
<1>d. hcl_val \in [Mutexes -> Nat]
  OBVIOUS
<1>e. \A u \in Threads : Len(held[u]) \in Nat /\ (held[u] = <<>> <=> Len(held[u]) = 0)
  BY <1>a, LenProperties, EmptySeq
<1>1. ASSUME UNCHANGED <<pre_hcl_val, this_hcl_val, held>>
      PROVE  SavedLevels' /\ LevelIsInnermost' /\ HeldDescends'
  BY <1>1 DEF SavedLevels, LevelIsInnermost, LevelOf, HeldDescends
<1>2. ASSUME NEW t \in Threads, NEW m \in Mutexes,
             Lock(t, m) \/ TryLock(t, m)
      PROVE  LevelInv'
  <2>1. Passed'
    BY <1>a, <1>2 DEF Passed, Checked, Lock, TryLock
  <2> QED BY <1>1, <1>2, <2>1 DEF Lock, TryLock
<1>3. ASSUME NEW t \in Threads, Acquire(t) \/ Release(t)
      PROVE  LevelInv'
  <2>1. Passed'
    BY <1>a, <1>3 DEF Passed, Acquire, Release
  <2> QED BY <1>1, <1>3, <2>1 DEF Acquire, Release
<1>4. ASSUME NEW t \in Threads, Update(t)
      PROVE  LevelInv'
  <2> DEFINE n == Len(held[t])
  <2> DEFINE new == mutex[t]
  <2>1. new \in Mutexes /\ owner[new] = t
    BY <1>c, <1>4 DEF Update
  <2>2. /\ n \in Nat
        /\ held'[t] = Append(held[t], new)
        /\ Len(held'[t]) = n + 1
        /\ \A i \in 1..n : held'[t][i] = held[t][i]
        /\ held'[t][n + 1] = new
    BY <1>a, <1>4, <2>1, AppendProperties, LenProperties DEF Update
  <2>3. /\ \A u \in Threads \ {t} : /\ held'[u] = held[u]
                                   /\ pc'[u] = pc[u]
                                   /\ mutex'[u] = mutex[u]
                                   /\ this_hcl_val'[u] = this_hcl_val[u]
        /\ pc'[t] = "run"
        /\ this_hcl_val'[t] = hcl_val[new]
        /\ pre_hcl_val'[new] = this_hcl_val[t]
        /\ \A k \in Mutexes \ {new} : pre_hcl_val'[k] = pre_hcl_val[k]
    BY <1>a, <1>4, <2>1 DEF Update
  <2>4. \A u \in Threads : \A i \in 1..Len(held[u]) : held[u][i] # new
    BY <1>4, <2>1 DEF OwnInv, GuardsOwn, CallsNotHeld, Update
  <2>5. this_hcl_val[t] = IF n = 0 THEN Top ELSE hcl_val[held[t][n]]
    BY <1>e DEF LevelIsInnermost, LevelOf, Innermost
  <2>6. hcl_val[new] < this_hcl_val[t]
    BY <1>4 DEF Passed, Update
  <2>b. \A i \in 1..n : held[t][i] \in Mutexes /\ held[t][i] # new
    BY <1>b, <2>4
  <2>c. ASSUME NEW i \in 1..n
        PROVE  pre_hcl_val[held[t][i]] =
                 IF i = 1 THEN Top ELSE hcl_val[held[t][i - 1]]
    BY DEF SavedLevels
  <2>d. ASSUME NEW i \in 1..n, NEW j \in 1..n, i < j
        PROVE  hcl_val[held[t][j]] < hcl_val[held[t][i]]
    BY <2>d DEF HeldDescends
  <2> HIDE DEF n, new
  <2>7. \A i \in 1..(n + 1) : i \in 1..n \/ i = n + 1
    BY <2>2
  <2>8. Passed'
    <3>1. \A u \in Threads : pc'[u] \in {"locking", "locked"} => u # t
      BY <2>3
    <3> QED BY <2>3, <3>1 DEF Passed
  <2>9. SavedLevels'
    <3>1. ASSUME NEW u \in Threads \ {t}, NEW i \in 1..Len(held[u])
          PROVE  pre_hcl_val'[held'[u][i]] =
                   IF i = 1 THEN Top ELSE hcl_val[held'[u][i - 1]]
      <4>1. pre_hcl_val'[held[u][i]] = pre_hcl_val[held[u][i]]
        BY <1>b, <2>3, <2>4
      <4> QED BY <2>3, <4>1 DEF SavedLevels
    <3>2. ASSUME NEW i \in 1..n
          PROVE  pre_hcl_val'[held'[t][i]] =
                   IF i = 1 THEN Top ELSE hcl_val[held'[t][i - 1]]
      <4>1. pre_hcl_val'[held'[t][i]] = pre_hcl_val[held[t][i]]
        BY <2>2, <2>3, <2>b
      <4>2. i # 1 => i - 1 \in 1..n
        BY <2>2
      <4> QED BY <2>2, <2>c, <4>1, <4>2
    <3>3. pre_hcl_val'[held'[t][n + 1]] =
            IF n + 1 = 1 THEN Top ELSE hcl_val[held'[t][(n + 1) - 1]]
      <4>1. (n + 1) - 1 = n /\ (n # 0 => n \in 1..n) /\ (n + 1 = 1 <=> n = 0)
        BY <2>2
      <4>2. pre_hcl_val'[held'[t][n + 1]] = this_hcl_val[t]
        BY <2>2, <2>3
      <4> QED BY <2>2, <2>5, <4>1, <4>2
    <3>4. ASSUME NEW i \in 1..Len(held'[t])
          PROVE  pre_hcl_val'[held'[t][i]] =
                   IF i = 1 THEN Top ELSE hcl_val[held'[t][i - 1]]
      BY <2>2, <2>7, <3>2, <3>3
    <3>5. ASSUME NEW u \in Threads, NEW i \in 1..Len(held'[u])
          PROVE  pre_hcl_val'[held'[u][i]] =
                   IF i = 1 THEN Top ELSE hcl_val[held'[u][i - 1]]
      <4>1. CASE u = t
        BY <3>4, <4>1
      <4>2. CASE u # t
        <5>1. i \in 1..Len(held[u])
          BY <2>3, <4>2
        <5> QED BY <3>1, <4>2, <5>1
      <4> QED BY <4>1, <4>2
    <3> QED BY <3>5 DEF SavedLevels
  <2>10. LevelIsInnermost'
    <3>1. this_hcl_val'[t] = LevelOf(t)'
      <4>1. held'[t] # <<>>
        BY <2>2
      <4>2. Innermost(held'[t]) = new
        BY <2>2 DEF Innermost
      <4> QED BY <2>3, <4>1, <4>2 DEF LevelOf
    <3>2. ASSUME NEW u \in Threads \ {t} PROVE this_hcl_val'[u] = LevelOf(u)'
      BY <2>3 DEF LevelIsInnermost, LevelOf
    <3> QED BY <3>1, <3>2 DEF LevelIsInnermost
  <2>11. HeldDescends'
    <3>1. ASSUME NEW i \in 1..n PROVE hcl_val[new] < hcl_val[held[t][i]]
      <4>1. n \in 1..n /\ n # 0
        BY <2>2
      <4>2. hcl_val[new] < hcl_val[held[t][n]]
        BY <2>5, <2>6, <4>1
      <4>3. CASE i = n
        BY <4>2, <4>3
      <4>4. CASE i < n
        <5>1. hcl_val[held[t][n]] < hcl_val[held[t][i]]
          BY <2>d, <4>1, <4>4
        <5>2. /\ hcl_val[new] \in Nat
              /\ hcl_val[held[t][n]] \in Nat
              /\ hcl_val[held[t][i]] \in Nat
          BY <1>d, <2>1, <2>b, <4>1
        <5> QED BY <4>2, <5>1, <5>2
      <4> QED BY <2>2, <4>3, <4>4
    <3>2. ASSUME NEW i \in 1..(n + 1), NEW j \in 1..(n + 1), i < j
          PROVE  hcl_val[held'[t][j]] < hcl_val[held'[t][i]]
      <4>1. i \in 1..n
        BY <2>2, <3>2
      <4>2. CASE j \in 1..n
        BY <2>2, <2>d, <3>2, <4>1, <4>2
      <4>3. CASE j = n + 1
        BY <2>2, <3>1, <4>1, <4>3
      <4> QED BY <2>7, <4>2, <4>3
    <3> QED BY <2>2, <2>3, <3>2 DEF HeldDescends
  <2> QED BY <2>8, <2>9, <2>10, <2>11
<1>5. ASSUME NEW t \in Threads, Unlock(t)
      PROVE  LevelInv'
  <2> DEFINE n == Len(held[t]) - 1
  <2>1. held[t] \in Seq(Mutexes) /\ held[t] # <<>>
    BY <1>a, <1>5 DEF Unlock
  <2>2. /\ n \in Nat /\ Len(held[t]) = n + 1
        /\ Innermost(held[t]) = held[t][n + 1]
        /\ held'[t] \in Seq(Mutexes)
        /\ held'[t] = SubSeq(held[t], 1, n)
        /\ Len(held'[t]) = n
        /\ \A i \in 1..n : held'[t][i] = held[t][i]
    BY <1>a, <1>5, <2>1, Popped DEF Unlock, Innermost
  <2>3. /\ \A u \in Threads \ {t} : /\ held'[u] = held[u]
                                   /\ pc'[u] = pc[u]
                                   /\ mutex'[u] = mutex[u]
                                   /\ this_hcl_val'[u] = this_hcl_val[u]
        /\ pc'[t] = "unlocking"
        /\ this_hcl_val'[t] = pre_hcl_val[Innermost(held[t])]
        /\ pre_hcl_val' = pre_hcl_val
    BY <1>a, <1>5 DEF Unlock
  <2> HIDE DEF n
  <2>4. \A i \in 1..n : i \in 1..(n + 1)
    BY <2>2
  <2>5. Passed'
    <3>1. \A u \in Threads : pc'[u] \in {"locking", "locked"} => u # t
      BY <2>3
    <3> QED BY <2>3, <3>1 DEF Passed
  <2>6. SavedLevels'
    <3>1. ASSUME NEW i \in 1..n
          PROVE  pre_hcl_val[held'[t][i]] =
                   IF i = 1 THEN Top ELSE hcl_val[held'[t][i - 1]]
      <4>1. i # 1 => i - 1 \in 1..n
        BY <2>2
      <4>2. pre_hcl_val[held[t][i]] =
              IF i = 1 THEN Top ELSE hcl_val[held[t][i - 1]]
        BY <2>2, <2>4 DEF SavedLevels
      <4> QED BY <2>2, <4>1, <4>2
    <3>2. ASSUME NEW u \in Threads, NEW i \in 1..Len(held'[u])
          PROVE  pre_hcl_val'[held'[u][i]] =
                   IF i = 1 THEN Top ELSE hcl_val[held'[u][i - 1]]
      <4>1. CASE u = t
        BY <2>2, <2>3, <3>1, <4>1
      <4>2. CASE u # t
        BY <2>3, <4>2 DEF SavedLevels
      <4> QED BY <4>1, <4>2
    <3> QED BY <3>2 DEF SavedLevels
  <2>7. LevelIsInnermost'
    <3>1. pre_hcl_val[held[t][n + 1]] =
            IF n + 1 = 1 THEN Top ELSE hcl_val[held[t][(n + 1) - 1]]
      <4>1. n + 1 \in 1..Len(held[t])
        BY <2>2
      <4> QED BY <4>1 DEF SavedLevels
    <3>2. (n + 1) - 1 = n /\ (n + 1 = 1 <=> n = 0) /\ (n # 0 => n \in 1..n)
      BY <2>2
    <3>3. held'[t] = <<>> <=> n = 0
      BY <2>2, EmptySeq
    <3>4. this_hcl_val'[t] = IF n = 0 THEN Top ELSE hcl_val[held'[t][n]]
      BY <2>2, <2>3, <3>1, <3>2
    <3>5. this_hcl_val'[t] = LevelOf(t)'
      BY <2>2, <3>3, <3>4 DEF LevelOf, Innermost
    <3>6. ASSUME NEW u \in Threads \ {t} PROVE this_hcl_val'[u] = LevelOf(u)'
      BY <2>3 DEF LevelIsInnermost, LevelOf
    <3> QED BY <3>5, <3>6 DEF LevelIsInnermost
  <2>8. HeldDescends'
    <3>1. ASSUME NEW i \in 1..n, NEW j \in 1..n, i < j
          PROVE  hcl_val[held'[t][j]] < hcl_val[held'[t][i]]
      <4>1. hcl_val[held[t][j]] < hcl_val[held[t][i]]
        BY <2>2, <2>4, <3>1 DEF HeldDescends
      <4> QED BY <2>2, <4>1
    <3> QED BY <2>2, <2>3, <3>1 DEF HeldDescends
  <2> QED BY <2>5, <2>6, <2>7, <2>8
<1>6. ASSUME UNCHANGED vars PROVE LevelInv'
  BY <1>1, <1>6 DEF vars, Passed
<1> QED BY <1>2, <1>3, <1>4, <1>5, <1>6 DEF Next

-----------------------------------------------------------------------------
(* All of it is inductive. *)
LEMMA Inductive == Spec => [](TypeOK /\ OwnInv /\ LevelInv)
<1>1. Init => TypeOK /\ OwnInv /\ LevelInv
  <2> SUFFICES ASSUME Init PROVE TypeOK /\ OwnInv /\ LevelInv
    OBVIOUS
  <2>1. TypeOK
    BY EmptySeq DEF Init, TypeOK, CallsOwn
  <2>2. \A t \in Threads : held[t] = <<>> /\ Len(held[t]) = 0 /\ pc[t] = "run"
    BY EmptySeq DEF Init
  <2>3. OwnInv
    BY <2>2 DEF Init, OwnInv, GuardsOwn, CallsNotHeld, OwnersHave
  <2>4. LevelInv
    BY <2>2 DEF Init, LevelInv, Passed, SavedLevels, LevelIsInnermost, LevelOf,
                HeldDescends
  <2> QED BY <2>1, <2>3, <2>4
<1>2. TypeOK /\ OwnInv /\ LevelInv /\ [Next]_vars => (TypeOK /\ OwnInv /\ LevelInv)'
  BY TypeStep, OwnStep, LevelStep DEF OwnInv, LevelInv
<1> QED BY <1>1, <1>2, PTL DEF Spec

(* The variables keep their types, and a call of lock() or unlock() that   *)
(* has the inner mutex is its owner (hierarchical_mutex.cpp:26-43).        *)
THEOREM TypeCorrect == Spec => []TypeOK
BY Inductive, PTL

(* What a thread has under a guard, nobody else has (lines 26-43). *)
THEOREM GuardsExclude == Spec => []GuardsOwn
<1>1. OwnInv => GuardsOwn
  BY DEF OwnInv
<1> QED BY <1>1, Inductive, PTL

(* A thread gets back the level it saved in a mutex: its level is always   *)
(* that of its innermost guard (lines 17-20 and 32-35).                    *)
THEOREM LevelIsRestored == Spec => []LevelIsInnermost
<1>1. LevelInv => LevelIsInnermost
  BY DEF LevelInv
<1> QED BY <1>1, Inductive, PTL

(* The levels a thread holds decrease (lines 12-16). *)
THEOREM HierarchyHolds == Spec => []HeldDescends
<1>1. LevelInv => HeldDescends
  BY DEF LevelInv
<1> QED BY <1>1, Inductive, PTL

-----------------------------------------------------------------------------
(* The owner of the mutex a thread waits for only waits for a lower one. *)
LEMMA OwnerWaitsLower ==
  ASSUME TypeOK, OwnInv, LevelInv, NEW t \in Threads, pc[t] = "locking",
         NEW u \in Threads, pc[u] = "locking", owner[mutex[t]] = u
  PROVE  hcl_val[mutex[u]] < hcl_val[mutex[t]]
<1>1. mutex[t] \in Mutexes /\ mutex[u] \in Mutexes
  BY DEF TypeOK
<1>2. PICK i \in 1..Len(held[u]) : held[u][i] = mutex[t]
  BY <1>1 DEF OwnInv, OwnersHave
<1> DEFINE n == Len(held[u])
<1>3. n \in Nat /\ n # 0 /\ n \in 1..n /\ held[u] # <<>>
  BY <1>2, LenProperties, EmptySeq DEF TypeOK
<1>4. held[u][n] \in Mutexes
  BY <1>3, ElementOfSeq DEF TypeOK
<1>5. hcl_val[mutex[u]] < hcl_val[held[u][n]]
  BY <1>3 DEF LevelInv, Passed, LevelIsInnermost, LevelOf, Innermost
<1>6. i = n \/ hcl_val[held[u][n]] < hcl_val[mutex[t]]
  <2>1. CASE i < n
    BY <1>2, <1>3, <2>1 DEF LevelInv, HeldDescends
  <2> QED BY <1>2, <1>3, <2>1
<1>7. /\ hcl_val[mutex[u]] \in Nat
      /\ hcl_val[mutex[t]] \in Nat
      /\ hcl_val[held[u][n]] \in Nat
  BY <1>1, <1>4
<1> HIDE DEF n
<1> QED BY <1>2, <1>5, <1>6, <1>7

(* No threads wait for each other, however many they are and whatever the  *)
(* levels (lines 26-30: the check is made before the inner mutex is        *)
(* waited for).                                                            *)
THEOREM DeadlockFree == Spec => []NoCycle
<1>1. ASSUME TypeOK, OwnInv, LevelInv PROVE NoCycle
  <2> SUFFICES ASSUME NEW S \in SUBSET Threads, S # {},
                      \A t \in S : pc[t] = "locking" /\ owner[mutex[t]] \in S
               PROVE  FALSE
    BY DEF NoCycle
  <2> DEFINE W == {hcl_val[mutex[t]] : t \in S}
  <2>1. \A t \in S : mutex[t] \in Mutexes
    BY <1>1 DEF TypeOK
  <2>2. W \subseteq Nat /\ W # {}
    BY <2>1
  <2>3. \E x \in W : \A y \in W : ~ (<<y, x>> \in OpToRel(<, Nat))
    <3> HIDE DEF W
    <3> QED BY <2>2, NatLessThanWellFounded, WFMin
  <2>4. PICK x \in W : \A y \in W : ~ (y < x)
    BY <2>2, <2>3 DEF OpToRel
  <2>5. PICK t \in S : hcl_val[mutex[t]] = x
    OBVIOUS
  <2>6. owner[mutex[t]] \in S
    OBVIOUS
  <2>7. hcl_val[mutex[owner[mutex[t]]]] < hcl_val[mutex[t]]
    BY <1>1, <2>6, OwnerWaitsLower
  <2> QED BY <2>4, <2>5, <2>6, <2>7
<1> QED BY <1>1, Inductive, PTL
-----------------------------------------------------------------------------
(* The return of lock() takes a free lock below those its thread has.      *)
LEMMA UpdateTakes ==
  ASSUME TypeOK, OwnInv, LevelInv, NEW t \in Threads, Update(t)
  PROVE  mutex[t] \in Mutexes /\ Order!Take(t, mutex[t])
<1> DEFINE new == mutex[t]
           n == Len(held[t])
<1>1. /\ new \in Mutexes /\ owner[new] = t
      /\ held' = [held EXCEPT ![t] = Append(@, new)]
  BY DEF Update, TypeOK, CallsOwn
<1>2. ASSUME NEW u \in Threads PROVE ~Order!Holds(u, new)
  <2> SUFFICES ASSUME NEW i \in 1..Len(held[u]), held[u][i] = new PROVE FALSE
    BY DEF Order!Holds
  <2>1. u = t
    BY <1>1 DEF OwnInv, GuardsOwn
  <2> QED BY <2>1 DEF OwnInv, CallsNotHeld, Update
<1>3. ASSUME NEW other \in Mutexes, Order!Holds(t, other)
      PROVE  hcl_val[new] < hcl_val[other]
  <2>1. PICK i \in 1..n : held[t][i] = other
    BY <1>3 DEF Order!Holds
  <2>2. held[t] \in Seq(Mutexes) /\ n \in Nat /\ n # 0 /\ n \in 1..n /\ held[t] # <<>>
    BY <2>1, LenProperties, EmptySeq DEF TypeOK
  <2>3. hcl_val[new] < hcl_val[held[t][n]]
    BY <2>2 DEF LevelInv, Passed, LevelIsInnermost, LevelOf, Innermost, Update
  <2>4. held[t][n] \in Mutexes
    BY <2>2, ElementOfSeq
  <2>5. i = n \/ hcl_val[held[t][n]] < hcl_val[other]
    <3>1. CASE i < n
      BY <2>1, <2>2, <3>1 DEF LevelInv, HeldDescends
    <3> QED BY <2>1, <2>2, <3>1
  <2>6. /\ hcl_val[new] \in Nat
        /\ hcl_val[other] \in Nat
        /\ hcl_val[held[t][n]] \in Nat
    BY <1>1, <2>4
  <2> HIDE DEF n, new
  <2> QED BY <2>1, <2>3, <2>5, <2>6
<1> QED BY <1>1, <1>2, <1>3 DEF Order!Take

(* Every other step leaves the guards alone, or ends the innermost one.    *)
LEMMA OrderStep ==
  TypeOK /\ OwnInv /\ LevelInv /\ [Next]_vars => [Order!Next]_held
<1> SUFFICES ASSUME TypeOK, OwnInv, LevelInv, [Next]_vars, held' # held
             PROVE  Order!Next
  OBVIOUS
<1>1. ASSUME NEW t \in Threads, Update(t) PROVE Order!Next
  BY <1>1, UpdateTakes DEF Order!Next
<1>2. ASSUME NEW t \in Threads, Unlock(t) PROVE Order!Next
  BY <1>2 DEF Unlock, Order!Next, Order!LetGo
<1> QED BY <1>1, <1>2 DEF Next, Lock, TryLock, Acquire, Release, vars

(* The mutexes implement the order of locks, for any threads and levels:   *)
(* that the check, the inner mutex and the levels are seen to in separate  *)
(* steps (lines 26-43) does not show.                                      *)
THEOREM HierarchyIsLockOrder == Spec => ImplementsLockOrder
<1>1. Init => Order!Init
  BY DEF Init, Order!Init
<1> QED BY <1>1, OrderStep, Inductive, PTL DEF Spec, ImplementsLockOrder, Order!Spec
=============================================================================
