-------------------------- MODULE HierarchicalMutex --------------------------
(***************************************************************************)
(* The mutexes of thread-master/hierarchical_mutex.cpp: each has a level,  *)
(* each thread has the level of the mutex it locked last, and a mutex may  *)
(* only be locked below that level.                                        *)
(*                                                                         *)
(* A step is what one thread does up to its next access to a shared mutex  *)
(* or to its own level.  Threads use lock_guard, as all of that file does, *)
(* so they unlock in the reverse order of locking.  A check that throws    *)
(* changes nothing; the guards it unwinds are ordinary unlocks.            *)
(***************************************************************************)
EXTENDS Naturals, Sequences

CONSTANTS
  Threads,   (* the threads                                                  *)
  Mutexes,   (* the hierarchical mutexes                                     *)
  hcl_val,   (* [Mutexes -> 0..Top], the level of each                       *)
  Top,       (* ULONG_MAX, the level of a thread that holds nothing          *)
  NoThread,  (* the owner of a free mutex                                    *)
  NoMutex    (* the mutex of a thread that is in none of the functions       *)

ASSUME MutexAssumption ==
  /\ Top \in Nat
  /\ hcl_val \in [Mutexes -> 0..Top]
  /\ NoThread \notin Threads
  /\ NoMutex \notin Mutexes

VARIABLES
  owner,         (* [Mutexes -> Threads \cup {NoThread}], the inner mtx      *)
  pre_hcl_val,   (* [Mutexes -> 0..Top]                                      *)
  this_hcl_val,  (* [Threads -> 0..Top], thread_local                        *)
  pc,            (* where each thread is in lock(), try_lock() or unlock()   *)
  mutex,         (* the mutex of that call                                   *)
  held           (* the mutexes each thread holds a lock_guard of, in order  *)

vars == <<owner, pre_hcl_val, this_hcl_val, pc, mutex, held>>

Init ==
  /\ owner = [m \in Mutexes |-> NoThread]
  /\ pre_hcl_val = [m \in Mutexes |-> 0]
  /\ this_hcl_val = [t \in Threads |-> Top]
  /\ pc = [t \in Threads |-> "run"]
  /\ mutex = [t \in Threads |-> NoMutex]
  /\ held = [t \in Threads |-> <<>>]

-----------------------------------------------------------------------------
(* Thread t is at this place of a call on mutex m. *)
Go(t, place, m) ==
  /\ pc' = [pc EXCEPT ![t] = place]
  /\ mutex' = [mutex EXCEPT ![t] = m]

(* A mutant: the check lets equal levels pass, but no mutex twice. *)
CheckedLoosely(t, m) == this_hcl_val[t] >= hcl_val[m] /\ owner[m] # t

(* check_for_hcl_violaction() does not throw. *)
Checked(t, m) == this_hcl_val[t] > hcl_val[m]

(* A mutant: lock() checks the level after it has the mutex, as it could   *)
(* to keep the check and the update together.                              *)
LockUnchecked(t, m) ==
  /\ pc[t] = "run"
  /\ owner[m] # t
  /\ Go(t, "locking", m)
  /\ UNCHANGED <<owner, pre_hcl_val, this_hcl_val, held>>

(* lock() has passed the check and waits for the inner mutex. *)
Lock(t, m) ==
  /\ pc[t] = "run"
  /\ Checked(t, m)
  /\ Go(t, "locking", m)
  /\ UNCHANGED <<owner, pre_hcl_val, this_hcl_val, held>>

(* mtx.lock() returns. *)
Acquire(t) ==
  /\ pc[t] = "locking"
  /\ owner[mutex[t]] = NoThread
  /\ owner' = [owner EXCEPT ![mutex[t]] = t]
  /\ Go(t, "locked", mutex[t])
  /\ UNCHANGED <<pre_hcl_val, this_hcl_val, held>>

(* A mutant: the result of mtx.try_lock() is ignored. *)
TryLockAlways(t, m) ==
  /\ pc[t] = "run"
  /\ Checked(t, m)
  /\ owner' = [owner EXCEPT ![m] = IF @ = NoThread THEN t ELSE @]
  /\ Go(t, "locked", m)
  /\ UNCHANGED <<pre_hcl_val, this_hcl_val, held>>

(* try_lock() has passed the check and taken the inner mutex; one that     *)
(* fails changes nothing.                                                  *)
TryLock(t, m) ==
  /\ pc[t] = "run"
  /\ Checked(t, m)
  /\ owner[m] = NoThread
  /\ owner' = [owner EXCEPT ![m] = t]
  /\ Go(t, "locked", m)
  /\ UNCHANGED <<pre_hcl_val, this_hcl_val, held>>

(* A mutant: the two assignments are the other way round. *)
UpdateSwapped(t) ==
  /\ pc[t] = "locked"
  /\ this_hcl_val' = [this_hcl_val EXCEPT ![t] = hcl_val[mutex[t]]]
  /\ pre_hcl_val' = [pre_hcl_val EXCEPT ![mutex[t]] = hcl_val[mutex[t]]]
  /\ held' = [held EXCEPT ![t] = Append(@, mutex[t])]
  /\ Go(t, "run", NoMutex)
  /\ UNCHANGED owner

(* update_hierarchy_value(), and the return to the caller. *)
Update(t) ==
  /\ pc[t] = "locked"
  /\ pre_hcl_val' = [pre_hcl_val EXCEPT ![mutex[t]] = this_hcl_val[t]]
  /\ this_hcl_val' = [this_hcl_val EXCEPT ![t] = hcl_val[mutex[t]]]
  /\ held' = [held EXCEPT ![t] = Append(@, mutex[t])]
  /\ Go(t, "run", NoMutex)
  /\ UNCHANGED owner

Innermost(guards) == guards[Len(guards)]

(* unlock() of the innermost guard: the level is restored. *)
Unlock(t) ==
  /\ pc[t] = "run"
  /\ held[t] # <<>>
  /\ this_hcl_val' = [this_hcl_val EXCEPT ![t] = pre_hcl_val[Innermost(held[t])]]
  /\ held' = [held EXCEPT ![t] = SubSeq(@, 1, Len(@) - 1)]
  /\ Go(t, "unlocking", Innermost(held[t]))
  /\ UNCHANGED <<owner, pre_hcl_val>>

(* mtx.unlock(), and the return to the caller. *)
Release(t) ==
  /\ pc[t] = "unlocking"
  /\ owner' = [owner EXCEPT ![mutex[t]] = NoThread]
  /\ Go(t, "run", NoMutex)
  /\ UNCHANGED <<pre_hcl_val, this_hcl_val, held>>

Next ==
  \E t \in Threads :
    \/ \E m \in Mutexes : Lock(t, m) \/ TryLock(t, m)
    \/ Acquire(t)
    \/ Update(t)
    \/ Unlock(t)
    \/ Release(t)

Spec == Init /\ [][Next]_vars

-----------------------------------------------------------------------------
(* The inner mutex is owned by the thread whose call has it. *)
CallsOwn ==
  \A t \in Threads : pc[t] \in {"locked", "unlocking"} => owner[mutex[t]] = t

(* Types, and that a call of lock(), try_lock() or unlock() past mtx.lock()*)
(* and before mtx.unlock() owns it (hierarchical_mutex.cpp:26-43).         *)
TypeOK ==
  /\ owner \in [Mutexes -> Threads \cup {NoThread}]
  /\ pre_hcl_val \in [Mutexes -> 0..Top]
  /\ this_hcl_val \in [Threads -> 0..Top]
  /\ pc \in [Threads -> {"run", "locking", "locked", "unlocking"}]
  /\ mutex \in [Threads -> Mutexes \cup {NoMutex}]
  /\ held \in [Threads -> Seq(Mutexes)]
  /\ \A t \in Threads : pc[t] # "run" => mutex[t] \in Mutexes
  /\ CallsOwn

(* What a thread holds a lock_guard of, nobody else has: not a thread in   *)
(* the middle of a lock() or unlock() either.                              *)
GuardsOwn ==
  \A t \in Threads : \A i \in 1..Len(held[t]) : owner[held[t][i]] = t

(* The level of a thread is that of its innermost guard, or the top: the   *)
(* level saved in a mutex by one thread is the one it gets back, whatever  *)
(* the others stored there before and after (lines 17-20 and 32-35).       *)
LevelOf(t) ==
  IF held[t] = <<>> THEN Top ELSE hcl_val[Innermost(held[t])]

LevelIsInnermost == \A t \in Threads : this_hcl_val[t] = LevelOf(t)

(* The levels of what a thread holds decrease strictly: no mutex and no    *)
(* level twice ("mutex hierarchy violated", line 14).                      *)
HeldDescends ==
  \A t \in Threads : \A i, j \in 1..Len(held[t]) :
    i < j => hcl_val[held[t][j]] < hcl_val[held[t][i]]

(* The guards of the threads are the locks of a hierarchy: between two      *)
(* returns of lock() and unlock() a mutex changes hands in one step, taken *)
(* by nobody else and below all that its thread holds, although the check, *)
(* the inner mutex and the levels are seen to at different times.          *)
Order == INSTANCE LockOrder WITH Locks <- Mutexes, Level <- hcl_val

ImplementsLockOrder == Order!Spec

(* What the hierarchy is for: there is no set of threads each of which     *)
(* waits in mtx.lock() for a mutex that a thread of the set has, be it     *)
(* under a guard or in the middle of a call.                               *)
NoCycle ==
  \A S \in SUBSET Threads :
    S # {} => \E t \in S : pc[t] # "locking" \/ owner[mutex[t]] \notin S
=============================================================================
