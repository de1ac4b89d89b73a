------------------------------ MODULE LockOrder ------------------------------
(***************************************************************************)
(* What a hierarchy of locks promises to the threads that use it: a lock   *)
(* has at most one holder, and a thread takes only locks below all those   *)
(* it holds, which it lets go in the reverse order.                        *)
(***************************************************************************)
EXTENDS Naturals, Sequences

CONSTANTS
  Threads,
  Locks,
  Level      (* [Locks -> Nat]                                               *)

VARIABLE
  held       (* [Threads -> Seq(Locks)], the locks of each, the oldest first *)

Init == held = [t \in Threads |-> <<>>]

Holds(t, lock) == \E i \in 1..Len(held[t]) : held[t][i] = lock

Take(t, lock) ==
  /\ \A u \in Threads : ~Holds(u, lock)
  /\ \A other \in Locks : Holds(t, other) => Level[lock] < Level[other]
  /\ held' = [held EXCEPT ![t] = Append(@, lock)]

LetGo(t) ==
  /\ held[t] # <<>>
  /\ held' = [held EXCEPT ![t] = SubSeq(@, 1, Len(@) - 1)]

Next == \E t \in Threads : LetGo(t) \/ \E lock \in Locks : Take(t, lock)

Spec == Init /\ [][Next]_held
=============================================================================
