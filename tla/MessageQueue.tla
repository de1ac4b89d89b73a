---------------------------- MODULE MessageQueue ----------------------------
(***************************************************************************)
(* The queues of thread-master: a std::queue with a mutex and a condition  *)
(* variable, on which threads push and wait.  threadsave_queue.4.5.cpp and *)
(* condition_vari-4.1.cpp notify one thread, ATM/messaging.cpp notifies    *)
(* all; there a dispatcher receives, and close_queue ends it.              *)
(*                                                                         *)
(* A step is what a thread does with the mutex up to its next access to    *)
(* the queue or the condition variable.                                    *)
(***************************************************************************)
EXTENDS Naturals, Sequences, FiniteSets

CONSTANTS
  Senders,      (* the threads that push                                     *)
  Receivers,    (* the threads that wait and pop                             *)
  Messages,     (* the messages                                              *)
  close_queue,  (* the message that ends a dispatcher                        *)
  NoThread,     (* the owner of the mutex when it is free                    *)
  MaxSent       (* bound: the messages that are sent                         *)

ASSUME QueueAssumption ==
  /\ Senders \cap Receivers = {}
  /\ NoThread \notin Senders \cup Receivers
  /\ IsFiniteSet(Receivers)
  /\ MaxSent \in Nat

VARIABLES
  notify,    (* "one" or "all", which of the classes the queue is            *)
  m,         (* the thread that has the mutex                                *)
  q,         (* the queue                                                    *)
  pc,        (* where each thread is in push() or wait_and_pop()             *)
  sent,      (* history: what was pushed                                     *)
  received   (* history: what was popped                                     *)

vars == <<notify, m, q, pc, sent, received>>

Threads == Senders \cup Receivers
In(place) == {r \in Receivers : pc[r] = place}

Init ==
  /\ notify \in {"one", "all"}
  /\ m = NoThread
  /\ q = <<>>
  /\ pc = [t \in Threads |-> "idle"]
  /\ sent = <<>>
  /\ received = <<>>

-----------------------------------------------------------------------------
Go(t, place) == pc' = [pc EXCEPT ![t] = place]

(* push() locks. *)
LockPush(s) ==
  /\ pc[s] = "idle"
  /\ m = NoThread
  /\ Len(sent) < MaxSent
  /\ m' = s
  /\ Go(s, "push")
  /\ UNCHANGED <<notify, q, sent, received>>

(* Only a queue with dispatchers gets close_queue. *)
Push(s, msg) ==
  /\ pc[s] = "push"
  /\ msg = close_queue => notify = "all"
  /\ q' = Append(q, msg)
  /\ sent' = Append(sent, msg)
  /\ Go(s, "notify")
  /\ UNCHANGED <<notify, m, received>>

(* The threads that wake: one that sleeps, or all of them. *)
Woken(set) ==
  IF notify = "all" THEN set = In("waiting")
  ELSE IF In("waiting") = {} THEN set = {}
  ELSE \E r \in In("waiting") : set = {r}

(* A mutant: nobody is told of a message that is not the first in the      *)
(* queue, as if the one woken for the first took them all.                 *)
NotifyIfFirst(s) ==
  /\ pc[s] = "notify"
  /\ \E set \in SUBSET Receivers :
       /\ IF Len(q) = 1 THEN Woken(set) ELSE set = {}
       /\ pc' = [t \in Threads |->
                   IF t = s THEN "unlock" ELSE IF t \in set THEN "woken" ELSE pc[t]]
  /\ UNCHANGED <<notify, m, q, sent, received>>

(* A mutant: nobody is told. *)
NotifyNobody(s) ==
  /\ pc[s] = "notify"
  /\ Go(s, "unlock")
  /\ UNCHANGED <<notify, m, q, sent, received>>

(* notify_one() or notify_all(), with the mutex still locked. *)
Notify(s) ==
  /\ pc[s] = "notify"
  /\ \E set \in SUBSET Receivers :
       /\ Woken(set)
       /\ pc' = [t \in Threads |->
                   IF t = s THEN "unlock" ELSE IF t \in set THEN "woken" ELSE pc[t]]
  /\ UNCHANGED <<notify, m, q, sent, received>>

(* A mutant: a thread that was woken does not test again. *)
LockPopOnce(r) ==
  /\ pc[r] \in {"idle", "woken"}
  /\ m = NoThread
  /\ m' = r
  /\ Go(r, IF pc[r] = "idle" THEN "test" ELSE "pop")
  /\ UNCHANGED <<notify, q, sent, received>>

(* wait_and_pop() locks, or gets the mutex back in wait(). *)
LockPop(r) ==
  /\ pc[r] \in {"idle", "woken"}
  /\ m = NoThread
  /\ m' = r
  /\ Go(r, "test")
  /\ UNCHANGED <<notify, q, sent, received>>

(* The condition of wait(). *)
Test(r) ==
  /\ pc[r] = "test"
  /\ Go(r, IF q = <<>> THEN "wait" ELSE "pop")
  /\ UNCHANGED <<notify, m, q, sent, received>>

(* A mutant: the thread sleeps with the mutex. *)
SleepLocked(r) ==
  /\ pc[r] = "wait"
  /\ Go(r, "waiting")
  /\ UNCHANGED <<notify, m, q, sent, received>>

(* wait() gives the mutex back and sleeps, in one step. *)
Sleep(r) ==
  /\ pc[r] = "wait"
  /\ m' = NoThread
  /\ Go(r, "waiting")
  /\ UNCHANGED <<notify, q, sent, received>>

(* A wakeup nobody asked for. *)
WakeUp(r) ==
  /\ pc[r] = "waiting"
  /\ Go(r, "woken")
  /\ UNCHANGED <<notify, m, q, sent, received>>

(* A mutant: front() without pop(). *)
PeekOnly(r) ==
  /\ pc[r] = "pop"
  /\ received' = Append(received, Head(q))
  /\ Go(r, IF Head(q) = close_queue THEN "close" ELSE "unlock")
  /\ UNCHANGED <<notify, m, q, sent>>

(* front() and pop(). *)
Pop(r) ==
  /\ pc[r] = "pop"
  /\ received' = Append(received, Head(q))
  /\ q' = Tail(q)
  /\ Go(r, IF Head(q) = close_queue THEN "close" ELSE "unlock")
  /\ UNCHANGED <<notify, m, sent>>

(* The mutex is unlocked and the function returns; a dispatcher that got   *)
(* close_queue throws it and leaves its loop, the others wait again.       *)
Unlock(t) ==
  /\ pc[t] \in {"unlock", "close"}
  /\ m' = NoThread
  /\ Go(t, IF pc[t] = "close" THEN "closed" ELSE "idle")
  /\ UNCHANGED <<notify, q, sent, received>>

(* Everything was sent and all dispatchers have ended. *)
Ended ==
  /\ Len(sent) = MaxSent
  /\ Receivers = In("closed")
  /\ UNCHANGED vars

Sending(s) == LockPush(s) \/ (\E msg \in Messages : Push(s, msg)) \/ Notify(s)
Receiving(r) == LockPop(r) \/ Test(r) \/ Sleep(r) \/ Pop(r)

Next ==
  \/ \E s \in Senders : Sending(s)
  \/ \E r \in Receivers : Receiving(r) \/ WakeUp(r)
  \/ \E t \in Threads : Unlock(t)
  \/ Ended

Spec == Init /\ [][Next]_vars

(* A thread that is offered the mutex again and again gets it, and what is *)
(* done with the mutex is done.  Nobody has to send, and no wakeup comes   *)
(* by itself.                                                              *)
FairSpec ==
  /\ Spec
  /\ \A r \in Receivers :
       SF_vars(LockPop(r)) /\ WF_vars(Test(r) \/ Sleep(r) \/ Pop(r))
  /\ \A s \in Senders :
       WF_vars((\E msg \in Messages : Push(s, msg)) \/ Notify(s))
  /\ \A t \in Threads : WF_vars(Unlock(t))

-----------------------------------------------------------------------------
(* Types, and that who is between lock and unlock has the mutex.           *)
TypeOK ==
  /\ notify \in {"one", "all"}
  /\ m \in Threads \cup {NoThread}
  /\ q \in Seq(Messages)
  /\ pc \in [Threads -> {"idle", "push", "notify", "test", "wait", "waiting",
                         "woken", "pop", "unlock", "close", "closed"}]
  /\ sent \in Seq(Messages)
  /\ received \in Seq(Messages)
  /\ \A s \in Senders : pc[s] \in {"idle", "push", "notify", "unlock"}
  /\ \A r \in Receivers : pc[r] \notin {"push", "notify"}
  /\ \A t \in Threads :
       pc[t] \notin {"idle", "waiting", "woken", "closed"} <=> m = t

(* front() and pop() are only called on a queue with a message, although   *)
(* a woken thread may find that another has taken what it was woken for    *)
(* (threadsave_queue.4.5.cpp:27-29, condition_vari-4.1.cpp:29-33,          *)
(* ATM/messaging.cpp:30-32).                                               *)
PopsAMessage == \A r \in Receivers : pc[r] = "pop" => q # <<>>

(* While a thread sleeps, there are no more messages than threads that are *)
(* awake for them: the ones woken, the one that is testing or taking, and  *)
(* the one about to be woken (threadsave_queue.4.5.cpp:20-30).             *)
NoLostWakeup ==
  In("waiting") # {} =>
    Len(q) <= Cardinality(In("woken") \cup In("test") \cup In("pop"))
              + (IF \E s \in Senders : pc[s] = "notify" THEN 1 ELSE 0)

(* A message is never left to threads that all sleep: the thread that has  *)
(* the mutex goes on, or a receiver is about to take the mutex, unless all *)
(* dispatchers have ended (condition_vari-4.1.cpp:25-37).                  *)
SomebodyGoesOn ==
  q # <<>> =>
    \/ m # NoThread
    \/ \E r \in Receivers : pc[r] \in {"idle", "woken"}
    \/ Receivers = In("closed")

(* A close_queue ends one dispatcher and no more, whoever else was woken   *)
(* for it, and no dispatcher ends without one (ATM/messaging.cpp:66-79).   *)
Closes == {i \in 1..Len(received) : received[i] = close_queue}
Ending == In("close") \cup In("closed")
OneEndPerClose == Cardinality(Ending) = Cardinality(Closes)

(* The queue is a channel: each message is received once, in the order of  *)
(* sending (threadsave_queue.4.5.cpp:20-30, ATM/messaging.cpp:22-34).      *)
Chan == INSTANCE Channel
ImplementsChannel == Chan!Spec

(* Every message sent is received, unless the dispatchers have ended: the  *)
(* threads that sleep are woken for it (condition_vari-4.1.cpp:12-37).     *)
EveryMessageIsReceived ==
  \A n \in 1..MaxSent :
    Len(sent) >= n ~> (Len(received) >= n \/ Receivers = In("closed"))
=============================================================================
