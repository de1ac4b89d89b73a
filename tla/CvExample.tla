----------------------------- MODULE CvExample -----------------------------
(***************************************************************************)
(* cv_example() of antelope/concurrency.cpp: a producer and a consumer     *)
(* hand over one integer under one mutex and one condition variable, and   *)
(* the main thread ends them.                                              *)
(*                                                                         *)
(* A step takes the mutex, leaves it, or is one round of a loop with the   *)
(* mutex held.  notify_one() of one worker can only wake the other.  The   *)
(* read of counter without the mutex sees the value before or after the    *)
(* assignment it may race with.                                            *)
(***************************************************************************)
EXTENDS Naturals, Sequences

CONSTANT MaxItems   (* bound: the producer rests when it has made so many *)

ASSUME ItemsAssumption == MaxItems \in Nat \ {0}

VARIABLES
  m,            (* the thread that has the mutex, or "free"                  *)
  terminate,
  shared_data,
  counter,
  pc,           (* where each thread is                                      *)
  printed,      (* what main has printed as the total                        *)
  consumed      (* history: the items the consumer has taken                 *)

vars == <<m, terminate, shared_data, counter, pc, printed, consumed>>

Workers == {"producer", "consumer"}

Init ==
  /\ m = "free"
  /\ terminate = FALSE
  /\ shared_data = 0
  /\ counter = 0
  /\ pc = [t \in Workers \cup {"main"} |-> IF t = "main" THEN "sleep" ELSE "start"]
  /\ printed = 0
  /\ consumed = <<>>

-----------------------------------------------------------------------------
Go(t, place) == pc' = [pc EXCEPT ![t] = place]

Other(t) == IF t = "producer" THEN "consumer" ELSE "producer"

(* cv.notify_one() of a worker that goes on with its loop. *)
NotifyOne(t) ==
  pc' = [pc EXCEPT ![Other(t)] = IF @ = "waiting" THEN "woken" ELSE @]

(* What the worker waits for, besides the end. *)
Ready(t) == IF t = "producer" THEN shared_data = 0 ELSE shared_data # 0

(* The first lock of a worker; the producer's loop begins. *)
Start(t) ==
  /\ pc[t] = "start"
  /\ m = "free"
  /\ m' = t
  /\ counter' = IF t = "producer" THEN 1 ELSE counter
  /\ Go(t, "loop")
  /\ UNCHANGED <<terminate, shared_data, printed, consumed>>

(* cv.wait() has been woken and gets the mutex back. *)
Resume(t) ==
  /\ pc[t] = "woken"
  /\ m = "free"
  /\ t = "producer" => counter <= MaxItems \/ terminate
  /\ m' = t
  /\ Go(t, "loop")
  /\ UNCHANGED <<terminate, shared_data, counter, printed, consumed>>

(* The condition is false: the worker calls cv.wait(). *)
Wait(t) ==
  /\ pc[t] = "loop"
  /\ ~terminate /\ ~Ready(t)
  /\ Go(t, "wait")
  /\ UNCHANGED <<m, terminate, shared_data, counter, printed, consumed>>

(* A mutant: the worker sleeps without giving the mutex back. *)
SleepLocked(t) ==
  /\ pc[t] = "wait"
  /\ Go(t, "waiting")
  /\ UNCHANGED <<m, terminate, shared_data, counter, printed, consumed>>

(* cv.wait() gives the mutex back and sleeps, in one step. *)
Sleep(t) ==
  /\ pc[t] = "wait"
  /\ m' = "free"
  /\ Go(t, "waiting")
  /\ UNCHANGED <<terminate, shared_data, counter, printed, consumed>>

(* A wakeup nobody asked for. *)
WakeUp(t) ==
  /\ pc[t] = "waiting"
  /\ Go(t, "woken")
  /\ UNCHANGED <<m, terminate, shared_data, counter, printed, consumed>>

(* A mutant: the item that is not yet consumed is overwritten. *)
ProduceAlways ==
  /\ pc["producer"] = "loop"
  /\ ~terminate
  /\ counter <= MaxItems
  /\ shared_data' = counter
  /\ counter' = counter + 1
  /\ NotifyOne("producer")
  /\ UNCHANGED <<m, terminate, printed, consumed>>

Produce ==
  /\ pc["producer"] = "loop"
  /\ ~terminate /\ Ready("producer")
  /\ shared_data' = counter
  /\ counter' = counter + 1
  /\ NotifyOne("producer")
  /\ UNCHANGED <<m, terminate, printed, consumed>>

(* A mutant: the producer is not told that there is room again. *)
ConsumeSilently ==
  /\ pc["consumer"] = "loop"
  /\ ~terminate /\ Ready("consumer")
  /\ shared_data' = 0
  /\ consumed' = Append(consumed, shared_data)
  /\ UNCHANGED <<m, terminate, counter, pc, printed>>

(* A mutant: the item is not taken out. *)
ConsumeKeepsItem ==
  /\ pc["consumer"] = "loop"
  /\ ~terminate /\ Ready("consumer")
  /\ consumed' = Append(consumed, shared_data)
  /\ NotifyOne("consumer")
  /\ UNCHANGED <<m, terminate, shared_data, counter, printed>>

Consume ==
  /\ pc["consumer"] = "loop"
  /\ ~terminate /\ Ready("consumer")
  /\ shared_data' = 0
  /\ consumed' = Append(consumed, shared_data)
  /\ NotifyOne("consumer")
  /\ UNCHANGED <<m, terminate, counter, printed>>

(* The loop is left, and the mutex with it. *)
Break(t) ==
  /\ pc[t] = "loop"
  /\ terminate
  /\ m' = "free"
  /\ Go(t, "ended")
  /\ UNCHANGED <<terminate, shared_data, counter, printed, consumed>>

-----------------------------------------------------------------------------
(* A mutant: main sets terminate without the mutex. *)
TerminateUnlocked ==
  /\ pc["main"] = "sleep"
  /\ terminate' = TRUE
  /\ Go("main", "print")
  /\ UNCHANGED <<m, shared_data, counter, printed, consumed>>

(* main sets terminate under the mutex. *)
Terminate ==
  /\ pc["main"] = "sleep"
  /\ m = "free"
  /\ terminate' = TRUE
  /\ Go("main", "print")
  /\ UNCHANGED <<m, shared_data, counter, printed, consumed>>

(* main prints "total items consumed", without the mutex. *)
PrintTotal ==
  /\ pc["main"] = "print"
  /\ printed' = counter
  /\ Go("main", "notify")
  /\ UNCHANGED <<m, terminate, shared_data, counter, consumed>>

(* A mutant: main waits for the workers without waking them. *)
NotifyNobody ==
  /\ pc["main"] = "notify"
  /\ Go("main", "join")
  /\ UNCHANGED <<m, terminate, shared_data, counter, printed, consumed>>

(* cv.notify_all() *)
NotifyAll ==
  /\ pc["main"] = "notify"
  /\ pc' = [t \in Workers \cup {"main"} |->
              IF t = "main" THEN "join"
              ELSE IF pc[t] = "waiting" THEN "woken" ELSE pc[t]]
  /\ UNCHANGED <<m, terminate, shared_data, counter, printed, consumed>>

(* Both join() return. *)
Join ==
  /\ pc["main"] = "join"
  /\ \A t \in Workers : pc[t] = "ended"
  /\ Go("main", "done")
  /\ UNCHANGED <<m, terminate, shared_data, counter, printed, consumed>>

Work(t) == Start(t) \/ Resume(t) \/ Wait(t) \/ Sleep(t) \/ Break(t)
Main == Terminate \/ PrintTotal \/ NotifyAll \/ Join
Done == pc["main"] = "done" /\ UNCHANGED vars

Next ==
  \/ \E t \in Workers : Work(t) \/ WakeUp(t)
  \/ Produce
  \/ Consume
  \/ Main
  \/ Done

Spec == Init /\ [][Next]_vars

(* A thread that is offered the mutex again and again gets it; what is     *)
(* done without waiting for the mutex is done.  No wakeup comes by itself. *)
FairSpec ==
  /\ Spec
  /\ \A t \in Workers : SF_vars(Start(t)) /\ SF_vars(Resume(t))
                        /\ WF_vars(Wait(t) \/ Sleep(t) \/ Break(t))
  /\ WF_vars(Produce) /\ WF_vars(Consume)
  /\ SF_vars(Terminate) /\ WF_vars(PrintTotal \/ NotifyAll \/ Join)

-----------------------------------------------------------------------------
(* Types, and that the mutex is with the one worker in its loop.           *)
TypeOK ==
  /\ m \in Workers \cup {"free"}
  /\ terminate \in BOOLEAN
  /\ shared_data \in Nat
  /\ counter \in Nat
  /\ pc \in [Workers \cup {"main"} ->
               {"start", "loop", "wait", "waiting", "woken", "ended",
                "sleep", "print", "notify", "join", "done"}]
  /\ printed \in Nat
  /\ consumed \in Seq(Nat)
  /\ \A t \in Workers : pc[t] \in {"loop", "wait"} <=> m = t
  /\ \A t \in Workers :
       pc[t] \in {"start", "loop", "wait", "waiting", "woken", "ended"}
  /\ pc["main"] \in {"sleep", "print", "notify", "join", "done"}
  /\ terminate <=> pc["main"] # "sleep"

(* No wakeup is lost: a worker that sleeps has nothing to do, and is told  *)
(* of the end later if it has come (concurrency.cpp:177-183, 190-195,      *)
(* 202-207).                                                               *)
NoLostWakeup ==
  \A t \in Workers : pc[t] = "waiting" =>
    /\ ~Ready(t)
    /\ terminate => pc["main"] \in {"print", "notify"}

(* No item is lost or taken twice: the numbers below counter were consumed *)
(* in their order, up to the one that may be in shared_data (lines 182,    *)
(* 189-193).                                                               *)
ItemsAreKept ==
  /\ \A i \in 1..Len(consumed) : consumed[i] = i
  /\ IF pc["producer"] = "start"
     THEN counter = 0 /\ consumed = <<>> /\ shared_data = 0
     ELSE IF shared_data = 0
          THEN counter = Len(consumed) + 1
          ELSE counter = Len(consumed) + 2 /\ shared_data = Len(consumed) + 1

(* The numbers that were produced: those below counter.                    *)
Produced == [i \in 1..(IF counter = 0 THEN 0 ELSE counter - 1) |-> i]

(* One integer under a mutex is a channel for the numbers: the consumer    *)
(* gets each of them once, as the producer made them (lines 174-197).      *)
Chan == INSTANCE Channel WITH
  Messages <- 1..MaxItems,
  sent     <- Produced,
  received <- consumed
ImplementsChannel == Chan!Spec

(* Before main is done somebody can go on: the worker that has the mutex,  *)
(* one that needs only the mutex and finds it free, or main, which waits   *)
(* in join() only for workers that will end (lines 199-209).               *)
SomebodyGoesOn ==
  \/ m \in Workers
  \/ pc["main"] # "join"
  \/ \E t \in Workers : pc[t] \in {"start", "woken"}
  \/ \A t \in Workers : pc[t] = "ended"

(* cv_example() returns (lines 199-209). *)
Returns == <>(pc["main"] = "done")

(* "total items consumed" (line 206) is the number of items consumed.      *)
TotalIsConsumed == pc["main"] = "done" => printed = Len(consumed)
=============================================================================
