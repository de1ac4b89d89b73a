-------------------------- MODULE CvExampleProofs --------------------------
(***************************************************************************)
(* Theorems about CvExample.  WaitInv carries what a worker saw when it    *)
(* called cv.wait() to the step in which it sleeps: nobody changes it,     *)
(* because the worker has the mutex.                                       *)
(***************************************************************************)
EXTENDS CvExample, TLAPS

WaitInv ==
  \A t \in Workers : pc[t] = "wait" => ~Ready(t) /\ ~terminate

(* Every step keeps the types. *)
LEMMA TypeStep == TypeOK /\ [Next]_vars => TypeOK'
<1> SUFFICES ASSUME TypeOK, [Next]_vars PROVE TypeOK'
  OBVIOUS
<1> USE DEF TypeOK, Go, NotifyOne, Other, Workers
<1>1. ASSUME NEW t \in Workers, Start(t) PROVE TypeOK'
  BY <1>1 DEF Start
<1>2. ASSUME NEW t \in Workers, Resume(t) PROVE TypeOK'
  BY <1>2 DEF Resume
<1>3. ASSUME NEW t \in Workers, Wait(t) PROVE TypeOK'
  BY <1>3 DEF Wait
<1>4. ASSUME NEW t \in Workers, Sleep(t) PROVE TypeOK'
  BY <1>4 DEF Sleep
<1>5. ASSUME NEW t \in Workers, Break(t) PROVE TypeOK'
  BY <1>5 DEF Break
<1>6. ASSUME NEW t \in Workers, WakeUp(t) PROVE TypeOK'
  BY <1>6 DEF WakeUp
<1>7. ASSUME Produce PROVE TypeOK'
  BY <1>7 DEF Produce
<1>8. ASSUME Consume PROVE TypeOK'
  BY <1>8 DEF Consume
<1>9. ASSUME Terminate \/ PrintTotal \/ Join PROVE TypeOK'
  BY <1>9 DEF Terminate, PrintTotal, Join
<1>10. ASSUME NotifyAll PROVE TypeOK'
  BY <1>10 DEF NotifyAll
<1>11. ASSUME UNCHANGED vars PROVE TypeOK'
  BY <1>11 DEF vars
<1> QED BY <1>1, <1>2, <1>3, <1>4, <1>5, <1>6, <1>7, <1>8, <1>9, <1>10, <1>11
        DEF Next, Work, Main, Done

(* Every step keeps what a worker saw before it sleeps, and that it is     *)
(* woken when that changes.                                                *)
LEMMA WakeupStep ==
  TypeOK /\ WaitInv /\ NoLostWakeup /\ [Next]_vars => (WaitInv /\ NoLostWakeup)'
<1> SUFFICES ASSUME TypeOK, WaitInv, NoLostWakeup, [Next]_vars
             PROVE  (WaitInv /\ NoLostWakeup)'
  OBVIOUS
<1> USE DEF TypeOK, WaitInv, NoLostWakeup, Ready, Go, NotifyOne, Other, Workers
<1>1. ASSUME NEW t \in Workers, Start(t) PROVE (WaitInv /\ NoLostWakeup)'
  BY <1>1 DEF Start
<1>2. ASSUME NEW t \in Workers, Resume(t) PROVE (WaitInv /\ NoLostWakeup)'
  BY <1>2 DEF Resume
<1>3. ASSUME NEW t \in Workers, Wait(t) PROVE (WaitInv /\ NoLostWakeup)'
  BY <1>3 DEF Wait
<1>4. ASSUME NEW t \in Workers, Sleep(t) PROVE (WaitInv /\ NoLostWakeup)'
  BY <1>4 DEF Sleep
<1>5. ASSUME NEW t \in Workers, Break(t) PROVE (WaitInv /\ NoLostWakeup)'
  BY <1>5 DEF Break
<1>6. ASSUME NEW t \in Workers, WakeUp(t) PROVE (WaitInv /\ NoLostWakeup)'
  BY <1>6 DEF WakeUp
<1>7. ASSUME Produce PROVE (WaitInv /\ NoLostWakeup)'
  BY <1>7 DEF Produce
<1>8. ASSUME Consume PROVE (WaitInv /\ NoLostWakeup)'
  BY <1>8 DEF Consume
<1>9. ASSUME Terminate \/ PrintTotal \/ Join PROVE (WaitInv /\ NoLostWakeup)'
  BY <1>9 DEF Terminate, PrintTotal, Join
<1>10. ASSUME NotifyAll PROVE (WaitInv /\ NoLostWakeup)'
  BY <1>10 DEF NotifyAll
<1>11. ASSUME UNCHANGED vars PROVE (WaitInv /\ NoLostWakeup)'
  BY <1>11 DEF vars
<1> QED BY <1>1, <1>2, <1>3, <1>4, <1>5, <1>6, <1>7, <1>8, <1>9, <1>10, <1>11
        DEF Next, Work, Main, Done

(* Every step keeps the account of the items; the ones that do not produce *)
(* or consume leave its variables alone or begin the producer's loop.      *)
LEMMA ItemsStep == TypeOK /\ ItemsAreKept /\ [Next]_vars => ItemsAreKept'
<1> SUFFICES ASSUME TypeOK, ItemsAreKept, [Next]_vars PROVE ItemsAreKept'
  OBVIOUS
<1> USE DEF TypeOK, ItemsAreKept, Ready, Go, NotifyOne, Other, Workers
<1>1. ASSUME NEW t \in Workers, Start(t) PROVE ItemsAreKept'
  BY <1>1 DEF Start
<1>2. ASSUME NEW t \in Workers, Resume(t) \/ Wait(t) \/ Sleep(t) \/ Break(t)
      PROVE  ItemsAreKept'
  BY <1>2 DEF Resume, Wait, Sleep, Break
<1>3. ASSUME NEW t \in Workers, WakeUp(t) PROVE ItemsAreKept'
  BY <1>3 DEF WakeUp
<1>4. ASSUME Produce PROVE ItemsAreKept'
  BY <1>4 DEF Produce
<1>5. ASSUME Consume PROVE ItemsAreKept'
  BY <1>5 DEF Consume
<1>6. ASSUME Main PROVE ItemsAreKept'
  BY <1>6 DEF Main, Terminate, PrintTotal, NotifyAll, Join
<1>7. ASSUME UNCHANGED vars PROVE ItemsAreKept'
  BY <1>7 DEF vars
<1> QED BY <1>1, <1>2, <1>3, <1>4, <1>5, <1>6, <1>7 DEF Next, Work, Done

(* The producer rests within the bound, so what it makes is a message. *)
ProducerInv ==
  pc["producer"] = "loop" => terminate \/ shared_data # 0 \/ counter <= MaxItems

LEMMA ProducerStep ==
  TypeOK /\ ItemsAreKept /\ ProducerInv /\ [Next]_vars => ProducerInv'
<1> SUFFICES ASSUME TypeOK, ItemsAreKept, ProducerInv, [Next]_vars
             PROVE  ProducerInv'
  OBVIOUS
<1> USE DEF TypeOK, ProducerInv, Ready, Go, NotifyOne, Other, Workers
<1>1. ASSUME NEW t \in Workers, Start(t) PROVE ProducerInv'
  BY <1>1, ItemsAssumption DEF Start
<1>2. ASSUME NEW t \in Workers, Resume(t) PROVE ProducerInv'
  BY <1>2 DEF Resume
<1>3. ASSUME NEW t \in Workers, Wait(t) \/ Sleep(t) \/ Break(t) PROVE ProducerInv'
  BY <1>3 DEF Wait, Sleep, Break
<1>4. ASSUME NEW t \in Workers, WakeUp(t) PROVE ProducerInv'
  BY <1>4 DEF WakeUp
<1>5. ASSUME Produce PROVE ProducerInv'
  <2>1. counter = Len(consumed) + 1 /\ Len(consumed) \in Nat
    BY <1>5 DEF Produce, ItemsAreKept
  <2>2. shared_data' # 0
    BY <1>5, <2>1 DEF Produce
  <2> QED BY <2>2
<1>6. ASSUME Consume PROVE ProducerInv'
  BY <1>6 DEF Consume
<1>7. ASSUME Main PROVE ProducerInv'
  BY <1>7 DEF Main, Terminate, PrintTotal, NotifyAll, Join
<1>8. ASSUME UNCHANGED vars PROVE ProducerInv'
  BY <1>8 DEF vars
<1> QED BY <1>1, <1>2, <1>3, <1>4, <1>5, <1>6, <1>7, <1>8 DEF Next, Work, Done

-----------------------------------------------------------------------------
(* The variables keep their types, and the mutex is with the one worker    *)
(* that is in its loop (concurrency.cpp:174-197).                          *)
THEOREM TypeCorrect == Spec => []TypeOK
<1>1. Init => TypeOK
  <2> SUFFICES ASSUME Init PROVE TypeOK
    OBVIOUS
  <2>1. /\ pc["main"] = "sleep" /\ pc["producer"] = "start"
        /\ pc["consumer"] = "start"
    BY DEF Init, Workers
  <2>2. pc \in [Workers \cup {"main"} -> {"start", "sleep"}]
    BY DEF Init
  <2>3. consumed \in Seq(Nat)
    BY DEF Init
  <2> QED BY <2>1, <2>2, <2>3 DEF Init, TypeOK, Workers
<1> QED BY <1>1, TypeStep, PTL DEF Spec

(* No worker sleeps past its wakeup or past the end, however many items    *)
(* there are (lines 174-207).                                              *)
THEOREM WakeupsArrive == Spec => []NoLostWakeup
<1>1. Init => WaitInv /\ NoLostWakeup
  BY DEF Init, WaitInv, NoLostWakeup, Workers
<1> QED BY <1>1, TypeCorrect, WakeupStep, PTL DEF Spec

(* No item is lost or consumed twice (lines 182 and 189-193). *)
THEOREM ItemsAccounted == Spec => []ItemsAreKept
<1>1. Init => ItemsAreKept
  BY DEF Init, ItemsAreKept, Workers
<1> QED BY <1>1, TypeCorrect, ItemsStep, PTL DEF Spec

(* The program never stops in the middle, with any number of items: when   *)
(* main waits in join(), every worker that has not ended can still come to *)
(* see terminate (lines 199-209).                                          *)
THEOREM NeverDeadlocked == Spec => []SomebodyGoesOn
<1>1. TypeOK /\ NoLostWakeup => SomebodyGoesOn
  BY DEF TypeOK, NoLostWakeup, SomebodyGoesOn, Workers
<1> QED BY <1>1, TypeCorrect, WakeupsArrive, PTL

(* A step that makes an item sends it, a step that takes one receives the  *)
(* first that was not received, and the others do neither.                 *)
LEMMA ChannelStep ==
  TypeOK /\ ItemsAreKept /\ ProducerInv /\ ItemsAreKept' /\ [Next]_vars
    => [Chan!Next]_<<Produced, consumed>>
<1> SUFFICES ASSUME TypeOK, ItemsAreKept, ProducerInv, ItemsAreKept', [Next]_vars
             PROVE  [Chan!Next]_<<Produced, consumed>>
  OBVIOUS
<1>1. CASE Produce
  <2>1. /\ counter \in Nat \ {0} /\ counter <= MaxItems
        /\ counter' = counter + 1 /\ UNCHANGED consumed
    BY <1>1 DEF Produce, TypeOK, ItemsAreKept, ProducerInv, Ready
  <2>2. Produced \in Seq(Nat) /\ Len(Produced) = counter - 1
    BY <2>1 DEF Produced
  <2>3. Produced' = [i \in 1..counter |-> i]
    BY <2>1 DEF Produced
  <2>4. Append(Produced, counter) = [i \in 1..counter |-> i]
    BY <2>1, <2>2 DEF Produced
  <2>5. counter \in 1..MaxItems
    BY <2>1, ItemsAssumption
  <2> QED BY <2>1, <2>3, <2>4, <2>5 DEF Chan!Next, Chan!Send
<1>2. CASE Consume
  <2>1. /\ shared_data # 0 /\ consumed' = Append(consumed, shared_data)
        /\ UNCHANGED counter /\ pc["producer"] # "start"
    BY <1>2 DEF Consume, Ready, ItemsAreKept
  <2>2. /\ counter = Len(consumed) + 2 /\ shared_data = Len(consumed) + 1
        /\ Len(consumed) \in Nat
    BY <2>1 DEF ItemsAreKept, TypeOK
  <2>3. Produced = [i \in 1..(Len(consumed) + 1) |-> i] /\ UNCHANGED Produced
    BY <2>1, <2>2 DEF Produced
  <2>4. Len(Produced) = Len(consumed) + 1
    BY <2>2, <2>3
  <2>5. Produced[Len(consumed) + 1] = shared_data
    BY <2>2, <2>3
  <2> QED BY <2>1, <2>2, <2>3, <2>4, <2>5 DEF Chan!Next, Chan!Receive
<1>3. ASSUME NEW t \in Workers, Start(t)
      PROVE  UNCHANGED <<Produced, consumed>>
  <2>1. UNCHANGED consumed
    BY <1>3 DEF Start
  <2>2. CASE t = "producer"
    <3>1. counter = 0 /\ counter' = 1
      BY <1>3, <2>2 DEF Start, ItemsAreKept
    <3>2. 1..0 = 1..(counter' - 1)
      BY <3>1
    <3> QED BY <2>1, <3>1, <3>2 DEF Produced
  <2>3. CASE t # "producer"
    BY <1>3, <2>1, <2>3 DEF Start, Produced
  <2> QED BY <2>2, <2>3
<1>4. ASSUME NEW t \in Workers,
             Resume(t) \/ Wait(t) \/ Sleep(t) \/ Break(t) \/ WakeUp(t)
      PROVE  UNCHANGED <<Produced, consumed>>
  BY <1>4 DEF Resume, Wait, Sleep, Break, WakeUp, Produced
<1>5. CASE Main \/ Done \/ UNCHANGED vars
  BY <1>5 DEF Main, Terminate, PrintTotal, NotifyAll, Join, Done, vars, Produced
<1> QED BY <1>1, <1>2, <1>3, <1>4, <1>5 DEF Next, Work

(* The consumer receives each number once, in the order of production,     *)
(* however the two threads and their wakeups interleave (lines 174-197).   *)
THEOREM IntegerIsChannel == Spec => ImplementsChannel
<1>1. Init => ProducerInv /\ Chan!Init
  <2> SUFFICES ASSUME Init PROVE ProducerInv /\ Chan!Init
    OBVIOUS
  <2>1. Produced = [i \in 1..0 |-> i]
    BY DEF Init, Produced
  <2>2. Produced = <<>>
    BY <2>1
  <2> QED BY <2>2 DEF Init, ProducerInv, Chan!Init, Workers
<1>2. Spec => []ProducerInv
  BY <1>1, TypeCorrect, ItemsAccounted, ProducerStep, PTL DEF Spec
<1> QED BY <1>1, <1>2, TypeCorrect, ItemsAccounted, ChannelStep, PTL
        DEF Spec, ImplementsChannel, Chan!Spec
=============================================================================
