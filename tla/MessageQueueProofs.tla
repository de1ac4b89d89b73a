------------------------- MODULE MessageQueueProofs -------------------------
(***************************************************************************)
(* Theorems about MessageQueue, for any threads, messages and bound.       *)
(*                                                                         *)
(* TestInv says what a receiver knows of the queue from its test to what   *)
(* it does then.  NoLostWakeup is inductive with it, and Chan!Spec follows *)
(* from RestInv: the queue is what was sent and is not received.           *)
(***************************************************************************)
EXTENDS MessageQueue, SequenceTheorems, FiniteSetTheorems, TLAPS

USE QueueAssumption

TestInv ==
  /\ PopsAMessage
  /\ \A r \in Receivers : pc[r] = "wait" => q = <<>>

RestInv ==
  /\ Len(sent) = Len(received) + Len(q)
  /\ \A i \in 1..Len(q) : q[i] = sent[Len(received) + i]

Awake == In("woken") \cup In("test") \cup In("pop")
Notifying == \E s \in Senders : pc[s] = "notify"

-----------------------------------------------------------------------------
(* Every step keeps the types. *)
LEMMA TypeStep == TypeOK /\ TestInv /\ [Next]_vars => TypeOK'
<1> SUFFICES ASSUME TypeOK, TestInv, [Next]_vars PROVE TypeOK'
  OBVIOUS
<1> USE DEF TypeOK, Go, Threads
<1>1. ASSUME NEW s \in Senders, LockPush(s) PROVE TypeOK'
  BY <1>1 DEF LockPush
<1>2. ASSUME NEW s \in Senders, NEW msg \in Messages, Push(s, msg) PROVE TypeOK'
  <2>1. Append(q, msg) \in Seq(Messages) /\ Append(sent, msg) \in Seq(Messages)
    BY AppendProperties
  <2> QED BY <1>2, <2>1 DEF Push
<1>3. ASSUME NEW s \in Senders, Notify(s) PROVE TypeOK'
  <2>1. PICK set \in SUBSET Receivers :
          /\ Woken(set)
          /\ pc' = [t \in Threads |->
               IF t = s THEN "unlock" ELSE IF t \in set THEN "woken" ELSE pc[t]]
    BY <1>3 DEF Notify
  <2>2. \A r \in set : pc[r] = "waiting"
    BY <2>1 DEF Woken, In
  <2> QED BY <1>3, <2>1, <2>2 DEF Notify
<1>4. ASSUME NEW r \in Receivers, LockPop(r) PROVE TypeOK'
  BY <1>4 DEF LockPop
<1>5. ASSUME NEW r \in Receivers, Test(r) PROVE TypeOK'
  BY <1>5 DEF Test
<1>6. ASSUME NEW r \in Receivers, Sleep(r) PROVE TypeOK'
  BY <1>6 DEF Sleep
<1>7. ASSUME NEW r \in Receivers, Pop(r) PROVE TypeOK'
  <2>1. q # <<>>
    BY <1>7 DEF Pop, TestInv, PopsAMessage
  <2>2. Head(q) \in Messages /\ Tail(q) \in Seq(Messages)
    BY <2>1, HeadTailProperties
  <2>3. Append(received, Head(q)) \in Seq(Messages)
    BY <2>2, AppendProperties
  <2> QED BY <1>7, <2>2, <2>3 DEF Pop
<1>8. ASSUME NEW r \in Receivers, WakeUp(r) PROVE TypeOK'
  BY <1>8 DEF WakeUp
<1>9. ASSUME NEW t \in Threads, Unlock(t) PROVE TypeOK'
  BY <1>9 DEF Unlock
<1>10. ASSUME UNCHANGED vars PROVE TypeOK'
  BY <1>10 DEF vars
<1> QED BY <1>1, <1>2, <1>3, <1>4, <1>5, <1>6, <1>7, <1>8, <1>9, <1>10
        DEF Next, Sending, Receiving, Ended

(* What a receiver has tested stays true: it has the mutex. *)
LEMMA TestStep == TypeOK /\ TestInv /\ [Next]_vars => TestInv'
<1> SUFFICES ASSUME TypeOK, TestInv, [Next]_vars PROVE TestInv'
  OBVIOUS
<1> USE DEF TestInv, PopsAMessage, Go, Threads
<1>a. /\ pc \in [Threads -> {"idle", "push", "notify", "test", "wait", "waiting",
                             "woken", "pop", "unlock", "close", "closed"}]
      /\ \A t \in Threads :
           pc[t] \notin {"idle", "waiting", "woken", "closed"} <=> m = t
  BY DEF TypeOK
<1>1. ASSUME NEW s \in Senders, LockPush(s) PROVE TestInv'
  BY <1>a, <1>1 DEF LockPush
<1>2. ASSUME NEW s \in Senders, NEW msg \in Messages, Push(s, msg) PROVE TestInv'
  <2>1. \A r \in Receivers : pc[r] \notin {"pop", "wait"} /\ pc'[r] = pc[r]
    BY <1>a, <1>2 DEF Push
  <2> QED BY <2>1
<1>3. ASSUME NEW s \in Senders, Notify(s) PROVE TestInv'
  <2>1. \A r \in Receivers : pc'[r] \in {"unlock", "woken", pc[r]}
    BY <1>3 DEF Notify
  <2> QED BY <1>3, <2>1 DEF Notify
<1>4. ASSUME NEW r \in Receivers, LockPop(r) PROVE TestInv'
  BY <1>a, <1>4 DEF LockPop
<1>5. ASSUME NEW r \in Receivers, Test(r) PROVE TestInv'
  BY <1>a, <1>5 DEF Test
<1>6. ASSUME NEW r \in Receivers, Sleep(r) PROVE TestInv'
  BY <1>a, <1>6 DEF Sleep
<1>7. ASSUME NEW r \in Receivers, Pop(r) PROVE TestInv'
  <2>1. \A u \in Receivers : pc'[u] \notin {"pop", "wait"}
    BY <1>a, <1>7 DEF Pop
  <2> QED BY <2>1
<1>8. ASSUME NEW r \in Receivers, WakeUp(r) PROVE TestInv'
  BY <1>a, <1>8 DEF WakeUp
<1>9. ASSUME NEW t \in Threads, Unlock(t) PROVE TestInv'
  BY <1>a, <1>9 DEF Unlock
<1>10. ASSUME UNCHANGED vars PROVE TestInv'
  BY <1>10 DEF vars
<1> QED BY <1>1, <1>2, <1>3, <1>4, <1>5, <1>6, <1>7, <1>8, <1>9, <1>10
        DEF Next, Sending, Receiving, Ended

-----------------------------------------------------------------------------
LEMMA AwakeType == IsFiniteSet(Awake) /\ Cardinality(Awake) \in Nat
<1>1. Awake \in SUBSET Receivers
  BY DEF Awake, In
<1> QED BY <1>1, FS_Subset, FS_CardinalityType

(* A step that puts nobody to sleep and takes nobody from the messages     *)
(* loses no wakeup.                                                        *)
LEMMA NothingLost ==
  ASSUME TypeOK, NoLostWakeup, In("waiting")' \subseteq In("waiting"),
         Awake \subseteq Awake', q' = q, Notifying => Notifying'
  PROVE  NoLostWakeup'
<1>1. IsFiniteSet(Awake') /\ Cardinality(Awake) \in Nat /\ Cardinality(Awake') \in Nat
  <2>1. Awake' \in SUBSET Receivers
    BY DEF Awake, In
  <2> QED BY <2>1, AwakeType, FS_Subset, FS_CardinalityType
<1>2. Cardinality(Awake) <= Cardinality(Awake')
  BY <1>1, FS_Subset
<1>3. Len(q) \in Nat
  BY LenProperties DEF TypeOK
<1>4. ASSUME In("waiting")' # {}
      PROVE  Len(q') <= Cardinality(Awake') + (IF Notifying' THEN 1 ELSE 0)
  <2>1. Len(q) <= Cardinality(Awake) + (IF Notifying THEN 1 ELSE 0)
    BY <1>4 DEF NoLostWakeup, Awake, Notifying
  <2> QED BY <1>1, <1>2, <1>3, <2>1
<1> QED BY <1>4 DEF NoLostWakeup, Awake, Notifying

(* No step loses a wakeup. *)
LEMMA WakeupStep ==
  TypeOK /\ TestInv /\ NoLostWakeup /\ [Next]_vars => NoLostWakeup'
<1> SUFFICES ASSUME TypeOK, TestInv, NoLostWakeup, [Next]_vars
             PROVE  NoLostWakeup'
  OBVIOUS
<1> USE DEF Go, Threads
<1>a. /\ pc \in [Threads -> {"idle", "push", "notify", "test", "wait", "waiting",
                             "woken", "pop", "unlock", "close", "closed"}]
      /\ \A t \in Threads :
           pc[t] \notin {"idle", "waiting", "woken", "closed"} <=> m = t
      /\ \A r \in Receivers : pc[r] \notin {"push", "notify"}
      /\ \A s \in Senders : pc[s] \in {"idle", "push", "notify", "unlock"}
  BY DEF TypeOK
<1>b. q \in Seq(Messages) /\ Len(q) \in Nat
  BY LenProperties DEF TypeOK
<1>c. Awake' \in SUBSET Receivers /\ IsFiniteSet(Awake') /\ Cardinality(Awake') \in Nat
  <2>1. Awake' \in SUBSET Receivers
    BY DEF Awake, In
  <2> QED BY <2>1, FS_Subset, FS_CardinalityType
<1>d. IsFiniteSet(Awake) /\ Cardinality(Awake) \in Nat
  BY AwakeType
<1>e. SUFFICES ASSUME In("waiting")' # {}
      PROVE  Len(q') <= Cardinality(Awake') + (IF Notifying' THEN 1 ELSE 0)
  BY DEF NoLostWakeup, Awake, Notifying
<1>f. ASSUME q' = <<>>
      PROVE  Len(q') <= Cardinality(Awake') + (IF Notifying' THEN 1 ELSE 0)
  BY <1>c, <1>f, EmptySeq
<1>g. ASSUME NoLostWakeup'
      PROVE  Len(q') <= Cardinality(Awake') + (IF Notifying' THEN 1 ELSE 0)
  BY <1>e, <1>g DEF NoLostWakeup, Awake, Notifying
<1>h. ASSUME In("waiting") # {}
      PROVE  Len(q) <= Cardinality(Awake) + (IF Notifying THEN 1 ELSE 0)
  BY <1>h DEF NoLostWakeup, Awake, Notifying
<1> DEFINE Goal == Len(q') <= Cardinality(Awake') + (IF Notifying' THEN 1 ELSE 0)
<1>1. ASSUME NEW s \in Senders, LockPush(s) PROVE NoLostWakeup'
  <2>1. In("waiting")' \subseteq In("waiting") /\ Awake \subseteq Awake'
    BY <1>a, <1>1 DEF LockPush, In, Awake
  <2>2. Notifying => Notifying'
    BY <1>a, <1>1 DEF LockPush, Notifying
  <2> QED BY <1>1, <2>1, <2>2, NothingLost DEF LockPush
<1>2. ASSUME NEW s \in Senders, NEW msg \in Messages, Push(s, msg) PROVE Goal
  <2>1. In("waiting")' = In("waiting") /\ Awake' = Awake
    BY <1>a, <1>2 DEF Push, In, Awake
  <2>2. ~Notifying
    BY <1>a, <1>2 DEF Push, Notifying
  <2>3. Notifying'
    BY <1>a, <1>2 DEF Push, Notifying
  <2>4. Len(q') = Len(q) + 1
    BY <1>b, <1>2, AppendProperties DEF Push
  <2>5. Len(q) <= Cardinality(Awake)
    BY <1>b, <1>d, <1>e, <1>h, <2>1, <2>2
  <2> QED BY <1>b, <1>d, <2>1, <2>3, <2>4, <2>5
<1>3. ASSUME NEW s \in Senders, Notify(s) PROVE Goal
  <2>1. PICK set \in SUBSET Receivers :
          /\ Woken(set)
          /\ pc' = [t \in Threads |->
               IF t = s THEN "unlock" ELSE IF t \in set THEN "woken" ELSE pc[t]]
    BY <1>3 DEF Notify
  <2>2. set \subseteq In("waiting")
    BY <2>1 DEF Woken
  <2>3. In("waiting")' = In("waiting") \ set /\ Awake' = Awake \cup set
    BY <1>a, <2>1, <2>2 DEF In, Awake
  <2>4. PICK r \in In("waiting") : set = {r}
    BY <1>e, <2>1, <2>3 DEF Woken
  <2>5. r \notin Awake
    BY <2>4 DEF Awake, In
  <2>6. Cardinality(Awake') = Cardinality(Awake) + 1
    BY <1>d, <2>3, <2>4, <2>5, FS_AddElement
  <2>7. q' = q
    BY <1>3 DEF Notify
  <2>8. Len(q) <= Cardinality(Awake) + 1
    BY <1>b, <1>d, <1>h, <2>4
  <2> QED BY <1>b, <1>c, <1>d, <2>6, <2>7, <2>8
<1>4. ASSUME NEW r \in Receivers, LockPop(r) PROVE NoLostWakeup'
  <2>1. In("waiting")' \subseteq In("waiting") /\ Awake \subseteq Awake'
    BY <1>a, <1>4 DEF LockPop, In, Awake
  <2>2. Notifying => Notifying'
    BY <1>a, <1>4 DEF LockPop, Notifying
  <2> QED BY <1>4, <2>1, <2>2, NothingLost DEF LockPop
<1>5. ASSUME NEW r \in Receivers, Test(r), q = <<>> PROVE Goal
  BY <1>5, <1>f DEF Test
<1>6. ASSUME NEW r \in Receivers, Test(r), q # <<>> PROVE NoLostWakeup'
  <2>1. In("waiting")' \subseteq In("waiting") /\ Awake \subseteq Awake'
    BY <1>a, <1>6 DEF Test, In, Awake
  <2>2. Notifying => Notifying'
    BY <1>a, <1>6 DEF Test, Notifying
  <2> QED BY <1>6, <2>1, <2>2, NothingLost DEF Test
<1>7. ASSUME NEW r \in Receivers, Sleep(r) PROVE Goal
  <2>1. q' = <<>>
    BY <1>7 DEF Sleep, TestInv
  <2> QED BY <1>f, <2>1
<1>8. ASSUME NEW r \in Receivers, Pop(r) PROVE Goal
  <2>1. q # <<>>
    BY <1>8 DEF Pop, TestInv, PopsAMessage
  <2>2. Len(q') = Len(q) - 1
    BY <1>8, <1>b, <2>1, HeadTailProperties DEF Pop
  <2>3. In("waiting")' = In("waiting") /\ Awake' = Awake \ {r} /\ r \in Awake
    BY <1>a, <1>8 DEF Pop, In, Awake
  <2>4. Cardinality(Awake') = Cardinality(Awake) - 1
    BY <1>d, <2>3, FS_RemoveElement
  <2>5. ~Notifying
    BY <1>a, <1>8 DEF Pop, Notifying
  <2>6. Len(q) <= Cardinality(Awake)
    BY <1>b, <1>d, <1>e, <1>h, <2>3, <2>5
  <2> QED BY <1>b, <1>c, <1>d, <2>2, <2>4, <2>6
<1>9. ASSUME NEW r \in Receivers, WakeUp(r) PROVE NoLostWakeup'
  <2>1. In("waiting")' \subseteq In("waiting") /\ Awake \subseteq Awake'
    BY <1>a, <1>9 DEF WakeUp, In, Awake
  <2>2. Notifying => Notifying'
    BY <1>a, <1>9 DEF WakeUp, Notifying
  <2> QED BY <1>9, <2>1, <2>2, NothingLost DEF WakeUp
<1>10. ASSUME NEW t \in Threads, Unlock(t) PROVE NoLostWakeup'
  <2>1. In("waiting")' \subseteq In("waiting") /\ Awake \subseteq Awake'
    BY <1>a, <1>10 DEF Unlock, In, Awake
  <2>2. Notifying => Notifying'
    BY <1>a, <1>10 DEF Unlock, Notifying
  <2> QED BY <1>10, <2>1, <2>2, NothingLost DEF Unlock
<1>11. ASSUME UNCHANGED vars PROVE NoLostWakeup'
  BY <1>11 DEF vars, NoLostWakeup, In
<1> HIDE DEF Goal
<1>12. ASSUME NoLostWakeup' PROVE Goal
  BY <1>12, <1>g DEF Goal
<1>13. Goal
  BY <1>1, <1>2, <1>3, <1>4, <1>5, <1>6, <1>7, <1>8, <1>9, <1>10, <1>11, <1>12
     DEF Next, Sending, Receiving, Ended
<1> QED BY <1>13 DEF Goal

-----------------------------------------------------------------------------
(* Every step keeps the queue the rest of what was sent, and is a step of  *)
(* the channel.                                                            *)
LEMMA ChannelStep ==
  TypeOK /\ TestInv /\ RestInv /\ [Next]_vars
    => RestInv' /\ [Chan!Next]_<<sent, received>>
<1> SUFFICES ASSUME TypeOK, TestInv, RestInv, [Next]_vars
             PROVE  RestInv' /\ [Chan!Next]_<<sent, received>>
  OBVIOUS
<1>a. /\ q \in Seq(Messages) /\ Len(q) \in Nat
      /\ sent \in Seq(Messages) /\ Len(sent) \in Nat
      /\ received \in Seq(Messages) /\ Len(received) \in Nat
  BY LenProperties DEF TypeOK
<1>1. ASSUME NEW s \in Senders, NEW msg \in Messages, Push(s, msg)
      PROVE  RestInv' /\ [Chan!Next]_<<sent, received>>
  <2>1. /\ q' = Append(q, msg) /\ sent' = Append(sent, msg)
        /\ received' = received
    BY <1>1 DEF Push
  <2>2. /\ Len(q') = Len(q) + 1
        /\ \A i \in 1..Len(q) : q'[i] = q[i]
        /\ q'[Len(q) + 1] = msg
        /\ Len(sent') = Len(sent) + 1
        /\ \A i \in 1..Len(sent) : sent'[i] = sent[i]
        /\ sent'[Len(sent) + 1] = msg
    BY <1>a, <2>1, AppendProperties
  <2>3. Len(sent') = Len(received') + Len(q')
    BY <1>a, <2>1, <2>2 DEF RestInv
  <2>4. ASSUME NEW i \in 1..Len(q') PROVE q'[i] = sent'[Len(received') + i]
    <3>1. CASE i \in 1..Len(q)
      <4>1. Len(received) + i \in 1..Len(sent)
        BY <1>a, <3>1 DEF RestInv
      <4> QED BY <2>1, <2>2, <3>1, <4>1 DEF RestInv
    <3>2. CASE i = Len(q) + 1
      <4>1. Len(received) + i = Len(sent) + 1
        BY <1>a, <3>2 DEF RestInv
      <4> QED BY <2>1, <2>2, <3>2, <4>1
    <3> QED BY <1>a, <2>2, <3>1, <3>2
  <2>5. Chan!Next
    BY <2>1 DEF Chan!Next, Chan!Send
  <2> QED BY <2>3, <2>4, <2>5 DEF RestInv
<1>2. ASSUME NEW r \in Receivers, Pop(r)
      PROVE  RestInv' /\ [Chan!Next]_<<sent, received>>
  <2>1. q # <<>>
    BY <1>2 DEF Pop, TestInv, PopsAMessage
  <2>2. /\ q' = Tail(q) /\ received' = Append(received, Head(q))
        /\ sent' = sent
    BY <1>2 DEF Pop
  <2>3. /\ Head(q) \in Messages /\ Head(q) = q[1]
        /\ Len(q') = Len(q) - 1 /\ Len(q) # 0
        /\ \A i \in 1..Len(q') : q'[i] = q[i + 1]
    BY <1>a, <2>1, <2>2, HeadTailProperties, EmptySeq
  <2>4. Len(received') = Len(received) + 1
    BY <1>a, <2>2, <2>3, AppendProperties
  <2>5. Len(sent') = Len(received') + Len(q')
    <3>1. Len(sent) = Len(received) + Len(q)
      BY DEF RestInv
    <3>2. Len(received) + Len(q) = (Len(received) + 1) + (Len(q) - 1)
      BY <1>a
    <3> QED BY <2>2, <2>3, <2>4, <3>1, <3>2
  <2>6. ASSUME NEW i \in 1..Len(q') PROVE q'[i] = sent'[Len(received') + i]
    <3>1. i + 1 \in 1..Len(q)
      BY <1>a, <2>3
    <3>2. q[i + 1] = sent[Len(received) + (i + 1)]
      BY <3>1 DEF RestInv
    <3>3. Len(received) + (i + 1) = Len(received') + i
      BY <1>a, <2>4
    <3> QED BY <2>2, <2>3, <3>2, <3>3
  <2>7. Chan!Receive
    <3>1. 1 \in 1..Len(q)
      BY <1>a, <2>3
    <3>2. Head(q) = sent[Len(received) + 1]
      BY <2>3, <3>1 DEF RestInv
    <3>3. Len(received) < Len(sent)
      BY <1>a, <2>3 DEF RestInv
    <3> QED BY <2>2, <3>2, <3>3 DEF Chan!Receive
  <2> QED BY <2>5, <2>6, <2>7 DEF RestInv, Chan!Next
<1>3. ASSUME UNCHANGED <<q, sent, received>>
      PROVE  RestInv' /\ [Chan!Next]_<<sent, received>>
  BY <1>3 DEF RestInv
<1>4. \/ \E s \in Senders : \E msg \in Messages : Push(s, msg)
      \/ \E r \in Receivers : Pop(r)
      \/ UNCHANGED <<q, sent, received>>
  BY DEF Next, Sending, Receiving, Ended, vars, LockPush, Notify, LockPop, Test,
         Sleep, WakeUp, Unlock
<1> QED BY <1>1, <1>2, <1>3, <1>4

-----------------------------------------------------------------------------
EndInv == IsFiniteSet(Closes) /\ OneEndPerClose

(* The message that is taken is the last of those received: a close_queue  *)
(* is one more of them and its receiver one more that ends.                *)
LEMMA EndStep ==
  TypeOK /\ TestInv /\ EndInv /\ [Next]_vars => EndInv'
<1> SUFFICES ASSUME TypeOK, TestInv, EndInv, [Next]_vars PROVE EndInv'
  OBVIOUS
<1>a. pc \in [Threads -> {"idle", "push", "notify", "test", "wait", "waiting",
                         "woken", "pop", "unlock", "close", "closed"}]
  BY DEF TypeOK
<1>b. IsFiniteSet(Ending)
  <2>1. Ending \in SUBSET Receivers
    BY DEF Ending, In
  <2> QED BY <2>1, FS_Subset
<1>c. received \in Seq(Messages) /\ Len(received) \in Nat
  BY LenProperties DEF TypeOK
<1>1. ASSUME NEW r \in Receivers, Pop(r) PROVE EndInv'
  <2>1. q # <<>> /\ pc[r] = "pop" /\ received' = Append(received, Head(q))
    BY <1>1 DEF Pop, TestInv, PopsAMessage
  <2>2. Head(q) \in Messages
    BY <2>1, HeadTailProperties DEF TypeOK
  <2>3. /\ Len(received') = Len(received) + 1
        /\ \A i \in 1..Len(received) : received'[i] = received[i]
        /\ received'[Len(received) + 1] = Head(q)
    BY <1>c, <2>1, <2>2, AppendProperties
  <2>4. Closes' = IF Head(q) = close_queue THEN Closes \cup {Len(received) + 1} ELSE Closes
    BY <1>c, <2>3 DEF Closes
  <2>5. Len(received) + 1 \notin Closes
    BY <1>c DEF Closes
  <2>6. r \notin Ending
    BY <2>1 DEF Ending, In
  <2>7. Ending' = IF Head(q) = close_queue THEN Ending \cup {r} ELSE Ending
    BY <1>a, <1>1 DEF Pop, Go, Ending, In, Threads
  <2>8. CASE Head(q) = close_queue
    <3>1. /\ IsFiniteSet(Closes')
          /\ Cardinality(Closes') = Cardinality(Closes) + 1
      BY <2>4, <2>5, <2>8, FS_AddElement DEF EndInv
    <3>2. Cardinality(Ending') = Cardinality(Ending) + 1
      BY <1>b, <2>6, <2>7, <2>8, FS_AddElement
    <3> QED BY <3>1, <3>2 DEF EndInv, OneEndPerClose
  <2>9. CASE Head(q) # close_queue
    BY <2>4, <2>7, <2>9 DEF EndInv, OneEndPerClose
  <2> QED BY <2>8, <2>9
<1>2. ASSUME UNCHANGED received, Ending' = Ending PROVE EndInv'
  BY <1>2 DEF EndInv, OneEndPerClose, Closes
<1>3. ASSUME NEW s \in Senders,
             LockPush(s) \/ (\E msg \in Messages : Push(s, msg))
      PROVE  UNCHANGED received /\ Ending' = Ending
  BY <1>a, <1>3 DEF LockPush, Push, Go, Ending, In, Threads
<1>4. ASSUME NEW s \in Senders, Notify(s)
      PROVE  UNCHANGED received /\ Ending' = Ending
  <2>1. PICK set \in SUBSET Receivers :
          /\ Woken(set)
          /\ pc' = [t \in Threads |->
                      IF t = s THEN "unlock" ELSE IF t \in set THEN "woken" ELSE pc[t]]
    BY <1>4 DEF Notify
  <2>2. \A r \in set : pc[r] = "waiting"
    BY <2>1 DEF Woken, In
  <2> QED BY <1>4, <2>1, <2>2 DEF Notify, Ending, In, Threads
<1>5. ASSUME NEW r \in Receivers, LockPop(r) \/ Test(r) \/ Sleep(r) \/ WakeUp(r)
      PROVE  UNCHANGED received /\ Ending' = Ending
  BY <1>a, <1>5 DEF LockPop, Test, Sleep, WakeUp, Go, Ending, In, Threads
<1>6. ASSUME NEW t \in Threads, Unlock(t)
      PROVE  UNCHANGED received /\ Ending' = Ending
  BY <1>a, <1>6 DEF Unlock, Go, Ending, In, Threads
<1>7. ASSUME Ended \/ UNCHANGED vars
      PROVE  UNCHANGED received /\ Ending' = Ending
  BY <1>7 DEF Ended, vars, Ending, In
<1> QED BY <1>1, <1>2, <1>3, <1>4, <1>5, <1>6, <1>7 DEF Next, Sending, Receiving

-----------------------------------------------------------------------------
LEMMA Inductive == Spec => [](TypeOK /\ TestInv)
<1>1. Init => TypeOK /\ TestInv
  <2> SUFFICES ASSUME Init PROVE TypeOK /\ TestInv
    OBVIOUS
  <2>1. \A t \in Threads : pc[t] = "idle" /\ t # NoThread
    BY DEF Init, Threads
  <2> QED BY <2>1, EmptySeq DEF Init, TypeOK, TestInv, PopsAMessage, Threads
<1>2. TypeOK /\ TestInv /\ [Next]_vars => (TypeOK /\ TestInv)'
  BY TypeStep, TestStep
<1> QED BY <1>1, <1>2, PTL DEF Spec

(* The variables keep their types, and who is between lock and unlock has  *)
(* the mutex (threadsave_queue.4.5.cpp:20-38).                             *)
THEOREM TypeCorrect == Spec => []TypeOK
BY Inductive, PTL

(* front() and pop() find a message (threadsave_queue.4.5.cpp:26-29,       *)
(* ATM/messaging.cpp:29-33).                                               *)
THEOREM PopsFind == Spec => []PopsAMessage
<1>1. TestInv => PopsAMessage
  BY DEF TestInv
<1> QED BY <1>1, Inductive, PTL

(* No wakeup is lost, with notify_one() or with notify_all(), for any      *)
(* number of senders and receivers (threadsave_queue.4.5.cpp:20-30).       *)
THEOREM WakeupsSuffice == Spec => []NoLostWakeup
<1>1. Init => NoLostWakeup
  BY DEF Init, NoLostWakeup, In, Threads
<1> QED BY <1>1, Inductive, WakeupStep, PTL DEF Spec

(* There is no deadlock in which a message waits and all sleep: for any    *)
(* number of threads (condition_vari-4.1.cpp:25-37).                       *)
THEOREM NeverDeadlocked == Spec => []SomebodyGoesOn
<1>1. ASSUME TypeOK, NoLostWakeup, q # <<>>, m = NoThread, In("waiting") # {}
      PROVE  \E r \in Receivers : pc[r] = "woken"
  <2>1. q \in Seq(Messages) /\ Len(q) \in Nat /\ Len(q) # 0
    BY <1>1, LenProperties, EmptySeq DEF TypeOK
  <2>2. In("test") = {} /\ In("pop") = {} /\ ~Notifying
    BY <1>1 DEF TypeOK, In, Notifying, Threads
  <2>3. Len(q) <= Cardinality(Awake)
    BY <1>1, <2>1, <2>2, AwakeType DEF NoLostWakeup, Awake, Notifying
  <2>4. Awake # {}
    <3>1. Cardinality(Awake) # 0
      BY <2>1, <2>3, AwakeType
    <3> QED BY <3>1, FS_EmptySet
  <2> QED BY <2>2, <2>4 DEF Awake, In
<1>2. ASSUME TypeOK, m = NoThread, In("waiting") = {}
      PROVE  \A r \in Receivers : pc[r] \in {"idle", "woken", "closed"}
  BY <1>2 DEF TypeOK, In, Threads
<1>3. TypeOK /\ NoLostWakeup => SomebodyGoesOn
  BY <1>1, <1>2 DEF SomebodyGoesOn, In
<1> QED BY <1>3, TypeCorrect, WakeupsSuffice, PTL

(* As many dispatchers have ended, or are about to, as messages            *)
(* close_queue were received (ATM/messaging.cpp:66-79).                    *)
THEOREM ClosesEndOne == Spec => []OneEndPerClose
<1>1. Init => EndInv
  <2> SUFFICES ASSUME Init PROVE EndInv
    OBVIOUS
  <2>1. Closes = {} /\ Ending = {}
    BY EmptySeq DEF Init, Closes, Ending, In, Threads
  <2> QED BY <2>1, FS_EmptySet DEF EndInv, OneEndPerClose
<1>2. EndInv => OneEndPerClose
  BY DEF EndInv
<1> QED BY <1>1, <1>2, Inductive, EndStep, PTL DEF Spec

(* The queue implements the channel (threadsave_queue.4.5.cpp:20-38,       *)
(* ATM/messaging.cpp:22-34).                                               *)
THEOREM QueueIsChannel == Spec => ImplementsChannel
<1>1. Init => RestInv /\ Chan!Init
  BY EmptySeq DEF Init, RestInv, Chan!Init
<1> QED BY <1>1, Inductive, ChannelStep, PTL
        DEF Spec, ImplementsChannel, Chan!Spec
=============================================================================
