------------------------- MODULE BoundedQueueProofs -------------------------
(***************************************************************************)
(* Theorems about BoundedQueue for any set of threads, any capacity and    *)
(* any bound on the number of payloads.                                    *)
(***************************************************************************)
EXTENDS BoundedQueue, SequenceTheorems, FiniteSetTheorems, TLAPS

\* Writing one element of a sequence, at whatever index, keeps its type and
\* its length.
LEMMA SetElement ==
  ASSUME NEW S, NEW s \in Seq(S), NEW i, NEW x \in S
  PROVE  /\ [s EXCEPT ![i] = x] \in Seq(S)
         /\ Len([s EXCEPT ![i] = x]) = Len(s)
<1>1. CASE i \in 1..Len(s)
  BY <1>1, ExceptSeq
<1>2. CASE i \notin 1..Len(s)
  <2>1. DOMAIN s = 1..Len(s) /\ s \in [1..Len(s) -> S]
    BY LenProperties
  <2>2. [s EXCEPT ![i] = x] = s
    BY <1>2, <2>1, Zenon
  <2> QED
    BY <2>2
<1> QED
  BY <1>1, <1>2

\* Mapping the elements of a sequence keeps its length.
LEMMA DiscardedFates ==
  ASSUME fate \in Seq(Fates)
  PROVE  LET new == [k \in DOMAIN fate |->
                       IF fate[k] = "queued" THEN "discarded" ELSE fate[k]]
         IN new \in Seq(Fates) /\ Len(new) = Len(fate)
<1> DEFINE new == [k \in DOMAIN fate |->
                     IF fate[k] = "queued" THEN "discarded" ELSE fate[k]]
<1>1. Len(fate) \in Nat /\ DOMAIN fate = 1..Len(fate) /\ fate \in [1..Len(fate) -> Fates]
  BY LenProperties
<1>2. new \in [1..Len(fate) -> Fates]
  BY <1>1 DEF Fates
<1>3. new \in Seq(Fates)
  BY <1>1, <1>2
<1>4. Len(new) = Len(fate)
  BY <1>1, <1>2, <1>3, LenProperties
<1> QED
  BY <1>3, <1>4

\* Every variable of BoundedQueue keeps its type: no sequence of calls and
\* wakeups brings a thread, the queue or its counter into an unknown state.
LEMMA TypeInit == Init => TypeOK
<1> SUFFICES ASSUME Init PROVE TypeOK
  OBVIOUS
<1>1. queue \in Seq(Nat) /\ fate \in Seq(Fates)
  BY EmptySeq DEF Init
<1>2. closed \in BOOLEAN /\ dropped \in Nat
  BY DEF Init
<1>3. call \in [Threads -> AllOps \cup {"none"}]
  BY DEF Init
<1>4. pc \in [Threads -> Locations]
  BY DEF Init, Locations
<1> QED
  BY <1>1, <1>2, <1>3, <1>4 DEF TypeOK

LEMMA TypeRun ==
  ASSUME TypeOK, NEW t \in Threads, Run(t)
  PROVE  TypeOK'
<1> USE DEF TypeOK, Locations
<1>1. CASE PushWait(t)
  BY <1>1 DEF PushWait
<1>2. CASE Accept(t)
  <2>1. Append(queue, Len(fate) + 1) \in Seq(Nat)
    BY AppendProperties, LenProperties
  <2>2. Append(fate, "queued") \in Seq(Fates)
    BY AppendProperties DEF Fates
  <2> QED
    BY <1>2, <2>1, <2>2 DEF Accept, Enqueue, Leave
<1>3. CASE Replace(t)
  <2>1. queue # <<>>
    BY <1>3, QueueAssumption, EmptySeq DEF Replace, Displacing, Full
  <2>2. Append(Tail(queue), Len(fate) + 1) \in Seq(Nat)
    BY <2>1, HeadTailProperties, AppendProperties, LenProperties
  <2>3. Append([fate EXCEPT ![Head(queue)] = "dropped"], "queued") \in Seq(Fates)
    BY SetElement, AppendProperties DEF Fates
  <2> QED
    BY <1>3, <2>2, <2>3 DEF Replace, Displace, Leave
<1>4. CASE Refuse(t)
  BY <1>4 DEF Refuse, Leave
<1>5. CASE PopWait(t)
  BY <1>5 DEF PopWait
<1>6. CASE Take(t)
  <2>1. Tail(queue) \in Seq(Nat)
    BY <1>6, HeadTailProperties DEF Take, Dequeue
  <2>2. [fate EXCEPT ![Head(queue)] = "taken"] \in Seq(Fates)
    BY SetElement DEF Fates
  <2> QED
    BY <1>6, <2>1, <2>2 DEF Take, Dequeue, Leave
<1>7. CASE TakeNothing(t)
  BY <1>7 DEF TakeNothing, Leave
<1>8. CASE Close(t)
  <2>1. fate' \in Seq(Fates)
    BY <1>8, DiscardedFates DEF Close, Shut
  <2>2. queue' \in Seq(Nat)
    BY <1>8, EmptySeq DEF Close, Shut
  <2> QED
    BY <1>8, <2>1, <2>2 DEF Close, Shut, Leave
<1>9. CASE NotifyNotEmpty(t)
  BY <1>9 DEF NotifyNotEmpty, NotifyOne, At
<1>10. CASE NotifyNotFull(t)
  BY <1>10 DEF NotifyNotFull, NotifyOne, At
<1>11. CASE NotifyAllNotEmpty(t)
  BY <1>11 DEF NotifyAllNotEmpty, NotifyAll
<1>12. CASE NotifyAllNotFull(t)
  BY <1>12 DEF NotifyAllNotFull, NotifyAll
<1> QED
  BY <1>1, <1>2, <1>3, <1>4, <1>5, <1>6, <1>7, <1>8, <1>9, <1>10, <1>11, <1>12
     DEF Run

LEMMA TypeNext == TypeOK /\ [Next]_vars => TypeOK'
<1> SUFFICES ASSUME TypeOK, [Next]_vars PROVE TypeOK'
  OBVIOUS
<1>1. CASE UNCHANGED vars
  BY <1>1 DEF vars, TypeOK
<1>2. ASSUME NEW t \in Threads, Timeout(t) PROVE TypeOK'
  BY <1>2 DEF Timeout, Locations, TypeOK
<1>3. ASSUME NEW t \in Threads, SpuriousWakeup(t) PROVE TypeOK'
  BY <1>3 DEF SpuriousWakeup, Locations, TypeOK
<1>4. ASSUME NEW t \in Threads, NEW o \in Ops, Begin(t, o) PROVE TypeOK'
  BY <1>4, QueueAssumption DEF Begin, Locations, AllOps, TypeOK
<1> QED
  BY <1>1, <1>2, <1>3, <1>4, TypeRun DEF Next

THEOREM TypeCorrect == Spec => []TypeOK
<1> QED
  BY TypeInit, TypeNext, PTL DEF Spec

-----------------------------------------------------------------------------
\* The queue's contents.  CapacityRespected and NothingLostOrReordered are
\* inductive together with the types: what the next step does to the queue
\* depends on them and on nothing else.
ContentsOK == TypeOK /\ CapacityRespected /\ NothingLostOrReordered

\* A push gives the new payload the next ticket.
LEMMA AcceptContents ==
  ASSUME ContentsOK, NEW t \in Threads, Accept(t)
  PROVE  CapacityRespected' /\ NothingLostOrReordered'
<1> USE DEF ContentsOK, TypeOK
<1>1. /\ queue' = Append(queue, Len(fate) + 1)
      /\ fate' = Append(fate, "queued")
      /\ Len(queue) # Capacity
  BY DEF Accept, Enqueue, Full
<1>2. Len(queue) \in Nat /\ Len(fate) \in Nat /\ Capacity \in Nat
  BY QueueAssumption, LenProperties
<1>3. Len(queue') = Len(queue) + 1 /\ Len(fate') = Len(fate) + 1
  BY <1>1, AppendProperties
<1>4. CapacityRespected'
  BY <1>1, <1>2, <1>3 DEF CapacityRespected
<1>5. Base' = Base /\ Base \in Nat /\ Base + Len(queue) = Len(fate)
  BY <1>2, <1>3 DEF Base, NothingLostOrReordered
<1>6. ASSUME NEW i \in DOMAIN queue' PROVE queue'[i] = Base' + i
  <2>1. CASE i = Len(queue) + 1
    <3>1. Len(fate) + 1 \in Nat
      BY <1>2
    <3>2. queue'[i] = Len(fate) + 1
      BY <1>1, <2>1, <3>1, AppendProperties
    <3> QED
      BY <1>2, <1>5, <2>1, <3>2
  <2>2. CASE i \in 1..Len(queue)
    <3>1. queue'[i] = queue[i] /\ i \in DOMAIN queue
      BY <1>1, <2>2, AppendProperties, LenProperties
    <3> QED
      BY <1>5, <3>1 DEF NothingLostOrReordered
  <2>3. DOMAIN queue' = 1..Len(queue) + 1
    BY <1>1, <1>3, AppendProperties, LenProperties
  <2> QED
    BY <1>2, <2>1, <2>2, <2>3
<1>7. ASSUME NEW k \in DOMAIN fate' PROVE fate'[k] = "queued" <=> k > Base'
  <2>1. CASE k = Len(fate) + 1
    BY <1>1, <1>2, <1>5, <2>1, AppendProperties
  <2>2. CASE k \in 1..Len(fate)
    BY <1>1, <1>5, <2>2, AppendProperties DEF NothingLostOrReordered
  <2> QED
    BY <1>2, <1>3, <2>1, <2>2, LenProperties
<1> QED
  BY <1>2, <1>3, <1>4, <1>5, <1>6, <1>7 DEF NothingLostOrReordered

\* A pop takes the oldest ticket and leaves the others as they were.
LEMMA TakeContents ==
  ASSUME ContentsOK, NEW t \in Threads, Take(t)
  PROVE  CapacityRespected' /\ NothingLostOrReordered'
<1> USE DEF ContentsOK, TypeOK
<1>1. /\ queue # <<>>
      /\ queue' = Tail(queue)
      /\ fate' = [fate EXCEPT ![Head(queue)] = "taken"]
  BY DEF Take, Dequeue
<1>2. Len(queue) \in Nat /\ Len(fate) \in Nat /\ Capacity \in Nat
  BY QueueAssumption, LenProperties
<1>3. /\ Len(queue) > 0
      /\ Len(queue') = Len(queue) - 1
      /\ Head(queue) = queue[1]
      /\ \A i \in 1..Len(queue') : queue'[i] = queue[i + 1]
  BY <1>1, <1>2, EmptySeq, HeadTailProperties
<1>4. Len(fate') = Len(fate) /\ fate' \in Seq(Fates)
  <2>1. "taken" \in Fates
    BY DEF Fates
  <2> QED
    BY <1>1, <2>1, SetElement
<1>5. Base' = Base + 1 /\ Base \in Nat
  BY <1>2, <1>3, <1>4 DEF Base, NothingLostOrReordered
<1>6. Head(queue) = Base + 1
  <2>1. 1 \in DOMAIN queue
    BY <1>2, <1>3, LenProperties
  <2> QED
    BY <1>3, <2>1 DEF NothingLostOrReordered
<1>7. ASSUME NEW i \in DOMAIN queue' PROVE queue'[i] = Base' + i
  BY <1>2, <1>3, <1>5, <1>1, HeadTailProperties DEF NothingLostOrReordered
<1>8. ASSUME NEW k \in DOMAIN fate' PROVE fate'[k] = "queued" <=> k > Base'
  <2>1. k \in DOMAIN fate /\ k \in Nat
    BY <1>1, LenProperties
  <2>2. fate'[k] = IF k = Base + 1 THEN "taken" ELSE fate[k]
    BY <1>1, <1>6, <2>1
  <2> QED
    BY <1>5, <2>1, <2>2 DEF NothingLostOrReordered
<1> QED
  BY <1>2, <1>3, <1>4, <1>5, <1>7, <1>8
     DEF NothingLostOrReordered, CapacityRespected

\* drop_oldest is a pop of the oldest payload and a push, in one step.
LEMMA ReplaceContents ==
  ASSUME ContentsOK, NEW t \in Threads, Replace(t)
  PROVE  CapacityRespected' /\ NothingLostOrReordered'
<1> USE DEF ContentsOK, TypeOK
<1> DEFINE left == [fate EXCEPT ![Head(queue)] = "dropped"]
<1>1. /\ Len(queue) = Capacity
      /\ queue' = Append(Tail(queue), Len(fate) + 1)
      /\ fate' = Append(left, "queued")
  BY DEF Replace, Displacing, Displace, Full
<1>2. Len(queue) \in Nat /\ Len(fate) \in Nat /\ Capacity \in Nat /\ Capacity > 0
  BY QueueAssumption, LenProperties
<1>3. queue # <<>>
  BY <1>1, <1>2, EmptySeq
<1>4. /\ Tail(queue) \in Seq(Nat)
      /\ Len(Tail(queue)) = Len(queue) - 1
      /\ Head(queue) = queue[1]
      /\ \A i \in 1..Len(queue) - 1 : Tail(queue)[i] = queue[i + 1]
  BY <1>3, HeadTailProperties, LenProperties
<1>5. left \in Seq(Fates) /\ Len(left) = Len(fate)
  <2>1. "dropped" \in Fates
    BY DEF Fates
  <2> QED
    BY <2>1, SetElement
<1>6. Len(queue') = Len(queue) /\ Len(fate') = Len(fate) + 1
  BY <1>1, <1>2, <1>4, <1>5, AppendProperties DEF Fates
<1>7. Base' = Base + 1 /\ Base \in Nat /\ Base + Len(queue) = Len(fate)
  BY <1>2, <1>6 DEF Base, NothingLostOrReordered
<1>8. Head(queue) = Base + 1
  <2>1. 1 \in DOMAIN queue
    BY <1>1, <1>2, LenProperties
  <2> QED
    BY <1>4, <2>1 DEF NothingLostOrReordered
<1>9. ASSUME NEW i \in DOMAIN queue' PROVE queue'[i] = Base' + i
  <2>1. i \in 1..Len(queue)
    BY <1>1, <1>2, <1>4, <1>6, AppendProperties, LenProperties
  <2>2. CASE i = Len(queue)
    BY <1>1, <1>2, <1>4, <1>7, <2>2, AppendProperties
  <2>3. CASE i \in 1..Len(queue) - 1
    <3>1. queue'[i] = queue[i + 1]
      BY <1>1, <1>2, <1>4, <2>3, AppendProperties
    <3>2. i + 1 \in DOMAIN queue
      BY <1>2, <2>3, LenProperties
    <3> QED
      BY <1>7, <2>3, <3>1, <3>2 DEF NothingLostOrReordered
  <2> QED
    BY <1>2, <2>1, <2>2, <2>3
<1>10. ASSUME NEW k \in DOMAIN fate' PROVE fate'[k] = "queued" <=> k > Base'
  <2>1. k \in 1..Len(fate) + 1
    BY <1>1, <1>5, <1>6, AppendProperties, LenProperties DEF Fates
  <2>2. CASE k = Len(fate) + 1
    <3>1. fate'[k] = "queued"
      BY <1>1, <1>5, <2>2, AppendProperties DEF Fates
    <3> QED
      BY <1>1, <1>2, <1>7, <2>2, <3>1
  <2>3. CASE k \in 1..Len(fate)
    <3>1. fate'[k] = left[k]
      BY <1>1, <1>5, <2>3, AppendProperties DEF Fates
    <3>2. k \in DOMAIN fate
      BY <2>3, LenProperties
    <3>3. left[k] = IF k = Base + 1 THEN "dropped" ELSE fate[k]
      BY <1>8, <3>2
    <3> QED
      BY <1>7, <2>3, <3>1, <3>2, <3>3 DEF NothingLostOrReordered
  <2> QED
    BY <1>2, <2>1, <2>2, <2>3
<1>11. CapacityRespected' /\ Len(queue') <= Len(fate')
  BY <1>1, <1>2, <1>6, <1>7 DEF CapacityRespected, NothingLostOrReordered
<1> QED
  BY <1>9, <1>10, <1>11 DEF NothingLostOrReordered

\* A discarding close empties the queue and says so of every payload in it.
LEMMA CloseContents ==
  ASSUME ContentsOK, NEW t \in Threads, Close(t)
  PROVE  CapacityRespected' /\ NothingLostOrReordered'
<1> USE DEF ContentsOK, TypeOK
<1>1. CASE call[t] = "close_discard"
  <2>1. /\ queue' = <<>>
        /\ fate' = [k \in DOMAIN fate |->
                     IF fate[k] = "queued" THEN "discarded" ELSE fate[k]]
    BY <1>1 DEF Close, Shut
  <2>2. Len(queue') = 0 /\ DOMAIN queue' = {}
    BY <2>1, EmptySeq, LenProperties
  <2>3. Len(fate') = Len(fate) /\ Len(fate) \in Nat /\ DOMAIN fate = 1..Len(fate)
    BY <2>1, DiscardedFates, LenProperties
  <2>4. Base' = Len(fate)
    BY <2>2, <2>3 DEF Base
  <2>5. ASSUME NEW k \in DOMAIN fate' PROVE fate'[k] # "queued" /\ ~(k > Base')
    BY <2>1, <2>3, <2>4
  <2> QED
    BY <2>2, <2>3, <2>5, QueueAssumption
       DEF NothingLostOrReordered, CapacityRespected
<1>2. CASE call[t] # "close_discard"
  BY <1>2 DEF Close, Shut, NothingLostOrReordered, CapacityRespected, Base
<1> QED
  BY <1>1, <1>2

LEMMA ContentsInit == Init => ContentsOK
<1> SUFFICES ASSUME Init PROVE ContentsOK
  OBVIOUS
<1>1. Len(queue) = 0 /\ Len(fate) = 0 /\ DOMAIN queue = {} /\ DOMAIN fate = {}
  BY EmptySeq, LenProperties DEF Init
<1> QED
  BY <1>1, TypeInit, QueueAssumption
     DEF ContentsOK, CapacityRespected, NothingLostOrReordered

LEMMA ContentsNext == ContentsOK /\ [Next]_vars => ContentsOK'
<1> SUFFICES ASSUME ContentsOK, [Next]_vars PROVE ContentsOK'
  OBVIOUS
<1>1. TypeOK'
  BY TypeNext DEF ContentsOK
<1>2. ASSUME UNCHANGED <<queue, fate>>
      PROVE  CapacityRespected' /\ NothingLostOrReordered'
  BY <1>2 DEF ContentsOK, CapacityRespected, NothingLostOrReordered, Base
<1>3. ASSUME NEW t \in Threads, Run(t)
      PROVE  CapacityRespected' /\ NothingLostOrReordered'
  <2>1. CASE Accept(t)
    BY <2>1, AcceptContents
  <2>2. CASE Replace(t)
    BY <2>2, ReplaceContents
  <2>3. CASE Take(t)
    BY <2>3, TakeContents
  <2>4. CASE Close(t)
    BY <2>4, CloseContents
  <2>5. CASE PushWait(t) \/ Refuse(t) \/ PopWait(t) \/ TakeNothing(t)
    BY <1>2, <2>5 DEF PushWait, Refuse, PopWait, TakeNothing
  <2>6. CASE \/ NotifyNotEmpty(t) \/ NotifyNotFull(t)
             \/ NotifyAllNotEmpty(t) \/ NotifyAllNotFull(t)
    BY <1>2, <2>6 DEF NotifyNotEmpty, NotifyNotFull, NotifyAllNotEmpty,
                      NotifyAllNotFull, NotifyOne, NotifyAll
  <2> QED
    BY <1>3, <2>1, <2>2, <2>3, <2>4, <2>5, <2>6 DEF Run
<1>4. CASE UNCHANGED vars
  <2>1. UNCHANGED <<queue, fate>>
    BY <1>4 DEF vars
  <2> QED
    BY <1>1, <1>2, <2>1 DEF ContentsOK
<1>5. ASSUME NEW t \in Threads,
             \/ Timeout(t) \/ SpuriousWakeup(t) \/ \E o \in Ops : Begin(t, o)
      PROVE  CapacityRespected' /\ NothingLostOrReordered'
  BY <1>2, <1>5 DEF Timeout, SpuriousWakeup, Begin
<1> QED
  BY <1>1, <1>3, <1>4, <1>5 DEF Next, ContentsOK

\* No interleaving of push, try_push, pop, pop_for, close and of the wakeups
\* overfills the queue, loses a payload, delivers one twice or out of order.
THEOREM ContentsCorrect == Spec => [](CapacityRespected /\ NothingLostOrReordered)
<1>1. ContentsOK => CapacityRespected /\ NothingLostOrReordered
  BY DEF ContentsOK
<1> QED
  BY <1>1, ContentsInit, ContentsNext, PTL DEF Spec

-----------------------------------------------------------------------------
\* Wakeups.  A thread sleeps on a condition variable only in the call that
\* waits for it, so that a notification reaches a thread it is meant for.
SleepersWait ==
  \A t \in Threads : /\ pc[t] = "waitNotFull" => call[t] = "push"
                     /\ pc[t] = "waitNotEmpty" => call[t] \in {"pop", "pop_for"}

Awake == ContentsOK /\ SleepersWait

LEMMA SleepersNext == Awake /\ [Next]_vars => SleepersWait'
<1> SUFFICES ASSUME Awake, [Next]_vars PROVE SleepersWait'
  OBVIOUS
<1> USE DEF Awake, ContentsOK, TypeOK, SleepersWait
<1>1. ASSUME NEW t \in Threads, Run(t) PROVE SleepersWait'
  <2>1. CASE PushWait(t) \/ PopWait(t)
    BY <2>1 DEF PushWait, PopWait
  <2>2. CASE Accept(t) \/ Replace(t) \/ Refuse(t)
    BY <2>2 DEF Accept, Replace, Refuse, Enqueue, Displace, Leave
  <2>3. CASE Take(t) \/ TakeNothing(t) \/ Close(t)
    BY <2>3 DEF Take, TakeNothing, Close, Shut, Dequeue, Leave
  <2>4. CASE NotifyNotEmpty(t) \/ NotifyNotFull(t)
    BY <2>4 DEF NotifyNotEmpty, NotifyNotFull, NotifyOne, At
  <2>5. CASE NotifyAllNotEmpty(t) \/ NotifyAllNotFull(t)
    BY <2>5 DEF NotifyAllNotEmpty, NotifyAllNotFull, NotifyAll
  <2> QED
    BY <1>1, <2>1, <2>2, <2>3, <2>4, <2>5 DEF Run
<1>2. ASSUME NEW t \in Threads, Timeout(t) \/ SpuriousWakeup(t)
      PROVE  SleepersWait'
  BY <1>2 DEF Timeout, SpuriousWakeup
<1>3. ASSUME NEW t \in Threads, NEW o \in Ops, Begin(t, o) PROVE SleepersWait'
  BY <1>3 DEF Begin
<1>4. CASE UNCHANGED vars
  BY <1>4 DEF vars
<1> QED
  BY <1>1, <1>2, <1>3, <1>4 DEF Next

\* Any selection of threads is a finite set.
LEMMA SomeThreads ==
  ASSUME NEW T, T \subseteq Threads
  PROVE  IsFiniteSet(T) /\ Cardinality(T) \in Nat
  BY QueueAssumption, FS_Subset, FS_CardinalityType

\* More notifications under way, or more threads awake, cover no less.
LEMMA CoverGrows ==
  ASSUME NEW A, NEW B, A \subseteq B, B \subseteq Threads
  PROVE  Cardinality(A) <= Cardinality(B)
  BY SomeThreads, FS_Subset

LEMMA CoverGains ==
  ASSUME NEW A, A \subseteq Threads, NEW t \in Threads, t \notin A
  PROVE  Cardinality(A \cup {t}) = Cardinality(A) + 1
  BY SomeThreads, FS_AddElement

LEMMA CoverLoses ==
  ASSUME NEW A, A \subseteq Threads, NEW t \in A
  PROVE  Cardinality(A \ {t}) = Cardinality(A) - 1
  BY SomeThreads, FS_RemoveElement

\* A step that wakes nobody's cover away keeps NoLostWakeupNotEmpty.
LEMMA NotEmptyKept ==
  ASSUME TypeOK, NoLostWakeupNotEmpty, UNCHANGED <<queue, closed>>,
         At("waitNotEmpty")' \subseteq At("waitNotEmpty"),
         At("notifyNotEmpty") \subseteq At("notifyNotEmpty")',
         PopReady \subseteq PopReady',
         At("notifyAllNotEmpty") \subseteq At("notifyAllNotEmpty")'
  PROVE  NoLostWakeupNotEmpty'
<1>1. At("notifyNotEmpty")' \subseteq Threads /\ PopReady' \subseteq Threads
  BY DEF At, PopReady
<1>2. At("notifyNotEmpty") \subseteq Threads /\ PopReady \subseteq Threads
  BY DEF At, PopReady
<1>3. /\ Cardinality(At("notifyNotEmpty")) <= Cardinality(At("notifyNotEmpty")')
      /\ Cardinality(PopReady) <= Cardinality(PopReady')
  BY <1>1, CoverGrows
<1>4. /\ Cardinality(At("notifyNotEmpty")) \in Nat
      /\ Cardinality(PopReady) \in Nat
      /\ Cardinality(At("notifyNotEmpty")') \in Nat
      /\ Cardinality(PopReady') \in Nat
      /\ Len(queue) \in Nat
  BY <1>1, <1>2, SomeThreads, LenProperties DEF TypeOK
<1> QED
  BY <1>3, <1>4 DEF NoLostWakeupNotEmpty

LEMMA NotFullKept ==
  ASSUME TypeOK, NoLostWakeupNotFull, UNCHANGED <<queue, closed>>,
         At("waitNotFull")' \subseteq At("waitNotFull"),
         At("notifyNotFull") \subseteq At("notifyNotFull")',
         PushReady \subseteq PushReady',
         At("notifyAllNotEmpty") \cup At("notifyAllNotFull")
           \subseteq At("notifyAllNotEmpty")' \cup At("notifyAllNotFull")'
  PROVE  NoLostWakeupNotFull'
<1>1. At("notifyNotFull")' \subseteq Threads /\ PushReady' \subseteq Threads
  BY DEF At, PushReady
<1>2. At("notifyNotFull") \subseteq Threads /\ PushReady \subseteq Threads
  BY DEF At, PushReady
<1>3. /\ Cardinality(At("notifyNotFull")) <= Cardinality(At("notifyNotFull")')
      /\ Cardinality(PushReady) <= Cardinality(PushReady')
  BY <1>1, CoverGrows
<1>4. /\ Cardinality(At("notifyNotFull")) \in Nat
      /\ Cardinality(PushReady) \in Nat
      /\ Cardinality(At("notifyNotFull")') \in Nat
      /\ Cardinality(PushReady') \in Nat
      /\ Capacity - Len(queue) \in Int
  BY <1>1, <1>2, SomeThreads, LenProperties, QueueAssumption DEF TypeOK
<1> QED
  BY <1>3, <1>4 DEF NoLostWakeupNotFull

\* The sum of cover that NoLostWakeupNotEmpty compares with Len(queue).
LEMMA NotEmptyStep ==
  ASSUME Awake, NoLostWakeupNotEmpty, NEW t \in Threads, Run(t)
  PROVE  NoLostWakeupNotEmpty'
<1> DEFINE E == At("notifyNotEmpty")
           W == At("waitNotEmpty")
           All == At("notifyAllNotEmpty")
<1> USE DEF Awake, ContentsOK, TypeOK
<1>1. /\ E \subseteq Threads /\ PopReady \subseteq Threads
      /\ Cardinality(E) \in Nat /\ Cardinality(PopReady) \in Nat
      /\ Cardinality(E') \in Nat /\ Cardinality(PopReady') \in Nat
      /\ Len(queue) \in Nat
  <2>1. /\ E \subseteq Threads /\ PopReady \subseteq Threads
        /\ E' \subseteq Threads /\ PopReady' \subseteq Threads
    BY DEF At, PopReady
  <2> QED
    BY <2>1, SomeThreads, LenProperties
<1>2. CASE PushWait(t)
  BY <1>2, NotEmptyKept DEF PushWait, At, PopReady, Popping, PopOps
<1>3. CASE Accept(t)
  <2>1. W' = W /\ All' = All /\ PopReady' = PopReady /\ E' = E \cup {t} /\ t \notin E
    BY <1>3 DEF Accept, Enqueue, Leave, Pushing, PushOps, PopOps, At, PopReady, Popping
  <2>2. Len(queue') = Len(queue) + 1 /\ closed' = closed
    BY <1>3, AppendProperties, LenProperties DEF Accept, Enqueue
  <2>3. Cardinality(E') = Cardinality(E) + 1
    BY <1>1, <2>1, CoverGains
  <2> QED
    BY <1>1, <2>1, <2>2, <2>3 DEF NoLostWakeupNotEmpty
<1>4. CASE Replace(t)
  <2>1. W' = W /\ All' = All /\ PopReady' = PopReady /\ E' = E \cup {t} /\ t \notin E
    BY <1>4 DEF Replace, Displacing, Displace, Leave, PopOps, At, PopReady, Popping
  <2>2. Len(queue') = Len(queue) /\ closed' = closed
    <3>1. queue # <<>>
      BY <1>4, QueueAssumption, EmptySeq DEF Replace, Displacing, Full
    <3>2. Tail(queue) \in Seq(Nat) /\ Len(Tail(queue)) = Len(queue) - 1
      BY <3>1, HeadTailProperties
    <3>3. Len(fate) + 1 \in Nat
      BY LenProperties
    <3> QED
      BY <1>1, <1>4, <3>2, <3>3, AppendProperties DEF Replace, Displace
  <2>3. Cardinality(E') = Cardinality(E) + 1
    BY <1>1, <2>1, CoverGains
  <2> QED
    BY <1>1, <2>1, <2>2, <2>3 DEF NoLostWakeupNotEmpty
<1>5. CASE Refuse(t)
  BY <1>5, NotEmptyKept
     DEF Refuse, Leave, At, PopReady, Popping, PushOps, PopOps
<1>6. CASE PopWait(t)
  <2>1. Len(queue') = 0 /\ ~closed'
    BY <1>6, EmptySeq DEF PopWait
  <2> QED
    BY <1>1, <2>1 DEF NoLostWakeupNotEmpty
<1>7. CASE Take(t)
  <2>1. /\ W' = W /\ All' = All /\ E' = E
        /\ t \in PopReady /\ PopReady' = PopReady \ {t}
    BY <1>7 DEF Take, Dequeue, Leave, At, PopReady, Popping
  <2>2. Len(queue') = Len(queue) - 1 /\ closed' = closed
    BY <1>7, HeadTailProperties DEF Take, Dequeue
  <2>3. Cardinality(PopReady') = Cardinality(PopReady) - 1
    BY <1>1, <2>1, CoverLoses
  <2> QED
    BY <1>1, <2>1, <2>2, <2>3 DEF NoLostWakeupNotEmpty
<1>8. CASE TakeNothing(t)
  <2>1. W' = W /\ All' = All
    BY <1>8 DEF TakeNothing, Leave, At, Popping
  <2>2. Len(queue') = 0 /\ closed' = closed
    BY <1>8, EmptySeq DEF TakeNothing
  <2> QED
    BY <1>1, <2>1, <2>2 DEF NoLostWakeupNotEmpty
<1>9. CASE Close(t)
  <2>1. W' = W /\ E' = E /\ PopReady' = PopReady /\ t \in All'
    BY <1>9 DEF Close, Shut, Leave, CloseOps, PopOps, At, PopReady, Popping
  <2>2. Len(queue') \in Nat /\ Len(queue') <= Len(queue)
    BY <1>1, <1>9, EmptySeq DEF Close, Shut
  <2> QED
    BY <1>1, <2>1, <2>2 DEF NoLostWakeupNotEmpty
<1>10. CASE NotifyNotEmpty(t)
  <2>0. UNCHANGED <<queue, closed>>
    BY <1>10 DEF NotifyNotEmpty, NotifyOne
  <2>1. CASE W = {}
    <3>1. W' = {}
      BY <1>10, <2>1 DEF NotifyNotEmpty, NotifyOne, At
    <3> QED
      BY <3>1 DEF NoLostWakeupNotEmpty
  <2>2. CASE W # {}
    <3>1. PICK w \in W : pc' = [pc EXCEPT ![t] = "outside", ![w] = "lock"]
      BY <1>10, <2>2 DEF NotifyNotEmpty, NotifyOne
    <3>2. /\ W' = W \ {w} /\ All' = All
          /\ t \in E /\ E' = E \ {t}
          /\ w \in Threads /\ w \notin PopReady /\ PopReady' = PopReady \cup {w}
      BY <1>10, <3>1
         DEF NotifyNotEmpty, NotifyOne, At, PopReady, Popping, PopOps, SleepersWait
    <3>3. Cardinality(E') = Cardinality(E) - 1
      BY <1>1, <3>2, CoverLoses
    <3>4. Cardinality(PopReady') = Cardinality(PopReady) + 1
      BY <1>1, <3>2, CoverGains
    <3> QED
      BY <1>1, <2>0, <2>2, <3>2, <3>3, <3>4 DEF NoLostWakeupNotEmpty
  <2> QED
    BY <2>1, <2>2
<1>11. CASE NotifyNotFull(t)
  BY <1>11, NotEmptyKept
     DEF NotifyNotFull, NotifyOne, At, PopReady, Popping
<1>12. CASE NotifyAllNotEmpty(t)
  <2>1. W' = {}
    BY <1>12 DEF NotifyAllNotEmpty, NotifyAll, At
  <2> QED
    BY <2>1 DEF NoLostWakeupNotEmpty
<1>13. CASE NotifyAllNotFull(t)
  BY <1>13, NotEmptyKept
     DEF NotifyAllNotFull, NotifyAll, At, PopReady, Popping
<1> QED
  BY <1>2, <1>3, <1>4, <1>5, <1>6, <1>7, <1>8, <1>9, <1>10, <1>11, <1>12, <1>13
     DEF Run

\* The sum of cover that NoLostWakeupNotFull compares with the free slots.
LEMMA NotFullStep ==
  ASSUME Awake, NoLostWakeupNotFull, NEW t \in Threads, Run(t)
  PROVE  NoLostWakeupNotFull'
<1> DEFINE F == At("notifyNotFull")
           W == At("waitNotFull")
           All == At("notifyAllNotEmpty") \cup At("notifyAllNotFull")
<1> USE DEF Awake, ContentsOK, TypeOK
<1>1. /\ F \subseteq Threads /\ PushReady \subseteq Threads
      /\ Cardinality(F) \in Nat /\ Cardinality(PushReady) \in Nat
      /\ Cardinality(F') \in Nat /\ Cardinality(PushReady') \in Nat
      /\ Len(queue) \in Nat /\ Capacity \in Nat /\ Len(queue) <= Capacity
  <2>1. /\ F \subseteq Threads /\ PushReady \subseteq Threads
        /\ F' \subseteq Threads /\ PushReady' \subseteq Threads
    BY DEF At, PushReady
  <2> QED
    BY <2>1, SomeThreads, LenProperties, QueueAssumption DEF CapacityRespected
<1>2. CASE PushWait(t)
  <2>1. Len(queue') = Capacity /\ ~closed'
    BY <1>2 DEF PushWait, Full
  <2> QED
    BY <1>1, <2>1 DEF NoLostWakeupNotFull
<1>3. CASE Accept(t)
  <2>1. /\ W' = W /\ All' = All /\ F' = F
        /\ t \in PushReady /\ PushReady' = PushReady \ {t}
    BY <1>3 DEF Accept, Enqueue, Leave, Pushing, At, PushReady
  <2>2. Len(queue') = Len(queue) + 1 /\ closed' = closed
    BY <1>3, AppendProperties, LenProperties DEF Accept, Enqueue
  <2>3. Cardinality(PushReady') = Cardinality(PushReady) - 1
    BY <1>1, <2>1, CoverLoses
  <2> QED
    BY <1>1, <2>1, <2>2, <2>3 DEF NoLostWakeupNotFull
<1>4. CASE Replace(t)
  <2>1. ~closed' /\ Len(queue) = Capacity
    BY <1>4 DEF Replace, Displacing, Displace, Full
  <2>2. Len(queue') = Len(queue)
    <3>1. queue # <<>>
      BY <1>4, QueueAssumption, EmptySeq DEF Replace, Displacing, Full
    <3>2. Tail(queue) \in Seq(Nat) /\ Len(Tail(queue)) = Len(queue) - 1
      BY <3>1, HeadTailProperties
    <3>3. Len(fate) + 1 \in Nat
      BY LenProperties
    <3> QED
      BY <1>1, <1>4, <3>2, <3>3, AppendProperties DEF Replace, Displace
  <2> QED
    BY <1>1, <2>1, <2>2 DEF NoLostWakeupNotFull
<1>5. CASE Refuse(t)
  <2>1. W' = W /\ All' = All
    BY <1>5 DEF Refuse, Leave, At
  <2>2. queue' = queue /\ closed' = closed /\ (closed \/ Len(queue) = Capacity)
    BY <1>5 DEF Refuse, Full
  <2> QED
    BY <1>1, <2>1, <2>2 DEF NoLostWakeupNotFull
<1>6. CASE PopWait(t)
  BY <1>6, NotFullKept DEF PopWait, At, PushReady, Pushing, PushOps
<1>7. CASE Take(t)
  <2>1. W' = W /\ All' = All /\ PushReady' = PushReady /\ F' = F \cup {t} /\ t \notin F
    BY <1>7 DEF Take, Dequeue, Leave, Popping, PushOps, PopOps, At, PushReady, Pushing
  <2>2. Len(queue') = Len(queue) - 1 /\ closed' = closed
    BY <1>7, HeadTailProperties DEF Take, Dequeue
  <2>3. Cardinality(F') = Cardinality(F) + 1
    BY <1>1, <2>1, CoverGains
  <2> QED
    BY <1>1, <2>1, <2>2, <2>3 DEF NoLostWakeupNotFull
<1>8. CASE TakeNothing(t)
  BY <1>8, NotFullKept
     DEF TakeNothing, Leave, Popping, At, PushReady, Pushing, PushOps, PopOps
<1>9. CASE Close(t)
  <2>1. closed' /\ t \in All'
    BY <1>9 DEF Close, Shut, Leave, At
  <2> QED
    BY <2>1 DEF NoLostWakeupNotFull
<1>10. CASE NotifyNotEmpty(t)
  BY <1>10, NotFullKept
     DEF NotifyNotEmpty, NotifyOne, At, PushReady, Pushing
<1>11. CASE NotifyNotFull(t)
  <2>0. UNCHANGED <<queue, closed>>
    BY <1>11 DEF NotifyNotFull, NotifyOne
  <2>1. CASE W = {}
    <3>1. W' = {}
      BY <1>11, <2>1 DEF NotifyNotFull, NotifyOne, At
    <3> QED
      BY <3>1 DEF NoLostWakeupNotFull
  <2>2. CASE W # {}
    <3>1. PICK w \in W : pc' = [pc EXCEPT ![t] = "outside", ![w] = "lock"]
      BY <1>11, <2>2 DEF NotifyNotFull, NotifyOne
    <3>2. /\ W' = W \ {w} /\ All' = All
          /\ t \in F /\ F' = F \ {t}
          /\ w \in Threads /\ w \notin PushReady /\ PushReady' = PushReady \cup {w}
      BY <1>11, <3>1
         DEF NotifyNotFull, NotifyOne, At, PushReady, Pushing, PushOps, SleepersWait
    <3>3. Cardinality(F') = Cardinality(F) - 1
      BY <1>1, <3>2, CoverLoses
    <3>4. Cardinality(PushReady') = Cardinality(PushReady) + 1
      BY <1>1, <3>2, CoverGains
    <3> QED
      BY <1>1, <2>0, <2>2, <3>2, <3>3, <3>4 DEF NoLostWakeupNotFull
  <2> QED
    BY <2>1, <2>2
<1>12. CASE NotifyAllNotEmpty(t)
  BY <1>12, NotFullKept
     DEF NotifyAllNotEmpty, NotifyAll, At, PushReady, Pushing
<1>13. CASE NotifyAllNotFull(t)
  <2>1. W' = {}
    BY <1>13 DEF NotifyAllNotFull, NotifyAll, At
  <2> QED
    BY <2>1 DEF NoLostWakeupNotFull
<1> QED
  BY <1>2, <1>3, <1>4, <1>5, <1>6, <1>7, <1>8, <1>9, <1>10, <1>11, <1>12, <1>13
     DEF Run

\* The steps that are not Run(t) only bring threads back to the mutex.
LEMMA OtherSteps ==
  ASSUME Awake, NoLostWakeupNotEmpty, NoLostWakeupNotFull, NEW t \in Threads,
         \/ Timeout(t) \/ SpuriousWakeup(t) \/ \E o \in Ops : Begin(t, o)
  PROVE  NoLostWakeupNotEmpty' /\ NoLostWakeupNotFull'
<1> USE DEF Awake, ContentsOK, TypeOK
<1>1. CASE Timeout(t)
  BY <1>1, NotEmptyKept, NotFullKept
     DEF Timeout, At, PopReady, Popping, PushReady, Pushing
<1>2. CASE SpuriousWakeup(t)
  BY <1>2, NotEmptyKept, NotFullKept
     DEF SpuriousWakeup, At, PopReady, Popping, PushReady, Pushing
<1>3. ASSUME NEW o \in Ops, Begin(t, o)
      PROVE  NoLostWakeupNotEmpty' /\ NoLostWakeupNotFull'
  BY <1>3, NotEmptyKept, NotFullKept
     DEF Begin, At, PopReady, Popping, PushReady, Pushing
<1> QED
  BY <1>1, <1>2, <1>3

\* No thread sleeps beside work it could do: neither a payload, nor a free
\* slot, nor close goes unannounced, for any number of producers and consumers.
THEOREM NoLostWakeup == Spec => []SleepersAreCovered
<1> DEFINE Inv == Awake /\ NoLostWakeupNotEmpty /\ NoLostWakeupNotFull
<1>1. Init => Inv
  <2> SUFFICES ASSUME Init PROVE Inv
    OBVIOUS
  <2>1. ContentsOK
    BY ContentsInit
  <2>2. SleepersWait /\ At("waitNotEmpty") = {} /\ At("waitNotFull") = {}
    BY DEF Init, SleepersWait, At
  <2> QED
    BY <2>1, <2>2 DEF Awake, NoLostWakeupNotEmpty, NoLostWakeupNotFull
<1>2. Inv /\ [Next]_vars => Inv'
  <2> SUFFICES ASSUME Inv, [Next]_vars PROVE Inv'
    OBVIOUS
  <2>1. Awake'
    BY ContentsNext, SleepersNext DEF Awake
  <2>2. CASE UNCHANGED vars
    BY <2>1, <2>2 DEF vars, NoLostWakeupNotEmpty, NoLostWakeupNotFull, At,
                      PopReady, Popping, PushReady, Pushing
  <2>3. ASSUME NEW t \in Threads,
               Run(t) \/ Timeout(t) \/ SpuriousWakeup(t) \/ \E o \in Ops : Begin(t, o)
        PROVE  NoLostWakeupNotEmpty' /\ NoLostWakeupNotFull'
    BY <2>3, NotEmptyStep, NotFullStep, OtherSteps
  <2> QED
    BY <2>1, <2>2, <2>3 DEF Next
<1>3. Inv => SleepersAreCovered
  BY DEF SleepersAreCovered
<1> QED
  BY <1>1, <1>2, <1>3, PTL DEF Spec

\* close is final: after it no push is accepted, a producer blocked in push
\* and woken by it included.
THEOREM ClosedForGood == Spec => NothingAcceptedAfterClose
<1>1. TypeOK /\ [Next]_vars => [closed => Len(fate') = Len(fate)]_vars
  <2> SUFFICES ASSUME TypeOK, [Next]_vars, closed PROVE Len(fate') = Len(fate)
    OBVIOUS
  <2> USE DEF TypeOK
  <2>1. CASE UNCHANGED fate
    BY <2>1
  <2>2. ASSUME NEW t \in Threads, Run(t) PROVE Len(fate') = Len(fate)
    <3>1. CASE Take(t)
      <4>1. "taken" \in Fates
        BY DEF Fates
      <4> QED
        BY <3>1, <4>1, SetElement DEF Take, Dequeue
    <3>2. CASE Close(t)
      BY <3>2, DiscardedFates DEF Close, Shut
    <3>3. ~Accept(t) /\ ~Replace(t)
      BY DEF Accept, Replace, Displacing
    <3>4. CASE PushWait(t) \/ Refuse(t) \/ PopWait(t) \/ TakeNothing(t)
      BY <3>4 DEF PushWait, Refuse, PopWait, TakeNothing
    <3>5. CASE \/ NotifyNotEmpty(t) \/ NotifyNotFull(t)
               \/ NotifyAllNotEmpty(t) \/ NotifyAllNotFull(t)
      BY <3>5 DEF NotifyNotEmpty, NotifyNotFull, NotifyAllNotEmpty,
                  NotifyAllNotFull, NotifyOne, NotifyAll
    <3> QED
      BY <2>2, <3>1, <3>2, <3>3, <3>4, <3>5 DEF Run
  <2>3. ASSUME NEW t \in Threads,
               \/ Timeout(t) \/ SpuriousWakeup(t) \/ \E o \in Ops : Begin(t, o)
        PROVE  fate' = fate
    BY <2>3 DEF Timeout, SpuriousWakeup, Begin
  <2>4. UNCHANGED vars => fate' = fate
    BY DEF vars
  <2> QED
    BY <2>1, <2>2, <2>3, <2>4 DEF Next
<1> QED
  BY <1>1, TypeCorrect, PTL DEF Spec, NothingAcceptedAfterClose

-----------------------------------------------------------------------------
\* Refinement.  The contract has no pc: what it needs to know of it is which
\* threads are between calls, and that only a pop_for ever expires.
InCall ==
  \A t \in Threads :
    /\ pc[t] \in {"outside", "notifyNotEmpty", "notifyNotFull",
                  "notifyAllNotEmpty", "notifyAllNotFull"} => call[t] = "none"
    /\ pc[t] = "expired" => call[t] = "pop_for"

LEMMA InCallNext == TypeOK /\ InCall /\ [Next]_vars => InCall'
<1> SUFFICES ASSUME TypeOK, InCall, [Next]_vars PROVE InCall'
  OBVIOUS
<1> USE DEF TypeOK, InCall
<1>1. ASSUME NEW t \in Threads, Run(t) PROVE InCall'
  <2>1. CASE PushWait(t) \/ PopWait(t)
    BY <2>1 DEF PushWait, PopWait
  <2>2. CASE Accept(t) \/ Replace(t) \/ Refuse(t)
    BY <2>2 DEF Accept, Replace, Refuse, Enqueue, Displace, Leave
  <2>3. CASE Take(t) \/ TakeNothing(t) \/ Close(t)
    BY <2>3 DEF Take, TakeNothing, Close, Shut, Dequeue, Leave
  <2>4. CASE NotifyNotEmpty(t) \/ NotifyNotFull(t)
    BY <2>4 DEF NotifyNotEmpty, NotifyNotFull, NotifyOne, At
  <2>5. CASE NotifyAllNotEmpty(t) \/ NotifyAllNotFull(t)
    BY <2>5 DEF NotifyAllNotEmpty, NotifyAllNotFull, NotifyAll
  <2> QED
    BY <1>1, <2>1, <2>2, <2>3, <2>4, <2>5 DEF Run
<1>2. ASSUME NEW t \in Threads, Timeout(t) \/ SpuriousWakeup(t)
      PROVE  InCall'
  BY <1>2 DEF Timeout, SpuriousWakeup
<1>3. ASSUME NEW t \in Threads, NEW o \in Ops, Begin(t, o) PROVE InCall'
  BY <1>3 DEF Begin
<1>4. CASE UNCHANGED vars
  BY <1>4 DEF vars
<1> QED
  BY <1>1, <1>2, <1>3, <1>4 DEF Next

\* Each critical section is one guarded command of the contract; waiting,
\* waking and notifying do not show.
LEMMA StepRefines ==
  ASSUME TypeOK, InCall, [Next]_vars
  PROVE  [Contract!Next]_(Contract!vars)
<1> USE DEF Contract!Next, Contract!Commit, Contract!Return, Contract!PushOps,
            Contract!PopOps, Contract!CloseOps, Contract!Full, Contract!vars
<1>1. ASSUME UNCHANGED <<queue, closed, dropped, fate, call>>
      PROVE  [Contract!Next]_(Contract!vars)
  BY <1>1
<1>2. ASSUME NEW t \in Threads, Run(t) PROVE [Contract!Next]_(Contract!vars)
  <2>1. CASE Accept(t)
    <3>1. Contract!Accept(t)
      BY <2>1 DEF Accept, Enqueue, Leave, Pushing, PushOps, Full, Contract!Accept
    <3> QED
      BY <3>1
  <2>2. CASE Replace(t)
    <3>1. Contract!Replace(t)
      BY <2>2 DEF Replace, Displacing, Displace, Leave, Full, Contract!Replace
    <3> QED
      BY <3>1
  <2>3. CASE Refuse(t)
    <3>1. Contract!Refuse(t)
      BY <2>3 DEF Refuse, Leave, PushOps, Full, Contract!Refuse
    <3> QED
      BY <3>1
  <2>4. CASE Take(t)
    <3>1. Contract!Take(t)
      BY <2>4 DEF Take, Dequeue, Leave, Popping, PopOps, Contract!Take
    <3> QED
      BY <3>1
  <2>5. CASE TakeNothing(t)
    <3>1. Contract!TakeNothing(t)
      BY <2>5 DEF TakeNothing, Leave, Popping, PopOps, InCall, Contract!TakeNothing
    <3> QED
      BY <3>1
  <2>6. CASE Close(t)
    <3>1. Contract!Close(t)
      BY <2>6 DEF Close, Shut, Leave, CloseOps, Contract!Close
    <3> QED
      BY <3>1
  <2>7. CASE \/ PushWait(t) \/ PopWait(t) \/ NotifyNotEmpty(t) \/ NotifyNotFull(t)
             \/ NotifyAllNotEmpty(t) \/ NotifyAllNotFull(t)
    BY <1>1, <2>7 DEF PushWait, PopWait, NotifyNotEmpty, NotifyNotFull,
                      NotifyAllNotEmpty, NotifyAllNotFull, NotifyOne, NotifyAll
  <2> QED
    BY <1>2, <2>1, <2>2, <2>3, <2>4, <2>5, <2>6, <2>7 DEF Run
<1>3. ASSUME NEW t \in Threads, Timeout(t) \/ SpuriousWakeup(t)
      PROVE  [Contract!Next]_(Contract!vars)
  BY <1>1, <1>3 DEF Timeout, SpuriousWakeup
<1>4. ASSUME NEW t \in Threads, NEW o \in Ops, Begin(t, o)
      PROVE  [Contract!Next]_(Contract!vars)
  <2>1. Contract!Begin(t, o)
    BY <1>4 DEF Begin, InCall, PushOps, Contract!Begin
  <2> QED
    BY <2>1
<1>5. CASE UNCHANGED vars
  BY <1>1, <1>5 DEF vars
<1> QED
  BY <1>2, <1>3, <1>4, <1>5 DEF Next

\* The mutex, the two condition variables and every notification placed after
\* an unlock implement the guarded commands the callers reason with: the safety
\* half of ImplementsContract, for every instance.
THEOREM QueueRefinesContract == Spec => Contract!Safe
<1>1. Init => InCall /\ Contract!Init
  BY DEF Init, InCall, Contract!Init
<1>2. TypeOK /\ InCall /\ [Next]_vars => [Contract!Next]_(Contract!vars)
  BY StepRefines
<1> QED
  BY <1>1, <1>2, TypeInit, TypeNext, InCallNext, PTL DEF Spec, Contract!Safe
=============================================================================
