---------------------------- MODULE BoundedQueue ----------------------------
(***************************************************************************)
(* core::BoundedQueue (include/core/bounded_queue.hpp): a queue behind one *)
(* mutex with two condition variables.  A critical section is one step;    *)
(* what the code does after it releases the mutex (notify_one, notify_all) *)
(* is a step of its own, so that other threads run in between.  A waiting  *)
(* thread is in pc "waitNotFull" or "waitNotEmpty"; a notification, a      *)
(* timeout or a spurious wakeup sends it back to contend for the mutex.    *)
(***************************************************************************)
EXTENDS Integers, Sequences, FiniteSets

CONSTANTS Threads,   \* the threads that share the queue
          Capacity,  \* capacity_
          Ops,       \* the member functions these threads call
          MaxItems   \* bound: no push starts once this many payloads are in

VARIABLES queue,    \* queue_: the payloads' tickets (order of acceptance)
          closed,   \* closed_
          dropped,  \* dropped_
          fate,     \* history: what became of the k-th accepted payload
          call,     \* the member function each thread is in, or "none"
          pc        \* where each thread is with respect to the mutex

vars == <<queue, closed, dropped, fate, call, pc>>

PushOps  == {"push", "try_push_reject", "try_push_drop"}
PopOps   == {"pop", "try_pop", "pop_for"}
CloseOps == {"close_drain", "close_discard"}
AllOps   == PushOps \cup PopOps \cup CloseOps

Locations == {"outside", "lock", "expired", "waitNotFull", "waitNotEmpty",
              "notifyNotEmpty", "notifyNotFull",
              "notifyAllNotEmpty", "notifyAllNotFull"}

\* What can become of an accepted payload.
Fates == {"queued", "taken", "dropped", "discarded"}

\* The constructor throws for capacity 0.
ASSUME QueueAssumption ==
  /\ Capacity \in Nat \ {0}
  /\ MaxItems \in Nat
  /\ Ops \subseteq AllOps
  /\ IsFiniteSet(Threads)

Full == Len(queue) = Capacity

At(where) == {t \in Threads : pc[t] = where}

Init ==
  /\ queue = <<>>
  /\ closed = FALSE
  /\ dropped = 0
  /\ fate = <<>>
  /\ call = [t \in Threads |-> "none"]
  /\ pc = [t \in Threads |-> "outside"]

Begin(t, o) ==
  /\ pc[t] = "outside"
  /\ o \in PushOps => Len(fate) < MaxItems
  /\ call' = [call EXCEPT ![t] = o]
  /\ pc' = [pc EXCEPT ![t] = "lock"]
  /\ UNCHANGED <<queue, closed, dropped, fate>>

\* The critical section of t takes effect; t goes on at location next.
Leave(t, next) ==
  /\ call' = [call EXCEPT ![t] = "none"]
  /\ pc' = [pc EXCEPT ![t] = next]

-----------------------------------------------------------------------------
\* Producers

PushWait(t) ==
  /\ pc[t] = "lock"
  /\ call[t] = "push"
  /\ ~closed
  /\ Full
  /\ pc' = [pc EXCEPT ![t] = "waitNotFull"]
  /\ UNCHANGED <<queue, closed, dropped, fate, call>>

\* push_back, then on to next without the mutex.
Enqueue(t, next) ==
  /\ queue' = Append(queue, Len(fate) + 1)
  /\ fate' = Append(fate, "queued")
  /\ Leave(t, next)
  /\ UNCHANGED <<closed, dropped>>

Pushing(t) == pc[t] = "lock" /\ call[t] \in PushOps

\* Mutant: notify_one only if the queue was empty.
Accept_NotifiesWhenEmpty(t) ==
  /\ Pushing(t) /\ ~closed /\ ~Full
  /\ Enqueue(t, IF queue = <<>> THEN "notifyNotEmpty" ELSE "outside")

Accept(t) ==
  /\ Pushing(t)
  /\ ~closed
  /\ ~Full
  /\ Enqueue(t, "notifyNotEmpty")

Displacing(t) == pc[t] = "lock" /\ call[t] = "try_push_drop" /\ ~closed /\ Full

\* push_back, then the front goes and dropped_ counts it.
Displace(t) ==
  /\ queue' = Append(Tail(queue), Len(fate) + 1)
  /\ fate' = Append([fate EXCEPT ![Head(queue)] = "dropped"], "queued")
  /\ dropped' = dropped + 1
  /\ Leave(t, "notifyNotEmpty")
  /\ UNCHANGED closed

\* Mutant: the new payload is dropped instead of the oldest one.
Replace_DropsNewest(t) ==
  /\ Displacing(t)
  /\ fate' = Append(fate, "dropped")
  /\ dropped' = dropped + 1
  /\ Leave(t, "notifyNotEmpty")
  /\ UNCHANGED <<queue, closed>>

\* try_push(drop_oldest) on a full queue.
Replace(t) == Displacing(t) /\ Displace(t)

\* PushResult::closed and PushResult::full.
Refuse(t) ==
  /\ pc[t] = "lock"
  /\ \/ call[t] \in PushOps /\ closed
     \/ call[t] = "try_push_reject" /\ Full
  /\ Leave(t, "outside")
  /\ UNCHANGED <<queue, closed, dropped, fate>>

-----------------------------------------------------------------------------
\* Consumers

PopWait(t) ==
  /\ pc[t] = "lock"
  /\ call[t] \in {"pop", "pop_for"}
  /\ ~closed
  /\ queue = <<>>
  /\ pc' = [pc EXCEPT ![t] = "waitNotEmpty"]
  /\ UNCHANGED <<queue, closed, dropped, fate, call>>

\* wait_for gives up; take still runs under the mutex afterwards.
Timeout(t) ==
  /\ pc[t] = "waitNotEmpty"
  /\ call[t] = "pop_for"
  /\ pc' = [pc EXCEPT ![t] = "expired"]
  /\ UNCHANGED <<queue, closed, dropped, fate, call>>

Popping(t) == pc[t] \in {"lock", "expired"} /\ call[t] \in PopOps

Dequeue(t, next) ==
  /\ queue # <<>>
  /\ queue' = Tail(queue)
  /\ fate' = [fate EXCEPT ![Head(queue)] = "taken"]
  /\ Leave(t, next)
  /\ UNCHANGED <<closed, dropped>>

Take(t) == Popping(t) /\ Dequeue(t, "notifyNotFull")

TakeNothing(t) ==
  /\ Popping(t)
  /\ queue = <<>>
  /\ closed \/ call[t] = "try_pop" \/ pc[t] = "expired"
  /\ Leave(t, "outside")
  /\ UNCHANGED <<queue, closed, dropped, fate>>

-----------------------------------------------------------------------------
\* close, and what runs after the mutex is released

Shut(t, discard) ==
  /\ pc[t] = "lock"
  /\ call[t] \in CloseOps
  /\ closed' = TRUE
  /\ IF discard
     THEN /\ queue' = <<>>
          /\ fate' = [k \in DOMAIN fate |->
                       IF fate[k] = "queued" THEN "discarded" ELSE fate[k]]
     ELSE UNCHANGED <<queue, fate>>
  /\ Leave(t, "notifyAllNotEmpty")
  /\ UNCHANGED dropped

Close(t) == Shut(t, call[t] = "close_discard")

\* notify_one: one blocked thread, if there is any, contends for the mutex.
NotifyOne(t, here, waiting) ==
  /\ pc[t] = here
  /\ \/ /\ At(waiting) = {}
        /\ pc' = [pc EXCEPT ![t] = "outside"]
     \/ \E w \in At(waiting) :
          pc' = [pc EXCEPT ![t] = "outside", ![w] = "lock"]
  /\ UNCHANGED <<queue, closed, dropped, fate, call>>

\* Mutant: the notification wakes nobody.
NotifyNotEmpty_Lost(t) ==
  /\ pc[t] = "notifyNotEmpty"
  /\ pc' = [pc EXCEPT ![t] = "outside"]
  /\ UNCHANGED <<queue, closed, dropped, fate, call>>

NotifyNotEmpty(t) == NotifyOne(t, "notifyNotEmpty", "waitNotEmpty")
NotifyNotFull(t)  == NotifyOne(t, "notifyNotFull", "waitNotFull")

NotifyAll(t, here, waiting, next) ==
  /\ pc[t] = here
  /\ pc' = [u \in Threads |-> IF u = t THEN next
                              ELSE IF pc[u] = waiting THEN "lock" ELSE pc[u]]
  /\ UNCHANGED <<queue, closed, dropped, fate, call>>

NotifyAllNotEmpty(t) ==
  NotifyAll(t, "notifyAllNotEmpty", "waitNotEmpty", "notifyAllNotFull")

NotifyAllNotFull(t) ==
  NotifyAll(t, "notifyAllNotFull", "waitNotFull", "outside")

\* A condition variable may wake a thread nobody notified.
SpuriousWakeup(t) ==
  /\ pc[t] \in {"waitNotFull", "waitNotEmpty"}
  /\ pc' = [pc EXCEPT ![t] = "lock"]
  /\ UNCHANGED <<queue, closed, dropped, fate, call>>

-----------------------------------------------------------------------------
\* What a thread inside a member function does by itself when scheduled.
Run(t) ==
  \/ PushWait(t) \/ Accept(t) \/ Replace(t) \/ Refuse(t)
  \/ PopWait(t) \/ Take(t) \/ TakeNothing(t) \/ Close(t)
  \/ NotifyNotEmpty(t) \/ NotifyNotFull(t)
  \/ NotifyAllNotEmpty(t) \/ NotifyAllNotFull(t)

Next ==
  \E t \in Threads :
    \/ Run(t)
    \/ Timeout(t)
    \/ SpuriousWakeup(t)
    \/ \E o \in Ops : Begin(t, o)

\* Runnable threads run.  wait_for computes its deadline once, so it passes
\* however often the thread is woken before it: strong fairness.  Nobody has
\* to call anything and no spurious wakeup has to happen.
Fairness == \A t \in Threads : WF_vars(Run(t)) /\ SF_vars(Timeout(t))

Spec == Init /\ [][Next]_vars /\ Fairness

-----------------------------------------------------------------------------
TypeOK ==
  /\ queue \in Seq(Nat)
  /\ closed \in BOOLEAN
  /\ dropped \in Nat
  /\ fate \in Seq(Fates)
  /\ call \in [Threads -> AllOps \cup {"none"}]
  /\ pc \in [Threads -> Locations]

\* Tickets up to Base have left the queue.
Base == Len(fate) - Len(queue)

\* The queue never holds more than capacity_ payloads, whatever the order in
\* which woken, new and try_push producers get the mutex.
CapacityRespected == Len(queue) <= Capacity

\* FIFO and conservation: the queue holds exactly the newest accepted
\* payloads, in order; every older one was taken, dropped or discarded once,
\* and none of them overtook another.
NothingLostOrReordered ==
  /\ Len(queue) <= Len(fate)
  /\ \A i \in DOMAIN queue : queue[i] = Base + i
  /\ \A k \in DOMAIN fate : (fate[k] = "queued") <=> (k > Base)

\* Threads that will look at the queue again without being notified.
PopReady  == {t \in Threads : Popping(t)}
PushReady == {t \in Threads : Pushing(t)}

\* No lost wakeup on not_empty_: while a consumer sleeps, every stored payload
\* is covered by a notification on its way or by a consumer already awake, and
\* nobody sleeps through close without the notify_all still to come.
NoLostWakeupNotEmpty ==
  At("waitNotEmpty") # {} =>
    /\ Len(queue) <= Cardinality(At("notifyNotEmpty")) + Cardinality(PopReady)
    /\ closed => At("notifyAllNotEmpty") # {}

\* No lost wakeup on not_full_: while a producer sleeps, every free slot is
\* covered by a notification on its way or by a producer already awake, and
\* nobody sleeps through close without the notify_all still to come.
NoLostWakeupNotFull ==
  At("waitNotFull") # {} =>
    /\ ~closed => Capacity - Len(queue) <=
                    Cardinality(At("notifyNotFull")) + Cardinality(PushReady)
    /\ closed => At("notifyAllNotEmpty") \cup At("notifyAllNotFull") # {}

\* No lost wakeup on either condition variable.
SleepersAreCovered == NoLostWakeupNotEmpty /\ NoLostWakeupNotFull

\* After close nothing is accepted, not even from a producer that was blocked
\* in push when close ran.
NothingAcceptedAfterClose == [][closed => Len(fate') = Len(fate)]_vars

\* The condition variables implement the guarded commands of the contract.
Contract == INSTANCE QueueContract
  WITH Threads <- Threads, Capacity <- Capacity, Ops <- Ops, MaxItems <- MaxItems,
       queue <- queue, closed <- closed, dropped <- dropped, fate <- fate, call <- call
ImplementsContract == Contract!Spec
=============================================================================
