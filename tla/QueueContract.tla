--------------------------- MODULE QueueContract ---------------------------
(***************************************************************************)
(* What core::BoundedQueue promises its callers, with no mutex and no      *)
(* condition variable: a call in progress is a guarded command that takes  *)
(* effect in one step as soon as its guard holds.  BoundedQueue.tla is the *)
(* detailed specification and implements this one, fairness included.      *)
(***************************************************************************)
EXTENDS Naturals, Sequences

CONSTANTS Threads,   \* the threads that share the queue
          Capacity,  \* capacity_
          Ops,       \* the member functions these threads call
          MaxItems   \* bound: no push starts once this many payloads are in

VARIABLES queue,    \* tickets of the stored payloads, oldest first
          closed,   \* closed_
          dropped,  \* dropped_
          fate,     \* history: what became of the k-th accepted payload
          call      \* the member function each thread is in, or "none"

vars == <<queue, closed, dropped, fate, call>>

PushOps  == {"push", "try_push_reject", "try_push_drop"}
PopOps   == {"pop", "try_pop", "pop_for"}
CloseOps == {"close_drain", "close_discard"}
AllOps   == PushOps \cup PopOps \cup CloseOps

\* Calls that return whatever the other threads do.
NonBlocking == AllOps \ {"push", "pop"}

Full == Len(queue) = Capacity

Init ==
  /\ queue = <<>>
  /\ closed = FALSE
  /\ dropped = 0
  /\ fate = <<>>
  /\ call = [t \in Threads |-> "none"]

Begin(t, o) ==
  /\ call[t] = "none"
  /\ o \in PushOps => Len(fate) < MaxItems
  /\ call' = [call EXCEPT ![t] = o]
  /\ UNCHANGED <<queue, closed, dropped, fate>>

Return(t) == call' = [call EXCEPT ![t] = "none"]

Accept(t) ==
  /\ call[t] \in PushOps
  /\ ~closed
  /\ ~Full
  /\ queue' = Append(queue, Len(fate) + 1)
  /\ fate' = Append(fate, "queued")
  /\ Return(t)
  /\ UNCHANGED <<closed, dropped>>

\* try_push with drop_oldest on a full queue: the newest payload gets in and
\* the oldest one is counted in dropped_.
Replace(t) ==
  /\ call[t] = "try_push_drop"
  /\ ~closed
  /\ Full
  /\ queue' = Append(Tail(queue), Len(fate) + 1)
  /\ fate' = Append([fate EXCEPT ![Head(queue)] = "dropped"], "queued")
  /\ dropped' = dropped + 1
  /\ Return(t)
  /\ UNCHANGED closed

Refuse(t) ==
  /\ \/ call[t] \in PushOps /\ closed
     \/ call[t] = "try_push_reject" /\ Full
  /\ Return(t)
  /\ UNCHANGED <<queue, closed, dropped, fate>>

Take(t) ==
  /\ call[t] \in PopOps
  /\ queue # <<>>
  /\ queue' = Tail(queue)
  /\ fate' = [fate EXCEPT ![Head(queue)] = "taken"]
  /\ Return(t)
  /\ UNCHANGED <<closed, dropped>>

\* A pop returns nullopt: only on an empty queue, and a blocking pop only once
\* the queue is closed.
TakeNothing(t) ==
  /\ call[t] \in PopOps
  /\ queue = <<>>
  /\ call[t] = "pop" => closed
  /\ Return(t)
  /\ UNCHANGED <<queue, closed, dropped, fate>>

Close(t) ==
  /\ call[t] \in CloseOps
  /\ closed' = TRUE
  /\ IF call[t] = "close_discard"
     THEN /\ queue' = <<>>
          /\ fate' = [k \in DOMAIN fate |->
                       IF fate[k] = "queued" THEN "discarded" ELSE fate[k]]
     ELSE UNCHANGED <<queue, fate>>
  /\ Return(t)
  /\ UNCHANGED dropped

Commit(t) ==
  \/ Accept(t) \/ Replace(t) \/ Refuse(t)
  \/ Take(t) \/ TakeNothing(t) \/ Close(t)

Next == \E t \in Threads : Commit(t) \/ \E o \in Ops : Begin(t, o)

(***************************************************************************)
(* Progress the callers count on: a stored payload is delivered while      *)
(* somebody asks for one, a free slot is filled while somebody waits for   *)
(* one, try_push, try_pop, pop_for and close return, and so does every     *)
(* call once the queue is closed.                                          *)
(***************************************************************************)
Progress ==
  /\ WF_vars(\E t \in Threads : Take(t))
  /\ WF_vars(\E t \in Threads : Accept(t))
  /\ \A t \in Threads : WF_vars(call[t] \in NonBlocking /\ Commit(t))
  /\ \A t \in Threads : WF_vars(closed /\ Commit(t))

\* What may happen, and all of it with what has to happen.
Safe == Init /\ [][Next]_vars

Spec == Safe /\ Progress
=============================================================================
