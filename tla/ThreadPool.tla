----------------------------- MODULE ThreadPool -----------------------------
(***************************************************************************)
(* core::ThreadPool (include/core/thread_pool.hpp): worker threads with    *)
(* one task slot each, behind one mutex and one condition variable that    *)
(* all of them share.  The single client submits to a given worker, asks   *)
(* for the stop and joins.  A critical section is one step; what follows   *)
(* an unlock is a step of its own.                                         *)
(***************************************************************************)
EXTENDS Naturals

CONSTANT Count    \* slots_.size()

VARIABLES task,     \* slots_[i].task is set
          busy,     \* slots_[i].busy
          stopping, \* stopping_
          thread,   \* where worker i is
          future,   \* the future of the last task submitted to i
          client    \* where the client is

poolVars == <<task, busy, stopping, thread, future, client>>

\* The constructor throws without workers.
ASSUME PoolAssumption == Count \in Nat \ {0}

Worker == 1..Count

PoolInit ==
  /\ task = [i \in Worker |-> FALSE]
  /\ busy = [i \in Worker |-> FALSE]
  /\ stopping = FALSE
  /\ thread = [i \in Worker |-> "lock"]
  /\ future = [i \in Worker |-> "none"]
  /\ client = "free"

-----------------------------------------------------------------------------
\* The client

Fill(i) ==
  /\ client = "free"
  /\ task' = [task EXCEPT ![i] = TRUE]
  /\ busy' = [busy EXCEPT ![i] = TRUE]
  /\ future' = [future EXCEPT ![i] = "pending"]
  /\ client' = "notify"
  /\ UNCHANGED <<stopping, thread>>

\* Mutant: a stopping pool still takes tasks.
Submit_AfterStop(i) == ~busy[i] /\ Fill(i)

\* try_submit: refused by a stopping pool and by a worker that is still busy,
\* be it only because it has not cleared the flag after its last task.
Submit(i) ==
  /\ ~stopping
  /\ ~busy[i]
  /\ Fill(i)

WakeAll == thread' = [i \in Worker |-> IF thread[i] = "wait" THEN "lock" ELSE thread[i]]

\* Mutant: notify_one, although the workers wait for different things.
Notify_One ==
  /\ client = "notify"
  /\ client' = "free"
  /\ \/ \E i \in Worker : thread[i] = "wait" /\ thread' = [thread EXCEPT ![i] = "lock"]
     \/ (\A i \in Worker : thread[i] # "wait") /\ UNCHANGED thread
  /\ UNCHANGED <<task, busy, stopping, future>>

Notify ==
  /\ client = "notify"
  /\ client' = "free"
  /\ WakeAll
  /\ UNCHANGED <<task, busy, stopping, future>>

\* request_stop; the client may still submit in vain and then has to join.
PoolStop ==
  /\ client = "free"
  /\ stopping' = TRUE
  /\ client' = "notifyStop"
  /\ UNCHANGED <<task, busy, thread, future>>

\* Mutant: one worker is told of the stop.
NotifyStop_One ==
  /\ client = "notifyStop"
  /\ client' = "free"
  /\ \/ \E i \in Worker : thread[i] = "wait" /\ thread' = [thread EXCEPT ![i] = "lock"]
     \/ (\A i \in Worker : thread[i] # "wait") /\ UNCHANGED thread
  /\ UNCHANGED <<task, busy, stopping, future>>

NotifyStop ==
  /\ client = "notifyStop"
  /\ client' = "free"
  /\ WakeAll
  /\ UNCHANGED <<task, busy, stopping, future>>

PoolJoin ==
  /\ client = "free" /\ stopping
  /\ client' = "joining"
  /\ UNCHANGED <<task, busy, stopping, thread, future>>

PoolJoined ==
  /\ client = "joining"
  /\ \A i \in Worker : thread[i] = "exited"
  /\ client' = "joined"
  /\ UNCHANGED <<task, busy, stopping, thread, future>>

-----------------------------------------------------------------------------
\* The workers

Go(i, from, to) == thread[i] = from /\ thread' = [thread EXCEPT ![i] = to]

Wait(i) ==
  /\ ~stopping /\ ~task[i]
  /\ Go(i, "lock", "wait")
  /\ UNCHANGED <<task, busy, stopping, future, client>>

\* The task leaves its slot under the mutex, also when it will not be run.
Swap(i) ==
  /\ stopping \/ task[i]
  /\ Go(i, "lock", IF stopping THEN "dropping" ELSE "run")
  /\ task' = [task EXCEPT ![i] = FALSE]
  /\ UNCHANGED <<busy, stopping, future, client>>

SpuriousWakeup(i) ==
  /\ Go(i, "wait", "lock")
  /\ UNCHANGED <<task, busy, stopping, future, client>>

\* The packaged_task returns or throws: its future is ready before busy falls.
RunTask(i) ==
  /\ Go(i, "run", "finished")
  /\ future' = [future EXCEPT ![i] = "ready"]
  /\ UNCHANGED <<task, busy, stopping, client>>

FinishTask(i) ==
  /\ Go(i, "finished", "lock")
  /\ busy' = [busy EXCEPT ![i] = FALSE]
  /\ UNCHANGED <<task, stopping, future, client>>

\* The task that was not started is destroyed: broken_promise.
Drop(i) ==
  /\ Go(i, "dropping", "closing")
  /\ future' = [future EXCEPT ![i] = IF @ = "pending" THEN "broken" ELSE @]
  /\ UNCHANGED <<task, busy, stopping, client>>

\* on_exit_, then the thread ends.
OnExit(i) ==
  /\ Go(i, "closing", "exited")
  /\ UNCHANGED <<task, busy, stopping, future, client>>

PoolWorker(i) == Wait(i) \/ Swap(i) \/ RunTask(i) \/ FinishTask(i) \/ Drop(i) \/ OnExit(i)

-----------------------------------------------------------------------------
ClientReturns == Notify \/ NotifyStop \/ PoolJoined

PoolNext ==
  \/ \E i \in Worker : Submit(i) \/ PoolWorker(i) \/ SpuriousWakeup(i)
  \/ PoolStop \/ PoolJoin \/ ClientReturns
  \/ client = "joined" /\ UNCHANGED poolVars

\* Threads that can run do, tasks end, and a call of the client returns.
PoolFairness == WF_poolVars(ClientReturns) /\ \A i \in Worker : WF_poolVars(PoolWorker(i))

PoolSpec == PoolInit /\ [][PoolNext]_poolVars /\ PoolFairness

-----------------------------------------------------------------------------
PoolTypeOK ==
  /\ task \in [Worker -> BOOLEAN]
  /\ busy \in [Worker -> BOOLEAN]
  /\ stopping \in BOOLEAN
  /\ thread \in [Worker -> {"lock", "wait", "run", "finished", "dropping", "closing", "exited"}]
  /\ future \in [Worker -> {"none", "pending", "ready", "broken"}]
  /\ client \in {"free", "notify", "notifyStop", "joining", "joined"}
  /\ \A i \in Worker : task[i] => busy[i]

\* No lost wakeup on the shared condition variable: while a worker sleeps
\* beside its task, or through the stop, the client has yet to notify.
NoSleeperMissed ==
  \A i \in Worker : thread[i] = "wait" =>
    /\ task[i] => client = "notify"
    /\ stopping => client = "notifyStop"

\* When join returns every future was settled: nobody waits for ever for a
\* task the pool accepted and did not run.
JoinSettlesFutures == client = "joined" => \A i \in Worker : future[i] # "pending"

\* join ends, whatever the workers were doing when the stop was requested.
JoinReturns == client = "joining" ~> client = "joined"
=============================================================================
