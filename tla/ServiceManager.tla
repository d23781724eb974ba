--------------------------- MODULE ServiceManager ---------------------------
(***************************************************************************)
(* core::ServiceManager (src/core/service_manager.cpp) and the contract of *)
(* core::IService (include/core/service.hpp) it relies on.  Services are   *)
(* numbered in the order add() received them: dependencies come first.     *)
(* start_all and stop_all run on the control thread, one service per step; *)
(* the worker threads the services own run in between.                     *)
(***************************************************************************)
EXTENDS Naturals

CONSTANTS Count,      \* services_.size() once everything is added
          WaitsFor(_) \* services whose worker can block on service i's worker

VARIABLES services,   \* services_.size() so far
          attempted,  \* attempted_
          started,    \* started_
          phase,      \* what the control thread is doing in the manager
          cursor,     \* the loop index i of that phase
          worker,     \* the thread of each service
          stop,       \* the stop flag of each service
          answer      \* what the last start_all returned

vars == <<services, attempted, started, phase, cursor, worker, stop, answer>>

ASSUME ManagerAssumption ==
  /\ Count \in Nat
  /\ \A i \in 1..Count : WaitsFor(i) \subseteq 1..(i - 1)

Service == 1..Count

Init ==
  /\ services = 0
  /\ attempted = 0
  /\ started = FALSE
  /\ phase = "idle"
  /\ cursor = 0
  /\ worker = [i \in Service |-> "none"]
  /\ stop = [i \in Service |-> FALSE]
  /\ answer = "none"

\* Names are distinct, so the only refusal is the one for a manager in use.
Add ==
  /\ phase = "idle"
  /\ ~started /\ attempted = 0
  /\ services < Count
  /\ services' = services + 1
  /\ UNCHANGED <<attempted, started, phase, cursor, worker, stop, answer>>

-----------------------------------------------------------------------------
\* start_all

StartAll ==
  /\ phase = "idle"
  /\ IF started
     THEN answer' = "true" /\ UNCHANGED <<phase, cursor>>
     ELSE answer' = "none" /\ phase' = "starting" /\ cursor' = 1
  /\ UNCHANGED <<services, attempted, started, worker, stop>>

\* services_[i]->start() succeeds: it clears the stop flag and owns a thread.
StartSucceeds ==
  /\ phase = "starting" /\ cursor <= services
  /\ attempted' = cursor
  /\ worker' = [worker EXCEPT ![cursor] = "running"]
  /\ stop' = [stop EXCEPT ![cursor] = FALSE]
  /\ cursor' = cursor + 1
  /\ UNCHANGED <<services, started, phase, answer>>

\* start() fails; the manager goes on in next, where it stops upTo services.
Fail(threadLeft, upTo, next) ==
  /\ phase = "starting" /\ cursor <= services
  /\ attempted' = upTo /\ cursor' = upTo
  /\ worker' = [worker EXCEPT ![cursor] = threadLeft]
  /\ stop' = [stop EXCEPT ![cursor] = FALSE]
  /\ answer' = "false"
  /\ phase' = next
  /\ UNCHANGED <<services, started>>

\* Mutant: the rollback leaves the failing service out.
StartFails_SkipsItself(threadLeft) == Fail(threadLeft, cursor - 1, "requesting")

\* start() returns false or throws; a thread may exist already.  The manager
\* rolls back everything it attempted, the failing service included.
StartFails(threadLeft) == Fail(threadLeft, cursor, "requesting")

StartDone ==
  /\ phase = "starting" /\ cursor > services
  /\ started' = TRUE
  /\ answer' = "true"
  /\ phase' = "idle" /\ cursor' = 0
  /\ UNCHANGED <<services, attempted, worker, stop>>

-----------------------------------------------------------------------------
\* stop_all: ask every attempted service, last one first, then wait for each.

StopAll ==
  /\ phase = "idle"
  /\ phase' = "requesting" /\ cursor' = attempted
  /\ UNCHANGED <<services, attempted, started, worker, stop, answer>>

\* Mutant: each service is asked and waited for in turn.
RequestStop_OneByOne ==
  /\ phase = "requesting" /\ cursor > 0
  /\ \A i \in Service : cursor < i => worker[i] # "running"
  /\ stop' = [stop EXCEPT ![cursor] = TRUE]
  /\ cursor' = cursor - 1
  /\ UNCHANGED <<services, attempted, started, phase, worker, answer>>

RequestStop ==
  /\ phase = "requesting" /\ cursor > 0
  /\ stop' = [stop EXCEPT ![cursor] = TRUE]
  /\ cursor' = cursor - 1
  /\ UNCHANGED <<services, attempted, started, phase, worker, answer>>

RequestsDone ==
  /\ phase = "requesting" /\ cursor = 0
  /\ phase' = "joining" /\ cursor' = attempted
  /\ UNCHANGED <<services, attempted, started, worker, stop, answer>>

\* Mutant: the services are joined in the order they were added.
Join_FirstToLast ==
  /\ phase = "joining" /\ cursor > 0
  /\ worker[attempted + 1 - cursor] # "running"
  /\ worker' = [worker EXCEPT ![attempted + 1 - cursor] = "none"]
  /\ cursor' = cursor - 1
  /\ UNCHANGED <<services, attempted, started, phase, stop, answer>>

Join ==
  /\ phase = "joining" /\ cursor > 0
  /\ worker[cursor] # "running"
  /\ worker' = [worker EXCEPT ![cursor] = "none"]
  /\ cursor' = cursor - 1
  /\ UNCHANGED <<services, attempted, started, phase, stop, answer>>

StopDone ==
  /\ phase = "joining" /\ cursor = 0
  /\ attempted' = 0
  /\ started' = FALSE
  /\ phase' = "idle"
  /\ UNCHANGED <<services, cursor, worker, stop, answer>>

-----------------------------------------------------------------------------
\* The services' own threads

\* A worker ends once it was asked to stop and none of the workers it may be
\* blocked on is still running unasked.
WorkerStops(i) ==
  /\ worker[i] = "running"
  /\ stop[i]
  /\ \A j \in WaitsFor(i) : worker[j] = "running" => stop[j]
  /\ worker' = [worker EXCEPT ![i] = "done"]
  /\ UNCHANGED <<services, attempted, started, phase, cursor, stop, answer>>

\* A worker may also end by itself.
WorkerQuits(i) ==
  /\ worker[i] = "running"
  /\ worker' = [worker EXCEPT ![i] = "done"]
  /\ UNCHANGED <<services, attempted, started, phase, cursor, stop, answer>>

-----------------------------------------------------------------------------
Inside ==
  \/ StartSucceeds \/ StartDone \/ \E left \in {"none", "running"} : StartFails(left)
  \/ RequestStop \/ RequestsDone \/ Join \/ StopDone

Next ==
  \/ Add \/ StartAll \/ StopAll
  \/ Inside
  \/ \E i \in Service : WorkerStops(i) \/ WorkerQuits(i)

\* The control thread keeps running inside the manager and a worker that may
\* end after a stop request does; no service has to be started or to quit.
Fairness == WF_vars(Inside) /\ \A i \in Service : WF_vars(WorkerStops(i))

Spec == Init /\ [][Next]_vars /\ Fairness

-----------------------------------------------------------------------------
TypeOK ==
  /\ services \in 0..Count
  /\ attempted \in 0..services
  /\ started \in BOOLEAN
  /\ phase \in {"idle", "starting", "requesting", "joining"}
  /\ cursor \in 0..(Count + 1)
  /\ worker \in [Service -> {"none", "running", "done"}]
  /\ stop \in [Service -> BOOLEAN]
  /\ answer \in {"none", "true", "false"}

\* No thread outlives its service manager's care: a worker that was not joined
\* belongs to a service that the next stop_all will ask and wait for, also
\* when its start() failed halfway.
EveryWorkerIsAttempted ==
  \A i \in Service : worker[i] # "none" => i <= attempted

\* Once stop_all or a failed start_all is over, no worker thread is left.
NothingRunsAfterStop ==
  phase = "idle" /\ ~started => \A i \in Service : worker[i] = "none"

\* Two phases: join is only called when every attempted service was asked to
\* stop, so that no join waits on a worker blocked by an upstream nobody asked.
JoinOnlyAfterAllAsked ==
  phase = "joining" => \A i \in 1..attempted : stop[i]

\* Reverse order: while a service is waited for, everything added after it has
\* been joined, so what a running service borrows is never torn down first.
DependentsJoinedFirst ==
  phase = "joining" => \A i \in Service : i > cursor => worker[i] = "none"

\* start_all leaves either every service attempted or, when it failed, none.
StartIsAllOrNothing ==
  phase = "idle" =>
    /\ started => attempted = services
    /\ ~started => attempted = 0
=============================================================================
