----------------------- MODULE InferenceServiceProofs -----------------------
(***************************************************************************)
(* Theorems about ThreadPool and about the InferenceService on top of it,  *)
(* for any number of workers and of frames.                                *)
(***************************************************************************)
EXTENDS InferenceService, TLAPS

\* A worker that runs a task has emptied its slot and the slot stays taken, so
\* nothing is submitted over it.
RunningHoldsSlot ==
  \A i \in Worker : thread[i] \in {"run", "finished"} => busy[i] /\ ~task[i]

\* A worker that leaves does so because of the stop, with an empty slot that
\* stays empty.
LeaverHasNoTask ==
  \A i \in Worker : thread[i] \in {"dropping", "closing", "exited"} => stopping /\ ~task[i]

\* A future that is not settled has a task in the slot or in its worker's hand.
PendingIsHeld ==
  \A i \in Worker : future[i] = "pending" => task[i] \/ thread[i] \in {"run", "dropping"}

JoinedMeansExited == client = "joined" => \A i \in Worker : thread[i] = "exited"

\* The inductive invariant: where a pending task is, that join finds all
\* threads gone, and that no sleeper is missed.
PoolOK ==
  /\ PoolTypeOK
  /\ NoSleeperMissed
  /\ RunningHoldsSlot
  /\ LeaverHasNoTask
  /\ PendingIsHeld
  /\ JoinedMeansExited

LEMMA PoolStarts == PoolInit => PoolOK
BY DEF PoolInit, PoolOK, PoolTypeOK, NoSleeperMissed, RunningHoldsSlot, LeaverHasNoTask,
       PendingIsHeld, JoinedMeansExited

LEMMA PoolSteps == PoolOK /\ [PoolNext]_poolVars => PoolOK'
<1> SUFFICES ASSUME PoolOK, [PoolNext]_poolVars PROVE PoolOK'
  OBVIOUS
<1> USE DEF PoolOK, PoolTypeOK, NoSleeperMissed, RunningHoldsSlot, LeaverHasNoTask,
            PendingIsHeld, JoinedMeansExited
<1>1. ASSUME NEW i \in Worker, Submit(i) PROVE PoolOK'
  BY <1>1 DEF Submit, Fill
<1>2. ASSUME NEW i \in Worker, PoolWorker(i) PROVE PoolOK'
  <2>1. CASE Wait(i)
    BY <2>1 DEF Wait, Go
  <2>2. CASE Swap(i)
    BY <2>2 DEF Swap, Go
  <2>3. CASE RunTask(i)
    BY <2>3 DEF RunTask, Go
  <2>4. CASE FinishTask(i)
    BY <2>4 DEF FinishTask, Go
  <2>5. CASE Drop(i)
    BY <2>5 DEF Drop, Go
  <2>6. CASE OnExit(i)
    BY <2>6 DEF OnExit, Go
  <2> QED
    BY <1>2, <2>1, <2>2, <2>3, <2>4, <2>5, <2>6 DEF PoolWorker
<1>3. ASSUME NEW i \in Worker, SpuriousWakeup(i) PROVE PoolOK'
  BY <1>3 DEF SpuriousWakeup, Go
<1>4. CASE PoolStop
  BY <1>4 DEF PoolStop
<1>5. CASE PoolJoin
  BY <1>5 DEF PoolJoin
<1>6. CASE ClientReturns
  <2>1. CASE Notify
    BY <2>1 DEF Notify, WakeAll
  <2>2. CASE NotifyStop
    BY <2>2 DEF NotifyStop, WakeAll
  <2>3. CASE PoolJoined
    BY <2>3 DEF PoolJoined
  <2> QED
    BY <1>6, <2>1, <2>2, <2>3 DEF ClientReturns
<1>7. CASE UNCHANGED poolVars
  BY <1>7 DEF poolVars
<1> QED
  BY <1>1, <1>2, <1>3, <1>4, <1>5, <1>6, <1>7 DEF PoolNext

LEMMA PoolInvariant == PoolSpec => []PoolOK
BY PoolStarts, PoolSteps, PTL DEF PoolSpec

\* No worker sleeps through its task or through the stop, for any number of
\* workers on the one condition variable of thread_pool.hpp.
THEOREM NoWakeupIsLost == PoolSpec => []NoSleeperMissed
<1>1. PoolOK => NoSleeperMissed
  BY DEF PoolOK
<1> QED
  BY <1>1, PoolInvariant, PTL

\* When ThreadPool::join returns, every task the pool accepted was run or its
\* future broken.
THEOREM EveryFutureIsSettled == PoolSpec => []JoinSettlesFutures
<1>1. PoolOK => JoinSettlesFutures
  BY DEF PoolOK, PendingIsHeld, JoinedMeansExited, LeaverHasNoTask, JoinSettlesFutures
<1> QED
  BY <1>1, PoolInvariant, PTL

-----------------------------------------------------------------------------
\* The InferenceService.  The coordinator stops the pool before it leaves.
ClientOK ==
  /\ co.pc = "ended" => client = "joined"
  /\ stopping => co.pc \in {"join", "end", "ended"}

\* What the coordinator believes of worker i and what is true of it: a task on
\* its way belongs to the job noted, workers believed ready are asked to detect
\* and the others to open, and belief and detector differ only while an outcome
\* has not been collected or the thread has gone.
WorkerOK(i) ==
  /\ task[i] \/ thread[i] = "run" => future[i] = "pending" /\ job[i] # NoJob
  /\ job[i] # NoJob /\ ~stopping => future[i] \in {"pending", "ready"}
  /\ co.pc # "ended" =>
       /\ job[i] = Open => i \notin co.ready
       /\ job[i] \in Frame => i \in co.ready
  /\ IF thread[i] = "exited" THEN ~detector[i]
     ELSE IF job[i] # NoJob /\ future[i] = "ready"
     THEN \/ outcome[i] = "opened" /\ detector[i]
          \/ outcome[i] = "result" /\ detector[i] /\ i \in co.ready
          \/ outcome[i] = "failed" /\ ~detector[i]
     ELSE detector[i] <=> i \in co.ready

\* The last result published is not newer than the last one accepted.
OrderOK ==
  /\ lastOk.gen <= co.gen
  /\ lastOk.gen = co.gen => lastOk.seq <= co.last

ServiceOK ==
  /\ PoolOK
  /\ ServiceTypeOK
  /\ ClientOK
  /\ \A i \in Worker : WorkerOK(i)
  /\ OrderOK
  /\ StaleResultIsReported

-----------------------------------------------------------------------------
\* The constants of the jobs are none of the frames.
LEMMA FrameFacts ==
  /\ MaxFeed \in Nat /\ 0 \in 0..MaxFeed /\ Count \in Nat \ {0} /\ 1 \in Worker
  /\ \A f \in Frame : f.gen \in 1..MaxFeed /\ f.seq \in 1..MaxFeed /\ f # NoFrame /\ f # NoJob /\ f # Open
  /\ NoFrame.gen = 0 /\ NoFrame.seq = 0 /\ Open.seq = 0 /\ NoJob.gen = 0 /\ NoJob # Open
<1>1. MaxFeed \in Nat /\ 0 \in 0..MaxFeed /\ Count \in Nat \ {0} /\ 1 \in Worker
  BY FeedAssumption, PoolAssumption DEF Worker
<1>2. \A f \in Frame : f.gen \in 1..MaxFeed /\ f.seq \in 1..MaxFeed
  BY DEF Frame
<1>3. NoFrame.gen = 0 /\ NoFrame.seq = 0 /\ Open.seq = 0 /\ NoJob.gen = 0 /\ Open.gen = 1
  BY DEF NoFrame, Open, NoJob
<1>4. \A f \in Frame : f # NoFrame /\ f # NoJob /\ f # Open
  BY <1>2, <1>3
<1>5. NoJob # Open
  BY <1>3
<1> QED
  BY <1>1, <1>2, <1>3, <1>4, <1>5

LEMMA ServiceStarts == ServiceInit => ServiceOK
<1> SUFFICES ASSUME ServiceInit PROVE ServiceOK
  OBVIOUS
<1>1. PoolOK
  BY PoolStarts DEF ServiceInit
<1>2. ServiceTypeOK
  <2>1. co \in CoState
    <3>1. 0 \in 0..MaxFeed /\ 1 \in Worker
      BY FrameFacts
    <3> QED
      BY <3>1 DEF ServiceInit, CoState
  <2>2. shown \in Snapshot /\ detail = "" /\ lastOk = NoFrame
    BY DEF ServiceInit, Snapshot
  <2>3. /\ input \in Frame \cup {NoFrame} /\ feed \in Frame \cup {NoFrame} /\ stop \in BOOLEAN
        /\ job \in [Worker -> Frame \cup {NoJob, Open}]
        /\ outcome \in [Worker -> {"none", "opened", "result", "failed"}]
        /\ detector \in [Worker -> BOOLEAN]
    BY DEF ServiceInit
  <2> QED
    BY <1>1, <2>1, <2>2, <2>3 DEF ServiceTypeOK, PoolOK
<1>3. ClientOK /\ OrderOK /\ StaleResultIsReported
  <2>1. co.pc = "start" /\ co.gen = 0 /\ co.last = 0 /\ lastOk = NoFrame
    BY DEF ServiceInit
  <2>2. ~stopping /\ shown.status = "none"
    BY DEF ServiceInit, PoolInit
  <2> QED
    BY <2>1, <2>2 DEF ClientOK, OrderOK, StaleResultIsReported, NoFrame
<1>4. \A i \in Worker : WorkerOK(i)
  BY FrameFacts DEF ServiceInit, PoolInit, WorkerOK
<1> QED
  BY <1>1, <1>2, <1>3, <1>4 DEF ServiceOK

\* Every step of the service is one of the pool or leaves it alone.
LEMMA ServicePoolSteps == [ServiceNext]_allVars => [PoolNext]_poolVars
<1>1. ASSUME Feed \/ RequestStop PROVE [PoolNext]_poolVars
  BY <1>1 DEF Feed, RequestStop
<1>2. ASSUME CoStart \/ CoPool \/ CoLeave \/ CoThrows \/ CoPopNothing \/ CoPopFrame \/ DispatchNothing
             \/ Heartbeat \/ CoStop \/ CoJoin \/ CoEnd
      PROVE  [PoolNext]_poolVars
  BY <1>2 DEF CoStart, CoPool, CoLeave, CoThrows, CoPopNothing, CoPopFrame, DispatchNothing, Heartbeat,
              CoStop, CoJoin, CoEnd, PoolNext
<1>3. ASSUME NEW i \in Worker,
             HarvestNothing(i) \/ HarvestOpened(i) \/ HarvestResult(i) \/ HarvestFailure(i)
             \/ ReopenNothing(i)
      PROVE  [PoolNext]_poolVars
  BY <1>3 DEF HarvestNothing, HarvestOpened, HarvestResult, HarvestFailure, Harvested, ReopenNothing
<1>4. ASSUME NEW i \in Worker, Reopen(i) \/ Dispatch(i) PROVE [PoolNext]_poolVars
  BY <1>4 DEF Reopen, Dispatch, PoolNext
<1>5. ASSUME NEW i \in Worker, PoolThread(i) PROVE [PoolNext]_poolVars
  BY <1>5 DEF PoolThread, RunOpen, RunDetect, CloseDetector, PoolNext, PoolWorker
<1>6. ASSUME ClientReturns PROVE [PoolNext]_poolVars
  BY <1>6 DEF PoolNext
<1>7. ASSUME UNCHANGED allVars PROVE [PoolNext]_poolVars
  BY <1>7 DEF allVars
<1> QED
  BY <1>1, <1>2, <1>3, <1>4, <1>5, <1>6, <1>7 DEF ServiceNext, Coordinator

\* A snapshot is written with a frame only for a result.
Notice == {"starting", "waiting", "unavailable", "stopped"}

LEMMA PublishTypes ==
  ASSUME shown \in Snapshot, lastOk \in Frame \cup {NoFrame},
         detail \in {"", "starting", "waiting", "unavailable", "stopped", "error"},
         NEW status, NEW frame,
         (status \in Notice /\ frame = NoFrame) \/ (status = "ok" /\ frame \in Frame),
         Publish(status, frame)
  PROVE  /\ shown' \in Snapshot /\ lastOk' \in Frame \cup {NoFrame}
         /\ detail' \in {"", "starting", "waiting", "unavailable", "stopped", "error"}
<1>1. [status |-> status, frame |-> frame] \in Snapshot
  BY DEF Snapshot, Notice
<1>2. shown' \in Snapshot
  BY <1>1 DEF Publish, Written
<1> QED
  BY <1>2 DEF Publish, Notice

LEMMA ServiceTypes == ServiceOK /\ PoolTypeOK' /\ [ServiceNext]_allVars => ServiceTypeOK'
<1> SUFFICES ASSUME ServiceOK, PoolTypeOK', [ServiceNext]_allVars PROVE ServiceTypeOK'
  OBVIOUS
<1> DEFINE Input == input \in Frame \cup {NoFrame} /\ feed \in Frame \cup {NoFrame} /\ stop \in BOOLEAN
           Work == /\ job \in [Worker -> Frame \cup {NoJob, Open}]
                   /\ outcome \in [Worker -> {"none", "opened", "result", "failed"}]
                   /\ detector \in [Worker -> BOOLEAN]
           Out == /\ shown \in Snapshot /\ lastOk \in Frame \cup {NoFrame}
                  /\ detail \in {"", "starting", "waiting", "unavailable", "stopped", "error"}
<1>0. Input /\ Work /\ Out /\ co \in CoState
  BY DEF ServiceOK, ServiceTypeOK
<1>1. Input' /\ Work' /\ Out' /\ co' \in CoState' => ServiceTypeOK'
  BY DEF ServiceTypeOK
<1> USE DEF serviceVars, output, allVars
<1>2. ASSUME Feed \/ RequestStop PROVE ServiceTypeOK'
  <2>1. UNCHANGED <<co, job, outcome, detector, shown, lastOk, detail>> /\ Input'
    BY <1>0, <1>2 DEF Feed, RequestStop
  <2> QED
    BY <1>0, <1>1, <2>1 DEF CoState
<1>3. ASSUME CoStart \/ CoPool \/ CoLeave \/ CoThrows \/ CoPopNothing \/ CoPopFrame \/ DispatchNothing
             \/ Heartbeat \/ CoStop \/ CoJoin \/ CoEnd
      PROVE  ServiceTypeOK'
  <2>1. Input' /\ Work'
    BY <1>0, <1>3 DEF CoStart, CoPool, CoLeave, CoThrows, CoPopNothing, CoPopFrame, DispatchNothing,
                      Heartbeat, CoStop, CoJoin, CoEnd
  <2>2. Out'
    <3>1. \/ UNCHANGED output
          \/ \E status \in Notice : Publish(status, NoFrame)
      BY <1>3 DEF CoStart, CoPool, CoLeave, CoThrows, CoPopNothing, CoPopFrame, DispatchNothing,
                  Heartbeat, CoStop, CoJoin, CoEnd, Notice
    <3>2. CASE UNCHANGED output
      BY <1>0, <3>2
    <3>3. ASSUME NEW status \in Notice, Publish(status, NoFrame) PROVE Out'
      <4>1. (status \in Notice /\ NoFrame = NoFrame) \/ (status = "ok" /\ NoFrame \in Frame)
        BY <3>3
      <4>2. /\ shown \in Snapshot /\ lastOk \in Frame \cup {NoFrame}
            /\ detail \in {"", "starting", "waiting", "unavailable", "stopped", "error"}
        BY <1>0
      <4> HIDE DEF Out
      <4>3. /\ shown' \in Snapshot /\ lastOk' \in Frame \cup {NoFrame}
            /\ detail' \in {"", "starting", "waiting", "unavailable", "stopped", "error"}
        BY <3>3, <4>1, <4>2, PublishTypes
      <4> QED
        BY <4>3 DEF Out
    <3> QED
      BY <3>1, <3>2, <3>3
  <2>3. co' \in CoState
    <3>1. CASE CoPopFrame
      <4>1. /\ input \in Frame /\ input.gen \in 0..MaxFeed /\ co.pending \in Frame \cup {NoFrame}
            /\ 0 \in 0..MaxFeed /\ 1 \in Worker
        <5>1. input \in Frame /\ co.pending \in Frame \cup {NoFrame}
          BY <1>0, <3>1 DEF CoPopFrame, CoState
        <5>2. input.gen \in 1..MaxFeed /\ MaxFeed \in Nat /\ 0 \in 0..MaxFeed /\ 1 \in Worker
          BY <5>1, FrameFacts
        <5> QED
          BY <5>1, <5>2
      <4>2. \E gen, last \in 0..MaxFeed, pending \in Frame \cup {NoFrame} :
              co' = [co EXCEPT !.pc = "harvest", !.at = 1, !.gen = gen, !.last = last,
                               !.pending = pending]
        <5> DEFINE newer == input.gen > co.gen
                   before == IF newer THEN NoFrame ELSE co.pending
                   gen == IF newer THEN input.gen ELSE co.gen
                   last == IF newer THEN 0 ELSE co.last
        <5>1. gen \in 0..MaxFeed /\ last \in 0..MaxFeed
          BY <1>0, <4>1 DEF CoState
        <5>2. PICK fresh \in BOOLEAN :
                co' = [co EXCEPT !.pc = "harvest", !.at = 1, !.gen = gen, !.last = last,
                         !.pending = IF fresh /\ (newer \/ input.gen = co.gen)
                                               /\ input.seq > before.seq
                                     THEN input ELSE before]
          BY <3>1 DEF CoPopFrame, Co
        <5>3. (IF fresh /\ (newer \/ input.gen = co.gen) /\ input.seq > before.seq
               THEN input ELSE before) \in Frame \cup {NoFrame}
          BY <4>1
        <5> HIDE DEF gen, last
        <5> QED
          BY <5>1, <5>2, <5>3
      <4> QED
        BY <1>0, <4>1, <4>2 DEF CoState
    <3>2. CASE ~CoPopFrame
      <4>1. 1 \in Worker /\ NoFrame \in Frame \cup {NoFrame}
        BY FrameFacts
      <4>2. \E pc \in {"pool", "pop", "harvest", "stop", "beat", "join", "end", "ended"} :
              \/ co' = [co EXCEPT !.pc = pc]
              \/ co' = [co EXCEPT !.pc = pc, !.at = 1]
              \/ co' = [co EXCEPT !.pc = pc, !.pending = NoFrame]
              \/ co' = [co EXCEPT !.pc = pc, !.ready = {}]
        BY <1>3, <3>2
        DEF CoStart, CoPool, CoLeave, CoThrows, CoPopNothing, DispatchNothing, Heartbeat, CoStop,
            CoJoin, CoEnd, Co
      <4> QED
        BY <1>0, <4>1, <4>2 DEF CoState
    <3> QED
      BY <3>1, <3>2
  <2> QED
    BY <1>1, <2>1, <2>2, <2>3 DEF CoState
<1>4. ASSUME NEW i \in Worker,
             HarvestNothing(i) \/ HarvestOpened(i) \/ HarvestResult(i) \/ HarvestFailure(i)
      PROVE  ServiceTypeOK'
  <2>1. Input' /\ Work'
    BY <1>0, <1>4 DEF HarvestNothing, HarvestOpened, HarvestResult, HarvestFailure, Harvested
  <2>2. job[i] \in Frame \cup {NoJob, Open}
    BY <1>0
  <2>3. HarvestResult(i) /\ Publishable(job[i]) => job[i] \in Frame
    <3>1. co.gen \in Nat /\ co.last \in Nat
      <4>1. co.gen \in 0..MaxFeed /\ co.last \in 0..MaxFeed
        BY <1>0 DEF CoState
      <4> QED
        BY <4>1, FeedAssumption
    <3>2. Open.seq = 0 /\ NoJob.gen = 0 /\ NoJob.seq = 1
      BY DEF Open, NoJob
    <3>3. job[i] = Open => ~Publishable(job[i])
      BY <3>1, <3>2 DEF Publishable
    <3>4. job[i] = NoJob => ~(HarvestOpened(i) \/ HarvestResult(i) \/ HarvestFailure(i))
      BY DEF HarvestOpened, HarvestResult, HarvestFailure, Harvested
    <3> QED
      BY <2>2, <3>3, <3>4
  <2>4. Out'
    <3>1. UNCHANGED output \/ (HarvestResult(i) /\ Publishable(job[i]) /\ Publish("ok", job[i]))
      BY <1>4 DEF HarvestNothing, HarvestOpened, HarvestResult, HarvestFailure
    <3> QED
      BY <1>0, <2>3, <3>1, PublishTypes
  <2>5. co' \in CoState
    <3>1. HarvestResult(i) /\ Publishable(job[i]) => job[i].seq \in 0..MaxFeed
      BY <2>3, FrameFacts
    <3>2. ASSUME NEW ready \in SUBSET Worker, NEW last \in 0..MaxFeed, Harvested(i, ready, last)
          PROVE  co' \in CoState
      BY <1>0, <3>2 DEF Harvested, Co, CoState
    <3>3. /\ co.ready \in SUBSET Worker /\ co.last \in 0..MaxFeed
          /\ co.ready \cup {i} \in SUBSET Worker /\ co.ready \ {i} \in SUBSET Worker
      BY <1>0 DEF CoState
    <3>4. CASE HarvestNothing(i)
      BY <1>0, <3>4 DEF HarvestNothing, Co, CoState
    <3>5. CASE HarvestOpened(i) \/ HarvestFailure(i)
      BY <3>2, <3>3, <3>5 DEF HarvestOpened, HarvestFailure
    <3>6. CASE HarvestResult(i)
      BY <3>1, <3>2, <3>3, <3>6 DEF HarvestResult
    <3> QED
      BY <1>4, <3>4, <3>5, <3>6
  <2> QED
    BY <1>1, <2>1, <2>4, <2>5 DEF CoState
<1>5. ASSUME NEW i \in Worker, ReopenNothing(i) \/ Reopen(i) PROVE ServiceTypeOK'
  <2>1. Input' /\ Work' /\ Out'
    BY <1>0, <1>5 DEF ReopenNothing, Reopen
  <2>2. co' \in CoState
    <3>1. i < Count => i + 1 \in Worker
      BY PoolAssumption DEF Worker
    <3>2. \/ i < Count /\ co' = [co EXCEPT !.pc = "harvest", !.at = i + 1]
          \/ co' = [co EXCEPT !.pc = "dispatch"]
      BY <1>5 DEF ReopenNothing, Reopen, AfterReopen, Co
    <3> QED
      BY <1>0, <3>1, <3>2 DEF CoState
  <2> QED
    BY <1>1, <2>1, <2>2 DEF CoState
<1>6. ASSUME NEW i \in Worker, Dispatch(i) PROVE ServiceTypeOK'
  <2>1. co.pending \in Frame /\ Input' /\ Work' /\ Out'
    BY <1>0, <1>6 DEF Dispatch, CoState
  <2>2. co' \in CoState
    <3>1. (i % Count) + 1 \in Worker
      BY PoolAssumption DEF Worker
    <3> QED
      BY <1>0, <1>6, <3>1 DEF Dispatch, Co, CoState
  <2> QED
    BY <1>1, <2>1, <2>2 DEF CoState
<1>7. ASSUME NEW i \in Worker, PoolThread(i) PROVE ServiceTypeOK'
  <2>1. Input' /\ Out' /\ Work' /\ co' = co
    BY <1>0, <1>7 DEF PoolThread, RunOpen, RunDetect, CloseDetector
  <2> QED
    BY <1>0, <1>1, <2>1 DEF CoState
<1>8. ASSUME UNCHANGED serviceVars PROVE ServiceTypeOK'
  BY <1>0, <1>1, <1>8 DEF CoState
<1> QED
  BY <1>2, <1>3, <1>4, <1>5, <1>6, <1>7, <1>8 DEF ServiceNext, Coordinator

-----------------------------------------------------------------------------
\* A worker that a step does not touch stays as it was.
LEMMA OthersStay ==
  ASSUME NEW i \in Worker, WorkerOK(i),
         task'[i] = task[i], future'[i] = future[i], job'[i] = job[i],
         thread'[i] = thread[i] \/ {thread[i], thread'[i]} \subseteq {"lock", "wait", "closing"},
         outcome'[i] = outcome[i], detector'[i] = detector[i],
         stopping => stopping',
         i \in co'.ready <=> i \in co.ready,
         co'.pc # "ended" => co.pc # "ended"
  PROVE  WorkerOK(i)'
BY DEF WorkerOK

LEMMA ClientKept == ServiceOK /\ [ServiceNext]_allVars => ClientOK'
<1> SUFFICES ASSUME ServiceOK, [ServiceNext]_allVars PROVE ClientOK'
  OBVIOUS
<1>0. ClientOK /\ co \in CoState
  BY DEF ServiceOK, ServiceTypeOK
<1> USE DEF ClientOK
<1>1. ASSUME UNCHANGED <<co, client, stopping>> PROVE ClientOK'
  BY <1>0, <1>1
<1>2. ASSUME Feed \/ RequestStop PROVE ClientOK'
  BY <1>1, <1>2 DEF Feed, RequestStop, poolVars
<1>3. ASSUME co.pc \notin {"join", "end", "ended"}, co'.pc \notin {"ended"}, stopping' = stopping
      PROVE  ClientOK'
  BY <1>0, <1>3
<1>4. CASE CoStart \/ CoPool \/ CoLeave \/ CoThrows \/ CoPopNothing \/ CoPopFrame \/ DispatchNothing
           \/ Heartbeat
  BY <1>0, <1>3, <1>4
  DEF CoStart, CoPool, CoLeave, CoThrows, CoPopNothing, CoPopFrame, DispatchNothing, Heartbeat,
      Co, CoState, poolVars
<1>5. CASE CoStop
  BY <1>0, <1>5 DEF CoStop, Co, CoState, PoolStop
<1>6. CASE CoJoin
  BY <1>0, <1>6 DEF CoJoin, Co, CoState, PoolJoin
<1>7. CASE CoEnd
  BY <1>0, <1>7 DEF CoEnd, CoState, poolVars
<1>8. ASSUME NEW i \in Worker,
             HarvestNothing(i) \/ HarvestOpened(i) \/ HarvestResult(i) \/ HarvestFailure(i)
      PROVE  ClientOK'
  <2>1. co.pc = "harvest" /\ co'.pc = "reopen" /\ stopping' = stopping
    BY <1>0, <1>8
    DEF HarvestNothing, HarvestOpened, HarvestResult, HarvestFailure, Harvested, Co, CoState, poolVars
  <2> QED
    BY <1>3, <2>1
<1>9. ASSUME NEW i \in Worker, ReopenNothing(i) \/ Reopen(i) \/ Dispatch(i) PROVE ClientOK'
  <2>1. co.pc \in {"reopen", "dispatch"} /\ stopping' = stopping
    BY <1>9 DEF ReopenNothing, Reopen, Dispatch, Co, poolVars, Submit, Fill
  <2>2. co'.pc \in {"harvest", "dispatch", "beat"}
    BY <1>0, <1>9 DEF ReopenNothing, Reopen, Dispatch, Co, CoState, AfterReopen
  <2> QED
    BY <1>3, <2>1, <2>2
<1>10. ASSUME NEW i \in Worker, PoolThread(i) PROVE ClientOK'
  BY <1>1, <1>10
  DEF PoolThread, RunOpen, RunDetect, CloseDetector, Wait, Swap, FinishTask, Drop, RunTask, OnExit,
      serviceVars
<1>11. CASE ClientReturns /\ UNCHANGED serviceVars
  BY <1>0, <1>11 DEF ClientReturns, Notify, NotifyStop, PoolJoined, serviceVars
<1>12. CASE UNCHANGED allVars
  BY <1>1, <1>12 DEF allVars, poolVars, serviceVars
<1> QED
  BY <1>2, <1>4, <1>5, <1>6, <1>7, <1>8, <1>9, <1>10, <1>11, <1>12 DEF ServiceNext, Coordinator

LEMMA WorkersKept ==
  ServiceOK /\ ServiceTypeOK' /\ [ServiceNext]_allVars => \A i \in Worker : WorkerOK(i)'
<1> SUFFICES ASSUME ServiceOK, ServiceTypeOK', [ServiceNext]_allVars, NEW w \in Worker
             PROVE  WorkerOK(w)'
  OBVIOUS
<1>0. /\ WorkerOK(w)
      /\ co \in CoState
      /\ job \in [Worker -> Frame \cup {NoJob, Open}]
      /\ outcome \in [Worker -> {"none", "opened", "result", "failed"}]
      /\ detector \in [Worker -> BOOLEAN]
  BY DEF ServiceOK, ServiceTypeOK
<1>t. PoolTypeOK
  BY DEF ServiceOK, PoolOK
<1>h. /\ thread[w] \in {"run", "finished"} => ~task[w]
      /\ thread[w] \in {"dropping", "closing", "exited"} => stopping /\ ~task[w]
      /\ co.pc = "ended" => thread[w] = "exited"
      /\ stopping => co.pc \in {"join", "end", "ended"}
  BY DEF ServiceOK, PoolOK, RunningHoldsSlot, LeaverHasNoTask, JoinedMeansExited, ClientOK
\* What a step leaves alone.
<1>1. ASSUME UNCHANGED <<task, future, thread, job, outcome, detector>>,
             co'.ready = co.ready, stopping => stopping', co.pc # "ended" \/ co' = co
      PROVE  WorkerOK(w)'
  <2>1. /\ task'[w] = task[w] /\ future'[w] = future[w] /\ thread'[w] = thread[w]
        /\ job'[w] = job[w] /\ outcome'[w] = outcome[w] /\ detector'[w] = detector[w]
    BY <1>1
  <2>2. (w \in co'.ready <=> w \in co.ready) /\ (co'.pc # "ended" => co.pc # "ended")
    BY <1>0, <1>1, <1>h DEF CoState
  <2> QED
    BY <1>0, <1>1, <2>1, <2>2, OthersStay
<1>2. CASE Feed \/ RequestStop
  BY <1>1, <1>2 DEF Feed, RequestStop, poolVars
<1>3. CASE CoStart \/ CoPool \/ CoLeave \/ CoThrows \/ CoPopNothing \/ DispatchNothing \/ Heartbeat
  <2>1. co'.ready = co.ready /\ co.pc # "ended"
    BY <1>0, <1>3
    DEF CoStart, CoPool, CoLeave, CoThrows, CoPopNothing, DispatchNothing, Heartbeat, Co, CoState
  <2>2. UNCHANGED <<poolVars, job, outcome, detector>>
    BY <1>3 DEF CoStart, CoPool, CoLeave, CoThrows, CoPopNothing, DispatchNothing, Heartbeat
  <2> QED
    BY <1>1, <2>1, <2>2 DEF poolVars
<1>4. CASE CoPopFrame
  <2>1. co'.ready = co.ready /\ co.pc # "ended"
    BY <1>0, <1>4 DEF CoPopFrame, Co, CoState
  <2>2. UNCHANGED <<poolVars, job, outcome, detector>>
    BY <1>4 DEF CoPopFrame
  <2> QED
    BY <1>1, <2>1, <2>2 DEF poolVars
<1>5. CASE CoStop \/ CoJoin
  <2>1. co'.ready = co.ready /\ co.pc # "ended"
    BY <1>0, <1>5 DEF CoStop, CoJoin, Co, CoState
  <2>2. UNCHANGED <<task, future, thread, job, outcome, detector>> /\ (stopping => stopping')
    BY <1>5 DEF CoStop, CoJoin, PoolStop, PoolJoin
  <2> QED
    BY <1>1, <2>1, <2>2
<1>6. CASE CoEnd
  <2>1. thread[w] = "exited" /\ co'.pc = "ended"
    BY <1>0, <1>6 DEF CoEnd, CoState, ServiceOK, PoolOK, JoinedMeansExited
  <2> QED
    BY <1>0, <1>6, <2>1 DEF CoEnd, WorkerOK, poolVars
<1>7. ASSUME NEW i \in Worker, HarvestNothing(i) \/ ReopenNothing(i) PROVE WorkerOK(w)'
  <2>1. co'.ready = co.ready /\ co.pc # "ended"
    BY <1>0, <1>7 DEF HarvestNothing, ReopenNothing, AfterReopen, Co, CoState
  <2> QED
    BY <1>1, <1>7, <2>1 DEF HarvestNothing, ReopenNothing, poolVars
<1>8. ASSUME NEW i \in Worker, HarvestOpened(i) \/ HarvestResult(i) \/ HarvestFailure(i)
      PROVE  WorkerOK(w)'
  <2>1. /\ \/ outcome[i] = "opened" /\ co'.ready = co.ready \cup {i}
           \/ outcome[i] = "result" /\ co'.ready = co.ready
           \/ outcome[i] = "failed" /\ co'.ready = co.ready \ {i}
        /\ co.pc = "harvest" /\ co'.pc = "reopen"
        /\ job[i] # NoJob /\ future[i] # "pending" /\ job' = [job EXCEPT ![i] = NoJob]
        /\ UNCHANGED <<poolVars, outcome, detector>>
    BY <1>0, <1>8 DEF HarvestOpened, HarvestResult, HarvestFailure, Harvested, Co, CoState
  <2>2. CASE w # i
    BY <1>0, <2>1, <2>2, OthersStay DEF poolVars
  <2>3. CASE w = i
    <3>1. ~stopping /\ future[w] = "ready" /\ ~task[w] /\ thread[w] \notin {"run", "exited"}
      BY <1>0, <1>h, <2>1, <2>3 DEF WorkerOK
    <3>2. detector[w] <=> w \in co'.ready
      BY <1>0, <2>1, <2>3, <3>1 DEF WorkerOK
    <3>3. job'[w] = NoJob /\ NoJob # Open /\ NoJob \notin Frame
      BY <1>0, <2>1, <2>3, FrameFacts
    <3> QED
      BY <2>1, <3>1, <3>2, <3>3 DEF WorkerOK, poolVars
  <2> QED
    BY <2>2, <2>3
<1>9. ASSUME NEW i \in Worker, Reopen(i) \/ Dispatch(i) PROVE WorkerOK(w)'
  <2>1. PICK new \in Frame \cup {Open} :
          /\ new = Open => i \notin co.ready
          /\ new \in Frame => i \in co.ready
          /\ job' = [job EXCEPT ![i] = new]
    BY <1>0, <1>9, FrameFacts DEF Reopen, Dispatch, Idle, CoState
  <2>2. /\ co'.ready = co.ready /\ co'.pc # "ended" /\ co.pc # "ended"
        /\ job[i] = NoJob /\ new # NoJob /\ Submit(i)
        /\ UNCHANGED <<outcome, detector>>
    BY <1>0, <1>9, FrameFacts DEF Reopen, Dispatch, Idle, AfterReopen, Co, CoState
  <2>3. CASE w # i
    BY <1>0, <1>t, <2>1, <2>2, <2>3, OthersStay DEF Submit, Fill, PoolTypeOK
  <2>4. CASE w = i
    <3>1. task'[w] /\ future'[w] = "pending" /\ job'[w] = new /\ thread' = thread
      BY <1>0, <1>t, <2>1, <2>2, <2>4 DEF Submit, Fill, PoolTypeOK
    <3>2. thread[w] = "exited" => ~detector[w]
      BY <1>0 DEF WorkerOK
    <3>3. thread[w] # "exited" => (detector[w] <=> w \in co.ready)
      BY <1>0, <2>2, <2>4 DEF WorkerOK
    <3> QED
      BY <2>1, <2>2, <2>4, <3>1, <3>2, <3>3 DEF WorkerOK
  <2> QED
    BY <2>3, <2>4
<1>10. ASSUME NEW i \in Worker, RunOpen(i) \/ RunDetect(i) PROVE WorkerOK(w)'
  <2>1. /\ thread[i] = "run" /\ thread' = [thread EXCEPT ![i] = "finished"]
        /\ future' = [future EXCEPT ![i] = "ready"]
        /\ UNCHANGED <<task, busy, stopping, client, co, job>>
    BY <1>10 DEF RunOpen, RunDetect, RunTask, Go
  <2>2. \/ /\ job[i] = Open
           /\ outcome' = [outcome EXCEPT ![i] = "opened"] /\ detector' = [detector EXCEPT ![i] = TRUE]
        \/ outcome' = [outcome EXCEPT ![i] = "failed"] /\ detector' = [detector EXCEPT ![i] = FALSE]
        \/ /\ job[i] \in Frame
           /\ outcome' = [outcome EXCEPT ![i] = "result"] /\ detector' = detector
    BY <1>10 DEF RunOpen, RunDetect
  <2>3. CASE w # i
    <3>1. outcome'[w] = outcome[w] /\ detector'[w] = detector[w]
      BY <1>0, <2>2, <2>3
    <3>2. future'[w] = future[w] /\ thread'[w] = thread[w]
      BY <1>t, <2>1, <2>3 DEF PoolTypeOK
    <3> QED
      BY <1>0, <2>1, <3>1, <3>2, OthersStay
  <2>4. CASE w = i
    <3>1. /\ ~task'[w] /\ thread'[w] = "finished" /\ future'[w] = "ready"
          /\ co.pc # "ended" /\ job'[w] # NoJob
      BY <1>0, <1>h, <1>t, <2>1, <2>4 DEF WorkerOK, PoolTypeOK
    <3>2. detector[w] <=> w \in co.ready
      BY <1>0, <2>1, <2>4 DEF WorkerOK
    <3>3. \/ outcome'[w] = "opened" /\ detector'[w]
          \/ outcome'[w] = "failed" /\ ~detector'[w]
          \/ outcome'[w] = "result" /\ detector'[w] /\ w \in co'.ready
      <4>1. job[w] \in Frame => detector[w] /\ w \in co'.ready
        BY <1>0, <2>1, <3>1, <3>2 DEF WorkerOK
      <4> QED
        BY <1>0, <2>2, <2>4, <4>1
    <3> QED
      BY <1>0, <2>1, <3>1, <3>3 DEF WorkerOK
  <2> QED
    BY <2>3, <2>4
<1>11. ASSUME NEW i \in Worker, CloseDetector(i) PROVE WorkerOK(w)'
  <2> USE <1>0, <1>t, <1>h, <1>11 DEF CloseDetector, OnExit, Go, PoolTypeOK
  <2>1. CASE w # i
    BY <2>1, OthersStay
  <2>2. CASE w = i
    BY <2>2 DEF WorkerOK
  <2> QED
    BY <2>1, <2>2
<1>12. ASSUME NEW i \in Worker, Wait(i) \/ Swap(i) \/ FinishTask(i) \/ Drop(i), UNCHANGED serviceVars
       PROVE  WorkerOK(w)'
  <2>0. UNCHANGED <<co, job, outcome, detector>>
    BY <1>12 DEF serviceVars
  <2> USE <1>0, <1>t, <1>h, <2>0 DEF Go, PoolTypeOK
  <2>1. CASE w # i
    BY <1>12, <2>1, OthersStay DEF Wait, Swap, FinishTask, Drop
  <2>2. CASE w = i /\ Wait(i)
    BY <2>2 DEF Wait, WorkerOK
  <2>3. CASE w = i /\ Swap(i)
    BY <2>3 DEF Swap, WorkerOK
  <2>4. CASE w = i /\ FinishTask(i)
    BY <2>4 DEF FinishTask, WorkerOK
  <2>5. CASE w = i /\ Drop(i)
    BY <2>5 DEF Drop, WorkerOK
  <2> QED
    BY <1>12, <2>1, <2>2, <2>3, <2>4, <2>5
<1>13. CASE ClientReturns /\ UNCHANGED serviceVars
  <2>1. UNCHANGED <<task, future, stopping>>
    BY <1>13 DEF ClientReturns, Notify, NotifyStop, PoolJoined
  <2>2. thread'[w] = thread[w] \/ {thread[w], thread'[w]} \subseteq {"lock", "wait", "closing"}
    BY <1>13, <1>t DEF ClientReturns, Notify, NotifyStop, PoolJoined, WakeAll, PoolTypeOK
  <2> QED
    BY <1>0, <1>13, <2>1, <2>2, OthersStay DEF serviceVars
<1>14. CASE UNCHANGED allVars
  BY <1>1, <1>14 DEF allVars, poolVars, serviceVars
<1> QED
  BY <1>2, <1>3, <1>4, <1>5, <1>6, <1>7, <1>8, <1>9, <1>10, <1>11, <1>12, <1>13, <1>14
  DEF ServiceNext, Coordinator, PoolThread
\* What a step does to the results: nothing but perhaps a notice, the change of
\* the session, or a newer result of the current session.
SessionStays == co'.gen = co.gen /\ co'.last = co.last
SessionChanges == co'.gen > co.gen /\ co'.last = 0
ResultAccepted(frame) ==
  /\ frame \in Frame /\ Publishable(frame)
  /\ co'.gen = co.gen /\ co'.last = frame.seq
  /\ UNCHANGED output \/ Publish("ok", frame)

LEMMA OutputSteps ==
  ASSUME ServiceOK, ServiceTypeOK', [ServiceNext]_allVars
  PROVE  \/ SessionStays /\ (UNCHANGED output \/ \E status \in Notice : Publish(status, NoFrame))
         \/ SessionChanges /\ \E status \in Notice : Publish(status, NoFrame)
         \/ \E frame \in Frame : ResultAccepted(frame)
<1> DEFINE Goal ==
      \/ SessionStays /\ (UNCHANGED output \/ \E status \in Notice : Publish(status, NoFrame))
      \/ SessionChanges /\ \E status \in Notice : Publish(status, NoFrame)
      \/ \E frame \in Frame : ResultAccepted(frame)
<1> SUFFICES Goal
  OBVIOUS
<1>0. co \in CoState /\ co.gen \in Nat /\ co.last \in Nat
  <2>1. co \in CoState /\ co.gen \in 0..MaxFeed /\ co.last \in 0..MaxFeed
    BY DEF ServiceOK, ServiceTypeOK, CoState
  <2> QED
    BY <2>1, FeedAssumption
<1>1. ASSUME UNCHANGED <<co, output>> PROVE Goal
  BY <1>1 DEF SessionStays
<1>2. CASE Feed \/ RequestStop
  BY <1>1, <1>2 DEF Feed, RequestStop
<1>3. CASE CoStart \/ CoPool \/ CoLeave \/ CoThrows \/ CoPopNothing \/ DispatchNothing \/ Heartbeat
           \/ CoStop \/ CoJoin \/ CoEnd
  <2>1. SessionStays
    BY <1>0, <1>3
    DEF CoStart, CoPool, CoLeave, CoThrows, CoPopNothing, DispatchNothing, Heartbeat, CoStop, CoJoin,
        CoEnd, Co, CoState, SessionStays
  <2>2. UNCHANGED output \/ \E status \in Notice : Publish(status, NoFrame)
    BY <1>3
    DEF CoStart, CoPool, CoLeave, CoThrows, CoPopNothing, DispatchNothing, Heartbeat, CoStop, CoJoin,
        CoEnd, Notice
  <2> QED
    BY <2>1, <2>2
<1>4. CASE CoPopFrame
  <2> DEFINE newer == input.gen > co.gen
  <2>1. co'.gen = (IF newer THEN input.gen ELSE co.gen) /\ co'.last = (IF newer THEN 0 ELSE co.last)
    BY <1>0, <1>4 DEF CoPopFrame, Co, CoState
  <2>2. CASE newer
    BY <1>4, <2>1, <2>2 DEF CoPopFrame, SessionChanges, Notice
  <2>3. CASE ~newer
    BY <1>4, <2>1, <2>3 DEF CoPopFrame, SessionStays
  <2> QED
    BY <2>2, <2>3
<1>5. ASSUME NEW i \in Worker,
             HarvestNothing(i) \/ HarvestOpened(i) \/ HarvestFailure(i) \/ ReopenNothing(i)
             \/ Reopen(i) \/ Dispatch(i)
      PROVE  Goal
  <2>1. UNCHANGED output
    BY <1>5 DEF HarvestNothing, HarvestOpened, HarvestFailure, ReopenNothing, Reopen, Dispatch
  <2>2. SessionStays
    BY <1>0, <1>5
    DEF HarvestNothing, HarvestOpened, HarvestFailure, Harvested, ReopenNothing, Reopen, Dispatch,
        AfterReopen, Co, CoState, SessionStays
  <2> QED
    BY <2>1, <2>2
<1>6. ASSUME NEW i \in Worker, HarvestResult(i) PROVE Goal
  <2>1. CASE Harvested(i, co.ready, co.last) /\ UNCHANGED output
    BY <1>0, <2>1 DEF Harvested, Co, CoState, SessionStays
  <2>2. CASE Publishable(job[i]) /\ Harvested(i, co.ready, job[i].seq) /\ Publish("ok", job[i])
    <3>1. job[i] # NoJob /\ job[i] \in Frame \cup {NoJob, Open}
      BY <2>2 DEF Harvested, ServiceOK, ServiceTypeOK
    <3>2. job[i] # Open
      BY <1>0, <2>2, FrameFacts DEF Publishable
    <3>3. co'.gen = co.gen /\ co'.last = job[i].seq
      BY <1>0, <2>2 DEF Harvested, Co, CoState
    <3> QED
      BY <2>2, <3>1, <3>2, <3>3 DEF ResultAccepted
  <2> QED
    BY <1>6, <2>1, <2>2 DEF HarvestResult
<1>7. ASSUME NEW i \in Worker, PoolThread(i) PROVE Goal
  BY <1>1, <1>7 DEF PoolThread, RunOpen, RunDetect, CloseDetector, serviceVars, output
<1>8. CASE UNCHANGED serviceVars
  BY <1>1, <1>8 DEF serviceVars, output
<1>9. CASE UNCHANGED allVars
  BY <1>8, <1>9 DEF allVars
<1> QED
  BY <1>2, <1>3, <1>4, <1>5, <1>6, <1>7, <1>8, <1>9 DEF ServiceNext, Coordinator

\* A published result is newer than the one published before it.
Newer(frame, than) ==
  \/ frame.gen > than.gen
  \/ frame.gen = than.gen /\ frame.seq > than.seq

LEMMA ResultsKept ==
  ASSUME ServiceOK, ServiceTypeOK', [ServiceNext]_allVars
  PROVE  /\ OrderOK' /\ StaleResultIsReported'
         /\ lastOk' # lastOk => Newer(lastOk', lastOk)
<1>0. OrderOK /\ StaleResultIsReported
  BY DEF ServiceOK
<1>1. /\ co.gen \in Nat /\ co.last \in Nat /\ co'.gen \in Nat /\ co'.last \in Nat
      /\ lastOk.gen \in Nat /\ lastOk.seq \in Nat
  <2>1. /\ co.gen \in 0..MaxFeed /\ co.last \in 0..MaxFeed
        /\ co'.gen \in 0..MaxFeed /\ co'.last \in 0..MaxFeed
    BY DEF ServiceOK, ServiceTypeOK, CoState
  <2>2. lastOk \in Frame \cup {NoFrame}
    BY DEF ServiceOK, ServiceTypeOK
  <2>3. lastOk.gen \in Nat /\ lastOk.seq \in Nat
    BY <2>2, FrameFacts
  <2> QED
    BY <2>1, <2>3, FeedAssumption
<1>2. ASSUME NEW status \in Notice, Publish(status, NoFrame)
      PROVE  lastOk' = lastOk /\ (shown'.status # "ok" \/ detail' = "error")
  <2>1. status # "ok"
    BY DEF Notice
  <2>2. \/ shown' = [status |-> status, frame |-> NoFrame] /\ lastOk' = lastOk
        \/ detail' = "error" /\ lastOk' = lastOk
    BY <1>2, <2>1 DEF Publish, Written
  <2> QED
    BY <2>1, <2>2
<1>3. CASE SessionStays /\ UNCHANGED output
  BY <1>0, <1>3 DEF SessionStays, output, OrderOK, StaleResultIsReported
<1>4. CASE (SessionStays \/ SessionChanges) /\ \E status \in Notice : Publish(status, NoFrame)
  <2>1. lastOk' = lastOk /\ (shown'.status # "ok" \/ detail' = "error")
    BY <1>2, <1>4
  <2>2. StaleResultIsReported'
    BY <2>1 DEF StaleResultIsReported
  <2>3. OrderOK'
    BY <1>0, <1>1, <1>4, <2>1 DEF SessionStays, SessionChanges, OrderOK
  <2> QED
    BY <2>1, <2>2, <2>3
<1>5. ASSUME NEW frame \in Frame, ResultAccepted(frame)
      PROVE  /\ OrderOK' /\ StaleResultIsReported'
             /\ lastOk' # lastOk => Newer(lastOk', lastOk)
  <2>1. /\ frame.gen = co.gen /\ frame.seq > co.last /\ co'.gen = co.gen /\ co'.last = frame.seq
        /\ frame.gen \in Nat /\ frame.seq \in Nat
    BY <1>5, FrameFacts DEF ResultAccepted, Publishable
  <2>2. \/ UNCHANGED output
        \/ shown' = [status |-> "ok", frame |-> frame] /\ lastOk' = frame
        \/ detail' = "error" /\ UNCHANGED <<shown, lastOk>>
    BY <1>5 DEF ResultAccepted, Publish, Written
  <2>3. lastOk' = lastOk \/ lastOk' = frame
    BY <2>2 DEF output
  <2>4. OrderOK'
    BY <1>0, <1>1, <2>1, <2>3 DEF OrderOK
  <2>5. lastOk' # lastOk => Newer(lastOk', lastOk)
    BY <1>0, <1>1, <2>1, <2>3 DEF OrderOK, Newer
  <2>6. StaleResultIsReported'
    BY <1>0, <2>1, <2>2 DEF StaleResultIsReported, output
  <2> QED
    BY <2>4, <2>5, <2>6
<1> QED
  BY <1>3, <1>4, <1>5, OutputSteps

LEMMA ServiceSteps == ServiceOK /\ [ServiceNext]_allVars => ServiceOK'
<1> SUFFICES ASSUME ServiceOK, [ServiceNext]_allVars PROVE ServiceOK'
  OBVIOUS
<1>1. PoolOK'
  BY PoolSteps, ServicePoolSteps DEF ServiceOK
<1>2. ServiceTypeOK'
  BY <1>1, ServiceTypes DEF PoolOK
<1>3. ClientOK' /\ (\A i \in Worker : WorkerOK(i)') /\ OrderOK' /\ StaleResultIsReported'
  BY <1>2, ClientKept, WorkersKept, ResultsKept
<1> QED
  BY <1>1, <1>2, <1>3 DEF ServiceOK

LEMMA ServiceInvariant == ServiceSpec => []ServiceOK
BY ServiceStarts, ServiceSteps, PTL DEF ServiceSpec

\* The locals of the coordinator, the jobs and the snapshot stay what their
\* types say; in particular a snapshot carries a frame exactly when it is a result.
THEOREM ServiceTypeCorrect == ServiceSpec => []ServiceTypeOK
<1>1. ServiceOK => ServiceTypeOK
  BY DEF ServiceOK
<1> QED
  BY <1>1, ServiceInvariant, PTL

\* No detector is opened twice or asked to detect while closed, for any number
\* of workers, however late the coordinator of inference_service.cpp collects.
THEOREM DetectorsUsedProperly == ServiceSpec => []DetectorProtocol
<1>1. ServiceOK => DetectorProtocol
  <2> SUFFICES ASSUME ServiceOK, NEW i \in Worker, thread[i] = "run"
               PROVE  (job[i] = Open => ~detector[i]) /\ (job[i] \in Frame => detector[i])
    BY DEF DetectorProtocol
  <2>1. WorkerOK(i) /\ co.pc # "ended"
    BY DEF ServiceOK, ClientOK, PoolOK, JoinedMeansExited
  <2> QED
    BY <2>1 DEF WorkerOK
<1> QED
  BY <1>1, ServiceInvariant, PTL

\* The snapshot of an earlier camera session outlives the session only with an
\* error in health().
THEOREM StaleResultsAreReported == ServiceSpec => []StaleResultIsReported
<1>1. ServiceOK => StaleResultIsReported
  BY DEF ServiceOK
<1> QED
  BY <1>1, ServiceInvariant, PTL

\* When run() of the InferenceService returns every pool thread has ended and
\* every detector was closed on its own thread.
THEOREM ServiceLeavesNothingOpen == ServiceSpec => []NothingLeftOpen
<1>1. ServiceOK => NothingLeftOpen
  BY DEF ServiceOK, ClientOK, PoolOK, JoinedMeansExited, WorkerOK, NothingLeftOpen
<1> QED
  BY <1>1, ServiceInvariant, PTL

\* Results are published in capture order and none twice, for any number of
\* workers finishing in any order.
THEOREM ResultsInOrder == ServiceSpec => ResultsStayInOrder
<1>1. ServiceOK /\ ServiceTypeOK' /\ [ServiceNext]_allVars =>
        [lastOk' # lastOk =>
           \/ lastOk'.gen > lastOk.gen
           \/ lastOk'.gen = lastOk.gen /\ lastOk'.seq > lastOk.seq]_allVars
  BY ResultsKept DEF Newer
<1> QED
  BY <1>1, ServiceInvariant, ServiceTypeCorrect, PTL DEF ServiceSpec, ResultsStayInOrder

\* The pool inside the service is a ThreadPool: what is proved of the pool's
\* specification without its fairness holds of the service.
THEOREM ServiceUsesThePool == ServiceSpec => PoolInit /\ [][PoolNext]_poolVars
<1>1. ServiceInit => PoolInit
  BY DEF ServiceInit
<1> QED
  BY <1>1, ServicePoolSteps, PTL DEF ServiceSpec
=============================================================================
