-------------------------- MODULE InferenceService --------------------------
(***************************************************************************)
(* ai::InferenceService (src/ai/inference_service.cpp): the coordinator    *)
(* thread that feeds a ThreadPool of detectors from a queue of one frame,  *)
(* collects what they return and keeps the result snapshot on disk.  Each  *)
(* pass of its loop is: pop, then per worker harvest and reopen, then      *)
(* dispatch, then heartbeat.  The clocks (age of a frame, retry and frame  *)
(* intervals) are choices: any comparison may go either way.               *)
(***************************************************************************)
EXTENDS ThreadPool

CONSTANT MaxFeed    \* bound: the session of a frame plus its sequence number

ASSUME FeedAssumption == MaxFeed \in Nat

VARIABLES input,    \* the queue of capacity 1, or NoFrame
          feed,     \* history: the newest frame the decoder delivered
          stop,     \* stop_
          co,       \* the coordinator's locals
          job,      \* workers[i].job: NoJob, Open or the frame to detect on
          outcome,  \* what worker i's last task did
          detector, \* detectors_[i] is open
          shown,    \* the snapshot on disk
          detail,   \* detail_
          lastOk    \* history: the last frame whose result was published

serviceVars == <<input, feed, stop, co, job, outcome, detector, shown, detail, lastOk>>
allVars     == <<poolVars, serviceVars>>
output      == <<shown, detail, lastOk>>

Frame   == {f \in [gen : 1..MaxFeed, seq : 1..MaxFeed] : f.gen + f.seq <= MaxFeed}
NoFrame == [gen |-> 0, seq |-> 0]
NoJob   == [gen |-> 0, seq |-> 1]
Open    == [gen |-> 1, seq |-> 0]

ServiceInit ==
  /\ PoolInit
  /\ input = NoFrame /\ feed = NoFrame
  /\ stop = FALSE
  /\ co = [pc |-> "start", at |-> 1, gen |-> 0, last |-> 0, pending |-> NoFrame,
           ready |-> {}, cursor |-> 1]
  /\ job = [i \in Worker |-> NoJob]
  /\ outcome = [i \in Worker |-> "none"]
  /\ detector = [i \in Worker |-> FALSE]
  /\ shown = [status |-> "none", frame |-> NoFrame]
  /\ detail = "" /\ lastOk = NoFrame

\* ResultWriter::write: the snapshot is written beside and renamed, so it is
\* replaced whole or, when that fails, not at all.
Written(status, frame) == shown' = [status |-> status, frame |-> frame]

Publish(status, frame) ==
  \/ /\ Written(status, frame)
     /\ detail' = IF status = "ok" THEN "" ELSE status
     /\ lastOk' = IF status = "ok" THEN frame ELSE lastOk
  \/ /\ detail' = "error"
     /\ UNCHANGED <<shown, lastOk>>

-----------------------------------------------------------------------------
\* Around the service

\* The decoder's sink: try_push with drop_oldest on a queue of one.
Feed ==
  /\ \/ feed.gen > 0 /\ feed' = [feed EXCEPT !.seq = @ + 1]
     \/ feed' = [gen |-> feed.gen + 1, seq |-> 1]
  /\ feed' \in Frame
  /\ input' = feed'
  /\ UNCHANGED <<poolVars, stop, co, job, outcome, detector, output>>

RequestStop ==
  /\ ~stop
  /\ stop' = TRUE
  /\ UNCHANGED <<poolVars, input, feed, co, job, outcome, detector, output>>

-----------------------------------------------------------------------------
\* The coordinator

Co(from, update) == co.pc = from /\ client = "free" /\ co' = update

CoStart ==
  /\ Co("start", [co EXCEPT !.pc = "pool"])
  /\ Publish("starting", NoFrame)
  /\ UNCHANGED <<poolVars, input, feed, stop, job, outcome, detector>>

\* The pool's constructor; when a thread cannot be created it stops and joins.
CoPool ==
  /\ \/ Co("pool", [co EXCEPT !.pc = "pop"])
     \/ Co("pool", [co EXCEPT !.pc = "stop"])
  /\ UNCHANGED <<poolVars, input, feed, stop, job, outcome, detector, output>>

\* The loop condition, and the check between the pop and the workers.
CoLeave ==
  /\ stop
  /\ \/ Co("pop", [co EXCEPT !.pc = "stop"])
     \/ co.at = 1 /\ Co("harvest", [co EXCEPT !.pc = "stop"])
  /\ UNCHANGED <<poolVars, input, feed, stop, job, outcome, detector, output>>

CoPopNothing ==
  /\ ~stop /\ input = NoFrame
  /\ Co("pop", [co EXCEPT !.pc = "harvest", !.at = 1])
  /\ UNCHANGED <<poolVars, input, feed, stop, job, outcome, detector, output>>

\* Mutant: the change of generation leaves the old result on the screen.
CoPopFrame_KeepsShown ==
  /\ ~stop /\ input # NoFrame
  /\ LET newer == input.gen > co.gen
         before == IF newer THEN NoFrame ELSE co.pending
     IN \E fresh \in BOOLEAN :
          Co("pop", [co EXCEPT !.pc = "harvest", !.at = 1,
                      !.gen = IF newer THEN input.gen ELSE @,
                      !.last = IF newer THEN 0 ELSE @,
                      !.pending = IF fresh /\ (newer \/ input.gen = co.gen)
                                            /\ input.seq > before.seq
                                  THEN input ELSE before])
  /\ input' = NoFrame
  /\ UNCHANGED <<poolVars, feed, stop, job, outcome, detector, output>>

\* The generation of the input is observed before any result is collected; a
\* new one forgets what belongs to the old one and clears the snapshot.
CoPopFrame ==
  /\ ~stop /\ input # NoFrame
  /\ LET newer == input.gen > co.gen
         before == IF newer THEN NoFrame ELSE co.pending
     IN /\ \E fresh \in BOOLEAN :
             Co("pop", [co EXCEPT !.pc = "harvest", !.at = 1,
                         !.gen = IF newer THEN input.gen ELSE @,
                         !.last = IF newer THEN 0 ELSE @,
                         !.pending = IF fresh /\ (newer \/ input.gen = co.gen)
                                               /\ input.seq > before.seq
                                     THEN input ELSE before])
        /\ IF newer THEN Publish("waiting", NoFrame) ELSE UNCHANGED output
  /\ input' = NoFrame
  /\ UNCHANGED <<poolVars, feed, stop, job, outcome, detector>>

\* A result is published if it is of this generation, newer and not too old.
Publishable(frame) == frame.gen = co.gen /\ frame.seq > co.last

Harvested(i, ready, last) ==
  /\ Co("harvest", [co EXCEPT !.pc = "reopen", !.ready = ready, !.last = last])
  /\ co.at = i
  /\ job[i] # NoJob /\ future[i] # "pending"
  /\ job' = [job EXCEPT ![i] = NoJob]
  /\ UNCHANGED <<poolVars, input, feed, stop, outcome, detector>>

HarvestNothing(i) ==
  /\ job[i] = NoJob \/ future[i] = "pending"
  /\ co.at = i
  /\ Co("harvest", [co EXCEPT !.pc = "reopen"])
  /\ UNCHANGED <<poolVars, input, feed, stop, job, outcome, detector, output>>

HarvestOpened(i) ==
  /\ outcome[i] = "opened"
  /\ Harvested(i, co.ready \cup {i}, co.last)
  /\ UNCHANGED output

\* Mutant: only the session of a result is checked.
HarvestResult_AnyOrder(i) ==
  /\ outcome[i] = "result"
  /\ \/ Harvested(i, co.ready, co.last) /\ UNCHANGED output
     \/ /\ job[i].gen = co.gen
        /\ Harvested(i, co.ready, job[i].seq)
        /\ Publish("ok", job[i])

HarvestResult(i) ==
  /\ outcome[i] = "result"
  /\ \/ Harvested(i, co.ready, co.last) /\ UNCHANGED output
     \/ /\ Publishable(job[i])
        /\ Harvested(i, co.ready, job[i].seq)
        /\ Publish("ok", job[i])

\* Mutant: the worker stays ready.
HarvestFailure_StaysReady(i) ==
  /\ outcome[i] = "failed"
  /\ Harvested(i, co.ready, co.last)
  /\ UNCHANGED output

HarvestFailure(i) ==
  /\ outcome[i] = "failed"
  /\ Harvested(i, co.ready \ {i}, co.last)
  /\ UNCHANGED output

AfterReopen(i) ==
  IF i < Count THEN [co EXCEPT !.pc = "harvest", !.at = i + 1] ELSE [co EXCEPT !.pc = "dispatch"]

\* The worker is ready or has a job, the retry is not due, or the pool refuses.
ReopenNothing(i) ==
  /\ co.at = i
  /\ Co("reopen", AfterReopen(i))
  /\ UNCHANGED <<poolVars, input, feed, stop, job, outcome, detector, output>>

Reopen(i) ==
  /\ co.at = i
  /\ i \notin co.ready /\ job[i] = NoJob
  /\ Co("reopen", AfterReopen(i))
  /\ Submit(i)
  /\ job' = [job EXCEPT ![i] = Open]
  /\ UNCHANGED <<input, feed, stop, outcome, detector, output>>

Idle(i) == i \in co.ready /\ job[i] = NoJob /\ ~busy[i]

\* Workers from the cursor on, in the order they are asked.
Turn(i) == (i + Count - co.cursor) % Count

Dispatch(i) ==
  /\ co.pending # NoFrame
  /\ Idle(i)
  /\ \A j \in Worker : Idle(j) => Turn(i) <= Turn(j)
  /\ Co("dispatch", [co EXCEPT !.pc = "beat", !.pending = NoFrame,
                               !.cursor = (i % Count) + 1])
  /\ Submit(i)
  /\ job' = [job EXCEPT ![i] = co.pending]
  /\ UNCHANGED <<input, feed, stop, outcome, detector, output>>

\* Too old, too early, or nobody is free.
DispatchNothing ==
  /\ \/ Co("dispatch", [co EXCEPT !.pc = "beat"])
     \/ Co("dispatch", [co EXCEPT !.pc = "beat", !.pending = NoFrame])
  /\ UNCHANGED <<poolVars, input, feed, stop, job, outcome, detector, output>>

\* try_submit finds no memory for the task: the exception leaves the loop, and
\* unwinding destroys the pool, which stops and joins.
CoThrows ==
  /\ \/ /\ co.at \notin co.ready /\ job[co.at] = NoJob /\ ~busy[co.at]
        /\ Co("reopen", [co EXCEPT !.pc = "stop"])
     \/ /\ co.pending # NoFrame /\ \E i \in Worker : Idle(i)
        /\ Co("dispatch", [co EXCEPT !.pc = "stop"])
  /\ UNCHANGED <<poolVars, input, feed, stop, job, outcome, detector, output>>

Heartbeat ==
  /\ Co("beat", [co EXCEPT !.pc = "pop"])
  /\ \/ UNCHANGED output
     \/ Publish(IF co.ready = {} THEN "unavailable" ELSE "waiting", NoFrame)
  /\ UNCHANGED <<poolVars, input, feed, stop, job, outcome, detector>>

CoStop ==
  /\ Co("stop", [co EXCEPT !.pc = "join"])
  /\ PoolStop
  /\ UNCHANGED <<input, feed, stop, job, outcome, detector, output>>

CoJoin ==
  /\ Co("join", [co EXCEPT !.pc = "end"])
  /\ PoolJoin
  /\ UNCHANGED <<input, feed, stop, job, outcome, detector, output>>

CoEnd ==
  /\ co.pc = "end" /\ client = "joined"
  /\ co' = [co EXCEPT !.pc = "ended", !.ready = {}]
  /\ Publish("stopped", NoFrame)
  /\ UNCHANGED <<poolVars, input, feed, stop, job, outcome, detector>>

Coordinator ==
  \/ CoStart \/ CoPool \/ CoLeave \/ CoPopNothing \/ CoPopFrame
  \/ \E i \in Worker :
       \/ HarvestNothing(i) \/ HarvestOpened(i) \/ HarvestResult(i) \/ HarvestFailure(i)
       \/ ReopenNothing(i) \/ Reopen(i) \/ Dispatch(i)
  \/ DispatchNothing \/ Heartbeat \/ CoThrows \/ CoStop \/ CoJoin \/ CoEnd
  \/ ClientReturns /\ UNCHANGED serviceVars

-----------------------------------------------------------------------------
\* The detectors, each on its own pool thread

RunOpen(i) ==
  /\ job[i] = Open
  /\ RunTask(i)
  /\ \/ outcome' = [outcome EXCEPT ![i] = "opened"] /\ detector' = [detector EXCEPT ![i] = TRUE]
     \/ outcome' = [outcome EXCEPT ![i] = "failed"] /\ detector' = [detector EXCEPT ![i] = FALSE]
  /\ UNCHANGED <<input, feed, stop, co, job, output>>

RunDetect(i) ==
  /\ job[i] \in Frame
  /\ RunTask(i)
  /\ \/ outcome' = [outcome EXCEPT ![i] = "result"] /\ UNCHANGED detector
     \/ outcome' = [outcome EXCEPT ![i] = "failed"] /\ detector' = [detector EXCEPT ![i] = FALSE]
  /\ UNCHANGED <<input, feed, stop, co, job, output>>

\* Mutant: the pool has no on_exit.
CloseDetector_Never(i) == OnExit(i) /\ UNCHANGED serviceVars

CloseDetector(i) ==
  /\ OnExit(i)
  /\ detector' = [detector EXCEPT ![i] = FALSE]
  /\ UNCHANGED <<input, feed, stop, co, job, outcome, output>>

PoolThread(i) ==
  \/ RunOpen(i) \/ RunDetect(i) \/ CloseDetector(i)
  \/ (Wait(i) \/ Swap(i) \/ FinishTask(i) \/ Drop(i)) /\ UNCHANGED serviceVars

-----------------------------------------------------------------------------
ServiceNext ==
  \/ Feed \/ RequestStop
  \/ Coordinator
  \/ \E i \in Worker : PoolThread(i)
  \/ co.pc = "ended" /\ UNCHANGED allVars

\* The coordinator and the pool's threads are scheduled and detector calls end.
ServiceFairness ==
  WF_allVars(Coordinator) /\ \A i \in Worker : WF_allVars(PoolThread(i))

ServiceSpec == ServiceInit /\ [][ServiceNext]_allVars /\ ServiceFairness

-----------------------------------------------------------------------------
CoState ==
  [pc : {"start", "pool", "pop", "harvest", "reopen", "dispatch", "beat",
         "stop", "join", "end", "ended"},
   at : Worker, gen : 0..MaxFeed, last : 0..MaxFeed, pending : Frame \cup {NoFrame},
   ready : SUBSET Worker, cursor : Worker]

Snapshot ==
  [status : {"none", "starting", "waiting", "unavailable", "stopped"}, frame : {NoFrame}]
    \cup [status : {"ok"}, frame : Frame]

ServiceTypeOK ==
  /\ PoolTypeOK
  /\ input \in Frame \cup {NoFrame} /\ feed \in Frame \cup {NoFrame}
  /\ stop \in BOOLEAN
  /\ co \in CoState
  /\ job \in [Worker -> Frame \cup {NoJob, Open}]
  /\ outcome \in [Worker -> {"none", "opened", "result", "failed"}]
  /\ detector \in [Worker -> BOOLEAN]
  /\ shown \in Snapshot
  /\ detail \in {"", "starting", "waiting", "unavailable", "stopped", "error"}
  /\ lastOk \in Frame \cup {NoFrame}

\* A detector is used as its interface asks: opened only when closed and asked
\* to detect only when open, although it is closed on its own thread and the
\* coordinator learns of it later.
DetectorProtocol ==
  \A i \in Worker : thread[i] = "run" =>
    /\ job[i] = Open => ~detector[i]
    /\ job[i] \in Frame => detector[i]

\* The snapshot shows a result of another camera session than the current one
\* only when the write that should have cleared it failed, and then health()
\* says so.
StaleResultIsReported ==
  shown.status = "ok" /\ shown.frame.gen # co.gen => detail = "error"

\* The service leaves nothing behind: when the coordinator is done all pool
\* threads have ended and all detectors are closed.
NothingLeftOpen ==
  co.pc = "ended" => \A i \in Worker : thread[i] = "exited" /\ ~detector[i]

\* Results are published in capture order and none twice, although two workers
\* finish in any order and results of an earlier session may come in late.
ResultsStayInOrder ==
  [][lastOk' # lastOk =>
       \/ lastOk'.gen > lastOk.gen
       \/ lastOk'.gen = lastOk.gen /\ lastOk'.seq > lastOk.seq]_allVars
=============================================================================
