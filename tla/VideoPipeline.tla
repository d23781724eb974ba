--------------------------- MODULE VideoPipeline ---------------------------
(***************************************************************************)
(* The video path: VideoCaptureService, VideoProcessService (decode) and   *)
(* VideoStreamService, each with a worker thread, the two drop_oldest      *)
(* queues between them, the devices they own (camera, hardware decoder,    *)
(* RTSP publisher) and the control thread that starts them in order,       *)
(* rolls a failed start back and stops them in two phases.                 *)
(*                                                                         *)
(* The queues follow QueueContract.  A worker's step runs from one device  *)
(* or queue call to the next and includes the reads of stop_ right after   *)
(* the call returned; request_stop takes a step for the flag, one for the  *)
(* device and one for the queue.                                           *)
(***************************************************************************)
EXTENDS Naturals, Sequences

CONSTANTS JpegCapacity, RawCapacity,  \* camera.queue_capacity, video.queue_capacity
          MaxTimeouts,                \* camera.max_consecutive_timeouts
          MaxFrames,                  \* bound: frames the camera delivers
          MaxSessions,                \* bound: successful camera opens per run
          MaxRuns                     \* bound: times the services are started

VARIABLES cap,   \* capture service: worker, atomics and its V4L2 source
          dec,   \* decode service: worker, atomics and its decoder
          str,   \* stream service: worker, atomics and its publisher
          jpeg,  \* capture's output queue
          raw,   \* decode's output queue
          ai,    \* the AI queue of capacity 1: a pending frame or NoFrame
          ctl,   \* control thread: phase and the service it is at
          frames,    \* history: frames captured so far, the source of ids
          published  \* history: id of the last frame given to the publisher

vars == <<cap, dec, str, jpeg, raw, ai, ctl, frames, published>>

ASSUME PipelineAssumption ==
  /\ JpegCapacity \in Nat \ {0} /\ RawCapacity \in Nat \ {0}
  /\ MaxTimeouts \in Nat \ {0}
  /\ MaxFrames \in Nat /\ MaxSessions \in Nat /\ MaxRuns \in Nat

NoFrame == [gen |-> 0, id |-> 0, image |-> 0]
EmptyQueue == [items |-> <<>>, closed |-> FALSE]

\* BoundedQueue: try_push with drop_oldest on an open queue, and close.
Push(q, capacity, f) ==
  [q EXCEPT !.items = IF Len(@) = capacity THEN Append(Tail(@), f) ELSE Append(@, f)]
Drain(q)   == [q EXCEPT !.closed = TRUE]
Discard(q) == [items |-> <<>>, closed |-> TRUE]

Init ==
  /\ cap = [pc |-> "none", state |-> "stopped", stop |-> FALSE, online |-> FALSE,
            gen |-> 0, timeouts |-> 0, devStop |-> FALSE, devOpen |-> FALSE]
  /\ dec = [pc |-> "none", state |-> "stopped", stop |-> FALSE, error |-> "none",
            gen |-> 0, cur |-> NoFrame, devStop |-> FALSE, devOpen |-> FALSE,
            session |-> {}, late |-> 0]
  /\ str = [pc |-> "none", state |-> "stopped", stop |-> FALSE, error |-> "none",
            gen |-> 0, cur |-> NoFrame, devStop |-> FALSE, devOpen |-> FALSE,
            session |-> {}, late |-> 0]
  /\ jpeg = EmptyQueue /\ raw = EmptyQueue /\ ai = NoFrame
  /\ ctl = [phase |-> "starting", at |-> "capture", step |-> 1, runs |-> 1]
  /\ frames = 0 /\ published = 0

-----------------------------------------------------------------------------
\* VideoCaptureService::run

\* open() of a device forgets an earlier stop request and takes what it needs,
\* or lets go of everything it took and throws.
Opened(service) == [service EXCEPT !.devOpen = TRUE, !.devStop = FALSE]
OpenFails(service) == [service EXCEPT !.devStop = FALSE]

Cap(update) ==
  /\ cap' = update
  /\ UNCHANGED <<dec, str, raw, ai, ctl, published>>

\* while (!stop_) around a session.
CapLoop ==
  /\ cap.pc = "loop" /\ ~cap.stop
  /\ Cap([cap EXCEPT !.pc = "open"])
  /\ UNCHANGED <<jpeg, frames>>

\* source_->open() forgets an earlier stop request; the device may be missing.
\* A new session gets the next generation and counts timeouts afresh.
CapOpen ==
  /\ cap.pc = "open"
  /\ \/ /\ cap.gen < MaxSessions
        /\ Cap([Opened(cap) EXCEPT !.pc = "check",
                           !.gen = @ + 1, !.online = TRUE, !.state = "running",
                           !.timeouts = 0])
     \/ Cap([OpenFails(cap) EXCEPT !.pc = "failed"])
  /\ UNCHANGED <<jpeg, frames>>

\* Mutant: the session does not read stop_ again after open().
CapCheck_Blind ==
  /\ cap.pc = "check"
  /\ Cap([cap EXCEPT !.pc = "read"])
  /\ UNCHANGED <<jpeg, frames>>

\* while (!stop_) around a read.
CapCheck ==
  /\ cap.pc = "check"
  /\ Cap([cap EXCEPT !.pc = IF cap.stop THEN "loop" ELSE "read"])
  /\ UNCHANGED <<jpeg, frames>>

\* read() returns early because its stop flag is up.
CapReadStopped ==
  /\ cap.pc = "read" /\ cap.devStop
  /\ Cap([cap EXCEPT !.pc = IF cap.stop THEN "loop" ELSE "failed"])
  /\ UNCHANGED <<jpeg, frames>>

\* read() returns a frame: it is stamped with the session and pushed, unless a
\* stop was requested meanwhile; a closed queue ends the session.
CapReadFrame ==
  /\ cap.pc = "read" /\ frames < MaxFrames
  /\ IF cap.stop
     THEN Cap([cap EXCEPT !.pc = "loop"]) /\ UNCHANGED <<jpeg, frames>>
     ELSE /\ frames' = frames + 1
          /\ Cap([cap EXCEPT !.pc = IF jpeg.closed THEN "loop" ELSE "check",
                             !.timeouts = 0])
          /\ jpeg' = IF jpeg.closed THEN jpeg
                     ELSE Push(jpeg, JpegCapacity,
                               [gen |-> cap.gen, id |-> frames', image |-> frames'])

\* read() times out: tolerated until max_timeouts_ in a row.
CapReadTimeout ==
  /\ cap.pc = "read"
  /\ LET missed == cap.timeouts + 1
     IN Cap(IF cap.stop THEN [cap EXCEPT !.pc = "loop"]
            ELSE IF missed < MaxTimeouts
                 THEN [cap EXCEPT !.pc = "check", !.timeouts = missed]
                 ELSE [cap EXCEPT !.pc = "failed"])
  /\ UNCHANGED <<jpeg, frames>>

CapReadError ==
  /\ cap.pc = "read"
  /\ Cap([cap EXCEPT !.pc = IF cap.stop THEN "loop" ELSE "failed"])
  /\ UNCHANGED <<jpeg, frames>>

\* Mutants: the handler closes the queue with the camera, or leaves the camera
\* open.
CapFailed_ClosesQueue ==
  /\ cap.pc = "failed"
  /\ Cap([cap EXCEPT !.pc = "loop", !.online = FALSE, !.devOpen = FALSE,
                     !.state = "degraded"])
  /\ jpeg' = Drain(jpeg)
  /\ UNCHANGED frames
CapFailed_LeavesOpen ==
  /\ cap.pc = "failed"
  /\ Cap([cap EXCEPT !.pc = "loop", !.online = FALSE, !.state = "degraded"])
  /\ UNCHANGED <<jpeg, frames>>

\* The exception handlers: close the camera, report degraded, wait and retry.
CapFailed ==
  /\ cap.pc = "failed"
  /\ Cap([cap EXCEPT !.pc = "loop", !.online = FALSE, !.devOpen = FALSE,
                     !.state = "degraded"])
  /\ UNCHANGED <<jpeg, frames>>

\* The worker ends: offline, camera closed, queue drained by its consumer.
CapEnd ==
  /\ cap.pc = "loop" /\ cap.stop
  /\ Cap([cap EXCEPT !.pc = "done", !.online = FALSE, !.devOpen = FALSE,
                     !.state = "stopped"])
  /\ jpeg' = Drain(jpeg)
  /\ UNCHANGED frames

CapRun == CapLoop \/ CapOpen \/ CapCheck \/ CapReadStopped \/ CapFailed \/ CapEnd
CapDevice == CapReadFrame \/ CapReadTimeout \/ CapReadError

-----------------------------------------------------------------------------
\* VideoProcessService::run

Dec(update) ==
  /\ dec' = update
  /\ UNCHANGED <<cap, str, ctl, frames, published>>

OnlyDec(update) == Dec(update) /\ UNCHANGED <<jpeg, raw, ai>>

\* close() of the decoder or the publisher: its stream state is gone.
Closed(service) == [service EXCEPT !.devOpen = FALSE, !.session = {}, !.late = 0]

\* The inner loop is left: close the device, wait unless stopped, start over.
Again(service) == [Closed(service) EXCEPT !.pc = "loop", !.cur = NoFrame]

Throw(service, reason) ==
  [service EXCEPT !.pc = "caught", !.error = reason, !.cur = NoFrame]

\* An exception handler: silent during a stop, degraded otherwise.
Caught(service) ==
  IF service.stop THEN [service EXCEPT !.pc = "loop"]
  ELSE [Again(service) EXCEPT !.state = "degraded"]

DecLoop ==
  /\ dec.pc = "loop" /\ ~dec.stop
  /\ OnlyDec([dec EXCEPT !.pc = "open"])

\* decoder_->open() forgets an earlier stop request.
DecOpen ==
  /\ dec.pc = "open"
  /\ \/ OnlyDec([Opened(dec) EXCEPT !.pc = "check",
                            !.error = "none", !.state = "running", !.gen = 0])
     \/ OnlyDec(Throw(OpenFails(dec), "device"))

\* Mutant: the decoder is kept across camera sessions.
DecPop_SameDecoder ==
  /\ dec.pc = "check"
  /\ IF dec.stop THEN OnlyDec(Again(dec))
     ELSE IF jpeg.items = <<>> THEN OnlyDec([dec EXCEPT !.pc = "nothing"])
     ELSE /\ Dec([dec EXCEPT !.cur = Head(jpeg.items), !.pc = "decode"])
          /\ jpeg' = [jpeg EXCEPT !.items = Tail(@)]
          /\ UNCHANGED <<raw, ai>>

\* while (!stop_), pop_for(20 ms): a frame of a new camera session goes through
\* a rebuild of the decoder first.
DecPop ==
  /\ dec.pc = "check"
  /\ IF dec.stop
     THEN OnlyDec(Again(dec))
     ELSE IF jpeg.items = <<>>
     THEN OnlyDec([dec EXCEPT !.pc = "nothing"])
     ELSE LET f == Head(jpeg.items)
          IN /\ Dec([dec EXCEPT !.cur = f,
                       !.pc = IF dec.gen \in {0, f.gen} THEN "decode" ELSE "session"])
             /\ jpeg' = [jpeg EXCEPT !.items = Tail(@)]
             /\ UNCHANGED <<raw, ai>>

\* Nothing popped and no stop seen: only then is closed() read.
DecNothing ==
  /\ dec.pc = "nothing"
  /\ OnlyDec(IF jpeg.closed THEN Throw(dec, "closed") ELSE [dec EXCEPT !.pc = "check"])

DecSession ==
  /\ dec.pc = "session"
  /\ OnlyDec(IF dec.stop THEN Again(dec) ELSE [Closed(dec) EXCEPT !.pc = "reopen"])

DecReopen ==
  /\ dec.pc = "reopen"
  /\ \/ OnlyDec(IF dec.stop THEN Again([dec EXCEPT !.devStop = TRUE])
               ELSE [Opened(dec) EXCEPT !.pc = "decode"])
     \/ OnlyDec(Throw(OpenFails(dec), "device"))

\* decode() of the frame in hand has fed the decoder.
Fed(service) == [service EXCEPT !.gen = service.cur.gen,
                                !.session = @ \cup {service.cur.gen}]

\* decode() returns a picture, the image a pipeline still owes (late) first.
\* The AI sink gets it, then the output queue.
DecPicture ==
  /\ dec.pc = "decode"
  /\ LET f == [dec.cur EXCEPT !.image = IF dec.late = 0 THEN @ ELSE dec.late]
         after == [Fed(dec) EXCEPT !.cur = NoFrame, !.pc = "check",
                                   !.late = IF @ = 0 THEN 0 ELSE dec.cur.id]
     IN IF dec.stop
        THEN OnlyDec(Again(after))
        ELSE /\ Dec(IF raw.closed THEN Again(after) ELSE after)
             /\ ai' = f
             /\ raw' = IF raw.closed THEN raw ELSE Push(raw, RawCapacity, f)
             /\ UNCHANGED jpeg

\* decode() gives up because its stop flag is up.
DecStopped ==
  /\ dec.pc = "decode" /\ dec.devStop
  /\ OnlyDec(IF dec.stop THEN Again(dec) ELSE Throw(dec, "device"))

DecFails ==
  /\ dec.pc = "decode"
  /\ OnlyDec(Throw(Fed(dec), "decode"))

\* Mutant: after a timeout the next frame goes into the same pipeline.
DecTimeout_TriesNext ==
  /\ dec.pc = "decode"
  /\ OnlyDec([Fed(dec) EXCEPT !.late = dec.cur.id, !.cur = NoFrame, !.pc = "check"])

\* The deadline passes; the picture may still come out of the pipeline.
DecTimeout ==
  /\ dec.pc = "decode"
  /\ OnlyDec(Throw([Fed(dec) EXCEPT !.late = dec.cur.id], "decode"))

DecCaught ==
  /\ dec.pc = "caught"
  /\ OnlyDec(Caught(dec))

DecEnd ==
  /\ dec.pc = "loop" /\ dec.stop
  /\ Dec([Closed(dec) EXCEPT !.pc = "done", !.state = "stopped"])
  /\ raw' = Drain(raw)
  /\ UNCHANGED <<jpeg, ai>>

DecRun == DecLoop \/ DecOpen \/ DecPop \/ DecNothing \/ DecSession \/ DecReopen
          \/ DecPicture \/ DecStopped \/ DecFails \/ DecTimeout
          \/ DecCaught \/ DecEnd

\* The inference service empties the AI queue when it gets to it.
AiTakes ==
  /\ ai # NoFrame
  /\ ai' = NoFrame
  /\ UNCHANGED <<cap, dec, str, jpeg, raw, ctl, frames, published>>

-----------------------------------------------------------------------------
\* VideoStreamService::run

Str(update) ==
  /\ str' = update
  /\ UNCHANGED <<cap, dec, jpeg, ai, ctl, frames>>

OnlyStr(update) == Str(update) /\ UNCHANGED <<raw, published>>

StrLoop ==
  /\ str.pc = "loop" /\ ~str.stop
  /\ OnlyStr([str EXCEPT !.pc = "open"])

StrOpen ==
  /\ str.pc = "open"
  /\ \/ OnlyStr([Opened(str) EXCEPT !.pc = "check",
                            !.error = "none", !.state = "running", !.gen = 0])
     \/ OnlyStr(Throw(OpenFails(str), "device"))

StrPop ==
  /\ str.pc = "check"
  /\ IF str.stop
     THEN OnlyStr(Again(str))
     ELSE IF raw.items = <<>>
     THEN OnlyStr([str EXCEPT !.pc = "nothing"])
     ELSE LET f == Head(raw.items)
          IN /\ Str([str EXCEPT !.cur = f,
                       !.pc = IF str.gen \in {0, f.gen} THEN "write" ELSE "session"])
             /\ raw' = [raw EXCEPT !.items = Tail(@)]
             /\ UNCHANGED published

StrNothing ==
  /\ str.pc = "nothing"
  /\ OnlyStr(IF raw.closed THEN Throw(str, "closed") ELSE [str EXCEPT !.pc = "check"])

\* A new camera session: a new encoder and RTSP timeline before the frame.
StrSession ==
  /\ str.pc = "session"
  /\ OnlyStr(IF str.stop THEN Again(str) ELSE [Closed(str) EXCEPT !.pc = "reopen"])

StrReopen ==
  /\ str.pc = "reopen"
  /\ \/ OnlyStr(IF str.stop THEN Again([str EXCEPT !.devStop = TRUE])
               ELSE [Opened(str) EXCEPT !.pc = "write"])
     \/ OnlyStr(Throw(OpenFails(str), "device"))

\* write() never blocks; it does nothing once its stop flag is up.
StrWrite ==
  /\ str.pc = "write"
  /\ IF str.devStop
     THEN OnlyStr([str EXCEPT !.pc = "check", !.gen = str.cur.gen, !.cur = NoFrame])
     ELSE /\ Str([Fed(str) EXCEPT !.pc = "check", !.cur = NoFrame])
          /\ published' = str.cur.id
          /\ UNCHANGED raw

\* Mutant: the frame that could not be written is put back.
StrFails_Requeues ==
  /\ str.pc = "write"
  /\ ~str.devStop
  /\ Str(Throw(Fed(str), "device"))
  /\ raw' = Push(raw, RawCapacity, str.cur)
  /\ UNCHANGED published

StrFails ==
  /\ str.pc = "write"
  /\ ~str.devStop
  /\ OnlyStr(Throw(Fed(str), "device"))

StrCaught ==
  /\ str.pc = "caught"
  /\ OnlyStr(Caught(str))

StrEnd ==
  /\ str.pc = "loop" /\ str.stop
  /\ OnlyStr([Closed(str) EXCEPT !.pc = "done", !.state = "stopped"])

StrRun == StrLoop \/ StrOpen \/ StrPop \/ StrNothing \/ StrSession \/ StrReopen
          \/ StrWrite \/ StrFails \/ StrCaught \/ StrEnd

-----------------------------------------------------------------------------
\* The control thread: start in order; the start that fails is stopped first.

Rollback == ctl' = [ctl EXCEPT !.phase = "requesting", !.step = 1]

StartAt(service, next) ==
  /\ ctl.phase = "starting" /\ ctl.at = service
  /\ ctl' = next

StartFailsAt(service) ==
  ctl.phase = "starting" /\ ctl.at = service /\ Rollback

\* start() makes a fresh queue; the camera's own stop flag is left as it is.
CapStart ==
  /\ StartAt("capture", [ctl EXCEPT !.at = "decode"])
  /\ cap' = [cap EXCEPT !.pc = "loop", !.state = "running", !.stop = FALSE,
                        !.online = FALSE, !.gen = 0, !.timeouts = 0]
  /\ jpeg' = EmptyQueue
  /\ UNCHANGED <<dec, str, raw, ai, frames, published>>

CapStartFails ==
  /\ StartFailsAt("capture")
  /\ cap' = [cap EXCEPT !.state = "failed", !.stop = FALSE, !.online = FALSE]
  /\ jpeg' = Discard(jpeg)
  /\ UNCHANGED <<dec, str, raw, ai, frames, published>>

DecStart ==
  /\ StartAt("decode", [ctl EXCEPT !.at = "stream"])
  /\ ~jpeg.closed
  /\ dec' = [dec EXCEPT !.pc = "loop", !.state = "running", !.stop = FALSE,
                        !.error = "none"]
  /\ raw' = EmptyQueue
  /\ UNCHANGED <<cap, str, jpeg, ai, frames, published>>

\* start() catches, closes the decoder, reports the fault and returns false.
DecStartFails ==
  /\ StartFailsAt("decode")
  /\ dec' = [Closed(dec) EXCEPT !.state = "failed", !.stop = FALSE]
  /\ raw' = Discard(raw)
  /\ UNCHANGED <<cap, str, jpeg, ai, frames, published>>

StrStart ==
  /\ StartAt("stream", [ctl EXCEPT !.phase = "running"])
  /\ ~raw.closed
  /\ str' = [str EXCEPT !.pc = "loop", !.state = "running", !.stop = FALSE,
                        !.error = "none"]
  /\ UNCHANGED <<cap, dec, jpeg, raw, ai, frames, published>>

StrStartFails ==
  /\ StartFailsAt("stream")
  /\ str' = [str EXCEPT !.state = "failed", !.stop = FALSE]
  /\ UNCHANGED <<cap, dec, jpeg, raw, ai, frames, published>>

Start == CapStart \/ CapStartFails \/ DecStart \/ DecStartFails
         \/ StrStart \/ StrStartFails

-----------------------------------------------------------------------------
\* The control thread: two-phase stop

StopRequested ==
  /\ ctl.phase = "running"
  /\ Rollback
  /\ UNCHANGED <<cap, dec, str, jpeg, raw, ai, frames, published>>

\* request_stop, first statement: stop_ (capture goes offline with it).
AskFlag ==
  /\ ctl.phase = "requesting" /\ ctl.step = 1
  /\ ctl' = [ctl EXCEPT !.step = 2]
  /\ \/ ctl.at = "stream"  /\ str' = [str EXCEPT !.stop = TRUE] /\ UNCHANGED <<cap, dec>>
     \/ ctl.at = "decode"  /\ dec' = [dec EXCEPT !.stop = TRUE] /\ UNCHANGED <<cap, str>>
     \/ ctl.at = "capture" /\ cap' = [cap EXCEPT !.stop = TRUE, !.online = FALSE]
                           /\ UNCHANGED <<dec, str>>
  /\ UNCHANGED <<jpeg, raw, ai, frames, published>>

\* running becomes stopping, and the device is asked to stop.
Asked(service) ==
  [service EXCEPT !.devStop = TRUE, !.state = IF @ = "running" THEN "stopping" ELSE @]

AskDevice ==
  /\ ctl.phase = "requesting" /\ ctl.step = 2
  /\ ctl' = [ctl EXCEPT !.step = 3]
  /\ \/ ctl.at = "stream"  /\ str' = Asked(str) /\ UNCHANGED <<cap, dec>>
     \/ ctl.at = "decode"  /\ dec' = Asked(dec) /\ UNCHANGED <<cap, str>>
     \/ ctl.at = "capture" /\ cap' = Asked(cap) /\ UNCHANGED <<dec, str>>
  /\ UNCHANGED <<jpeg, raw, ai, frames, published>>

\* The service's own output queue is closed; then the next service is asked, or
\* the joins begin with the last service again.
AskQueue ==
  /\ ctl.phase = "requesting" /\ ctl.step = 3
  /\ \/ ctl.at = "stream"  /\ ctl' = [ctl EXCEPT !.at = "decode", !.step = 1]
                           /\ UNCHANGED <<jpeg, raw>>
     \/ ctl.at = "decode"  /\ ctl' = [ctl EXCEPT !.at = "capture", !.step = 1]
                           /\ raw' = Discard(raw) /\ UNCHANGED jpeg
     \/ ctl.at = "capture" /\ ctl' = [ctl EXCEPT !.phase = "joining", !.at = "stream"]
                           /\ jpeg' = Discard(jpeg) /\ UNCHANGED raw
  /\ UNCHANGED <<cap, dec, str, ai, frames, published>>

\* join: the worker has ended or never existed; then the device is closed.
Joined(service) ==
  [service EXCEPT !.pc = "none", !.devOpen = FALSE,
                  !.state = IF @ = "failed" THEN @ ELSE "stopped"]
Ended(service) == service.pc \in {"none", "done"}

JoinStream ==
  /\ ctl.phase = "joining" /\ ctl.at = "stream" /\ Ended(str)
  /\ str' = Joined(str)
  /\ ctl' = [ctl EXCEPT !.at = "decode"]
  /\ UNCHANGED <<cap, dec, jpeg, raw, ai, frames, published>>

JoinDecode ==
  /\ ctl.phase = "joining" /\ ctl.at = "decode" /\ Ended(dec)
  /\ dec' = Joined(dec)
  /\ ctl' = [ctl EXCEPT !.at = "capture"]
  /\ UNCHANGED <<cap, str, jpeg, raw, ai, frames, published>>

JoinCapture ==
  /\ ctl.phase = "joining" /\ ctl.at = "capture" /\ Ended(cap)
  /\ cap' = Joined(cap)
  /\ ctl' = [ctl EXCEPT !.phase = "stopped"]
  /\ UNCHANGED <<dec, str, jpeg, raw, ai, frames, published>>

Restart ==
  /\ ctl.phase = "stopped" /\ ctl.runs < MaxRuns
  /\ ctl' = [ctl EXCEPT !.phase = "starting", !.step = 1, !.runs = @ + 1]
  /\ UNCHANGED <<cap, dec, str, jpeg, raw, ai, frames, published>>

Stop == AskFlag \/ AskDevice \/ AskQueue \/ JoinStream \/ JoinDecode \/ JoinCapture

Stopped == ctl.phase = "stopped" /\ ctl.runs = MaxRuns /\ UNCHANGED vars

-----------------------------------------------------------------------------
Next ==
  \/ CapRun \/ CapDevice \/ DecRun \/ StrRun \/ AiTakes
  \/ Start \/ StopRequested \/ Stop \/ Restart
  \/ Stopped

\* Workers and the control thread are scheduled, and device calls return:
\* open, decode (it has a deadline) and write always, read only because of its
\* stop flag, so that nothing below leans on the camera's poll timeout.
Fairness ==
  /\ WF_vars(CapRun) /\ WF_vars(DecRun) /\ WF_vars(StrRun)
  /\ WF_vars(Start) /\ WF_vars(Stop)

Spec == Init /\ [][Next]_vars /\ Fairness

-----------------------------------------------------------------------------
States == {"stopped", "running", "degraded", "stopping", "failed"}
Frame == [gen : 0..MaxSessions, id : 0..MaxFrames, image : 0..MaxFrames]
Queue == [items : Seq(Frame), closed : BOOLEAN]

TypeOK ==
  /\ cap.state \in States /\ dec.state \in States /\ str.state \in States
  /\ cap.gen \in 0..MaxSessions /\ cap.timeouts \in 0..(MaxTimeouts - 1)
  /\ dec.cur \in Frame /\ str.cur \in Frame /\ ai \in Frame
  /\ jpeg \in Queue /\ Len(jpeg.items) <= JpegCapacity
  /\ raw \in Queue /\ Len(raw.items) <= RawCapacity
  /\ frames \in 0..MaxFrames /\ published \in 0..MaxFrames

\* A decoder or encoder instance never sees frames of two camera sessions:
\* its stream state, reference frames and RTSP timeline belong to one session.
SessionsArePure ==
  \A service \in {dec, str} : \A g, h \in service.session : g = h

\* A decoded picture always carries the metadata of the JPEG it was made from,
\* also when an earlier JPEG timed out and its output arrives late.
PixelsMatchMetadata ==
  \A f \in {raw.items[i] : i \in DOMAIN raw.items} \cup {ai, str.cur} :
    f.image = f.id

\* open() is only called on a closed device: the "already open" errors of the
\* camera, the decoder and the publisher never occur.
NeverOpenedTwice ==
  /\ cap.pc = "open" => ~cap.devOpen
  /\ dec.pc \in {"open", "reopen"} => ~dec.devOpen
  /\ str.pc \in {"open", "reopen"} => ~str.devOpen

\* No service fails because of another one.  Unplugging the camera closes no
\* queue while the system runs and ends no worker that was not asked to stop; and
\* the orderly stop and the rollback of a failed start raise no false alarm: no
\* service degrades because its neighbour closed the queue between them.
NoServiceFailsForAnother ==
  /\ ctl.phase = "running" => ~jpeg.closed /\ ~raw.closed
  /\ \A service \in {cap, dec, str} : service.pc = "done" => service.stop
  /\ \A service \in {dec, str} : service.state = "degraded" => service.error # "closed"

\* The status the MQTT service reads is false once the capture worker ended,
\* whichever of request_stop and a camera just opened wrote it last.
OfflineOnceStopped == cap.pc \in {"none", "done"} => ~cap.online

\* Viewers get frames in capture order and no frame twice, across sessions,
\* dropped frames, retries and restarts.
FramesStayInOrder == [][StrWrite /\ ~str.devStop => published' > published]_vars

\* Once asked, the whole pipeline stops: no stop request is lost to an open()
\* that clears the device's stop flag at the same moment.
StopIsNeverLost == ctl.phase = "requesting" ~> ctl.phase = "stopped"
=============================================================================
