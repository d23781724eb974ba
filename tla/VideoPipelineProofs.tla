------------------------ MODULE VideoPipelineProofs ------------------------
(***************************************************************************)
(* Theorems about VideoPipeline.                                           *)
(*                                                                         *)
(* The inductive invariant PipelineOK has four layers: the types; what the *)
(* control thread knows of its services in each phase (ControlOK); what    *)
(* holds inside a service between the calls on its device (CaptureOK and   *)
(* ServiceOK); and the frames on their way, which are whole and in order   *)
(* from the camera to the publisher (FramesOK, OrderOK).                   *)
(***************************************************************************)
EXTENDS VideoPipeline, TLAPS

CapPlaces == {"none", "loop", "open", "check", "read", "failed", "done"}
Places == {"none", "loop", "open", "check", "nothing", "session", "reopen",
           "decode", "write", "caught", "done"}

Capture == [pc : CapPlaces, state : States, stop : BOOLEAN, online : BOOLEAN,
            gen : 0..MaxSessions, timeouts : 0..(MaxTimeouts - 1),
            devStop : BOOLEAN, devOpen : BOOLEAN]
Service == [pc : Places, state : States, stop : BOOLEAN,
            error : {"none", "device", "decode", "closed"},
            gen : 0..MaxSessions, cur : Frame, devStop : BOOLEAN, devOpen : BOOLEAN,
            session : SUBSET (0..MaxSessions), late : 0..MaxFrames]
Control == [phase : {"starting", "running", "requesting", "joining", "stopped"},
            at : {"capture", "decode", "stream"}, step : 1..3, runs : Nat]

Typed ==
  /\ cap \in Capture /\ dec \in Service /\ str \in Service
  /\ jpeg \in Queue /\ Len(jpeg.items) <= JpegCapacity
  /\ raw \in Queue /\ Len(raw.items) <= RawCapacity
  /\ ai \in Frame /\ ctl \in Control
  /\ frames \in 0..MaxFrames /\ published \in 0..MaxFrames

-----------------------------------------------------------------------------
\* What the control thread knows.

Gone(service)  == service.pc = "none"
WillEnd(service) == service.stop \/ Gone(service)
Works(service) == ~Gone(service) /\ ~service.stop

\* Services are started from the capture on; who is not started has no worker.
StartOK ==
  /\ ctl.phase = "starting" =>
       /\ Gone(str)
       /\ ctl.at = "capture" => Gone(cap) /\ Gone(dec)
       /\ ctl.at = "decode" => Works(cap) /\ Gone(dec)
       /\ ctl.at = "stream" => Works(cap) /\ Works(dec)
  /\ ctl.phase = "running" => Works(cap) /\ Works(dec) /\ Works(str) /\ ctl.at = "stream"

\* They are asked, and joined, from the stream service on.
StopOK ==
  /\ ctl.phase = "requesting" =>
       /\ ctl.at \in {"decode", "capture"} => WillEnd(str)
       /\ ctl.at = "capture" => WillEnd(dec)
       /\ ctl.step > 1 => /\ ctl.at = "stream" => str.stop
                          /\ ctl.at = "decode" => dec.stop
                          /\ ctl.at = "capture" => cap.stop
  /\ ctl.phase = "joining" =>
       /\ WillEnd(cap) /\ WillEnd(dec) /\ WillEnd(str)
       /\ ctl.at \in {"decode", "capture"} => Gone(str)
       /\ ctl.at = "capture" => Gone(dec)
  /\ ctl.phase = "stopped" => Gone(cap) /\ Gone(dec) /\ Gone(str) /\ ctl.at = "capture"

\* A worker is only asked after those behind it, and a queue is only closed
\* between two services that were asked.
AskedInOrder ==
  /\ cap.stop /\ ~Gone(cap) => WillEnd(dec)
  /\ dec.stop /\ ~Gone(dec) => WillEnd(str)
  /\ jpeg.closed => WillEnd(cap) /\ WillEnd(dec)
  /\ raw.closed => WillEnd(dec) /\ WillEnd(str)

ControlOK == StartOK /\ StopOK /\ AskedInOrder

-----------------------------------------------------------------------------
\* What holds inside a service.

CaptureOK ==
  /\ cap.pc \in {"none", "open", "done"} => ~cap.devOpen
  /\ cap.pc = "loop" /\ ~cap.stop => ~cap.devOpen
  /\ cap.pc \in {"none", "done"} => ~cap.online
  /\ cap.pc \in {"check", "read"} => cap.gen > 0
  /\ cap.pc = "done" => cap.stop

\* A frame on its way.
Real(f) == f.gen > 0 /\ f.id > 0 /\ f.image = f.id

Fresh(service) == ~service.devOpen /\ service.session = {} /\ service.late = 0

InSession(service) ==
  service.pc \in {"check", "nothing", "session", "reopen", "decode", "write"}

ServiceOK(service) ==
  /\ service.pc \in {"none", "open", "reopen", "done"} => Fresh(service)
  /\ service.pc = "loop" /\ ~service.stop => Fresh(service)
  /\ service.late # 0 => service.pc \in {"caught", "loop"}
  /\ service.session \subseteq {service.gen}
  /\ service.session # {} => service.gen > 0
  /\ service.pc \in {"session", "reopen", "decode", "write"} => Real(service.cur)
  /\ service.pc \in {"decode", "write"} => service.session \subseteq {service.cur.gen}
  /\ service.pc = "done" => service.stop
  /\ service.error = "closed" => WillEnd(service) /\ service.state # "degraded"
  /\ InSession(service) => service.state \in {"running", "stopping"}

-----------------------------------------------------------------------------
\* The frames on their way.

ItemsOf(q) == {q.items[i] : i \in DOMAIN q.items}

FramesOK ==
  /\ \A f \in ItemsOf(jpeg) \cup ItemsOf(raw) : Real(f)
  /\ \A f \in {dec.cur, str.cur, ai} : f = NoFrame \/ Real(f)

Sorted(q) == \A i, j \in DOMAIN q.items : i < j => q.items[i].id < q.items[j].id

\* id is before everything in q, or before the frame f if there is one.
BeforeAll(id, q) == \A f \in ItemsOf(q) : id < f.id
BeforeEach(q, id) == \A f \in ItemsOf(q) : f.id < id
Before(id, f)    == f # NoFrame => id < f.id

OrderOK ==
  /\ Sorted(jpeg) /\ Sorted(raw)
  /\ Before(published, str.cur) /\ BeforeAll(published, raw)
  /\ Before(published, dec.cur) /\ BeforeAll(published, jpeg)
  /\ BeforeAll(str.cur.id, raw) /\ Before(str.cur.id, dec.cur) /\ BeforeAll(str.cur.id, jpeg)
  /\ \A f \in ItemsOf(raw) : Before(f.id, dec.cur) /\ BeforeAll(f.id, jpeg)
  /\ BeforeAll(dec.cur.id, jpeg)
  /\ \A f \in ItemsOf(jpeg) \cup ItemsOf(raw) \cup {dec.cur, str.cur} : f.id <= frames
  /\ published <= frames

PipelineOK ==
  /\ Typed /\ ControlOK
  /\ CaptureOK /\ ServiceOK(dec) /\ ServiceOK(str)
  /\ FramesOK /\ OrderOK

-----------------------------------------------------------------------------
\* Queues.

\* Push keeps the queue within its capacity, adds nothing but the frame and keeps
\* the order if the frame is newer than what is there.
LEMMA PushProperties ==
  ASSUME NEW q \in Queue, NEW capacity \in Nat \ {0}, NEW f \in Frame,
         Len(q.items) <= capacity
  PROVE  /\ Push(q, capacity, f) \in Queue
         /\ Len(Push(q, capacity, f).items) <= capacity
         /\ Push(q, capacity, f).closed = q.closed
         /\ ItemsOf(Push(q, capacity, f)) \subseteq ItemsOf(q) \cup {f}
         /\ Sorted(q) /\ BeforeEach(q, f.id) => Sorted(Push(q, capacity, f))
<1> DEFINE kept == IF Len(q.items) = capacity THEN Tail(q.items) ELSE q.items
           p == Push(q, capacity, f)
<1>1. p.items = Append(kept, f) /\ p.closed = q.closed
  <2>1. CASE Len(q.items) = capacity
    BY <2>1 DEF Push, Queue
  <2>2. CASE Len(q.items) # capacity
    BY <2>2 DEF Push, Queue
  <2>3. QED  BY <2>1, <2>2
<1>2. q.items \in Seq(Frame) /\ q.closed \in BOOLEAN
  BY DEF Queue
<1>3. kept \in Seq(Frame) /\ Len(kept) < capacity /\ Len(kept) \in Nat
  BY <1>2
<1>4. \A i \in 1..Len(kept) : \E k \in 0..1 :
        i + k \in 1..Len(q.items) /\ kept[i] = q.items[i + k]
  <2>1. CASE Len(q.items) = capacity
    BY <1>2, <2>1
  <2>2. CASE Len(q.items) # capacity
    BY <1>2, <2>2
  <2>3. QED  BY <2>1, <2>2
<1>5. \A i, j \in 1..Len(kept) : i < j => \E a, b \in 1..Len(q.items) :
        a < b /\ kept[i] = q.items[a] /\ kept[j] = q.items[b]
  <2>1. CASE Len(q.items) = capacity
    BY <1>2, <2>1
  <2>2. CASE Len(q.items) # capacity
    BY <1>2, <2>2
  <2>3. QED  BY <2>1, <2>2
<1>6. /\ Append(kept, f) \in Seq(Frame)
      /\ Len(Append(kept, f)) = Len(kept) + 1
      /\ DOMAIN Append(kept, f) = 1..(Len(kept) + 1)
      /\ \A i \in 1..Len(kept) : Append(kept, f)[i] = kept[i]
      /\ Append(kept, f)[Len(kept) + 1] = f
  BY <1>3
<1>7. DOMAIN q.items = 1..Len(q.items)
  BY <1>2
<1> HIDE DEF kept, p
<1>8. p \in Queue /\ Len(p.items) <= capacity
  <2>1. [q EXCEPT !.items = Append(kept, f)] \in Queue
    BY <1>2, <1>6 DEF Queue
  <2>2. p = [q EXCEPT !.items = Append(kept, f)]
    <3>1. CASE Len(q.items) = capacity
      BY <3>1 DEF Push, Queue, p, kept
    <3>2. CASE Len(q.items) # capacity
      BY <3>2 DEF Push, Queue, p, kept
    <3>3. QED  BY <3>1, <3>2
  <2>3. QED  BY <1>1, <1>3, <1>6, <2>1, <2>2
<1>9. ItemsOf(p) \subseteq ItemsOf(q) \cup {f}
  BY <1>1, <1>3, <1>4, <1>6, <1>7 DEF ItemsOf
<1>10. ASSUME Sorted(q), BeforeEach(q, f.id) PROVE Sorted(p)
  <2> SUFFICES ASSUME NEW i \in 1..(Len(kept) + 1), NEW j \in 1..(Len(kept) + 1), i < j
               PROVE  p.items[i].id < p.items[j].id
    BY <1>1, <1>6 DEF Sorted
  <2>1. CASE j = Len(kept) + 1
    <3>1. p.items[j] = f /\ i \in 1..Len(kept) /\ p.items[i] = kept[i]
      BY <1>1, <1>3, <1>6, <2>1
    <3>2. kept[i] \in ItemsOf(q)
      BY <1>4, <1>7, <3>1 DEF ItemsOf
    <3>3. QED  BY <1>10, <3>1, <3>2 DEF BeforeEach
  <2>2. CASE j # Len(kept) + 1
    <3>1. i \in 1..Len(kept) /\ j \in 1..Len(kept)
      BY <1>3, <2>2
    <3>2. PICK a, b \in 1..Len(q.items) : a < b /\ kept[i] = q.items[a] /\ kept[j] = q.items[b]
      BY <1>5, <3>1
    <3>3. q.items[a].id < q.items[b].id
      BY <1>7, <1>10, <3>2 DEF Sorted
    <3>4. QED  BY <1>1, <1>6, <3>1, <3>2, <3>3
  <2>3. QED  BY <2>1, <2>2
<1>11. QED  BY <1>1, <1>8, <1>9, <1>10 DEF p

\* What a consumer leaves behind is all newer than what it takes.
Rest(q) == [q EXCEPT !.items = Tail(@)]

LEMMA RestProperties ==
  ASSUME NEW q \in Queue, q.items # <<>>
  PROVE  /\ Rest(q) \in Queue /\ Rest(q).closed = q.closed
         /\ Len(Rest(q).items) <= Len(q.items)
         /\ Head(q.items) \in ItemsOf(q) /\ Head(q.items) \in Frame
         /\ ItemsOf(Rest(q)) \subseteq ItemsOf(q)
         /\ Sorted(q) => Sorted(Rest(q)) /\ BeforeAll(Head(q.items).id, Rest(q))
<1>1. q.items \in Seq(Frame) /\ q.closed \in BOOLEAN /\ Len(q.items) \in Nat \ {0}
  BY DEF Queue
<1>2. Rest(q).items = Tail(q.items) /\ Rest(q).closed = q.closed /\ Rest(q) \in Queue
  BY <1>1 DEF Queue, Rest
<1>3. /\ DOMAIN q.items = 1..Len(q.items)
      /\ DOMAIN Tail(q.items) = 1..(Len(q.items) - 1)
      /\ Len(Tail(q.items)) = Len(q.items) - 1
      /\ \A i \in 1..(Len(q.items) - 1) : Tail(q.items)[i] = q.items[i + 1]
      /\ Head(q.items) = q.items[1] /\ q.items[1] \in Frame
  BY <1>1
<1>4. ItemsOf(Rest(q)) \subseteq ItemsOf(q) /\ Head(q.items) \in ItemsOf(q)
  BY <1>1, <1>2, <1>3 DEF ItemsOf
<1>5. ASSUME Sorted(q) PROVE Sorted(Rest(q))
  <2> SUFFICES ASSUME NEW i \in 1..(Len(q.items) - 1), NEW j \in 1..(Len(q.items) - 1), i < j
               PROVE  Rest(q).items[i].id < Rest(q).items[j].id
    BY <1>2, <1>3 DEF Sorted
  <2>1. i + 1 \in DOMAIN q.items /\ j + 1 \in DOMAIN q.items /\ i + 1 < j + 1
    BY <1>1, <1>3
  <2>2. q.items[i + 1].id < q.items[j + 1].id
    BY <1>5, <2>1 DEF Sorted
  <2>3. QED  BY <1>2, <1>3, <2>2
<1>6. ASSUME Sorted(q) PROVE BeforeAll(Head(q.items).id, Rest(q))
  <2> SUFFICES ASSUME NEW i \in 1..(Len(q.items) - 1)
               PROVE  Head(q.items).id < Rest(q).items[i].id
    BY <1>2, <1>3 DEF BeforeAll, ItemsOf
  <2>1. 1 \in DOMAIN q.items /\ i + 1 \in DOMAIN q.items /\ 1 < i + 1
    BY <1>1, <1>3
  <2>2. q.items[1].id < q.items[i + 1].id
    BY <1>6, <2>1 DEF Sorted
  <2>3. QED  BY <1>2, <1>3, <2>2
<1>7. QED  BY <1>1, <1>2, <1>3, <1>4, <1>5, <1>6

-----------------------------------------------------------------------------
\* What a step of a worker does, to its service and to the frames.

GoesOn(service, next) ==
  ~Gone(service) /\ ~Gone(next) /\ next.stop = service.stop

Captured == [gen |-> cap.gen, id |-> frames + 1, image |-> frames + 1]

\* The capture delivers a frame, or closes its queue at its end, or neither.
Captures ==
  \/ UNCHANGED <<jpeg, frames>>
  \/ /\ frames < MaxFrames /\ frames' = frames + 1 /\ cap.gen > 0
     /\ jpeg' = Push(jpeg, JpegCapacity, Captured)
  \/ cap.stop /\ jpeg' = Drain(jpeg) /\ UNCHANGED frames

LEMMA CaptureMoves ==
  ASSUME PipelineOK, CapRun \/ CapDevice
  PROVE  /\ cap' \in Capture /\ CaptureOK' /\ GoesOn(cap, cap')
         /\ Captures
         /\ UNCHANGED <<dec, str, raw, ai, ctl, published>>
<1>1. cap \in Capture /\ frames \in 0..MaxFrames /\ CaptureOK
  BY DEF PipelineOK, Typed
<1>2. ~cap.stop /\ ~Gone(cap) => ~jpeg.closed
  BY DEF PipelineOK, ControlOK, AskedInOrder, WillEnd
<1> USE <1>1, PipelineAssumption
        DEF Cap, Capture, CapPlaces, States, CaptureOK, GoesOn, Gone, Captures
<1>3. CASE CapLoop
  BY <1>3 DEF CapLoop
<1>4. CASE CapOpen
  <2>1. CASE cap' = [OpenFails(cap) EXCEPT !.pc = "failed"]
    BY <1>4, <2>1 DEF CapOpen, OpenFails
  <2>2. CASE /\ cap.gen < MaxSessions
             /\ cap' = [cap EXCEPT !.pc = "check", !.gen = @ + 1, !.online = TRUE,
                                   !.state = "running", !.timeouts = 0,
                                   !.devOpen = TRUE, !.devStop = FALSE]
    <3>1. cap.gen + 1 \in 0..MaxSessions /\ cap.gen + 1 > 0 /\ 0 \in 0..(MaxTimeouts - 1)
      BY <2>2
    <3>2. cap' \in Capture
      BY <2>2, <3>1
    <3>3. cap'.pc = "check" /\ cap'.stop = cap.stop /\ cap'.gen > 0
      BY <2>2, <3>1
    <3>4. QED  BY <1>4, <3>2, <3>3 DEF CapOpen
  <2>3. QED  BY <1>4, <2>1, <2>2 DEF CapOpen, Opened
<1>5. CASE CapCheck
  BY <1>5 DEF CapCheck
<1>6. CASE CapReadStopped
  BY <1>6 DEF CapReadStopped
<1>7. CASE CapFailed
  BY <1>7 DEF CapFailed
<1>8. CASE CapEnd
  BY <1>8 DEF CapEnd
<1>9. CASE CapReadFrame
  <2>1. CASE cap.stop
    BY <1>9, <2>1 DEF CapReadFrame
  <2>2. CASE ~cap.stop
    <3>1. ~jpeg.closed
      BY <1>2, <1>9, <2>2 DEF CapReadFrame
    <3>2. /\ cap' = [cap EXCEPT !.pc = "check", !.timeouts = 0]
          /\ jpeg' = Push(jpeg, JpegCapacity, Captured)
          /\ frames' = frames + 1
      BY <1>9, <2>2, <3>1 DEF CapReadFrame, Captured
    <3>3. cap' \in Capture /\ cap'.pc = "check" /\ cap'.stop = cap.stop /\ cap'.gen = cap.gen
      <4>1. 0 \in 0..(MaxTimeouts - 1)
        OBVIOUS
      <4>2. QED  BY <3>2, <4>1
    <3>4. frames < MaxFrames /\ cap.pc = "read" /\ UNCHANGED <<dec, str, raw, ai, ctl, published>>
      BY <1>9, <2>2 DEF CapReadFrame
    <3>5. Captures
      BY <3>2, <3>4
    <3>6. QED  BY <2>2, <3>3, <3>4, <3>5
  <2>3. QED  BY <2>1, <2>2
<1>10. CASE CapReadTimeout
  <2>1. CASE cap.timeouts + 1 < MaxTimeouts /\ ~cap.stop
    <3>1. cap' = [cap EXCEPT !.pc = "check", !.timeouts = cap.timeouts + 1]
      BY <1>10, <2>1 DEF CapReadTimeout
    <3>2. cap.timeouts + 1 \in 0..(MaxTimeouts - 1)
      BY <2>1
    <3>3. cap' \in Capture /\ cap'.pc = "check" /\ cap'.stop = cap.stop /\ cap'.gen = cap.gen
      BY <3>1, <3>2
    <3>4. QED  BY <1>10, <3>3 DEF CapReadTimeout
  <2>2. CASE ~(cap.timeouts + 1 < MaxTimeouts) \/ cap.stop
    <3>1. cap' = [cap EXCEPT !.pc = IF cap.stop THEN "loop" ELSE "failed"]
      BY <1>10, <2>2 DEF CapReadTimeout
    <3>2. QED  BY <1>10, <3>1 DEF CapReadTimeout
  <2>3. QED  BY <2>1, <2>2
<1>11. CASE CapReadError
  BY <1>11 DEF CapReadError
<1>12. QED
  BY <1>3, <1>4, <1>5, <1>6, <1>7, <1>8, <1>9, <1>10, <1>11 DEF CapRun, CapDevice

\* The transformations the workers of decode and stream are built from.
LEMMA ClosedProperties ==
  ASSUME NEW s \in Service
  PROVE  /\ Closed(s) \in Service /\ Fresh(Closed(s))
         /\ Closed(s).pc = s.pc /\ Closed(s).stop = s.stop /\ Closed(s).error = s.error
         /\ Closed(s).state = s.state /\ Closed(s).cur = s.cur /\ Closed(s).gen = s.gen
<1>1. 0 \in 0..MaxFrames /\ {} \in SUBSET (0..MaxSessions)
  BY PipelineAssumption
<1>2. QED  BY <1>1 DEF Service, Closed, Fresh

LEMMA AgainProperties ==
  ASSUME NEW s \in Service
  PROVE  /\ Again(s) \in Service /\ Fresh(Again(s))
         /\ Again(s).pc = "loop" /\ Again(s).stop = s.stop /\ Again(s).error = s.error
         /\ Again(s).state = s.state /\ Again(s).cur = NoFrame /\ Again(s).gen = s.gen
<1>1. Closed(s) \in Service /\ NoFrame \in Frame /\ "loop" \in Places
  BY PipelineAssumption, ClosedProperties DEF NoFrame, Frame, Places
<1>2. QED  BY <1>1, ClosedProperties DEF Again, Service, Fresh

LEMMA ThrowProperties ==
  ASSUME NEW s \in Service, NEW reason \in {"device", "decode", "closed"}
  PROVE  /\ Throw(s, reason) \in Service
         /\ Throw(s, reason).pc = "caught" /\ Throw(s, reason).error = reason
         /\ Throw(s, reason).cur = NoFrame
         /\ Throw(s, reason).stop = s.stop /\ Throw(s, reason).state = s.state
         /\ Throw(s, reason).gen = s.gen /\ Throw(s, reason).session = s.session
         /\ Throw(s, reason).late = s.late
<1>1. NoFrame \in Frame
  BY PipelineAssumption DEF NoFrame, Frame
<1>2. QED  BY <1>1 DEF Throw, Service, Places

LEMMA FedProperties ==
  ASSUME NEW s \in Service, s.session \subseteq {s.cur.gen}
  PROVE  /\ Fed(s) \in Service
         /\ Fed(s).gen = s.cur.gen /\ Fed(s).session = {s.cur.gen}
         /\ Fed(s).pc = s.pc /\ Fed(s).stop = s.stop /\ Fed(s).error = s.error
         /\ Fed(s).state = s.state /\ Fed(s).cur = s.cur /\ Fed(s).late = s.late
<1>1. s.cur.gen \in 0..MaxSessions
  BY DEF Service, Frame
<1>2. s.session \cup {s.cur.gen} = {s.cur.gen}
  OBVIOUS
<1>3. QED  BY <1>1, <1>2 DEF Fed, Service

LEMMA OpenProperties ==
  ASSUME NEW s \in Service
  PROVE  /\ Opened(s) \in Service /\ OpenFails(s) \in Service
         /\ \A t \in {Opened(s), OpenFails(s)} :
              /\ t.pc = s.pc /\ t.stop = s.stop /\ t.error = s.error /\ t.state = s.state
              /\ t.cur = s.cur /\ t.gen = s.gen /\ t.session = s.session /\ t.late = s.late
BY DEF Opened, OpenFails, Service

\* The decode service takes a frame, passes one on, closes its queue at its end,
\* or none of these.
Decodes ==
  \/ UNCHANGED <<jpeg, raw, ai>> /\ dec'.cur \in {dec.cur, NoFrame}
  \/ /\ jpeg.items # <<>> /\ jpeg' = Rest(jpeg) /\ dec'.cur = Head(jpeg.items)
     /\ UNCHANGED <<raw, ai>>
  \/ /\ Real(dec.cur) /\ raw' = Push(raw, RawCapacity, dec.cur) /\ ai' = dec.cur
     /\ dec'.cur = NoFrame /\ UNCHANGED jpeg
  \/ dec.stop /\ raw' = Drain(raw) /\ dec'.cur = dec.cur /\ UNCHANGED <<jpeg, ai>>

LEMMA DecodeMoves ==
  ASSUME PipelineOK, DecRun
  PROVE  /\ dec' \in Service /\ ServiceOK(dec') /\ GoesOn(dec, dec')
         /\ Decodes
         /\ UNCHANGED <<cap, str, ctl, frames, published>>
<1>1. /\ dec \in Service /\ ServiceOK(dec) /\ jpeg \in Queue
      /\ \A f \in ItemsOf(jpeg) : Real(f)
  BY DEF PipelineOK, Typed, FramesOK
<1>2. jpeg.closed \/ raw.closed => WillEnd(dec)
  BY DEF PipelineOK, ControlOK, AskedInOrder
<1>3. NoFrame \in Frame /\ 0 \in 0..MaxSessions /\ 0 \in 0..MaxFrames
  BY PipelineAssumption DEF NoFrame, Frame
<1> USE <1>1, <1>3 DEF Dec, OnlyDec, Places, States, WillEnd, GoesOn, Gone, Decodes
<1>4. CASE DecLoop
  BY <1>4 DEF DecLoop, Service, ServiceOK, InSession, Fresh
<1>5. CASE DecOpen
  <2>1. CASE dec' = Throw(OpenFails(dec), "device")
    BY <1>5, <2>1, OpenProperties, ThrowProperties DEF DecOpen, ServiceOK, InSession, Fresh
  <2>2. CASE dec' = [Opened(dec) EXCEPT !.pc = "check", !.error = "none",
                                        !.state = "running", !.gen = 0]
    <3>1. /\ dec' \in Service /\ dec'.pc = "check" /\ dec'.error = "none"
          /\ dec'.state = "running" /\ dec'.gen = 0 /\ dec'.stop = dec.stop
          /\ dec'.cur = dec.cur /\ dec'.session = dec.session /\ dec'.late = dec.late
      <4>1. Opened(dec) \in Service /\ "check" \in Places /\ "running" \in States
        BY OpenProperties
      <4> HIDE DEF Places, States
      <4>2. QED  BY <2>2, <4>1, <1>3, OpenProperties DEF Service
    <3>2. QED  BY <1>5, <3>1 DEF DecOpen, ServiceOK, InSession, Fresh
  <2>3. QED  BY <1>5, <2>1, <2>2 DEF DecOpen
<1>6. CASE DecPop
  <2>1. CASE dec.stop
    BY <1>6, <2>1, AgainProperties DEF DecPop, ServiceOK, InSession, Fresh
  <2>2. CASE ~dec.stop /\ jpeg.items = <<>>
    BY <1>6, <2>2 DEF DecPop, Service, ServiceOK, InSession, Fresh
  <2>3. CASE ~dec.stop /\ jpeg.items # <<>>
    <3>1. Head(jpeg.items) \in Frame /\ Real(Head(jpeg.items))
      BY <2>3, RestProperties
    <3>2. PICK next \in {"decode", "session"} :
            /\ dec' = [dec EXCEPT !.cur = Head(jpeg.items), !.pc = next]
            /\ next = "decode" => dec.gen \in {0, Head(jpeg.items).gen}
      BY <1>6, <2>3 DEF DecPop
    <3>3. /\ dec' \in Service /\ dec'.pc = next /\ dec'.cur = Head(jpeg.items)
          /\ dec'.error = dec.error /\ dec'.state = dec.state /\ dec'.gen = dec.gen
          /\ dec'.stop = dec.stop /\ dec'.session = dec.session /\ dec'.late = dec.late
      BY <3>1, <3>2 DEF Service
    <3>4. dec.pc = "check" /\ jpeg' = Rest(jpeg)
          /\ UNCHANGED <<cap, str, raw, ai, ctl, frames, published>>
      BY <1>6, <2>3 DEF DecPop, Rest
    <3>5. ServiceOK(dec')
      BY <3>1, <3>2, <3>3, <3>4 DEF ServiceOK, InSession, Fresh, Service
    <3>6. QED  BY <2>3, <3>3, <3>4, <3>5
  <2>4. QED  BY <2>1, <2>2, <2>3
<1>7. CASE DecNothing
  <2>1. CASE jpeg.closed
    BY <1>2, <1>7, <2>1, ThrowProperties DEF DecNothing, ServiceOK, InSession, Fresh
  <2>2. CASE ~jpeg.closed
    BY <1>7, <2>2 DEF DecNothing, Service, ServiceOK, InSession, Fresh
  <2>3. QED  BY <2>1, <2>2
<1>8. CASE DecSession
  <2>1. CASE dec.stop
    BY <1>8, <2>1, AgainProperties DEF DecSession, ServiceOK, InSession, Fresh
  <2>2. CASE ~dec.stop
    <3>1. dec' = [Closed(dec) EXCEPT !.pc = "reopen"] /\ dec.pc = "session"
      BY <1>8, <2>2 DEF DecSession
    <3>2. /\ dec' \in Service /\ Fresh(dec') /\ dec'.pc = "reopen" /\ dec'.cur = dec.cur
          /\ dec'.error = dec.error /\ dec'.state = dec.state /\ dec'.gen = dec.gen
          /\ dec'.stop = dec.stop
      BY <3>1, ClosedProperties DEF Service, Fresh
    <3>3. QED  BY <1>8, <3>1, <3>2 DEF DecSession, ServiceOK, InSession, Fresh
  <2>3. QED  BY <2>1, <2>2
<1>9. CASE DecReopen
  <2>1. CASE dec.stop /\ dec' = Again([dec EXCEPT !.devStop = TRUE])
    <3>1. [dec EXCEPT !.devStop = TRUE] \in Service
      BY DEF Service
    <3>2. QED
      BY <1>9, <2>1, <3>1, AgainProperties DEF DecReopen, Service, ServiceOK, InSession, Fresh
  <2>2. CASE dec' = [Opened(dec) EXCEPT !.pc = "decode"]
    <3>1. /\ dec' \in Service /\ dec'.pc = "decode" /\ dec'.cur = dec.cur
          /\ dec'.error = dec.error /\ dec'.state = dec.state /\ dec'.gen = dec.gen
          /\ dec'.stop = dec.stop /\ dec'.session = dec.session /\ dec'.late = dec.late
      BY <2>2, OpenProperties DEF Service
    <3>2. QED  BY <1>9, <3>1 DEF DecReopen, ServiceOK, InSession, Fresh
  <2>3. CASE dec' = Throw(OpenFails(dec), "device")
    BY <1>9, <2>3, OpenProperties, ThrowProperties DEF DecReopen, ServiceOK, InSession, Fresh
  <2>4. QED  BY <1>9, <2>1, <2>2, <2>3 DEF DecReopen
<1>10. CASE DecPicture
  <2>1. dec.pc = "decode" /\ dec.late = 0 /\ dec.session \subseteq {dec.cur.gen} /\ Real(dec.cur)
    BY <1>10 DEF DecPicture, ServiceOK
  <2> DEFINE after == [Fed(dec) EXCEPT !.cur = NoFrame, !.pc = "check",
                                       !.late = IF @ = 0 THEN 0 ELSE dec.cur.id]
  <2>2. [dec.cur EXCEPT !.image = IF dec.late = 0 THEN @ ELSE dec.late] = dec.cur
    BY <2>1 DEF Service, Frame
  <2>3. /\ after \in Service /\ after.pc = "check" /\ after.cur = NoFrame
        /\ after.error = dec.error /\ after.state = dec.state /\ after.gen = dec.cur.gen
        /\ after.stop = dec.stop /\ after.session = {dec.cur.gen} /\ after.late = 0
    <3>1. Fed(dec) \in Service /\ Fed(dec).late = 0 /\ "check" \in Places
      BY <2>1, FedProperties
    <3>2. after = [Fed(dec) EXCEPT !.cur = NoFrame, !.pc = "check", !.late = 0]
      BY <3>1 DEF Service
    <3> HIDE DEF after, Places
    <3>3. QED  BY <1>3, <2>1, <3>1, <3>2, FedProperties DEF Service
  <2> HIDE DEF after
  <2>4. ServiceOK(after) /\ ServiceOK(Again(after)) /\ Again(after) \in Service
    BY <2>1, <2>3, AgainProperties DEF ServiceOK, InSession, Fresh, Real
  <2>5. CASE dec.stop
    <3>1. dec' = Again(after) /\ UNCHANGED <<cap, str, jpeg, raw, ai, ctl, frames, published>>
      BY <1>10, <2>5 DEF DecPicture, after
    <3>2. Again(after).pc = "loop" /\ Again(after).stop = dec.stop /\ Again(after).cur = NoFrame
      BY <2>3, AgainProperties
    <3>3. QED  BY <2>1, <2>4, <3>1, <3>2
  <2>6. CASE ~dec.stop
    <3>1. ~raw.closed
      BY <1>2, <2>1, <2>6
    <3>2. /\ dec' = after /\ ai' = dec.cur /\ raw' = Push(raw, RawCapacity, dec.cur)
          /\ UNCHANGED <<cap, str, jpeg, ctl, frames, published>>
      BY <1>10, <2>2, <2>6, <3>1 DEF DecPicture, after
    <3>3. QED  BY <2>1, <2>3, <2>4, <3>2
  <2>7. QED  BY <2>5, <2>6
<1>11. CASE DecStopped
  BY <1>11, AgainProperties, ThrowProperties DEF DecStopped, ServiceOK, InSession, Fresh
<1>12. CASE DecFails
  <2>1. dec.pc = "decode" /\ dec.session \subseteq {dec.cur.gen} /\ Real(dec.cur)
    BY <1>12 DEF DecFails, ServiceOK
  <2>2. QED
    BY <1>12, <2>1, FedProperties, ThrowProperties
       DEF DecFails, ServiceOK, InSession, Fresh, Real
<1>13. CASE DecTimeout
  <2>1. dec.pc = "decode" /\ dec.session \subseteq {dec.cur.gen} /\ Real(dec.cur)
    BY <1>13 DEF DecTimeout, ServiceOK
  <2> DEFINE fed == [Fed(dec) EXCEPT !.late = dec.cur.id]
  <2>2. /\ fed \in Service /\ fed.gen = dec.cur.gen /\ fed.session = {dec.cur.gen}
        /\ fed.stop = dec.stop /\ fed.state = dec.state
    BY <2>1, FedProperties DEF Service, Frame
  <2>3. dec' = Throw(fed, "decode") /\ UNCHANGED <<cap, str, jpeg, raw, ai, ctl, frames, published>>
    BY <1>13 DEF DecTimeout
  <2> HIDE DEF fed
  <2>4. QED  BY <2>1, <2>2, <2>3, ThrowProperties DEF ServiceOK, InSession, Fresh, Real
<1>14. CASE DecCaught
  <2>1. CASE dec.stop
    BY <1>14, <2>1 DEF DecCaught, Caught, Service, ServiceOK, InSession, Fresh
  <2>2. CASE ~dec.stop
    <3>1. dec' = [Again(dec) EXCEPT !.state = "degraded"] /\ dec.pc = "caught"
      BY <1>14, <2>2 DEF DecCaught, Caught
    <3>2. /\ dec' \in Service /\ Fresh(dec') /\ dec'.pc = "loop" /\ dec'.stop = dec.stop
          /\ dec'.error = dec.error /\ dec'.cur = NoFrame /\ dec'.gen = dec.gen
      BY <3>1, AgainProperties DEF Service, Fresh
    <3>3. QED  BY <1>14, <2>2, <3>1, <3>2 DEF DecCaught, ServiceOK, InSession, Fresh
  <2>3. QED  BY <2>1, <2>2
<1>15. CASE DecEnd
  <2>1. /\ dec' = [Closed(dec) EXCEPT !.pc = "done", !.state = "stopped"]
        /\ dec.pc = "loop" /\ dec.stop /\ raw' = Drain(raw)
        /\ UNCHANGED <<cap, str, jpeg, ai, ctl, frames, published>>
    BY <1>15 DEF DecEnd
  <2>2. /\ dec' \in Service /\ Fresh(dec') /\ dec'.pc = "done" /\ dec'.stop = dec.stop
        /\ dec'.state = "stopped" /\ dec'.cur = dec.cur /\ dec'.gen = dec.gen
    <3>1. Closed(dec) \in Service /\ "done" \in Places /\ "stopped" \in States
      BY ClosedProperties
    <3> HIDE DEF Places, States
    <3>2. QED  BY <2>1, <3>1, ClosedProperties DEF Service, Fresh
  <2>3. QED  BY <2>1, <2>2 DEF ServiceOK, InSession, Fresh
<1>16. QED
  BY <1>4, <1>5, <1>6, <1>7, <1>8, <1>9, <1>10, <1>11, <1>12, <1>13, <1>14, <1>15
     DEF DecRun

\* The stream service takes a frame, publishes the one it has, or neither.
Streams ==
  \/ UNCHANGED <<raw, published>> /\ str'.cur \in {str.cur, NoFrame}
  \/ /\ raw.items # <<>> /\ raw' = Rest(raw) /\ str'.cur = Head(raw.items)
     /\ UNCHANGED published
  \/ /\ Real(str.cur) /\ published' = str.cur.id /\ str'.cur = NoFrame
     /\ UNCHANGED raw

LEMMA StreamMoves ==
  ASSUME PipelineOK, StrRun
  PROVE  /\ str' \in Service /\ ServiceOK(str') /\ GoesOn(str, str')
         /\ Streams
         /\ UNCHANGED <<cap, dec, jpeg, ai, ctl, frames>>
<1>1. /\ str \in Service /\ ServiceOK(str) /\ raw \in Queue
      /\ \A f \in ItemsOf(raw) : Real(f)
  BY DEF PipelineOK, Typed, FramesOK
<1>2. raw.closed => WillEnd(str)
  BY DEF PipelineOK, ControlOK, AskedInOrder
<1>3. NoFrame \in Frame /\ 0 \in 0..MaxSessions /\ 0 \in 0..MaxFrames
  BY PipelineAssumption DEF NoFrame, Frame
<1> USE <1>1, <1>3 DEF Str, OnlyStr, Places, States, WillEnd, GoesOn, Gone, Streams
<1>4. CASE StrLoop
  BY <1>4 DEF StrLoop, Service, ServiceOK, InSession, Fresh
<1>5. CASE StrOpen
  <2>1. CASE str' = Throw(OpenFails(str), "device")
    BY <1>5, <2>1, OpenProperties, ThrowProperties DEF StrOpen, ServiceOK, InSession, Fresh
  <2>2. CASE str' = [Opened(str) EXCEPT !.pc = "check", !.error = "none",
                                        !.state = "running", !.gen = 0]
    <3>1. /\ str' \in Service /\ str'.pc = "check" /\ str'.error = "none"
          /\ str'.state = "running" /\ str'.gen = 0 /\ str'.stop = str.stop
          /\ str'.cur = str.cur /\ str'.session = str.session /\ str'.late = str.late
      <4>1. Opened(str) \in Service /\ "check" \in Places /\ "running" \in States
        BY OpenProperties
      <4> HIDE DEF Places, States
      <4>2. QED  BY <2>2, <4>1, <1>3, OpenProperties DEF Service
    <3>2. QED  BY <1>5, <3>1 DEF StrOpen, ServiceOK, InSession, Fresh
  <2>3. QED  BY <1>5, <2>1, <2>2 DEF StrOpen
<1>6. CASE StrPop
  <2>1. CASE str.stop
    BY <1>6, <2>1, AgainProperties DEF StrPop, ServiceOK, InSession, Fresh
  <2>2. CASE ~str.stop /\ raw.items = <<>>
    BY <1>6, <2>2 DEF StrPop, Service, ServiceOK, InSession, Fresh
  <2>3. CASE ~str.stop /\ raw.items # <<>>
    <3>1. Head(raw.items) \in Frame /\ Real(Head(raw.items))
      BY <2>3, RestProperties
    <3>2. PICK next \in {"write", "session"} :
            /\ str' = [str EXCEPT !.cur = Head(raw.items), !.pc = next]
            /\ next = "write" => str.gen \in {0, Head(raw.items).gen}
      BY <1>6, <2>3 DEF StrPop
    <3>3. /\ str' \in Service /\ str'.pc = next /\ str'.cur = Head(raw.items)
          /\ str'.error = str.error /\ str'.state = str.state /\ str'.gen = str.gen
          /\ str'.stop = str.stop /\ str'.session = str.session /\ str'.late = str.late
      BY <3>1, <3>2 DEF Service
    <3>4. str.pc = "check" /\ raw' = Rest(raw)
          /\ UNCHANGED <<cap, dec, jpeg, ai, ctl, frames, published>>
      BY <1>6, <2>3 DEF StrPop, Rest
    <3>5. ServiceOK(str')
      BY <3>1, <3>2, <3>3, <3>4 DEF ServiceOK, InSession, Fresh, Service
    <3>6. QED  BY <2>3, <3>3, <3>4, <3>5
  <2>4. QED  BY <2>1, <2>2, <2>3
<1>7. CASE StrNothing
  <2>1. CASE raw.closed
    BY <1>2, <1>7, <2>1, ThrowProperties DEF StrNothing, ServiceOK, InSession, Fresh
  <2>2. CASE ~raw.closed
    BY <1>7, <2>2 DEF StrNothing, Service, ServiceOK, InSession, Fresh
  <2>3. QED  BY <2>1, <2>2
<1>8. CASE StrSession
  <2>1. CASE str.stop
    BY <1>8, <2>1, AgainProperties DEF StrSession, ServiceOK, InSession, Fresh
  <2>2. CASE ~str.stop
    <3>1. str' = [Closed(str) EXCEPT !.pc = "reopen"] /\ str.pc = "session"
      BY <1>8, <2>2 DEF StrSession
    <3>2. /\ str' \in Service /\ Fresh(str') /\ str'.pc = "reopen" /\ str'.cur = str.cur
          /\ str'.error = str.error /\ str'.state = str.state /\ str'.gen = str.gen
          /\ str'.stop = str.stop
      BY <3>1, ClosedProperties DEF Service, Fresh
    <3>3. QED  BY <1>8, <3>1, <3>2 DEF StrSession, ServiceOK, InSession, Fresh
  <2>3. QED  BY <2>1, <2>2
<1>9. CASE StrReopen
  <2>1. CASE str.stop /\ str' = Again([str EXCEPT !.devStop = TRUE])
    <3>1. [str EXCEPT !.devStop = TRUE] \in Service
      BY DEF Service
    <3>2. QED
      BY <1>9, <2>1, <3>1, AgainProperties DEF StrReopen, Service, ServiceOK, InSession, Fresh
  <2>2. CASE str' = [Opened(str) EXCEPT !.pc = "write"]
    <3>1. /\ str' \in Service /\ str'.pc = "write" /\ str'.cur = str.cur
          /\ str'.error = str.error /\ str'.state = str.state /\ str'.gen = str.gen
          /\ str'.stop = str.stop /\ str'.session = str.session /\ str'.late = str.late
      BY <2>2, OpenProperties DEF Service
    <3>2. QED  BY <1>9, <3>1 DEF StrReopen, ServiceOK, InSession, Fresh
  <2>3. CASE str' = Throw(OpenFails(str), "device")
    BY <1>9, <2>3, OpenProperties, ThrowProperties DEF StrReopen, ServiceOK, InSession, Fresh
  <2>4. QED  BY <1>9, <2>1, <2>2, <2>3 DEF StrReopen
<1>10. CASE StrWrite
  <2>1. str.pc = "write" /\ str.session \subseteq {str.cur.gen} /\ Real(str.cur) /\ str.late = 0
    BY <1>10 DEF StrWrite, ServiceOK
  <2>2. CASE str.devStop
    <3>1. /\ str' = [str EXCEPT !.pc = "check", !.gen = str.cur.gen, !.cur = NoFrame]
          /\ UNCHANGED <<cap, dec, jpeg, raw, ai, ctl, frames, published>>
      BY <1>10, <2>2 DEF StrWrite
    <3>2. str.cur.gen \in 0..MaxSessions /\ "check" \in Places
      BY DEF Service, Frame
    <3>3. /\ str' \in Service /\ str'.pc = "check" /\ str'.cur = NoFrame
          /\ str'.error = str.error /\ str'.state = str.state /\ str'.gen = str.cur.gen
          /\ str'.stop = str.stop /\ str'.session = str.session /\ str'.late = 0
      <4> HIDE DEF Places
      <4>1. QED  BY <2>1, <3>1, <3>2 DEF Service
    <3>4. ServiceOK(str')
      BY <2>1, <3>3 DEF ServiceOK, InSession, Fresh, Real
    <3>5. QED  BY <2>1, <3>1, <3>3, <3>4
  <2>3. CASE ~str.devStop
    <3>1. /\ str' = [Fed(str) EXCEPT !.pc = "check", !.cur = NoFrame]
          /\ published' = str.cur.id
          /\ UNCHANGED <<cap, dec, jpeg, raw, ai, ctl, frames>>
      BY <1>10, <2>3 DEF StrWrite
    <3>2. Fed(str) \in Service /\ "check" \in Places
      BY <2>1, FedProperties
    <3>3. /\ str' \in Service /\ str'.pc = "check" /\ str'.cur = NoFrame
          /\ str'.error = str.error /\ str'.state = str.state /\ str'.gen = str.cur.gen
          /\ str'.stop = str.stop /\ str'.session = {str.cur.gen} /\ str'.late = 0
      <4> HIDE DEF Places
      <4>1. QED  BY <1>3, <2>1, <3>1, <3>2, FedProperties DEF Service
    <3>4. ServiceOK(str')
      BY <2>1, <3>3 DEF ServiceOK, InSession, Fresh, Real
    <3>5. QED  BY <2>1, <3>1, <3>3, <3>4
  <2>4. QED  BY <2>2, <2>3
<1>11. CASE StrFails
  <2>1. str.pc = "write" /\ str.session \subseteq {str.cur.gen} /\ Real(str.cur)
    BY <1>11 DEF StrFails, ServiceOK
  <2>2. QED
    BY <1>11, <2>1, FedProperties, ThrowProperties
       DEF StrFails, ServiceOK, InSession, Fresh, Real
<1>12. CASE StrCaught
  <2>1. CASE str.stop
    BY <1>12, <2>1 DEF StrCaught, Caught, Service, ServiceOK, InSession, Fresh
  <2>2. CASE ~str.stop
    <3>1. str' = [Again(str) EXCEPT !.state = "degraded"] /\ str.pc = "caught"
      BY <1>12, <2>2 DEF StrCaught, Caught
    <3>2. /\ str' \in Service /\ Fresh(str') /\ str'.pc = "loop" /\ str'.stop = str.stop
          /\ str'.error = str.error /\ str'.cur = NoFrame /\ str'.gen = str.gen
      BY <3>1, AgainProperties DEF Service, Fresh
    <3>3. QED  BY <1>12, <2>2, <3>1, <3>2 DEF StrCaught, ServiceOK, InSession, Fresh
  <2>3. QED  BY <2>1, <2>2
<1>13. CASE StrEnd
  <2>1. /\ str' = [Closed(str) EXCEPT !.pc = "done", !.state = "stopped"]
        /\ str.pc = "loop" /\ str.stop
        /\ UNCHANGED <<cap, dec, jpeg, raw, ai, ctl, frames, published>>
    BY <1>13 DEF StrEnd
  <2>2. /\ str' \in Service /\ Fresh(str') /\ str'.pc = "done" /\ str'.stop = str.stop
        /\ str'.state = "stopped" /\ str'.cur = str.cur /\ str'.gen = str.gen
    <3>1. Closed(str) \in Service /\ "done" \in Places /\ "stopped" \in States
      BY ClosedProperties
    <3> HIDE DEF Places, States
    <3>2. QED  BY <2>1, <3>1, ClosedProperties DEF Service, Fresh
  <2>3. QED  BY <2>1, <2>2 DEF ServiceOK, InSession, Fresh
<1>14. QED
  BY <1>4, <1>5, <1>6, <1>7, <1>8, <1>9, <1>10, <1>11, <1>12, <1>13 DEF StrRun

-----------------------------------------------------------------------------
\* A step of a worker keeps the invariant.

LEMMA QueueProperties ==
  ASSUME NEW q \in Queue
  PROVE  /\ ItemsOf(q) \subseteq Frame
         /\ Drain(q) \in Queue /\ Drain(q).items = q.items /\ Drain(q).closed
         /\ ItemsOf(Drain(q)) = ItemsOf(q)
         /\ Sorted(q) => Sorted(Drain(q))
<1>1. Drain(q) \in Queue /\ Drain(q).items = q.items /\ Drain(q).closed
  BY DEF Drain, Queue
<1>2. ItemsOf(q) \subseteq Frame
  BY DEF ItemsOf, Queue
<1>3. QED  BY <1>1, <1>2 DEF ItemsOf, Sorted

\* Ids are numbers, so that what is before can be compared.
LEMMA IdsAreNumbers ==
  ASSUME Typed
  PROVE  /\ \A f \in ItemsOf(jpeg) \cup ItemsOf(raw) \cup {dec.cur, str.cur} : f.id \in Nat
         /\ frames \in Nat /\ published \in Nat
<1>1. ItemsOf(jpeg) \cup ItemsOf(raw) \cup {dec.cur, str.cur} \subseteq Frame
  BY QueueProperties DEF Typed, Service
<1>2. QED  BY <1>1, PipelineAssumption DEF Typed, Frame

LEMMA ControlKept ==
  ASSUME ControlOK, UNCHANGED ctl,
         GoesOn(cap, cap') \/ UNCHANGED cap,
         GoesOn(dec, dec') \/ UNCHANGED dec,
         GoesOn(str, str') \/ UNCHANGED str,
         jpeg'.closed => jpeg.closed \/ (cap.stop /\ ~Gone(cap)),
         raw'.closed => raw.closed \/ (dec.stop /\ ~Gone(dec))
  PROVE  ControlOK'
<1>1. /\ Gone(cap)' = Gone(cap) /\ WillEnd(cap)' = WillEnd(cap) /\ Works(cap)' = Works(cap)
      /\ ~Gone(cap) => cap'.stop = cap.stop
  BY DEF GoesOn, Gone, WillEnd, Works
<1>2. /\ Gone(dec)' = Gone(dec) /\ WillEnd(dec)' = WillEnd(dec) /\ Works(dec)' = Works(dec)
      /\ ~Gone(dec) => dec'.stop = dec.stop
  BY DEF GoesOn, Gone, WillEnd, Works
<1>3. /\ Gone(str)' = Gone(str) /\ WillEnd(str)' = WillEnd(str) /\ Works(str)' = Works(str)
      /\ ~Gone(str) => str'.stop = str.stop
  BY DEF GoesOn, Gone, WillEnd, Works
<1>4. cap'.stop = cap.stop /\ dec'.stop = dec.stop /\ str'.stop = str.stop
  BY DEF GoesOn
<1>5. StartOK'
  BY <1>1, <1>2, <1>3 DEF ControlOK, StartOK
<1>6. StopOK'
  BY <1>1, <1>2, <1>3, <1>4 DEF ControlOK, StopOK
<1>7. AskedInOrder'
  <2>1. cap.stop /\ ~Gone(cap) => WillEnd(cap) /\ WillEnd(dec)
    BY DEF ControlOK, AskedInOrder, WillEnd
  <2>2. dec.stop /\ ~Gone(dec) => WillEnd(dec) /\ WillEnd(str)
    BY DEF ControlOK, AskedInOrder, WillEnd
  <2>3. QED  BY <1>1, <1>2, <1>3, <1>4, <2>1, <2>2 DEF ControlOK, AskedInOrder
<1>8. QED  BY <1>5, <1>6, <1>7 DEF ControlOK

LEMMA CaptureStep ==
  ASSUME PipelineOK, CapRun \/ CapDevice
  PROVE  PipelineOK'
<1>1. /\ cap' \in Capture /\ CaptureOK' /\ GoesOn(cap, cap') /\ Captures
      /\ UNCHANGED <<dec, str, raw, ai, ctl, published>>
  BY CaptureMoves
<1>2. Typed /\ FramesOK /\ OrderOK /\ ControlOK
  BY DEF PipelineOK
<1>3. /\ jpeg \in Queue /\ Len(jpeg.items) <= JpegCapacity /\ cap.gen \in 0..MaxSessions
      /\ frames \in 0..MaxFrames /\ frames \in Nat
  BY <1>2, PipelineAssumption DEF Typed, Capture
<1>4. /\ jpeg' \in Queue /\ Len(jpeg'.items) <= JpegCapacity /\ frames' \in 0..MaxFrames
      /\ frames <= frames' /\ Sorted(jpeg')
      /\ jpeg'.closed => jpeg.closed \/ (cap.stop /\ ~Gone(cap))
      /\ \A f \in ItemsOf(jpeg') : f \in ItemsOf(jpeg) \/ (Real(f) /\ f.id = frames' /\ frames < frames')
  <2>1. CASE UNCHANGED <<jpeg, frames>>
    BY <1>2, <1>3, <2>1 DEF OrderOK, Sorted, ItemsOf
  <2>2. CASE /\ frames < MaxFrames /\ frames' = frames + 1 /\ cap.gen > 0
             /\ jpeg' = Push(jpeg, JpegCapacity, Captured)
    <3>1. Captured \in Frame /\ Captured.id = frames' /\ Real(Captured) /\ frames' \in 0..MaxFrames
      BY <1>3, <2>2, PipelineAssumption DEF Captured, Frame, Real
    <3>2. BeforeEach(jpeg, Captured.id) /\ Sorted(jpeg)
      <4>1. \A f \in ItemsOf(jpeg) : f.id <= frames /\ f.id \in Nat
        BY <1>2, IdsAreNumbers DEF OrderOK
      <4>2. QED  BY <1>2, <1>3, <2>2, <3>1, <4>1 DEF OrderOK, BeforeEach
    <3>3. jpeg' \in Queue /\ Len(jpeg'.items) <= JpegCapacity /\ jpeg'.closed = jpeg.closed
          /\ ItemsOf(jpeg') \subseteq ItemsOf(jpeg) \cup {Captured} /\ Sorted(jpeg')
      <4>1. /\ Push(jpeg, JpegCapacity, Captured) \in Queue
            /\ Len(Push(jpeg, JpegCapacity, Captured).items) <= JpegCapacity
            /\ Push(jpeg, JpegCapacity, Captured).closed = jpeg.closed
            /\ ItemsOf(Push(jpeg, JpegCapacity, Captured)) \subseteq ItemsOf(jpeg) \cup {Captured}
            /\ Sorted(Push(jpeg, JpegCapacity, Captured))
        BY <1>3, <3>1, <3>2, PushProperties, PipelineAssumption
      <4>2. ItemsOf(jpeg') = ItemsOf(Push(jpeg, JpegCapacity, Captured))
            /\ (Sorted(jpeg') <=> Sorted(Push(jpeg, JpegCapacity, Captured)))
        BY <2>2 DEF ItemsOf, Sorted
      <4>3. QED  BY <2>2, <4>1, <4>2
    <3>4. QED  BY <1>3, <2>2, <3>1, <3>3
  <2>3. CASE cap.stop /\ jpeg' = Drain(jpeg) /\ UNCHANGED frames
    <3>1. ItemsOf(jpeg') = ItemsOf(jpeg) /\ Sorted(jpeg')
      BY <1>2, <1>3, <2>3, QueueProperties DEF ItemsOf, Sorted, OrderOK
    <3>2. QED  BY <1>1, <1>3, <2>3, <3>1, QueueProperties DEF GoesOn
  <2>4. QED  BY <1>1, <2>1, <2>2, <2>3 DEF Captures
<1>5. Typed'
  BY <1>1, <1>2, <1>4 DEF Typed
<1>6. ControlOK'
  BY <1>1, <1>2, <1>4, ControlKept
<1>7. FramesOK'
  <2>1. ItemsOf(raw') = ItemsOf(raw)
    BY <1>1
  <2>2. QED  BY <1>1, <1>2, <1>4, <2>1 DEF FramesOK
<1>8. OrderOK'
  <2>1. ItemsOf(raw') = ItemsOf(raw) /\ (Sorted(raw') <=> Sorted(raw))
    BY <1>1
  <2>2. \A f \in ItemsOf(jpeg) \cup ItemsOf(raw) \cup {dec.cur, str.cur} : f.id \in Nat
    BY <1>2, IdsAreNumbers
  <2>3. published \in Nat /\ frames' \in Nat /\ published <= frames
    BY <1>2, <1>3, <1>4, IdsAreNumbers, PipelineAssumption DEF OrderOK
  <2>4. ASSUME NEW n \in Nat, n <= frames, BeforeAll(n, jpeg)
        PROVE  BeforeAll(n, jpeg')
    BY <1>3, <1>4, <2>3, <2>4 DEF BeforeAll
  <2>5. QED
    BY <1>1, <1>2, <1>3, <1>4, <2>1, <2>2, <2>3, <2>4 DEF OrderOK, Before, BeforeAll
<1>9. ServiceOK(dec') /\ ServiceOK(str')
  BY <1>1 DEF PipelineOK, ServiceOK, InSession, WillEnd, Gone, Fresh, Real
<1>10. QED  BY <1>1, <1>5, <1>6, <1>7, <1>8, <1>9 DEF PipelineOK

LEMMA DecodeStep ==
  ASSUME PipelineOK, DecRun
  PROVE  PipelineOK'
<1>1. /\ dec' \in Service /\ ServiceOK(dec') /\ GoesOn(dec, dec') /\ Decodes
      /\ UNCHANGED <<cap, str, ctl, frames, published>>
  BY DecodeMoves
<1>2. Typed /\ FramesOK /\ OrderOK /\ ControlOK
  BY DEF PipelineOK
<1>3. /\ jpeg \in Queue /\ Len(jpeg.items) <= JpegCapacity /\ Len(jpeg.items) \in Nat
      /\ raw \in Queue /\ Len(raw.items) <= RawCapacity /\ ai \in Frame /\ dec \in Service
      /\ dec.cur \in Frame /\ NoFrame.id = 0 /\ ~Real(NoFrame) /\ NoFrame \in Frame
  <2>1. jpeg \in Queue /\ Len(jpeg.items) <= JpegCapacity /\ Len(jpeg.items) \in Nat
    BY <1>2 DEF Typed, Queue
  <2>2. /\ raw \in Queue /\ Len(raw.items) <= RawCapacity /\ ai \in Frame /\ dec \in Service
        /\ dec.cur \in Frame
    BY <1>2 DEF Typed, Service
  <2>3. NoFrame.id = 0 /\ ~Real(NoFrame) /\ NoFrame \in Frame
    BY PipelineAssumption DEF NoFrame, Real, Frame
  <2>4. QED  BY <2>1, <2>2, <2>3
<1>4. /\ \A f \in ItemsOf(jpeg) \cup ItemsOf(raw) : Real(f) /\ f.id \in Nat /\ f.id > 0
      /\ \A f \in {dec.cur, str.cur} : f.id \in Nat
      /\ frames \in Nat /\ published \in Nat
  BY <1>2, IdsAreNumbers DEF FramesOK, Real
\* What is on its way is what was on its way, and dec.cur moves from its queue
<1>5. CaptureOK' /\ ServiceOK(str')
  BY <1>1 DEF PipelineOK, CaptureOK, ServiceOK, InSession, WillEnd, Gone, Fresh, Real
\* through the worker into the next queue.
<1>6. CASE UNCHANGED <<jpeg, raw, ai>> /\ dec'.cur \in {dec.cur, NoFrame}
  <2>1. /\ ItemsOf(jpeg') = ItemsOf(jpeg) /\ ItemsOf(raw') = ItemsOf(raw)
        /\ Sorted(jpeg') /\ Sorted(raw')
    BY <1>2, <1>6 DEF OrderOK
  <2>2. OrderOK'
    BY <1>1, <1>2, <1>3, <1>4, <1>6, <2>1 DEF OrderOK, Before, BeforeAll
  <2>3. FramesOK'
    BY <1>1, <1>2, <1>6, <2>1 DEF FramesOK
  <2>4. Typed'
    BY <1>1, <1>2, <1>6 DEF Typed
  <2>5. ControlOK'
    BY <1>1, <1>2, <1>6, ControlKept
  <2>6. QED  BY <1>1, <1>5, <2>2, <2>3, <2>4, <2>5 DEF PipelineOK
<1>7. CASE /\ jpeg.items # <<>> /\ jpeg' = Rest(jpeg) /\ dec'.cur = Head(jpeg.items)
           /\ UNCHANGED <<raw, ai>>
  <2>1. /\ Rest(jpeg) \in Queue /\ Rest(jpeg).closed = jpeg.closed
        /\ Len(Rest(jpeg).items) <= Len(jpeg.items) /\ Len(Rest(jpeg).items) \in Nat
        /\ Head(jpeg.items) \in ItemsOf(jpeg) /\ ItemsOf(Rest(jpeg)) \subseteq ItemsOf(jpeg)
        /\ Sorted(Rest(jpeg)) /\ BeforeAll(Head(jpeg.items).id, Rest(jpeg))
    BY <1>2, <1>3, <1>7, RestProperties DEF OrderOK, Queue
  <2>2. /\ ItemsOf(jpeg') \subseteq ItemsOf(jpeg) /\ ItemsOf(raw') = ItemsOf(raw)
        /\ Sorted(jpeg') /\ Sorted(raw') /\ BeforeAll(dec'.cur.id, jpeg')
        /\ dec'.cur \in ItemsOf(jpeg)
    BY <1>2, <1>7, <2>1 DEF OrderOK, Sorted, BeforeAll, ItemsOf
  <2>3. OrderOK'
    BY <1>1, <1>2, <1>3, <1>4, <1>7, <2>2 DEF OrderOK, Before, BeforeAll
  <2>4. FramesOK'
    BY <1>1, <1>2, <1>4, <1>7, <2>2 DEF FramesOK
  <2>5. Typed'
    BY <1>1, <1>2, <1>3, <1>7, <2>1, PipelineAssumption DEF Typed
  <2>6. ControlOK'
    BY <1>1, <1>2, <1>7, <2>1, ControlKept
  <2>7. QED  BY <1>1, <1>5, <2>3, <2>4, <2>5, <2>6 DEF PipelineOK
<1>8. CASE /\ Real(dec.cur) /\ raw' = Push(raw, RawCapacity, dec.cur) /\ ai' = dec.cur
           /\ dec'.cur = NoFrame /\ UNCHANGED jpeg
  <2>1. BeforeEach(raw, dec.cur.id) /\ Sorted(raw)
    BY <1>2, <1>3, <1>8 DEF OrderOK, BeforeEach, Before
  <2>2. /\ Push(raw, RawCapacity, dec.cur) \in Queue
        /\ Len(Push(raw, RawCapacity, dec.cur).items) <= RawCapacity
        /\ Push(raw, RawCapacity, dec.cur).closed = raw.closed
        /\ ItemsOf(Push(raw, RawCapacity, dec.cur)) \subseteq ItemsOf(raw) \cup {dec.cur}
        /\ Sorted(Push(raw, RawCapacity, dec.cur))
    BY <1>3, <2>1, PushProperties, PipelineAssumption
  <2>3. /\ ItemsOf(raw') \subseteq ItemsOf(raw) \cup {dec.cur} /\ ItemsOf(jpeg') = ItemsOf(jpeg)
        /\ Sorted(jpeg') /\ Sorted(raw')
    BY <1>2, <1>8, <2>2 DEF OrderOK, Sorted, ItemsOf
  <2>4. OrderOK'
    BY <1>1, <1>2, <1>3, <1>4, <1>8, <2>3 DEF OrderOK, Before, BeforeAll
  <2>5. FramesOK'
    BY <1>1, <1>2, <1>4, <1>8, <2>3 DEF FramesOK
  <2>6. Typed'
    BY <1>1, <1>2, <1>3, <1>8, <2>2 DEF Typed
  <2>7. ControlOK'
    BY <1>1, <1>2, <1>8, <2>2, ControlKept
  <2>8. QED  BY <1>1, <1>5, <2>4, <2>5, <2>6, <2>7 DEF PipelineOK
<1>9. CASE dec.stop /\ raw' = Drain(raw) /\ dec'.cur = dec.cur /\ UNCHANGED <<jpeg, ai>>
  <2>1. /\ ItemsOf(raw') = ItemsOf(raw) /\ ItemsOf(jpeg') = ItemsOf(jpeg)
        /\ Sorted(jpeg') /\ Sorted(raw')
    BY <1>2, <1>3, <1>9, QueueProperties DEF OrderOK, Sorted, ItemsOf
  <2>2. OrderOK'
    BY <1>1, <1>2, <1>9, <2>1 DEF OrderOK, Before, BeforeAll
  <2>3. FramesOK'
    BY <1>1, <1>2, <1>9, <2>1 DEF FramesOK
  <2>4. Typed'
    BY <1>1, <1>2, <1>3, <1>9, QueueProperties DEF Typed
  <2>5. ControlOK'
    BY <1>1, <1>2, <1>9, ControlKept DEF GoesOn
  <2>6. QED  BY <1>1, <1>5, <2>2, <2>3, <2>4, <2>5 DEF PipelineOK
<1>10. QED  BY <1>1, <1>6, <1>7, <1>8, <1>9 DEF Decodes

LEMMA StreamStep ==
  ASSUME PipelineOK, StrRun
  PROVE  PipelineOK'
<1>1. /\ str' \in Service /\ ServiceOK(str') /\ GoesOn(str, str') /\ Streams
      /\ UNCHANGED <<cap, dec, jpeg, ai, ctl, frames>>
  BY StreamMoves
<1>2. Typed /\ FramesOK /\ OrderOK /\ ControlOK
  BY DEF PipelineOK
<1>3. /\ raw \in Queue /\ Len(raw.items) <= RawCapacity /\ Len(raw.items) \in Nat
      /\ str \in Service /\ str.cur \in Frame /\ NoFrame.id = 0 /\ ~Real(NoFrame)
  <2>1. raw \in Queue /\ Len(raw.items) <= RawCapacity /\ Len(raw.items) \in Nat
    BY <1>2 DEF Typed, Queue
  <2>2. str \in Service /\ str.cur \in Frame
    BY <1>2 DEF Typed, Service
  <2>3. NoFrame.id = 0 /\ ~Real(NoFrame)
    BY DEF NoFrame, Real
  <2>4. QED  BY <2>1, <2>2, <2>3
<1>4. /\ \A f \in ItemsOf(jpeg) \cup ItemsOf(raw) : Real(f) /\ f.id \in Nat /\ f.id > 0
      /\ \A f \in {dec.cur, str.cur} : f.id \in Nat
      /\ frames \in Nat /\ published \in Nat
  BY <1>2, IdsAreNumbers DEF FramesOK, Real
<1>5. ItemsOf(jpeg') = ItemsOf(jpeg) /\ Sorted(jpeg')
  BY <1>1, <1>2 DEF OrderOK
<1>6. CaptureOK' /\ ServiceOK(dec')
  BY <1>1 DEF PipelineOK, CaptureOK, ServiceOK, InSession, WillEnd, Gone, Fresh, Real
<1>7. CASE UNCHANGED <<raw, published>> /\ str'.cur \in {str.cur, NoFrame}
  <2>1. ItemsOf(raw') = ItemsOf(raw) /\ Sorted(raw')
    BY <1>2, <1>7 DEF OrderOK
  <2>2. OrderOK'
    BY <1>1, <1>2, <1>3, <1>4, <1>5, <1>7, <2>1 DEF OrderOK, Before, BeforeAll
  <2>3. FramesOK'
    BY <1>1, <1>2, <1>5, <1>7, <2>1 DEF FramesOK
  <2>4. Typed'
    BY <1>1, <1>2, <1>7 DEF Typed
  <2>5. ControlOK'
    BY <1>1, <1>2, <1>7, ControlKept
  <2>6. QED  BY <1>1, <1>6, <2>2, <2>3, <2>4, <2>5 DEF PipelineOK
<1>8. CASE /\ raw.items # <<>> /\ raw' = Rest(raw) /\ str'.cur = Head(raw.items)
           /\ UNCHANGED published
  <2>1. /\ Rest(raw) \in Queue /\ Rest(raw).closed = raw.closed
        /\ Len(Rest(raw).items) <= Len(raw.items) /\ Len(Rest(raw).items) \in Nat
        /\ Head(raw.items) \in ItemsOf(raw) /\ ItemsOf(Rest(raw)) \subseteq ItemsOf(raw)
        /\ Sorted(Rest(raw)) /\ BeforeAll(Head(raw.items).id, Rest(raw))
    BY <1>2, <1>3, <1>8, RestProperties DEF OrderOK, Queue
  <2>2. /\ ItemsOf(raw') \subseteq ItemsOf(raw) /\ Sorted(raw')
        /\ BeforeAll(str'.cur.id, raw') /\ str'.cur \in ItemsOf(raw)
    BY <1>8, <2>1 DEF Sorted, BeforeAll, ItemsOf
  <2>3. OrderOK'
    BY <1>1, <1>2, <1>3, <1>4, <1>5, <1>8, <2>2 DEF OrderOK, Before, BeforeAll
  <2>4. FramesOK'
    BY <1>1, <1>2, <1>4, <1>5, <2>2 DEF FramesOK
  <2>5. Typed'
    BY <1>1, <1>2, <1>3, <1>8, <2>1, PipelineAssumption DEF Typed
  <2>6. ControlOK'
    BY <1>1, <1>2, <1>8, <2>1, ControlKept
  <2>7. QED  BY <1>1, <1>6, <2>3, <2>4, <2>5, <2>6 DEF PipelineOK
<1>9. CASE Real(str.cur) /\ published' = str.cur.id /\ str'.cur = NoFrame /\ UNCHANGED raw
  <2>1. ItemsOf(raw') = ItemsOf(raw) /\ Sorted(raw')
    BY <1>2, <1>9 DEF OrderOK
  <2>2. OrderOK'
    BY <1>1, <1>2, <1>3, <1>4, <1>5, <1>9, <2>1 DEF OrderOK, Before, BeforeAll
  <2>3. FramesOK'
    BY <1>1, <1>2, <1>5, <1>9, <2>1 DEF FramesOK
  <2>4. Typed'
    BY <1>1, <1>2, <1>3, <1>9 DEF Typed, Frame
  <2>5. ControlOK'
    BY <1>1, <1>2, <1>9, ControlKept
  <2>6. QED  BY <1>1, <1>6, <2>2, <2>3, <2>4, <2>5 DEF PipelineOK
<1>10. QED  BY <1>1, <1>7, <1>8, <1>9 DEF Streams

LEMMA AiStep ==
  ASSUME PipelineOK, AiTakes
  PROVE  PipelineOK'
<1>1. ai' = NoFrame /\ UNCHANGED <<cap, dec, str, jpeg, raw, ctl, frames, published>>
  BY DEF AiTakes
<1>2. NoFrame \in Frame
  BY PipelineAssumption DEF NoFrame, Frame
<1>3. Typed'
  BY <1>1, <1>2 DEF PipelineOK, Typed
<1>4. FramesOK' /\ OrderOK'
  <2>1. ItemsOf(jpeg') = ItemsOf(jpeg) /\ ItemsOf(raw') = ItemsOf(raw)
    BY <1>1
  <2>2. FramesOK'
    BY <1>1, <2>1 DEF PipelineOK, FramesOK
  <2>3. OrderOK'
    BY <1>1, <2>1 DEF PipelineOK, OrderOK, Sorted, Before, BeforeAll
  <2>4. QED  BY <2>2, <2>3
<1>5. ControlOK'
  BY <1>1, ControlKept DEF PipelineOK
<1>6. CaptureOK' /\ ServiceOK(dec') /\ ServiceOK(str')
  BY <1>1 DEF PipelineOK, CaptureOK, ServiceOK, InSession, WillEnd, Gone, Fresh, Real
<1>7. QED  BY <1>3, <1>4, <1>5, <1>6 DEF PipelineOK

-----------------------------------------------------------------------------
\* A step of the control thread keeps the invariant.

\* It never adds a frame: it makes a queue anew or throws away what is in it.
Emptied(q) == {q, EmptyQueue, Discard(q)}

LEMMA EmptiedProperties ==
  ASSUME NEW q \in Queue, NEW capacity \in Nat \ {0}, Len(q.items) <= capacity,
         NEW r \in Emptied(q)
  PROVE  /\ r \in Queue /\ Len(r.items) <= capacity
         /\ ItemsOf(r) \subseteq ItemsOf(q)
         /\ Sorted(q) => Sorted(r)
<1>1. CASE r = q
  BY <1>1
<1>2. CASE r = EmptyQueue \/ r = Discard(q)
  <2>1. PICK closed \in BOOLEAN : r = [items |-> <<>>, closed |-> closed]
    BY <1>2 DEF EmptyQueue, Discard
  <2>2. <<>> \in Seq(Frame) /\ Len(<<>>) = 0 /\ DOMAIN <<>> = {}
    OBVIOUS
  <2>3. r \in Queue
    BY <2>1, <2>2 DEF Queue
  <2>4. ItemsOf(r) = {} /\ Sorted(r)
    BY <2>1, <2>2 DEF ItemsOf, Sorted
  <2>5. QED  BY <2>1, <2>2, <2>3, <2>4
<1>3. QED  BY <1>1, <1>2 DEF Emptied

LEMMA ControlThreadKeeps ==
  ASSUME PipelineOK,
         cap' \in Capture, dec' \in Service, str' \in Service, ctl' \in Control,
         dec'.cur = dec.cur, str'.cur = str.cur, UNCHANGED <<ai, frames, published>>,
         jpeg' \in Emptied(jpeg), raw' \in Emptied(raw),
         ControlOK', CaptureOK', ServiceOK(dec'), ServiceOK(str')
  PROVE  PipelineOK'
<1>1. Typed /\ FramesOK /\ OrderOK
  BY DEF PipelineOK
<1>2. jpeg' \in Queue /\ Len(jpeg'.items) <= JpegCapacity
      /\ ItemsOf(jpeg') \subseteq ItemsOf(jpeg) /\ Sorted(jpeg')
  <2>1. /\ jpeg \in Queue /\ Len(jpeg.items) <= JpegCapacity /\ Sorted(jpeg)
        /\ JpegCapacity \in Nat \ {0}
    BY <1>1, PipelineAssumption DEF Typed, OrderOK
  <2>2. \A q \in Emptied(jpeg) : /\ q \in Queue /\ Len(q.items) <= JpegCapacity
                               /\ ItemsOf(q) \subseteq ItemsOf(jpeg) /\ Sorted(q)
    BY <2>1, EmptiedProperties
  <2>3. QED  BY <2>2
<1>3. raw' \in Queue /\ Len(raw'.items) <= RawCapacity
      /\ ItemsOf(raw') \subseteq ItemsOf(raw) /\ Sorted(raw')
  <2>1. /\ raw \in Queue /\ Len(raw.items) <= RawCapacity /\ Sorted(raw)
        /\ RawCapacity \in Nat \ {0}
    BY <1>1, PipelineAssumption DEF Typed, OrderOK
  <2>2. \A q \in Emptied(raw) : /\ q \in Queue /\ Len(q.items) <= RawCapacity
                               /\ ItemsOf(q) \subseteq ItemsOf(raw) /\ Sorted(q)
    BY <2>1, EmptiedProperties
  <2>3. QED  BY <2>2
<1>4. Typed'
  BY <1>1, <1>2, <1>3 DEF Typed
<1>5. FramesOK'
  BY <1>1, <1>2, <1>3 DEF FramesOK
<1>6. OrderOK'
  BY <1>1, <1>2, <1>3 DEF OrderOK, Before, BeforeAll
<1>7. QED  BY <1>4, <1>5, <1>6 DEF PipelineOK

LEMMA StartStep ==
  ASSUME PipelineOK, Start
  PROVE  PipelineOK'
<1>1. Typed /\ ControlOK /\ CaptureOK /\ ServiceOK(dec) /\ ServiceOK(str)
  BY DEF PipelineOK
<1>2. cap \in Capture /\ dec \in Service /\ str \in Service /\ ctl \in Control
  BY <1>1 DEF Typed
<1>3. "loop" \in CapPlaces /\ "loop" \in Places /\ {"running", "failed"} \subseteq States
      /\ 0 \in 0..MaxSessions /\ 0 \in 0..(MaxTimeouts - 1)
  BY PipelineAssumption DEF CapPlaces, Places, States
<1>3a. Rollback => ctl' \in Control
  <2>1. 1 \in 1..3
    OBVIOUS
  <2>2. QED  BY <1>2, <2>1 DEF Rollback, Control
<1> USE DEF StartAt, StartFailsAt, Emptied
<1>4. CASE CapStart
  <2>1. cap' \in Capture /\ ctl' \in Control
    BY <1>2, <1>3, <1>4 DEF CapStart, Capture, Control
  <2>2. CaptureOK' /\ ServiceOK(dec') /\ ServiceOK(str') /\ ControlOK'
    BY <1>1, <1>2, <1>4
       DEF CapStart, CaptureOK, ServiceOK, InSession, Fresh, Real, Capture, Control, EmptyQueue,
           ControlOK, StartOK, StopOK, AskedInOrder, WillEnd, Works, Gone
  <2>3. QED  BY <1>2, <1>4, <2>1, <2>2, ControlThreadKeeps DEF CapStart
<1>5. CASE CapStartFails
  <2>1. cap' \in Capture /\ ctl' \in Control
    BY <1>2, <1>3, <1>5, <1>3a DEF CapStartFails, Capture
  <2>2. CaptureOK' /\ ServiceOK(dec') /\ ServiceOK(str') /\ ControlOK'
    BY <1>1, <1>2, <1>5
       DEF CapStartFails, Rollback, CaptureOK, ServiceOK, InSession, Fresh, Real, Capture, Control, Discard,
           ControlOK, StartOK, StopOK, AskedInOrder, WillEnd, Works, Gone
  <2>3. QED  BY <1>2, <1>5, <2>1, <2>2, ControlThreadKeeps DEF CapStartFails
<1>6. CASE DecStart
  <2>1. dec' \in Service /\ ctl' \in Control
    BY <1>2, <1>3, <1>6 DEF DecStart, Service, Control
  <2>2. CaptureOK' /\ ServiceOK(dec') /\ ServiceOK(str') /\ ControlOK'
    BY <1>1, <1>2, <1>6
       DEF DecStart, CaptureOK, ServiceOK, InSession, Fresh, Real, Service, Control, EmptyQueue,
           ControlOK, StartOK, StopOK, AskedInOrder, WillEnd, Works, Gone
  <2>3. QED  BY <1>2, <1>6, <2>1, <2>2, ControlThreadKeeps DEF DecStart, Service
<1>7. CASE DecStartFails
  <2>1. /\ dec' = [Closed(dec) EXCEPT !.state = "failed", !.stop = FALSE]
        /\ Closed(dec) \in Service /\ Fresh(Closed(dec))
    BY <1>2, <1>7, ClosedProperties DEF DecStartFails
  <2>2. /\ dec' \in Service /\ ctl' \in Control /\ Fresh(dec') /\ dec'.cur = dec.cur
        /\ dec'.pc = dec.pc /\ dec'.state = "failed" /\ ~dec'.stop
    <3>1. ctl' \in Control
      BY <1>7, <1>3a DEF DecStartFails
    <3>2. QED  BY <1>2, <1>3, <2>1, <3>1, ClosedProperties DEF Service, Fresh
  <2>3. Gone(dec) /\ Gone(str) /\ Works(cap)
    BY <1>1, <1>7 DEF DecStartFails, ControlOK, StartOK
  <2>4. CaptureOK' /\ ServiceOK(dec') /\ ServiceOK(str') /\ ControlOK'
    BY <1>1, <1>2, <1>7, <2>2, <2>3
       DEF DecStartFails, Rollback, CaptureOK, ServiceOK, InSession, Fresh, Real, Service, Control, Discard,
           ControlOK, StartOK, StopOK, AskedInOrder, WillEnd, Works, Gone
  <2>5. QED  BY <1>2, <1>7, <2>2, <2>4, ControlThreadKeeps DEF DecStartFails
<1>8. CASE StrStart
  <2>1. str' \in Service /\ ctl' \in Control
    BY <1>2, <1>3, <1>8 DEF StrStart, Service, Control
  <2>2. CaptureOK' /\ ServiceOK(dec') /\ ServiceOK(str') /\ ControlOK'
    BY <1>1, <1>2, <1>8
       DEF StrStart, CaptureOK, ServiceOK, InSession, Fresh, Real, Service, Control,
           ControlOK, StartOK, StopOK, AskedInOrder, WillEnd, Works, Gone
  <2>3. QED  BY <1>2, <1>8, <2>1, <2>2, ControlThreadKeeps DEF StrStart, Service
<1>9. CASE StrStartFails
  <2>1. str' \in Service /\ ctl' \in Control
    BY <1>2, <1>3, <1>9, <1>3a DEF StrStartFails, Service
  <2>2. CaptureOK' /\ ServiceOK(dec') /\ ServiceOK(str') /\ ControlOK'
    BY <1>1, <1>2, <1>9
       DEF StrStartFails, Rollback, CaptureOK, ServiceOK, InSession, Fresh, Real, Service, Control,
           ControlOK, StartOK, StopOK, AskedInOrder, WillEnd, Works, Gone
  <2>3. QED  BY <1>2, <1>9, <2>1, <2>2, ControlThreadKeeps DEF StrStartFails, Service
<1>10. QED  BY <1>4, <1>5, <1>6, <1>7, <1>8, <1>9 DEF Start

LEMMA AskStep ==
  ASSUME PipelineOK, StopRequested \/ AskFlag \/ AskDevice \/ AskQueue \/ Restart
  PROVE  PipelineOK'
<1>1. Typed /\ ControlOK /\ CaptureOK /\ ServiceOK(dec) /\ ServiceOK(str)
  BY DEF PipelineOK
<1>2. cap \in Capture /\ dec \in Service /\ str \in Service /\ ctl \in Control
  BY <1>1 DEF Typed
<1>3. "stopping" \in States /\ {1, 2, 3} \subseteq 1..3
  BY DEF States
<1> USE DEF Emptied
<1>4. CASE StopRequested
  <2>1. ctl' \in Control
    BY <1>2, <1>3, <1>4 DEF StopRequested, Rollback, Control
  <2>2. CaptureOK' /\ ServiceOK(dec') /\ ServiceOK(str') /\ ControlOK'
    BY <1>1, <1>2, <1>4
       DEF StopRequested, Rollback, Control, CaptureOK, ServiceOK, InSession, Fresh, Real,
           ControlOK, StartOK, StopOK, AskedInOrder, WillEnd, Works, Gone
  <2>3. QED  BY <1>2, <1>4, <2>1, <2>2, ControlThreadKeeps DEF StopRequested
<1>5. CASE AskFlag
  <2>1. ctl' \in Control
    BY <1>2, <1>3, <1>5 DEF AskFlag, Control
  <2>2. CASE ctl.at = "stream"
    <3>1. str' = [str EXCEPT !.stop = TRUE] /\ UNCHANGED <<cap, dec, jpeg, raw>>
      BY <1>5, <2>2 DEF AskFlag
    <3>2. CaptureOK' /\ ServiceOK(dec') /\ ServiceOK(str') /\ ControlOK'
      BY <1>1, <1>2, <1>5, <2>2, <3>1
         DEF AskFlag, CaptureOK, ServiceOK, InSession, Fresh, Real, Service, Control,
             ControlOK, StartOK, StopOK, AskedInOrder, WillEnd, Works, Gone
    <3>3. QED
      BY <1>2, <1>5, <2>1, <3>1, <3>2, ControlThreadKeeps DEF AskFlag, Service
  <2>3. CASE ctl.at = "decode"
    <3>1. dec' = [dec EXCEPT !.stop = TRUE] /\ UNCHANGED <<cap, str, jpeg, raw>>
      BY <1>5, <2>3 DEF AskFlag
    <3>2. CaptureOK' /\ ServiceOK(dec') /\ ServiceOK(str') /\ ControlOK'
      BY <1>1, <1>2, <1>5, <2>3, <3>1
         DEF AskFlag, CaptureOK, ServiceOK, InSession, Fresh, Real, Service, Control,
             ControlOK, StartOK, StopOK, AskedInOrder, WillEnd, Works, Gone
    <3>3. QED
      BY <1>2, <1>5, <2>1, <3>1, <3>2, ControlThreadKeeps DEF AskFlag, Service
  <2>4. CASE ctl.at = "capture"
    <3>1. cap' = [cap EXCEPT !.stop = TRUE, !.online = FALSE] /\ UNCHANGED <<dec, str, jpeg, raw>>
      BY <1>5, <2>4 DEF AskFlag
    <3>2. CaptureOK' /\ ServiceOK(dec') /\ ServiceOK(str') /\ ControlOK'
      BY <1>1, <1>2, <1>5, <2>4, <3>1
         DEF AskFlag, CaptureOK, ServiceOK, InSession, Fresh, Real, Capture, Control,
             ControlOK, StartOK, StopOK, AskedInOrder, WillEnd, Works, Gone
    <3>3. QED
      BY <1>2, <1>5, <2>1, <3>1, <3>2, ControlThreadKeeps DEF AskFlag, Capture
  <2>5. QED  BY <1>5, <2>2, <2>3, <2>4 DEF AskFlag
<1>6. CASE AskDevice
  <2>1. ctl' \in Control
    BY <1>2, <1>3, <1>6 DEF AskDevice, Control
  <2>2. CASE ctl.at = "stream"
    <3>1. str' = Asked(str) /\ UNCHANGED <<cap, dec, jpeg, raw>>
      BY <1>6, <2>2 DEF AskDevice
    <3>2. CaptureOK' /\ ServiceOK(dec') /\ ServiceOK(str') /\ ControlOK'
      BY <1>1, <1>2, <1>6, <2>2, <3>1
         DEF AskDevice, Asked, CaptureOK, ServiceOK, InSession, Fresh, Real, Service, Control,
             ControlOK, StartOK, StopOK, AskedInOrder, WillEnd, Works, Gone
    <3>3. QED
      BY <1>2, <1>3, <1>6, <2>1, <3>1, <3>2, ControlThreadKeeps DEF AskDevice, Asked, Service
  <2>3. CASE ctl.at = "decode"
    <3>1. dec' = Asked(dec) /\ UNCHANGED <<cap, str, jpeg, raw>>
      BY <1>6, <2>3 DEF AskDevice
    <3>2. CaptureOK' /\ ServiceOK(dec') /\ ServiceOK(str') /\ ControlOK'
      BY <1>1, <1>2, <1>6, <2>3, <3>1
         DEF AskDevice, Asked, CaptureOK, ServiceOK, InSession, Fresh, Real, Service, Control,
             ControlOK, StartOK, StopOK, AskedInOrder, WillEnd, Works, Gone
    <3>3. QED
      BY <1>2, <1>3, <1>6, <2>1, <3>1, <3>2, ControlThreadKeeps DEF AskDevice, Asked, Service
  <2>4. CASE ctl.at = "capture"
    <3>1. cap' = Asked(cap) /\ UNCHANGED <<dec, str, jpeg, raw>>
      BY <1>6, <2>4 DEF AskDevice
    <3>2. CaptureOK' /\ ServiceOK(dec') /\ ServiceOK(str') /\ ControlOK'
      BY <1>1, <1>2, <1>6, <2>4, <3>1
         DEF AskDevice, Asked, CaptureOK, ServiceOK, InSession, Fresh, Real, Capture, Control,
             ControlOK, StartOK, StopOK, AskedInOrder, WillEnd, Works, Gone
    <3>3. QED
      BY <1>2, <1>3, <1>6, <2>1, <3>1, <3>2, ControlThreadKeeps DEF AskDevice, Asked, Capture
  <2>5. QED  BY <1>6, <2>2, <2>3, <2>4 DEF AskDevice
<1>7. CASE AskQueue
  <2>1. ctl' \in Control
    BY <1>2, <1>3, <1>7 DEF AskQueue, Control
  <2>2. CaptureOK' /\ ServiceOK(dec') /\ ServiceOK(str')
    BY <1>1, <1>7 DEF AskQueue, CaptureOK, ServiceOK, InSession, Fresh, Real, WillEnd, Gone
  <2>3. ControlOK'
    <3> USE DEF ControlOK, StartOK, StopOK, AskedInOrder, WillEnd, Works, Gone
    <3>1. CASE ctl.at = "stream"
      <4>1. /\ ctl' = [ctl EXCEPT !.at = "decode", !.step = 1]
            /\ UNCHANGED <<cap, dec, str, jpeg, raw>>
        BY <1>7, <3>1 DEF AskQueue
      <4>2. str.stop /\ ctl.phase = "requesting"
        BY <1>1, <1>2, <1>7, <3>1 DEF AskQueue
      <4>3. QED  BY <1>1, <1>2, <4>1, <4>2 DEF Control
    <3>2. CASE ctl.at = "decode"
      <4>1. ctl' = [ctl EXCEPT !.at = "capture", !.step = 1] /\ UNCHANGED <<cap, dec, str, jpeg>>
        BY <1>7, <3>2 DEF AskQueue
      <4>2. dec.stop /\ WillEnd(str) /\ ctl.phase = "requesting"
        BY <1>1, <1>2, <1>7, <3>2 DEF AskQueue
      <4>3. QED  BY <1>1, <1>2, <4>1, <4>2 DEF Control
    <3>3. CASE ctl.at = "capture"
      <4>1. ctl' = [ctl EXCEPT !.phase = "joining", !.at = "stream"] /\ UNCHANGED <<cap, dec, str, raw>>
        BY <1>7, <3>3 DEF AskQueue
      <4>2. cap.stop /\ WillEnd(dec) /\ WillEnd(str)
        BY <1>1, <1>2, <1>7, <3>3 DEF AskQueue
      <4>3. QED  BY <1>1, <1>2, <4>1, <4>2 DEF Control
    <3>4. QED  BY <1>7, <3>1, <3>2, <3>3 DEF AskQueue
  <2>4. QED  BY <1>2, <1>7, <2>1, <2>2, <2>3, ControlThreadKeeps DEF AskQueue
<1>8. CASE Restart
  <2>1. ctl' \in Control
    <3>1. ctl.runs + 1 \in Nat
      BY <1>2 DEF Control
    <3>2. QED  BY <1>2, <1>3, <1>8, <3>1 DEF Restart, Control
  <2>2. CaptureOK' /\ ServiceOK(dec') /\ ServiceOK(str') /\ ControlOK'
    BY <1>1, <1>2, <1>8
       DEF Restart, Control, CaptureOK, ServiceOK, InSession, Fresh, Real,
           ControlOK, StartOK, StopOK, AskedInOrder, WillEnd, Works, Gone
  <2>3. QED  BY <1>2, <1>8, <2>1, <2>2, ControlThreadKeeps DEF Restart
<1>9. QED  BY <1>4, <1>5, <1>6, <1>7, <1>8

LEMMA JoinStep ==
  ASSUME PipelineOK, JoinStream \/ JoinDecode \/ JoinCapture
  PROVE  PipelineOK'
<1>1. Typed /\ ControlOK /\ CaptureOK /\ ServiceOK(dec) /\ ServiceOK(str)
  BY DEF PipelineOK
<1>2. cap \in Capture /\ dec \in Service /\ str \in Service /\ ctl \in Control
  BY <1>1 DEF Typed
<1>3. "none" \in CapPlaces /\ "none" \in Places /\ "stopped" \in States
  BY DEF CapPlaces, Places, States
<1> USE DEF Emptied, Ended, Joined
<1>4. CASE JoinStream
  <2>1. str' \in Service /\ ctl' \in Control
    BY <1>2, <1>3, <1>4 DEF JoinStream, Service, Control
  <2>2. CaptureOK' /\ ServiceOK(dec') /\ ServiceOK(str') /\ ControlOK'
    BY <1>1, <1>2, <1>4
       DEF JoinStream, CaptureOK, ServiceOK, InSession, Fresh, Real, Service, Control,
           ControlOK, StartOK, StopOK, AskedInOrder, WillEnd, Works, Gone
  <2>3. QED  BY <1>2, <1>4, <2>1, <2>2, ControlThreadKeeps DEF JoinStream, Service
<1>5. CASE JoinDecode
  <2>1. dec' \in Service /\ ctl' \in Control
    BY <1>2, <1>3, <1>5 DEF JoinDecode, Service, Control
  <2>2. CaptureOK' /\ ServiceOK(dec') /\ ServiceOK(str') /\ ControlOK'
    BY <1>1, <1>2, <1>5
       DEF JoinDecode, CaptureOK, ServiceOK, InSession, Fresh, Real, Service, Control,
           ControlOK, StartOK, StopOK, AskedInOrder, WillEnd, Works, Gone
  <2>3. QED  BY <1>2, <1>5, <2>1, <2>2, ControlThreadKeeps DEF JoinDecode, Service
<1>6. CASE JoinCapture
  <2>1. cap' \in Capture /\ ctl' \in Control
    BY <1>2, <1>3, <1>6 DEF JoinCapture, Capture, Control
  <2>2. CaptureOK' /\ ServiceOK(dec') /\ ServiceOK(str') /\ ControlOK'
    BY <1>1, <1>2, <1>6
       DEF JoinCapture, CaptureOK, ServiceOK, InSession, Fresh, Real, Capture, Control,
           ControlOK, StartOK, StopOK, AskedInOrder, WillEnd, Works, Gone
  <2>3. QED  BY <1>2, <1>6, <2>1, <2>2, ControlThreadKeeps DEF JoinCapture, Capture
<1>7. QED  BY <1>4, <1>5, <1>6

-----------------------------------------------------------------------------
LEMMA PipelineInit == Init => PipelineOK
<1> SUFFICES ASSUME Init PROVE PipelineOK
  OBVIOUS
<1>1. /\ 0 \in 0..MaxSessions /\ 0 \in 0..MaxFrames /\ 0 \in 0..(MaxTimeouts - 1)
      /\ {} \in SUBSET (0..MaxSessions) /\ 1 \in 1..3 /\ 1 \in Nat
  BY PipelineAssumption
<1>2. NoFrame \in Frame /\ NoFrame.id = 0
  BY <1>1 DEF NoFrame, Frame
<1>3. /\ EmptyQueue \in Queue /\ Len(EmptyQueue.items) = 0
      /\ ItemsOf(EmptyQueue) = {} /\ Sorted(EmptyQueue) /\ ~EmptyQueue.closed
  BY DEF EmptyQueue, Queue, ItemsOf, Sorted
<1>4. cap \in Capture /\ dec \in Service /\ str \in Service /\ ctl \in Control
  BY <1>1, <1>2 DEF Init, Capture, CapPlaces, Service, Places, States, Control
<1>5. Typed
  BY <1>1, <1>2, <1>3, <1>4, PipelineAssumption DEF Init, Typed
<1>6. ControlOK
  BY <1>3 DEF Init, ControlOK, StartOK, StopOK, AskedInOrder, Gone, Works, WillEnd
<1>7. CaptureOK /\ ServiceOK(dec) /\ ServiceOK(str)
  BY DEF Init, CaptureOK, ServiceOK, InSession, Fresh, WillEnd, Gone
<1>8. FramesOK
  BY <1>3 DEF Init, FramesOK
<1>9. OrderOK
  BY <1>2, <1>3 DEF Init, OrderOK, Before, BeforeAll
<1>10. QED  BY <1>5, <1>6, <1>7, <1>8, <1>9 DEF PipelineOK

LEMMA PipelineStep == PipelineOK /\ [Next]_vars => PipelineOK'
<1> SUFFICES ASSUME PipelineOK, [Next]_vars PROVE PipelineOK'
  OBVIOUS
<1>1. CASE UNCHANGED vars
  <2>1. ItemsOf(jpeg') = ItemsOf(jpeg) /\ ItemsOf(raw') = ItemsOf(raw)
    BY <1>1 DEF vars
  <2>2. OrderOK' /\ FramesOK'
    BY <1>1, <2>1 DEF vars, PipelineOK, OrderOK, FramesOK, Sorted, Before, BeforeAll
  <2>3. Typed' /\ CaptureOK' /\ ServiceOK(dec') /\ ServiceOK(str')
    BY <1>1 DEF vars, PipelineOK, Typed, CaptureOK, ServiceOK, InSession, Fresh, Real, WillEnd, Gone
  <2>4. ControlOK'
    BY <1>1 DEF vars, PipelineOK, ControlOK, StartOK, StopOK, AskedInOrder, Gone, Works, WillEnd
  <2>5. QED  BY <2>2, <2>3, <2>4 DEF PipelineOK
<1>2. QED
  BY <1>1, CaptureStep, DecodeStep, StreamStep, AiStep, StartStep, AskStep, JoinStep
     DEF Next, Stop, Stopped

LEMMA PipelineInvariant == Spec => []PipelineOK
BY PipelineInit, PipelineStep, PTL DEF Spec

-----------------------------------------------------------------------------
\* Every variable keeps its type: the queues never exceed their capacity, and the
\* counters of frames, sessions and timeouts stay within their bounds.
THEOREM PipelineTypeCorrect == Spec => []TypeOK
<1>1. PipelineOK => TypeOK
  BY DEF PipelineOK, Typed, TypeOK, Capture, Service
<1>2. QED  BY <1>1, PipelineInvariant, PTL

\* A decoder or an encoder never gets frames of two camera sessions, whatever
\* retries, device failures and restarts do: each new session is met with a
\* device closed and opened again (video_process_service.cpp:130-141).
THEOREM NoDeviceMixesSessions == Spec => []SessionsArePure
<1>1. PipelineOK => SessionsArePure
  BY DEF PipelineOK, ServiceOK, SessionsArePure
<1>2. QED  BY <1>1, PipelineInvariant, PTL

\* The image of a picture is always the one its metadata describes, because the
\* decoder is closed after every deadline that passed: no picture it still owes is
\* handed out under the name of the next frame.
THEOREM PixelsAreTheirOwn == Spec => []PixelsMatchMetadata
<1>1. NoFrame.image = NoFrame.id
  BY DEF NoFrame
<1>2. PipelineOK => PixelsMatchMetadata
  BY <1>1 DEF PipelineOK, FramesOK, Real, ItemsOf, PixelsMatchMetadata
<1>3. QED  BY <1>2, PipelineInvariant, PTL

\* No path leads to open() with the device still open: not a retry, not a new
\* camera session, not the restart after a stop that caught the worker anywhere.
THEOREM DevicesOpenOnce == Spec => []NeverOpenedTwice
<1>1. PipelineOK => NeverOpenedTwice
  BY DEF PipelineOK, CaptureOK, ServiceOK, Fresh, NeverOpenedTwice
<1>2. QED  BY <1>1, PipelineInvariant, PTL

\* No service fails because of another one: a queue is closed only after the
\* services on both sides of it were asked to stop.
THEOREM FailuresStayLocal == Spec => []NoServiceFailsForAnother
<1>1. PipelineOK => NoServiceFailsForAnother
  <2> SUFFICES ASSUME PipelineOK PROVE NoServiceFailsForAnother
    OBVIOUS
  <2>1. ctl.phase = "running" => ~jpeg.closed /\ ~raw.closed
    BY DEF PipelineOK, ControlOK, StartOK, AskedInOrder, WillEnd, Works
  <2>2. \A service \in {cap, dec, str} : service.pc = "done" => service.stop
    BY DEF PipelineOK, CaptureOK, ServiceOK
  <2>3. \A service \in {dec, str} : service.state = "degraded" => service.error # "closed"
    BY DEF PipelineOK, ServiceOK
  <2>4. QED  BY <2>1, <2>2, <2>3 DEF NoServiceFailsForAnother
<1>2. QED  BY <1>1, PipelineInvariant, PTL

\* Once the capture worker ended the camera is reported offline, also when a stop
\* request cleared the flag and an open() that was under way set it again.
THEOREM StoppedIsOffline == Spec => []OfflineOnceStopped
<1>1. PipelineOK => OfflineOnceStopped
  BY DEF PipelineOK, CaptureOK, OfflineOnceStopped
<1>2. QED  BY <1>1, PipelineInvariant, PTL

\* The publisher gets frames in the order of their capture and none twice.
THEOREM FramesArriveInOrder == Spec => FramesStayInOrder
<1>1. PipelineOK /\ [Next]_vars => [StrWrite /\ ~str.devStop => published' > published]_vars
  <2> SUFFICES ASSUME PipelineOK, StrWrite, ~str.devStop PROVE published' > published
    OBVIOUS
  <2>1. published' = str.cur.id /\ Real(str.cur)
    BY DEF PipelineOK, ServiceOK, StrWrite, Str
  <2>2. str.cur # NoFrame /\ published \in Nat /\ str.cur.id \in Nat
    BY <2>1, IdsAreNumbers DEF PipelineOK, Real, NoFrame
  <2>3. published < str.cur.id
    BY <2>2 DEF PipelineOK, OrderOK, Before
  <2>4. QED  BY <2>1, <2>2, <2>3
<1>2. QED  BY <1>1, PipelineInvariant, PTL DEF Spec, FramesStayInOrder
=============================================================================
