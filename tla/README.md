# rk-edge-monitor: specifications, model checking and proofs

This directory holds TLA+ specifications of rk-edge-monitor, the runs that
model-check them with TLC and the proofs that TLAPS checks. The reference is the
source; paths below are relative to the repository's root.

## 1. The system

`rkmon` is one C++ process on an RK3588 board. It captures MJPEG frames from a USB
camera, decodes them in hardware, detects objects on the NPU, publishes the video
over RTSP, reports the device's status over MQTT and bridges an STM32 board between
a UART and MQTT. A second process (`src/recording`, Python) indexes the recordings
and serves the advertisement playlist, a third (`src/display`) shows both on a
local screen.

### 1.1 Components, their state and their operations

| component | state | operations | talks to |
|---|---|---|---|
| bounded queue, mailbox (`include/core/bounded_queue.hpp`, `mailbox.hpp`) | items, `closed_`, drop counter, a mutex, two condition variables | `push`, `try_push` (reject or drop oldest), `pop`, `try_pop`, `pop_for`, `close` (drain or discard) | every pair of threads that exchange frames or events |
| service contract and manager (`core/service.hpp`, `core/service_manager`) | list of services, how many were attempted, `started_` | `add`, `start_all` with rollback, `stop_all` in two phases | `start`, `request_stop`, `join` of each service |
| application and signal thread (`app/application.cpp`, `app/main.cpp`) | control mailbox, `service_failed_`, the logger, the manager | `run`, `request_stop`, the fault reporters, `shutdown`; `SignalWaiter` | the manager; workers call the reporters, the signal thread calls `request_stop` |
| capture (`camera/video_capture_service.cpp`, `v4l2_video_source.cpp`) | worker, `stop_`, `online_`, generation, timeout count; the device and its own stop flag | `start`, `run`, `request_stop`, `join` | pushes JPEG frames to decode, `online_` is read by the MQTT status |
| decode, stream (`media/services`, `media/gstreamer`) | worker, `stop_`, current generation; decoder, publisher and their stop flags | the same | decode pushes to the stream queue and to the AI queue |
| thread pool (`core/thread_pool.hpp`) | one slot (task, busy) per worker, a shared condition variable | `try_submit`, `request_stop`, `join`, the worker loop | inference |
| inference (`ai/inference_service.cpp`, `result_writer.cpp`) | queue of one frame, per worker a job and a future, the snapshot on disk | coordinator loop: pop, harvest, reopen, dispatch, heartbeat | pool, detectors, snapshot file, datagrams to the recording index |
| UART protocol (`stm32/protocol.cpp`) | the parser's buffer, the start of its candidate | `feed`, `reset` | fed by the STM32 service's serial thread |
| STM32 (`stm32/stm32_service.cpp`) | last sample, command queue (16), event cache (32), one mutex | serial thread, MQTT thread, `request_stop` | the board, the broker |
| device status (`mqtt/device_status_service.cpp`, `mqtt_client.cpp`) | socket, retry and publish times | connect with a will, publish, disconnect | the broker |
| recording index (`recording/service.py`, class `Store`) | tables `recordings` and `events`, the recordings' directory, the events in memory | one worker: datagrams, directory scan, cleanup, flush | MediaMTX hooks, inference |
| ad store (`recording/service.py`, class `AdStore`) | table `ads`, `videos/`, `playlist.json`, `display-mode` | HTTP threads: upload, delete, reorder, set the mode | browsers, the display |
| display (`display/main.cpp`, `ad_reader`, `video_reader`) | per reader the newest picture and its place; what the screen shows | two reader threads, the main loop | RTSP, the ad store's files |

### 1.2 Hard behaviours, and what is right

- *Queues*. A notification is sent after the mutex is released and condition
  variables wake spuriously. Right: first in first out, the newest `Capacity`
  payloads, nothing after `close`, nobody sleeps beside what he waits for.
- *Start and stop*. A service may fail in `start()` after it made a thread; workers
  block on one another's queues; a fault, a signal and the end of the run may come
  together. Right: all or nothing, everyone asked before anyone is joined, every
  fault and failed start gives exit code 1, every request ends the process.
- *Devices and sessions*. `open()` clears the stop flag of a device that
  `request_stop` sets from another thread; frames of an old camera session are still
  queued when the new one begins; a timed-out decode delivers its picture later.
  Right: no stop is lost, sessions do not mix, a picture carries the metadata of its
  own JPEG.
- *Inference*. Workers fail, finish late and in any order; files cannot be written.
  Right: results in capture order, a detector is used by its own thread while open
  and by nobody afterwards, a stale result is reported as such.
- *Retries towards the outside*. Half written commands, old sockets that are read
  after new ones, wills. Right: a command is never replayed and always answered
  once; the retained status ends up true.
- *The serial line*. Noise, false starts, wrong lengths, a reader that is late. Right:
  what is returned was sent, and whatever arrived intact in time is returned.
- *Files and indexes*. Notifications come late, swapped or never, a deletion is cut off
  between its steps, a file stalls and grows again; a save of an event fails. Right: what the
  page offers to play is on the disk, and the index says in the end what is there;
  each event has one row that tells what was seen.
- *Requests at once*. Uploads, deletions and reorderings interleave and break off
  anywhere. Right: an answered upload keeps its file, the screen is given accepted ads only.
- *Two sources for one screen*. Mode and playlist change at any moment. Right: no
  picture of the other source or of a time long ago, every ad gets its turn, live
  pictures return.

## 2. Modules

| module | code | role |
|---|---|---|
| `QueueContract` | `bounded_queue.hpp` | abstract: each operation is one guarded command |
| `BoundedQueue` | `bounded_queue.hpp` | mutex, condition variables, timeouts, spurious wakeups; implements `QueueContract` |
| `BoundedQueueProofs` | | theorems about `BoundedQueue` |
| `ServiceManager` | `service_manager.*`, `service.hpp` | start, rollback, stop in two phases |
| `Application` | `application.cpp`, `main.cpp` | EXTENDS `ServiceManager` with reporters, mailbox, signal thread and exit code |
| `ApplicationProofs` | | theorems about `ServiceManager` and `Application` |
| `VideoPipeline` | `camera/`, `media/services/`, `media/gstreamer/` | capture, decode, stream, their devices and queues, and the control thread |
| `VideoPipelineProofs` | | theorems about `VideoPipeline` |
| `ThreadPool` | `thread_pool.hpp` | slots, futures and the shared condition variable |
| `InferenceService` | `ai/` | EXTENDS `ThreadPool` with the coordinator |
| `InferenceServiceProofs` | | theorems about `ThreadPool` and `InferenceService` |
| `FrameParser` | `stm32/protocol.cpp` | the parser, one byte or one iteration of its loop per step |
| `FrameParserProofs` | | theorems about `FrameParser` |
| `Stm32Service` | `stm32_service.cpp` | both threads and what they share |
| `Stm32ServiceProofs` | | theorems about `Stm32Service` |
| `DeviceStatus` | `device_status_service.cpp`, `mqtt_client.cpp` | the client of the status topic, TCP and the broker |
| `RecordingIndex` | `recording/service.py`, `notify.py` | the segment index: hooks, scan, cleanup, restarts |
| `RecordingEvents` | `recording/service.py` | EXTENDS `RecordingIndex` with the detections the same worker receives |
| `RecordingEventsProofs` | | theorems about `RecordingIndex` and `RecordingEvents` |
| `PlayableAds` | `recording/service.py` | abstract: what the screen can find in `ads_root` |
| `AdStore` | `recording/service.py` | HTTP threads over table, files and playlist; implements `PlayableAds` |
| `AdDisplay` | `display/` | EXTENDS `PlayableAds` with both readers and the main loop |
| `AdScreen` | both, `rkmon-display.service` | composes `AdStore` and `AdDisplay`, two processes over the same files |
| `AdScreenProofs` | | theorems about `AdStore`, `AdDisplay` and `AdScreen` |
| `MC...` | | one per module: the definitions a `.cfg` gives to constants |

### 2.1 How state and steps correspond to the code

*Granularity.* A critical section is one step, and so is a call on a device, a socket
or a file. What happens between an unlock and the next lock, as `notify_one` after the
unlock, is a step of its own, so that other threads run in between. An atomic that is
read right after a blocking call returned is read in the step of that return.

*BoundedQueue.* `queue`, `closed`, `dropped` are the members of the same name; payloads
are numbered in the order of their pushes and `fate` remembers what became of each.
`pc[t]` says where thread `t` is inside its `call[t]`; the threads at `"waitNotEmpty"` and
`"waitNotFull"` are the wait sets of the two condition variables. `SpuriousWakeup` and `Timeout`
wake a thread without a notification.

*ServiceManager.* `services`, `attempted`, `started` are the members; `cursor` is the index
of the loop that runs, `phase` says which loop. `WaitsFor` says whose stop a worker needs
before it can end. The named assumption that these are services added earlier is what
`make_service_factory` builds.

*Application.* `app` is the control thread's place in `run`, `mail` counts the events in the
mailbox, `closedBy` remembers who closed it first. A reporter has one step for
`service_failed_`, one for the push and, when the push is refused, two for
`request_stop` (`closed()`, then `close`).

*VideoPipeline.* Each service is a record: the worker's `pc`, its atomics, and of its device
`devStop` (the flag `open()` clears) and `devOpen`. A frame is its session (`gen`), its number
(`id`) and the picture it carries (`image`), so a picture under foreign metadata shows. The
hardware decoder and the publisher remember which sessions they were given (`session`) and
the decoder the picture of a timed-out JPEG (`late`).

*ThreadPool, InferenceService.* `thread[i]` is worker `i`'s place in `ThreadPool::run`; `"wait"` is
the wait set. The coordinator is the pool's one client. `job[i]` is `workers[i].job`. Frames are
pairs of session and sequence number. The coordinator looks at its stop flag in the loop's
condition and again after the wait for a frame, and leaves by its exception handler when a task
finds no memory (`CoThrows`). In the composition the pool does not wake
spuriously: a spurious wakeup only repeats the test of the predicate, and the run
`pool` has them.

*Stm32Service.* `commands` and `events` are the two deques; the cap of 32 events is
`EventCapacity`. A command carries the sessions it was accepted in and a number (in the code
`sequence`), which only the properties read. `serial.pc` `"sent"` and `"unknown"` are the two exits
of `port.write`.

*DeviceStatus.* `wire[c]` holds the packets of connection `c` the broker has not read,
`dead` the connections that carry nothing any more. What the broker does is modelled
from MQTT 3.1.1 and marked external in the map.

*RecordingIndex.* Segments are numbered in the order of their names. `version[s]` stands for the
size and mtime of a file, `quiet` for "unchanged for 90 s", `row[s]` for the status and `mtime_ns`
of its row. `pc` is the worker's place: `"inspect"` and `"probe"` while ffprobe runs for a message or
for the scan, `"unlink"` and `"forget"` between the three steps of a deletion. `todo` is what the
pass has still to look at. Only this worker writes the table, so the snapshots `indexed`
and `rows` are read from `row`. The recorder and its hook processes are external: a hook
stays in `hooks` until it is received or lost, in any order. Whether a cleanup wants a
row (age, free space, total size, each read again for every row) is a choice. An
exception that ends a message or a pass is `Fails`; an `OSError` while the scan looks at a file
(`LookFails`) is only logged, and the pass goes on with the next file and leaves the row as it is.
`inspect` looks at size and mtime once more itself, so a row may get a newer version than the one the
scan saw, or be left alone when the file grows under the probe. The failed probe of a scan marks the row `invalid` at that mtime whatever
the reason was, a timeout of a busy board included, and is not repeated.

*RecordingEvents.* The worker's places `"label"`, `"flush"` and `"farewell"` are the loops of
`receive`, of the flush and of the end of `run`. `active` is the dictionary of the same name, `events`
the table. A save is one step that succeeds or fails; a failed commit (`Noted`) leaves the
id in memory, since `save_event` notes it inside the transaction. `log`, `astray` and `lost`
are history: the detections taken, the ids whose event has no row of its own, and the
events that went with the process or were saved under such an id. `Feeds` says which
sender is there in a behaviour.

*FrameParser.* `received` is everything the port delivered and `base` how much of it was erased, so
`buffer_` is the rest, and positions never move. `candidate` is `candidate_` with the age of
`candidate_since_`. The parameter `LengthOf(_)` decodes the length field, `Checksum(_)` is the CRC.

*AdStore.* A request is a record whose `at` names its next step: one step per
transaction and per operation on a file. The list that `_write_playlist` read under
the lock stays in the request until it is written. `alone` is history: nobody else was
at work during the request.

*AdDisplay.* `reader` and `live` are the places of the two threads, `adPicture` and `livePicture`
their `latest_`, with the age in sessions of a live picture (`"this"`, `"last"`, `"older"`). `screen`
is the main loop: its place, the source it is switched to, what it shows, and whether
that is recent. The content may be anything `AdsOK` allows when the display starts and changes by the
actions of `PlayableAds`.

*AdScreen.* A step is a step of the store, which leaves the display alone, a step of one of the
display's threads, which leaves the store alone, or a start of the display: its unit has
`Restart=on-failure`, and the store, whose own crash and start are actions of `AdStore`, keeps what
is on disk. It is used by theorems; its two halves are the runs `ads` and `display`.

Names of the form `Action_Flaw` are wrong versions of an action. No specification uses
them; each shows that some property notices that flaw.

## 3. Runs

| run | instance | shows |
|---|---|---|
| `queue` | 3 threads that may call anything, capacity 2, 3 payloads | conservation and order of payloads, no lost wakeup, nothing accepted after `close`, and `BoundedQueue` implements `QueueContract` with its progress |
| `application` | 3 services, mailbox of 1, one signal | rollback and stop reach every thread, nothing is joined too early, every fault and every failed start, reported or not, reaches the exit code, every fault and signal ends the process (which a stop in one phase would not), no reporter runs after the services are gone |
| `video` | queues of 1 and 2, 2 camera sessions, 3 frames, 2 timeouts in a row | sessions stay pure, pictures keep their metadata, order of the published frames, no service fails for its neighbour |
| `video_restart` | started twice, failed starts included | no device opened twice, no stop is lost to an `open()` |
| `pool` | 3 workers, spurious wakeups | no sleeper missed, every future settled, `join` returns |
| `inference` | 2 detectors, 2 camera sessions | detectors used by the right thread while open, stale results reported, order of results, nothing left open |
| `stm32` | caches of 2, 3 commands, 2 serial sessions, 2 connections | one answer per command, no replay, no event lost but to the limit |
| `status` | 8 connections, 3 troubles | the retained status ends up `offline` after a stop or crash and `online` otherwise |
| `recording` | 2 segments of 2 sizes, 1 probe per scan, 2 failures (of a commit, an unlink or a look at a file), or 2 messages over 2 classes and 2 sources, 1 failed save; 1 restart | a playable row has its file at every moment; every segment ends up probed as it is, or gone with its row; every event has one true row |
| `parser` | every stream of 9 bytes over 3 values | frames returned are whole and disjoint, no intact frame is lost, silence empties the buffer |
| `ads` | 2 ads, 3 requests at a time | an answered upload keeps its file; an undisturbed change reaches the playlist; `AdStore` implements `PlayableAds` |
| `display` | 2 ads, any content at the start | no wrong or old picture, every ad gets its turn, live pictures return |

Every property of a passing run has at least one `Action_Flaw` that breaks it under the
same configuration (`PROJECT.json`, "mutants").

### 3.1 Bounds

Constants of the code (capacities, the number of services or workers, the timeout limit) are
small values of parameters. The other bounds only stop histories that repeat:

- `MaxItems` (queue): one more payload than the capacity, so that full, displaced and
  refused all happen; three threads are the least with two waiting on one side.
- `Count` (services): three have a first, a middle and a last one, so the loops'
  ends and a rollback from the middle differ.
- `MaxFrames`, `MaxSessions`, `MaxRuns` (video): a frame of the old session can be in each
  place (device, queue, decoder, publisher) when the first of the new one
  arrives. Restarts are checked with one frame, since what is carried over a restart
  is flags and devices.
- `MaxFeed` (inference): two frames of one session, or one frame in each of two.
- `MaxCommands`, `MaxFrames`, `MaxSessions` (stm32): more commands than the queue holds, and a
  reconnect of each side while commands wait.
- `MaxConnections`, `MaxTrouble` (status): each trouble costs at most two connections;
  the assumption `MaxConnections > 2 * MaxTrouble + 1` makes sure the client is never
  stopped by the bound.

- `Segments`, `MaxVersions`, `MaxProbes` (recording): one segment more than a scan probes, and a file
  that grows once more after it was probed. Deletions of different segments do not
  overlap, so failures and restarts at each of their steps show with one.
- `Feeds` (recording): a behaviour has the recorder or the detector, not both. The worker
  handles one message at a time and the two share only its steps and the cleanup,
  which deletes events in either case.
- `MaxMessages`, `MaxTime`, `MaxSources` (recording): two messages begin, extend, replace and
  retire an event, and two classes can get each other's row; five units of time leave room
  for a message after a cleanup that deletes a row whose event is still in memory.
- `MaxBytes` (parser): a header of four bytes, a checksum of one and a payload of five: as long
  as a frame without payload, so a false start may announce exactly what follows.
  Nine bytes hold two short frames that overlap in any way, or noise and a frame. The
  port is reopened while few bytes are in (`ResetWithin`); later it is the same again.
- `Ad`, `Client` (ads): one request reads, a second changes and a third writes between
  its steps. Ties of `sort_order` need three ads and are not reached.
- `Ad` (display): two ads, one of which may break, vanish or move to the other's place.

### 3.2 Fairness

- A thread that can take a step takes one (weak fairness of each thread's
  steps): threads of a process are scheduled. Nothing is assumed of callers (who
  submits, pushes, signals, plugs a camera in or asks for the stop is free not to).
- `BoundedQueue` adds strong fairness of `Timeout(t)`: the clock of `wait_for` runs also while the
  thread is woken and sleeps again.
- `ServiceManager`, `Application`: a worker that was asked to stop ends, once nobody it may be
  blocked on (`WaitsFor`) runs unasked (`ServiceStops`). That is all `request_stop` in `service.hpp`
  promises. A worker may also quit of its own accord at any time (`ServiceQuits`), but need not, so a
  manager that joined each service right after asking it would hang: `RequestStop_OneByOne` breaks
  both `FaultEndsProcess` and `SignalEndsProcess`. The services of the repository do better than
  promised: they poll with timeouts and look at their own stop flag, as `VideoPipeline` and
  `InferenceService` show. The manager does not rely on it, and the model does not either.
- `VideoPipeline`: device calls return. `v4l2` and GStreamer calls have timeouts in the code.
- `ThreadPool`: tasks end; a detection is one bounded NPU call.
- `DeviceStatus`: a call on a dead connection fails in the end (`SO_SNDTIMEO`,
  `SO_RCVTIMEO`), the broker reads every socket and enforces keepalives.
- `FrameParser`: the serial thread reads with a timeout of 20 ms and calls `feed` also with
  nothing, and the clock runs.
- `AdDisplay`: all three threads are scheduled, an ad ends or is given up by its timeouts, and a
  connected stream delivers pictures. Nothing is assumed of the content.
- `AdStore`: none; whether a request goes on is the client's affair too.
- `RecordingIndex`, `RecordingEvents`: the worker runs, is restarted by systemd and scans every 10 s; the recorder
  closes what it opened; a closed file becomes 90 s old. No hook need arrive, and commits and
  unlinks fail only finitely often: one that fails for ever stops every later
  deletion of the pass, in the code as in the model.

## 4. Theorems

Proved for every value of the constants, from the named assumptions on them in the
modules, each of which the code justifies:

- `QueueAssumption`: the capacity is positive, the set of threads finite;
- `ManagerAssumption`: any number of services, a worker waits only for services added
  before its own; `MailboxAssumption`: the mailbox has room for one event;
- `PoolAssumption`: at least one worker (the constructor throws otherwise);
- `PipelineAssumption`, `Stm32Assumption`: capacities and limits are positive;
- `ParserAssumption`: a header is longer than its start bytes, a length field decodes to a number;
- `RecordingAssumption`, `EventsAssumption`: a file has at least one size, a scan at least one probe;
- `AdAssumption`: finitely many numbered ads;
- `FeedAssumption` and the like: the bounds are numbers, of any size.

Most invariants are not inductive as they stand. Each paragraph names the strengthening
(`...OK`, the conjunction of its named parts and the types) and says why it is needed. TLC
checked each of them on the run's instance before it was proved.

**BoundedQueue.** `TypeCorrect`. `ContentsCorrect`: the queue is exactly the newest accepted payloads
that were neither taken nor displaced, in order; the invariant `ContentsOK` adds how `fate`
splits into a settled prefix and a pending suffix. `NoLostWakeup`: `SleepersAreCovered` counts. While somebody
sleeps for a payload there are at least as many notifications under way and consumers
awake as stored payloads, and the same for producers and free slots. It is not
inductive by itself: a notification that wakes a thread moves the cover from the one set to
the other only if the woken thread is in a call that looks at the queue, so `Awake` adds
`SleepersWait` (who sleeps in which call) to `ContentsOK`. Each step then moves one
thread between the counted sets, and lemmas on cardinalities give the bound. `ClosedForGood` is an action property.
`QueueRefinesContract`: by `InCall`, every step of the detailed queue is a step of the contract
or a stutter under the mapping that forgets the condition variables.

**ServiceManager.** `ManagerOK` adds `LoopsOK`, what the loops have done at `cursor`. From it:
`ManagerTypeCorrect`, `NoThreadLeftBehind`, and `TwoPhaseStop` (nobody is joined before everybody
was asked; joins run downwards), whose second part is `DependentsJoinedFirst`.

**Application.** `AppOK` is `ManagerOK` with six parts of its own: where the control thread is while the
manager's loops run (`CallsOK`), what a closed mailbox and a finished start say about each other
(`ClosedOK`, `StartOK`), that whoever is in the reporter is a service in its `start()` or
with a running worker (`ReportsOK`), that the manager rests from the destruction of the
services on (`DestroyedOK`), and what each failure has left behind so far (`FailureOK`). The exit
code is only read at the end, so the last says at each place who will still carry the failure
there: the flag, the closed mailbox, or the result. A start that fails without a report leaves only
its answer, so `ClosedOK` and `StartOK` follow that answer to the exit code. From it `AppTypeCorrect`, `FailuresAreReported` and `NobodyReportsToTheDead`.
`ApplicationUsesTheManager` shows that the application's steps are the manager's or leave it alone;
`ApplicationStopsInOrder` is what follows for a run cut short by a fault or a signal.

**VideoPipeline.** `PipelineOK` has four layers. `Typed`. `ControlOK`: in each phase, who is started
(`StartOK`), asked and joined (`StopOK`), and that a queue is closed only between services
that were asked (`AskedInOrder`). `CaptureOK` and `ServiceOK`: what a worker knows of its device at each
of its places, as that a device is closed before it is opened and that a decoder's
session is the one of the frame in hand. `FramesOK` and `OrderOK`: every frame on its way is whole, and
along stream, raw queue, decoder, JPEG queue and camera their numbers rise. That no queue
closes under a running neighbour, for one, is the control thread's order, not anything
the services do. The proof has one lemma per worker (`CaptureMoves`, `DecodeMoves`, `StreamMoves`)
that sums its steps up as an effect on its record and queues; the layers are then shown to
survive these effects and the control thread's steps, which only empty queues and set
flags. From it `PipelineTypeCorrect`, `NoDeviceMixesSessions`, `PixelsAreTheirOwn`, `DevicesOpenOnce`, `FailuresStayLocal`,
`StoppedIsOffline` and `FramesArriveInOrder`.

**ThreadPool.** `PoolOK` adds where a pending task is (`PendingIsHeld`), that a running worker keeps
its slot (`RunningHoldsSlot`) and that a leaving worker's slot is empty for good
(`LeaverHasNoTask`). From it `NoWakeupIsLost` and `EveryFutureIsSettled`.

**InferenceService.** `ServiceOK` is `PoolOK` with what the coordinator believes. `WorkerOK(i)` compares for each
worker its slot, its thread, its future, the job noted and the set of workers believed ready
with the detector itself: belief and truth differ only from the moment a thread settles its
future until the coordinator collects it, or once the thread has gone. `ClientOK` ties the stop and
the end to the pool's, and `OrderOK` says that the last result published is not newer than the
last one accepted. From it `ServiceTypeCorrect`, `DetectorsUsedProperly`, `StaleResultsAreReported`, `ServiceLeavesNothingOpen` and the action
property `ResultsInOrder`. `ServiceUsesThePool`: the service's steps are the pool's or leave it alone.

**Stm32Service.** `CommandsOK` adds to `ExactlyOneAnswer` and `CommandsAreNeverReplayed` that nothing waits
without a port or a connection (`PortOK`, `ConnectionOK`) and that numbers in the queue, in hand and
answered fit together (`NumbersOK`). Each of the ten serial and ten MQTT steps is first
summed up as one of six effects on the commands (it keeps, takes, writes, answers, rejects or
brings), and the invariant is shown for the effects. `EventsOK` adds to `NoEventIsSkipped` that an event about to
be popped was published. From these `Stm32TypeCorrect`, `CommandsAnsweredOnce`, `NothingReplayed` and `NoEventLost`.

**RecordingIndex.** `IndexOK` adds to the types that the file in a probe stays there (`ProbedIsThere`: the worker
that probes is the only one that deletes) and that the row of the file in a deletion
says so (`DeletedIsMarked`); without the latter the unlink could leave a playable row. From it
`RecordingTypeCorrect` and `PlayableRowsHaveFiles`; `PlayableRowsHaveFilesThroughout` says the same of `EventSpec`, in which
detections, saves and the stop interleave with the index on one worker.

**RecordingEvents.** The property computes what should be told from the log of detections by `Max`; the proof says it
by `Spans` (entry i belongs to the event that began with entry f), which an append changes in
one place only (`TrailGrows`), and `SummaryIs` says that both are one. `SeenOK` ties the three places that know of an event
together: an event in the memory ends in the log at the last detection of its source (`MemoryOK`); while
a class could go on, its event is in the memory (`LastIsActive`), so that a detection begins an event
exactly when the log does; an event without an id has no row, and one with an id has its own or is astray (`HeldOK`).
Without the last, an update could write to the row of another event, and a first save could tell an event twice. `SaveIsRight` is what
`save_event` does in either case; what is not the last of its event or is not accounted for
is `LossOK`. From it `EventsAreTold`: `EventsTellWhatWasSeen` for any number of detections, classes, sources, failed saves and
restarts.

**FrameParser.** `ParserOK` adds to the types and `DeliveredAreSound` that a waiting buffer begins with a candidate
that nothing refutes yet (`HeldIsUndecided`) and why each erased byte began no frame
(`ErasedForAReason`): it lies in a returned one, timed out, or was refuted. What refutes a
candidate stays true when bytes are appended, as the first lemmas say. From it `FramesAreSound`,
`ParserResynchronises`, `BufferIsBounded` and `ParserTypeCorrect`, for every length decoder and checksum.

**AdStore.** `StoreOK` says who is in charge of a file: one upload until it has
answered (`UploadsOK`), afterwards the deletes that found the row (`DeletesOK`). From it `AnsweredAdsStay`.
`StoreImplementsPlayableAds` is the whole refinement (`PlayableAds` states no fairness). `ListsOK` adds
that a list a request carries names accepted ads only, and `AcceptedStays` that no step takes an accepted
file back while the list is on its way. `SortedList` is the fact that a finite set has a list along any
strict total order: by it the query's answer exists and `NextPosition` is a number.
`UndisturbedChangesTakeEffect` needs `AloneOK`: as long as a request is alone, the list it carries or has
written is the table's.

**AdDisplay.** `DisplayOK` adds that what counts as recent is from the source switched to
(`RecentIsShown`) and that the video reader is enabled exactly while no ads are shown, so that a
leftover of its last session is taken before the mode is looked at again (`LeftoverOK`). From it
`ScreenFollowsSource` and `NoPictureFromLongAgo`.

**AdScreen.** Each process was checked with the other one abstracted: the store alone, and the display
over `PlayableAds`. `StoreBehindTheScreen` and `DisplayOnTheStore` discharge both: the composition behaves as `AdStore` says, and,
because `AdStore` implements `PlayableAds`, everything the display meets is what `AdDisplay` allows, its restarts included
(a restart begins in a state of `DisplayInit`, which is why that takes any content). `ScreenIsRight`
concludes that the screen's properties hold over the real store.

## 5. Only model-checked

- All liveness (`FaultEndsProcess`, `SignalEndsProcess`, `StopIsNeverLost`, `JoinReturns`, `OfflineInTheEnd`,
  `OnlineInTheEnd`, `EverySegmentSettles`, `SilenceEmptiesBuffer`, `EveryAdGetsItsTurn`, `FallsBackToLive`, the progress half of
  `ImplementsContract`): the prover does not reason about fairness and `ENABLED`.
- `DeviceStatus`, whose properties are all liveness.

Type invariants that neither a run nor a theorem names describe the variables.

## 6. Not modelled, and why

- Configuration parsing, JSON, logging, drawing, pixel and tensor arithmetic, RGA and
  DMA buffers: sequential code without state between calls.
- `ioctl` and GStreamer negotiation: the driver decides; the models take the outcomes
  as choices.
- `health()` texts, counters and statistics, except `detail_` of inference, which a
  property needs.
- `run_called_` of `Application`: `main` calls `run` once.
- In `Stm32Service` what the broker keeps of a connection; in `DeviceStatus` the camera field of the
  status (its source, `online_`, is in `VideoPipeline`).
- Of `recording/service.py` the HTTP readers (one query each, no state), the error text, the sizes that
  decide which rows a cleanup wants, and the confidences of events, which decide nothing.
  `RecordingEvents` does not set the clock back, which `receive` would answer with a new event.
- Of the display its labels, telemetry and weather, set-up and end.
- Third-party code, web pages, scripts, examples.

### 6.1 Where documents and code differ

Seen while modelling; the models follow the code.

- `docs/modules/camera.md:19`: device errors close the queue. The capture service keeps it
  open, degrades and retries.
- `docs/modules/media.md:20`: decode errors report a fault. The decode service degrades and retries
  without the fault handler.
- `docs/modules/recording.md:24`: events are written to SQLite. `save_event` (`recording/service.py:246`) notes the
  row's id before the commit. When that commit fails, the later updates of the event go
  to no row, or to the row of another event that was given the same id, whose
  end they then overwrite. `EventsTellWhatWasSeen` exempts exactly these ids (`astray`); without the
  exemption, two messages and one failed commit break it.
- `web/ads.html:13`: ads play in the order of the list. `_write_playlist` (`recording/service.py:492-499`) writes
  after the lock is released, so of two overlapping changes the older list may stay,
  until the next change. `ChangeTakesEffect` is about undisturbed ones.
- A delete that fails at its file or at the playlist (`recording/service.py:597-598`) leaves the ad in the
  playlist until the next change; the screen skips it once the file is gone.

## 7. Plan

Done, in this order: `QueueContract` and `BoundedQueue`; `ServiceManager` and `Application`; `VideoPipeline`; `ThreadPool` and
`InferenceService`; `Stm32Service` and `DeviceStatus`; `RecordingIndex`; `FrameParser`; `PlayableAds`, `AdStore` and `AdDisplay`;
`RecordingEvents`; `AdScreen`; the proofs of section 4.

Every invariant and action property that a run checks is proved (section 4). What is left to TLC is liveness
(section 5).

## 8. Running

    tlc -workers 2 -config queue.cfg MCBoundedQueue
    tlapm BoundedQueueProofs.tla

`PROJECT.json` lists each run's module and configuration, and the source lines of every
definition.
