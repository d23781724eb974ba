-------------------------- MODULE RecordingEvents --------------------------
(***************************************************************************)
(* The whole worker of the recording service (src/recording/service.py):   *)
(* RecordingIndex and the detections that the same thread receives on the  *)
(* same socket.  Detections of one class that follow one another closely   *)
(* make one event, which is written to the events table every second, when *)
(* it is over and when the service is stopped.                             *)
(*                                                                         *)
(* One unit of time is the most that may lie between two detections of an  *)
(* event when Gap is 1; the clock is not set back.  The table is a set of  *)
(* rows.  Labels, confidences and sequence numbers are left out.            *)
(***************************************************************************)
EXTENDS RecordingIndex, Sequences, FiniteSetsExt

CONSTANTS Feeds,          \* bound: who sends in a run, a set of subsets of
                          \* {"recorder", "detector"}
          Classes,
          Gap,            \* 3 seconds in the code
          Retain,         \* retain_days
          MaxTime,        \* bound
          MaxMessages,    \* bound
          MaxSources,     \* bound: pairs of session and generation
          MaxSaveFailures \* bound: failed saves of events

VARIABLES feeds,
          now,     \* the clock
          sent,    \* count of messages
          source,  \* session and generation of the last message
          labels,  \* classes the message in hand has still to report
          active,  \* the event each key is in
          pending, \* keys this flush has still to save
          events,  \* the table
          log,     \* history: the detections of each class that were taken
          astray,  \* history: ids an event held without a row of its own
          lost     \* history: events that left the memory unsaved

ASSUME EventsAssumption ==
  /\ \A f \in Feeds : f \subseteq {"recorder", "detector"}
  /\ MaxSaveFailures \in Nat /\ MaxTime \in Nat /\ MaxMessages \in Nat /\ MaxSources \in Nat
  /\ Gap \in Nat /\ Retain \in Nat /\ Retain > Gap

message == <<sent, source, labels>>
memory == <<active, pending>>
history == <<log, astray, lost>>
indexVars == <<recording, disk, hooks, row, worker>>
eventVars == <<feeds, now, message, memory, events, history>>
allVars == <<vars, eventVars>>

Key == (1..MaxSources) \X Classes
NoEvent == [id |-> 0, start |-> 0, end |-> 0]
Active == {k \in Key : active[k] # NoEvent}

EventInit ==
  /\ Init
  /\ feeds \in Feeds /\ now = 0
  /\ sent = 0 /\ source = 1 /\ labels = {}
  /\ active = [k \in Key |-> NoEvent] /\ pending = {}
  /\ events = {}
  /\ log = [c \in Classes |-> <<>>] /\ astray = {} /\ lost = {}

-----------------------------------------------------------------------------
\* save_event

\* Rows are INTEGER PRIMARY KEY: an id is used again when the last row went.
NextId == 1 + Max({0} \cup {r.id : r \in events})

IdOf(k) == IF active[k].id = 0 THEN NextId ELSE active[k].id

\* An update changes whatever row has the id, and if none has, nothing.
Written(k) ==
  LET e == active[k] IN
  IF e.id = 0
  THEN events \cup {[id |-> NextId, source |-> k[1], class |-> k[2],
                     start |-> e.start, end |-> e.end]}
  ELSE {IF r.id = e.id THEN [r EXCEPT !.end = e.end] ELSE r : r \in events}

\* The event of a key as the properties know it.
Name(k) == <<k[2], active[k].start>>

\* An event leaves the memory after a save, which told nothing if it was astray.
Leaves(k) == lost' = IF active[k].id \in astray THEN lost \cup {Name(k)} ELSE lost

-----------------------------------------------------------------------------
\* receive

\* A while without a message, or with one that is ignored: its status is not
\* ok, it is older than 30 s, or its revision was seen.
Passes ==
  /\ pc = "recv" /\ "detector" \in feeds /\ now < MaxTime
  /\ now' = now + 1
  /\ UNCHANGED <<vars, feeds, message, memory, events, history>>

Detect ==
  /\ pc = "recv" /\ "detector" \in feeds /\ now < MaxTime /\ sent < MaxMessages
  /\ now' = now + 1 /\ sent' = sent + 1
  /\ source' \in {source, source + 1} \cap (1..MaxSources)
  /\ labels' \in SUBSET Classes
  /\ pc' = "label"
  /\ UNCHANGED <<indexVars, bounds, feeds, memory, events, history>>

Over(k) == now - active[k].end > Gap

\* The key of a class that the message still has to report.
Reported(k) == pc = "label" /\ k[1] = source /\ k[2] \in labels

\* The detection is taken: the label is done with.
Takes(k, event) ==
  /\ active' = [active EXCEPT ![k] = event]
  /\ log' = [log EXCEPT ![k[2]] = Append(@, [source |-> source, boot |-> restarts,
                                             stamp |-> now])]
  /\ labels' = labels \ {k[2]}

NewEvent == [id |-> 0, start |-> now, end |-> now]

Begin(k) ==
  /\ Reported(k) /\ k \notin Active
  /\ Takes(k, NewEvent)
  /\ UNCHANGED <<vars, feeds, now, sent, source, pending, events, astray, lost>>

Extend(k) ==
  /\ Reported(k) /\ k \in Active /\ ~Over(k)
  /\ Takes(k, [active[k] EXCEPT !.end = now])
  /\ UNCHANGED <<vars, feeds, now, sent, source, pending, events, astray, lost>>

\* The event of that key is over: it is saved before the next one begins.
Replace(k) ==
  /\ Reported(k) /\ k \in Active /\ Over(k)
  /\ events' = Written(k) /\ Leaves(k)
  /\ Takes(k, NewEvent)
  /\ UNCHANGED <<vars, feeds, now, sent, source, pending, astray>>

\* After its labels, the message ends what is over or of another source.
Stale(k) ==
  /\ pc = "label" /\ labels = {}
  /\ k \in Active /\ (Over(k) \/ k[1] # source)

Retire(k) ==
  /\ Stale(k)
  /\ events' = Written(k) /\ Leaves(k)
  /\ active' = [active EXCEPT ![k] = NoEvent]
  /\ UNCHANGED <<vars, feeds, now, message, pending, log, astray>>

\* The flush is due or not: last_flush lies a second back.
MessageEnd ==
  /\ pc = "label" /\ labels = {} /\ \A k \in Active : ~Stale(k)
  /\ \/ pc' = "recv" /\ UNCHANGED pending
     \/ pc' = "flush" /\ pending' = Active
  /\ UNCHANGED <<indexVars, bounds, feeds, now, message, active, events, history>>

\* Mutant: the id of the row is not noted.
Flush_Unnoted(k) ==
  /\ pc \in {"flush", "farewell"} /\ k \in pending
  /\ events' = Written(k)
  /\ pending' = pending \ {k}
  /\ UNCHANGED <<vars, feeds, now, message, active, history>>

Flush(k) ==
  /\ pc \in {"flush", "farewell"} /\ k \in pending
  /\ events' = Written(k)
  /\ active' = [active EXCEPT ![k].id = IdOf(k)]
  /\ pending' = pending \ {k}
  /\ UNCHANGED <<vars, feeds, now, message, history>>

FlushEnd ==
  /\ pc = "flush" /\ pending = {}
  /\ pc' = "recv"
  /\ UNCHANGED <<indexVars, bounds, eventVars>>

-----------------------------------------------------------------------------
\* Failures, stop and restart

\* A save that is next; its execute fails and nothing happened, or its commit
\* fails after the id was noted.
Due(k) ==
  \/ Reported(k) /\ k \in Active /\ Over(k)
  \/ Stale(k)
  \/ pc \in {"flush", "farewell"} /\ k \in pending

Noted(k) ==
  /\ active[k].id = 0
  /\ active' = [active EXCEPT ![k].id = NextId]
  /\ astray' = astray \cup {NextId}

\* The rest of the message is given up.
SaveFails(k) ==
  /\ Due(k) /\ pc # "farewell" /\ failures < MaxSaveFailures
  /\ failures' = failures + 1
  /\ Noted(k) \/ UNCHANGED <<active, astray>>
  /\ pc' = "recv" /\ labels' = {} /\ pending' = {}
  /\ UNCHANGED <<indexVars, restarts, feeds, now, sent, source, events, log, lost>>

\* SIGTERM: the worker leaves its loop or its scan.
Stop ==
  /\ pc \in {"recv", "scan"} /\ restarts < MaxRestarts
  /\ restarts' = restarts + 1
  /\ pc' = "farewell" /\ todo' = {} /\ hand' = Nothing /\ probes' = 0
  /\ pending' = Active
  /\ UNCHANGED <<recording, disk, hooks, row, failures>>
  /\ UNCHANGED <<feeds, now, message, active, events, history>>

FarewellFails(k) ==
  /\ Due(k) /\ pc = "farewell" /\ failures < MaxSaveFailures
  /\ failures' = failures + 1
  /\ pending' = pending \ {k} /\ lost' = lost \cup {Name(k)}
  /\ UNCHANGED <<indexVars, pc, restarts, feeds, now, message, active, events, log, astray>>

Empty == active' = [k \in Key |-> NoEvent] /\ pending' = {}

FarewellEnd ==
  /\ pc = "farewell" /\ pending = {}
  /\ pc' = "down" /\ Empty
  /\ lost' = lost \cup {Name(k) : k \in {k \in Active : active[k].id \in astray}}
  /\ UNCHANGED <<indexVars, bounds, feeds, now, message, events, log, astray>>

\* The service dies, and what it had in memory with it.
Die ==
  /\ Down
  /\ Empty /\ labels' = {} /\ lost' = lost \cup {Name(k) : k \in Active}
  /\ UNCHANGED <<feeds, now, sent, source, events, log, astray>>

-----------------------------------------------------------------------------
\* The steps of RecordingIndex

\* The end of a cleanup deletes old events too, also of rows held in memory.
Cleaned ==
  /\ CleanupEnd
  /\ LET old == {r \in events : r.end + Retain < now}
     IN /\ events' = events \ old
        /\ astray' = astray \cup ({r.id : r \in old} \cap {active[k].id : k \in Active})
        /\ lost' = lost \cup {<<r.class, r.start>> : r \in {r \in old : r.id \in astray}}
  /\ UNCHANGED <<feeds, now, message, memory, log>>

Recorder == "recorder" \in feeds /\ (Open \/ Grow \/ Complete \/ LoseHook)

OtherIndexStep ==
  \/ InspectEnd \/ ScanStart \/ ScanSkip \/ ScanProbe \/ ProbeEnd \/ RemoveMissing
  \/ Keep \/ MarkDeleting \/ Unlink \/ Forget \/ Up

EventRun ==
  \/ OtherIndexStep /\ UNCHANGED eventVars
  \/ Cleaned
  \/ \E k \in Key : Begin(k) \/ Extend(k) \/ Replace(k) \/ Retire(k) \/ Flush(k)
  \/ MessageEnd \/ FlushEnd \/ FarewellEnd

EventNext ==
  \/ /\ \/ Recorder \/ \E s \in Segment : Ages(s)
        \/ ReceiveOpen \/ ReceiveComplete \/ LookFails
        \/ Fails /\ pc \notin {"label", "flush", "farewell"}
     /\ UNCHANGED eventVars
  \/ Passes \/ Detect
  \/ \E k \in Key : SaveFails(k) \/ FarewellFails(k)
  \/ Stop \/ Die
  \/ EventRun

\* As in RecordingIndex; no message need ever come.
EventFairness ==
  /\ WF_allVars(EventRun)
  /\ WF_allVars(Complete /\ UNCHANGED eventVars)
  /\ WF_allVars((\E s \in Segment \ {recording} : Ages(s)) /\ UNCHANGED eventVars)

EventSpec == EventInit /\ [][EventNext]_allVars /\ EventFairness

-----------------------------------------------------------------------------
\* The state of the events has its types.
EventTypeOK ==
  /\ feeds \in Feeds /\ now \in 0..MaxTime /\ sent \in 0..MaxMessages
  /\ source \in 1..MaxSources /\ labels \subseteq Classes
  /\ \A k \in Key : active[k].end \in 0..now /\ active[k].start \in 0..active[k].end
  /\ pending \subseteq Active

\* The i-th detection of a class belongs to the event of the one before.
Continues(c, i) ==
  /\ i > 1
  /\ log[c][i].source = log[c][i - 1].source /\ log[c][i].boot = log[c][i - 1].boot
  /\ log[c][i].stamp - log[c][i - 1].stamp =< Gap

\* What a row says of an event once its i-th detection was saved.
Summary(c, i) ==
  LET first == Max({j \in 1..i : ~Continues(c, j)})
  IN [source |-> log[c][i].source, class |-> c,
      start |-> log[c][first].stamp, end |-> log[c][i].stamp]

Says(r, summary) == \A f \in DOMAIN summary : r[f] = summary[f]
SameEvent(r, summary) == r.class = summary.class /\ r.start = summary.start

\* Each row tells of one event, of no other row, what was seen up to some
\* detection.  Exempt are ids that an event noted and has no row under.
RowsAreTrue ==
  \A r \in events :
    /\ r.id \in astray \/ \E i \in DOMAIN log[r.class] : Says(r, Summary(r.class, i))
    /\ \A q \in events : SameEvent(q, r) => q = r

\* An event that is over and was not lost with the process, by a row that never
\* was committed or to its age has a row that tells all of it.
NothingSeenIsLost ==
  \A c \in Classes : \A i \in DOMAIN log[c] :
    LET whole == Summary(c, i) IN
    \/ i < Len(log[c]) /\ Continues(c, i + 1)
    \/ \E k \in Active : Name(k) = <<c, whole.start>>
    \/ <<c, whole.start>> \in lost
    \/ whole.end + Retain < now
    \/ \E r \in events : SameEvent(r, whole) /\ (r.id \in astray \/ Says(r, whole))

\* The events table tells what the detections were, whichever saves fail and
\* wherever the service is stopped or dies (receive, save_event, cleanup, run).
EventsTellWhatWasSeen == RowsAreTrue /\ NothingSeenIsLost
=============================================================================
