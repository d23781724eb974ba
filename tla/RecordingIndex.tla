--------------------------- MODULE RecordingIndex ---------------------------
(***************************************************************************)
(* The recording service (src/recording/service.py): an index of the       *)
(* segment files that MediaMTX, an external recorder, writes one after the *)
(* other.  Hooks announce that a segment was opened or completed; they run *)
(* as processes of their own, so their datagrams come late, in any order   *)
(* or never.  A scan of the directory makes up for what they miss, and a   *)
(* cleanup after each scan deletes segments, always by way of a row that   *)
(* says so.                                                                *)
(*                                                                         *)
(* One thread writes the table, so what it read of a row is what the row   *)
(* still says.  Files change while it works.  Events, the HTTP readers and *)
(* the error text of the status are left out.                              *)
(***************************************************************************)
EXTENDS Naturals

CONSTANTS Segments,     \* bound: segments the recorder ever opens
          MaxVersions,  \* bound: sizes a segment takes while it grows
          MaxProbes,    \* probes per scan, 16 in the code
          MaxFailures,  \* bound: failed commits, unlinks and looks at a file
          MaxRestarts   \* bound: times the service dies or is stopped

VARIABLES recording, \* the segment MediaMTX has open, or 0
          version,   \* size and mtime of each file; 0: not opened yet
          unlinked,  \* files that were deleted
          quiet,     \* files that did not change for 90 seconds
          hooks,     \* notifications under way
          row,       \* recordings table: status and mtime_ns of each path
          pc,        \* where the worker is
          todo,      \* files or rows this pass has still to look at
          hand,      \* the segment in hand, with the version first seen
          probes,    \* count of this scan
          failures, restarts

disk == <<version, unlinked, quiet>>
worker == <<todo, hand, probes>>
bounds == <<failures, restarts>>
vars == <<recording, disk, hooks, row, pc, worker, bounds>>

ASSUME RecordingAssumption ==
  /\ Segments \in Nat /\ MaxVersions \in Nat \ {0} /\ MaxProbes \in Nat \ {0}
  /\ MaxFailures \in Nat /\ MaxRestarts \in Nat

Segment == 1..Segments
Hook == {"segment_open", "segment_complete"} \X Segment
Status == {"none", "writing", "ready", "recovered", "invalid", "deleting"}
Playable == {"ready", "recovered"}
NoRow == [status |-> "none", version |-> 0]
Nothing == <<0, 0>>

\* Passes go by name, or by start_ms, which is the order of the segments.
IsFirst(s) == \A t \in todo : s =< t

Files == {s \in Segment : version[s] # 0} \ unlinked
Rows == {s \in Segment : row[s].status # "none"}

Init ==
  /\ recording = 0
  /\ version = [s \in Segment |-> 0] /\ unlinked = {} /\ quiet = {}
  /\ hooks = {}
  /\ row = [s \in Segment |-> NoRow]
  /\ pc = "recv" /\ todo = {} /\ hand = Nothing /\ probes = 0
  /\ failures = 0 /\ restarts = 0

-----------------------------------------------------------------------------
\* MediaMTX and the clock

\* Files sort by name, that is by the time they were opened.
Open ==
  /\ recording = 0
  /\ \E s \in Segment :
       /\ \A t \in Segment : version[t] # 0 <=> t < s
       /\ recording' = s
       /\ version' = [version EXCEPT ![s] = 1]
       /\ hooks' = hooks \cup {<<"segment_open", s>>}
  /\ UNCHANGED <<unlinked, quiet, row, pc, worker, bounds>>

Grow ==
  /\ recording \in Files /\ version[recording] < MaxVersions
  /\ version' = [version EXCEPT ![recording] = @ + 1]
  /\ quiet' = quiet \ {recording}
  /\ UNCHANGED <<recording, unlinked, hooks, row, pc, worker, bounds>>

Complete ==
  /\ recording # 0
  /\ recording' = 0
  /\ hooks' = hooks \cup {<<"segment_complete", recording>>}
  /\ UNCHANGED <<disk, row, pc, worker, bounds>>

\* Ninety seconds without a change: of a closed file, or of one that stalls.
Ages(s) ==
  /\ s \in Files \ quiet
  /\ quiet' = quiet \cup {s}
  /\ UNCHANGED <<recording, version, unlinked, hooks, row, pc, worker, bounds>>

\* notify.py found no service or a full socket, or the service died with it.
LoseHook ==
  /\ \E h \in hooks : hooks' = hooks \ {h}
  /\ UNCHANGED <<recording, disk, row, pc, worker, bounds>>

-----------------------------------------------------------------------------
\* receive and inspect

Return == pc' = "recv" /\ todo' = {} /\ hand' = Nothing /\ probes' = 0

\* One row is set whatever it said before; 'writing' keeps its mtime.
ReceiveOpen ==
  /\ pc = "recv"
  /\ \E h \in hooks :
       /\ h[1] = "segment_open"
       /\ hooks' = hooks \ {h}
       /\ row' = [row EXCEPT ![h[2]].status = "writing"]
  /\ UNCHANGED <<recording, disk, pc, worker, bounds>>

\* A file that is gone raises, which ends the message.
ReceiveComplete ==
  /\ pc = "recv"
  /\ \E h \in hooks :
       /\ h[1] = "segment_complete"
       /\ hooks' = hooks \ {h}
       /\ IF h[2] \in Files
          THEN pc' = "inspect" /\ hand' = <<h[2], version[h[2]]>>
          ELSE UNCHANGED <<pc, hand>>
  /\ UNCHANGED <<recording, disk, row, todo, probes, bounds>>

\* What inspect writes after ffprobe accepted the file: nothing when the file
\* changed meanwhile.  ffprobe may also fail, which a message leaves to the scan.
InspectEnd ==
  /\ pc = "inspect"
  /\ \/ /\ version[hand[1]] = hand[2]
        /\ row' = [row EXCEPT ![hand[1]] = [status |-> "ready", version |-> hand[2]]]
     \/ UNCHANGED row
  /\ Return
  /\ UNCHANGED <<recording, disk, hooks, bounds>>

-----------------------------------------------------------------------------
\* reconcile

ScanStart ==
  /\ pc = "recv"
  /\ pc' = "scan" /\ todo' = Files
  /\ UNCHANGED <<recording, disk, hooks, row, hand, probes, bounds>>

\* Mutant: a scan also leaves rows alone that say 'writing' at this mtime.
Known_Writing(s) ==
  \/ row[s].status = "deleting"
  \/ /\ row[s].status \in Playable \cup {"invalid", "writing"}
     /\ row[s].version = version[s]

\* Rows a scan leaves alone: to be deleted, or known at this mtime.
Known(s) ==
  \/ row[s].status = "deleting"
  \/ /\ row[s].status \in Playable \cup {"invalid"}
     /\ row[s].version = version[s]

ScanSkip ==
  /\ pc = "scan"
  /\ \E s \in todo :
       /\ IsFirst(s)
       /\ Known(s) \/ s \notin quiet \/ probes >= MaxProbes
       /\ todo' = todo \ {s}
  /\ UNCHANGED <<recording, disk, hooks, row, pc, hand, probes, bounds>>

ScanProbe ==
  /\ pc = "scan"
  /\ \E s \in todo :
       /\ IsFirst(s)
       /\ ~Known(s) /\ s \in quiet /\ probes < MaxProbes
       /\ todo' = todo \ {s} /\ hand' = <<s, version[s]>>
  /\ probes' = probes + 1
  /\ pc' = "probe"
  /\ UNCHANGED <<recording, disk, hooks, row, bounds>>

\* inspect looks at the file once more before it probes: what grew since the scan
\* saw it is probed as it is now, what grows later is left for another scan.  A
\* probe that finds fault with the file makes the row invalid as the scan saw it.
ProbeEnd ==
  /\ pc = "probe"
  /\ \/ row' = [row EXCEPT ![hand[1]] = [status |-> "recovered", version |-> version[hand[1]]]]
     \/ version[hand[1]] # hand[2] /\ UNCHANGED row
     \/ row' = [row EXCEPT ![hand[1]] = [status |-> "invalid", version |-> hand[2]]]
  /\ pc' = "scan" /\ hand' = Nothing
  /\ UNCHANGED <<recording, disk, hooks, todo, probes, bounds>>

\* stat raises or ffprobe cannot be run: an OSError is logged, the row stays as it
\* was, and the scan goes on with the next file.
LookFails ==
  /\ failures < MaxFailures
  /\ failures' = failures + 1
  /\ \/ pc = "probe" /\ pc' = "scan" /\ hand' = Nothing /\ UNCHANGED todo
     \/ /\ pc = "scan" /\ UNCHANGED <<pc, hand>>
        /\ \E s \in todo : IsFirst(s) /\ todo' = todo \ {s}
  /\ UNCHANGED <<recording, disk, hooks, row, probes, restarts>>

\* Rows without a file go, then the cleanup reads the table.
RemoveMissing ==
  /\ pc = "scan" /\ todo = {}
  /\ row' = [s \in Segment |-> IF s \in Files THEN row[s] ELSE NoRow]
  /\ pc' = "clean" /\ todo' = Rows \cap Files /\ probes' = 0
  /\ UNCHANGED <<recording, disk, hooks, hand, bounds>>

-----------------------------------------------------------------------------
\* cleanup

Recent(s) == s \in Files \ quiet

\* Age, free space and the size of the table, read again for every row, may
\* each ask for a segment or not.
Keep ==
  /\ pc = "clean"
  /\ \E s \in todo :
       /\ IsFirst(s)
       /\ row[s].status # "deleting" \/ Recent(s)
       /\ todo' = todo \ {s}
  /\ UNCHANGED <<recording, disk, hooks, row, pc, hand, probes, bounds>>

\* Mutant: the row is not marked before the file is deleted.
MarkDeleting_Unmarked ==
  /\ pc = "clean"
  /\ \E s \in todo :
       /\ IsFirst(s)
       /\ row[s].status # "writing" /\ ~Recent(s)
       /\ todo' = todo \ {s} /\ hand' = <<s, version[s]>>
  /\ pc' = "unlink"
  /\ UNCHANGED <<recording, disk, hooks, row, probes, bounds>>

MarkDeleting ==
  /\ pc = "clean"
  /\ \E s \in todo :
       /\ IsFirst(s)
       /\ row[s].status # "writing" /\ ~Recent(s)
       /\ row' = [row EXCEPT ![s].status = "deleting"]
       /\ todo' = todo \ {s} /\ hand' = <<s, version[s]>>
  /\ pc' = "unlink"
  /\ UNCHANGED <<recording, disk, hooks, probes, bounds>>

Unlink ==
  /\ pc = "unlink"
  /\ unlinked' = unlinked \cup {hand[1]} /\ quiet' = quiet \ {hand[1]}
  /\ pc' = "forget"
  /\ UNCHANGED <<recording, version, hooks, row, worker, bounds>>

Forget ==
  /\ pc = "forget"
  /\ row' = [row EXCEPT ![hand[1]] = NoRow]
  /\ pc' = "clean" /\ hand' = Nothing
  /\ UNCHANGED <<recording, disk, hooks, todo, probes, bounds>>

CleanupEnd ==
  /\ pc = "clean" /\ todo = {}
  /\ Return
  /\ UNCHANGED <<recording, disk, hooks, row, bounds>>

-----------------------------------------------------------------------------
\* run

\* A commit or an unlink fails: the message or the whole pass is given up.
Fails ==
  /\ pc \notin {"recv", "down"} /\ failures < MaxFailures
  /\ failures' = failures + 1
  /\ Return
  /\ UNCHANGED <<recording, disk, hooks, row, restarts>>

\* The service dies, or is stopped, wherever it is.
Down ==
  /\ pc # "down" /\ restarts < MaxRestarts
  /\ restarts' = restarts + 1
  /\ pc' = "down" /\ todo' = {} /\ hand' = Nothing /\ probes' = 0
  /\ UNCHANGED <<recording, disk, hooks, row, failures>>

Up ==
  /\ pc = "down"
  /\ pc' = "recv"
  /\ UNCHANGED <<recording, disk, hooks, row, worker, bounds>>

Run ==
  \/ InspectEnd
  \/ ScanStart \/ ScanSkip \/ ScanProbe \/ ProbeEnd \/ RemoveMissing
  \/ Keep \/ MarkDeleting \/ Unlink \/ Forget \/ CleanupEnd
  \/ Up

Next ==
  \/ Open \/ Grow \/ Complete \/ LoseHook
  \/ \E s \in Segment : Ages(s)
  \/ ReceiveOpen \/ ReceiveComplete
  \/ Fails \/ LookFails \/ Down
  \/ Run

\* The worker runs and scans every ten seconds, MediaMTX closes what it opened,
\* and time passes for a closed file.  No hook need ever arrive.
Fairness ==
  /\ WF_vars(Run) /\ WF_vars(Complete)
  /\ WF_vars(\E s \in Segment \ {recording} : Ages(s))

Spec == Init /\ [][Next]_vars /\ Fairness

-----------------------------------------------------------------------------
\* The state has its types, a scan probes at most MaxProbes files, and the
\* worker has a segment in hand exactly when it probes or deletes one
\* (reconcile, line 275; cleanup).
TypeOK ==
  /\ recording \in Segment \cup {0}
  /\ version \in [Segment -> 0..MaxVersions]
  /\ unlinked \subseteq Segment /\ quiet \subseteq Files
  /\ hooks \subseteq Hook
  /\ row \in [Segment -> [status : Status, version : 0..MaxVersions]]
  /\ pc \in {"recv", "inspect", "scan", "probe", "clean", "unlink", "forget", "down"}
  /\ todo \subseteq Segment
  /\ hand \in (Segment \X (0..MaxVersions)) \cup {Nothing}
  /\ hand # Nothing <=> pc \in {"inspect", "probe", "unlink", "forget"}
  /\ probes \in 0..MaxProbes
  /\ failures \in 0..MaxFailures /\ restarts \in 0..MaxRestarts

\* Whatever the page offers to play is on the disk, also between the steps of
\* a deletion that fails or is cut off by a crash, and when hooks of a deleted
\* segment come late (cleanup, receive).
PlayableHasFile == \A s \in Segment : row[s].status \in Playable => s \in Files

\* What the index says of a segment is final and true.
Settled(s) ==
  \/ s \in Files /\ row[s].status \in Playable \cup {"invalid"} /\ row[s].version = version[s]
  \/ s \notin Files /\ row[s] = NoRow

\* Each segment is settled in the end: probed as it was closed, or gone with its
\* row, although hooks are lost or reordered, probes per scan are limited,
\* commits, unlinks and looks at a file fail and the service restarts (reconcile, cleanup).
EverySegmentSettles == \A s \in Segment : <>[]Settled(s)
=============================================================================
