----------------------- MODULE RecordingEventsProofs -----------------------
(***************************************************************************)
(* Theorems about RecordingIndex and RecordingEvents for any number of     *)
(* segments, classes, detections, failures and restarts.                   *)
(***************************************************************************)
EXTENDS RecordingEvents, FiniteSetTheorems, TLAPS

\* What a probe, a message or a deletion has in hand.
Holds == {"inspect", "probe", "unlink", "forget"}

\* The types of RecordingIndex but for the counters, and for the places of the
\* worker, of which RecordingEvents adds some.
IndexTypes ==
  /\ recording \in Segment \cup {0}
  /\ version \in [Segment -> 0..MaxVersions]
  /\ unlinked \subseteq Segment /\ quiet \subseteq Files
  /\ hooks \subseteq Hook
  /\ row \in [Segment -> [status : Status, version : 0..MaxVersions]]
  /\ todo \subseteq Segment
  /\ hand \in (Segment \X (0..MaxVersions)) \cup {Nothing}
  /\ hand # Nothing <=> pc \in Holds
  /\ probes \in 0..MaxProbes

\* The file whose probe is under way stays: only the same worker deletes files.
ProbedIsThere == pc \in {"inspect", "probe"} => hand[1] \in Files

\* The row of the file that is being deleted says so.
DeletedIsMarked == pc \in {"unlink", "forget"} => row[hand[1]].status = "deleting"

\* The inductive invariant of the index.
IndexOK ==
  /\ IndexTypes
  /\ PlayableHasFile
  /\ ProbedIsThere
  /\ DeletedIsMarked

LEMMA IndexStarts == Init => IndexOK
BY RecordingAssumption
   DEF Init, IndexOK, IndexTypes, PlayableHasFile, ProbedIsThere, DeletedIsMarked, Segment, Files,
       NoRow, Nothing, Status, Playable, Holds

\* What MediaMTX does, and time: no file goes, and no row changes.
LEMMA RecorderSteps ==
  ASSUME IndexOK, Open \/ Grow \/ Complete \/ LoseHook \/ \E s \in Segment : Ages(s)
  PROVE  IndexOK'
<1>1. /\ recording' \in Segment \cup {0} /\ version' \in [Segment -> 0..MaxVersions]
      /\ Files \subseteq Files' /\ quiet' \subseteq Files'
      /\ hooks' \subseteq Hook
      /\ UNCHANGED <<unlinked, row, pc, worker, bounds>>
  <2> USE RecordingAssumption DEF IndexOK, IndexTypes, disk
  <2>1. CASE Open
    <3>1. PICK s \in Segment :
            /\ version[s] = 0 \/ s < s
            /\ recording' = s
            /\ version' = [version EXCEPT ![s] = 1]
            /\ hooks' = hooks \cup {<<"segment_open", s>>}
      BY <2>1 DEF Open
    <3>2. version' \in [Segment -> 0..MaxVersions] /\ version'[s] = 1
      BY <3>1
    <3>3. Files \subseteq Files'
      BY <2>1, <3>1, <3>2 DEF Open, Files
    <3>4. hooks' \subseteq Hook
      BY <3>1 DEF Hook
    <3> QED
      BY <2>1, <3>1, <3>2, <3>3, <3>4 DEF Open
  <2>2. CASE Grow
    <3>1. recording \in Segment /\ version[recording] + 1 \in 1..MaxVersions
      BY <2>2 DEF Grow, Files
    <3>2. version' \in [Segment -> 0..MaxVersions] /\ Files \subseteq Files'
      BY <2>2, <3>1 DEF Grow, Files
    <3> QED
      BY <2>2, <3>1, <3>2 DEF Grow
  <2>3. CASE Complete
    <3>1. hooks' \subseteq Hook
      BY <2>3 DEF Complete, Hook
    <3> QED
      BY <2>3, <3>1 DEF Complete, Files
  <2>4. CASE LoseHook
    BY <2>4 DEF LoseHook, Files
  <2>5. CASE \E s \in Segment : Ages(s)
    BY <2>5 DEF Ages, Files
  <2> QED
    BY <2>1, <2>2, <2>3, <2>4, <2>5
<1>2. IndexTypes'
  BY <1>1 DEF IndexOK, IndexTypes, worker, Nothing
<1> QED
  BY <1>1, <1>2 DEF IndexOK, PlayableHasFile, ProbedIsThere, DeletedIsMarked, worker

\* Notifications, the scan, failures and restarts.
LEMMA ScanSteps ==
  ASSUME IndexOK,
         \/ ReceiveOpen \/ ReceiveComplete \/ InspectEnd \/ Fails \/ LookFails \/ Down \/ Up
         \/ ScanStart \/ ScanSkip \/ ScanProbe \/ ProbeEnd \/ RemoveMissing
  PROVE  IndexOK'
<1> USE RecordingAssumption
        DEF IndexOK, IndexTypes, PlayableHasFile, ProbedIsThere, DeletedIsMarked, Files,
            Nothing, Holds, worker, bounds, disk, Return, Status, Playable, NoRow
<1>1. CASE ReceiveOpen
  BY <1>1 DEF ReceiveOpen, Hook
<1>2. CASE ReceiveComplete
  BY <1>2 DEF ReceiveComplete, Hook
<1>3. CASE InspectEnd
  BY <1>3 DEF InspectEnd
<1>4. CASE Fails
  BY <1>4 DEF Fails
<1>5. CASE Down
  BY <1>5 DEF Down
<1>6. CASE Up
  BY <1>6 DEF Up
<1>7. CASE ScanStart
  BY <1>7 DEF ScanStart
<1>8. CASE ScanSkip
  BY <1>8 DEF ScanSkip
<1>9. CASE ScanProbe
  BY <1>9 DEF ScanProbe
<1>10. CASE ProbeEnd
  BY <1>10 DEF ProbeEnd
<1>11. CASE RemoveMissing
  BY <1>11 DEF RemoveMissing, Rows
<1>12. CASE LookFails
  BY <1>12 DEF LookFails
<1> QED
  BY <1>1, <1>2, <1>3, <1>4, <1>5, <1>6, <1>7, <1>8, <1>9, <1>10, <1>11, <1>12

LEMMA CleanupSteps ==
  ASSUME IndexOK, Keep \/ MarkDeleting \/ Unlink \/ Forget \/ CleanupEnd
  PROVE  IndexOK'
<1> USE RecordingAssumption
        DEF IndexOK, IndexTypes, PlayableHasFile, ProbedIsThere, DeletedIsMarked, Files,
            Nothing, Holds, worker, bounds, disk, Return, Status, Playable, NoRow
<1>1. CASE Keep
  BY <1>1 DEF Keep
<1>2. CASE MarkDeleting
  <2>1. PICK s \in Segment :
          /\ row' = [row EXCEPT ![s].status = "deleting"]
          /\ todo' = todo \ {s} /\ hand' = <<s, version[s]>>
    BY <1>2 DEF MarkDeleting
  <2>2. hand' \in Segment \X (0..MaxVersions) /\ hand' # Nothing /\ hand'[1] = s
    BY <2>1 DEF Segment
  <2>3. row' \in [Segment -> [status : Status, version : 0..MaxVersions]]
    BY <2>1
  <2>4. \A t \in Segment :
          row'[t] = IF t = s THEN [row[s] EXCEPT !.status = "deleting"] ELSE row[t]
    BY <2>1
  <2> QED
    BY <1>2, <2>1, <2>2, <2>3, <2>4 DEF MarkDeleting
<1>3. CASE Unlink
  BY <1>3 DEF Unlink
<1>4. CASE Forget
  BY <1>4 DEF Forget
<1>5. CASE CleanupEnd
  BY <1>5 DEF CleanupEnd
<1> QED
  BY <1>1, <1>2, <1>3, <1>4, <1>5

LEMMA IndexSteps == IndexOK /\ [Next]_vars => IndexOK'
<1>1. IndexOK /\ UNCHANGED vars => IndexOK'
  BY DEF vars, disk, worker, bounds, IndexOK, IndexTypes, PlayableHasFile, ProbedIsThere,
         DeletedIsMarked, Files
<1> QED
  BY <1>1, RecorderSteps, ScanSteps, CleanupSteps DEF Next, Run

LEMMA IndexInvariant == Spec => []IndexOK
BY IndexStarts, IndexSteps, PTL DEF Spec

\* The places of the worker and the bounds of the failures.
PlacesOK ==
  /\ pc \in {"recv", "inspect", "scan", "probe", "clean", "unlink", "forget", "down"}
  /\ failures \in 0..MaxFailures /\ restarts \in 0..MaxRestarts

LEMMA PlacesSteps == PlacesOK /\ [Next]_vars => PlacesOK'
<1> SUFFICES ASSUME PlacesOK, [Next]_vars PROVE PlacesOK'
  OBVIOUS
<1>1. CASE Fails \/ LookFails \/ Down \/ Up
  BY <1>1, RecordingAssumption DEF PlacesOK, Fails, LookFails, Down, Up, Return, bounds
<1>2. CASE Open \/ Grow \/ Complete \/ LoseHook \/ \E s \in Segment : Ages(s)
  BY <1>2 DEF PlacesOK, Open, Grow, Complete, LoseHook, Ages, bounds
<1>3. CASE ReceiveOpen \/ ReceiveComplete \/ InspectEnd \/ ScanStart \/ ScanSkip \/ ScanProbe
           \/ ProbeEnd \/ RemoveMissing
  BY <1>3 DEF PlacesOK, ReceiveOpen, ReceiveComplete, InspectEnd, ScanStart, ScanSkip, ScanProbe,
              ProbeEnd, RemoveMissing, Return, bounds
<1>4. CASE Keep \/ MarkDeleting \/ Unlink \/ Forget \/ CleanupEnd
  BY <1>4 DEF PlacesOK, Keep, MarkDeleting, Unlink, Forget, CleanupEnd, Return, bounds
<1>5. CASE UNCHANGED vars
  BY <1>5 DEF PlacesOK, vars, bounds
<1> QED
  BY <1>1, <1>2, <1>3, <1>4, <1>5 DEF Next, Run

\* The state keeps its types; a scan never probes more than MaxProbes files.
THEOREM RecordingTypeCorrect == Spec => []TypeOK
<1>1. Init => PlacesOK
  BY RecordingAssumption DEF Init, PlacesOK
<1>2. IndexOK /\ PlacesOK => TypeOK
  BY DEF IndexOK, IndexTypes, PlacesOK, TypeOK, Holds
<1> QED
  BY <1>1, <1>2, PlacesSteps, IndexInvariant, PTL DEF Spec

\* Whatever the page offers to play is on the disk, wherever a deletion fails or
\* is cut off, and however late hooks come.
THEOREM PlayableRowsHaveFiles == Spec => []PlayableHasFile
<1>1. IndexOK => PlayableHasFile
  BY DEF IndexOK
<1> QED
  BY <1>1, IndexInvariant, PTL

-----------------------------------------------------------------------------
\* The whole worker.  What the detections add leaves table, disk and hand alone.
LEMMA IndexRests ==
  ASSUME IndexOK, UNCHANGED indexVars, pc \notin Holds, pc' \notin Holds
  PROVE  IndexOK'
BY DEF indexVars, disk, worker, IndexOK, IndexTypes, PlayableHasFile, ProbedIsThere,
       DeletedIsMarked, Files, Holds

LEMMA EventIndexSteps == IndexOK /\ [EventNext]_allVars => IndexOK'
<1> SUFFICES ASSUME IndexOK, [EventNext]_allVars PROVE IndexOK'
  OBVIOUS
<1>1. CASE Next
  BY <1>1, IndexSteps
<1>2. CASE UNCHANGED vars
  BY <1>2, IndexSteps
<1>3. CASE Detect \/ MessageEnd \/ FlushEnd \/ FarewellEnd
  BY <1>3, IndexRests DEF Detect, MessageEnd, FlushEnd, FarewellEnd, Holds
<1>4. ASSUME NEW k \in Key, SaveFails(k) \/ FarewellFails(k) PROVE IndexOK'
  BY <1>4, IndexRests DEF SaveFails, FarewellFails, Due, Reported, Stale, Holds
<1>5. CASE Stop
  BY <1>5, RecordingAssumption
  DEF Stop, disk, IndexOK, IndexTypes, PlayableHasFile, ProbedIsThere, DeletedIsMarked, Files, Holds
<1>6. CASE Passes \/ \E k \in Key : Begin(k) \/ Extend(k) \/ Replace(k) \/ Retire(k) \/ Flush(k)
  BY <1>2, <1>6 DEF Passes, Begin, Extend, Replace, Retire, Flush
<1>7. Recorder \/ OtherIndexStep \/ Cleaned \/ Die => Next
  BY DEF Recorder, OtherIndexStep, Cleaned, Die, Next, Run
<1> QED
  BY <1>1, <1>2, <1>3, <1>4, <1>5, <1>6, <1>7 DEF EventNext, EventRun, allVars, Next

\* So the page is as right with the detections on the same thread.
THEOREM PlayableRowsHaveFilesThroughout == EventSpec => []PlayableHasFile
<1>1. EventInit => IndexOK
  BY IndexStarts DEF EventInit
<1>2. IndexOK => PlayableHasFile
  BY DEF IndexOK
<1> QED
  BY <1>1, <1>2, EventIndexSteps, PTL DEF EventSpec

-----------------------------------------------------------------------------
\* What was seen

\* The detections of one class.
Entry == [source : Nat \ {0}, boot : Nat, stamp : Nat \ {0}]

\* The i-th entry of a log belongs to the event of the one before.
Follows(L, i) ==
  /\ i > 1
  /\ L[i].source = L[i - 1].source /\ L[i].boot = L[i - 1].boot
  /\ L[i].stamp - L[i - 1].stamp =< Gap

\* The i-th entry belongs to the event that began with the f-th.
Spans(L, f, i) ==
  /\ f \in 1..Len(L) /\ i \in 1..Len(L) /\ f =< i
  /\ ~Follows(L, f)
  /\ \A j \in 1..Len(L) : f < j /\ j =< i => Follows(L, j)

\* Time and sources go on, and every entry belongs to an event.
Trail(L) ==
  /\ L \in Seq(Entry)
  /\ \A i, j \in 1..Len(L) : i < j => L[i].source =< L[j].source /\ L[i].stamp < L[j].stamp
  /\ \A i \in 1..Len(L) : \E f \in 1..Len(L) : Spans(L, f, i) /\ L[f].source = L[i].source

\* The i-th entry is the last of event e, which began with the f-th, and of the
\* source of e for the time being.
EndsIn(L, s, e, f, i) ==
  /\ Spans(L, f, i)
  /\ L[i].source = s /\ L[i].stamp = e.end /\ L[f].stamp = e.start
  /\ i < Len(L) => L[i + 1].source # s

\* The log L of a class with one more entry.
Grown(L, M, e) ==
  /\ Trail(M)
  /\ Len(L) \in Nat /\ Len(M) = Len(L) + 1 /\ M[Len(M)] = e
  /\ \A i \in 1..Len(L) : M[i] = L[i] /\ (Follows(M, i) <=> Follows(L, i))
  /\ \A f, i \in Nat : i # Len(M) => (Spans(M, f, i) <=> Spans(L, f, i))
  /\ \A f \in Nat : Spans(M, f, Len(M)) <=>
       IF Follows(M, Len(M)) THEN Spans(L, f, Len(L)) ELSE f = Len(M)

\* The greatest element of a set of numbers is its maximum.
LEMMA MaxIs ==
  ASSUME NEW S, S \subseteq Nat, NEW m \in S, \A x \in S : x =< m
  PROVE  Max(S) = m
<1>1. \E x \in S : \A y \in S : x >= y
  OBVIOUS
<1>2. Max(S) \in S /\ \A y \in S : Max(S) >= y
  BY <1>1, Zenon DEF Max
<1>3. Max(S) \in Nat /\ m \in Nat /\ Max(S) >= m /\ Max(S) =< m
  BY <1>2
<1> QED
  BY <1>3

\* A bounded set of numbers has a maximum.
LEMMA BoundedHasMax ==
  ASSUME NEW S, S \subseteq Nat, S # {}, NEW n \in Nat, \A x \in S : x =< n
  PROVE  Max(S) \in S /\ \A x \in S : x =< Max(S)
<1> DEFINE Bounds == {b \in Nat : \A x \in S : x =< b}
           T == {0..b : b \in Bounds}
<1>1. T \subseteq FiniteSubsetsOf(Nat) /\ T # {}
  <2>1. \A b \in Nat : 0..b \in FiniteSubsetsOf(Nat)
    BY FS_Interval DEF FiniteSubsetsOf
  <2> QED
    BY <2>1
<1>2. PICK least \in T : \A t \in T : ~(<<t, least>> \in StrictSubsetOrdering(Nat))
  <2> HIDE DEF T
  <2> QED
    BY <1>1, WFMin, FS_StrictSubsetOrderingWellFounded
<1>3. PICK m \in Bounds : \A y \in Bounds : ~(y < m)
  <2>1. PICK m \in Bounds : least = 0..m
    OBVIOUS
  <2>2. ASSUME NEW y \in Bounds, y < m PROVE FALSE
    <3>1. 0..y \subseteq 0..m /\ 0..y # 0..m /\ 0..m \subseteq Nat
      BY <2>2
    <3>2. <<0..y, 0..m>> \in StrictSubsetOrdering(Nat)
      BY <3>1 DEF StrictSubsetOrdering
    <3> QED
      BY <1>2, <2>1, <3>2
  <2> QED
    BY <2>2
<1>4. m \in S
  <2> SUFFICES ASSUME m \notin S PROVE FALSE
    OBVIOUS
  <2>1. \A x \in S : x < m
    OBVIOUS
  <2>2. m > 0
    <3>1. PICK x \in S : x < m
      BY <2>1
    <3>2. x \in Nat /\ m \in Nat
      OBVIOUS
    <3> QED
      BY <3>1, <3>2
  <2>3. m - 1 \in Bounds
    BY <2>1, <2>2
  <2> QED
    BY <1>3, <2>3
<1> QED
  BY <1>4, MaxIs

\* An entry belongs to one event.
LEMMA EventHasOneStart ==
  ASSUME NEW L, NEW f \in Nat, NEW g \in Nat, NEW i \in Nat, Spans(L, f, i), Spans(L, g, i)
  PROVE  f = g
BY DEF Spans

\* An event is of one source.
LEMMA SpanStartsThere ==
  ASSUME NEW L, Trail(L), NEW f \in Nat, NEW i \in Nat, Spans(L, f, i)
  PROVE  L[f].source = L[i].source
BY EventHasOneStart DEF Trail, Spans

\* What spans the start of an event that ends at i ends there or goes on.
LEMMA EventEndsOnce ==
  ASSUME NEW L, Trail(L), NEW s, NEW e, NEW f \in Nat, NEW i \in Nat, EndsIn(L, s, e, f, i),
         NEW g \in Nat, NEW j \in Nat, Spans(L, g, j), L[g].stamp = e.start
  PROVE  g = f /\ (j = i \/ (j < Len(L) /\ Follows(L, j + 1)))
<1>1. /\ f \in 1..Len(L) /\ g \in 1..Len(L) /\ i \in 1..Len(L) /\ j \in 1..Len(L)
      /\ f =< i /\ g =< j
  BY DEF EndsIn, Spans
<1>2. L \in Seq(Entry) /\ Len(L) \in Nat
  BY DEF Trail
<1>3. g = f
  <2>1. L[g].stamp = L[f].stamp
    BY DEF EndsIn
  <2>2. \A a \in 1..Len(L) : L[a].stamp \in Nat
    <3>1. \A a \in 1..Len(L) : L[a] \in Entry
      BY <1>2
    <3> QED
      BY <3>1 DEF Entry
  <2>3. /\ f < g => L[f].stamp < L[g].stamp
        /\ g < f => L[g].stamp < L[f].stamp
    BY <1>1 DEF Trail
  <2>4. ~(f < g) /\ ~(g < f)
    BY <1>1, <2>1, <2>2, <2>3
  <2> QED
    BY <1>1, <1>2, <2>4
<1>4. CASE j < i
  BY <1>1, <1>2, <1>3, <1>4 DEF EndsIn, Spans
<1>5. CASE i < j
  <2>1. i < Len(L) /\ i + 1 \in 1..Len(L) /\ g < i + 1 /\ i + 1 =< j
    BY <1>1, <1>2, <1>3, <1>5
  <2>2. Follows(L, i + 1)
    BY <2>1 DEF Spans
  <2>3. L[i + 1].source = L[i].source
    <3>1. (i + 1) - 1 = i
      BY <1>1, <1>2
    <3> QED
      BY <2>2, <3>1 DEF Follows
  <2> QED
    BY <2>1, <2>3 DEF EndsIn
<1> QED
  BY <1>1, <1>2, <1>3, <1>4, <1>5

\* What the properties compute from the log is what spans tell.
LEMMA SummaryIs ==
  ASSUME NEW c \in Classes, NEW f \in Nat, NEW i \in Nat, Spans(log[c], f, i), Trail(log[c])
  PROVE  Summary(c, i) = [source |-> log[c][i].source, class |-> c,
                          start |-> log[c][f].stamp, end |-> log[c][i].stamp]
<1> DEFINE S == {j \in 1..i : ~Continues(c, j)}
<1>1. \A j \in 1..i : Continues(c, j) <=> Follows(log[c], j)
  BY DEF Continues, Follows
<1>2. f \in S
  BY <1>1 DEF Spans
<1>3. \A j \in S : j =< f
  BY <1>1 DEF Spans
<1>4. S \subseteq Nat
  OBVIOUS
<1>5. Max(S) = f
  <2> HIDE DEF S
  <2> QED
    BY <1>2, <1>3, <1>4, MaxIs
<1> QED
  BY <1>5 DEF Summary

\* A log grows by an entry that is later than all of it.
LEMMA TrailGrows ==
  ASSUME NEW L, Trail(L), NEW e \in Entry, NEW M, M = Append(L, e),
         \A i \in 1..Len(L) : L[i].source =< e.source /\ L[i].stamp < e.stamp
  PROVE  Grown(L, M, e)
<1> DEFINE n == Len(L)
<1>1. /\ L \in Seq(Entry) /\ n \in Nat
      /\ M \in Seq(Entry) /\ Len(M) = n + 1 /\ M[n + 1] = e
      /\ \A i \in 1..n : M[i] = L[i]
  BY DEF Trail
<1>2. \A i \in 1..n : Follows(M, i) <=> Follows(L, i)
  <2> TAKE i \in 1..n
  <2>1. i > 1 => i - 1 \in 1..n
    BY <1>1
  <2> QED
    BY <1>1, <2>1 DEF Follows
<1>3. ASSUME NEW f \in Nat, NEW i \in Nat, i # n + 1
      PROVE  Spans(M, f, i) <=> Spans(L, f, i)
  <2>1. i \in 1..(n + 1) <=> i \in 1..n
    BY <1>1, <1>3
  <2>2. f =< i /\ i \in 1..n => (f \in 1..(n + 1) <=> f \in 1..n)
    BY <1>1
  <2> HIDE DEF n
  <2>3. ASSUME i \in 1..n, f \in 1..n, f =< i
        PROVE  /\ Follows(M, f) <=> Follows(L, f)
               /\ (\A j \in 1..(n + 1) : f < j /\ j =< i => Follows(M, j))
                    <=> (\A j \in 1..n : f < j /\ j =< i => Follows(L, j))
    BY <1>1, <1>2, <2>3
  <2> QED
    BY <1>1, <2>1, <2>2, <2>3 DEF Spans, n
<1>4. ASSUME NEW f \in Nat
      PROVE  Spans(M, f, n + 1) <=> IF Follows(M, n + 1) THEN Spans(L, f, n) ELSE f = n + 1
  <2>1. CASE Follows(M, n + 1)
    <3>1. n > 0
      BY <1>1, <2>1 DEF Follows
    <3>2. Spans(M, f, n + 1) => Spans(M, f, n)
      BY <1>1, <2>1, <3>1 DEF Spans
    <3>3. Spans(M, f, n) => Spans(M, f, n + 1)
      BY <1>1, <2>1, <3>1 DEF Spans
    <3> QED
      BY <1>1, <1>3, <2>1, <3>2, <3>3
  <2>2. CASE ~Follows(M, n + 1)
    BY <1>1, <2>2 DEF Spans
  <2> QED
    BY <2>1, <2>2
<1>5. Trail(M)
  <2>1. ASSUME NEW i \in 1..(n + 1), NEW j \in 1..(n + 1), i < j
        PROVE  M[i].source =< M[j].source /\ M[i].stamp < M[j].stamp
    <3>1. i \in 1..n /\ (j = n + 1 \/ j \in 1..n)
      BY <1>1, <2>1
    <3> QED
      BY <1>1, <2>1, <3>1 DEF Trail
  <2>2. ASSUME NEW i \in 1..n
        PROVE  \E f \in 1..(n + 1) : Spans(M, f, i) /\ M[f].source = M[i].source
    <3>1. PICK f \in 1..n : Spans(L, f, i) /\ L[f].source = L[i].source
      BY DEF Trail
    <3>2. Spans(M, f, i) /\ M[f].source = M[i].source /\ f \in 1..(n + 1)
      BY <1>1, <1>3, <3>1
    <3> QED
      BY <3>2
  <2>3. \E f \in 1..(n + 1) : Spans(M, f, n + 1) /\ M[f].source = M[n + 1].source
    <3>1. CASE Follows(M, n + 1)
      <4>1. n \in 1..n /\ M[n + 1].source = M[n].source
        BY <1>1, <3>1 DEF Follows
      <4>2. PICK f \in 1..n : Spans(L, f, n) /\ L[f].source = L[n].source
        BY <4>1 DEF Trail
      <4>3. Spans(M, f, n + 1) /\ M[f].source = M[n + 1].source /\ f \in 1..(n + 1)
        BY <1>1, <1>4, <3>1, <4>1, <4>2
      <4> QED
        BY <4>3
    <3>2. CASE ~Follows(M, n + 1)
      BY <1>1, <1>4, <3>2
    <3> QED
      BY <3>1, <3>2
  <2>4. \A i \in 1..(n + 1) : \E f \in 1..(n + 1) : Spans(M, f, i) /\ M[f].source = M[i].source
    <3> TAKE i \in 1..(n + 1)
    <3>1. i = n + 1 \/ i \in 1..n
      BY <1>1
    <3> QED
      BY <2>2, <2>3, <3>1
  <2> QED
    BY <1>1, <2>1, <2>4 DEF Trail
<1> QED
  BY <1>1, <1>2, <1>3, <1>4, <1>5 DEF Grown

-----------------------------------------------------------------------------
\* The invariant of the events

Row == [id : Nat \ {0}, source : Nat \ {0}, class : Classes, start : Nat, end : Nat]

\* The types of what the detections add; labels and pending are there only in a
\* message and in a flush.
EventTypes ==
  /\ now \in Nat /\ restarts \in Nat /\ source \in Nat \ {0}
  /\ labels \subseteq Classes /\ (labels # {} => pc = "label")
  /\ active \in [Key -> [id : Nat, start : Nat, end : Nat]]
  /\ \A k \in Active : active[k].start > 0
  /\ pending \subseteq Active /\ (pending # {} => pc \in {"flush", "farewell"})
  /\ log \in [Classes -> Seq(Entry)]
  /\ astray \subseteq Nat \ {0}
  /\ pc = "label" => now > 0

\* What was seen lies in the past; a label to report was not seen yet, and
\* after a stop nothing is seen before the next start.
LogOK ==
  \A c \in Classes :
    /\ Trail(log[c])
    /\ \A i \in 1..Len(log[c]) :
         /\ log[c][i].source =< source /\ log[c][i].boot =< restarts
         /\ log[c][i].stamp =< now
         /\ c \in labels => log[c][i].stamp < now
         /\ pc \in {"farewell", "down"} => log[c][i].boot < restarts

\* An event in the memory is one of the log, as far as it was seen.
MemoryOK ==
  \A k \in Active :
    /\ k[1] =< source
    /\ \E f, i \in Nat :
         /\ EndsIn(log[k[2]], k[1], active[k], f, i)
         /\ pc # "farewell" => log[k[2]][i].boot = restarts

\* A row tells of an event of its class up to some detection.
Tells(r) ==
  \E f, i \in Nat :
    /\ Spans(log[r.class], f, i)
    /\ r.source = log[r.class][i].source
    /\ r.start = log[r.class][f].stamp /\ r.end = log[r.class][i].stamp

\* Rows differ in id and in what they name, and name an event of the log; all but
\* astray ones tell the truth.
TableOK(rows) ==
  /\ rows \subseteq Row
  /\ \E n \in Nat : \A r \in rows : r.id =< n
  /\ \A q, r \in rows : q.id = r.id => q = r
  /\ \A q, r \in rows : q.class = r.class /\ q.start = r.start => q = r
  /\ \A r \in rows : \E f \in 1..Len(log[r.class]) : log[r.class][f].stamp = r.start
  /\ \A r \in rows : r.id \in astray \/ Tells(r)

\* The row of the event of a key.
OwnRow(k, r) ==
  r.id = active[k].id /\ r.source = k[1] /\ r.class = k[2] /\ r.start = active[k].start

\* An event without an id has no row, one with an id its own, or is astray.
HeldOK(rows) ==
  \A k \in Active :
    /\ active[k].id = 0 => \A r \in rows : ~(r.class = k[2] /\ r.start = active[k].start)
    /\ active[k].id # 0 => active[k].id \in astray \/ \E r \in rows : OwnRow(k, r)

\* What the last flush has dealt with.
Saved(k, rows) ==
  \/ Name(k) \in lost
  \/ active[k].id \in astray
  \/ \E r \in rows : OwnRow(k, r) /\ r.end = active[k].end

\* A stop saves all, and what is down has no memory.
FarewellOK(rows) ==
  /\ pc = "farewell" => \A k \in Active \ pending : Saved(k, rows)
  /\ pc = "down" => Active = {}

\* While the next detection of a class would go on, its event is there.
LastIsActive ==
  \A c \in Classes : Len(log[c]) > 0 =>
    LET last == log[c][Len(log[c])] IN
    last.source = source /\ last.boot = restarts /\ now - last.stamp =< Gap
      => <<source, c>> \in Active

\* A row tells of the event up to that entry.
Told(rows, c, start, entry) ==
  \E r \in rows :
    /\ r.class = c /\ r.start = start
    /\ r.id \in astray \/ (r.source = entry.source /\ r.end = entry.stamp)

\* The event up to that entry is in the memory, lost, old or told.
Accounted(rows, c, start, entry) ==
  \/ \E k \in Active : Name(k) = <<c, start>>
  \/ <<c, start>> \in lost
  \/ entry.stamp + Retain < now
  \/ Told(rows, c, start, entry)

\* No event that is over is forgotten.
LossOK(rows) ==
  \A c \in Classes : \A f, i \in Nat :
    Spans(log[c], f, i) =>
      \/ i < Len(log[c]) /\ Follows(log[c], i + 1)
      \/ Accounted(rows, c, log[c][f].stamp, log[c][i])

\* The inductive invariant of the events.
SeenOK ==
  /\ EventTypes /\ LogOK /\ MemoryOK /\ LastIsActive
  /\ TableOK(events) /\ HeldOK(events) /\ FarewellOK(events) /\ LossOK(events)

\* The invariant says of the table what the property asks.
LEMMA SeenOKSuffices == SeenOK => EventsTellWhatWasSeen
<1> SUFFICES ASSUME SeenOK PROVE EventsTellWhatWasSeen
  OBVIOUS
<1>1. \A c \in Classes : Trail(log[c])
  BY DEF SeenOK, LogOK
<1>2. RowsAreTrue
  <2> SUFFICES ASSUME NEW r \in events
               PROVE  /\ r.id \in astray
                           \/ \E i \in DOMAIN log[r.class] : Says(r, Summary(r.class, i))
                      /\ \A q \in events : SameEvent(q, r) => q = r
    BY DEF RowsAreTrue
  <2>1. r \in Row
    BY DEF SeenOK, TableOK
  <2>2. ASSUME r.id \notin astray
        PROVE  \E i \in DOMAIN log[r.class] : Says(r, Summary(r.class, i))
    <3>1. PICK f \in Nat, i \in Nat :
            /\ Spans(log[r.class], f, i)
            /\ r.source = log[r.class][i].source
            /\ r.start = log[r.class][f].stamp /\ r.end = log[r.class][i].stamp
      BY <2>2 DEF SeenOK, TableOK, Tells
    <3>2. r.class \in Classes
      BY <2>1 DEF Row
    <3>3. Summary(r.class, i) = [source |-> r.source, class |-> r.class,
                                 start |-> r.start, end |-> r.end]
      BY <1>1, <3>1, <3>2, SummaryIs
    <3>4. i \in DOMAIN log[r.class]
      BY <1>1, <3>1, <3>2 DEF Spans, Trail
    <3> QED
      BY <3>3, <3>4 DEF Says
  <2>3. \A q \in events : SameEvent(q, r) => q = r
    <3> TAKE q \in events
    <3>1. q.class = r.class /\ q.start = r.start => q = r
      BY DEF SeenOK, TableOK
    <3>2. SameEvent(q, r) => q.class = r.class /\ q.start = r.start
      BY DEF SameEvent
    <3> QED
      BY <3>1, <3>2
  <2> QED
    BY <2>2, <2>3
<1>3. NothingSeenIsLost
  <2> SUFFICES ASSUME NEW c \in Classes, NEW i \in DOMAIN log[c]
               PROVE  LET whole == Summary(c, i) IN
                      \/ i < Len(log[c]) /\ Continues(c, i + 1)
                      \/ \E k \in Active : Name(k) = <<c, whole.start>>
                      \/ <<c, whole.start>> \in lost
                      \/ whole.end + Retain < now
                      \/ \E r \in events : SameEvent(r, whole) /\ (r.id \in astray \/ Says(r, whole))
    BY DEF NothingSeenIsLost
  <2>1. i \in 1..Len(log[c]) /\ i \in Nat
    BY <1>1 DEF Trail
  <2>2. PICK f \in Nat : Spans(log[c], f, i)
    BY <1>1, <2>1 DEF Trail
  <2> DEFINE L == log[c]
             whole == [source |-> L[i].source, class |-> c,
                       start |-> L[f].stamp, end |-> L[i].stamp]
  <2>3. Summary(c, i) = whole
    BY <1>1, <2>1, <2>2, SummaryIs
  <2>4. \/ i < Len(L) /\ Follows(L, i + 1)
        \/ Accounted(events, c, whole.start, L[i])
    BY <2>1, <2>2 DEF SeenOK, LossOK
  <2>5. Follows(L, i + 1) => Continues(c, i + 1)
    BY DEF Follows, Continues
  <2>6. Told(events, c, whole.start, L[i]) =>
          \E r \in events : SameEvent(r, whole) /\ (r.id \in astray \/ Says(r, whole))
    BY DEF Told, SameEvent, Says
  <2>7. Accounted(events, c, whole.start, L[i]) =>
          \/ \E k \in Active : Name(k) = <<c, whole.start>>
          \/ <<c, whole.start>> \in lost
          \/ whole.end + Retain < now
          \/ Told(events, c, whole.start, L[i])
    BY DEF Accounted
  <2> HIDE DEF L, whole
  <2> QED
    BY <2>3, <2>4, <2>5, <2>6, <2>7 DEF L
<1> QED
  BY <1>2, <1>3 DEF EventsTellWhatWasSeen

-----------------------------------------------------------------------------
\* A save

\* An id that is given to a row is of no other row there.
LEMMA NextIdIsNew ==
  ASSUME NEW rows, rows = events, TableOK(rows)
  PROVE  NextId \in Nat \ {0} /\ \A r \in events : r.id < NextId
<1> DEFINE S == {0} \cup {r.id : r \in events}
<1>1. S \subseteq Nat /\ S # {}
  BY DEF TableOK, Row
<1>2. PICK n \in Nat : \A r \in events : r.id =< n
  BY DEF TableOK
<1>3. \A x \in S : x =< n
  BY <1>2
<1>4. Max(S) \in S /\ \A x \in S : x =< Max(S)
  <2> HIDE DEF S
  <2> QED
    BY <1>1, <1>3, BoundedHasMax
<1>5. Max(S) \in Nat /\ \A r \in events : r.id \in Nat /\ r.id =< Max(S)
  BY <1>1, <1>4
<1> HIDE DEF S
<1>6. NextId = 1 + Max(S)
  BY DEF NextId, S
<1> QED
  BY <1>5, <1>6

\* No two events in the memory have one name.
LEMMA NamesDiffer ==
  ASSUME LogOK, MemoryOK, NEW j \in Active, NEW k \in Active, Name(j) = Name(k)
  PROVE  j = k
<1>1. j \in (1..MaxSources) \X Classes /\ k \in (1..MaxSources) \X Classes
  BY DEF Active, Key
<1>2. j[2] = k[2] /\ active[j].start = active[k].start /\ k[2] \in Classes
  BY <1>1 DEF Name
<1> DEFINE L == log[k[2]]
<1>3. Trail(L)
  BY <1>2 DEF LogOK
<1>4. PICK f \in Nat, i \in Nat : EndsIn(L, k[1], active[k], f, i)
  BY DEF MemoryOK
<1>5. PICK g \in Nat, h \in Nat : EndsIn(L, j[1], active[j], g, h)
  BY <1>2 DEF MemoryOK
<1> HIDE DEF L
<1>6. Spans(L, g, h) /\ L[g].stamp = active[k].start /\ L[h].source = j[1]
      /\ Spans(L, f, i) /\ L[i].source = k[1]
  BY <1>2, <1>4, <1>5 DEF EndsIn
<1>7. g = f
  BY <1>3, <1>4, <1>6, EventEndsOnce
<1>8. j[1] = k[1]
  BY <1>3, <1>6, <1>7, SpanStartsThere
<1> QED
  BY <1>1, <1>2, <1>8

\* What a save does to the table, whatever id the event has.
SaveIsRight(k, rows) ==
  /\ TableOK(rows)
  /\ \A j \in Active \ {k} : active[j].id = 0 =>
       \A r \in rows : ~(r.class = j[2] /\ r.start = active[j].start)
  /\ \A j \in Active : active[j].id # 0 =>
       active[j].id \in astray \/ \E r \in rows : OwnRow(j, r)
  /\ \A j \in Active \ {k} : Saved(j, events) => Saved(j, rows)
  /\ \/ active[k].id \in astray
     \/ \E r \in rows : /\ r.id = IdOf(k) /\ r.source = k[1] /\ r.class = k[2]
                        /\ r.start = active[k].start /\ r.end = active[k].end
  /\ \A c, start, entry :
       Told(events, c, start, entry) => Told(rows, c, start, entry) \/ <<c, start>> = Name(k)

\* The first save of an event gives it a row of its own.
LEMMA SaveInserts ==
  ASSUME EventTypes, LogOK, MemoryOK, TableOK(events), HeldOK(events),
         NEW k \in Active, active[k].id = 0
  PROVE  SaveIsRight(k, Written(k))
<1> DEFINE new == [id |-> NextId, source |-> k[1], class |-> k[2],
                   start |-> active[k].start, end |-> active[k].end]
           W == events \cup {new}
<1>1. Written(k) = W
  BY DEF Written
<1>2. k \in (1..MaxSources) \X Classes /\ k \in Key
      /\ k[1] \in 1..MaxSources /\ k[2] \in Classes
  BY DEF Active, Key
<1>3. NextId \in Nat \ {0} /\ \A r \in events : r.id < NextId
  BY NextIdIsNew
<1>4. active[k] \in [id : Nat, start : Nat, end : Nat]
  BY <1>2 DEF EventTypes
<1>5. new \in Row
  BY <1>2, <1>3, <1>4 DEF Row
<1>6. PICK f \in Nat, i \in Nat : EndsIn(log[k[2]], k[1], active[k], f, i)
  BY DEF MemoryOK
<1>7. /\ Tells(new)
      /\ \E g \in 1..Len(log[new.class]) : log[new.class][g].stamp = new.start
  BY <1>6 DEF Tells, EndsIn, Spans
<1>8. \A r \in events : ~(r.class = new.class /\ r.start = new.start)
  BY DEF HeldOK
<1>9. \A r \in events : r.id \in Nat /\ r.id < new.id
  BY <1>3 DEF TableOK, Row
<1>10. new.id = IdOf(k) /\ new.id = NextId /\ new.source = k[1] /\ new.class = k[2]
       /\ new.start = active[k].start /\ new.end = active[k].end
  BY DEF IdOf
<1> HIDE DEF new
<1>11. TableOK(W)
  <2>1. W \subseteq Row
    BY <1>5 DEF TableOK
  <2>2. \E n \in Nat : \A r \in W : r.id =< n
    <3>1. new.id \in Nat
      BY <1>3, <1>10
    <3>2. \A r \in W : r.id =< new.id
      BY <1>9, <3>1
    <3> QED
      BY <3>1, <3>2
  <2>3. \A q, r \in W : q.id = r.id => q = r
    <3>1. \A q \in events : q.id # new.id
      BY <1>3, <1>9, <1>10
    <3> QED
      BY <3>1 DEF TableOK
  <2>4. \A q, r \in W : q.class = r.class /\ q.start = r.start => q = r
    BY <1>8 DEF TableOK
  <2>5. \A r \in W : \E g \in 1..Len(log[r.class]) : log[r.class][g].stamp = r.start
    BY <1>7 DEF TableOK
  <2>6. \A r \in W : r.id \in astray \/ Tells(r)
    BY <1>7 DEF TableOK
  <2> HIDE DEF W
  <2> QED
    BY <2>1, <2>2, <2>3, <2>4, <2>5, <2>6 DEF TableOK
<1>12. ASSUME NEW j \in Active \ {k}, active[j].id = 0, NEW r \in W
       PROVE  ~(r.class = j[2] /\ r.start = active[j].start)
  <2>1. CASE r \in events
    BY <1>12, <2>1 DEF HeldOK
  <2>2. CASE r = new
    <3>1. Name(j) # Name(k)
      BY NamesDiffer
    <3> QED
      BY <1>10, <2>2, <3>1 DEF Name
  <2> QED
    BY <2>1, <2>2
<1>13. \A j \in Active : active[j].id # 0 =>
         active[j].id \in astray \/ \E r \in W : OwnRow(j, r)
  BY DEF HeldOK
<1>14. \A j \in Active : Saved(j, events) => Saved(j, W)
  BY DEF Saved
<1>15. \A c, start, entry : Told(events, c, start, entry) => Told(W, c, start, entry)
  BY DEF Told
<1>16. \E r \in W : /\ r.id = IdOf(k) /\ r.source = k[1] /\ r.class = k[2]
                    /\ r.start = active[k].start /\ r.end = active[k].end
  BY <1>10
<1> HIDE DEF W
<1> QED
  BY <1>1, <1>11, <1>12, <1>13, <1>14, <1>15, <1>16 DEF SaveIsRight

\* Any other save writes the end to the row of the event, or to none of its own
\* when the event is astray.
LEMMA SaveUpdates ==
  ASSUME EventTypes, LogOK, MemoryOK, TableOK(events), HeldOK(events),
         NEW k \in Active, active[k].id # 0
  PROVE  SaveIsRight(k, Written(k))
<1> DEFINE e == active[k]
           Updated(r) == IF r.id = e.id THEN [r EXCEPT !.end = e.end] ELSE r
           W == {Updated(r) : r \in events}
<1>1. Written(k) = W
  BY DEF Written
<1>2. k \in (1..MaxSources) \X Classes /\ k \in Key
      /\ k[1] \in 1..MaxSources /\ k[2] \in Classes
  BY DEF Active, Key
<1>3. e \in [id : Nat, start : Nat, end : Nat]
  BY <1>2 DEF EventTypes
<1>4. PICK f \in Nat, i \in Nat : EndsIn(log[k[2]], k[1], e, f, i)
  BY DEF MemoryOK
<1>5. ASSUME NEW r \in events
      PROVE  /\ Updated(r) \in Row
             /\ Updated(r).id = r.id /\ Updated(r).source = r.source
             /\ Updated(r).class = r.class /\ Updated(r).start = r.start
             /\ r.id = e.id => Updated(r).end = e.end
             /\ r.id # e.id => Updated(r) = r
  <2>1. r \in Row
    BY DEF TableOK
  <2>2. CASE r.id = e.id
    BY <1>3, <2>1, <2>2 DEF Row
  <2>3. CASE r.id # e.id
    BY <2>1, <2>3
  <2> QED
    BY <2>2, <2>3
<1>6. ASSUME NEW r \in events, r.id = e.id
      PROVE  e.id \in astray \/ OwnRow(k, r)
  <2>1. e.id \in astray \/ \E q \in events : OwnRow(k, q)
    BY DEF HeldOK
  <2>2. \A q \in events : OwnRow(k, q) => q = r
    BY <1>6 DEF OwnRow, TableOK
  <2> QED
    BY <2>1, <2>2
<1> HIDE DEF Updated
<1>7. TableOK(W)
  <2>1. W \subseteq Row
    BY <1>5
  <2>2. \E n \in Nat : \A r \in W : r.id =< n
    BY <1>5 DEF TableOK
  <2>3. \A q, r \in W : q.id = r.id => q = r
    BY <1>5 DEF TableOK
  <2>4. \A q, r \in W : q.class = r.class /\ q.start = r.start => q = r
    BY <1>5 DEF TableOK
  <2>5. \A r \in W : \E g \in 1..Len(log[r.class]) : log[r.class][g].stamp = r.start
    BY <1>5 DEF TableOK
  <2>6. ASSUME NEW r \in events PROVE Updated(r).id \in astray \/ Tells(Updated(r))
    <3>1. CASE r.id # e.id
      BY <1>5, <3>1 DEF TableOK
    <3>2. CASE r.id = e.id /\ OwnRow(k, r)
      BY <1>4, <1>5, <3>2 DEF Tells, EndsIn, OwnRow
    <3> QED
      BY <1>5, <1>6, <3>1, <3>2
  <2>7. \A r \in W : r.id \in astray \/ Tells(r)
    BY <2>6
  <2> HIDE DEF W
  <2> QED
    BY <2>1, <2>2, <2>3, <2>4, <2>5, <2>7 DEF TableOK
<1>8. \A j \in Active : active[j].id = 0 =>
        \A r \in W : ~(r.class = j[2] /\ r.start = active[j].start)
  BY <1>5 DEF HeldOK
<1>9. \A j \in Active : active[j].id # 0 =>
        active[j].id \in astray \/ \E r \in W : OwnRow(j, r)
  <2> SUFFICES ASSUME NEW j \in Active, NEW r \in events, OwnRow(j, r)
               PROVE  \E q \in W : OwnRow(j, q)
    BY DEF HeldOK
  <2>1. OwnRow(j, Updated(r))
    BY <1>5 DEF OwnRow
  <2> QED
    BY <2>1
<1>10. ASSUME NEW j \in Active \ {k}, Saved(j, events)
       PROVE  Saved(j, W)
  <2> SUFFICES ASSUME NEW r \in events, OwnRow(j, r), r.end = active[j].end,
                      active[j].id \notin astray
               PROVE  \E q \in W : OwnRow(j, q) /\ q.end = active[j].end
    BY <1>10 DEF Saved
  <2>1. r.id # e.id
    <3> SUFFICES ASSUME r.id = e.id PROVE FALSE
      OBVIOUS
    <3>1. OwnRow(k, r)
      BY <1>6 DEF OwnRow
    <3>2. j \in (1..MaxSources) \X Classes
      BY DEF Active, Key
    <3>3. j[1] = k[1] /\ j[2] = k[2]
      BY <3>1 DEF OwnRow
    <3> QED
      BY <1>2, <3>2, <3>3
  <2> QED
    BY <1>5, <2>1
<1>11. \/ e.id \in astray
       \/ \E r \in W : /\ r.id = IdOf(k) /\ r.source = k[1] /\ r.class = k[2]
                       /\ r.start = active[k].start /\ r.end = active[k].end
  <2> SUFFICES ASSUME NEW r \in events, OwnRow(k, r)
               PROVE  \E q \in W : /\ q.id = IdOf(k) /\ q.source = k[1] /\ q.class = k[2]
                                   /\ q.start = active[k].start /\ q.end = active[k].end
    BY DEF HeldOK
  <2>1. IdOf(k) = e.id
    BY DEF IdOf
  <2> QED
    BY <1>5, <2>1 DEF OwnRow
<1>12. ASSUME NEW c, NEW start, NEW entry, Told(events, c, start, entry), <<c, start>> # Name(k)
       PROVE  Told(W, c, start, entry)
  <2>1. PICK r \in events : /\ r.class = c /\ r.start = start
                            /\ r.id \in astray \/ (r.source = entry.source /\ r.end = entry.stamp)
    BY <1>12 DEF Told
  <2>2. CASE r.id \in astray
    BY <1>5, <2>1, <2>2 DEF Told
  <2>3. CASE r.id \notin astray
    <3>1. r.id # e.id
      BY <1>6, <1>12, <2>1, <2>3 DEF OwnRow, Name
    <3> QED
      BY <1>5, <2>1, <2>3, <3>1 DEF Told
  <2> QED
    BY <2>2, <2>3
<1> HIDE DEF W, e
<1> QED
  BY <1>1, <1>7, <1>8, <1>9, <1>10, <1>11, <1>12 DEF SaveIsRight, e

\* So a save is right in each case.
LEMMA SaveIsOK ==
  ASSUME EventTypes, LogOK, MemoryOK, TableOK(events), HeldOK(events), NEW k \in Active
  PROVE  SaveIsRight(k, Written(k))
BY SaveInserts, SaveUpdates

-----------------------------------------------------------------------------
\* The start, time and what the worker does besides

\* Nothing was seen, and nothing is told.
LEMMA SeenStarts == EventInit => SeenOK
<1> SUFFICES ASSUME EventInit PROVE SeenOK
  OBVIOUS
<1>1. /\ active = [k \in Key |-> NoEvent] /\ Active = {}
      /\ events = {} /\ astray = {} /\ labels = {} /\ pending = {}
      /\ now = 0 /\ source = 1 /\ restarts = 0 /\ pc = "recv"
  BY DEF EventInit, Init, Active
<1>2. log \in [Classes -> Seq(Entry)] /\ \A c \in Classes : Len(log[c]) = 0
  BY DEF EventInit
<1>3. EventTypes
  <2>1. active \in [Key -> [id : Nat, start : Nat, end : Nat]]
    BY <1>1 DEF NoEvent
  <2> QED
    BY <1>1, <1>2, <2>1 DEF EventTypes
<1>4. \A c \in Classes : Trail(log[c])
  BY <1>2 DEF Trail
<1>5. LogOK /\ LastIsActive /\ LossOK(events)
  BY <1>2, <1>4 DEF LogOK, LastIsActive, LossOK, Spans
<1>6. MemoryOK /\ TableOK(events) /\ HeldOK(events) /\ FarewellOK(events)
  BY <1>1 DEF MemoryOK, TableOK, HeldOK, FarewellOK
<1> QED
  BY <1>3, <1>5, <1>6 DEF SeenOK

\* What the worker does besides its events.
LEMMA WorkerRests ==
  ASSUME SeenOK, UNCHANGED <<now, source, labels, active, events, log, astray, lost, restarts>>,
         pending' \subseteq Active, pending' # {} => pc' \in {"flush", "farewell"},
         labels # {} => pc' = "label", pc' = "label" => pc = "label",
         pc' = "farewell" <=> pc = "farewell", pc = "farewell" => pending' = pending,
         pc' = "down" => pc = "down"
  PROVE  SeenOK'
<1>1. Active' = Active /\ \A k : Name(k)' = Name(k)
  BY DEF Active, Name
<1>2. EventTypes'
  BY <1>1 DEF SeenOK, EventTypes
<1>3. LogOK'
  BY DEF SeenOK, LogOK
<1>4. MemoryOK'
  BY <1>1 DEF SeenOK, MemoryOK
<1>5. LastIsActive'
  BY <1>1 DEF SeenOK, LastIsActive
<1>6. TableOK(events)'
  BY DEF SeenOK, TableOK, Tells
<1>7. HeldOK(events)'
  BY <1>1 DEF SeenOK, HeldOK, OwnRow
<1>8. FarewellOK(events)'
  BY <1>1 DEF SeenOK, FarewellOK, Saved, OwnRow
<1>9. LossOK(events)'
  <2>1. \A c, start, entry : Accounted(events, c, start, entry) => Accounted(events, c, start, entry)'
    BY <1>1 DEF Accounted, Told
  <2>2. LossOK(events)
    BY DEF SeenOK
  <2> QED
    BY <2>1, <2>2 DEF LossOK
<1> QED
  BY <1>2, <1>3, <1>4, <1>5, <1>6, <1>7, <1>8, <1>9 DEF SeenOK

\* Time goes on, with a message or without.
LEMMA TimePasses ==
  ASSUME SeenOK, Passes \/ Detect
  PROVE  SeenOK'
<1>1. /\ now' = now + 1 /\ source' \in {source, source + 1}
      /\ labels' \subseteq Classes /\ (labels' # {} => pc' = "label")
      /\ pc = "recv" /\ pc' \in {"recv", "label"}
      /\ UNCHANGED <<active, pending, events, log, astray, lost, restarts>>
  BY DEF SeenOK, EventTypes, Passes, Detect, vars, bounds, message, memory, history
<1>2. /\ now \in Nat /\ source \in Nat \ {0} /\ restarts \in Nat /\ log \in [Classes -> Seq(Entry)]
      /\ now' \in Nat \ {0} /\ source' \in Nat \ {0} /\ source =< source' /\ now < now'
  BY <1>1 DEF SeenOK, EventTypes
<1>3. Active' = Active /\ \A k : Name(k)' = Name(k)
  BY <1>1 DEF Active, Name
<1>4. EventTypes'
  BY <1>1, <1>2, <1>3 DEF SeenOK, EventTypes
<1>5. \A c \in Classes : \A i \in 1..Len(log[c]) :
        log[c][i].source \in Nat /\ log[c][i].stamp \in Nat
  <2>1. \A c \in Classes : \A i \in 1..Len(log[c]) : log[c][i] \in Entry
    BY <1>2
  <2> QED
    BY <2>1 DEF Entry
<1>6. LogOK'
  <2> SUFFICES ASSUME NEW c \in Classes
               PROVE  /\ Trail(log[c])
                      /\ \A i \in 1..Len(log[c]) :
                           /\ log[c][i].source =< source' /\ log[c][i].boot =< restarts
                           /\ log[c][i].stamp =< now'
                           /\ log[c][i].stamp < now'
    BY <1>1 DEF LogOK
  <2>1. Trail(log[c])
    BY DEF SeenOK, LogOK
  <2>2. ASSUME NEW i \in 1..Len(log[c])
        PROVE  /\ log[c][i].source =< source' /\ log[c][i].boot =< restarts
               /\ log[c][i].stamp =< now' /\ log[c][i].stamp < now'
    <3>1. log[c][i].source =< source /\ log[c][i].boot =< restarts /\ log[c][i].stamp =< now
      BY DEF SeenOK, LogOK
    <3>2. log[c][i].source \in Nat /\ log[c][i].stamp \in Nat
      BY <1>5
    <3> QED
      BY <1>2, <3>1, <3>2
  <2> QED
    BY <2>1, <2>2
<1>7. MemoryOK'
  <2> SUFFICES ASSUME NEW k \in Active
               PROVE  /\ k[1] =< source'
                      /\ \E f, i \in Nat :
                           /\ EndsIn(log[k[2]], k[1], active[k], f, i)
                           /\ log[k[2]][i].boot = restarts
    BY <1>1, <1>3 DEF MemoryOK
  <2>1. k[1] =< source /\ k[1] \in Nat
    BY DEF SeenOK, MemoryOK, Active, Key
  <2>2. k[1] =< source'
    BY <1>2, <2>1
  <2> QED
    BY <1>1, <2>2 DEF SeenOK, MemoryOK
<1>8. LastIsActive'
  <2> SUFFICES ASSUME NEW c \in Classes, NEW last, last = log[c][Len(log[c])], Len(log[c]) > 0,
                      last.source = source', last.boot = restarts, now' - last.stamp =< Gap
               PROVE  <<source', c>> \in Active
    BY <1>1, <1>3 DEF LastIsActive
  <2>1. Len(log[c]) \in 1..Len(log[c])
    BY <1>2
  <2>2. last.source =< source /\ last.source \in Nat /\ last.stamp \in Nat
    BY <1>5, <2>1 DEF SeenOK, LogOK
  <2>3. source' = source
    BY <1>1, <1>2, <2>2
  <2>4. now - last.stamp =< Gap
    BY <1>1, <1>2, <2>2, EventsAssumption
  <2> QED
    BY <2>3, <2>4 DEF SeenOK, LastIsActive
<1>9. TableOK(events)'
  BY <1>1 DEF SeenOK, TableOK, Tells
<1>10. HeldOK(events)'
  BY <1>1, <1>3 DEF SeenOK, HeldOK, OwnRow
<1>11. FarewellOK(events)'
  BY <1>1 DEF FarewellOK
<1>12. LossOK(events)'
  <2> SUFFICES ASSUME NEW c \in Classes, NEW f \in Nat, NEW i \in Nat, Spans(log[c], f, i),
                      ~(i < Len(log[c]) /\ Follows(log[c], i + 1))
               PROVE  Accounted(events, c, log[c][f].stamp, log[c][i])'
    BY <1>1 DEF LossOK, Accounted, Told
  <2>1. Accounted(events, c, log[c][f].stamp, log[c][i])
    BY DEF SeenOK, LossOK
  <2>2. log[c][i].stamp \in Nat
    BY <1>5 DEF Spans
  <2>3. log[c][i].stamp + Retain < now => log[c][i].stamp + Retain < now'
    BY <1>2, <2>2, EventsAssumption
  <2> QED
    BY <1>1, <1>3, <2>1, <2>3 DEF Accounted, Told
<1> QED
  BY <1>4, <1>6, <1>7, <1>8, <1>9, <1>10, <1>11, <1>12 DEF SeenOK

-----------------------------------------------------------------------------
\* A detection is taken.

\* The entry that is taken now.
Sighting == [source |-> source, boot |-> restarts, stamp |-> now]

\* What is taken is later than all of its class.
LEMMA TakesGrows ==
  ASSUME SeenOK, NEW k \in Key, Reported(k),
         log' = [log EXCEPT ![k[2]] = Append(@, Sighting)],
         labels' = labels \ {k[2]}, UNCHANGED <<now, source, pc, restarts>>
  PROVE  /\ Grown(log[k[2]], log'[k[2]], Sighting)
         /\ log' \in [Classes -> Seq(Entry)]
         /\ \A c \in Classes : c # k[2] => log'[c] = log[c]
         /\ LogOK'
<1>1. k[2] \in Classes /\ k[1] = source /\ k[2] \in labels /\ pc = "label"
  BY DEF Reported, Key
<1>2. log \in [Classes -> Seq(Entry)] /\ now \in Nat \ {0} /\ source \in Nat \ {0} /\ restarts \in Nat
  BY <1>1 DEF SeenOK, EventTypes
<1> DEFINE L == log[k[2]]
           M == log'[k[2]]
<1>3. Sighting \in Entry /\ Sighting.source = source /\ Sighting.boot = restarts /\ Sighting.stamp = now
  BY <1>2 DEF Sighting, Entry
<1>4. M = Append(L, Sighting) /\ \A c \in Classes : c # k[2] => log'[c] = log[c]
  BY <1>1, <1>2
<1>5. L \in Seq(Entry) /\ Trail(L)
  BY <1>1, <1>2 DEF SeenOK, LogOK
<1>6. log' \in [Classes -> Seq(Entry)]
  <2>1. Append(L, Sighting) \in Seq(Entry)
    BY <1>3, <1>5
  <2> QED
    BY <1>1, <1>2, <2>1
<1>7. \A i \in 1..Len(L) : L[i].source =< Sighting.source /\ L[i].stamp < Sighting.stamp
  BY <1>1, <1>3 DEF SeenOK, LogOK
<1>8. Grown(L, M, Sighting)
  <2> HIDE DEF L, M
  <2> QED
    BY <1>3, <1>4, <1>5, <1>7, TrailGrows
<1>9. LogOK'
  <2> SUFFICES ASSUME NEW c \in Classes
               PROVE  /\ Trail(log'[c])
                      /\ \A i \in 1..Len(log'[c]) :
                           /\ log'[c][i].source =< source /\ log'[c][i].boot =< restarts
                           /\ log'[c][i].stamp =< now
                           /\ c \in labels \ {k[2]} => log'[c][i].stamp < now
    BY <1>1 DEF LogOK
  <2>1. CASE c # k[2]
    BY <1>1, <1>4, <2>1 DEF SeenOK, LogOK
  <2>2. CASE c = k[2]
    <3>1. ASSUME NEW i \in 1..Len(M)
          PROVE  M[i].source =< source /\ M[i].boot =< restarts /\ M[i].stamp =< now
      <4>1. CASE i \in 1..Len(L)
        BY <1>1, <1>8, <4>1 DEF Grown, SeenOK, LogOK
      <4>2. CASE i = Len(M)
        BY <1>2, <1>3, <1>8, <4>2 DEF Grown
      <4>3. Len(L) \in Nat /\ Len(M) = Len(L) + 1
        BY <1>8 DEF Grown
      <4> HIDE DEF L, M
      <4> QED
        BY <3>1, <4>1, <4>2, <4>3
    <3> QED
      BY <1>8, <2>2, <3>1 DEF Grown
  <2> QED
    BY <2>1, <2>2
<1> QED
  BY <1>4, <1>6, <1>8, <1>9

\* The event of the present source ends in the last detection of its class.
LEMMA EndsInTheLast ==
  ASSUME SeenOK, NEW k \in Active, k[1] = source,
         NEW f \in Nat, NEW i \in Nat, EndsIn(log[k[2]], k[1], active[k], f, i)
  PROVE  i = Len(log[k[2]])
<1> DEFINE L == log[k[2]]
<1>1. k[2] \in Classes
  BY DEF Active, Key
<1>2. Trail(L) /\ L \in Seq(Entry) /\ Len(L) \in Nat /\ source \in Nat
  BY <1>1 DEF SeenOK, LogOK, Trail, EventTypes
<1>3. i \in 1..Len(L) /\ L[i].source = source /\ (i < Len(L) => L[i + 1].source # source)
  BY DEF EndsIn, Spans
<1>4. ASSUME i < Len(L) PROVE FALSE
  <2>1. i + 1 \in 1..Len(L) /\ i < i + 1
    BY <1>2, <1>3, <1>4
  <2>2. L[i].source =< L[i + 1].source
    BY <1>2, <1>3, <2>1 DEF Trail
  <2>3. L[i + 1].source =< source
    BY <1>1, <2>1 DEF SeenOK, LogOK
  <2>4. L[i + 1].source \in Nat
    <3>1. L[i + 1] \in Entry
      BY <1>2, <2>1
    <3> QED
      BY <3>1 DEF Entry
  <2> QED
    BY <1>2, <1>3, <1>4, <2>2, <2>3, <2>4
<1> HIDE DEF L
<1> QED
  BY <1>2, <1>3, <1>4 DEF L

\* Events that go on keep their places in the log when it grows.
LEMMA OthersKeepPlaces ==
  ASSUME SeenOK, NEW k \in Key, Reported(k),
         Grown(log[k[2]], log'[k[2]], Sighting),
         \A c \in Classes : c # k[2] => log'[c] = log[c],
         NEW j \in Active, j # k
  PROVE  /\ j[1] =< source
         /\ \E f, i \in Nat :
              /\ EndsIn(log'[j[2]], j[1], active[j], f, i)
              /\ log'[j[2]][i].boot = restarts
<1>1. j \in (1..MaxSources) \X Classes /\ k \in (1..MaxSources) \X Classes /\ j[2] \in Classes
  BY DEF Active, Key
<1>2. k[1] = source /\ pc = "label"
  BY DEF Reported
<1>3. PICK f \in Nat, i \in Nat :
        EndsIn(log[j[2]], j[1], active[j], f, i) /\ log[j[2]][i].boot = restarts
  BY <1>2 DEF SeenOK, MemoryOK
<1>4. j[1] =< source
  BY DEF SeenOK, MemoryOK
<1>5. CASE j[2] # k[2]
  BY <1>1, <1>3, <1>4, <1>5
<1>6. CASE j[2] = k[2]
  <2> DEFINE L == log[k[2]]
             M == log'[k[2]]
  <2>1. j[1] # source
    BY <1>1, <1>2, <1>6
  <2>2. f \in 1..Len(L) /\ i \in 1..Len(L)
    BY <1>3, <1>6 DEF EndsIn, Spans
  <2>3. /\ Len(L) \in Nat /\ Len(M) = Len(L) + 1 /\ M[Len(M)].source = source
        /\ \A h \in 1..Len(L) : M[h] = L[h]
        /\ Spans(M, f, i) <=> Spans(L, f, i)
    <3>1. /\ Len(L) \in Nat /\ Len(M) = Len(L) + 1 /\ M[Len(M)] = Sighting
          /\ \A h \in 1..Len(L) : M[h] = L[h]
          /\ \A g, h \in Nat : h # Len(M) => (Spans(M, g, h) <=> Spans(L, g, h))
      BY DEF Grown
    <3>2. Sighting.source = source
      BY DEF Sighting
    <3> HIDE DEF L, M
    <3>3. i # Len(M)
      BY <2>2, <3>1
    <3> QED
      BY <3>1, <3>2, <3>3
  <2>4. EndsIn(L, j[1], active[j], f, i) /\ L[i].boot = restarts
    BY <1>3, <1>6
  <2>5. i < Len(M) => M[i + 1].source # j[1]
    <3>1. CASE i < Len(L)
      <4>1. i + 1 \in 1..Len(L)
        BY <2>2, <2>3, <3>1
      <4> QED
        BY <2>3, <2>4, <3>1, <4>1 DEF EndsIn
    <3>2. CASE i = Len(L)
      BY <2>1, <2>3, <3>2
    <3> HIDE DEF L, M
    <3> QED
      BY <2>2, <2>3, <3>1, <3>2
  <2>6. EndsIn(M, j[1], active[j], f, i) /\ M[i].boot = restarts
    BY <2>2, <2>3, <2>4, <2>5 DEF EndsIn
  <2> QED
    BY <1>4, <1>6, <2>6
<1> QED
  BY <1>5, <1>6

\* The table does not mind a longer log.
LEMMA TableGrows ==
  ASSUME SeenOK, NEW k \in Key, Grown(log[k[2]], log'[k[2]], Sighting),
         \A c \in Classes : c # k[2] => log'[c] = log[c],
         UNCHANGED astray, TableOK(events')
  PROVE  TableOK(events)'
<1>1. k[2] \in Classes
  BY DEF Key
<1>2. ASSUME NEW r \in events'
      PROVE  /\ r.class \in Classes
             /\ \E f \in 1..Len(log'[r.class]) : log'[r.class][f].stamp = r.start
             /\ Tells(r) => Tells(r)'
  <2>1. r.class \in Classes
    BY DEF TableOK, Row
  <2>2. PICK f \in 1..Len(log[r.class]) : log[r.class][f].stamp = r.start
    BY DEF TableOK
  <2>3. CASE r.class # k[2]
    BY <2>1, <2>2, <2>3 DEF Tells
  <2>4. CASE r.class = k[2]
    <3> DEFINE L == log[k[2]]
               M == log'[k[2]]
    <3>1. Len(L) \in Nat /\ Len(M) = Len(L) + 1 /\ \A h \in 1..Len(L) : M[h] = L[h]
      BY DEF Grown
    <3>2. f \in 1..Len(M) /\ M[f].stamp = r.start
      BY <2>2, <2>4, <3>1
    <3>3. ASSUME NEW g \in Nat, NEW i \in Nat, Spans(L, g, i)
          PROVE  Spans(M, g, i) /\ M[i] = L[i] /\ M[g] = L[g]
      <4>1. g \in 1..Len(L) /\ i \in 1..Len(L)
        BY <3>3 DEF Spans
      <4>2. i # Len(M)
        BY <3>1, <4>1
      <4> QED
        BY <3>1, <3>3, <4>1, <4>2 DEF Grown
    <3> HIDE DEF L, M
    <3>4. Tells(r) => Tells(r)'
      BY <2>4, <3>3 DEF Tells, L, M
    <3> QED
      BY <2>1, <2>4, <3>2, <3>4 DEF M
  <2> QED
    BY <2>3, <2>4
<1>3. /\ events' \subseteq Row
      /\ \E n \in Nat : \A r \in events' : r.id =< n
      /\ \A q, r \in events' : q.id = r.id => q = r
      /\ \A q, r \in events' : q.class = r.class /\ q.start = r.start => q = r
      /\ \A r \in events' : r.id \in astray \/ Tells(r)
  BY DEF TableOK
<1> QED
  BY <1>2, <1>3 DEF TableOK

-----------------------------------------------------------------------------
\* An event leaves the memory.

\* The memory knows the whole of its event.
LEMMA MemoryKnowsTheWhole ==
  ASSUME SeenOK, NEW k \in Active, NEW c \in Classes, NEW f \in Nat, NEW i \in Nat,
         Spans(log[c], f, i), ~(i < Len(log[c]) /\ Follows(log[c], i + 1)),
         Name(k) = <<c, log[c][f].stamp>>
  PROVE  /\ k[2] = c /\ log[c][f].stamp = active[k].start
         /\ log[c][i].source = k[1] /\ log[c][i].stamp = active[k].end
<1>1. k[2] = c /\ active[k].start = log[c][f].stamp
  BY DEF Name
<1>2. Trail(log[c])
  BY DEF SeenOK, LogOK
<1>3. PICK g \in Nat, h \in Nat : EndsIn(log[c], k[1], active[k], g, h)
  BY <1>1 DEF SeenOK, MemoryOK
<1>4. i = h
  BY <1>1, <1>2, <1>3, EventEndsOnce
<1> QED
  BY <1>1, <1>3, <1>4 DEF EndsIn

\* What is right once the event of a key is out of the memory.
Without(k) ==
  /\ TableOK(events')
  /\ \A j \in Active \ {k} :
       /\ active[j].id = 0 => \A r \in events' : ~(r.class = j[2] /\ r.start = active[j].start)
       /\ active[j].id # 0 => active[j].id \in astray \/ \E r \in events' : OwnRow(j, r)
  /\ \A c \in Classes : \A f, i \in Nat : Spans(log[c], f, i) =>
       \/ i < Len(log[c]) /\ Follows(log[c], i + 1)
       \/ \E j \in Active \ {k} : Name(j) = <<c, log[c][f].stamp>>
       \/ <<c, log[c][f].stamp>> \in lost'
       \/ log[c][i].stamp + Retain < now
       \/ Told(events', c, log[c][f].stamp, log[c][i])

\* Of a key without an event nothing leaves.
LEMMA NoneLeaves ==
  ASSUME SeenOK, NEW k, k \notin Active, UNCHANGED <<events, lost>>
  PROVE  Without(k)
<1>1. Active \ {k} = Active
  OBVIOUS
<1>2. TableOK(events') /\ HeldOK(events') /\ LossOK(events')
  BY DEF SeenOK
<1>3. \A c, start, entry : Accounted(events', c, start, entry) <=>
        \/ \E j \in Active \ {k} : Name(j) = <<c, start>>
        \/ <<c, start>> \in lost'
        \/ entry.stamp + Retain < now
        \/ Told(events', c, start, entry)
  BY <1>1 DEF Accounted
<1>4. \A c \in Classes : \A f, i \in Nat : Spans(log[c], f, i) =>
        \/ i < Len(log[c]) /\ Follows(log[c], i + 1)
        \/ Accounted(events', c, log[c][f].stamp, log[c][i])
  BY <1>2 DEF LossOK
<1> QED
  BY <1>1, <1>2, <1>3, <1>4 DEF Without, HeldOK

\* After a save the table tells all that the memory did of the event.
LEMMA SavedLeaves ==
  ASSUME SeenOK, NEW k \in Active, events' = Written(k), Leaves(k)
  PROVE  Without(k)
<1>1. SaveIsRight(k, events')
  BY SaveIsOK DEF SeenOK
<1>2. TableOK(events')
  BY <1>1 DEF SaveIsRight
<1>3. \A j \in Active \ {k} :
        /\ active[j].id = 0 => \A r \in events' : ~(r.class = j[2] /\ r.start = active[j].start)
        /\ active[j].id # 0 => active[j].id \in astray \/ \E r \in events' : OwnRow(j, r)
  BY <1>1 DEF SaveIsRight
<1>4. lost \subseteq lost' /\ (active[k].id \in astray => Name(k) \in lost')
  BY DEF Leaves
<1>5. ASSUME NEW c \in Classes, NEW f \in Nat, NEW i \in Nat, Spans(log[c], f, i),
             ~(i < Len(log[c]) /\ Follows(log[c], i + 1))
      PROVE  \/ \E j \in Active \ {k} : Name(j) = <<c, log[c][f].stamp>>
             \/ <<c, log[c][f].stamp>> \in lost'
             \/ log[c][i].stamp + Retain < now
             \/ Told(events', c, log[c][f].stamp, log[c][i])
  <2> DEFINE start == log[c][f].stamp
             entry == log[c][i]
  <2>1. Accounted(events, c, start, entry)
    BY <1>5 DEF SeenOK, LossOK
  <2>2. CASE Name(k) = <<c, start>>
    <3>1. /\ k[2] = c /\ start = active[k].start
          /\ entry.source = k[1] /\ entry.stamp = active[k].end
      BY <1>5, <2>2, MemoryKnowsTheWhole
    <3>2. CASE active[k].id \in astray
      BY <1>4, <2>2, <3>2
    <3>3. CASE active[k].id \notin astray
      <4>1. PICK r \in events' : /\ r.source = k[1] /\ r.class = k[2]
                                 /\ r.start = active[k].start /\ r.end = active[k].end
        BY <1>1, <3>3 DEF SaveIsRight
      <4>2. Told(events', c, start, entry)
        BY <3>1, <4>1 DEF Told
      <4> QED
        BY <4>2
    <3> QED
      BY <3>2, <3>3
  <2>3. CASE Name(k) # <<c, start>>
    <3>1. Told(events, c, start, entry) => Told(events', c, start, entry)
      BY <1>1, <2>3 DEF SaveIsRight
    <3> HIDE DEF start, entry
    <3>2. \/ \E j \in Active \ {k} : Name(j) = <<c, start>>
          \/ <<c, start>> \in lost'
          \/ entry.stamp + Retain < now
          \/ Told(events', c, start, entry)
      BY <1>4, <2>1, <2>3, <3>1 DEF Accounted
    <3> QED
      BY <3>2 DEF start, entry
  <2> QED
    BY <2>2, <2>3
<1> QED
  BY <1>2, <1>3, <1>5 DEF Without

-----------------------------------------------------------------------------
\* Begin and Replace

\* The detection begins an event: what it follows was not of this source, was
\* long ago or of an earlier start, as the event would be there else.
LEMMA BeginsOK ==
  ASSUME SeenOK, NEW k \in Key, Reported(k), k \notin Active \/ Over(k),
         Without(k), Takes(k, NewEvent),
         UNCHANGED <<now, source, pc, restarts, pending, astray>>
  PROVE  SeenOK'
<1> DEFINE L == log[k[2]]
           M == log'[k[2]]
<1>1. k \in (1..MaxSources) \X Classes /\ k[2] \in Classes /\ k[1] \in Nat
      /\ k[1] = source /\ k[2] \in labels /\ pc = "label" /\ k = <<source, k[2]>>
  BY DEF Reported, Key
<1>2. /\ now \in Nat \ {0} /\ source \in Nat \ {0} /\ restarts \in Nat
      /\ active \in [Key -> [id : Nat, start : Nat, end : Nat]]
  BY <1>1 DEF SeenOK, EventTypes
<1>3. /\ Grown(L, M, Sighting)
      /\ log' \in [Classes -> Seq(Entry)]
      /\ \A c \in Classes : c # k[2] => log'[c] = log[c]
      /\ LogOK'
  BY TakesGrows DEF Takes, Sighting
<1>4. /\ active' = [active EXCEPT ![k] = NewEvent] /\ labels' = labels \ {k[2]}
      /\ NewEvent \in [id : Nat, start : Nat, end : Nat] /\ NewEvent # NoEvent
      /\ NewEvent.id = 0 /\ NewEvent.start = now /\ NewEvent.end = now
  BY <1>2 DEF Takes, NewEvent, NoEvent
<1>5. /\ active'[k] = NewEvent /\ \A j \in Key : j # k => active'[j] = active[j]
      /\ Active' = Active \cup {k}
      /\ Name(k)' = <<k[2], now>> /\ \A j \in Active \ {k} : Name(j)' = Name(j)
  BY <1>2, <1>4 DEF Active, Name
<1>6. EventTypes'
  <2>1. active' \in [Key -> [id : Nat, start : Nat, end : Nat]]
    BY <1>2, <1>4
  <2>2. \A j \in Active' : active'[j].start > 0
    BY <1>2, <1>4, <1>5 DEF SeenOK, EventTypes, Active
  <2>3. pending' = {}
    BY <1>1 DEF SeenOK, EventTypes
  <2> QED
    BY <1>1, <1>3, <1>4, <2>1, <2>2, <2>3 DEF SeenOK, EventTypes
<1>7. ~Follows(M, Len(M))
  <2> SUFFICES ASSUME Follows(M, Len(M)) PROVE FALSE
    OBVIOUS
  <2>1. /\ Len(L) \in Nat /\ Len(M) = Len(L) + 1 /\ M[Len(M)] = Sighting
        /\ \A h \in 1..Len(L) : M[h] = L[h]
    BY <1>3 DEF Grown
  <2>2. /\ Len(L) \in 1..Len(L) /\ Len(L) > 0
        /\ L[Len(L)].source = source /\ L[Len(L)].boot = restarts
        /\ now - L[Len(L)].stamp =< Gap
    <3>1. Len(M) - 1 = Len(L) /\ Len(L) \in 1..Len(L) /\ Len(L) > 0
      BY <2>1 DEF Follows
    <3>2. M[Len(M) - 1] = L[Len(L)]
      BY <2>1, <3>1
    <3> QED
      BY <2>1, <3>1, <3>2 DEF Follows, Sighting
  <2>3. k \in Active
    <3>1. <<source, k[2]>> \in Active
      BY <1>1, <2>2 DEF SeenOK, LastIsActive
    <3> QED
      BY <1>1, <3>1
  <2>4. now - active[k].end > Gap
    BY <2>3 DEF Over
  <2>5. PICK f \in Nat, i \in Nat : EndsIn(L, k[1], active[k], f, i)
    BY <2>3 DEF SeenOK, MemoryOK
  <2>6. i = Len(L)
    BY <1>1, <2>3, <2>5, EndsInTheLast
  <2>7. L[Len(L)].stamp = active[k].end
    BY <2>5, <2>6 DEF EndsIn
  <2>8. active[k].end \in Nat
    BY <1>2
  <2> QED
    BY <1>2, <2>2, <2>4, <2>7, <2>8, EventsAssumption
<1>8. /\ Len(L) \in Nat /\ Len(M) = Len(L) + 1 /\ Len(M) \in Nat /\ Len(M) \in 1..Len(M)
      /\ M[Len(M)].source = source /\ M[Len(M)].boot = restarts /\ M[Len(M)].stamp = now
      /\ \A h \in 1..Len(L) : M[h] = L[h] /\ (Follows(M, h) <=> Follows(L, h))
      /\ \A f, i \in Nat : i # Len(M) => (Spans(M, f, i) <=> Spans(L, f, i))
      /\ \A f \in Nat : Spans(M, f, Len(M)) <=> f = Len(M)
  BY <1>3, <1>7 DEF Grown, Sighting
<1> HIDE DEF L, M
<1>9. MemoryOK'
  <2> SUFFICES ASSUME NEW j \in Active'
               PROVE  /\ j[1] =< source
                      /\ \E f, i \in Nat :
                           /\ EndsIn(log'[j[2]], j[1], active'[j], f, i)
                           /\ log'[j[2]][i].boot = restarts
    BY DEF MemoryOK
  <2>1. CASE j = k
    <3>1. EndsIn(M, source, NewEvent, Len(M), Len(M))
      BY <1>4, <1>8 DEF EndsIn
    <3> QED
      BY <1>1, <1>2, <1>5, <1>8, <2>1, <3>1 DEF M
  <2>2. CASE j # k
    <3>1. j \in Active /\ active'[j] = active[j]
      BY <1>5, <2>2 DEF Active
    <3> QED
      BY <1>3, <2>2, <3>1, OthersKeepPlaces DEF L, M
  <2> QED
    BY <2>1, <2>2
<1>10. LastIsActive'
  <2> SUFFICES ASSUME NEW c \in Classes, NEW last, last = log'[c][Len(log'[c])], Len(log'[c]) > 0,
                      last.source = source, last.boot = restarts, now - last.stamp =< Gap
               PROVE  <<source, c>> \in Active'
    BY DEF LastIsActive
  <2>1. CASE c = k[2]
    BY <1>1, <1>5, <2>1
  <2>2. CASE c # k[2]
    BY <1>3, <1>5, <2>2 DEF SeenOK, LastIsActive
  <2> QED
    BY <2>1, <2>2
<1>11. TableOK(events)'
  BY <1>3, TableGrows DEF L, M, Without
<1>12. HeldOK(events)'
  <2> SUFFICES ASSUME NEW j \in Active'
               PROVE  /\ active'[j].id = 0 =>
                           \A r \in events' : ~(r.class = j[2] /\ r.start = active'[j].start)
                      /\ active'[j].id # 0 =>
                           active'[j].id \in astray \/ \E r \in events' : OwnRow(j, r)'
    BY DEF HeldOK
  <2>1. CASE j = k
    <3> SUFFICES ASSUME NEW r \in events', r.class = k[2], r.start = now PROVE FALSE
      BY <1>4, <1>5, <2>1
    <3>1. PICK f \in 1..Len(log[k[2]]) : log[k[2]][f].stamp = r.start
      BY DEF Without, TableOK
    <3>2. log[k[2]][f].stamp < now
      BY <1>1 DEF SeenOK, LogOK
    <3> QED
      BY <1>2, <3>1, <3>2
  <2>2. CASE j # k
    <3>1. j \in Active \ {k} /\ active'[j] = active[j]
      BY <1>5, <2>2 DEF Active
    <3> QED
      BY <3>1 DEF Without, OwnRow
  <2> QED
    BY <2>1, <2>2
<1>13. FarewellOK(events)'
  BY <1>1 DEF FarewellOK
<1>14. LossOK(events)'
  <2> SUFFICES ASSUME NEW c \in Classes, NEW f \in Nat, NEW i \in Nat, Spans(log'[c], f, i),
                      ~(i < Len(log'[c]) /\ Follows(log'[c], i + 1))
               PROVE  Accounted(events, c, log[c][f].stamp, log[c][i])'
    BY DEF LossOK
  <2>1. ASSUME Spans(log[c], f, i), ~(i < Len(log[c]) /\ Follows(log[c], i + 1)),
               log'[c][f] = log[c][f], log'[c][i] = log[c][i]
        PROVE  Accounted(events, c, log[c][f].stamp, log[c][i])'
    <3> DEFINE start == log[c][f].stamp
               entry == log[c][i]
    <3>1. \/ \E j \in Active \ {k} : Name(j) = <<c, start>>
          \/ <<c, start>> \in lost'
          \/ entry.stamp + Retain < now
          \/ Told(events', c, start, entry)
      BY <2>1 DEF Without
    <3>2. Told(events', c, start, entry) => Told(events, c, log[c][f].stamp, log[c][i])'
      BY <2>1 DEF Told
    <3> QED
      BY <1>5, <2>1, <3>1, <3>2 DEF Accounted
  <2>2. CASE c # k[2]
    BY <1>3, <2>1, <2>2
  <2>3. CASE c = k[2] /\ i # Len(M)
    <3>1. Spans(L, f, i)
      BY <1>8, <2>3 DEF M
    <3>2. f \in 1..Len(L) /\ i \in 1..Len(L)
      BY <3>1 DEF Spans
    <3>3. M[f] = L[f] /\ M[i] = L[i]
      BY <1>8, <3>2
    <3>4. ~(i < Len(L) /\ Follows(L, i + 1))
      <4>1. i < Len(L) => i < Len(M) /\ i + 1 \in 1..Len(L)
        BY <1>8, <3>2
      <4>2. ~(i < Len(M) /\ Follows(M, i + 1))
        BY <2>3 DEF M
      <4> QED
        BY <1>8, <4>1, <4>2
    <3> QED
      BY <2>1, <2>3, <3>1, <3>3, <3>4 DEF L, M
  <2>4. CASE c = k[2] /\ i = Len(M)
    <3>1. f = Len(M)
      BY <1>8, <2>4 DEF M
    <3>2. log'[c][f].stamp = now
      BY <1>8, <2>4, <3>1 DEF M
    <3>3. k \in Active' /\ Name(k)' = <<c, log'[c][f].stamp>>
      BY <1>5, <2>4, <3>2
    <3> QED
      BY <3>3 DEF Accounted
  <2> QED
    BY <2>2, <2>3, <2>4
<1> QED
  BY <1>3, <1>6, <1>9, <1>10, <1>11, <1>12, <1>13, <1>14 DEF SeenOK

-----------------------------------------------------------------------------
\* Extend

\* The detection goes on with the event, which ended in the last of its class.
LEMMA ExtendsOK ==
  ASSUME SeenOK, NEW k \in Active, Reported(k), ~Over(k),
         Takes(k, [active[k] EXCEPT !.end = now]),
         UNCHANGED <<now, source, pc, restarts, pending, events, astray, lost>>
  PROVE  SeenOK'
<1> DEFINE L == log[k[2]]
           M == log'[k[2]]
           e == [active[k] EXCEPT !.end = now]
<1>1. k \in (1..MaxSources) \X Classes /\ k[2] \in Classes /\ k \in Key
      /\ k[1] = source /\ k[2] \in labels /\ pc = "label" /\ k = <<source, k[2]>>
  BY DEF Reported, Key, Active
<1>2. /\ now \in Nat \ {0} /\ source \in Nat \ {0} /\ restarts \in Nat
      /\ active \in [Key -> [id : Nat, start : Nat, end : Nat]] /\ active[k].start > 0
  BY <1>1 DEF SeenOK, EventTypes
<1>3. /\ Grown(L, M, Sighting)
      /\ log' \in [Classes -> Seq(Entry)]
      /\ \A c \in Classes : c # k[2] => log'[c] = log[c]
      /\ LogOK'
  BY <1>1, TakesGrows DEF Takes, Sighting
<1>4. /\ active' = [active EXCEPT ![k] = e] /\ labels' = labels \ {k[2]}
      /\ e \in [id : Nat, start : Nat, end : Nat]
      /\ e.id = active[k].id /\ e.start = active[k].start /\ e.end = now
  BY <1>1, <1>2 DEF Takes
<1>5. e # NoEvent
  BY <1>2, <1>4 DEF NoEvent
<1>6. /\ active'[k] = e /\ \A j \in Key : j # k => active'[j] = active[j]
      /\ Active' = Active
      /\ \A j \in Active : Name(j)' = Name(j)
      /\ \A j \in Active : active'[j].id = active[j].id /\ active'[j].start = active[j].start
  BY <1>1, <1>2, <1>4, <1>5 DEF Active, Name
<1>7. EventTypes'
  <2>1. active' \in [Key -> [id : Nat, start : Nat, end : Nat]]
    BY <1>2, <1>4
  <2>2. \A j \in Active' : active'[j].start > 0
    BY <1>6 DEF SeenOK, EventTypes
  <2>3. pending' = {}
    BY <1>1 DEF SeenOK, EventTypes
  <2> QED
    BY <1>1, <1>3, <1>4, <2>1, <2>2, <2>3 DEF SeenOK, EventTypes
<1>8. PICK f0 \in Nat, i0 \in Nat : EndsIn(L, k[1], active[k], f0, i0) /\ L[i0].boot = restarts
  BY <1>1 DEF SeenOK, MemoryOK
<1>9. i0 = Len(L)
  BY <1>1, <1>8, EndsInTheLast
<1>10. /\ Len(L) \in Nat /\ Len(M) = Len(L) + 1 /\ Len(M) \in Nat /\ Len(M) \in 1..Len(M)
       /\ M[Len(M)] = Sighting
       /\ M[Len(M)].source = source /\ M[Len(M)].boot = restarts /\ M[Len(M)].stamp = now
       /\ \A h \in 1..Len(L) : M[h] = L[h] /\ (Follows(M, h) <=> Follows(L, h))
       /\ \A f, i \in Nat : i # Len(M) => (Spans(M, f, i) <=> Spans(L, f, i))
  BY <1>3 DEF Grown, Sighting
<1> HIDE DEF L, M
<1>11. f0 \in 1..Len(L) /\ Len(L) \in 1..Len(L) /\ f0 \in 1..Len(M) /\ M[f0] = L[f0]
  BY <1>8, <1>9, <1>10 DEF EndsIn, Spans
<1>12. Follows(M, Len(M))
  <2>1. /\ L[Len(L)].source = source /\ L[Len(L)].boot = restarts
        /\ L[Len(L)].stamp = active[k].end
    BY <1>1, <1>8, <1>9 DEF EndsIn
  <2>2. now - active[k].end =< Gap
    <3>1. active[k].end \in Nat
      BY <1>1, <1>2
    <3> QED
      BY <1>2, <3>1, EventsAssumption DEF Over
  <2>3. Len(M) - 1 = Len(L) /\ Len(M) > 1
    BY <1>10, <1>11
  <2> QED
    BY <1>10, <1>11, <2>1, <2>2, <2>3 DEF Follows
<1>13. \A f \in Nat : Spans(M, f, Len(M)) <=> Spans(L, f, Len(L))
  BY <1>3, <1>12 DEF Grown, L, M
<1>14. MemoryOK'
  <2> SUFFICES ASSUME NEW j \in Active
               PROVE  /\ j[1] =< source
                      /\ \E f, i \in Nat :
                           /\ EndsIn(log'[j[2]], j[1], active'[j], f, i)
                           /\ log'[j[2]][i].boot = restarts
    BY <1>6 DEF MemoryOK
  <2>1. CASE j = k
    <3>1. Spans(M, f0, Len(M)) /\ M[f0].stamp = e.start
      BY <1>4, <1>8, <1>9, <1>11, <1>13 DEF EndsIn
    <3>2. EndsIn(M, source, e, f0, Len(M))
      BY <1>4, <1>10, <3>1 DEF EndsIn
    <3> QED
      BY <1>1, <1>2, <1>6, <1>10, <2>1, <3>2 DEF M
  <2>2. CASE j # k
    <3>1. active'[j] = active[j]
      BY <1>6, <2>2 DEF Active
    <3> QED
      BY <1>1, <1>3, <2>2, <3>1, OthersKeepPlaces DEF L, M
  <2> QED
    BY <2>1, <2>2
<1>15. LastIsActive'
  <2> SUFFICES ASSUME NEW c \in Classes, NEW last, last = log'[c][Len(log'[c])], Len(log'[c]) > 0,
                      last.source = source, last.boot = restarts, now - last.stamp =< Gap
               PROVE  <<source, c>> \in Active
    BY <1>6 DEF LastIsActive
  <2>1. CASE c = k[2]
    BY <1>1, <2>1
  <2>2. CASE c # k[2]
    BY <1>3, <2>2 DEF SeenOK, LastIsActive
  <2> QED
    BY <2>1, <2>2
<1>16. TableOK(events)'
  BY <1>1, <1>3, TableGrows DEF L, M, SeenOK
<1>17. HeldOK(events)'
  BY <1>6 DEF SeenOK, HeldOK, OwnRow
<1>18. FarewellOK(events)'
  BY <1>1 DEF FarewellOK
<1>19. LossOK(events)'
  <2> SUFFICES ASSUME NEW c \in Classes, NEW f \in Nat, NEW i \in Nat, Spans(log'[c], f, i),
                      ~(i < Len(log'[c]) /\ Follows(log'[c], i + 1))
               PROVE  Accounted(events, c, log[c][f].stamp, log[c][i])'
    BY DEF LossOK
  <2>1. ASSUME Spans(log[c], f, i), ~(i < Len(log[c]) /\ Follows(log[c], i + 1)),
               log'[c][f] = log[c][f], log'[c][i] = log[c][i]
        PROVE  Accounted(events, c, log[c][f].stamp, log[c][i])'
    <3>1. Accounted(events, c, log[c][f].stamp, log[c][i])
      BY <2>1 DEF SeenOK, LossOK
    <3> QED
      BY <1>6, <2>1, <3>1 DEF Accounted, Told
  <2>2. CASE c # k[2]
    BY <1>3, <2>1, <2>2
  <2>3. CASE c = k[2] /\ i # Len(M)
    <3>1. Spans(L, f, i)
      BY <1>10, <2>3 DEF M
    <3>2. f \in 1..Len(L) /\ i \in 1..Len(L)
      BY <3>1 DEF Spans
    <3>3. M[f] = L[f] /\ M[i] = L[i]
      BY <1>10, <3>2
    <3>4. ~(i < Len(L) /\ Follows(L, i + 1))
      <4>1. i < Len(L) => i < Len(M) /\ i + 1 \in 1..Len(L)
        BY <1>10, <3>2
      <4>2. ~(i < Len(M) /\ Follows(M, i + 1))
        BY <2>3 DEF M
      <4> QED
        BY <1>10, <4>1, <4>2
    <3> QED
      BY <2>1, <2>3, <3>1, <3>3, <3>4 DEF L, M
  <2>4. CASE c = k[2] /\ i = Len(M)
    <3>1. Spans(L, f, Len(L)) /\ Spans(L, f0, Len(L))
      BY <1>8, <1>9, <1>13, <2>4 DEF EndsIn, M
    <3>2. f = f0
      BY <1>10, <3>1, EventHasOneStart
    <3>3. log'[c][f].stamp = active[k].start
      BY <1>8, <1>11, <2>4, <3>2 DEF EndsIn, M
    <3>4. k \in Active' /\ Name(k)' = <<c, log'[c][f].stamp>>
      BY <1>6, <2>4, <3>3 DEF Name
    <3> QED
      BY <3>4 DEF Accounted
  <2> QED
    BY <2>2, <2>3, <2>4
<1> QED
  BY <1>3, <1>7, <1>14, <1>15, <1>16, <1>17, <1>18, <1>19 DEF SeenOK

-----------------------------------------------------------------------------
\* Retire

\* No detection to come goes on with an event that is retired.
LEMMA RetiresOK ==
  ASSUME SeenOK, NEW k \in Active, Stale(k), Without(k),
         active' = [active EXCEPT ![k] = NoEvent],
         UNCHANGED <<now, source, labels, pc, restarts, pending, log, astray>>
  PROVE  SeenOK'
<1>1. k \in (1..MaxSources) \X Classes /\ k[2] \in Classes /\ k \in Key
      /\ pc = "label" /\ (Over(k) \/ k[1] # source)
  BY DEF Stale, Key, Active
<1>2. /\ now \in Nat \ {0} /\ source \in Nat \ {0} /\ restarts \in Nat
      /\ active \in [Key -> [id : Nat, start : Nat, end : Nat]] /\ pending = {}
  BY <1>1 DEF SeenOK, EventTypes
<1>3. /\ Active' = Active \ {k}
      /\ \A j \in Active' : active'[j] = active[j] /\ Name(j)' = Name(j)
  BY <1>2 DEF Active, Name
<1>4. EventTypes'
  <2>1. active' \in [Key -> [id : Nat, start : Nat, end : Nat]]
    BY <1>2 DEF NoEvent
  <2> QED
    BY <1>1, <1>2, <1>3, <2>1 DEF SeenOK, EventTypes
<1>5. LogOK'
  BY DEF SeenOK, LogOK
<1>6. MemoryOK'
  BY <1>3 DEF SeenOK, MemoryOK
<1>7. LastIsActive'
  <2> SUFFICES ASSUME NEW c \in Classes, NEW last, last = log[c][Len(log[c])], Len(log[c]) > 0,
                      last.source = source, last.boot = restarts, now - last.stamp =< Gap,
                      <<source, c>> = k
               PROVE  FALSE
    BY <1>3 DEF SeenOK, LastIsActive
  <2>1. k[1] = source /\ k[2] = c
    OBVIOUS
  <2>2. PICK f \in Nat, i \in Nat : EndsIn(log[c], k[1], active[k], f, i)
    BY <2>1 DEF SeenOK, MemoryOK
  <2>3. i = Len(log[c])
    BY <2>1, <2>2, EndsInTheLast
  <2>4. last.stamp = active[k].end /\ active[k].end \in Nat
    BY <1>1, <1>2, <2>2, <2>3 DEF EndsIn
  <2> QED
    BY <1>1, <1>2, <2>1, <2>4, EventsAssumption DEF Over
<1>8. TableOK(events)'
  BY DEF Without, TableOK, Tells
<1>9. HeldOK(events)'
  BY <1>3 DEF Without, HeldOK, OwnRow
<1>10. FarewellOK(events)'
  BY <1>1 DEF FarewellOK
<1>11. LossOK(events)'
  <2>1. ASSUME NEW c, NEW start, NEW entry,
               \/ \E j \in Active \ {k} : Name(j) = <<c, start>>
               \/ <<c, start>> \in lost'
               \/ entry.stamp + Retain < now
               \/ Told(events', c, start, entry)
        PROVE  Accounted(events, c, start, entry)'
    <3>1. Told(events', c, start, entry) => Told(events, c, start, entry)'
      BY DEF Told
    <3> QED
      BY <1>3, <2>1, <3>1 DEF Accounted
  <2> QED
    BY <2>1 DEF Without, LossOK
<1> QED
  BY <1>4, <1>5, <1>6, <1>7, <1>8, <1>9, <1>10, <1>11 DEF SeenOK

-----------------------------------------------------------------------------
\* Flush

\* The event is written as far as it was seen, and knows its row.
LEMMA FlushesOK ==
  ASSUME SeenOK, NEW k \in Key, Flush(k)
  PROVE  SeenOK'
<1>1. /\ k \in pending /\ k \in Active
      /\ events' = Written(k) /\ pending' = pending \ {k}
      /\ active' = [active EXCEPT ![k].id = IdOf(k)]
      /\ UNCHANGED <<now, source, labels, pc, restarts, log, astray, lost>>
      /\ pc \in {"flush", "farewell"}
  BY DEF SeenOK, EventTypes, Flush, vars, bounds, message, history
<1>2. /\ active \in [Key -> [id : Nat, start : Nat, end : Nat]] /\ active[k].start > 0
      /\ astray \subseteq Nat \ {0}
  BY <1>1 DEF SeenOK, EventTypes
<1>3. SaveIsRight(k, events')
  BY <1>1, SaveIsOK DEF SeenOK
<1>4. IdOf(k) \in Nat \ {0} /\ (active[k].id # 0 => IdOf(k) = active[k].id)
  <2>1. NextId \in Nat \ {0}
    BY NextIdIsNew DEF SeenOK
  <2> QED
    BY <1>2, <2>1 DEF IdOf
<1>5. /\ active'[k].id = IdOf(k) /\ active'[k].start = active[k].start /\ active'[k].end = active[k].end
      /\ active' \in [Key -> [id : Nat, start : Nat, end : Nat]]
      /\ \A j \in Key : j # k => active'[j] = active[j]
  BY <1>1, <1>2, <1>4
<1>6. Active' = Active
  BY <1>1, <1>2, <1>5 DEF Active, NoEvent
<1>7. \A j \in Active : /\ active'[j].start = active[j].start /\ active'[j].end = active[j].end
                        /\ Name(j)' = Name(j)
  BY <1>5 DEF Active, Name
<1>8. EventTypes'
  BY <1>1, <1>5, <1>6, <1>7 DEF SeenOK, EventTypes
<1>9. LogOK'
  BY <1>1 DEF SeenOK, LogOK
<1>10. MemoryOK'
  BY <1>1, <1>6, <1>7 DEF SeenOK, MemoryOK, EndsIn
<1>11. LastIsActive'
  BY <1>1, <1>6 DEF SeenOK, LastIsActive
<1>12. TableOK(events)'
  BY <1>1, <1>3 DEF SaveIsRight, TableOK, Tells
<1>13. ASSUME active[k].id \notin astray
       PROVE  \E r \in events' : OwnRow(k, r)' /\ r.end = active'[k].end
  <2>1. PICK r \in events' : /\ r.id = IdOf(k) /\ r.source = k[1] /\ r.class = k[2]
                             /\ r.start = active[k].start /\ r.end = active[k].end
    BY <1>3, <1>13 DEF SaveIsRight
  <2> QED
    BY <1>5, <2>1 DEF OwnRow
<1>14. active[k].id \in astray => active'[k].id \in astray'
  BY <1>1, <1>2, <1>4, <1>5
<1>15. HeldOK(events)'
  <2> SUFFICES ASSUME NEW j \in Active
               PROVE  /\ active'[j].id = 0 =>
                           \A r \in events' : ~(r.class = j[2] /\ r.start = active'[j].start)
                      /\ active'[j].id # 0 =>
                           active'[j].id \in astray' \/ \E r \in events' : OwnRow(j, r)'
    BY <1>6 DEF HeldOK
  <2>1. CASE j = k
    BY <1>4, <1>5, <1>13, <1>14, <2>1
  <2>2. CASE j # k
    <3>1. active'[j] = active[j]
      BY <1>5, <2>2 DEF Active
    <3>2. \A r : OwnRow(j, r) => OwnRow(j, r)'
      BY <3>1 DEF OwnRow
    <3> QED
      BY <1>1, <1>3, <2>2, <3>1, <3>2 DEF SaveIsRight
  <2> QED
    BY <2>1, <2>2
<1>16. FarewellOK(events)'
  <2>1. ASSUME pc = "farewell", NEW j \in Active \ pending'
        PROVE  Saved(j, events)'
    <3>1. CASE j = k
      BY <1>13, <1>14, <3>1 DEF Saved
    <3>2. CASE j # k
      <4>1. active'[j] = active[j] /\ Name(j)' = Name(j)
        BY <1>5, <1>7, <3>2 DEF Active
      <4>2. Saved(j, events)
        BY <1>1, <2>1, <3>2 DEF SeenOK, FarewellOK
      <4>3. Saved(j, events')
        BY <1>3, <3>2, <4>2 DEF SaveIsRight
      <4>4. \A r : OwnRow(j, r) => OwnRow(j, r)'
        BY <4>1 DEF OwnRow
      <4>5. \/ Name(j)' \in lost' \/ active'[j].id \in astray'
            \/ \E r \in events' : OwnRow(j, r)' /\ r.end = active'[j].end
        <5>1. CASE \E r \in events' : OwnRow(j, r) /\ r.end = active[j].end
          BY <4>1, <4>4, <5>1
        <5>2. CASE Name(j) \in lost \/ active[j].id \in astray
          <6>1. lost' = lost /\ astray' = astray
            BY <1>1
          <6>2. active'[j].id = active[j].id
            BY <4>1
          <6> QED
            BY <4>1, <5>2, <6>1, <6>2, Zenon
        <5> QED
          BY <4>3, <5>1, <5>2 DEF Saved
      <4> QED
        BY <4>5 DEF Saved
    <3> QED
      BY <3>1, <3>2
  <2> QED
    BY <1>1, <1>6, <2>1 DEF FarewellOK
<1>17. LossOK(events)'
  <2>1. ASSUME NEW c, NEW start, NEW entry, Accounted(events, c, start, entry)
        PROVE  Accounted(events, c, start, entry)'
    <3>1. Told(events, c, start, entry) =>
            Told(events', c, start, entry) \/ <<c, start>> = Name(k)
      BY <1>3 DEF SaveIsRight
    <3>2. Told(events', c, start, entry) => Told(events, c, start, entry)'
      BY <1>1 DEF Told
    <3> QED
      BY <1>1, <1>6, <1>7, <2>1, <3>1, <3>2 DEF Accounted
  <2> QED
    BY <1>1, <2>1 DEF SeenOK, LossOK
<1> QED
  BY <1>8, <1>9, <1>10, <1>11, <1>12, <1>15, <1>16, <1>17 DEF SeenOK

-----------------------------------------------------------------------------
\* A save fails

\* The row is not there, and its id may be noted.
LEMMA SaveFailsOK ==
  ASSUME SeenOK, NEW k \in Key, SaveFails(k)
  PROVE  SeenOK'
<1>1. /\ k \in Active /\ pc \in {"label", "flush"}
      /\ pc' = "recv" /\ labels' = {} /\ pending' = {}
      /\ UNCHANGED <<now, source, restarts, events, log, lost>>
  BY DEF SeenOK, EventTypes, SaveFails, Due, Stale, Reported
<1>2. /\ active \in [Key -> [id : Nat, start : Nat, end : Nat]]
      /\ astray \subseteq Nat \ {0} /\ \A j \in Active : active[j].start > 0
  BY DEF SeenOK, EventTypes
<1>3. NextId \in Nat \ {0}
  BY NextIdIsNew DEF SeenOK
<1>4. /\ active' \in [Key -> [id : Nat, start : Nat, end : Nat]]
      /\ astray' \subseteq Nat \ {0} /\ astray \subseteq astray'
      /\ \A j \in Key : /\ active'[j].start = active[j].start /\ active'[j].end = active[j].end
                        /\ active'[j].id = active[j].id \/ active'[j].id \in astray'
  <2>1. CASE Noted(k)
    BY <1>2, <1>3, <2>1 DEF Noted
  <2>2. CASE UNCHANGED <<active, astray>>
    BY <1>2, <2>2
  <2> QED
    BY <2>1, <2>2 DEF SaveFails
<1>5. Active' = Active
  <2>1. ASSUME NEW j \in Key PROVE active'[j] # NoEvent <=> active[j] # NoEvent
    <3>1. CASE Noted(k)
      BY <1>1, <1>2, <1>4, <3>1 DEF Noted, NoEvent, Active
    <3>2. CASE UNCHANGED <<active, astray>>
      BY <3>2
    <3> QED
      BY <3>1, <3>2 DEF SaveFails
  <2> QED
    BY <2>1 DEF Active
<1>6. \A j \in Active : /\ active'[j].start = active[j].start /\ active'[j].end = active[j].end
                        /\ active'[j].id = active[j].id \/ active'[j].id \in astray'
                        /\ Name(j)' = Name(j)
  BY <1>4 DEF Active, Name
<1>7. EventTypes'
  BY <1>1, <1>2, <1>4, <1>5, <1>6 DEF SeenOK, EventTypes
<1>8. LogOK'
  BY <1>1 DEF SeenOK, LogOK
<1>9. MemoryOK'
  BY <1>1, <1>5, <1>6 DEF SeenOK, MemoryOK, EndsIn
<1>10. LastIsActive'
  BY <1>1, <1>5 DEF SeenOK, LastIsActive
<1>11. TableOK(events)'
  BY <1>1, <1>4 DEF SeenOK, TableOK, Tells
<1>12. HeldOK(events)'
  <2> SUFFICES ASSUME NEW j \in Active
               PROVE  /\ active'[j].id = 0 =>
                           \A r \in events : ~(r.class = j[2] /\ r.start = active'[j].start)
                      /\ active'[j].id # 0 =>
                           active'[j].id \in astray' \/ \E r \in events : OwnRow(j, r)'
    BY <1>1, <1>5 DEF HeldOK
  <2>1. CASE active'[j].id = active[j].id
    <3>1. \A r : OwnRow(j, r) => OwnRow(j, r)'
      BY <1>6, <2>1 DEF OwnRow
    <3>2. /\ active[j].id = 0 => \A r \in events : ~(r.class = j[2] /\ r.start = active[j].start)
          /\ active[j].id # 0 => active[j].id \in astray \/ \E r \in events : OwnRow(j, r)
      BY DEF SeenOK, HeldOK
    <3>3. active'[j].start = active[j].start
      BY <1>6
    <3> QED
      BY <1>4, <2>1, <3>1, <3>2, <3>3
  <2>2. CASE active'[j].id \in astray'
    BY <1>4, <2>2
  <2> QED
    BY <1>6, <2>1, <2>2
<1>13. FarewellOK(events)'
  BY <1>1 DEF FarewellOK
<1>14. LossOK(events)'
  <2>1. ASSUME NEW c, NEW start, NEW entry, Accounted(events, c, start, entry)
        PROVE  Accounted(events, c, start, entry)'
    <3>1. Told(events, c, start, entry) => Told(events, c, start, entry)'
      BY <1>1, <1>4 DEF Told
    <3> QED
      BY <1>1, <1>5, <1>6, <2>1, <3>1 DEF Accounted
  <2> QED
    BY <1>1, <2>1 DEF SeenOK, LossOK
<1> QED
  BY <1>7, <1>8, <1>9, <1>10, <1>11, <1>12, <1>13, <1>14 DEF SeenOK

\* At the stop, what a save that fails has not written is lost.
LEMMA FarewellFailsOK ==
  ASSUME SeenOK, NEW k \in Key, FarewellFails(k)
  PROVE  SeenOK'
<1>1. /\ pc = "farewell" /\ k \in pending
      /\ pending' = pending \ {k} /\ lost' = lost \cup {Name(k)}
      /\ UNCHANGED <<now, source, labels, pc, restarts, active, events, log, astray>>
  BY DEF FarewellFails, Due, Stale, Reported, message
<1>2. Active' = Active /\ \A j : Name(j)' = Name(j)
  BY <1>1 DEF Active, Name
<1>3. EventTypes'
  BY <1>1, <1>2 DEF SeenOK, EventTypes
<1>4. LogOK'
  BY <1>1 DEF SeenOK, LogOK
<1>5. MemoryOK'
  BY <1>1, <1>2 DEF SeenOK, MemoryOK
<1>6. LastIsActive'
  BY <1>1, <1>2 DEF SeenOK, LastIsActive
<1>7. TableOK(events)'
  BY <1>1 DEF SeenOK, TableOK, Tells
<1>8. HeldOK(events)'
  BY <1>1, <1>2 DEF SeenOK, HeldOK, OwnRow
<1>9. FarewellOK(events)'
  <2>1. ASSUME NEW j \in Active \ pending' PROVE Saved(j, events)'
    <3>1. CASE j = k
      BY <1>1, <1>2, <3>1 DEF Saved
    <3>2. CASE j # k
      <4>1. Saved(j, events)
        BY <1>1, <2>1, <3>2 DEF SeenOK, FarewellOK
      <4> QED
        BY <1>1, <1>2, <4>1 DEF Saved, OwnRow
    <3> QED
      BY <3>1, <3>2
  <2> QED
    BY <1>1, <1>2, <2>1 DEF FarewellOK
<1>10. LossOK(events)'
  <2>1. \A c, start, entry : Accounted(events, c, start, entry) => Accounted(events, c, start, entry)'
    BY <1>1, <1>2 DEF Accounted, Told
  <2> QED
    BY <1>1, <2>1 DEF SeenOK, LossOK
<1> QED
  BY <1>3, <1>4, <1>5, <1>6, <1>7, <1>8, <1>9, <1>10 DEF SeenOK

-----------------------------------------------------------------------------
\* Stop, restart and cleanup

\* The stop: what is in the memory has still to be saved.
LEMMA StopsOK ==
  ASSUME SeenOK, Stop
  PROVE  SeenOK'
<1>1. /\ pc \in {"recv", "scan"} /\ pc' = "farewell"
      /\ restarts' = restarts + 1 /\ pending' = Active
      /\ UNCHANGED <<now, source, labels, active, events, log, astray, lost>>
  BY DEF Stop, message, history
<1>2. /\ restarts \in Nat /\ restarts' \in Nat /\ restarts < restarts'
      /\ labels = {} /\ log \in [Classes -> Seq(Entry)]
  BY <1>1 DEF SeenOK, EventTypes
<1>3. Active' = Active /\ \A j : Name(j)' = Name(j)
  BY <1>1 DEF Active, Name
<1>4. EventTypes'
  BY <1>1, <1>2, <1>3 DEF SeenOK, EventTypes
<1>5. \A c \in Classes : \A i \in 1..Len(log[c]) :
        log[c][i].boot =< restarts' /\ log[c][i].boot < restarts'
  <2> TAKE c \in Classes
  <2> TAKE i \in 1..Len(log[c])
  <2>1. log[c][i] \in Entry
    BY <1>2
  <2>2. log[c][i].boot \in Nat /\ log[c][i].boot =< restarts
    BY <2>1 DEF Entry, SeenOK, LogOK
  <2> QED
    BY <1>2, <2>2
<1>6. LogOK'
  BY <1>1, <1>2, <1>5 DEF SeenOK, LogOK
<1>7. MemoryOK'
  BY <1>1, <1>3 DEF SeenOK, MemoryOK
<1>8. LastIsActive'
  <2> SUFFICES ASSUME NEW c \in Classes, Len(log[c]) > 0,
                      log[c][Len(log[c])].boot = restarts'
               PROVE  FALSE
    BY <1>1 DEF LastIsActive
  <2>1. Len(log[c]) \in 1..Len(log[c])
    BY <1>2
  <2> QED
    BY <1>2, <1>5, <2>1
<1>9. TableOK(events)'
  BY <1>1 DEF SeenOK, TableOK, Tells
<1>10. HeldOK(events)'
  BY <1>1, <1>3 DEF SeenOK, HeldOK, OwnRow
<1>11. FarewellOK(events)'
  BY <1>1, <1>3 DEF FarewellOK
<1>12. LossOK(events)'
  <2>1. \A c, start, entry : Accounted(events, c, start, entry) => Accounted(events, c, start, entry)'
    BY <1>1, <1>3 DEF Accounted, Told
  <2> QED
    BY <1>1, <2>1 DEF SeenOK, LossOK
<1> QED
  BY <1>4, <1>6, <1>7, <1>8, <1>9, <1>10, <1>11, <1>12 DEF SeenOK

\* The process ends, having lost at least what it had not saved.
LEMMA EndsOK ==
  ASSUME SeenOK, Empty, pc' = "down", labels' = {},
         UNCHANGED <<now, source, events, log, astray>>,
         restarts' \in {restarts, restarts + 1},
         pc # "farewell" => restarts' = restarts + 1,
         lost \subseteq lost',
         \A k \in Active : \/ Name(k) \in lost'
                           \/ pc = "farewell" /\ Saved(k, events) /\ active[k].id \notin astray
  PROVE  SeenOK'
<1>1. Active' = {} /\ pending' = {} /\ active' \in [Key -> [id : Nat, start : Nat, end : Nat]]
  BY DEF Empty, Active, NoEvent
<1>2. restarts \in Nat /\ restarts' \in Nat /\ log \in [Classes -> Seq(Entry)]
  BY DEF SeenOK, EventTypes
<1>3. EventTypes'
  BY <1>1, <1>2 DEF SeenOK, EventTypes
<1>4. \A c \in Classes : \A i \in 1..Len(log[c]) :
        log[c][i].boot =< restarts' /\ log[c][i].boot < restarts'
  <2> TAKE c \in Classes
  <2> TAKE i \in 1..Len(log[c])
  <2>1. log[c][i] \in Entry
    BY <1>2
  <2>2. /\ log[c][i].boot \in Nat /\ log[c][i].boot =< restarts
        /\ pc = "farewell" => log[c][i].boot < restarts
    BY <2>1 DEF Entry, SeenOK, LogOK
  <2> QED
    BY <1>2, <2>2
<1>5. LogOK'
  BY <1>4 DEF SeenOK, LogOK
<1>6. LastIsActive'
  <2> SUFFICES ASSUME NEW c \in Classes, Len(log[c]) > 0,
                      log[c][Len(log[c])].boot = restarts'
               PROVE  FALSE
    BY DEF LastIsActive
  <2>1. Len(log[c]) \in 1..Len(log[c])
    BY <1>2
  <2> QED
    BY <1>2, <1>4, <2>1
<1>7. TableOK(events)'
  BY DEF SeenOK, TableOK, Tells
<1>8. MemoryOK' /\ HeldOK(events)' /\ FarewellOK(events)'
  BY <1>1 DEF MemoryOK, HeldOK, FarewellOK
<1>9. LossOK(events)'
  <2> SUFFICES ASSUME NEW c \in Classes, NEW f \in Nat, NEW i \in Nat, Spans(log[c], f, i),
                      ~(i < Len(log[c]) /\ Follows(log[c], i + 1))
               PROVE  Accounted(events, c, log[c][f].stamp, log[c][i])'
    BY DEF LossOK, Accounted, Told
  <2> DEFINE start == log[c][f].stamp
             entry == log[c][i]
  <2>1. Accounted(events, c, start, entry)
    BY DEF SeenOK, LossOK
  <2>2. ASSUME NEW k \in Active, Name(k) = <<c, start>>
        PROVE  <<c, start>> \in lost' \/ Told(events, c, start, entry)
    <3> SUFFICES ASSUME Saved(k, events), Name(k) \notin lost', active[k].id \notin astray
                 PROVE  Told(events, c, start, entry)
      BY <2>2
    <3>1. PICK r \in events : OwnRow(k, r) /\ r.end = active[k].end
      BY DEF Saved
    <3>2. /\ k[2] = c /\ start = active[k].start
          /\ entry.source = k[1] /\ entry.stamp = active[k].end
      BY <2>2, MemoryKnowsTheWhole
    <3> QED
      BY <3>1, <3>2 DEF Told, OwnRow
  <2> HIDE DEF start, entry
  <2>3. <<c, start>> \in lost' \/ entry.stamp + Retain < now \/ Told(events, c, start, entry)
    BY <2>1, <2>2 DEF Accounted
  <2>4. Told(events, c, start, entry) =>
          \E r \in events' :
            /\ r.class = c /\ r.start = start
            /\ r.id \in astray' \/ (r.source = entry.source /\ r.end = entry.stamp)
    BY DEF Told
  <2> QED
    BY <2>3, <2>4 DEF Accounted, Told, start, entry
<1> QED
  BY <1>3, <1>5, <1>6, <1>7, <1>8, <1>9 DEF SeenOK

\* What is in the memory at the end of the stop was saved, was lost or is astray.
LEMMA FarewellEndsOK ==
  ASSUME SeenOK, FarewellEnd
  PROVE  SeenOK'
<1>1. /\ pc = "farewell" /\ pc' = "down" /\ pending = {} /\ Empty
      /\ lost' = lost \cup {Name(k) : k \in {k \in Active : active[k].id \in astray}}
      /\ UNCHANGED <<now, source, labels, events, log, astray, restarts>>
  BY DEF FarewellEnd, message, bounds
<1>2. labels = {}
  BY <1>1 DEF SeenOK, EventTypes
<1>3. \A k \in Active : Saved(k, events)
  BY <1>1 DEF SeenOK, FarewellOK
<1>4. \A k \in Active : active[k].id \in astray => Name(k) \in lost'
  BY <1>1
<1> QED
  BY <1>1, <1>2, <1>3, <1>4, EndsOK

\* A death may lose all that is in the memory.
LEMMA DiesOK ==
  ASSUME SeenOK, Die
  PROVE  SeenOK'
BY EndsOK DEF Die, Down

\* Old rows go.
LEMMA CleansOK ==
  ASSUME SeenOK, Cleaned
  PROVE  SeenOK'
<1> DEFINE old == {r \in events : r.end + Retain < now}
<1>1. /\ pc = "clean" /\ pc' = "recv"
      /\ events' = events \ old
      /\ astray' = astray \cup ({r.id : r \in old} \cap {active[k].id : k \in Active})
      /\ lost' = lost \cup {<<r.class, r.start>> : r \in {r \in old : r.id \in astray}}
      /\ UNCHANGED <<now, source, labels, active, pending, log, restarts>>
  BY DEF Cleaned, CleanupEnd, Return, message, memory, bounds
<1>2. labels = {} /\ pending = {} /\ astray \subseteq Nat \ {0}
  BY <1>1 DEF SeenOK, EventTypes
<1>3. Active' = Active /\ \A j : Name(j)' = Name(j)
  BY <1>1 DEF Active, Name
<1>4. \A r \in events : r \in Row
  BY DEF SeenOK, TableOK
<1>5. /\ events' \subseteq events /\ astray \subseteq astray' /\ lost \subseteq lost'
      /\ astray' \subseteq Nat \ {0}
      /\ \A r \in events : r \notin events' =>
           /\ r.end + Retain < now
           /\ r.id \in astray => <<r.class, r.start>> \in lost'
           /\ \A k \in Active : active[k].id = r.id => r.id \in astray'
  BY <1>1, <1>2, <1>4 DEF Row
<1> HIDE DEF old
<1>6. UNCHANGED <<now, source, labels, active, pending, log, restarts>>
  BY <1>1
<1>7. EventTypes'
  BY <1>1, <1>2, <1>3, <1>5, <1>6 DEF SeenOK, EventTypes
<1>8. LogOK'
  BY <1>1, <1>6 DEF SeenOK, LogOK
<1>9. MemoryOK'
  BY <1>1, <1>3, <1>6 DEF SeenOK, MemoryOK
<1>10. LastIsActive'
  BY <1>3, <1>6 DEF SeenOK, LastIsActive
<1>11. TableOK(events)'
  BY <1>5, <1>6 DEF SeenOK, TableOK, Tells
<1>12. HeldOK(events)'
  <2> SUFFICES ASSUME NEW j \in Active
               PROVE  /\ active[j].id = 0 =>
                           \A r \in events' : ~(r.class = j[2] /\ r.start = active[j].start)
                      /\ active[j].id # 0 =>
                           active[j].id \in astray' \/ \E r \in events' : OwnRow(j, r)
    BY <1>3, <1>6 DEF HeldOK, OwnRow
  <2>1. /\ active[j].id = 0 => \A r \in events : ~(r.class = j[2] /\ r.start = active[j].start)
        /\ active[j].id # 0 => active[j].id \in astray \/ \E r \in events : OwnRow(j, r)
    BY DEF SeenOK, HeldOK
  <2> QED
    BY <1>5, <2>1 DEF OwnRow
<1>13. FarewellOK(events)'
  BY <1>1 DEF FarewellOK
<1>14. LossOK(events)'
  <2>1. ASSUME NEW c, NEW start, NEW entry, Accounted(events, c, start, entry)
        PROVE  Accounted(events, c, start, entry)'
    <3>1. ASSUME Told(events, c, start, entry)
          PROVE  \/ Told(events, c, start, entry)' \/ <<c, start>> \in lost'
                 \/ entry.stamp + Retain < now
      <4>1. PICK r \in events :
              /\ r.class = c /\ r.start = start
              /\ r.id \in astray \/ (r.source = entry.source /\ r.end = entry.stamp)
        BY <3>1 DEF Told
      <4>2. CASE r \in events'
        BY <1>5, <4>1, <4>2 DEF Told
      <4>3. CASE r \notin events'
        BY <1>5, <4>1, <4>3
      <4> QED
        BY <4>2, <4>3
    <3> QED
      BY <1>3, <1>5, <1>6, <2>1, <3>1 DEF Accounted
  <2> QED
    BY <1>6, <2>1 DEF SeenOK, LossOK
<1> QED
  BY <1>7, <1>8, <1>9, <1>10, <1>11, <1>12, <1>13, <1>14 DEF SeenOK

-----------------------------------------------------------------------------
\* All steps

\* The steps of the index, but for the cleanup, and the end of a flush.
LEMMA IndexStepsRest ==
  ASSUME SeenOK, UNCHANGED eventVars,
         \/ Recorder \/ \E s \in Segment : Ages(s)
         \/ ReceiveOpen \/ ReceiveComplete \/ LookFails
         \/ Fails /\ pc \notin {"label", "flush", "farewell"}
         \/ OtherIndexStep \/ FlushEnd \/ UNCHANGED vars
  PROVE  SeenOK'
<1>1. /\ restarts' = restarts
      /\ \/ pc' = pc
         \/ /\ pc \notin {"label", "farewell"} /\ (pc = "flush" => pending = {})
            /\ pc' \notin {"label", "flush", "farewell", "down"}
  <2>1. CASE Recorder
    BY <2>1 DEF Recorder, Open, Grow, Complete, LoseHook, bounds
  <2>2. CASE \E s \in Segment : Ages(s)
    BY <2>2 DEF Ages, bounds
  <2>3. CASE ReceiveOpen \/ ReceiveComplete \/ LookFails
    BY <2>3 DEF ReceiveOpen, ReceiveComplete, LookFails, bounds
  <2>4. CASE Fails /\ pc \notin {"label", "flush", "farewell"}
    BY <2>4 DEF Fails, Return
  <2>5. CASE InspectEnd \/ ScanStart \/ ScanSkip \/ ScanProbe \/ ProbeEnd \/ RemoveMissing
    BY <2>5 DEF InspectEnd, ScanStart, ScanSkip, ScanProbe, ProbeEnd, RemoveMissing, Return, bounds
  <2>6. CASE Keep \/ MarkDeleting \/ Unlink \/ Forget \/ Up
    BY <2>6 DEF Keep, MarkDeleting, Unlink, Forget, Up, bounds
  <2>7. CASE FlushEnd
    BY <2>7 DEF FlushEnd, bounds
  <2>8. CASE UNCHANGED vars
    BY <2>8 DEF vars, bounds
  <2> QED
    BY <2>1, <2>2, <2>3, <2>4, <2>5, <2>6, <2>7, <2>8 DEF OtherIndexStep
<1>2. UNCHANGED <<now, source, labels, active, pending, events, log, astray, lost, restarts>>
  BY <1>1 DEF eventVars, message, memory, history
<1>3. pending \subseteq Active /\ (pending # {} => pc \in {"flush", "farewell"})
      /\ (labels # {} => pc = "label")
  BY DEF SeenOK, EventTypes
<1> QED
  BY <1>1, <1>2, <1>3, WorkerRests

\* Each step of the worker, MediaMTX and time.
LEMMA SeenSteps == SeenOK /\ [EventNext]_allVars => SeenOK'
<1> SUFFICES ASSUME SeenOK, [EventNext]_allVars PROVE SeenOK'
  OBVIOUS
<1>1. CASE UNCHANGED allVars
  BY <1>1, IndexStepsRest DEF allVars
<1>2. CASE /\ \/ Recorder \/ \E s \in Segment : Ages(s)
              \/ ReceiveOpen \/ ReceiveComplete \/ LookFails
              \/ Fails /\ pc \notin {"label", "flush", "farewell"}
           /\ UNCHANGED eventVars
  BY <1>2, IndexStepsRest
<1>3. CASE Passes \/ Detect
  BY <1>3, TimePasses
<1>4. ASSUME NEW k \in Key, SaveFails(k) \/ FarewellFails(k) PROVE SeenOK'
  BY <1>4, SaveFailsOK, FarewellFailsOK
<1>5. CASE Stop \/ Die
  BY <1>5, StopsOK, DiesOK
<1>6. CASE EventRun
  <2>1. CASE OtherIndexStep /\ UNCHANGED eventVars
    BY <2>1, IndexStepsRest
  <2>2. CASE Cleaned
    BY <2>2, CleansOK
  <2>3. ASSUME NEW k \in Key, Begin(k) PROVE SeenOK'
    <3>1. /\ Reported(k) /\ k \notin Active /\ Takes(k, NewEvent)
          /\ UNCHANGED <<now, source, pc, restarts, pending, events, astray, lost>>
      BY <2>3 DEF Begin, vars, bounds
    <3>2. Without(k)
      BY <3>1, NoneLeaves
    <3> QED
      BY <3>1, <3>2, BeginsOK
  <2>4. ASSUME NEW k \in Key, Extend(k) PROVE SeenOK'
    <3>1. /\ Reported(k) /\ k \in Active /\ ~Over(k)
          /\ Takes(k, [active[k] EXCEPT !.end = now])
          /\ UNCHANGED <<now, source, pc, restarts, pending, events, astray, lost>>
      BY <2>4 DEF Extend, vars, bounds
    <3> QED
      BY <3>1, ExtendsOK
  <2>5. ASSUME NEW k \in Key, Replace(k) PROVE SeenOK'
    <3>1. /\ Reported(k) /\ k \in Active /\ Over(k) /\ Takes(k, NewEvent)
          /\ events' = Written(k) /\ Leaves(k)
          /\ UNCHANGED <<now, source, pc, restarts, pending, astray>>
      BY <2>5 DEF Replace, vars, bounds
    <3>2. Without(k)
      BY <3>1, SavedLeaves
    <3> QED
      BY <3>1, <3>2, BeginsOK
  <2>6. ASSUME NEW k \in Key, Retire(k) PROVE SeenOK'
    <3>1. /\ Stale(k) /\ k \in Active
          /\ events' = Written(k) /\ Leaves(k)
          /\ active' = [active EXCEPT ![k] = NoEvent]
          /\ UNCHANGED <<now, source, labels, pc, restarts, pending, log, astray>>
      BY <2>6 DEF Retire, Stale, vars, bounds, message
    <3>2. Without(k)
      BY <3>1, SavedLeaves
    <3> QED
      BY <3>1, <3>2, RetiresOK
  <2>7. ASSUME NEW k \in Key, Flush(k) PROVE SeenOK'
    BY <2>7, FlushesOK
  <2>8. CASE MessageEnd
    <3>1. /\ pc = "label" /\ labels = {} /\ pc' \in {"recv", "flush"}
          /\ pending' = pending \/ (pc' = "flush" /\ pending' = Active)
          /\ UNCHANGED <<now, source, labels, active, events, log, astray, lost, restarts>>
      BY <2>8 DEF MessageEnd, bounds, message, history
    <3>2. pending = {}
      BY <3>1 DEF SeenOK, EventTypes
    <3> QED
      BY <3>1, <3>2, WorkerRests
  <2>9. CASE FlushEnd
    BY <2>9, IndexStepsRest DEF FlushEnd
  <2>10. CASE FarewellEnd
    BY <2>10, FarewellEndsOK
  <2> QED
    BY <1>6, <2>1, <2>2, <2>3, <2>4, <2>5, <2>6, <2>7, <2>8, <2>9, <2>10 DEF EventRun
<1> QED
  BY <1>1, <1>2, <1>3, <1>4, <1>5, <1>6 DEF EventNext

\* The events table tells what was seen, whichever saves fail and wherever the
\* service is stopped or dies: each row is of one event, up to some detection
\* of it, and an event that is over has a row of all of it unless it was lost
\* with the process, by a row that never was committed or to its age
\* (save_event, receive, cleanup, run).
THEOREM EventsAreTold == EventSpec => []EventsTellWhatWasSeen
<1> QED
  BY SeenStarts, SeenSteps, SeenOKSuffices, PTL DEF EventSpec

=============================================================================
