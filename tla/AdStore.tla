------------------------------ MODULE AdStore ------------------------------
(***************************************************************************)
(* AdStore (src/recording/service.py): the advertisements in ads_root.     *)
(* ThreadingHTTPServer runs every request on a thread of its own.  The     *)
(* table is read and written under the lock; the video files, the playlist *)
(* file and the mode file are not, so requests interleave between steps,   *)
(* any step on the disk may fail, and the daemon threads die with the      *)
(* process wherever they are.                                              *)
(***************************************************************************)
EXTENDS PlayableAds, SequencesExt

CONSTANT Client     \* requests that may be in progress at a time

VARIABLES rows,     \* the table: id |-> sort_order
          up,       \* the service runs
          request,  \* what each request is about to do
          answered  \* history: the uploads that were answered with 201

vars == <<file, playlist, mode, rows, up, request, answered>>

\* The numbers order the uuids.
ASSUME AdAssumption == Ad \subseteq Nat /\ IsFiniteSet(Ad)

Idle == [at |-> "idle", kind |-> "none", ad |-> 0, list |-> <<>>, alone |-> FALSE]

Before(a, b) == rows[a] < rows[b] \/ (rows[a] = rows[b] /\ a < b)

\* SELECT ... ORDER BY sort_order,id; nothing ever clears "enabled".
Listing ==
  CHOOSE list \in [1..Cardinality(DOMAIN rows) -> DOMAIN rows] :
    \A i, j \in DOMAIN list : i < j => Before(list[i], list[j])

Init ==
  /\ file = [ad \in Ad |-> "absent"]
  /\ rows = <<>>
  /\ playlist = <<>> /\ mode = "ad"
  /\ up = TRUE
  /\ request = [c \in Client |-> Idle]
  /\ answered = {}

-----------------------------------------------------------------------------
\* A request begins, goes on and ends.

Busy == {c \in Client : request[c].at # "idle"}

\* alone is history: no other request is in progress while this one is.
Begin(c, kind, at, ad, list) ==
  /\ up /\ request[c].at = "idle"
  /\ request' = [d \in Client |->
       IF d = c
       THEN [at |-> at, kind |-> kind, ad |-> ad, list |-> list, alone |-> Busy = {}]
       ELSE [request[d] EXCEPT !.alone = FALSE]]

Go(c, from, to) ==
  request[c].at = from /\ request' = [request EXCEPT ![c].at = to]

\* The request ends, answered or with an error.
End(c, from) ==
  request[c].at = from /\ request' = [request EXCEPT ![c] = Idle]

Unlink(ad) ==
  file' = [file EXCEPT ![ad] = IF @ = "partial" THEN "rejected"
                               ELSE IF @ = "ready" THEN "removed" ELSE @]

-----------------------------------------------------------------------------
\* upload

Upload(c, ad) ==
  /\ file[ad] = "absent"
  /\ Begin(c, "upload", "probe", ad, <<>>)
  /\ file' = [file EXCEPT ![ad] = "partial"]
  /\ UNCHANGED <<rows, playlist, mode, up, answered>>

\* All of it is written and ffprobe finds an H.264 stream.
Probe(c) ==
  /\ Go(c, "probe", "insert")
  /\ file' = [file EXCEPT ![request[c].ad] = "ready"]
  /\ UNCHANGED <<rows, playlist, mode, up, answered>>

NextPosition ==
  IF DOMAIN rows = {} THEN 0 ELSE Max({rows[ad] : ad \in DOMAIN rows}) + 1

Inserted(new) ==
  [ad \in DOMAIN rows \cup {new} |-> IF ad = new THEN NextPosition ELSE rows[ad]]

\* Mutant: the row is written while the file still comes in.
Insert_Unprobed(c) ==
  /\ request[c].at \in {"probe", "insert"}
  /\ request' = [request EXCEPT ![c].at = "read"]
  /\ rows' = Inserted(request[c].ad)
  /\ UNCHANGED <<file, playlist, mode, up, answered>>

Insert(c) ==
  /\ Go(c, "insert", "read")
  /\ rows' = Inserted(request[c].ad)
  /\ UNCHANGED <<file, playlist, mode, up, answered>>

\* upload answers with its entry of list(), unless somebody deleted it.
Listed(c) ==
  /\ request[c].kind = "upload" /\ request[c].ad \in DOMAIN rows
  /\ End(c, "answer")
  /\ answered' = answered \cup {request[c].ad}
  /\ UNCHANGED <<file, rows, playlist, mode, up>>

\* Any step of an upload may raise, list() at the answer too, and next() there
\* when somebody deleted the row: the file goes, a row that was written stays.
UploadFails(c) ==
  /\ request[c].kind = "upload"
  /\ request[c].at \in {"probe", "insert", "read", "write", "answer"}
  /\ request' = [request EXCEPT ![c] = Idle]
  /\ Unlink(request[c].ad)
  /\ UNCHANGED <<rows, playlist, mode, up, answered>>

-----------------------------------------------------------------------------
\* delete and reorder

\* _row finds the ad.
Delete(c, ad) ==
  /\ ad \in DOMAIN rows
  /\ Begin(c, "delete", "delete", ad, <<>>)
  /\ UNCHANGED <<file, rows, playlist, mode, up, answered>>

\* Mutant: the statement may fail and nobody looks.
DeleteRow_SwallowsFailure(c) ==
  /\ Go(c, "delete", "unlink")
  /\ rows' \in {rows, [ad \in DOMAIN rows \ {request[c].ad} |-> rows[ad]]}
  /\ UNCHANGED <<file, playlist, mode, up, answered>>

\* Another request may have deleted it since.
DeleteRow(c) ==
  /\ Go(c, "delete", "unlink")
  /\ rows' = [ad \in DOMAIN rows \ {request[c].ad} |-> rows[ad]]
  /\ UNCHANGED <<file, playlist, mode, up, answered>>

UnlinkFile(c) ==
  /\ request[c].at = "unlink"
  /\ request' = [request EXCEPT ![c].at = "read", ![c].ad = 0]
  /\ Unlink(request[c].ad)
  /\ UNCHANGED <<rows, playlist, mode, up, answered>>

\* The page sends every id of list() exactly once.
Reorder(c, order) ==
  /\ ToSet(order) = DOMAIN rows
  /\ Begin(c, "reorder", "update", 0, order)
  /\ UNCHANGED <<file, rows, playlist, mode, up, answered>>

Repositioned(order) ==
  LET Position(ad) == CHOOSE i \in DOMAIN order : order[i] = ad
  IN  [ad \in DOMAIN rows |-> IF ad \in ToSet(order) THEN Position(ad) - 1 ELSE rows[ad]]

\* Mutant: the playlist file is forgotten.
UpdatePositions_Only(c) ==
  /\ Go(c, "update", "answer")
  /\ rows' = Repositioned(request[c].list)
  /\ UNCHANGED <<file, playlist, mode, up, answered>>

\* By now there may be more rows, or fewer.
UpdatePositions(c) ==
  /\ Go(c, "update", "read")
  /\ rows' = Repositioned(request[c].list)
  /\ UNCHANGED <<file, playlist, mode, up, answered>>

\* They fail without a trace of their own: what is committed stays.
ChangeFails(c) ==
  /\ request[c].kind \in {"delete", "reorder"}
  /\ request[c].at \in {"delete", "unlink", "update", "read", "write"}
  /\ request' = [request EXCEPT ![c] = Idle]
  /\ UNCHANGED <<file, rows, playlist, mode, up, answered>>

Changed(c) ==
  /\ request[c].kind \in {"delete", "reorder"}
  /\ End(c, "answer")
  /\ UNCHANGED <<file, rows, playlist, mode, up, answered>>

-----------------------------------------------------------------------------
\* _write_playlist, whose lock covers the query only, and display-mode

ReadRows(c) ==
  /\ request[c].at = "read"
  /\ request' = [request EXCEPT ![c].at = "write", ![c].list = Listing]
  /\ UNCHANGED <<file, rows, playlist, mode, up, answered>>

WriteList(c) ==
  /\ request[c].at = "write"
  /\ request' = [request EXCEPT ![c].at = "answer", ![c].list = <<>>]
  /\ playlist' = request[c].list
  /\ UNCHANGED <<file, rows, mode, up, answered>>

WriteMode(value) ==
  /\ up
  /\ mode' = value
  /\ UNCHANGED <<file, rows, playlist, up, request, answered>>

\* The service is stopped or killed with its daemon threads; a committed row
\* is durable.
Crash ==
  /\ up
  /\ up' = FALSE
  /\ request' = [c \in Client |-> Idle]
  /\ UNCHANGED <<file, rows, playlist, mode, answered>>

\* The constructor writes the playlist before the first request is taken.
Start ==
  /\ ~up
  /\ up' = TRUE
  /\ playlist' = Listing
  /\ UNCHANGED <<file, rows, mode, request, answered>>

Next ==
  \/ \E c \in Client :
       \/ \E ad \in Ad : Upload(c, ad) \/ Delete(c, ad)
       \/ \E order \in SetToAllKPermutations(DOMAIN rows) : Reorder(c, order)
       \/ Probe(c) \/ Insert(c) \/ Listed(c) \/ UploadFails(c)
       \/ DeleteRow(c) \/ UnlinkFile(c) \/ UpdatePositions(c)
       \/ Changed(c) \/ ChangeFails(c)
       \/ ReadRows(c) \/ WriteList(c)
  \/ \E value \in {"ad", "live"} : WriteMode(value)
  \/ Crash \/ Start

Spec == Init /\ [][Next]_vars

-----------------------------------------------------------------------------
Steps == [none    |-> {"idle"},
          upload  |-> {"probe", "insert", "read", "write", "answer"},
          delete  |-> {"delete", "unlink", "read", "write", "answer"},
          reorder |-> {"update", "read", "write", "answer"}]

TypeOK ==
  /\ file \in [Ad -> {"absent", "partial", "ready", "removed", "rejected"}]
  /\ DOMAIN rows \subseteq Ad
  /\ answered \subseteq Ad
  /\ DOMAIN request = Client
  /\ \A c \in Client :
       /\ DOMAIN request[c] = {"at", "kind", "ad", "list", "alone"}
       /\ request[c].kind \in {"none", "upload", "delete", "reorder"}
       /\ request[c].at \in Steps[request[c].kind]

\* An upload that was answered with 201 can be played until somebody deletes
\* it: no failure, crash or overlapping request leaves its row in the table
\* and takes its file away.
AnsweredAdsHaveFiles ==
  \A ad \in answered \cap DOMAIN rows : file[ad] = "ready"

\* A change that no other request overlapped takes effect: when it is answered
\* the screen has the enabled ads in the order of the table, whatever earlier
\* requests, failures and crashes left in the playlist file.
ChangeTakesEffect ==
  [][\A c \in Client :
       request[c].at = "answer" /\ request[c].alone /\ request'[c].at = "idle" /\ up' =>
         playlist = Listing]_vars

\* The screen never finds an ad in the list that is only partly uploaded or
\* was refused, nor one ad twice.
ImplementsPlayableAds == AdsSpec
=============================================================================
