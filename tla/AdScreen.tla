------------------------------ MODULE AdScreen ------------------------------
(***************************************************************************)
(* The recording service and rkmon-display, two processes that share       *)
(* ads_root: AdStore changes the files, AdDisplay reads them.  The display *)
(* may be started, or started again, at any time.                          *)
(***************************************************************************)
EXTENDS AdStore, AdDisplay

screenVars == <<reader, advertising, adPicture, live, livePicture, enabled, screen>>
storeVars  == <<rows, up, request, answered>>
allVars    == <<vars, screenVars>>

ScreenInit == Init /\ DisplayInit

\* systemd starts the display, at first or again.
DisplayStarts ==
  /\ UNCHANGED vars
  /\ reader' = [pc |-> "list", paths |-> <<>>, index |-> 0, current |-> {}]
  /\ advertising' = (mode' = "ad" /\ Playable' # <<>>)
  /\ adPicture' = FALSE
  /\ live' = "top" /\ livePicture' = "none" /\ enabled' = TRUE
  /\ screen' = [pc |-> "look", ad |-> FALSE, picture |-> "none",
                recent |-> FALSE, visible |-> FALSE]

ScreenNext ==
  \/ Next /\ UNCHANGED screenVars
  \/ Threads /\ UNCHANGED storeVars
  \/ DisplayStarts

ScreenSpec == ScreenInit /\ [][ScreenNext]_allVars

=============================================================================
