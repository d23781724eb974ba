----------------------------- MODULE AdDisplay -----------------------------
(***************************************************************************)
(* rkmon-display (src/display): the AdReader and the VideoReader, each a   *)
(* thread that hands its newest picture over in latest_, and the main      *)
(* loop that switches between them every 50 ms and checks every second     *)
(* that what it shows is recent.  The files of ads_root change underneath  *)
(* as PlayableAds says, which AdStore implements.                          *)
(***************************************************************************)
EXTENDS PlayableAds, Sequences

VARIABLES reader,      \* AdReader::run: where it is and its locals
          advertising, \* advertising_
          adPicture,   \* AdReader::latest_ holds a picture
          live,        \* where VideoReader::run is
          livePicture, \* which session VideoReader::latest_ is from, or "none"
          enabled,     \* enabled_
          screen       \* the main loop: where it is and what it shows

readerVars  == <<reader, advertising, adPicture>>
liveVars    == <<live, livePicture>>
displayVars == <<adsVars, readerVars, liveVars, enabled, screen>>

\* AdReader::playlist: the listed ads whose file is there.
Playable == SelectSeq(playlist, LAMBDA ad : file[ad] = "ready")

\* The service may have been there for long.
DisplayInit ==
  /\ AdsOK
  /\ reader = [pc |-> "list", paths |-> <<>>, index |-> 0, current |-> {}]
  /\ advertising = (mode = "ad" /\ Playable # <<>>)
  /\ adPicture = FALSE
  /\ live = "top" /\ livePicture = "none" /\ enabled = TRUE
  /\ screen = [pc |-> "look", ad |-> FALSE, picture |-> "none",
               recent |-> FALSE, visible |-> FALSE]

\* Requests the recording service carries out meanwhile.
Content ==
  /\ AdsNext
  /\ UNCHANGED <<readerVars, liveVars, enabled, screen>>

-----------------------------------------------------------------------------
\* AdReader::run

ReadList ==
  /\ reader.pc = "list"
  /\ reader' = [reader EXCEPT !.pc = "mode", !.paths = Playable]
  /\ UNCHANGED <<adsVars, advertising, adPicture, liveVars, enabled, screen>>

\* Back to the top of the loop, where paths is read anew.
Loop(index) ==
  reader' = [reader EXCEPT !.pc = "list", !.paths = <<>>, !.index = index]

\* Mutant: without ads the reader waits, and stays in charge of the screen.
Rest_KeepsAdvertising ==
  /\ reader.pc = "mode" /\ (mode # "ad" \/ reader.paths = <<>>)
  /\ Loop(reader.index)
  /\ advertising' = (advertising /\ mode = "ad")
  /\ adPicture' = FALSE
  /\ UNCHANGED <<adsVars, liveVars, enabled, screen>>

\* Nothing to play: look again 250 ms later.
Rest ==
  /\ reader.pc = "mode" /\ (mode # "ad" \/ reader.paths = <<>>)
  /\ Loop(reader.index)
  /\ advertising' = FALSE
  /\ adPicture' = FALSE
  /\ UNCHANGED <<adsVars, liveVars, enabled, screen>>

Paths == {reader.paths[i] : i \in DOMAIN reader.paths}

\* The index belongs to the list before; it is kept as long as it fits and the
\* ad played last is still listed, wherever.
Index ==
  IF reader.index < Len(reader.paths) /\ reader.current \subseteq Paths
  THEN reader.index ELSE 0

Choose ==
  /\ reader.pc = "mode" /\ mode = "ad" /\ reader.paths # <<>>
  /\ reader' = [reader EXCEPT !.pc = "open", !.index = Index,
                              !.current = {reader.paths[Index + 1]}]
  /\ advertising' = TRUE
  /\ UNCHANGED <<adsVars, adPicture, liveVars, enabled, screen>>

\* By now the file may be gone.
Opened ==
  /\ reader.pc = "open" /\ \A ad \in reader.current : file[ad] = "ready"
  /\ reader' = [reader EXCEPT !.pc = "play"]
  /\ UNCHANGED <<adsVars, advertising, adPicture, liveVars, enabled, screen>>

PlayPicture ==
  /\ reader.pc = "play"
  /\ adPicture' = TRUE
  /\ UNCHANGED <<adsVars, reader, advertising, liveVars, enabled, screen>>

NextAd(from) ==
  /\ reader.pc \in from
  /\ Loop((reader.index + 1) % Len(reader.paths))
  /\ UNCHANGED <<adsVars, advertising, adPicture, liveVars, enabled, screen>>

PlayEnds == NextAd({"play"})

\* Mutant: the ad is tried again.
PlayFails_TriesAgain ==
  /\ reader.pc \in {"open", "play"}
  /\ Loop(reader.index)
  /\ UNCHANGED <<adsVars, advertising, adPicture, liveVars, enabled, screen>>

\* The pipeline does not start, reports an error or is silent for 10 seconds.
PlayFails == NextAd({"open", "play"})

\* The mode was changed: the same ad comes first next time.
PlayStops ==
  /\ reader.pc = "play" /\ mode # "ad"
  /\ Loop(reader.index)
  /\ UNCHANGED <<adsVars, advertising, adPicture, liveVars, enabled, screen>>

ReaderMoves ==
  ReadList \/ Rest \/ Choose \/ Opened \/ PlayEnds \/ PlayFails \/ PlayStops

-----------------------------------------------------------------------------
\* VideoReader::run

LiveRests ==
  /\ live = "top" /\ ~enabled
  /\ livePicture' = "none"
  /\ UNCHANGED <<adsVars, readerVars, live, enabled, screen>>

\* The picture of a session that is over is one session older now.
LiveConnects ==
  /\ live = "top" /\ enabled
  /\ live' = "play"
  /\ livePicture' = CASE livePicture = "this" -> "last"
                      [] livePicture = "last" -> "older"
                      [] OTHER -> livePicture
  /\ UNCHANGED <<adsVars, readerVars, enabled, screen>>

LiveDelivers ==
  /\ live = "play"
  /\ livePicture' = "this"
  /\ UNCHANGED <<adsVars, readerVars, live, enabled, screen>>

\* The end of the stream, an error, or 10 seconds without a picture.
LiveFails ==
  /\ live = "play"
  /\ live' = "sleep" /\ livePicture' = "none"
  /\ UNCHANGED <<adsVars, readerVars, enabled, screen>>

\* The picture stays where it is.
LiveStops ==
  /\ live = "play" /\ ~enabled
  /\ live' = "sleep"
  /\ UNCHANGED <<adsVars, readerVars, livePicture, enabled, screen>>

\* Two seconds after a session.
LiveWakes ==
  /\ live = "sleep"
  /\ live' = "top"
  /\ UNCHANGED <<adsVars, readerVars, livePicture, enabled, screen>>

LiveMoves == LiveRests \/ LiveConnects \/ LiveStops \/ LiveWakes

-----------------------------------------------------------------------------
\* The main loop

\* Mutants: what was shown of the other source still counts; after a switch
\* the first picture is left for the next round.
Look_KeepsRecent ==
  /\ screen.pc = "look"
  /\ enabled' = ~advertising
  /\ screen' = [screen EXCEPT !.pc = "take", !.ad = advertising]
  /\ UNCHANGED <<adsVars, readerVars, liveVars>>
Look_TakesLater ==
  /\ screen.pc = "look"
  /\ enabled' = ~advertising
  /\ screen' = [screen EXCEPT !.pc = IF advertising = screen.ad THEN "take" ELSE "tick",
                              !.ad = advertising,
                              !.recent = @ /\ advertising = screen.ad]
  /\ UNCHANGED <<adsVars, readerVars, liveVars>>

\* After a switch of the source nothing of it has been shown yet.
Look ==
  /\ screen.pc = "look"
  /\ enabled' = ~advertising
  /\ screen' = [screen EXCEPT !.pc = "take", !.ad = advertising,
                              !.recent = @ /\ advertising = screen.ad]
  /\ UNCHANGED <<adsVars, readerVars, liveVars>>

Shows(source) ==
  screen' = [screen EXCEPT !.pc = "tick", !.picture = source,
                           !.recent = TRUE, !.visible = TRUE]

TakeAd ==
  /\ screen.pc = "take" /\ screen.ad /\ adPicture
  /\ Shows("ad") /\ adPicture' = FALSE
  /\ UNCHANGED <<adsVars, reader, advertising, liveVars, enabled>>

TakeLive ==
  /\ screen.pc = "take" /\ ~screen.ad /\ livePicture # "none"
  /\ Shows("live") /\ livePicture' = "none"
  /\ UNCHANGED <<adsVars, readerVars, live, enabled>>

TakeNothing ==
  /\ screen.pc = "take"
  /\ IF screen.ad THEN ~adPicture ELSE livePicture = "none"
  /\ screen' = [screen EXCEPT !.pc = "tick"]
  /\ UNCHANGED <<adsVars, readerVars, liveVars, enabled>>

\* Once a second: a picture that is not recent is hidden.
Tick ==
  /\ screen.pc = "tick"
  /\ screen' = [screen EXCEPT !.pc = "look", !.visible = @ /\ screen.recent]
  /\ UNCHANGED <<adsVars, readerVars, liveVars, enabled>>

NoTick ==
  /\ screen.pc = "tick"
  /\ screen' = [screen EXCEPT !.pc = "look"]
  /\ UNCHANGED <<adsVars, readerVars, liveVars, enabled>>

\* Two seconds have gone by since the last picture.
Ages ==
  /\ screen.recent
  /\ screen' = [screen EXCEPT !.recent = FALSE]
  /\ UNCHANGED <<adsVars, readerVars, liveVars, enabled>>

Main == Look \/ TakeAd \/ TakeLive \/ TakeNothing \/ Tick \/ NoTick

-----------------------------------------------------------------------------
Threads ==
  \/ ReaderMoves \/ PlayPicture
  \/ LiveMoves \/ LiveDelivers \/ LiveFails
  \/ Main \/ Ages

DisplayNext == Content \/ Threads

\* The three threads are scheduled; an ad comes to its end, or to a timeout;
\* the live stream, while connected, delivers.
Fairness ==
  /\ WF_displayVars(ReaderMoves)
  /\ WF_displayVars(LiveMoves) /\ WF_displayVars(LiveDelivers)
  /\ WF_displayVars(Main)

DisplaySpec == DisplayInit /\ [][DisplayNext]_displayVars /\ Fairness

-----------------------------------------------------------------------------
DisplayTypeOK ==
  /\ live \in {"top", "play", "sleep"}
  /\ livePicture \in {"none", "this", "last", "older"}
  /\ advertising \in BOOLEAN /\ adPicture \in BOOLEAN /\ enabled \in BOOLEAN
  /\ screen \in [pc : {"look", "take", "tick"}, ad : BOOLEAN,
                 picture : {"none", "ad", "live"}, recent : BOOLEAN, visible : BOOLEAN]

\* A picture that stays visible over the second is from the source the main
\* loop is switched to: after a switch the other one's last picture goes.
TickShowsTheSource ==
  [][Tick => (screen'.visible => screen'.picture = IF screen'.ad THEN "ad" ELSE "live")]_displayVars

\* A live picture that waited through a time of ads is from the session right
\* before: however the mode changes, a picture never survives two of them to be
\* shown as live.  How long the session's pipeline took to come down before the
\* reader slept is not bounded, so neither is the picture's age in seconds.
LeftoverIsTaken == livePicture # "older"

\* Rotation: once nobody changes the ads any more, each of them gets its turn
\* again and again, whatever index an earlier list left and although others, or
\* the ad itself, cannot be played.
EveryAdGetsItsTurn ==
  \A ad \in Ad :
    (/\ <>[](mode = "ad" /\ \E i \in DOMAIN Playable : Playable[i] = ad)
     /\ <>[][FALSE]_adsVars)
      => []<>(reader.pc = "open" /\ ad \in reader.current)

\* docs/modules/display.md: in live mode, or when no ad is left to play, the
\* screen falls back to live pictures, as long as the stream does not fail.
FallsBackToLive ==
  ((<>[](mode = "live") \/ <>[](Playable = <<>>)) /\ <>[][~LiveFails]_displayVars)
    => <>[]~screen.ad /\ []<>(screen.visible /\ screen.picture = "live")
=============================================================================
