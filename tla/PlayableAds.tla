---------------------------- MODULE PlayableAds ----------------------------
(***************************************************************************)
(* What the recording service promises the local screen about ads_root:    *)
(* the three things the AdReader looks at, with no database, no requests   *)
(* and no crashes.  AdStore.tla is the detailed specification and          *)
(* implements this one; AdDisplay.tla reads what it describes.             *)
(***************************************************************************)
EXTENDS Naturals, FiniteSets

CONSTANT Ad        \* the uploads, each with a uuid nobody used before

VARIABLES file,     \* videos/<id>.mp4 of each upload
          playlist, \* playlist.json
          mode      \* display-mode

adsVars == <<file, playlist, mode>>

\* A file that ffprobe has accepted, be it still there or not.
Accepted == {ad \in Ad : file[ad] \in {"ready", "removed"}}

\* What a playlist made of these ads can be: no ad twice.
Playlists(ads) ==
  {list \in UNION {[1..n -> ads] : n \in 0..Cardinality(ads)} :
     \A i, j \in DOMAIN list : list[i] = list[j] => i = j}

AdsInit ==
  /\ file = [ad \in Ad |-> "absent"]
  /\ playlist = <<>>
  /\ mode = "ad"

\* What ads_root may hold when the screen is started.
AdsOK ==
  /\ file \in [Ad -> {"absent", "partial", "ready", "removed", "rejected"}]
  /\ playlist \in Playlists(Accepted)
  /\ mode \in {"ad", "live"}

FileBecomes(ad, from, to) ==
  /\ file[ad] \in from
  /\ file' = [file EXCEPT ![ad] = to]
  /\ UNCHANGED <<playlist, mode>>

Receive(ad)  == FileBecomes(ad, {"absent"}, "partial")
Accept(ad)   == FileBecomes(ad, {"partial"}, "ready")
Discard(ad)  == FileBecomes(ad, {"partial"}, "rejected")
Withdraw(ad) == FileBecomes(ad, {"ready"}, "removed")

\* The file is replaced as a whole and names accepted ads only.
PublishList ==
  /\ playlist' \in Playlists(Accepted)
  /\ UNCHANGED <<file, mode>>

SetMode == mode' \in {"ad", "live"} /\ UNCHANGED <<file, playlist>>

AdsNext ==
  \/ \E ad \in Ad : Receive(ad) \/ Accept(ad) \/ Discard(ad) \/ Withdraw(ad)
  \/ PublishList
  \/ SetMode

AdsSpec == AdsInit /\ [][AdsNext]_adsVars
=============================================================================
