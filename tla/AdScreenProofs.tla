-------------------------- MODULE AdScreenProofs --------------------------
(***************************************************************************)
(* Theorems about AdStore and AdDisplay and about both together, for any   *)
(* number of uploads and of requests that are in progress at a time.       *)
(***************************************************************************)
EXTENDS AdScreen, FiniteSetTheorems, TLAPS

\* c carries out kind and is at one of steps.
In(c, kind, steps) == request[c].kind = kind /\ request[c].at \in steps

\* Who is in charge of a file: the one upload that brings it, until it has
\* answered, and deletes whose row was there when they began.
UploadsOK ==
  \A c \in Client : request[c].kind = "upload" =>
    /\ request[c].ad \in Ad \ answered
    /\ file[request[c].ad] # "absent"
    /\ In(c, "upload", {"probe", "insert"}) => request[c].ad \notin DOMAIN rows
    /\ In(c, "upload", {"insert"}) => file[request[c].ad] = "ready"
    /\ request[c].ad \in DOMAIN rows => file[request[c].ad] = "ready"
    /\ \A d \in Client \ {c} : request[d].kind = "upload" => request[d].ad # request[c].ad

DeletesOK ==
  \A c \in Client : In(c, "delete", {"delete", "unlink"}) =>
    /\ request[c].ad \in Ad
    /\ file[request[c].ad] # "absent"
    /\ request[c].at = "unlink" => request[c].ad \notin DOMAIN rows
    /\ \A d \in Client : In(d, "upload", {"probe", "insert"}) => request[d].ad # request[c].ad

NothingAbsent == \A ad \in DOMAIN rows \cup answered : file[ad] # "absent"

StoreOK == TypeOK /\ UploadsOK /\ DeletesOK /\ NothingAbsent /\ AnsweredAdsHaveFiles

LEMMA StoreInit == Init => StoreOK
<1> SUFFICES ASSUME Init PROVE StoreOK
  OBVIOUS
<1>1. DOMAIN rows = {}
  BY DEF Init
<1>2. \A c \in Client : request[c] = Idle
  BY DEF Init
<1>3. TypeOK
  BY <1>1, <1>2 DEF Init, TypeOK, Idle, Steps
<1>4. UploadsOK /\ DeletesOK
  BY <1>2 DEF UploadsOK, DeletesOK, In, Idle
<1>5. NothingAbsent /\ AnsweredAdsHaveFiles
  BY <1>1 DEF Init, NothingAbsent, AnsweredAdsHaveFiles
<1> QED
  BY <1>3, <1>4, <1>5 DEF StoreOK

LEMMA StoreNext == StoreOK /\ [Next]_vars => StoreOK'
<1> SUFFICES ASSUME StoreOK, [Next]_vars PROVE StoreOK'
  OBVIOUS
<1> USE DEF StoreOK, TypeOK, UploadsOK, DeletesOK, NothingAbsent, AnsweredAdsHaveFiles,
            In, Steps, Idle
<1>1. ASSUME NEW c \in Client, NEW ad \in Ad, Upload(c, ad) PROVE StoreOK'
  BY <1>1 DEF Upload, Begin, Busy
<1>2. ASSUME NEW c \in Client, NEW ad \in Ad, Delete(c, ad) PROVE StoreOK'
  BY <1>2 DEF Delete, Begin, Busy
<1>3. ASSUME NEW c \in Client, NEW order, Reorder(c, order) PROVE StoreOK'
  BY <1>3 DEF Reorder, Begin, Busy
<1>4. ASSUME NEW c \in Client, Probe(c) PROVE StoreOK'
  BY <1>4 DEF Probe, Go
<1>5. ASSUME NEW c \in Client, Insert(c) PROVE StoreOK'
  BY <1>5 DEF Insert, Inserted, Go
<1>6. ASSUME NEW c \in Client, Listed(c) PROVE StoreOK'
  BY <1>6 DEF Listed, End
<1>7. ASSUME NEW c \in Client, UploadFails(c) PROVE StoreOK'
  BY <1>7 DEF UploadFails, Unlink
<1>8. ASSUME NEW c \in Client, DeleteRow(c) PROVE StoreOK'
  BY <1>8 DEF DeleteRow, Go
<1>9. ASSUME NEW c \in Client, UnlinkFile(c) PROVE StoreOK'
  BY <1>9 DEF UnlinkFile, Unlink
<1>10. ASSUME NEW c \in Client, UpdatePositions(c) PROVE StoreOK'
  BY <1>10 DEF UpdatePositions, Repositioned, Go
<1>11. ASSUME NEW c \in Client, Changed(c) \/ ChangeFails(c) PROVE StoreOK'
  BY <1>11 DEF Changed, ChangeFails, End
<1>12. ASSUME NEW c \in Client, ReadRows(c) \/ WriteList(c) PROVE StoreOK'
  BY <1>12 DEF ReadRows, WriteList
<1>13. CASE (\E value \in {"ad", "live"} : WriteMode(value)) \/ Start
  BY <1>13 DEF WriteMode, Start
<1>14. CASE Crash
  BY <1>14 DEF Crash
<1>15. CASE UNCHANGED vars
  BY <1>15 DEF vars
<1> QED
  BY <1>1, <1>2, <1>3, <1>4, <1>5, <1>6, <1>7, <1>8, <1>9, <1>10, <1>11, <1>12, <1>13,
     <1>14, <1>15 DEF Next

\* Once the page was told that an ad is there, its file is there as long as its
\* row is, for any number of overlapping requests, failures and crashes.
THEOREM AnsweredAdsStay == Spec => []AnsweredAdsHaveFiles
<1>1. StoreOK => AnsweredAdsHaveFiles
  BY DEF StoreOK
<1> QED
  BY <1>1, StoreInit, StoreNext, PTL DEF Spec

-----------------------------------------------------------------------------
\* A finite set can be listed along any strict total order on it; After gives the
\* elements that come after one.
LEMMA SortedList ==
  ASSUME NEW S, IsFiniteSet(S), NEW After,
         \A x \in S : x \notin After[x],
         \A x, y \in S : x # y => y \in After[x] \/ x \in After[y],
         \A x, y, z \in S : y \in After[x] /\ z \in After[y] => z \in After[x]
  PROVE  \E list \in [1..Cardinality(S) -> S] :
           /\ \A i, j \in 1..Cardinality(S) : i < j => list[j] \in After[list[i]]
           /\ \A x \in S : \E i \in 1..Cardinality(S) : list[i] = x
<1> DEFINE Below(x) == {y \in S : x \in After[y]}
           rank == [x \in S |-> Cardinality(Below(x)) + 1]
           list == [i \in 1..Cardinality(S) |-> CHOOSE x \in S : rank[x] = i]
<1>1. Cardinality(S) \in Nat
  BY FS_CardinalityType
<1>2. ASSUME NEW x \in S
      PROVE  /\ IsFiniteSet(Below(x))
             /\ Cardinality(Below(x)) \in Nat
             /\ Cardinality(Below(x)) < Cardinality(S)
  <2>1. Below(x) \in SUBSET S /\ Below(x) # S
    OBVIOUS
  <2>2. IsFiniteSet(Below(x)) /\ Cardinality(Below(x)) <= Cardinality(S)
        /\ Cardinality(Below(x)) # Cardinality(S)
    BY <2>1, FS_Subset
  <2>3. Cardinality(Below(x)) \in Nat
    BY <2>2, FS_CardinalityType
  <2> HIDE DEF Below
  <2> QED
    BY <2>2, <2>3, <1>1
<1>3. ASSUME NEW x \in S, NEW y \in S, y \in After[x]
      PROVE  rank[x] < rank[y]
  <2>1. Below(x) \in SUBSET Below(y) /\ Below(x) # Below(y)
    BY <1>3
  <2>2. Cardinality(Below(x)) <= Cardinality(Below(y))
        /\ Cardinality(Below(x)) # Cardinality(Below(y))
    BY <2>1, <1>2, FS_Subset
  <2>3. rank[x] = Cardinality(Below(x)) + 1 /\ rank[y] = Cardinality(Below(y)) + 1
    OBVIOUS
  <2> HIDE DEF Below, rank
  <2> QED
    BY <2>2, <2>3, <1>2
<1>4. rank \in [S -> 1..Cardinality(S)]
  <2>1. \A x \in S : Cardinality(Below(x)) + 1 \in 1..Cardinality(S)
    <3> HIDE DEF Below
    <3> QED BY <1>1, <1>2
  <2> HIDE DEF Below
  <2> QED BY <2>1
<1> HIDE DEF rank
<1>5. rank \in Injection(S, 1..Cardinality(S))
  <2>1. \A x, y \in S : rank[x] = rank[y] => x = y
    BY <1>1, <1>3, <1>4
  <2> QED
    BY <2>1, <1>4 DEF Injection, IsInjective
<1>6. Cardinality(1..Cardinality(S)) = Cardinality(S) /\ IsFiniteSet(1..Cardinality(S))
  BY <1>1, FS_Interval
<1>7. rank \in Surjection(S, 1..Cardinality(S))
  BY <1>5, <1>6, FS_Injection
<1>8. \A i \in 1..Cardinality(S) : list[i] \in S /\ rank[list[i]] = i
  BY <1>7 DEF Surjection
<1>9. list \in [1..Cardinality(S) -> S]
  BY <1>8
<1> HIDE DEF list
<1>10. \A i, j \in 1..Cardinality(S) : i < j => list[j] \in After[list[i]]
  <2> SUFFICES ASSUME NEW i \in 1..Cardinality(S), NEW j \in 1..Cardinality(S), i < j
               PROVE  list[j] \in After[list[i]]
    OBVIOUS
  <2>1. list[i] \in S /\ list[j] \in S /\ list[i] # list[j]
    BY <1>8, <1>1
  <2>2. CASE list[i] \in After[list[j]]
    <3>1. rank[list[j]] < rank[list[i]]
      BY <2>1, <2>2, <1>3
    <3> QED
      BY <3>1, <1>8, <1>1
  <2> QED
    BY <2>1, <2>2
<1>11. \A x \in S : \E i \in 1..Cardinality(S) : list[i] = x
  BY <1>4, <1>5, <1>8 DEF Injection, IsInjective
<1> QED
  BY <1>9, <1>10, <1>11

LEMMA AdsAreNumbers == \A ad \in Ad : ad \in Int
  BY AdAssumption

\* Positions can be compared, so any two rows have an order: sort_order first,
\* then the id.
Positions == \A ad \in DOMAIN rows : rows[ad] \in Int

LEMMA RowsAreListed ==
  ASSUME TypeOK, Positions
  PROVE  \E list \in [1..Cardinality(DOMAIN rows) -> DOMAIN rows] :
           /\ \A i, j \in 1..Cardinality(DOMAIN rows) : i < j => Before(list[i], list[j])
           /\ \A ad \in DOMAIN rows : \E i \in 1..Cardinality(DOMAIN rows) : list[i] = ad
<1> DEFINE After == [x \in DOMAIN rows |-> {y \in DOMAIN rows : Before(x, y)}]
<1>1. IsFiniteSet(DOMAIN rows) /\ DOMAIN rows \subseteq Int
  <2>1. DOMAIN rows \in SUBSET Ad
    BY DEF TypeOK
  <2>2. IsFiniteSet(DOMAIN rows)
    BY <2>1, AdAssumption, FS_Subset
  <2> QED
    BY <2>1, <2>2, AdsAreNumbers
<1>2. \A x, y \in DOMAIN rows : y \in After[x] <=> Before(x, y)
  OBVIOUS
<1>3. \A x \in DOMAIN rows : x \notin After[x]
  BY <1>1, <1>2 DEF Positions, Before
<1>4. \A x, y \in DOMAIN rows : x # y => y \in After[x] \/ x \in After[y]
  BY <1>1, <1>2 DEF Positions, Before
<1>5. \A x, y, z \in DOMAIN rows : y \in After[x] /\ z \in After[y] => z \in After[x]
  BY <1>1, <1>2 DEF Positions, Before
<1> HIDE DEF After
<1>6. PICK list \in [1..Cardinality(DOMAIN rows) -> DOMAIN rows] :
           /\ \A i, j \in 1..Cardinality(DOMAIN rows) : i < j => list[j] \in After[list[i]]
           /\ \A ad \in DOMAIN rows : \E i \in 1..Cardinality(DOMAIN rows) : list[i] = ad
  BY <1>1, <1>3, <1>4, <1>5, SortedList
<1> QED
  BY <1>2, <1>6

\* What the query returns names rows only, none of them twice.
LEMMA ListingIsPlaylist ==
  ASSUME TypeOK, Positions, NEW A, IsFiniteSet(A), DOMAIN rows \subseteq A
  PROVE  Listing \in Playlists(A)
<1> DEFINE n == Cardinality(DOMAIN rows)
<1>1. n \in Nat /\ n \in 0..Cardinality(A)
  <2>1. IsFiniteSet(DOMAIN rows) /\ n <= Cardinality(A)
    BY FS_Subset
  <2> QED
    BY <2>1, FS_CardinalityType
<1>2. /\ Listing \in [1..n -> DOMAIN rows]
      /\ \A i, j \in 1..n : i < j => Before(Listing[i], Listing[j])
  BY RowsAreListed DEF Listing
<1>3. \A ad \in DOMAIN rows : ~Before(ad, ad)
  BY AdsAreNumbers DEF TypeOK, Positions, Before
<1> HIDE DEF n
<1>4. \A i, j \in 1..n : Listing[i] = Listing[j] => i = j
  BY <1>1, <1>2, <1>3
<1>5. Listing \in [1..n -> A] /\ DOMAIN Listing = 1..n
  BY <1>2
<1> QED
  BY <1>1, <1>4, <1>5 DEF Playlists

LEMMA PlaylistsGrow ==
  ASSUME NEW A, NEW B, IsFiniteSet(B), A \subseteq B
  PROVE  Playlists(A) \subseteq Playlists(B)
<1>1. IsFiniteSet(A) /\ Cardinality(A) <= Cardinality(B)
  BY FS_Subset
<1>2. Cardinality(A) \in Nat /\ Cardinality(B) \in Nat
  BY <1>1, FS_CardinalityType
<1> SUFFICES ASSUME NEW n \in 0..Cardinality(A), NEW list \in [1..n -> A]
             PROVE  n \in 0..Cardinality(B) /\ list \in [1..n -> B]
  BY DEF Playlists
<1> QED
  BY <1>1, <1>2

LEMMA NextPositionIsANumber ==
  ASSUME TypeOK, Positions
  PROVE  NextPosition \in Int
<1>1. CASE DOMAIN rows = {}
  BY <1>1 DEF NextPosition
<1>2. CASE DOMAIN rows # {}
  <2> DEFINE n == Cardinality(DOMAIN rows)
             S == {rows[ad] : ad \in DOMAIN rows}
  <2>1. PICK list \in [1..n -> DOMAIN rows] :
           /\ \A i, j \in 1..n : i < j => Before(list[i], list[j])
           /\ \A ad \in DOMAIN rows : \E i \in 1..n : list[i] = ad
    BY RowsAreListed
  <2>2. n \in Nat
    BY AdAssumption, FS_Subset, FS_CardinalityType DEF TypeOK
  <2> HIDE DEF n
  <2>3. n \in 1..n
    BY <1>2, <2>1, <2>2
  <2>4. \A ad \in DOMAIN rows : rows[list[n]] >= rows[ad]
    BY <2>1, <2>2, <2>3 DEF Positions, Before
  <2>5. rows[list[n]] \in S /\ \A y \in S : rows[list[n]] >= y
    BY <2>1, <2>3, <2>4
  <2>6. Max(S) \in S
    BY <2>5 DEF Max
  <2>7. Max(S) \in Int
    BY <2>6 DEF Positions
  <2> HIDE DEF S
  <2>8. NextPosition = Max(S) + 1
    BY <1>2 DEF NextPosition, S
  <2> QED
    BY <2>7, <2>8
<1> QED
  BY <1>1, <1>2

-----------------------------------------------------------------------------
\* What the abstract specification rests on beyond StoreOK: positions that can
\* be compared, files that were checked, and lists that a request carries.
ListsOK ==
  /\ Positions
  /\ DOMAIN rows \subseteq Accepted
  /\ \A c \in Client :
       /\ In(c, "upload", {"probe"}) => file[request[c].ad] = "partial"
       /\ In(c, "reorder", {"update"}) => DOMAIN request[c].list \subseteq Int
       /\ request[c].at = "write" => request[c].list \in Playlists(Accepted)

LEMMA AcceptedIsFinite == IsFiniteSet(Accepted)
  BY AdAssumption, FS_Subset, Accepted \in SUBSET Ad DEF Accepted

\* The orders that Reorder takes are sequences.
LEMMA OrdersAreSequences ==
  ASSUME TypeOK, NEW order \in SetToAllKPermutations(DOMAIN rows)
  PROVE  DOMAIN order \subseteq Int
<1>1. PICK s \in SUBSET DOMAIN rows : order \in SetToSeqs(s)
  BY DEF SetToAllKPermutations
<1>2. DOMAIN order = 1..Cardinality(s)
  BY <1>1 DEF SetToSeqs
<1>3. IsFiniteSet(s)
  <2>1. s \in SUBSET Ad
    BY DEF TypeOK
  <2> QED
    BY <2>1, AdAssumption, FS_Subset
<1> QED
  BY <1>2, <1>3, FS_CardinalityType

\* No step takes an accepted file back, so what a request carries stays a
\* playlist.
LEMMA AcceptedStays ==
  ASSUME StoreOK, Next
  PROVE  Accepted \subseteq Accepted' /\ Accepted' \in SUBSET Ad
<1> USE DEF StoreOK, TypeOK, Accepted
<1>1. ASSUME NEW c \in Client, NEW ad \in Ad, Upload(c, ad)
      PROVE  Accepted \subseteq Accepted'
  BY <1>1 DEF Upload
<1>2. ASSUME NEW c \in Client, Probe(c)
      PROVE  Accepted \subseteq Accepted'
  BY <1>2 DEF Probe
<1>3. ASSUME NEW c \in Client, UploadFails(c) \/ UnlinkFile(c)
      PROVE  Accepted \subseteq Accepted'
  BY <1>3 DEF UploadFails, UnlinkFile, Unlink
<1>4. CASE UNCHANGED file
  BY <1>4
<1>5. Accepted' \in SUBSET Ad
  OBVIOUS
<1> QED
  BY <1>1, <1>2, <1>3, <1>4, <1>5 DEF Next, Delete, Reorder, Insert, Listed, DeleteRow,
     UpdatePositions, Changed, ChangeFails, ReadRows, WriteList, WriteMode, Crash, Start

LEMMA ListsInit == Init => ListsOK
  BY DEF Init, ListsOK, Positions, In, Idle

LEMMA ListsNext == StoreOK /\ ListsOK /\ [Next]_vars => ListsOK'
<1> SUFFICES ASSUME StoreOK, ListsOK, [Next]_vars PROVE ListsOK'
  OBVIOUS
<1>0. CASE UNCHANGED vars
  BY <1>0 DEF vars, ListsOK, Positions, In, Accepted
<1>1. CASE Next
  <2> USE <1>1
  <2>0. TypeOK /\ Positions /\ DOMAIN rows \subseteq Accepted
    BY DEF StoreOK, ListsOK
  <2>1. Accepted \subseteq Accepted' /\ IsFiniteSet(Accepted')
    BY AcceptedStays, AdAssumption, FS_Subset
  <2>2. Positions' /\ DOMAIN rows' \subseteq Accepted'
    <3>1. ASSUME NEW c \in Client, Insert(c)
          PROVE  Positions' /\ DOMAIN rows' \subseteq Accepted'
      <4>1. NextPosition \in Int
        BY <2>0, NextPositionIsANumber
      <4>2. request[c].ad \in Accepted
        BY <3>1 DEF Insert, Go, StoreOK, TypeOK, UploadsOK, In, Steps, Accepted
      <4> QED
        BY <3>1, <4>1, <4>2, <2>0, <2>1 DEF Insert, Inserted, Positions
    <3>2. ASSUME NEW c \in Client, DeleteRow(c)
          PROVE  Positions' /\ DOMAIN rows' \subseteq Accepted'
      BY <3>2, <2>0, <2>1 DEF DeleteRow, Positions
    <3>3. ASSUME NEW c \in Client, UpdatePositions(c)
          PROVE  Positions' /\ DOMAIN rows' \subseteq Accepted'
      <4>1. DOMAIN request[c].list \subseteq Int
        BY <3>3 DEF UpdatePositions, Go, StoreOK, TypeOK, ListsOK, In, Steps
      <4>2. rows' = Repositioned(request[c].list)
        BY <3>3 DEF UpdatePositions
      <4>3. DOMAIN rows' = DOMAIN rows
        BY <4>2 DEF Repositioned
      <4>4. ASSUME NEW ad \in DOMAIN rows PROVE rows'[ad] \in Int
        <5> DEFINE list == request[c].list
                   at == CHOOSE i \in DOMAIN list : list[i] = ad
        <5>1. CASE ad \in ToSet(list)
          <6>1. at \in DOMAIN list
            BY <5>1 DEF ToSet
          <6>2. rows'[ad] = at - 1
            BY <4>2, <5>1 DEF Repositioned
          <6> HIDE DEF at
          <6> QED
            BY <6>1, <6>2, <4>1
        <5>2. CASE ad \notin ToSet(list)
          BY <4>2, <5>2, <2>0 DEF Repositioned, Positions
        <5> QED
          BY <5>1, <5>2
      <4> QED
        BY <4>3, <4>4, <2>0, <2>1 DEF Positions
    <3>4. CASE UNCHANGED rows
      BY <3>4, <2>0, <2>1 DEF Positions
    <3> QED
      BY <3>1, <3>2, <3>3, <3>4 DEF Next, Upload, Probe, Delete, Reorder, Listed, UploadFails,
         UnlinkFile, Changed, ChangeFails, ReadRows, WriteList, WriteMode, Crash, Start
  <2>3. ASSUME NEW d \in Client, In(d, "upload", {"probe"})'
        PROVE  (file[request[d].ad])' = "partial"
    <3> USE <2>3 DEF StoreOK, TypeOK, UploadsOK, DeletesOK, ListsOK, In, Steps, Idle
    <3>1. ASSUME NEW c \in Client, NEW ad \in Ad, Upload(c, ad)
          PROVE  (file[request[d].ad])' = "partial"
      BY <3>1 DEF Upload, Begin
    <3>2. ASSUME NEW c \in Client, Probe(c) \/ Insert(c) \/ Listed(c)
          PROVE  (file[request[d].ad])' = "partial"
      BY <3>2 DEF Probe, Insert, Listed, Go, End
    <3>3. ASSUME NEW c \in Client, UploadFails(c) \/ UnlinkFile(c)
          PROVE  (file[request[d].ad])' = "partial"
      BY <3>3 DEF UploadFails, UnlinkFile, Unlink
    <3>4. ASSUME NEW c \in Client, \/ (\E ad \in Ad : Delete(c, ad))
                                   \/ (\E order : Reorder(c, order))
          PROVE  (file[request[d].ad])' = "partial"
      BY <3>4 DEF Delete, Reorder, Begin
    <3>5. ASSUME NEW c \in Client, DeleteRow(c) \/ UpdatePositions(c) \/ Changed(c)
                                   \/ ChangeFails(c) \/ ReadRows(c) \/ WriteList(c)
          PROVE  (file[request[d].ad])' = "partial"
      BY <3>5 DEF DeleteRow, UpdatePositions, Changed, ChangeFails, ReadRows, WriteList, Go, End
    <3>6. CASE (\E value \in {"ad", "live"} : WriteMode(value)) \/ Crash \/ Start
      BY <3>6 DEF WriteMode, Crash, Start
    <3> QED
      BY <3>1, <3>2, <3>3, <3>4, <3>5, <3>6 DEF Next
  <2>4. ASSUME NEW d \in Client, In(d, "reorder", {"update"})'
        PROVE  DOMAIN request'[d].list \subseteq Int
    <3> USE <2>4 DEF StoreOK, TypeOK, ListsOK, In, Steps, Idle
    <3>1. ASSUME NEW c \in Client, NEW order \in SetToAllKPermutations(DOMAIN rows),
                 Reorder(c, order)
          PROVE  DOMAIN request'[d].list \subseteq Int
      BY <3>1, OrdersAreSequences DEF Reorder, Begin
    <3>2. ASSUME NEW c \in Client, NEW ad \in Ad, Upload(c, ad) \/ Delete(c, ad)
          PROVE  DOMAIN request'[d].list \subseteq Int
      BY <3>2 DEF Upload, Delete, Begin
    <3>3. ASSUME NEW c \in Client, ~(\E ad \in Ad : Upload(c, ad) \/ Delete(c, ad)),
                 \/ Probe(c) \/ Insert(c) \/ Listed(c) \/ UploadFails(c)
                 \/ DeleteRow(c) \/ UnlinkFile(c) \/ UpdatePositions(c)
                 \/ Changed(c) \/ ChangeFails(c)
                 \/ ReadRows(c) \/ WriteList(c)
          PROVE  DOMAIN request'[d].list \subseteq Int
      BY <3>3 DEF Probe, Insert, Listed, UploadFails, DeleteRow, UnlinkFile, UpdatePositions,
         Changed, ChangeFails, ReadRows, WriteList, Go, End
    <3>4. CASE (\E value \in {"ad", "live"} : WriteMode(value)) \/ Crash \/ Start
      BY <3>4 DEF WriteMode, Crash, Start
    <3> QED
      BY <3>1, <3>2, <3>3, <3>4 DEF Next
  <2>5. ASSUME NEW d \in Client, (request[d].at)' = "write"
        PROVE  (request[d].list)' \in Playlists(Accepted')
    <3>1. CASE /\ request[d].at = "write"
               /\ (request[d].list)' = request[d].list
      BY <3>1, <2>1, PlaylistsGrow DEF ListsOK
    <3>2. CASE (request[d].list)' = Listing /\ UNCHANGED file
      <4>1. Listing \in Playlists(Accepted)
        BY <2>0, ListingIsPlaylist, AcceptedIsFinite
      <4> QED
        BY <3>2, <4>1, <2>1, PlaylistsGrow
    <3>3. ASSUME NEW c \in Client, ReadRows(c)
          PROVE  \/ request[d].at = "write" /\ (request[d].list)' = request[d].list
                 \/ (request[d].list)' = Listing /\ UNCHANGED file
      BY <2>5, <3>3 DEF ReadRows, StoreOK, TypeOK
    <3>4. ASSUME NEW c \in Client,
                 \/ \E ad \in Ad : Upload(c, ad) \/ Delete(c, ad)
                 \/ \E order : Reorder(c, order)
          PROVE  request[d].at = "write" /\ (request[d].list)' = request[d].list
      BY <2>5, <3>4 DEF Upload, Delete, Reorder, Begin, StoreOK, TypeOK
    <3>5. ASSUME NEW c \in Client,
                 \/ Probe(c) \/ Insert(c) \/ Listed(c) \/ UploadFails(c)
                 \/ DeleteRow(c) \/ UnlinkFile(c) \/ UpdatePositions(c)
                 \/ Changed(c) \/ ChangeFails(c) \/ WriteList(c)
          PROVE  request[d].at = "write" /\ (request[d].list)' = request[d].list
      BY <2>5, <3>5 DEF Probe, Insert, Listed, UploadFails, DeleteRow, UnlinkFile,
         UpdatePositions, Changed, ChangeFails, WriteList, Go, End, StoreOK, TypeOK, Idle
    <3>6. CASE (\E value \in {"ad", "live"} : WriteMode(value)) \/ Crash \/ Start
      BY <2>5, <3>1, <3>6 DEF WriteMode, Crash, Start, Idle
    <3> QED
      BY <3>1, <3>2, <3>3, <3>4, <3>5, <3>6 DEF Next
  <2> QED
    BY <2>2, <2>3, <2>4, <2>5 DEF ListsOK, In, Accepted
<1> QED
  BY <1>0, <1>1

-----------------------------------------------------------------------------
LEMMA StoreStartsPlayable == Init => AdsInit
  BY DEF Init, AdsInit

\* Every step of a request changes what the screen looks at in one of the ways
\* that PlayableAds names, or not at all.
LEMMA StoreStepsArePlayable ==
  ASSUME StoreOK, ListsOK, [Next]_vars
  PROVE  [AdsNext]_adsVars
<1> USE DEF AdsNext, adsVars
<1>1. ASSUME NEW c \in Client, NEW ad \in Ad, Upload(c, ad)
      PROVE  Receive(ad)
  BY <1>1 DEF Upload, Receive, FileBecomes
<1>2. ASSUME NEW c \in Client, Probe(c)
      PROVE  \E ad \in Ad : Accept(ad)
  <2>1. request[c].ad \in Ad /\ file[request[c].ad] = "partial"
    BY <1>2 DEF Probe, Go, StoreOK, TypeOK, UploadsOK, ListsOK, In, Steps
  <2> QED
    BY <1>2, <2>1 DEF Probe, Accept, FileBecomes
<1>3. ASSUME NEW ad \in Ad, Unlink(ad), UNCHANGED <<playlist, mode>>
      PROVE  Discard(ad) \/ Withdraw(ad) \/ UNCHANGED adsVars
  BY <1>3 DEF Unlink, Discard, Withdraw, FileBecomes, StoreOK, TypeOK
<1>4. ASSUME NEW c \in Client, UploadFails(c) \/ UnlinkFile(c)
      PROVE  [AdsNext]_adsVars
  <2>1. request[c].ad \in Ad
    BY <1>4 DEF UploadFails, UnlinkFile, StoreOK, TypeOK, UploadsOK, DeletesOK, In, Steps
  <2>2. Unlink(request[c].ad) /\ UNCHANGED <<playlist, mode>>
    BY <1>4 DEF UploadFails, UnlinkFile
  <2> QED
    BY <2>1, <2>2, <1>3
<1>5. ASSUME NEW c \in Client, WriteList(c)
      PROVE  PublishList
  BY <1>5 DEF WriteList, ListsOK, PublishList
<1>6. CASE Start
  <2>1. Listing \in Playlists(Accepted)
    BY ListingIsPlaylist, AcceptedIsFinite DEF StoreOK, ListsOK
  <2> QED
    BY <1>6, <2>1 DEF Start, PublishList
<1>7. ASSUME NEW value \in {"ad", "live"}, WriteMode(value)
      PROVE  SetMode
  BY <1>7 DEF WriteMode, SetMode
<1>8. CASE UNCHANGED <<file, playlist, mode>>
  BY <1>8
<1> QED
  BY <1>1, <1>2, <1>4, <1>5, <1>6, <1>7, <1>8 DEF Next, vars, Delete, Reorder, Insert,
     Listed, DeleteRow, UpdatePositions, Changed, ChangeFails, ReadRows, Crash

\* For any number of uploads and of overlapping requests, with failures and
\* crashes between any two steps, the screen is only shown lists of uploads
\* that were checked, and files and mode change as PlayableAds allows.
THEOREM StoreImplementsPlayableAds == Spec => ImplementsPlayableAds
<1> QED
  BY StoreInit, StoreNext, ListsInit, ListsNext, StoreStartsPlayable, StoreStepsArePlayable,
     PTL DEF Spec, ImplementsPlayableAds, AdsSpec

-----------------------------------------------------------------------------
\* While a request is alone nothing but its own steps touches table and list.
AloneOK ==
  /\ \A c \in Client : ~up => request[c].at = "idle"
  /\ \A c \in Client : request[c].at # "idle" /\ request[c].alone =>
       /\ \A d \in Client \ {c} : request[d].at = "idle"
       /\ request[c].at = "write" => request[c].list = Listing
       /\ request[c].at = "answer" => playlist = Listing

LEMMA ListingOfRows == UNCHANGED rows => Listing' = Listing
  BY DEF Listing, Before

LEMMA AloneInit == Init => AloneOK
  BY DEF Init, AloneOK, Idle

LEMMA AloneNext == StoreOK /\ AloneOK /\ [Next]_vars => AloneOK'
<1> SUFFICES ASSUME StoreOK, AloneOK, [Next]_vars PROVE AloneOK'
  OBVIOUS
<1> USE ListingOfRows DEF AloneOK, StoreOK, TypeOK, Steps, Idle
<1>1. ASSUME NEW c \in Client,
             \/ \E ad \in Ad : Upload(c, ad) \/ Delete(c, ad)
             \/ \E order : Reorder(c, order)
      PROVE  AloneOK'
  <2>1. PICK kind, at, ad, list :
          Begin(c, kind, at, ad, list) /\ at \in {"probe", "delete", "update"}
    BY <1>1 DEF Upload, Delete, Reorder
  <2>2. UNCHANGED <<rows, playlist, up>>
    BY <1>1 DEF Upload, Delete, Reorder
  <2>3. request'[c].at = at /\ up /\ (request'[c].alone => Busy = {})
    BY <2>1 DEF Begin
  <2>4. ASSUME NEW d \in Client, d # c
        PROVE  request'[d].at = request[d].at /\ ~request'[d].alone
    BY <2>1, <2>4 DEF Begin
  <2> QED
    BY <2>1, <2>2, <2>3, <2>4 DEF Busy
<1>2. ASSUME NEW c \in Client, Probe(c) \/ Insert(c) \/ DeleteRow(c) \/ UpdatePositions(c)
      PROVE  AloneOK'
  BY <1>2 DEF Probe, Insert, DeleteRow, UpdatePositions, Go
<1>3. ASSUME NEW c \in Client, Listed(c) \/ UploadFails(c) \/ Changed(c) \/ ChangeFails(c)
      PROVE  AloneOK'
  BY <1>3 DEF Listed, UploadFails, Changed, ChangeFails, End
<1>4. ASSUME NEW c \in Client, UnlinkFile(c) \/ ReadRows(c) \/ WriteList(c)
      PROVE  AloneOK'
  BY <1>4 DEF UnlinkFile, ReadRows, WriteList
<1>5. CASE (\E value \in {"ad", "live"} : WriteMode(value)) \/ Crash \/ Start
  BY <1>5 DEF WriteMode, Crash, Start
<1>6. CASE UNCHANGED vars
  BY <1>6 DEF vars
<1> QED
  BY <1>1, <1>2, <1>3, <1>4, <1>5, <1>6 DEF Next

\* A change that ran undisturbed is what the screen is shown when it is
\* answered, whatever earlier requests, failures and crashes left behind, for
\* any number of uploads and requests.
THEOREM UndisturbedChangesTakeEffect == Spec => ChangeTakesEffect
<1>1. ASSUME AloneOK, Next, NEW c \in Client, request[c].at = "answer", request[c].alone
      PROVE  playlist = Listing
  BY <1>1 DEF AloneOK
<1>2. AloneOK /\ [Next]_vars =>
        [\A c \in Client :
           request[c].at = "answer" /\ request[c].alone /\ request'[c].at = "idle" /\ up' =>
             playlist = Listing]_vars
  BY <1>1
<1> QED
  BY <1>2, StoreInit, StoreNext, AloneInit, AloneNext, PTL DEF Spec, ChangeTakesEffect

-----------------------------------------------------------------------------
\* The display, whatever happens to the files of ads_root.
Source(ad) == IF ad THEN "ad" ELSE "live"

\* What counts as recent is on the screen and from the current source.
RecentIsShown ==
  screen.recent => screen.visible /\ screen.picture = Source(screen.ad)

\* The video reader works exactly while the main loop does not show ads.  A
\* picture that outlives its session while the reader is enabled has been
\* overlooked by nobody: the main loop is about to take it, and does so before
\* it looks at the mode again.
LeftoverOK ==
  /\ enabled = ~screen.ad
  /\ livePicture # "none" /\ enabled /\ live # "play" => screen.pc = "take"
  /\ livePicture = "last" => live = "play" /\ enabled /\ screen.pc = "take"
  /\ livePicture # "older"

DisplayOK == DisplayTypeOK /\ RecentIsShown /\ LeftoverOK

LEMMA DisplayBegins == DisplayInit => DisplayOK
<1> SUFFICES ASSUME DisplayInit PROVE DisplayOK
  OBVIOUS
<1>1. advertising \in BOOLEAN
  <2>1. advertising = (mode = "ad" /\ Playable # <<>>)
    BY DEF DisplayInit
  <2> QED
    BY <2>1
<1>2. DisplayTypeOK
  BY <1>1 DEF DisplayInit, DisplayTypeOK
<1>3. RecentIsShown /\ LeftoverOK
  BY DEF DisplayInit, RecentIsShown, LeftoverOK
<1> QED
  BY <1>2, <1>3 DEF DisplayOK

LEMMA DisplayThreads == DisplayOK /\ Threads => DisplayOK'
<1> SUFFICES ASSUME DisplayOK, Threads PROVE DisplayOK'
  OBVIOUS
<1> USE DEF DisplayOK, DisplayTypeOK, RecentIsShown, LeftoverOK, Source,
            readerVars, liveVars
<1>1. CASE ReaderMoves
  BY <1>1 DEF ReaderMoves, ReadList, Rest, Choose, Opened,
              PlayEnds, PlayFails, NextAd, PlayStops
<1>2. CASE PlayPicture
  BY <1>2 DEF PlayPicture
<1>3. CASE LiveMoves
  BY <1>3 DEF LiveMoves, LiveRests, LiveConnects, LiveStops,
              LiveWakes
<1>4. CASE LiveDelivers \/ LiveFails
  BY <1>4 DEF LiveDelivers, LiveFails
<1>5. CASE Look
  BY <1>5 DEF Look
<1>6. CASE TakeAd
  BY <1>6 DEF TakeAd, Shows
<1>7. CASE TakeLive
  BY <1>7 DEF TakeLive, Shows
<1>8. CASE TakeNothing
  BY <1>8 DEF TakeNothing
<1>9. CASE Tick \/ NoTick \/ Ages
  BY <1>9 DEF Tick, NoTick, Ages
<1> QED
  BY <1>1, <1>2, <1>3, <1>4, <1>5, <1>6, <1>7, <1>8, <1>9 DEF Threads, Main

LEMMA DisplayRests == DisplayOK /\ UNCHANGED screenVars => DisplayOK'
BY DEF screenVars, DisplayOK, DisplayTypeOK, RecentIsShown, LeftoverOK

LEMMA DisplaySteps == DisplayOK /\ [DisplayNext]_displayVars => DisplayOK'
<1>1. Content \/ UNCHANGED displayVars => UNCHANGED screenVars
  BY DEF Content, displayVars, readerVars, liveVars, screenVars
<1> QED
  BY <1>1, DisplayThreads, DisplayRests DEF DisplayNext

LEMMA TickShows ==
  DisplayOK /\ Tick =>
    (screen'.visible => screen'.picture = IF screen'.ad THEN "ad" ELSE "live")
BY DEF DisplayOK, DisplayTypeOK, RecentIsShown, Source, Tick

\* No live picture outlives two sessions of the video reader, however often and
\* whenever the mode, the playlist and the files change.
THEOREM NoPictureFromLongAgo == DisplaySpec => []LeftoverIsTaken
<1>1. DisplayOK => LeftoverIsTaken
  BY DEF DisplayOK, LeftoverOK, LeftoverIsTaken
<1> QED
  BY <1>1, DisplayBegins, DisplaySteps, PTL DEF DisplaySpec

\* Every second the screen shows the source it is switched to, or nothing.
THEOREM ScreenFollowsSource == DisplaySpec => TickShowsTheSource
<1>1. DisplayOK /\ [DisplayNext]_displayVars =>
        [Tick => (screen'.visible => screen'.picture = IF screen'.ad THEN "ad" ELSE "live")
        ]_displayVars
  BY TickShows
<1> QED
  BY <1>1, DisplayBegins, DisplaySteps, PTL DEF DisplaySpec, TickShowsTheSource

-----------------------------------------------------------------------------
\* Both together.
\* Lists name accepted uploads only and stay such lists.
LEMMA ContentStarts == AdsInit => AdsOK
<1> SUFFICES ASSUME AdsInit PROVE AdsOK
  OBVIOUS
<1>1. <<>> \in Playlists(Accepted)
  <2>1. 0 \in 0..Cardinality(Accepted)
    BY AcceptedIsFinite, FS_CardinalityType
  <2>2. <<>> \in [1..0 -> Accepted] /\ DOMAIN <<>> = 1..0
    OBVIOUS
  <2> QED
    BY <2>1, <2>2 DEF Playlists
<1> QED
  BY <1>1 DEF AdsInit, AdsOK

LEMMA ContentSteps == AdsOK /\ [AdsNext]_adsVars => AdsOK'
<1> SUFFICES ASSUME AdsOK, [AdsNext]_adsVars PROVE AdsOK'
  OBVIOUS
<1> DEFINE States == {"absent", "partial", "ready", "removed", "rejected"}
<1>1. ASSUME NEW ad \in Ad, Receive(ad) \/ Accept(ad) \/ Discard(ad) \/ Withdraw(ad)
      PROVE  /\ file' \in [Ad -> States] /\ Accepted \subseteq Accepted'
             /\ UNCHANGED <<playlist, mode>>
  BY <1>1 DEF AdsOK, Receive, Accept, Discard, Withdraw, FileBecomes,
              Accepted
<1>2. ASSUME file' \in [Ad -> States], Accepted \subseteq Accepted',
             UNCHANGED <<playlist, mode>>
      PROVE  AdsOK'
  <2>1. IsFiniteSet(Accepted')
    BY AdAssumption, FS_Subset, Accepted' \in SUBSET Ad DEF Accepted
  <2>2. Playlists(Accepted) \subseteq Playlists(Accepted')
    BY <1>2, <2>1, PlaylistsGrow
  <2>3. playlist' \in Playlists(Accepted')
    BY <1>2, <2>2 DEF AdsOK
  <2>4. Playlists(Accepted)' = Playlists(Accepted')
    BY DEF Playlists
  <2> QED
    BY <1>2, <2>3, <2>4 DEF AdsOK
<1>3. CASE PublishList \/ SetMode \/ UNCHANGED adsVars
  <2>1. UNCHANGED file /\ Accepted' = Accepted
    BY <1>3 DEF PublishList, SetMode, adsVars, Accepted
  <2>2. Playlists(Accepted)' = Playlists(Accepted)
    BY <2>1 DEF Playlists
  <2> QED
    BY <1>3, <2>1, <2>2 DEF PublishList, SetMode, adsVars, AdsOK
<1> QED
  BY <1>1, <1>2, <1>3 DEF AdsNext

\* What is composed is the store and the display, each with the other as its
\* surroundings: neither a file nor the table changes by a step of the display.
THEOREM StoreBehindTheScreen == ScreenSpec => Spec
<1>1. ScreenInit => Init
  BY DEF ScreenInit
<1>2. [ScreenNext]_allVars => [Next]_vars
  <2>1. Threads => UNCHANGED adsVars
    BY DEF Threads, ReaderMoves, ReadList, Rest, Choose,
           Opened, PlayEnds, PlayFails, NextAd, PlayStops,
           PlayPicture, LiveMoves, LiveRests, LiveConnects,
           LiveStops, LiveWakes, LiveDelivers, LiveFails,
           Main, Look, TakeAd, TakeLive, TakeNothing,
           Tick, NoTick, Ages
  <2> QED
    BY <2>1 DEF ScreenNext, DisplayStarts, allVars, vars, storeVars, adsVars
<1> QED
  BY <1>1, <1>2, PTL DEF ScreenSpec, Spec

\* Every step of the two processes is one that AdDisplay allows, or the start
\* of the display, which finds what its initial condition says.
LEMMA ScreenStepsAreDisplaySteps ==
  ASSUME StoreOK, ListsOK, [ScreenNext]_allVars
  PROVE  [DisplayNext \/ DisplayStarts]_displayVars
<1> USE DEF displayVars, screenVars, readerVars, liveVars
<1>1. CASE Next /\ UNCHANGED screenVars
  <2>1. [AdsNext]_adsVars
    BY <1>1, StoreStepsArePlayable
  <2> QED
    BY <1>1, <2>1 DEF DisplayNext, Content, adsVars
<1>2. CASE Threads /\ UNCHANGED storeVars
  BY <1>2 DEF DisplayNext
<1>3. CASE DisplayStarts
  BY <1>3
<1>4. CASE UNCHANGED allVars
  BY <1>4 DEF allVars, vars, adsVars
<1> QED
  BY <1>1, <1>2, <1>3, <1>4 DEF ScreenNext

LEMMA StartIsInit == AdsOK /\ DisplayStarts => DisplayInit'
<1> SUFFICES ASSUME AdsOK, DisplayStarts PROVE DisplayInit'
  OBVIOUS
<1>1. UNCHANGED <<file, playlist, mode>>
  BY DEF DisplayStarts, vars
<1>2. AdsOK'
  <2>1. UNCHANGED Accepted
    BY <1>1 DEF Accepted
  <2>2. UNCHANGED Playlists(Accepted)
    BY <2>1 DEF Playlists
  <2> QED
    BY <1>1, <2>2 DEF AdsOK
<1> QED
  BY <1>2 DEF DisplayStarts, DisplayInit

LEMMA ScreenSteps == StoreOK /\ ListsOK /\ DisplayOK /\ [ScreenNext]_allVars => DisplayOK'
<1>1. DisplayStarts => DisplayOK'
  <2> SUFFICES ASSUME DisplayStarts PROVE DisplayOK'
    OBVIOUS
  <2>1. advertising' \in BOOLEAN
    BY DEF DisplayStarts
  <2> QED
    BY <2>1 DEF DisplayStarts, DisplayOK, DisplayTypeOK, RecentIsShown, LeftoverOK
<1> QED
  BY <1>1, DisplaySteps, ScreenStepsAreDisplaySteps

LEMMA ScreenInvariant == ScreenSpec => [](StoreOK /\ ListsOK /\ AdsOK /\ DisplayOK)
<1>1. ScreenInit => Init /\ DisplayOK
  BY DisplayBegins DEF ScreenInit
<1>2. Init => StoreOK /\ ListsOK /\ AdsOK
  BY StoreInit, ListsInit, StoreStartsPlayable, ContentStarts
<1>3. StoreOK /\ ListsOK /\ AdsOK /\ [Next]_vars => StoreOK' /\ ListsOK' /\ AdsOK'
  BY StoreNext, ListsNext, StoreStepsArePlayable, ContentSteps
<1> QED
  BY <1>1, <1>2, <1>3, ScreenSteps, StoreBehindTheScreen, PTL DEF ScreenSpec, Spec

\* The AdStore under rkmon-display does nothing that AdDisplay does not expect
\* of ads_root, whenever the display is started.
THEOREM DisplayOnTheStore ==
  ScreenSpec => /\ DisplayInit
                /\ [][DisplayNext \/ (DisplayStarts /\ DisplayInit')]_displayVars
<1>1. StoreOK /\ ListsOK /\ AdsOK /\ [ScreenNext]_allVars =>
        [DisplayNext \/ (DisplayStarts /\ DisplayInit')]_displayVars
  BY ScreenStepsAreDisplaySteps, StartIsInit
<1> QED
  BY <1>1, ScreenInvariant, PTL DEF ScreenSpec, ScreenInit

\* So the screen is right over the real store: however uploads, deletes and
\* failures interleave with the readers, and wherever either process dies.
THEOREM ScreenIsRight == ScreenSpec => []LeftoverIsTaken /\ TickShowsTheSource
<1>1. DisplayOK => LeftoverIsTaken
  BY DEF DisplayOK, LeftoverOK, LeftoverIsTaken
<1>2. DisplayOK /\ [ScreenNext]_allVars =>
        [Tick => (screen'.visible => screen'.picture = IF screen'.ad THEN "ad" ELSE "live")
        ]_displayVars
  BY TickShows
<1> QED
  BY <1>1, <1>2, ScreenInvariant, PTL DEF ScreenSpec, TickShowsTheSource
=============================================================================
