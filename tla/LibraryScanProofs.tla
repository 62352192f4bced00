-------------------------- MODULE LibraryScanProofs --------------------------
(***************************************************************************)
(* The invariants of LibraryScan, for any storage, any number of files,    *)
(* scans and kills.  Each of the five rests on the ones before it:         *)
(*                                                                         *)
(*   TypeOK                                                                *)
(*   LinksAgree            Progress: where each step of addTrack finds the *)
(*                         database                                        *)
(*   OneEntryUnlessKilled  OnceInv: an entry that lies where a file is     *)
(*                         keeps the file from another entry               *)
(*   LibraryComplete       CompleteInv: what the files and the entries the *)
(*                         walk has passed have become                     *)
(*   UpToDate              SettledInv: what this scan need not touch       *)
(***************************************************************************)
EXTENDS LibraryScan, SequenceTheorems, TLAPS

Tags == [title : Titles, game : Games, artists : Seq(Artists)]

TrackObjects == [path : Paths, number : Nat, title : Titles,
                 gameTitle : Games, artistText : Seq(Artists),
                 game : Games \cup {None}, artists : SUBSET Artists]

Scans == [pc : Steps, at : Nat, number : Nat, file : Seq(Tags),
          new : Seq(Nat), id : Nat, names : Seq(Artists), left : SUBSET Nat]

StorageOK ==
    /\ DOMAIN storage \subseteq Paths
    /\ \A p \in DOMAIN storage : storage[p] \in Contents[p]

TracksOK ==
    /\ count \in [saved : Nat, scans : Nat, edits : Nat, kills : Nat]
    /\ count.saved <= MaxTracks
    /\ DOMAIN tracks \subseteq 1..count.saved
    /\ tracks \in [DOMAIN tracks -> TrackObjects]

ListsOK ==
    /\ DOMAIN games \subseteq Games
    /\ games \in [DOMAIN games -> SUBSET DOMAIN tracks]
    /\ DOMAIN artists \subseteq Artists
    /\ artists \in [DOMAIN artists -> SUBSET DOMAIN tracks]

RestOK ==
    /\ scan \in Scans
    /\ realm \in {"closed", "open", "stale"}
    /\ report \in BOOLEAN /\ rests \in Nat

Types == StorageOK /\ TracksOK /\ ListsOK /\ RestOK

\* The scanner is at a file, and knows which of its tracks to add.
AtFile ==
    /\ scan.at \in DOMAIN Walk
    /\ \A i \in DOMAIN scan.new : scan.new[i] \in DOMAIN scan.file

Progress ==
    /\ scan.pc = "walk" => scan.at >= 1
    /\ scan.pc = "check" => AtFile /\ scan.number \in DOMAIN scan.file
    /\ scan.pc \in {"save", "game", "link", "artists", "artist"} =>
         AtFile /\ scan.new # << >>
    /\ scan.pc \in {"game", "link", "artists", "artist"} =>
         scan.id \in DOMAIN tracks
    /\ scan.pc \in {"game", "link"} => tracks[scan.id].game = None
    /\ scan.pc = "link" => Adding.game \in DOMAIN games
    /\ scan.pc = "artists" =>
         Range(Adding.artists) \subseteq DOMAIN artists \cup Range(scan.names)
    /\ scan.pc = "artist" => Range(scan.names) \subseteq DOMAIN artists
    /\ scan.pc = "tracks" => scan.left \subseteq DOMAIN tracks

LinksInv == Types /\ LinksAgree /\ Progress

-----------------------------------------------------------------------------
LEMMA TagFacts ==
    ASSUME NEW file \in Seq(Tags), NEW i \in DOMAIN file
    PROVE  file[i] \in Tags /\ file[i].game # None /\ i \in Nat
  <1>1. file[i] \in Tags /\ i \in Nat
    OBVIOUS
  <1>2. file[i].game \in Games
    BY <1>1 DEF Tags
  <1> QED
    BY <1>1, <1>2, LibraryAssumption

LEMMA ContentsFacts ==
    ASSUME NEW p \in Paths, NEW f \in Contents[p]
    PROVE  f \in Seq(Tags)
  BY LibraryAssumption DEF Tags

LEMMA AddingFacts ==
    ASSUME Types, Progress,
           scan.pc \in {"save", "game", "link", "artists", "artist"}
    PROVE  /\ Adding \in Tags /\ Adding.game # None
           /\ Head(scan.new) \in Nat /\ Here \in Paths
  <1>1. scan.file \in Seq(Tags) /\ scan.new \in Seq(Nat)
    BY DEF Types, RestOK, Scans
  <1>2. scan.new # << >> /\ AtFile
    BY DEF Progress
  <1>3. 1 \in DOMAIN scan.new /\ Head(scan.new) = scan.new[1]
    BY <1>1, <1>2, EmptySeq
  <1>4. Head(scan.new) \in DOMAIN scan.file
    BY <1>2, <1>3 DEF AtFile
  <1>5. Here \in Paths
    BY <1>2 DEF AtFile, Here, Paths, Range
  <1> QED
    BY <1>1, <1>4, <1>5, TagFacts DEF Adding

(***************************************************************************)
(* The listener and the kills leave the database alone, and the scanner    *)
(* alone or idle.                                                          *)
(***************************************************************************)
LEMMA IdleFacts == Idle \in Scans /\ Idle.pc = "idle"
  <1>1. << >> \in Seq(Tags) /\ << >> \in Seq(Nat) /\ << >> \in Seq(Artists)
    OBVIOUS
  <1> QED
    BY <1>1 DEF Idle, Scans, Steps

LEMMA SameDatabase ==
    ASSUME LinksAgree, UNCHANGED db
    PROVE  LinksAgree'
  BY DEF LinksAgree, db

LEMMA LinksInit == Init => LinksInv
  <1> SUFFICES ASSUME Init PROVE LinksInv
    OBVIOUS
  <1>1. scan \in Scans /\ scan.pc = "idle"
    BY IdleFacts DEF Init
  <1>2. DOMAIN storage = {} /\ DOMAIN tracks = {} /\ DOMAIN games = {}
        /\ DOMAIN artists = {}
    BY DEF Init
  <1>3. Progress
    BY <1>1 DEF Progress
  <1>4. LinksAgree
    BY <1>2 DEF LinksAgree
  <1>5. TracksOK /\ ListsOK
    <2>1. tracks \in [DOMAIN tracks -> TrackObjects]
      BY <1>2 DEF Init
    <2>2. games \in [DOMAIN games -> SUBSET DOMAIN tracks]
          /\ artists \in [DOMAIN artists -> SUBSET DOMAIN tracks]
      BY <1>2 DEF Init
    <2> QED
      BY <1>2, <2>1, <2>2, LibraryAssumption DEF Init, TracksOK, ListsOK
  <1>6. StorageOK /\ RestOK
    BY <1>1, <1>2 DEF Init, StorageOK, RestOK
  <1> QED
    BY <1>3, <1>4, <1>5, <1>6 DEF LinksInv, Types

LEMMA LinksListener ==
    ASSUME LinksInv, PutFile \/ RemoveFile \/ Kill
    PROVE  LinksInv'
  <1>1. UNCHANGED db
    BY DEF PutFile, RemoveFile, Kill
  <1>2. LinksAgree' /\ ListsOK'
    BY <1>1, SameDatabase DEF LinksInv, Types, ListsOK, db
  <1>3. CASE PutFile
    <2>1. StorageOK'
      BY <1>3 DEF PutFile, With, LinksInv, Types, StorageOK
    <2>2. TracksOK'
      BY <1>1, <1>3 DEF PutFile, LinksInv, Types, TracksOK, db
    <2>3. RestOK' /\ Progress'
      BY <1>1, <1>3 DEF PutFile, LinksInv, Types, RestOK, Progress, AtFile,
                        Adding, db
    <2> QED
      BY <1>2, <2>1, <2>2, <2>3 DEF LinksInv, Types
  <1>4. CASE RemoveFile
    <2>1. StorageOK'
      BY <1>4 DEF RemoveFile, Without, LinksInv, Types, StorageOK
    <2>2. TracksOK'
      BY <1>1, <1>4 DEF RemoveFile, LinksInv, Types, TracksOK, db
    <2>3. RestOK' /\ Progress'
      BY <1>1, <1>4 DEF RemoveFile, LinksInv, Types, RestOK, Progress, AtFile,
                        Adding, db
    <2> QED
      BY <1>2, <2>1, <2>2, <2>3 DEF LinksInv, Types
  <1>5. CASE Kill
    <2>1. StorageOK' /\ TracksOK'
      BY <1>1, <1>5 DEF Kill, LinksInv, Types, StorageOK, TracksOK, db
    <2>2. RestOK' /\ Progress'
      BY <1>5, IdleFacts DEF Kill, LinksInv, Types, RestOK, Progress
    <2> QED
      BY <1>2, <2>1, <2>2 DEF LinksInv, Types
  <1> QED
    BY <1>3, <1>4, <1>5

-----------------------------------------------------------------------------
(***************************************************************************)
(* The steps of the scan that leave the database alone.                    *)
(***************************************************************************)
LEMMA QuietStep ==
    ASSUME LinksInv, UNCHANGED <<storage, db, count>>, RestOK', Progress'
    PROVE  LinksInv'
  <1>1. LinksAgree'
    BY SameDatabase DEF LinksInv
  <1>2. StorageOK' /\ TracksOK' /\ ListsOK'
    BY DEF LinksInv, Types, StorageOK, TracksOK, ListsOK, db
  <1> QED
    BY <1>1, <1>2 DEF LinksInv, Types

LEMMA CheckedFacts ==
    ASSUME Types, Progress, scan.pc = "check", NEW isNew \in BOOLEAN
    PROVE  LET c == Checked(isNew)
           IN  /\ c \in Scans
               /\ c.pc \in {"walk", "check", "save"}
               /\ c.pc # "walk" =>
                    /\ c.at \in DOMAIN Walk
                    /\ \A i \in DOMAIN c.new : c.new[i] \in DOMAIN c.file
               /\ c.pc = "walk" => c.at >= 1
               /\ c.pc = "check" => c.number \in DOMAIN c.file
               /\ c.pc = "save" => c.new # << >>
  <1> DEFINE new == IF isNew THEN Append(scan.new, scan.number) ELSE scan.new
  <1>1. /\ scan \in Scans /\ AtFile /\ scan.number \in DOMAIN scan.file
        /\ scan.file \in Seq(Tags) /\ scan.new \in Seq(Nat)
        /\ scan.number \in Nat /\ scan.at \in Nat
    BY DEF Types, RestOK, Progress, Scans
  <1>2. new \in Seq(Nat) /\ \A i \in DOMAIN new : new[i] \in DOMAIN scan.file
    <2>1. CASE isNew
      <3>1. new = Append(scan.new, scan.number)
        BY <2>1
      <3>2. \A i \in DOMAIN Append(scan.new, scan.number) :
              \/ i \in DOMAIN scan.new
                   /\ Append(scan.new, scan.number)[i] = scan.new[i]
              \/ Append(scan.new, scan.number)[i] = scan.number
        BY <1>1
      <3> QED
        BY <1>1, <3>1, <3>2 DEF AtFile
    <2>2. CASE ~isNew
      BY <1>1, <2>2 DEF AtFile
    <2> QED
      BY <2>1, <2>2
  <1>3. Checked(isNew) =
          IF scan.number < Len(scan.file)
          THEN [scan EXCEPT !.number = scan.number + 1, !.new = new]
          ELSE IF new = << >> THEN [scan EXCEPT !.pc = "walk", !.at = scan.at + 1]
          ELSE [scan EXCEPT !.pc = "save", !.new = new]
    BY DEF Checked, NextFile
  <1> HIDE DEF new
  <1> DEFINE c == Checked(isNew)
  <1>4. CASE scan.number < Len(scan.file)
    <2>1. scan.number + 1 \in DOMAIN scan.file /\ scan.number + 1 \in Nat
      BY <1>1, <1>4
    <2>2. c = [scan EXCEPT !.number = scan.number + 1, !.new = new]
      BY <1>3, <1>4
    <2> HIDE DEF c
    <2>3. /\ c \in Scans /\ c.pc = "check" /\ c.at = scan.at
          /\ c.file = scan.file /\ c.new = new /\ c.number = scan.number + 1
      BY <1>1, <1>2, <2>1, <2>2 DEF Scans
    <2>4. c.at \in DOMAIN Walk /\ \A i \in DOMAIN c.new : c.new[i] \in DOMAIN c.file
      BY <1>1, <1>2, <2>3 DEF AtFile
    <2> QED
      BY <2>1, <2>3, <2>4 DEF c
  <1>5. CASE ~(scan.number < Len(scan.file)) /\ new = << >>
    <2>1. c = [scan EXCEPT !.pc = "walk", !.at = scan.at + 1]
      BY <1>3, <1>5
    <2>2. scan.at + 1 \in Nat /\ scan.at + 1 >= 1
      BY <1>1
    <2> HIDE DEF c
    <2>3. c \in Scans /\ c.pc = "walk" /\ c.at = scan.at + 1
      BY <1>1, <2>1, <2>2 DEF Scans, Steps
    <2> QED
      BY <2>2, <2>3 DEF c
  <1>6. CASE ~(scan.number < Len(scan.file)) /\ new # << >>
    <2>1. c = [scan EXCEPT !.pc = "save", !.new = new]
      BY <1>3, <1>6
    <2> HIDE DEF c
    <2>2. /\ c \in Scans /\ c.pc = "save" /\ c.at = scan.at
          /\ c.file = scan.file /\ c.new = new
      BY <1>1, <1>2, <2>1 DEF Scans, Steps
    <2>3. c.at \in DOMAIN Walk /\ \A i \in DOMAIN c.new : c.new[i] \in DOMAIN c.file
      BY <1>1, <1>2, <2>2 DEF AtFile
    <2> QED
      BY <1>6, <2>2, <2>3 DEF c
  <1> QED
    BY <1>4, <1>5, <1>6

\* Whatever the check of a track finds, the scan goes on as it should.
LEMMA CheckedProgress ==
    ASSUME Types, Progress, scan.pc = "check", NEW isNew \in BOOLEAN,
           scan' = Checked(isNew)
    PROVE  scan' \in Scans /\ Progress'
  <1> DEFINE c == Checked(isNew)
  <1>1. /\ c \in Scans
        /\ c.pc \in {"walk", "check", "save"}
        /\ c.pc # "walk" =>
             /\ c.at \in DOMAIN Walk
             /\ \A i \in DOMAIN c.new : c.new[i] \in DOMAIN c.file
        /\ c.pc = "walk" => c.at >= 1
        /\ c.pc = "check" => c.number \in DOMAIN c.file
        /\ c.pc = "save" => c.new # << >>
    BY CheckedFacts
  <1>2. scan' = c
    OBVIOUS
  <1> HIDE DEF c
  <1> QED
    BY <1>1, <1>2 DEF Progress, AtFile

LEMMA NextFileFacts ==
    ASSUME Types
    PROVE  NextFile \in Scans /\ NextFile.pc = "walk" /\ NextFile.at >= 1
  <1>1. scan \in Scans /\ scan.at \in Nat
    BY DEF Types, RestOK, Scans
  <1>2. scan.at + 1 \in Nat /\ scan.at + 1 >= 1
    BY <1>1
  <1>3. NextFile = [scan EXCEPT !.pc = "walk", !.at = scan.at + 1]
    BY DEF NextFile
  <1> QED
    BY <1>1, <1>2, <1>3 DEF Scans, Steps

LEMMA LinksWalk ==
    ASSUME LinksInv, StartScan \/ ReadFile \/ WalkEnds \/ NoCandidate
                     \/ UpdateThrows \/ TracksChecked \/ ScanCompletes
                     \/ AddReturns
    PROVE  LinksInv'
  <1>1. /\ scan \in Scans /\ scan.file \in Seq(Tags) /\ scan.new \in Seq(Nat)
        /\ scan.at \in Nat /\ rests \in Nat /\ realm \in {"closed", "open", "stale"}
        /\ report \in BOOLEAN /\ Types /\ Progress
    BY DEF LinksInv, Types, RestOK, Scans
  <1>2. CASE StartScan
    <2> DEFINE first == [Idle EXCEPT !.pc = "walk", !.at = 1]
    <2>0. first \in Scans /\ first.pc = "walk" /\ first.at = 1
      BY IdleFacts DEF Scans, Steps
    <2>a. scan' = scan \/ scan' = first
      BY <1>2 DEF StartScan
    <2> HIDE DEF first
    <2>1. scan' \in Scans /\ (scan' = scan \/ (scan'.pc = "walk" /\ scan'.at = 1))
      BY <1>1, <2>0, <2>a
    <2>2. LinksAgree' /\ StorageOK' /\ ListsOK'
      BY <1>2, SameDatabase DEF StartScan, LinksInv, Types, StorageOK, ListsOK, db
    <2>3. TracksOK'
      <3>1. tracks' = tracks /\ count' = [count EXCEPT !.scans = count.scans + 1]
        BY <1>2 DEF StartScan, db
      <3>2. TracksOK /\ count.scans + 1 \in Nat
        BY DEF LinksInv, Types, TracksOK
      <3>3. count' \in [saved : Nat, scans : Nat, edits : Nat, kills : Nat]
            /\ count'.saved = count.saved
        BY <3>1, <3>2 DEF TracksOK
      <3> QED
        BY <3>1, <3>2, <3>3 DEF TracksOK
    <2>4. RestOK'
      <3>1. realm' \in {"closed", "open", "stale"} /\ report' \in BOOLEAN
        BY <1>1, <1>2 DEF StartScan
      <3>2. rests' = rests \/ rests' = rests + 1
        BY <1>2 DEF StartScan
      <3> QED
        BY <1>1, <2>1, <3>1, <3>2 DEF RestOK
    <2>5. Progress'
      BY <1>1, <1>2, <2>1 DEF StartScan, Progress, AtFile, Adding, db
    <2> QED
      BY <2>2, <2>3, <2>4, <2>5 DEF LinksInv, Types
  <1>3. CASE ReadFile
    <2>1. scan.at \in DOMAIN Walk
      <3>1. scan.at >= 1 /\ scan.at <= Len(Walk)
        BY <1>1, <1>3 DEF ReadFile, Progress
      <3>2. DOMAIN Walk = 1..Len(Walk) /\ Len(Walk) \in Nat
        BY LibraryAssumption
      <3> QED
        BY <1>1, <3>1, <3>2
    <2>2. CASE /\ Here \in DOMAIN storage /\ storage[Here] # << >>
               /\ scan' = [scan EXCEPT !.pc = "check", !.number = 1,
                                  !.file = storage[Here], !.new = << >>]
      <3>1. storage[Here] \in Seq(Tags)
        BY <2>2, ContentsFacts DEF LinksInv, Types, StorageOK
      <3>2. 1 \in DOMAIN storage[Here]
        BY <2>2, <3>1, EmptySeq
      <3>3. << >> \in Seq(Nat) /\ DOMAIN << >> = {}
        OBVIOUS
      <3>4. scan' \in Scans
        BY <1>1, <2>2, <3>1, <3>3 DEF Scans, Steps
      <3>5. scan'.pc = "check" /\ scan'.at = scan.at /\ scan'.number = 1
            /\ scan'.file = storage[Here] /\ scan'.new = << >>
        BY <1>1, <2>2 DEF Scans
      <3>6. Progress'
        BY <2>1, <3>2, <3>3, <3>5 DEF Progress, AtFile
      <3> QED
        BY <1>1, <1>3, <3>4, <3>6, QuietStep DEF ReadFile, RestOK
    <2>3. CASE scan' = NextFile
      <3>1. scan' \in Scans /\ scan'.pc = "walk" /\ scan'.at >= 1
        BY <1>1, <2>3, NextFileFacts
      <3> QED
        BY <1>1, <1>3, <3>1, QuietStep DEF ReadFile, RestOK, Progress
    <2> QED
      BY <1>3, <2>2, <2>3 DEF ReadFile
  <1>4. CASE WalkEnds
    <2>1. DOMAIN tracks \in SUBSET Nat
      BY DEF LinksInv, Types, TracksOK
    <2>2. scan' \in Scans /\ scan'.pc = "tracks" /\ scan'.left = DOMAIN tracks
      BY <1>1, <1>4, <2>1 DEF WalkEnds, Scans, Steps
    <2>3. Progress'
      BY <1>4, <2>2 DEF WalkEnds, Progress, db
    <2> QED
      BY <1>1, <1>4, <2>2, <2>3, QuietStep DEF WalkEnds, RestOK
  <1>5. CASE NoCandidate
    <2>1. scan' \in Scans /\ Progress'
      BY <1>1, <1>5, CheckedProgress DEF NoCandidate
    <2> QED
      BY <1>1, <1>5, <2>1, QuietStep DEF NoCandidate, RestOK
  <1>6. CASE UpdateThrows
    BY <1>1, <1>6, IdleFacts, QuietStep DEF UpdateThrows, RestOK, Progress
  <1>7. CASE TracksChecked
    <2>1. scan' \in Scans /\ scan'.pc = "games"
      BY <1>1, <1>7 DEF TracksChecked, Scans, Steps
    <2> QED
      BY <1>1, <1>7, <2>1, QuietStep DEF TracksChecked, RestOK, Progress
  <1>8. CASE ScanCompletes
    BY <1>1, <1>8, IdleFacts, QuietStep DEF ScanCompletes, RestOK, Progress
  <1>9. CASE AddReturns
    <2>1. AtFile /\ scan.new # << >>
      BY <1>1, <1>9 DEF AddReturns, Progress
    <2>2. CASE Len(scan.new) > 1
      <3>1. /\ Tail(scan.new) \in Seq(Nat) /\ Len(Tail(scan.new)) = Len(scan.new) - 1
            /\ \A i \in 1..Len(Tail(scan.new)) :
                 Tail(scan.new)[i] = scan.new[i + 1] /\ i + 1 \in DOMAIN scan.new
        BY <1>1, <2>1, HeadTailProperties
      <3>2. Tail(scan.new) # << >>
        <4> DEFINE n == Len(scan.new)
        <4> DEFINE m == Len(Tail(scan.new))
        <4>1. m # 0
          <5>1. n \in Nat /\ n > 1
            BY <1>1, <2>2
          <5>2. m = n - 1
            BY <3>1
          <5> HIDE DEF n, m
          <5> QED
            BY <5>1, <5>2
        <4>2. Len(<< >>) = 0
          OBVIOUS
        <4> QED
          BY <4>1, <4>2
      <3>3. /\ scan' \in Scans /\ scan'.pc = "save" /\ scan'.at = scan.at
            /\ scan'.file = scan.file /\ scan'.new = Tail(scan.new)
        BY <1>1, <1>9, <2>2, <3>1 DEF AddReturns, Scans, Steps
      <3>4. Progress'
        BY <2>1, <3>1, <3>2, <3>3 DEF Progress, AtFile
      <3> QED
        BY <1>1, <1>9, <3>3, <3>4, QuietStep DEF AddReturns, RestOK
    <2>3. CASE ~(Len(scan.new) > 1)
      <3>1. scan' \in Scans /\ scan'.pc = "walk" /\ scan'.at >= 1
        BY <1>1, <1>9, <2>3, NextFileFacts DEF AddReturns
      <3> QED
        BY <1>1, <1>9, <3>1, QuietStep DEF AddReturns, RestOK, Progress
    <2> QED
      BY <2>2, <2>3
  <1> QED
    BY <1>2, <1>3, <1>4, <1>5, <1>6, <1>7, <1>8, <1>9

-----------------------------------------------------------------------------
(***************************************************************************)
(* The transactions of addTrack.                                           *)
(***************************************************************************)
LEMMA LinksSaveTrack ==
    ASSUME LinksInv, SaveTrack
    PROVE  LinksInv'
  <1> DEFINE n == count.saved + 1
  <1> DEFINE r == [path |-> Here, number |-> Head(scan.new),
                   title |-> Adding.title, gameTitle |-> Adding.game,
                   artistText |-> Adding.artists, game |-> None,
                   artists |-> {}]
  <1>1. /\ Types /\ Progress /\ LinksAgree /\ TracksOK /\ ListsOK /\ RestOK
        /\ scan \in Scans /\ scan.pc = "save"
    BY DEF LinksInv, Types, RestOK, SaveTrack
  <1>2. Adding \in Tags /\ Head(scan.new) \in Nat /\ Here \in Paths
    BY <1>1, AddingFacts
  <1>3. r \in TrackObjects /\ r.game = None /\ r.artists = {}
    BY <1>2 DEF Tags, TrackObjects
  <1>4. n \in Nat /\ n \notin DOMAIN tracks /\ n <= MaxTracks
        /\ 1..count.saved \cup {n} = 1..n
    BY <1>1, LibraryAssumption DEF TracksOK, SaveTrack
  <1>5. /\ tracks' = [t \in DOMAIN tracks \cup {n} |-> IF t = n THEN r ELSE tracks[t]]
        /\ scan' = [scan EXCEPT !.pc = "game", !.id = n]
        /\ count' = [count EXCEPT !.saved = n]
        /\ UNCHANGED <<storage, games, artists, realm, report, rests>>
    BY DEF SaveTrack, With
  <1> HIDE DEF n, r
  <1>6. /\ DOMAIN tracks' = DOMAIN tracks \cup {n}
        /\ tracks'[n] = r
        /\ \A t \in DOMAIN tracks : tracks'[t] = tracks[t]
    BY <1>4, <1>5
  <1>7. TracksOK'
    <2>1. count' \in [saved : Nat, scans : Nat, edits : Nat, kills : Nat]
          /\ count'.saved = n
      BY <1>1, <1>4, <1>5 DEF TracksOK
    <2>2. tracks' \in [DOMAIN tracks' -> TrackObjects]
      BY <1>1, <1>3, <1>5 DEF TracksOK
    <2>3. DOMAIN tracks' \subseteq 1..n
      BY <1>1, <1>4, <1>6 DEF TracksOK
    <2> QED
      BY <1>4, <2>1, <2>2, <2>3 DEF TracksOK
  <1>8. ListsOK'
    BY <1>1, <1>5, <1>6 DEF ListsOK
  <1>9. LinksAgree'
    <2> SUFFICES ASSUME NEW t \in DOMAIN tracks'
                 PROVE  /\ \A g \in DOMAIN games : t \in games[g] <=> tracks'[t].game = g
                        /\ \A a \in DOMAIN artists : t \in artists[a] <=> a \in tracks'[t].artists
                        /\ tracks'[t].game \in DOMAIN games \cup {None}
                        /\ tracks'[t].artists \subseteq DOMAIN artists
      BY <1>5 DEF LinksAgree
    <2>1. CASE t = n
      <3>1. \A g \in DOMAIN games : t \notin games[g] /\ g # None
        BY <1>1, <1>4, <2>1, LibraryAssumption DEF ListsOK
      <3>2. \A a \in DOMAIN artists : t \notin artists[a]
        BY <1>1, <1>4, <2>1 DEF ListsOK
      <3> QED
        BY <1>3, <1>6, <2>1, <3>1, <3>2
    <2>2. CASE t # n
      BY <1>1, <1>6, <2>2 DEF LinksAgree
    <2> QED
      BY <2>1, <2>2
  <1>10. /\ scan' \in Scans /\ scan'.pc = "game" /\ scan'.id = n
         /\ scan'.at = scan.at /\ scan'.new = scan.new /\ scan'.file = scan.file
    BY <1>1, <1>4, <1>5 DEF Scans, Steps
  <1>11. Progress'
    BY <1>1, <1>3, <1>6, <1>10 DEF Progress, AtFile
  <1>12. StorageOK' /\ RestOK'
    BY <1>1, <1>5, <1>10 DEF Types, StorageOK, RestOK
  <1> QED
    BY <1>7, <1>8, <1>9, <1>11, <1>12 DEF LinksInv, Types

LEMMA LinksSaveGame ==
    ASSUME LinksInv, SaveGame
    PROVE  LinksInv'
  <1> DEFINE g0 == Adding.game
  <1>1. /\ Types /\ Progress /\ LinksAgree /\ TracksOK /\ ListsOK /\ RestOK
        /\ scan \in Scans /\ scan.pc = "game"
    BY DEF LinksInv, Types, RestOK, SaveGame
  <1>2. g0 \in Games
    BY <1>1, AddingFacts DEF Tags
  <1>3. /\ games' = IF g0 \in DOMAIN games THEN games
                    ELSE [z \in DOMAIN games \cup {g0} |-> IF z = g0 THEN {} ELSE games[z]]
        /\ scan' = [scan EXCEPT !.pc = "link"]
        /\ UNCHANGED <<storage, tracks, artists, realm, report, rests, count>>
    BY DEF SaveGame, Found, With
  <1>4. /\ scan' \in Scans /\ scan'.pc = "link" /\ scan'.id = scan.id
        /\ scan'.at = scan.at /\ scan'.new = scan.new /\ scan'.file = scan.file
    BY <1>1, <1>3 DEF Scans, Steps
  <1>5. Adding' = Adding
    BY <1>4 DEF Adding
  <1> HIDE DEF g0
  <1>6. /\ DOMAIN games' = DOMAIN games \cup {g0}
        /\ \A g \in DOMAIN games : games'[g] = games[g]
        /\ g0 \notin DOMAIN games => games'[g0] = {}
    BY <1>3
  <1>7. ListsOK'
    <2>1. games' \in [DOMAIN games' -> SUBSET DOMAIN tracks]
      BY <1>1, <1>3 DEF ListsOK
    <2>2. DOMAIN games' \subseteq Games
      BY <1>1, <1>2, <1>6 DEF ListsOK
    <2> QED
      BY <1>1, <1>3, <2>1, <2>2 DEF ListsOK
  <1>8. LinksAgree'
    <2> SUFFICES ASSUME NEW t \in DOMAIN tracks
                 PROVE  /\ \A g \in DOMAIN games' : t \in games'[g] <=> tracks[t].game = g
                        /\ \A a \in DOMAIN artists : t \in artists[a] <=> a \in tracks[t].artists
                        /\ tracks[t].game \in DOMAIN games' \cup {None}
                        /\ tracks[t].artists \subseteq DOMAIN artists
      <3>1. tracks' = tracks /\ artists' = artists
        BY DEF SaveGame
      <3> QED
        BY <3>1 DEF LinksAgree
    <2>1. g0 \notin DOMAIN games => tracks[t].game # g0
      BY <1>1, <1>2, LibraryAssumption DEF LinksAgree
    <2> QED
      BY <1>1, <1>6, <2>1 DEF LinksAgree
  <1>9. Progress'
    BY <1>1, <1>3, <1>4, <1>5, <1>6 DEF Progress, AtFile, g0
  <1>10. StorageOK' /\ TracksOK' /\ RestOK'
    BY <1>1, <1>3, <1>4 DEF Types, StorageOK, TracksOK, RestOK
  <1> QED
    BY <1>7, <1>8, <1>9, <1>10 DEF LinksInv, Types

LEMMA LinksLinkGame ==
    ASSUME LinksInv, LinkGame
    PROVE  LinksInv'
  <1> DEFINE g0 == Adding.game
  <1> DEFINE n == scan.id
  <1>1. /\ Types /\ Progress /\ LinksAgree /\ TracksOK /\ ListsOK /\ RestOK
        /\ scan \in Scans /\ scan.pc = "link"
    BY DEF LinksInv, Types, RestOK, LinkGame
  <1>2. g0 \in Games /\ Adding.artists \in Seq(Artists) /\ g0 # None
    BY <1>1, AddingFacts DEF Tags
  <1>3. n \in DOMAIN tracks /\ tracks[n].game = None /\ g0 \in DOMAIN games
    BY <1>1 DEF Progress
  <1>4. /\ tracks' = [tracks EXCEPT ![n].game = g0]
        /\ games' = [games EXCEPT ![g0] = games[g0] \cup {n}]
        /\ scan' = [scan EXCEPT !.pc = "artists", !.names = Adding.artists]
        /\ UNCHANGED <<storage, artists, realm, report, rests, count>>
    BY DEF LinkGame
  <1>5. /\ scan' \in Scans /\ scan'.pc = "artists" /\ scan'.id = n
        /\ scan'.at = scan.at /\ scan'.new = scan.new /\ scan'.file = scan.file
        /\ scan'.names = Adding.artists
    BY <1>1, <1>2, <1>4 DEF Scans, Steps
  <1>6. Adding' = Adding
    BY <1>5 DEF Adding
  <1> HIDE DEF g0, n
  <1>7. /\ DOMAIN tracks' = DOMAIN tracks /\ DOMAIN games' = DOMAIN games
        /\ tracks'[n] = [tracks[n] EXCEPT !.game = g0]
        /\ \A t \in DOMAIN tracks : t # n => tracks'[t] = tracks[t]
        /\ games'[g0] = games[g0] \cup {n}
        /\ \A g \in DOMAIN games : g # g0 => games'[g] = games[g]
    BY <1>1, <1>3, <1>4 DEF TracksOK, ListsOK
  <1>8. tracks[n] \in TrackObjects
    BY <1>1, <1>3 DEF TracksOK
  <1>9. tracks'[n] \in TrackObjects /\ tracks'[n].game = g0
        /\ tracks'[n].artists = tracks[n].artists
    BY <1>2, <1>7, <1>8 DEF TrackObjects
  <1>10. TracksOK'
    <2>1. tracks' \in [DOMAIN tracks' -> TrackObjects]
      BY <1>1, <1>2, <1>3, <1>4, <1>8, <1>9, <1>7 DEF TracksOK
    <2> QED
      BY <1>1, <1>4, <1>7, <2>1 DEF TracksOK
  <1>11. ListsOK'
    <2>1. games' \in [DOMAIN games' -> SUBSET DOMAIN tracks]
      BY <1>1, <1>3, <1>4 DEF ListsOK
    <2> QED
      BY <1>1, <1>4, <1>7, <2>1 DEF ListsOK
  <1>12. LinksAgree'
    <2> SUFFICES ASSUME NEW t \in DOMAIN tracks
                 PROVE  /\ \A g \in DOMAIN games : t \in games'[g] <=> tracks'[t].game = g
                        /\ \A a \in DOMAIN artists : t \in artists[a] <=> a \in tracks'[t].artists
                        /\ tracks'[t].game \in DOMAIN games \cup {None}
                        /\ tracks'[t].artists \subseteq DOMAIN artists
      BY <1>4, <1>7 DEF LinksAgree
    <2>1. CASE t = n
      <3>1. \A g \in DOMAIN games : t \notin games[g]
        BY <1>1, <1>3, <2>1, LibraryAssumption DEF LinksAgree, ListsOK
      <3> QED
        BY <1>1, <1>3, <1>7, <1>9, <2>1, <3>1 DEF LinksAgree
    <2>2. CASE t # n
      BY <1>1, <1>7, <2>2 DEF LinksAgree
    <2> QED
      BY <2>1, <2>2
  <1>13. Progress'
    BY <1>1, <1>3, <1>5, <1>6, <1>7 DEF Progress, AtFile
  <1>14. StorageOK' /\ RestOK'
    BY <1>1, <1>4, <1>5 DEF Types, StorageOK, RestOK
  <1> QED
    BY <1>10, <1>11, <1>12, <1>13, <1>14 DEF LinksInv, Types

LEMMA LinksSaveArtist ==
    ASSUME LinksInv, SaveArtist
    PROVE  LinksInv'
  <1>1. /\ Types /\ Progress /\ LinksAgree /\ TracksOK /\ ListsOK /\ RestOK
        /\ scan \in Scans /\ scan.pc = "artists" /\ scan.names \in Seq(Artists)
    BY DEF LinksInv, Types, RestOK, SaveArtist, Scans
  <1>2. Adding.artists \in Seq(Artists)
    BY <1>1, AddingFacts DEF Tags
  <1>3. UNCHANGED <<storage, tracks, games, realm, report, rests, count>>
    BY DEF SaveArtist
  <1>4. CASE scan.names = << >>
    <2>1. artists' = artists
          /\ scan' = [scan EXCEPT !.pc = "artist", !.names = Adding.artists]
      BY <1>4 DEF SaveArtist
    <2>2. /\ scan' \in Scans /\ scan'.pc = "artist" /\ scan'.id = scan.id
          /\ scan'.at = scan.at /\ scan'.new = scan.new /\ scan'.file = scan.file
          /\ scan'.names = Adding.artists
      BY <1>1, <1>2, <2>1 DEF Scans, Steps
    <2>3. Range(Adding.artists) \subseteq DOMAIN artists
      <3>1. Range(<< >>) = {}
        BY DEF Range
      <3> QED
        BY <1>1, <1>4, <3>1 DEF Progress
    <2>4. Progress'
      BY <1>1, <1>3, <2>1, <2>2, <2>3 DEF Progress, AtFile
    <2>5. RestOK'
      BY <1>1, <1>3, <2>2 DEF RestOK
    <2> QED
      BY <1>3, <2>1, <2>4, <2>5, QuietStep DEF db
  <1>5. CASE scan.names # << >>
    <2> DEFINE a0 == Head(scan.names)
    <2>1. /\ a0 \in Artists /\ Tail(scan.names) \in Seq(Artists)
          /\ Range(scan.names) \subseteq Range(Tail(scan.names)) \cup {a0}
      <3>1. a0 \in Artists /\ Tail(scan.names) \in Seq(Artists)
        BY <1>1, <1>5
      <3>2. Len(Tail(scan.names)) = Len(scan.names) - 1 /\ Len(scan.names) \in Nat
            /\ \A i \in 1..Len(Tail(scan.names)) :
                 Tail(scan.names)[i] = scan.names[i + 1]
        BY <1>1, <1>5, HeadTailProperties
      <3>3. ASSUME NEW i \in DOMAIN scan.names, i # 1
            PROVE  scan.names[i] \in Range(Tail(scan.names))
        <4>1. i \in 1..Len(scan.names) /\ DOMAIN Tail(scan.names) = 1..Len(Tail(scan.names))
          BY <1>1, <3>1
        <4>2. i - 1 \in 1..Len(Tail(scan.names)) /\ (i - 1) + 1 = i
          BY <3>2, <3>3, <4>1
        <4>3. Tail(scan.names)[i - 1] = scan.names[i]
          BY <3>2, <4>2
        <4> QED
          BY <4>1, <4>2, <4>3 DEF Range
      <3>4. scan.names[1] = a0
        BY <1>1, <1>5
      <3> QED
        BY <3>1, <3>3, <3>4 DEF Range
    <2>2. /\ artists' = IF a0 \in DOMAIN artists THEN artists
                        ELSE [z \in DOMAIN artists \cup {a0} |->
                                IF z = a0 THEN {} ELSE artists[z]]
          /\ scan' = [scan EXCEPT !.names = Tail(scan.names)]
      BY <1>5 DEF SaveArtist, Found, With
    <2>3. /\ scan' \in Scans /\ scan'.pc = "artists" /\ scan'.id = scan.id
          /\ scan'.at = scan.at /\ scan'.new = scan.new /\ scan'.file = scan.file
          /\ scan'.names = Tail(scan.names)
      BY <1>1, <2>1, <2>2 DEF Scans, Steps
    <2>4. Adding' = Adding
      BY <2>3 DEF Adding
    <2> HIDE DEF a0
    <2>5. /\ DOMAIN artists' = DOMAIN artists \cup {a0}
          /\ \A a \in DOMAIN artists : artists'[a] = artists[a]
          /\ a0 \notin DOMAIN artists => artists'[a0] = {}
      BY <2>2
    <2>6. ListsOK'
      <3>1. artists' \in [DOMAIN artists' -> SUBSET DOMAIN tracks]
        BY <1>1, <2>2 DEF ListsOK
      <3>2. DOMAIN artists' \subseteq Artists
        BY <1>1, <2>1, <2>5 DEF ListsOK
      <3> QED
        BY <1>1, <1>3, <3>1, <3>2 DEF ListsOK
    <2>7. LinksAgree'
      <3> SUFFICES ASSUME NEW t \in DOMAIN tracks
                   PROVE  /\ \A g \in DOMAIN games : t \in games[g] <=> tracks[t].game = g
                          /\ \A a \in DOMAIN artists' : t \in artists'[a] <=> a \in tracks[t].artists
                          /\ tracks[t].game \in DOMAIN games \cup {None}
                          /\ tracks[t].artists \subseteq DOMAIN artists'
        BY <1>3 DEF LinksAgree
      <3> QED
        BY <1>1, <2>5 DEF LinksAgree
    <2>8. Progress'
      <3>1. Range(Adding.artists) \subseteq DOMAIN artists' \cup Range(Tail(scan.names))
        BY <1>1, <2>1, <2>5 DEF Progress
      <3> QED
        BY <1>1, <1>3, <2>3, <2>4, <3>1 DEF Progress, AtFile
    <2>9. StorageOK' /\ TracksOK' /\ RestOK'
      BY <1>1, <1>3, <2>3 DEF Types, StorageOK, TracksOK, RestOK
    <2> QED
      BY <2>6, <2>7, <2>8, <2>9 DEF LinksInv, Types
  <1> QED
    BY <1>4, <1>5

LEMMA LinksLinkArtist ==
    ASSUME LinksInv, LinkArtist
    PROVE  LinksInv'
  <1> DEFINE a0 == Head(scan.names)
  <1> DEFINE n == scan.id
  <1>1. /\ Types /\ Progress /\ LinksAgree /\ TracksOK /\ ListsOK /\ RestOK
        /\ scan \in Scans /\ scan.pc = "artist" /\ scan.names \in Seq(Artists)
        /\ scan.names # << >>
    BY DEF LinksInv, Types, RestOK, LinkArtist, Scans
  <1>2. /\ a0 \in Artists /\ Tail(scan.names) \in Seq(Artists)
        /\ a0 \in Range(scan.names)
        /\ Range(Tail(scan.names)) \subseteq Range(scan.names)
    <2>1. a0 \in Artists /\ Tail(scan.names) \in Seq(Artists)
      BY <1>1
    <2>2. scan.names[1] = a0 /\ 1 \in DOMAIN scan.names
      BY <1>1, EmptySeq
    <2>3. Len(Tail(scan.names)) = Len(scan.names) - 1 /\ Len(scan.names) \in Nat
          /\ \A i \in 1..Len(Tail(scan.names)) :
               Tail(scan.names)[i] = scan.names[i + 1]
      BY <1>1, HeadTailProperties
    <2>4. \A i \in 1..Len(Tail(scan.names)) : i + 1 \in 1..Len(scan.names)
      BY <2>3
    <2>5. /\ DOMAIN Tail(scan.names) = 1..Len(Tail(scan.names))
          /\ DOMAIN scan.names = 1..Len(scan.names)
      BY <1>1, <2>1
    <2> QED
      BY <2>1, <2>2, <2>3, <2>4, <2>5 DEF Range
  <1>3. n \in DOMAIN tracks /\ a0 \in DOMAIN artists
    BY <1>1, <1>2 DEF Progress
  <1>4. /\ artists' = [artists EXCEPT ![a0] = artists[a0] \cup {n}]
        /\ tracks' = [tracks EXCEPT ![n].artists = tracks[n].artists \cup {a0}]
        /\ scan' = [scan EXCEPT !.names = Tail(scan.names)]
        /\ UNCHANGED <<storage, games, realm, report, rests, count>>
    BY DEF LinkArtist
  <1>5. /\ scan' \in Scans /\ scan'.pc = "artist" /\ scan'.id = n
        /\ scan'.at = scan.at /\ scan'.new = scan.new /\ scan'.file = scan.file
        /\ scan'.names = Tail(scan.names)
    BY <1>1, <1>2, <1>4 DEF Scans, Steps
  <1> HIDE DEF a0, n
  <1>6. /\ DOMAIN tracks' = DOMAIN tracks /\ DOMAIN artists' = DOMAIN artists
        /\ tracks'[n] = [tracks[n] EXCEPT !.artists = tracks[n].artists \cup {a0}]
        /\ \A t \in DOMAIN tracks : t # n => tracks'[t] = tracks[t]
        /\ artists'[a0] = artists[a0] \cup {n}
        /\ \A a \in DOMAIN artists : a # a0 => artists'[a] = artists[a]
    BY <1>1, <1>3, <1>4 DEF TracksOK, ListsOK
  <1>7. tracks[n] \in TrackObjects
    BY <1>1, <1>3 DEF TracksOK
  <1>8. tracks'[n] \in TrackObjects /\ tracks'[n].game = tracks[n].game
        /\ tracks'[n].artists = tracks[n].artists \cup {a0}
    BY <1>2, <1>6, <1>7 DEF TrackObjects
  <1>9. TracksOK'
    <2>1. tracks' \in [DOMAIN tracks' -> TrackObjects]
      BY <1>1, <1>3, <1>4, <1>6, <1>8 DEF TracksOK
    <2> QED
      BY <1>1, <1>4, <1>6, <2>1 DEF TracksOK
  <1>10. ListsOK'
    <2>1. artists' \in [DOMAIN artists' -> SUBSET DOMAIN tracks]
      BY <1>1, <1>3, <1>4 DEF ListsOK
    <2> QED
      BY <1>1, <1>4, <1>6, <2>1 DEF ListsOK
  <1>11. LinksAgree'
    <2> SUFFICES ASSUME NEW t \in DOMAIN tracks
                 PROVE  /\ \A g \in DOMAIN games : t \in games[g] <=> tracks'[t].game = g
                        /\ \A a \in DOMAIN artists : t \in artists'[a] <=> a \in tracks'[t].artists
                        /\ tracks'[t].game \in DOMAIN games \cup {None}
                        /\ tracks'[t].artists \subseteq DOMAIN artists
      BY <1>4, <1>6 DEF LinksAgree
    <2>1. CASE t = n
      <3>1. /\ \A g \in DOMAIN games : n \in games[g] <=> tracks[n].game = g
            /\ \A a \in DOMAIN artists : n \in artists[a] <=> a \in tracks[n].artists
            /\ tracks[n].game \in DOMAIN games \cup {None}
            /\ tracks[n].artists \subseteq DOMAIN artists
        BY <1>1, <1>3 DEF LinksAgree
      <3>2. \A a \in DOMAIN artists : n \in artists'[a] <=> a \in tracks'[n].artists
        BY <1>6, <1>8, <3>1
      <3> QED
        BY <1>3, <1>8, <2>1, <3>1, <3>2
    <2>2. CASE t # n
      BY <1>1, <1>6, <2>2 DEF LinksAgree
    <2> QED
      BY <2>1, <2>2
  <1>12. Progress'
    BY <1>1, <1>2, <1>3, <1>5, <1>6 DEF Progress, AtFile, n
  <1>13. StorageOK' /\ RestOK'
    BY <1>1, <1>4, <1>5 DEF Types, StorageOK, RestOK
  <1> QED
    BY <1>9, <1>10, <1>11, <1>12, <1>13 DEF LinksInv, Types

-----------------------------------------------------------------------------
(***************************************************************************)
(* checkForDeletion.                                                       *)
(***************************************************************************)
LEMMA LinksCheckTrack ==
    ASSUME LinksInv, CheckTrack
    PROVE  LinksInv'
  <1>1. /\ Types /\ Progress /\ LinksAgree /\ TracksOK /\ ListsOK /\ RestOK
        /\ scan \in Scans /\ scan.pc = "tracks"
        /\ scan.left \in SUBSET Nat /\ scan.left \subseteq DOMAIN tracks
    BY DEF LinksInv, Types, RestOK, CheckTrack, Scans, Progress
  <1>2. PICK n \in scan.left :
          /\ scan' = [scan EXCEPT !.left = scan.left \ {n}]
          /\ IF tracks[n].path \in DOMAIN storage
             THEN UNCHANGED db
             ELSE /\ tracks' = Without(tracks, {n})
                  /\ games' = Unlisted(games, n)
                  /\ artists' = Unlisted(artists, n)
    BY DEF CheckTrack
  <1>3. UNCHANGED <<storage, realm, report, rests, count>>
    BY DEF CheckTrack
  <1>4. scan' \in Scans /\ scan'.pc = "tracks" /\ scan'.left = scan.left \ {n}
    BY <1>1, <1>2 DEF Scans, Steps
  <1>5. RestOK' /\ StorageOK'
    BY <1>1, <1>3, <1>4 DEF Types, RestOK, StorageOK
  <1>6. CASE tracks[n].path \in DOMAIN storage
    <2>1. UNCHANGED db
      BY <1>2, <1>6
    <2>2. Progress'
      BY <1>1, <1>4, <2>1 DEF Progress, db
    <2> QED
      BY <1>3, <1>5, <2>1, <2>2, QuietStep
  <1>7. CASE tracks[n].path \notin DOMAIN storage
    <2>1. /\ tracks' = [t \in DOMAIN tracks \ {n} |-> tracks[t]]
          /\ games' = [g \in DOMAIN games |-> games[g] \ {n}]
          /\ artists' = [a \in DOMAIN artists |-> artists[a] \ {n}]
      BY <1>2, <1>7 DEF Without, Unlisted
    <2>2. TracksOK'
      BY <1>1, <1>3, <2>1 DEF TracksOK
    <2>3. ListsOK'
      BY <1>1, <2>1 DEF ListsOK
    <2>4. LinksAgree'
      BY <1>1, <2>1 DEF LinksAgree
    <2>5. Progress'
      BY <1>1, <1>4, <2>1 DEF Progress
    <2> QED
      BY <1>5, <2>2, <2>3, <2>4, <2>5 DEF LinksInv, Types
  <1> QED
    BY <1>6, <1>7

LEMMA LinksCheckGames ==
    ASSUME LinksInv, CheckGames
    PROVE  LinksInv'
  <1>1. /\ Types /\ Progress /\ LinksAgree /\ TracksOK /\ ListsOK /\ RestOK
        /\ scan \in Scans /\ scan.pc = "games"
    BY DEF LinksInv, Types, RestOK, CheckGames
  <1>2. UNCHANGED <<storage, tracks, artists, realm, report, rests, count>>
    BY DEF CheckGames
  <1>3. CASE Empty(games) = {}
    <2>1. games' = games /\ scan' = [scan EXCEPT !.pc = "names"]
      BY <1>3 DEF CheckGames
    <2>2. scan' \in Scans /\ scan'.pc = "names"
      BY <1>1, <2>1 DEF Scans, Steps
    <2>3. RestOK' /\ Progress'
      BY <1>1, <1>2, <2>2 DEF RestOK, Progress
    <2> QED
      BY <1>2, <2>1, <2>3, QuietStep DEF db
  <1>4. CASE Empty(games) # {}
    <2>1. PICK g0 \in Empty(games) : games' = Without(games, {g0})
      BY <1>4 DEF CheckGames
    <2>2. scan' = scan
      BY <1>4 DEF CheckGames
    <2>3. g0 \in DOMAIN games /\ games[g0] = {}
      BY DEF Empty
    <2>4. games' = [g \in DOMAIN games \ {g0} |-> games[g]]
      BY <2>1 DEF Without
    <2>5. ListsOK'
      BY <1>1, <1>2, <2>4 DEF ListsOK
    <2>6. LinksAgree'
      <3>1. \A t \in DOMAIN tracks : tracks[t].game # g0
        BY <1>1, <2>3 DEF LinksAgree
      <3> QED
        BY <1>1, <1>2, <2>4, <3>1 DEF LinksAgree
    <2>7. Progress' /\ RestOK' /\ StorageOK' /\ TracksOK'
      BY <1>1, <1>2, <2>2 DEF Types, Progress, RestOK, StorageOK, TracksOK
    <2> QED
      BY <2>5, <2>6, <2>7 DEF LinksInv, Types
  <1> QED
    BY <1>3, <1>4

LEMMA LinksCheckArtists ==
    ASSUME LinksInv, CheckArtists
    PROVE  LinksInv'
  <1>1. /\ Types /\ Progress /\ LinksAgree /\ TracksOK /\ ListsOK /\ RestOK
        /\ scan.pc = "names"
    BY DEF LinksInv, Types, CheckArtists
  <1>2. UNCHANGED <<storage, tracks, games, scan, realm, report, rests, count>>
    BY DEF CheckArtists
  <1>3. PICK a0 \in Empty(artists) : artists' = Without(artists, {a0})
    BY DEF CheckArtists
  <1>4. a0 \in DOMAIN artists /\ artists[a0] = {}
    BY DEF Empty
  <1>5. artists' = [a \in DOMAIN artists \ {a0} |-> artists[a]]
    BY <1>3 DEF Without
  <1>6. ListsOK'
    BY <1>1, <1>2, <1>5 DEF ListsOK
  <1>7. LinksAgree'
    <2>1. \A t \in DOMAIN tracks : a0 \notin tracks[t].artists
      BY <1>1, <1>4 DEF LinksAgree
    <2> QED
      BY <1>1, <1>2, <1>5, <2>1 DEF LinksAgree
  <1>8. Progress' /\ RestOK' /\ StorageOK' /\ TracksOK'
    BY <1>1, <1>2 DEF Types, Progress, RestOK, StorageOK, TracksOK
  <1> QED
    BY <1>6, <1>7, <1>8 DEF LinksInv, Types

-----------------------------------------------------------------------------
(***************************************************************************)
(* updateTrack: the track moves from the list of one game to that of       *)
(* another and is added to the lists of the artists it did not have.       *)
(***************************************************************************)
LEMMA LinksUpdateTrack ==
    ASSUME LinksInv, UpdateTrack
    PROVE  LinksInv'
  <1>1. /\ Types /\ Progress /\ LinksAgree /\ TracksOK /\ ListsOK /\ RestOK
        /\ scan \in Scans /\ scan.pc = "check" /\ AtFile
        /\ scan.number \in DOMAIN scan.file /\ scan.file \in Seq(Tags)
    BY DEF LinksInv, Types, RestOK, UpdateTrack, Scans, Progress
  <1>2. Tag \in Tags /\ Tag.game # None /\ scan.number \in Nat /\ Here \in Paths
    <2>1. Here \in Paths
      BY <1>1 DEF AtFile, Here, Paths, Range
    <2> QED
      BY <1>1, <2>1, TagFacts DEF Tag
  <1>3. PICK n \in Candidates :
          /\ tracks' = [tracks EXCEPT ![n] = Updated(n)]
          /\ games' = Relinked(n)
          /\ artists' = Credited(n)
          /\ report' = (\/ report
                        \/ AtPath = {}
                        \/ Regamed(n)
                        \/ tracks'[n] # tracks[n])
          /\ scan' = Checked(tracks'[n].game = None)
    BY DEF UpdateTrack
  <1>4. UNCHANGED <<storage, realm, rests, count>>
    BY DEF UpdateTrack
  <1>5. n \in DOMAIN tracks
    BY DEF Candidates, AtPath, SameTag
  <1>6. tracks[n] \in TrackObjects
    BY <1>1, <1>5 DEF TracksOK
  <1> DEFINE g0 == Tag.game
  <1> DEFINE add == Added(n)
  <1>7. g0 \in Games /\ add \subseteq Artists
    <2>1. Tag.artists \in Seq(Artists) /\ Tag.game \in Games
      BY <1>2 DEF Tags
    <2>2. Range(Tag.artists) \subseteq Artists
      BY <2>1 DEF Range
    <2> QED
      BY <2>1, <2>2 DEF Added
  <1>8. Updated(n) \in TrackObjects
        /\ Updated(n).artists = tracks[n].artists \cup add
        /\ Updated(n).game = IF Regamed(n) THEN g0 ELSE tracks[n].game
    BY <1>2, <1>6, <1>7 DEF Updated, TrackObjects, Tags
  <1>9. /\ DOMAIN tracks' = DOMAIN tracks
        /\ tracks'[n] = Updated(n)
        /\ \A t \in DOMAIN tracks : t # n => tracks'[t] = tracks[t]
    BY <1>1, <1>3, <1>5 DEF TracksOK
  <1>10. TracksOK'
    <2>1. tracks' \in [DOMAIN tracks' -> TrackObjects]
      BY <1>1, <1>3, <1>5, <1>8 DEF TracksOK
    <2> QED
      BY <1>1, <1>4, <1>9, <2>1 DEF TracksOK
  <1>11. /\ DOMAIN games' \subseteq Games
         /\ games' \in [DOMAIN games' -> SUBSET DOMAIN tracks]
         /\ Updated(n).game \in DOMAIN games' \cup {None}
         /\ \A t \in DOMAIN tracks : t # n => tracks[t].game \in DOMAIN games' \cup {None}
         /\ \A t \in DOMAIN tracks, g \in DOMAIN games' : t # n =>
              (t \in games'[g] <=> tracks[t].game = g)
         /\ \A g \in DOMAIN games' : n \in games'[g] <=> Updated(n).game = g
    <2>1. CASE ~Regamed(n)
      <3>1. games' = games /\ Updated(n).game = tracks[n].game
        BY <1>3, <1>8, <2>1 DEF Relinked
      <3> QED
        BY <1>1, <1>5, <3>1 DEF LinksAgree, ListsOK
    <2>2. CASE Regamed(n)
      <3> DEFINE off == [g \in DOMAIN games |-> IF g = tracks[n].game
                                                THEN games[g] \ {n} ELSE games[g]]
      <3> DEFINE all == IF g0 \in DOMAIN off THEN off
                        ELSE [z \in DOMAIN off \cup {g0} |->
                                IF z = g0 THEN {} ELSE off[z]]
      <3>1. games' = [all EXCEPT ![g0] = all[g0] \cup {n}]
        BY <1>3, <2>2 DEF Relinked, Found, With
      <3>2. /\ DOMAIN off = DOMAIN games
            /\ \A g \in DOMAIN games : off[g] = games[g] \ {n}
        BY <1>1, <1>5 DEF LinksAgree
      <3>3. off \in [DOMAIN games -> SUBSET DOMAIN tracks]
        BY <1>1 DEF ListsOK
      <3> HIDE DEF off
      <3>4. /\ DOMAIN all = DOMAIN games \cup {g0}
            /\ \A g \in DOMAIN games : all[g] = games[g] \ {n}
            /\ g0 \notin DOMAIN games => all[g0] = {}
        BY <3>2
      <3>5. all \in [DOMAIN games \cup {g0} -> SUBSET DOMAIN tracks]
        BY <3>2, <3>3
      <3> HIDE DEF all, g0
      <3>6. /\ DOMAIN games' = DOMAIN games \cup {g0}
            /\ games'[g0] = all[g0] \cup {n}
            /\ \A g \in DOMAIN games : g # g0 => games'[g] = games[g] \ {n}
        BY <3>1, <3>4
      <3>7. games' \in [DOMAIN games' -> SUBSET DOMAIN tracks]
        BY <1>5, <3>1, <3>5, <3>6
      <3>8. DOMAIN games' \subseteq Games
        BY <1>1, <1>7, <3>6 DEF ListsOK
      <3>9. Updated(n).game = g0
        BY <1>8, <2>2
      <3>10. \A t \in DOMAIN tracks : t # n => tracks[t].game \in DOMAIN games' \cup {None}
        BY <1>1, <3>6 DEF LinksAgree
      <3>11. ASSUME NEW t \in DOMAIN tracks, NEW g \in DOMAIN games', t # n
             PROVE  t \in games'[g] <=> tracks[t].game = g
        <4>1. CASE g # g0
          BY <1>1, <3>6, <3>11, <4>1 DEF LinksAgree
        <4>2. CASE g = g0 /\ g0 \in DOMAIN games
          BY <1>1, <3>4, <3>6, <3>11, <4>2 DEF LinksAgree
        <4>3. CASE g = g0 /\ g0 \notin DOMAIN games
          <5>1. tracks[t].game # g0
            BY <1>1, <1>2, <4>3 DEF LinksAgree, g0
          <5> QED
            BY <3>4, <3>6, <3>11, <4>3, <5>1
        <4> QED
          BY <4>1, <4>2, <4>3
      <3>12. \A g \in DOMAIN games' : n \in games'[g] <=> g0 = g
        BY <3>6
      <3> QED
        BY <3>6, <3>7, <3>8, <3>9, <3>10, <3>11, <3>12
    <2> QED
      BY <2>1, <2>2
  <1>12. /\ DOMAIN artists' = DOMAIN artists \cup add
         /\ artists' \in [DOMAIN artists' -> SUBSET DOMAIN tracks]
         /\ \A a \in DOMAIN artists, t \in DOMAIN tracks : t # n =>
              (t \in artists'[a] <=> t \in artists[a])
         /\ \A a \in DOMAIN artists' :
              n \in artists'[a] <=> a \in add \/ (a \in DOMAIN artists /\ n \in artists[a])
         /\ \A a \in DOMAIN artists', t \in DOMAIN tracks :
              t # n /\ a \notin DOMAIN artists => t \notin artists'[a]
    <2> DEFINE all == [a \in DOMAIN artists \cup add |->
                         IF a \in DOMAIN artists THEN artists[a] ELSE {}]
    <2>1. artists' = [a \in DOMAIN all |-> IF a \in add THEN all[a] \cup {n} ELSE all[a]]
      BY <1>3 DEF Credited
    <2> HIDE DEF add
    <2>2. /\ DOMAIN all = DOMAIN artists \cup add
          /\ \A a \in DOMAIN artists : all[a] = artists[a]
          /\ \A a \in add : a \notin DOMAIN artists => all[a] = {}
      OBVIOUS
    <2>3. all \in [DOMAIN artists \cup add -> SUBSET DOMAIN tracks]
      BY <1>1 DEF ListsOK
    <2> HIDE DEF all
    <2>4. artists' \in [DOMAIN artists' -> SUBSET DOMAIN tracks]
          /\ DOMAIN artists' = DOMAIN artists \cup add
      BY <1>5, <2>1, <2>2, <2>3
    <2>5. \A a \in DOMAIN artists' :
            artists'[a] = IF a \in add THEN all[a] \cup {n} ELSE all[a]
      BY <2>1
    <2> QED
      BY <2>2, <2>4, <2>5
  <1> HIDE DEF g0, add
  <1>13. ListsOK'
    BY <1>1, <1>7, <1>9, <1>11, <1>12 DEF ListsOK
  <1>14. LinksAgree'
    <2> SUFFICES ASSUME NEW t \in DOMAIN tracks
                 PROVE  /\ \A g \in DOMAIN games' : t \in games'[g] <=> tracks'[t].game = g
                        /\ \A a \in DOMAIN artists' : t \in artists'[a] <=> a \in tracks'[t].artists
                        /\ tracks'[t].game \in DOMAIN games' \cup {None}
                        /\ tracks'[t].artists \subseteq DOMAIN artists'
      BY <1>9 DEF LinksAgree
    <2>0. /\ \A a \in DOMAIN artists : t \in artists[a] <=> a \in tracks[t].artists
          /\ tracks[t].artists \subseteq DOMAIN artists
      BY <1>1 DEF LinksAgree
    <2>1. CASE t = n
      <3>1. tracks'[t].artists = tracks[t].artists \cup add /\ tracks'[t] = Updated(n)
        BY <1>8, <1>9, <2>1
      <3>2. \A a \in DOMAIN artists' : t \in artists'[a] <=> a \in tracks'[t].artists
        BY <1>12, <2>0, <2>1, <3>1
      <3>3. tracks'[t].artists \subseteq DOMAIN artists'
        BY <1>12, <2>0, <3>1
      <3> QED
        BY <1>11, <2>1, <3>1, <3>2, <3>3
    <2>2. CASE t # n
      <3>1. tracks'[t] = tracks[t]
        BY <1>9, <2>2
      <3>2. \A a \in DOMAIN artists' : t \in artists'[a] <=> a \in tracks[t].artists
        BY <1>12, <2>0, <2>2
      <3>3. tracks[t].artists \subseteq DOMAIN artists'
        BY <1>12, <2>0
      <3> QED
        BY <1>11, <2>2, <3>1, <3>2, <3>3
    <2> QED
      BY <2>1, <2>2
  <1>15. scan' \in Scans /\ Progress'
    <2>1. (tracks'[n].game = None) \in BOOLEAN
      OBVIOUS
    <2> QED
      BY <1>1, <1>3, <2>1, CheckedProgress
  <1>16. StorageOK' /\ RestOK'
    <2>1. report' \in BOOLEAN
      BY <1>3, Zenon
    <2> QED
      BY <1>1, <1>4, <1>15, <2>1 DEF Types, StorageOK, RestOK
  <1> QED
    BY <1>10, <1>13, <1>14, <1>15, <1>16 DEF LinksInv, Types

-----------------------------------------------------------------------------
LEMMA LinksStep == LinksInv /\ [Next]_vars => LinksInv'
  <1> SUFFICES ASSUME LinksInv, [Next]_vars PROVE LinksInv'
    OBVIOUS
  <1>1. CASE UNCHANGED vars
    <2>1. UNCHANGED <<storage, db, count>> /\ UNCHANGED <<scan, realm, report, rests>>
      BY <1>1 DEF vars, db
    <2>2. RestOK' /\ Progress'
      BY <2>1 DEF LinksInv, Types, RestOK, Progress, AtFile, Adding, db
    <2> QED
      BY <2>1, <2>2, QuietStep
  <1>2. CASE Next
    BY <1>2, LinksListener, LinksWalk, LinksUpdateTrack, LinksSaveTrack,
       LinksSaveGame, LinksLinkGame, LinksSaveArtist, LinksLinkArtist,
       LinksCheckTrack, LinksCheckGames, LinksCheckArtists DEF Next
  <1> QED
    BY <1>1, <1>2

LEMMA LinksInvHolds == Spec => []LinksInv
  BY LinksInit, LinksStep, PTL DEF Spec

(***************************************************************************)
(* The database only ever holds what a scan read from a file, and its      *)
(* lists only tracks that exist, for any storage and any number of scans   *)
(* and kills (RealmRepository).                                            *)
(***************************************************************************)
THEOREM ScanTypeCorrect == Spec => []TypeOK
  <1>1. LinksInv => TypeOK
    <2> SUFFICES ASSUME LinksInv PROVE TypeOK
      OBVIOUS
    <2>1. DOMAIN tracks \subseteq 1..MaxTracks
      BY LibraryAssumption DEF LinksInv, Types, TracksOK
    <2>2. \A t \in DOMAIN tracks : tracks[t] \in TrackObjects
      BY DEF LinksInv, Types, TracksOK
    <2>3. Range(games) \cup Range(artists) \subseteq SUBSET DOMAIN tracks
      BY DEF LinksInv, Types, ListsOK, Range
    <2>4. scan.pc \in Steps
      BY DEF LinksInv, Types, RestOK, Scans
    <2> QED
      BY <2>1, <2>2, <2>3, <2>4 DEF LinksInv, Types, StorageOK, ListsOK,
                                    RestOK, TypeOK, TrackObjects
  <1> QED
    BY <1>1, LinksInvHolds, PTL

(***************************************************************************)
(* Tracks, games and artists agree on their links between any two          *)
(* transactions, wherever a scan is killed or fails (LinksAgree), for any  *)
(* storage, any tags and any number of scans.                              *)
(***************************************************************************)
THEOREM ScanLinksAgree == Spec => []LinksAgree
  <1>1. LinksInv => LinksAgree
    BY DEF LinksInv
  <1> QED
    BY <1>1, LinksInvHolds, PTL

-----------------------------------------------------------------------------
(***************************************************************************)
(* One entry for every track.  The check of a file looks at all of its     *)
(* tracks before the first of them is saved; what keeps a track from being *)
(* entered twice is that the list of those to add names none twice and     *)
(* none that has an entry, also after the check of a later one has moved   *)
(* an entry to this file.  A track that is found is added all the same     *)
(* when it has no game, and only a kill leaves one without.                *)
(***************************************************************************)
AddSteps == {"save", "game", "link", "artists", "artist"}

\* A track of a file of one is number 1.
Numbered ==
    /\ \A t \in DOMAIN tracks :
         tracks[t].path \notin MultiTrack => tracks[t].number = 1
    /\ scan.pc \in {"check"} \cup AddSteps =>
         (Here \notin MultiTrack => Len(scan.file) <= 1)

\* Of the file at hand, the track with number n has no entry.
Unentered(n) ==
    \A t \in DOMAIN tracks : tracks[t].path = Here => tracks[t].number # n

HaveGames ==
    \A t \in DOMAIN tracks :
      tracks[t].game = None => scan.pc \in {"game", "link"} /\ scan.id = t

Increasing(s) == \A i, j \in DOMAIN s : i < j => s[i] < s[j]

NewOnes ==
    /\ scan.pc \in {"check"} \cup AddSteps => Increasing(scan.new)
    /\ scan.pc = "check" =>
         \A i \in DOMAIN scan.new : scan.new[i] < scan.number
    /\ scan.pc \in {"check", "save"} =>
         \A i \in DOMAIN scan.new : Unentered(scan.new[i])
    /\ scan.pc \in {"game", "link", "artists", "artist"} =>
         \A i \in DOMAIN scan.new : i # 1 => Unentered(scan.new[i])

OnceInv ==
    /\ Numbered
    /\ count.kills = 0 => OneEntryPerFile /\ HaveGames /\ NewOnes

\* The tracks stay where they are and keep their games, or are deleted.
SameKeys ==
    /\ DOMAIN tracks' \subseteq DOMAIN tracks
    /\ \A t \in DOMAIN tracks' : /\ tracks'[t].path = tracks[t].path
                                 /\ tracks'[t].number = tracks[t].number
                                 /\ tracks'[t].game = tracks[t].game

LEMMA OnceAway ==
    ASSUME OnceInv, SameKeys, count'.kills = count.kills,
           scan.pc \notin {"game", "link"},
           scan'.pc \in {"idle", "walk", "tracks", "games", "names"}
    PROVE  OnceInv'
  <1>1. Numbered'
    BY DEF OnceInv, SameKeys, Numbered, AddSteps
  <1>2. ASSUME count.kills = 0
        PROVE  OneEntryPerFile' /\ HaveGames' /\ NewOnes'
    <2>1. OneEntryPerFile' /\ HaveGames'
      BY <1>2 DEF OnceInv, SameKeys, OneEntryPerFile, HaveGames
    <2>2. NewOnes'
      BY DEF NewOnes, AddSteps
    <2> QED
      BY <2>1, <2>2
  <1> QED
    BY <1>1, <1>2 DEF OnceInv

LEMMA OnceStays ==
    ASSUME OnceInv, SameKeys, count'.kills = count.kills,
           scan'.at = scan.at, scan'.new = scan.new, scan'.file = scan.file,
           scan'.number = scan.number, scan'.id = scan.id,
           \/ scan'.pc = scan.pc
           \/ scan.pc = "game" /\ scan'.pc = "link"
           \/ scan.pc = "artists" /\ scan'.pc = "artist"
    PROVE  OnceInv'
  <1>0. Here' = Here
    BY DEF Here
  <1>1. Numbered'
    BY <1>0 DEF OnceInv, SameKeys, Numbered, AddSteps
  <1>2. ASSUME count.kills = 0
        PROVE  OneEntryPerFile' /\ HaveGames' /\ NewOnes'
    <2>1. OneEntryPerFile' /\ HaveGames'
      BY <1>2 DEF OnceInv, SameKeys, OneEntryPerFile, HaveGames
    <2>2. NewOnes'
      <3>1. \A n : Unentered(n) => Unentered(n)'
        BY <1>0 DEF SameKeys, Unentered
      <3> QED
        BY <1>2, <3>1 DEF OnceInv, NewOnes, AddSteps, Increasing
    <2> QED
      BY <2>1, <2>2
  <1> QED
    BY <1>1, <1>2 DEF OnceInv

-----------------------------------------------------------------------------
LEMMA OnceInit == Init => OnceInv
  <1> SUFFICES ASSUME Init PROVE OnceInv
    OBVIOUS
  <1>1. DOMAIN tracks = {} /\ scan.pc = "idle"
    BY IdleFacts DEF Init
  <1> QED
    BY <1>1 DEF OnceInv, Numbered, OneEntryPerFile, HaveGames, NewOnes,
                AddSteps

LEMMA OnceListener ==
    ASSUME LinksInv, OnceInv, PutFile \/ RemoveFile \/ Kill
    PROVE  OnceInv'
  <1>1. count \in [saved : Nat, scans : Nat, edits : Nat, kills : Nat]
    BY DEF LinksInv, Types, TracksOK
  <1>2. tracks' = tracks
    BY DEF PutFile, RemoveFile, Kill, db
  <1>3. SameKeys
    BY <1>2 DEF SameKeys
  <1>4. CASE PutFile \/ RemoveFile
    <2>1. scan' = scan /\ count' = [count EXCEPT !.edits = count.edits + 1]
      BY <1>4 DEF PutFile, RemoveFile
    <2>2. count'.kills = count.kills
      BY <1>1, <2>1
    <2> QED
      BY <1>3, <2>1, <2>2, OnceStays
  <1>5. CASE Kill
    <2>1. scan'.pc = "idle" /\ count' = [count EXCEPT !.kills = count.kills + 1]
      BY <1>5, IdleFacts DEF Kill
    <2>2. count'.kills # 0
      BY <1>1, <2>1
    <2>3. Numbered'
      BY <1>2, <2>1 DEF OnceInv, Numbered, AddSteps
    <2> QED
      BY <2>2, <2>3 DEF OnceInv
  <1> QED
    BY <1>4, <1>5

LEMMA OnceQuiet ==
    ASSUME LinksInv, OnceInv, StartScan \/ WalkEnds \/ UpdateThrows
                              \/ TracksChecked \/ CheckGames \/ CheckArtists
                              \/ ScanCompletes \/ CheckTrack \/ SaveGame
                              \/ SaveArtist
    PROVE  OnceInv'
  <1>1. /\ scan \in Scans
        /\ count \in [saved : Nat, scans : Nat, edits : Nat, kills : Nat]
    BY DEF LinksInv, Types, RestOK, TracksOK
  <1>2. CASE StartScan
    <2> DEFINE first == [Idle EXCEPT !.pc = "walk", !.at = 1]
    <2>1. first.pc = "walk"
      BY IdleFacts DEF Scans, Steps
    <2>2. /\ scan' = scan \/ scan' = first
          /\ scan.pc = "idle"
          /\ tracks' = tracks
          /\ count' = [count EXCEPT !.scans = count.scans + 1]
      BY <1>2 DEF StartScan, db
    <2> HIDE DEF first
    <2>3. count'.kills = count.kills
      BY <1>1, <2>2
    <2>4. SameKeys
      BY <2>2 DEF SameKeys
    <2> QED
      BY <2>1, <2>2, <2>3, <2>4, OnceAway
  <1>3. CASE WalkEnds \/ UpdateThrows \/ TracksChecked \/ ScanCompletes
             \/ CheckGames \/ CheckArtists
    <2>1. tracks' = tracks /\ count' = count
      BY <1>3 DEF WalkEnds, UpdateThrows, TracksChecked, ScanCompletes,
                  CheckGames, CheckArtists, db
    <2>2. SameKeys
      BY <2>1 DEF SameKeys
    <2>3. /\ scan.pc \notin {"game", "link"}
          /\ scan'.pc \in {"idle", "walk", "tracks", "games", "names"}
      <3>1. CASE WalkEnds \/ TracksChecked
        BY <1>1, <3>1 DEF WalkEnds, TracksChecked, Scans
      <3>2. CASE UpdateThrows \/ ScanCompletes
        BY <3>2, IdleFacts DEF UpdateThrows, ScanCompletes
      <3>3. CASE CheckGames
        <4>1. scan' = scan \/ scan' = [scan EXCEPT !.pc = "names"]
          BY <3>3 DEF CheckGames
        <4> QED
          BY <1>1, <3>3, <4>1 DEF CheckGames, Scans
      <3>4. CASE CheckArtists
        BY <1>1, <3>4 DEF CheckArtists, Scans
      <3> QED
        BY <1>3, <3>1, <3>2, <3>3, <3>4
    <2> QED
      BY <2>1, <2>2, <2>3, OnceAway
  <1>4. CASE CheckTrack
    <2>1. PICK n \in scan.left :
            /\ scan' = [scan EXCEPT !.left = scan.left \ {n}]
            /\ tracks' = tracks \/ tracks' = [t \in DOMAIN tracks \ {n} |-> tracks[t]]
      BY <1>4 DEF CheckTrack, Without, db
    <2>2. SameKeys
      BY <2>1 DEF SameKeys
    <2>3. scan.pc = "tracks" /\ count' = count
      BY <1>4 DEF CheckTrack
    <2>4. scan'.pc = "tracks"
      BY <1>1, <2>1, <2>3 DEF Scans
    <2> QED
      BY <2>2, <2>3, <2>4, OnceAway
  <1>5. CASE SaveGame
    <2>1. /\ scan.pc = "game" /\ scan' = [scan EXCEPT !.pc = "link"]
          /\ tracks' = tracks /\ count' = count
      BY <1>5 DEF SaveGame
    <2>2. SameKeys
      BY <2>1 DEF SameKeys
    <2>3. /\ scan'.pc = "link" /\ scan'.id = scan.id /\ scan'.at = scan.at
          /\ scan'.new = scan.new /\ scan'.file = scan.file
          /\ scan'.number = scan.number
      BY <1>1, <2>1 DEF Scans, Steps
    <2> QED
      BY <2>1, <2>2, <2>3, OnceStays
  <1>6. CASE SaveArtist
    <2>1. scan.pc = "artists" /\ tracks' = tracks /\ count' = count
      BY <1>6 DEF SaveArtist
    <2>2. \/ scan' = [scan EXCEPT !.pc = "artist", !.names = Adding.artists]
          \/ scan' = [scan EXCEPT !.names = Tail(scan.names)]
      BY <1>6 DEF SaveArtist
    <2>3. SameKeys
      BY <2>1 DEF SameKeys
    <2>4. /\ scan'.pc \in {"artists", "artist"} /\ scan'.id = scan.id
          /\ scan'.at = scan.at /\ scan'.new = scan.new
          /\ scan'.file = scan.file /\ scan'.number = scan.number
      BY <1>1, <2>1, <2>2 DEF Scans, Steps
    <2> QED
      BY <2>1, <2>3, <2>4, OnceStays
  <1> QED
    BY <1>2, <1>3, <1>4, <1>5, <1>6

LEMMA OnceReadFile ==
    ASSUME LinksInv, OnceInv, ReadFile
    PROVE  OnceInv'
  <1>1. /\ scan \in Scans /\ scan.pc = "walk" /\ tracks' = tracks
        /\ count' = count
    BY DEF LinksInv, Types, RestOK, ReadFile, db
  <1>2. SameKeys
    BY <1>1 DEF SameKeys
  <1>3. CASE scan' = NextFile
    <2>1. scan'.pc = "walk"
      BY <1>3, NextFileFacts DEF LinksInv
    <2> QED
      BY <1>1, <1>2, <2>1, OnceAway
  <1>4. CASE /\ Here \in DOMAIN storage
             /\ scan' = [scan EXCEPT !.pc = "check", !.number = 1,
                                     !.file = storage[Here], !.new = << >>]
    <2>1. /\ scan'.pc = "check" /\ scan'.at = scan.at
          /\ scan'.file = storage[Here] /\ scan'.new = << >>
      BY <1>1, <1>4 DEF Scans
    <2>2. Here' = Here
      BY <2>1 DEF Here
    <2>3. Here \notin MultiTrack => Len(scan'.file) <= 1
      BY <1>4, <2>1, LibraryAssumption DEF LinksInv, Types, StorageOK
    <2>4. Numbered'
      BY <1>1, <2>2, <2>3 DEF OnceInv, Numbered
    <2>5. DOMAIN scan'.new = {}
      BY <2>1
    <2>6. NewOnes'
      BY <2>1, <2>5 DEF NewOnes, Increasing, AddSteps
    <2>7. count.kills = 0 => OneEntryPerFile' /\ HaveGames'
      BY <1>1 DEF OnceInv, OneEntryPerFile, HaveGames
    <2> QED
      BY <1>1, <2>4, <2>6, <2>7 DEF OnceInv
  <1> QED
    BY <1>3, <1>4 DEF ReadFile

\* Where the scan goes when a track is checked.
LEMMA CheckedCases ==
    ASSUME Types, Progress, scan.pc = "check", NEW isNew \in BOOLEAN,
           scan' = Checked(isNew)
    PROVE  \E new \in Seq(Nat) :
             /\ new = IF isNew THEN Append(scan.new, scan.number) ELSE scan.new
             /\ \/ /\ scan.number < Len(scan.file)
                   /\ scan'.pc = "check" /\ scan'.at = scan.at
                   /\ scan'.number = scan.number + 1
                   /\ scan'.file = scan.file /\ scan'.new = new
                \/ /\ ~(scan.number < Len(scan.file))
                   /\ scan'.pc = "save" /\ scan'.at = scan.at
                   /\ scan'.file = scan.file /\ scan'.new = new
                \/ /\ ~(scan.number < Len(scan.file)) /\ new = << >>
                   /\ scan'.pc = "walk" /\ scan'.at = scan.at + 1
  <1> DEFINE new == IF isNew THEN Append(scan.new, scan.number) ELSE scan.new
  <1>1. /\ scan \in Scans /\ scan.new \in Seq(Nat) /\ scan.number \in Nat
        /\ scan.at \in Nat
    BY DEF Types, RestOK, Scans
  <1>2. new \in Seq(Nat)
    BY <1>1
  <1>3. scan' =
          IF scan.number < Len(scan.file)
          THEN [scan EXCEPT !.number = scan.number + 1, !.new = new]
          ELSE IF new = << >> THEN [scan EXCEPT !.pc = "walk", !.at = scan.at + 1]
          ELSE [scan EXCEPT !.pc = "save", !.new = new]
    BY DEF Checked, NextFile
  <1>4. new = IF isNew THEN Append(scan.new, scan.number) ELSE scan.new
    OBVIOUS
  <1> HIDE DEF new
  <1>5. CASE scan.number < Len(scan.file)
    <2>1. scan' = [scan EXCEPT !.number = scan.number + 1, !.new = new]
      BY <1>3, <1>5
    <2>2. /\ scan'.pc = "check" /\ scan'.at = scan.at
          /\ scan'.number = scan.number + 1
          /\ scan'.file = scan.file /\ scan'.new = new
      BY <1>1, <2>1 DEF Scans
    <2> QED
      BY <1>2, <1>4, <1>5, <2>2
  <1>6. CASE ~(scan.number < Len(scan.file)) /\ new # << >>
    <2>1. scan' = [scan EXCEPT !.pc = "save", !.new = new]
      BY <1>3, <1>6
    <2>2. /\ scan'.pc = "save" /\ scan'.at = scan.at
          /\ scan'.file = scan.file /\ scan'.new = new
      BY <1>1, <2>1 DEF Scans
    <2> QED
      BY <1>2, <1>4, <1>6, <2>2
  <1>7. CASE ~(scan.number < Len(scan.file)) /\ new = << >>
    <2>1. scan' = [scan EXCEPT !.pc = "walk", !.at = scan.at + 1]
      BY <1>3, <1>7
    <2>2. scan'.pc = "walk" /\ scan'.at = scan.at + 1
      BY <1>1, <2>1 DEF Scans
    <2> QED
      BY <1>2, <1>4, <1>7, <2>2
  <1> QED
    BY <1>5, <1>6, <1>7

\* The list of the tracks to add stays one without doubles.
LEMMA AppendIncreasing ==
    ASSUME NEW s \in Seq(Nat), NEW n \in Nat, Increasing(s),
           \A i \in DOMAIN s : s[i] < n
    PROVE  /\ Increasing(Append(s, n))
           /\ \A i \in DOMAIN Append(s, n) :
                \/ i \in DOMAIN s /\ Append(s, n)[i] = s[i]
                \/ i \notin DOMAIN s /\ Append(s, n)[i] = n
  <1>1. /\ DOMAIN s = 1..Len(s) /\ Len(s) \in Nat
        /\ DOMAIN Append(s, n) = 1..(Len(s) + 1)
        /\ \A i \in 1..Len(s) : Append(s, n)[i] = s[i]
        /\ Append(s, n)[Len(s) + 1] = n
    OBVIOUS
  <1>2. \A i \in DOMAIN Append(s, n) :
          \/ i \in DOMAIN s /\ Append(s, n)[i] = s[i]
          \/ i = Len(s) + 1 /\ i \notin DOMAIN s /\ Append(s, n)[i] = n
    BY <1>1
  <1>3. ASSUME NEW i \in DOMAIN Append(s, n), NEW j \in DOMAIN Append(s, n),
               i < j
        PROVE  Append(s, n)[i] < Append(s, n)[j]
    <2>1. i \in DOMAIN s /\ Append(s, n)[i] = s[i]
      BY <1>1, <1>3
    <2>2. CASE j \in DOMAIN s
      BY <1>1, <1>3, <2>1, <2>2 DEF Increasing
    <2>3. CASE j \notin DOMAIN s
      BY <1>2, <2>1, <2>3
    <2> QED
      BY <2>2, <2>3
  <1> QED
    BY <1>2, <1>3 DEF Increasing

\* Before and after a check: what NewOnes says of the list.
LEMMA OnceChecked ==
    ASSUME LinksInv, NewOnes, scan.pc = "check", NEW isNew \in BOOLEAN,
           scan' = Checked(isNew),
           \A t \in DOMAIN tracks' : tracks'[t].path = Here =>
             /\ isNew => tracks'[t].number # scan.number
             /\ \A i \in DOMAIN scan.new : tracks'[t].number # scan.new[i]
    PROVE  NewOnes'
  <1>1. PICK new \in Seq(Nat) :
             /\ new = IF isNew THEN Append(scan.new, scan.number) ELSE scan.new
             /\ \/ /\ scan.number < Len(scan.file)
                   /\ scan'.pc = "check" /\ scan'.at = scan.at
                   /\ scan'.number = scan.number + 1
                   /\ scan'.file = scan.file /\ scan'.new = new
                \/ /\ ~(scan.number < Len(scan.file))
                   /\ scan'.pc = "save" /\ scan'.at = scan.at
                   /\ scan'.file = scan.file /\ scan'.new = new
                \/ /\ ~(scan.number < Len(scan.file)) /\ new = << >>
                   /\ scan'.pc = "walk" /\ scan'.at = scan.at + 1
    BY CheckedCases DEF LinksInv
  <1>2. /\ scan.new \in Seq(Nat) /\ scan.number \in Nat
        /\ Increasing(scan.new)
        /\ \A i \in DOMAIN scan.new :
             scan.new[i] \in Nat /\ scan.new[i] < scan.number
    BY DEF LinksInv, Types, RestOK, Scans, NewOnes
  <1>3. /\ Increasing(new)
        /\ \A i \in DOMAIN new : new[i] \in Nat /\ new[i] < scan.number + 1
        /\ \A i \in DOMAIN new :
             \A t \in DOMAIN tracks' : tracks'[t].path = Here =>
               tracks'[t].number # new[i]
    <2>1. CASE isNew
      <3>1. new = Append(scan.new, scan.number)
        BY <1>1, <2>1
      <3>2. /\ Increasing(new)
            /\ \A i \in DOMAIN new :
                 \/ i \in DOMAIN scan.new /\ new[i] = scan.new[i]
                 \/ new[i] = scan.number
        <4>1. PICK s \in Seq(Nat), n \in Nat : s = scan.new /\ n = scan.number
          BY <1>2
        <4>2. Increasing(s) /\ \A i \in DOMAIN s : s[i] < n
          BY <1>2, <4>1
        <4>3. /\ Increasing(Append(s, n))
              /\ \A i \in DOMAIN Append(s, n) :
                   \/ i \in DOMAIN s /\ Append(s, n)[i] = s[i]
                   \/ i \notin DOMAIN s /\ Append(s, n)[i] = n
          BY <4>2, AppendIncreasing, Zenon
        <4> QED
          BY <3>1, <4>1, <4>3
      <3>3. \A i \in DOMAIN new : new[i] \in Nat /\ new[i] < scan.number + 1
        <4>1. SUFFICES ASSUME NEW i \in DOMAIN new
                       PROVE  new[i] \in Nat /\ new[i] < scan.number + 1
          OBVIOUS
        <4>2. \/ new[i] \in Nat /\ new[i] < scan.number
              \/ new[i] = scan.number
          BY <1>2, <3>2
        <4> QED
          BY <1>2, <4>2
      <3> QED
        BY <2>1, <3>2, <3>3
    <2>2. CASE ~isNew
      <3>1. new = scan.new
        BY <1>1, <2>2
      <3>2. \A i \in DOMAIN new : new[i] \in Nat /\ new[i] < scan.number + 1
        BY <1>2, <3>1
      <3> QED
        BY <1>2, <3>1, <3>2
    <2> QED
      BY <2>1, <2>2
  <1>4. CASE scan'.pc = "walk"
    BY <1>4 DEF NewOnes, AddSteps
  <1>5. CASE scan'.pc = "save" /\ scan'.at = scan.at /\ scan'.new = new
    <2>1. Here' = Here
      BY <1>5 DEF Here
    <2> QED
      BY <1>3, <1>5, <2>1 DEF NewOnes, Unentered
  <1>6. CASE /\ scan'.pc = "check" /\ scan'.at = scan.at /\ scan'.new = new
             /\ scan'.number = scan.number + 1
    <2>1. Here' = Here
      BY <1>6 DEF Here
    <2> QED
      BY <1>3, <1>6, <2>1 DEF NewOnes, Unentered
  <1> QED
    BY <1>1, <1>4, <1>5, <1>6

LEMMA NumberedChecked ==
    ASSUME LinksInv, OnceInv, scan.pc = "check", NEW isNew \in BOOLEAN,
           scan' = Checked(isNew),
           \A t \in DOMAIN tracks' :
             tracks'[t].path \notin MultiTrack => tracks'[t].number = 1
    PROVE  Numbered'
  <1>1. \/ scan'.pc = "walk"
        \/ scan'.at = scan.at /\ scan'.file = scan.file
    BY CheckedCases DEF LinksInv
  <1>2. CASE scan'.pc = "walk"
    BY <1>2 DEF Numbered, AddSteps
  <1>3. CASE scan'.at = scan.at /\ scan'.file = scan.file
    <2>1. Here' = Here
      BY <1>3 DEF Here
    <2> QED
      BY <1>3, <2>1 DEF OnceInv, Numbered
  <1> QED
    BY <1>1, <1>2, <1>3

\* A file of one track is checked for its track number 1.
LEMMA CheckFacts ==
    ASSUME LinksInv, OnceInv, scan.pc = "check"
    PROVE  /\ scan.number \in Nat /\ scan.number >= 1
           /\ Here \notin MultiTrack => scan.number = 1
           /\ Here \in Paths /\ Tag \in Tags /\ Tag.game # None
           /\ \A t \in DOMAIN tracks : tracks[t] \in TrackObjects
           /\ AtPath = {t \in DOMAIN tracks : /\ tracks[t].path = Here
                                              /\ tracks[t].number = scan.number}
  <1>1. /\ scan \in Scans /\ AtFile /\ scan.number \in DOMAIN scan.file
        /\ scan.file \in Seq(Tags)
        /\ \A t \in DOMAIN tracks : tracks[t] \in TrackObjects
    BY DEF LinksInv, Types, RestOK, TracksOK, Scans, Progress
  <1>2. scan.number \in Nat /\ scan.number >= 1 /\ scan.number <= Len(scan.file)
        /\ Len(scan.file) \in Nat
    BY <1>1
  <1>3. Here \notin MultiTrack => scan.number = 1
    <2>1. Here \notin MultiTrack => Len(scan.file) <= 1
      BY DEF OnceInv, Numbered
    <2> QED
      BY <1>2, <2>1
  <1>4. Here \in Paths
    BY <1>1 DEF AtFile, Here, Paths, Range
  <1>5. Tag \in Tags /\ Tag.game # None
    BY <1>1, TagFacts DEF Tag
  <1>6. \A t \in DOMAIN tracks : tracks[t].path = Here /\ Here \notin MultiTrack
          => tracks[t].number = scan.number
    BY <1>3 DEF OnceInv, Numbered
  <1> QED
    BY <1>1, <1>2, <1>3, <1>4, <1>5, <1>6 DEF AtPath

LEMMA OnceNoCandidate ==
    ASSUME LinksInv, OnceInv, NoCandidate
    PROVE  OnceInv'
  <1>1. /\ scan.pc = "check" /\ AtPath = {} /\ scan' = Checked(TRUE)
        /\ tracks' = tracks /\ count' = count
    BY DEF NoCandidate, Candidates, db
  <1>2. Numbered'
    <2>1. \A t \in DOMAIN tracks' :
            tracks'[t].path \notin MultiTrack => tracks'[t].number = 1
      BY <1>1 DEF OnceInv, Numbered
    <2> QED
      BY <1>1, <2>1, NumberedChecked
  <1>3. ASSUME count.kills = 0
        PROVE  OneEntryPerFile' /\ HaveGames' /\ NewOnes'
    <2>1. OneEntryPerFile /\ HaveGames /\ NewOnes
      BY <1>3 DEF OnceInv
    <2>2. OneEntryPerFile' /\ HaveGames'
      BY <1>1, <2>1 DEF OneEntryPerFile, HaveGames
    <2>3. \A t \in DOMAIN tracks : tracks[t].path = Here =>
            /\ tracks[t].number # scan.number
            /\ \A i \in DOMAIN scan.new : tracks[t].number # scan.new[i]
      BY <1>1, <2>1, CheckFacts DEF NewOnes, Unentered
    <2>4. NewOnes'
      BY <1>1, <2>1, <2>3, OnceChecked
    <2> QED
      BY <2>2, <2>4
  <1> QED
    BY <1>1, <1>2, <1>3 DEF OnceInv

\* What updateTrack leaves of the entries.
LEMMA UpdateFacts ==
    ASSUME LinksInv, OnceInv, UpdateTrack
    PROVE  \E n \in Candidates :
             /\ n \in DOMAIN tracks /\ DOMAIN tracks' = DOMAIN tracks
             /\ \A t \in DOMAIN tracks : t # n => tracks'[t] = tracks[t]
             /\ tracks'[n].path = Here /\ tracks'[n].number = scan.number
             /\ tracks'[n].title = Tag.title
             /\ tracks'[n].gameTitle = tracks[n].gameTitle
             /\ tracks'[n].game = IF Regamed(n) THEN Tag.game
                                  ELSE tracks[n].game
             /\ scan' = Checked(tracks'[n].game = None)
             /\ scan.pc = "check"
             /\ UNCHANGED <<storage, realm, rests, count>>
  <1>1. PICK n \in Candidates :
          /\ tracks' = [tracks EXCEPT ![n] = Updated(n)]
          /\ scan' = Checked(tracks'[n].game = None)
    BY DEF UpdateTrack
  <1>2. scan.pc = "check" /\ UNCHANGED <<storage, realm, rests, count>>
    BY DEF UpdateTrack
  <1>3. n \in DOMAIN tracks
    BY DEF Candidates, AtPath, SameTag
  <1>4. tracks[n] \in TrackObjects
    BY <1>2, <1>3, CheckFacts
  <1>5. /\ Updated(n).path = Here /\ Updated(n).number = scan.number
        /\ Updated(n).title = Tag.title
        /\ Updated(n).gameTitle = tracks[n].gameTitle
        /\ Updated(n).game = IF Regamed(n) THEN Tag.game ELSE tracks[n].game
    BY <1>4 DEF Updated, TrackObjects
  <1>6. /\ DOMAIN tracks' = DOMAIN tracks /\ tracks'[n] = Updated(n)
        /\ \A t \in DOMAIN tracks : t # n => tracks'[t] = tracks[t]
    BY <1>1, <1>3 DEF LinksInv, Types, TracksOK
  <1> HIDE DEF Candidates
  <1> QED
    BY <1>1, <1>2, <1>3, <1>5, <1>6

LEMMA OnceUpdateTrack ==
    ASSUME LinksInv, OnceInv, UpdateTrack
    PROVE  OnceInv'
  <1>1. PICK n \in Candidates :
             /\ n \in DOMAIN tracks /\ DOMAIN tracks' = DOMAIN tracks
             /\ \A t \in DOMAIN tracks : t # n => tracks'[t] = tracks[t]
             /\ tracks'[n].path = Here /\ tracks'[n].number = scan.number
             /\ tracks'[n].title = Tag.title
             /\ tracks'[n].gameTitle = tracks[n].gameTitle
             /\ tracks'[n].game = IF Regamed(n) THEN Tag.game
                                  ELSE tracks[n].game
             /\ scan' = Checked(tracks'[n].game = None)
             /\ scan.pc = "check"
             /\ UNCHANGED <<storage, realm, rests, count>>
    BY UpdateFacts
  <1>2. /\ Here \notin MultiTrack => scan.number = 1
        /\ Tag.game # None /\ scan.number \in Nat
        /\ AtPath = {t \in DOMAIN tracks : /\ tracks[t].path = Here
                                           /\ tracks[t].number = scan.number}
    BY <1>1, CheckFacts
  <1>3. (tracks'[n].game = None) \in BOOLEAN
    OBVIOUS
  <1>4. Numbered'
    <2>1. \A t \in DOMAIN tracks' :
            tracks'[t].path \notin MultiTrack => tracks'[t].number = 1
      BY <1>1, <1>2 DEF OnceInv, Numbered
    <2> QED
      BY <1>1, <1>3, <2>1, NumberedChecked
  <1>5. ASSUME count.kills = 0
        PROVE  OneEntryPerFile' /\ HaveGames' /\ NewOnes'
    <2>1. OneEntryPerFile /\ HaveGames /\ NewOnes
      BY <1>5 DEF OnceInv
    <2>2. \A t \in DOMAIN tracks : tracks[t].game # None
      BY <1>1, <2>1 DEF HaveGames
    <2>3. tracks'[n].game # None
      BY <1>1, <1>2, <2>2
    <2>4. HaveGames'
      BY <1>1, <2>2, <2>3 DEF HaveGames
    <2>5. \A t \in DOMAIN tracks : t # n =>
            ~(tracks[t].path = Here /\ tracks[t].number = scan.number)
      <3>1. CASE AtPath # {}
        BY <1>2, <2>1, <3>1 DEF Candidates, OneEntryPerFile
      <3>2. CASE AtPath = {}
        BY <1>2, <3>2
      <3> QED
        BY <3>1, <3>2
    <2>6. OneEntryPerFile'
      BY <1>1, <2>1, <2>5 DEF OneEntryPerFile
    <2>7. \A t \in DOMAIN tracks' : tracks'[t].path = Here =>
            \A i \in DOMAIN scan.new : tracks'[t].number # scan.new[i]
      <3>1. \A i \in DOMAIN scan.new : scan.new[i] # scan.number
        <4>1. \A i \in DOMAIN scan.new :
                scan.new[i] \in Nat /\ scan.new[i] < scan.number
          BY <1>1, <2>1 DEF LinksInv, Types, RestOK, Scans, NewOnes
        <4> QED
          BY <1>2, <4>1
      <3> QED
        BY <1>1, <2>1, <3>1 DEF NewOnes, Unentered
    <2>8. NewOnes'
      <3> DEFINE isNew == tracks'[n].game = None
      <3>1. isNew \in BOOLEAN /\ ~isNew
        BY <2>3
      <3>2. scan' = Checked(isNew)
        BY <1>1
      <3> HIDE DEF isNew
      <3> QED
        BY <1>1, <2>1, <2>7, <3>1, <3>2, OnceChecked
    <2> QED
      BY <2>4, <2>6, <2>8
  <1> QED
    BY <1>1, <1>4, <1>5 DEF OnceInv

-----------------------------------------------------------------------------
\* The track that is saved is the first of the list.
LEMMA NewFacts ==
    ASSUME LinksInv, scan.pc \in AddSteps
    PROVE  /\ scan.new \in Seq(Nat) /\ 1 \in DOMAIN scan.new
           /\ Head(scan.new) = scan.new[1]
           /\ \A i \in DOMAIN scan.new : scan.new[i] \in DOMAIN scan.file
           /\ \A i \in DOMAIN scan.new : scan.new[i] \in Nat
           /\ scan.file \in Seq(Tags) /\ Here \in Paths
  <1>1. scan.new \in Seq(Nat) /\ scan.file \in Seq(Tags)
    BY DEF LinksInv, Types, RestOK, Scans
  <1>2. AtFile /\ scan.new # << >>
    BY DEF LinksInv, Progress, AddSteps
  <1>3. 1 \in DOMAIN scan.new /\ Head(scan.new) = scan.new[1]
    BY <1>1, <1>2, EmptySeq
  <1>4. Here \in Paths
    BY <1>2 DEF AtFile, Here, Paths, Range
  <1> QED
    BY <1>1, <1>2, <1>3, <1>4 DEF AtFile

LEMMA OnceSaveTrack ==
    ASSUME LinksInv, OnceInv, SaveTrack
    PROVE  OnceInv'
  <1> DEFINE n == count.saved + 1
  <1> DEFINE r == [path |-> Here, number |-> Head(scan.new),
                   title |-> Adding.title, gameTitle |-> Adding.game,
                   artistText |-> Adding.artists, game |-> None,
                   artists |-> {}]
  <1>1. /\ scan \in Scans /\ scan.pc = "save"
        /\ count \in [saved : Nat, scans : Nat, edits : Nat, kills : Nat]
        /\ DOMAIN tracks \subseteq 1..count.saved
    BY DEF LinksInv, Types, RestOK, TracksOK, SaveTrack
  <1>2. n \in Nat /\ n \notin DOMAIN tracks
    BY <1>1
  <1>3. /\ tracks' = [t \in DOMAIN tracks \cup {n} |-> IF t = n THEN r ELSE tracks[t]]
        /\ scan' = [scan EXCEPT !.pc = "game", !.id = n]
        /\ count' = [count EXCEPT !.saved = n]
    BY DEF SaveTrack, With
  <1>4. r.path = Here /\ r.number = Head(scan.new) /\ r.game = None
    OBVIOUS
  <1> HIDE DEF n, r
  <1>5. /\ DOMAIN tracks' = DOMAIN tracks \cup {n}
        /\ tracks'[n] = r
        /\ \A t \in DOMAIN tracks : tracks'[t] = tracks[t]
    BY <1>2, <1>3
  <1>6. count'.kills = count.kills
    BY <1>1, <1>3
  <1>7. /\ scan'.pc = "game" /\ scan'.id = n /\ scan'.at = scan.at
        /\ scan'.new = scan.new /\ scan'.file = scan.file
    BY <1>1, <1>3 DEF Scans
  <1>8. Here' = Here
    BY <1>7 DEF Here
  <1>9. /\ scan.new \in Seq(Nat) /\ 1 \in DOMAIN scan.new
        /\ Head(scan.new) = scan.new[1]
        /\ \A i \in DOMAIN scan.new : scan.new[i] \in DOMAIN scan.file
        /\ \A i \in DOMAIN scan.new : scan.new[i] \in Nat
        /\ scan.file \in Seq(Tags)
    BY <1>1, NewFacts DEF AddSteps
  <1>10. Numbered'
    <2>1. Here \notin MultiTrack => Len(scan.file) <= 1
      BY <1>1 DEF OnceInv, Numbered, AddSteps
    <2>2. Head(scan.new) \in 1..Len(scan.file) /\ Len(scan.file) \in Nat
      BY <1>9
    <2>3. Here \notin MultiTrack => Head(scan.new) = 1
      BY <2>1, <2>2
    <2> QED
      BY <1>4, <1>5, <1>7, <1>8, <2>1, <2>3 DEF OnceInv, Numbered
  <1>11. ASSUME count.kills = 0
         PROVE  OneEntryPerFile' /\ HaveGames' /\ NewOnes'
    <2>1. OneEntryPerFile /\ HaveGames /\ NewOnes
      BY <1>11 DEF OnceInv
    <2>2. \A i \in DOMAIN scan.new : Unentered(scan.new[i])
      BY <1>1, <2>1 DEF NewOnes
    <2>3. OneEntryPerFile'
      BY <1>4, <1>5, <1>9, <2>1, <2>2 DEF OneEntryPerFile, Unentered
    <2>4. HaveGames'
      BY <1>1, <1>5, <1>7, <2>1 DEF HaveGames
    <2>5. Increasing(scan.new)
      BY <1>1, <2>1 DEF NewOnes, AddSteps
    <2>6. \A i \in DOMAIN scan.new : i # 1 => scan.new[i] # Head(scan.new)
      <3>1. \A i \in DOMAIN scan.new : i # 1 => 1 < i
        BY <1>9
      <3>2. \A i \in DOMAIN scan.new : i # 1 => scan.new[1] < scan.new[i]
        BY <1>9, <2>5, <3>1 DEF Increasing
      <3> QED
        BY <1>9, <3>2
    <2>7. \A i \in DOMAIN scan.new : i # 1 => Unentered(scan.new[i])'
      BY <1>4, <1>5, <1>7, <1>8, <2>2, <2>6 DEF Unentered
    <2> QED
      BY <1>7, <2>3, <2>4, <2>5, <2>7 DEF NewOnes
  <1> QED
    BY <1>6, <1>10, <1>11 DEF OnceInv

LEMMA OnceLinkGame ==
    ASSUME LinksInv, OnceInv, LinkGame
    PROVE  OnceInv'
  <1> DEFINE n == scan.id
  <1> DEFINE g0 == Adding.game
  <1>1. /\ scan \in Scans /\ scan.pc = "link"
        /\ n \in DOMAIN tracks
        /\ \A t \in DOMAIN tracks : tracks[t] \in TrackObjects
    BY DEF LinksInv, Types, RestOK, TracksOK, LinkGame, Progress
  <1>2. g0 # None
    BY <1>1, AddingFacts DEF LinksInv
  <1>3. /\ tracks' = [tracks EXCEPT ![n].game = g0]
        /\ scan' = [scan EXCEPT !.pc = "artists", !.names = Adding.artists]
        /\ count' = count
    BY DEF LinkGame
  <1>4. /\ scan'.pc = "artists" /\ scan'.id = n
        /\ scan'.at = scan.at /\ scan'.new = scan.new /\ scan'.file = scan.file
    BY <1>1, <1>3 DEF Scans
  <1> HIDE DEF n, g0
  <1>5. /\ DOMAIN tracks' = DOMAIN tracks
        /\ tracks'[n] = [tracks[n] EXCEPT !.game = g0]
        /\ \A t \in DOMAIN tracks : t # n => tracks'[t] = tracks[t]
    BY <1>1, <1>3 DEF LinksInv, Types, TracksOK
  <1>6. tracks'[n].game = g0 /\ tracks'[n].path = tracks[n].path
        /\ tracks'[n].number = tracks[n].number
    BY <1>1, <1>5 DEF TrackObjects
  <1>7. Here' = Here
    BY <1>4 DEF Here
  <1>8. \A t \in DOMAIN tracks : tracks'[t].path = tracks[t].path
                                 /\ tracks'[t].number = tracks[t].number
    BY <1>5, <1>6
  <1>9. Numbered'
    BY <1>1, <1>4, <1>5, <1>7, <1>8 DEF OnceInv, Numbered, AddSteps
  <1>10. ASSUME count.kills = 0
         PROVE  OneEntryPerFile' /\ HaveGames' /\ NewOnes'
    <2>1. OneEntryPerFile /\ HaveGames /\ NewOnes
      BY <1>10 DEF OnceInv
    <2>2. OneEntryPerFile'
      BY <1>5, <1>8, <2>1 DEF OneEntryPerFile
    <2>3. HaveGames'
      BY <1>2, <1>5, <1>6, <2>1 DEF HaveGames, n
    <2>4. \A i : Unentered(i) => Unentered(i)'
      BY <1>5, <1>7, <1>8 DEF Unentered
    <2>5. NewOnes'
      BY <1>1, <1>4, <2>1, <2>4 DEF NewOnes, AddSteps, Increasing
    <2> QED
      BY <2>2, <2>3, <2>5
  <1> QED
    BY <1>3, <1>9, <1>10 DEF OnceInv

LEMMA OnceLinkArtist ==
    ASSUME LinksInv, OnceInv, LinkArtist
    PROVE  OnceInv'
  <1> DEFINE n == scan.id
  <1> DEFINE a0 == Head(scan.names)
  <1>1. /\ scan \in Scans /\ scan.pc = "artist"
        /\ n \in DOMAIN tracks
        /\ \A t \in DOMAIN tracks : tracks[t] \in TrackObjects
    BY DEF LinksInv, Types, RestOK, TracksOK, LinkArtist, Progress
  <1>2. /\ tracks' = [tracks EXCEPT ![n].artists = tracks[n].artists \cup {a0}]
        /\ scan' = [scan EXCEPT !.names = Tail(scan.names)]
        /\ count' = count
    BY DEF LinkArtist
  <1>3. /\ scan'.pc = scan.pc /\ scan'.id = n /\ scan'.number = scan.number
        /\ scan'.at = scan.at /\ scan'.new = scan.new /\ scan'.file = scan.file
    BY <1>1, <1>2 DEF Scans
  <1> HIDE DEF n, a0
  <1>4. /\ DOMAIN tracks' = DOMAIN tracks
        /\ tracks'[n] = [tracks[n] EXCEPT !.artists = tracks[n].artists \cup {a0}]
        /\ \A t \in DOMAIN tracks : t # n => tracks'[t] = tracks[t]
    BY <1>1, <1>2 DEF LinksInv, Types, TracksOK
  <1>5. tracks'[n].game = tracks[n].game /\ tracks'[n].path = tracks[n].path
        /\ tracks'[n].number = tracks[n].number
    BY <1>1, <1>4 DEF TrackObjects
  <1>6. SameKeys
    BY <1>4, <1>5 DEF SameKeys
  <1> QED
    BY <1>2, <1>3, <1>6, OnceStays DEF n

LEMMA TailFacts ==
    ASSUME NEW s \in Seq(Nat), Len(s) > 1
    PROVE  /\ Tail(s) \in Seq(Nat)
           /\ \A i \in DOMAIN Tail(s) :
                i + 1 \in DOMAIN s /\ i + 1 # 1 /\ Tail(s)[i] = s[i + 1]
           /\ \A i \in DOMAIN s : i # 1 =>
                i - 1 \in DOMAIN Tail(s) /\ Tail(s)[i - 1] = s[i]
  <1>1. s # << >>
    OBVIOUS
  <1>2. /\ Tail(s) \in Seq(Nat) /\ Len(Tail(s)) = Len(s) - 1
        /\ \A i \in 1..Len(Tail(s)) : Tail(s)[i] = s[i + 1]
    BY <1>1, HeadTailProperties
  <1>3. /\ DOMAIN s = 1..Len(s) /\ DOMAIN Tail(s) = 1..Len(Tail(s))
        /\ Len(s) \in Nat
    BY <1>2
  <1>4. \A i \in DOMAIN Tail(s) : i + 1 \in DOMAIN s /\ i + 1 # 1
    BY <1>2, <1>3
  <1>5. ASSUME NEW i \in DOMAIN s, i # 1
        PROVE  i - 1 \in DOMAIN Tail(s) /\ Tail(s)[i - 1] = s[i]
    <2>1. i - 1 \in 1..Len(Tail(s)) /\ (i - 1) + 1 = i
      BY <1>2, <1>3, <1>5
    <2> QED
      BY <1>2, <1>3, <2>1
  <1> QED
    BY <1>2, <1>3, <1>4, <1>5

LEMMA OnceAddReturns ==
    ASSUME LinksInv, OnceInv, AddReturns
    PROVE  OnceInv'
  <1>1. /\ scan \in Scans /\ scan.pc = "artist" /\ tracks' = tracks
        /\ count' = count
    BY DEF LinksInv, Types, RestOK, AddReturns, db
  <1>2. SameKeys
    BY <1>1 DEF SameKeys
  <1>3. CASE ~(Len(scan.new) > 1)
    <2>1. scan'.pc = "walk"
      BY <1>3, NextFileFacts DEF AddReturns, LinksInv
    <2> QED
      BY <1>1, <1>2, <2>1, OnceAway
  <1>4. CASE Len(scan.new) > 1
    <2>1. scan' = [scan EXCEPT !.pc = "save", !.new = Tail(scan.new)]
      BY <1>4 DEF AddReturns
    <2>2. /\ scan'.pc = "save" /\ scan'.at = scan.at /\ scan'.id = scan.id
          /\ scan'.new = Tail(scan.new) /\ scan'.file = scan.file
      BY <1>1, <2>1 DEF Scans
    <2>3. Here' = Here
      BY <2>2 DEF Here
    <2>4. Numbered'
      BY <1>1, <2>2, <2>3 DEF OnceInv, Numbered, AddSteps
    <2>5. ASSUME count.kills = 0
          PROVE  OneEntryPerFile' /\ HaveGames' /\ NewOnes'
      <3>1. OneEntryPerFile' /\ HaveGames'
        BY <1>1, <2>5 DEF OnceInv, OneEntryPerFile, HaveGames
      <3>2. scan.new \in Seq(Nat)
        BY <1>1, NewFacts DEF AddSteps
      <3>3. \A i \in DOMAIN Tail(scan.new) :
              /\ i + 1 \in DOMAIN scan.new /\ i + 1 # 1
              /\ Tail(scan.new)[i] = scan.new[i + 1]
        BY <1>4, <3>2, TailFacts
      <3>4. Increasing(Tail(scan.new))
        <4>1. Increasing(scan.new)
          BY <1>1, <2>5 DEF OnceInv, NewOnes, AddSteps
        <4>2. \A i, j \in DOMAIN Tail(scan.new) : i < j => i + 1 < j + 1
          <5>1. Tail(scan.new) \in Seq(Nat)
            BY <1>4, <3>2, TailFacts
          <5> QED
            BY <5>1
        <4> QED
          BY <3>3, <4>1, <4>2 DEF Increasing
      <3>5. \A i \in DOMAIN scan.new : i # 1 => Unentered(scan.new[i])
        BY <1>1, <2>5 DEF OnceInv, NewOnes
      <3>6. \A i \in DOMAIN Tail(scan.new) :
              \A t \in DOMAIN tracks : tracks[t].path = Here =>
                tracks[t].number # Tail(scan.new)[i]
        BY <3>3, <3>5 DEF Unentered
      <3>7. NewOnes'
        BY <1>1, <2>2, <2>3, <3>4, <3>6 DEF NewOnes, Unentered
      <3> QED
        BY <3>1, <3>7
    <2> QED
      BY <1>1, <2>4, <2>5 DEF OnceInv
  <1> QED
    BY <1>3, <1>4

LEMMA OnceStep == LinksInv /\ OnceInv /\ [Next]_vars => OnceInv'
  <1> SUFFICES ASSUME LinksInv, OnceInv, [Next]_vars PROVE OnceInv'
    OBVIOUS
  <1>1. CASE UNCHANGED vars
    <2>1. scan' = scan /\ tracks' = tracks /\ count' = count
      BY <1>1 DEF vars
    <2>2. SameKeys
      BY <2>1 DEF SameKeys
    <2> QED
      BY <2>1, <2>2, OnceStays
  <1>2. CASE Next
    BY <1>2, OnceListener, OnceQuiet, OnceReadFile, OnceNoCandidate,
       OnceUpdateTrack, OnceSaveTrack, OnceLinkGame, OnceLinkArtist,
       OnceAddReturns DEF Next
  <1> QED
    BY <1>1, <1>2

LEMMA OnceInvHolds == Spec => []OnceInv
  BY OnceInit, OnceStep, LinksInvHolds, PTL DEF Spec

(***************************************************************************)
(* As long as no scan is killed, no track of a file gets two entries,      *)
(* whatever the listener does to the files before, between and in the      *)
(* middle of scans (checkForExistingTrack, OneEntryUnlessKilled).          *)
(***************************************************************************)
THEOREM ScanEntersOnce == Spec => []OneEntryUnlessKilled
  <1>1. OnceInv => OneEntryUnlessKilled
    BY DEF OnceInv, OneEntryUnlessKilled
  <1> QED
    BY <1>1, OnceInvHolds, PTL

-----------------------------------------------------------------------------
(***************************************************************************)
(* A whole scan leaves the library complete.  What a scan is done with has *)
(* an entry or is still to be added; entries of it that are moved, to      *)
(* another place the scan is done with, keep their title and game.  A scan *)
(* of a storage that does not rest, is killed or throws promises nothing   *)
(* (rests is 0), and the next one starts from whatever it left.            *)
(***************************************************************************)
\* The scan has been at the track n of the file p.
Done(p, n) ==
    \/ scan.pc \in {"idle", "tracks", "games", "names"}
    \/ \E k \in 1..(scan.at - 1) : Walk[k] = p
    \/ scan.pc = "check" /\ p = Here /\ n < scan.number
    \/ scan.pc \in AddSteps /\ p = Here

\* It is still to be added, or to be linked to its game.
Pending(p, n) ==
    /\ scan.pc \in {"check"} \cup AddSteps /\ p = Here
    /\ \E i \in DOMAIN scan.new :
         scan.new[i] = n /\ (scan.pc \in {"artists", "artist"} => i # 1)

\* Its entry, also when that has moved to another game.
Serves(t, p, n) ==
    /\ tracks[t].title = storage[p][n].title
    /\ \/ tracks[t].game = storage[p][n].game
       \/ tracks[t].game \notin {None, tracks[t].gameTitle}
    /\ Done(tracks[t].path, tracks[t].number)
    /\ tracks[t].path \in DOMAIN storage

Scanned ==
    \A p \in DOMAIN storage : \A n \in DOMAIN storage[p] :
      Done(p, n) => Pending(p, n) \/ \E t \in DOMAIN tracks : Serves(t, p, n)

\* The track that is being added is the first of the list.
Fresh ==
    scan.pc \in {"game", "link"} =>
      /\ tracks[scan.id].path = Here
      /\ tracks[scan.id].number = Head(scan.new)
      /\ tracks[scan.id].title = Adding.title

FileAtRest ==
    scan.pc \in {"check"} \cup AddSteps =>
      Here \in DOMAIN storage /\ scan.file = storage[Here]

\* How far checkForDeletion is.
Swept ==
    /\ scan.pc = "tracks" =>
         \A t \in DOMAIN tracks \ scan.left : tracks[t].path \in DOMAIN storage
    /\ scan.pc \in {"games", "names", "idle"} =>
         \A t \in DOMAIN tracks : tracks[t].path \in DOMAIN storage
    /\ scan.pc \in {"names", "idle"} => {} \notin Range(games)
    /\ scan.pc = "idle" => {} \notin Range(artists)

CompleteInv ==
    /\ Fresh
    /\ rests > 0 => FileAtRest /\ Scanned /\ Swept

\* Entries with a file stay as they are.
SameEntries ==
    \A t \in DOMAIN tracks : tracks[t].path \in DOMAIN storage =>
      /\ t \in DOMAIN tracks'
      /\ tracks'[t].path = tracks[t].path
      /\ tracks'[t].number = tracks[t].number
      /\ tracks'[t].title = tracks[t].title
      /\ tracks'[t].game = tracks[t].game
      /\ tracks'[t].gameTitle = tracks[t].gameTitle
      /\ tracks'[t].artistText = tracks[t].artistText

\* The scan is done with what it was done with.
SameDone ==
    /\ \A p, n : Done(p, n) => Done(p, n)'
    /\ \A p \in DOMAIN storage : \A n \in DOMAIN storage[p] :
         /\ Done(p, n)' => Done(p, n)
         /\ Pending(p, n) => Pending(p, n)'

LEMMA ScannedStays ==
    ASSUME Scanned, storage' = storage, SameEntries, SameDone
    PROVE  Scanned'
  <1> SUFFICES ASSUME NEW p \in DOMAIN storage, NEW n \in DOMAIN storage[p],
                      Done(p, n)', ~Pending(p, n)'
               PROVE  \E t \in DOMAIN tracks' : Serves(t, p, n)'
    BY DEF Scanned
  <1>1. PICK t \in DOMAIN tracks : Serves(t, p, n)
    BY DEF Scanned, SameDone
  <1>2. /\ t \in DOMAIN tracks'
        /\ tracks'[t].path = tracks[t].path
        /\ tracks'[t].number = tracks[t].number
        /\ tracks'[t].title = tracks[t].title
        /\ tracks'[t].game = tracks[t].game
        /\ tracks'[t].gameTitle = tracks[t].gameTitle
    BY <1>1 DEF Serves, SameEntries
  <1>3. Done(tracks[t].path, tracks[t].number)
    BY <1>1 DEF Serves
  <1>4. Done(tracks[t].path, tracks[t].number)'
    BY <1>2, <1>3 DEF SameDone, Done
  <1> QED
    BY <1>1, <1>2, <1>4 DEF Serves

\* The steps within addTrack after which as much is done as before.
LEMMA AddingSameDone ==
    ASSUME scan.pc \in AddSteps, scan'.pc \in AddSteps,
           scan'.at = scan.at, scan'.new = scan.new,
           scan'.pc \in {"artists", "artist"} => scan.pc \in {"artists", "artist"}
    PROVE  SameDone
  <1>1. Here' = Here
    BY DEF Here
  <1>2. \A p, n : Done(p, n)' <=> Done(p, n)
    BY <1>1 DEF Done, AddSteps
  <1>3. \A p, n : Pending(p, n) => Pending(p, n)'
    BY <1>1 DEF Pending
  <1> QED
    BY <1>2, <1>3 DEF SameDone

LEMMA FileAtRestStays ==
    ASSUME FileAtRest, storage' = storage,
           scan.pc \in {"check"} \cup AddSteps,
           scan'.at = scan.at, scan'.file = scan.file
    PROVE  FileAtRest'
  <1>1. Here' = Here
    BY DEF Here
  <1> QED
    BY <1>1 DEF FileAtRest

-----------------------------------------------------------------------------
LEMMA CompleteInit == Init => CompleteInv
  <1> SUFFICES ASSUME Init PROVE CompleteInv
    OBVIOUS
  <1>1. rests = 0 /\ scan.pc = "idle"
    BY IdleFacts DEF Init
  <1> QED
    BY <1>1 DEF CompleteInv, Fresh

LEMMA CompleteListener ==
    ASSUME LinksInv, CompleteInv,
           PutFile \/ RemoveFile \/ Kill \/ UpdateThrows
    PROVE  CompleteInv'
  <1>1. rests' = 0 /\ tracks' = tracks
    BY DEF PutFile, RemoveFile, Kill, UpdateThrows, db
  <1>2. scan' = scan \/ scan'.pc = "idle"
    BY IdleFacts DEF PutFile, RemoveFile, Kill, UpdateThrows
  <1>3. Fresh'
    <2>1. CASE scan' = scan
      <3>1. Here' = Here /\ Adding' = Adding
        BY <2>1 DEF Here, Adding
      <3> QED
        BY <1>1, <2>1, <3>1 DEF CompleteInv, Fresh
    <2>2. CASE scan'.pc = "idle"
      BY <2>2 DEF Fresh
    <2> QED
      BY <1>2, <2>1, <2>2
  <1> QED
    BY <1>1, <1>3 DEF CompleteInv

LEMMA CompleteStartScan ==
    ASSUME LinksInv, CompleteInv, StartScan
    PROVE  CompleteInv'
  <1>1. UNCHANGED <<storage, db>> /\ scan.pc = "idle"
    BY DEF StartScan
  <1>2. CASE realm = "stale"
    <2>1. scan' = scan /\ rests' = rests
      BY <1>2 DEF StartScan
    <2>2. Here' = Here /\ Adding' = Adding
      BY <2>1 DEF Here, Adding
    <2>3. Fresh'
      BY <1>1, <2>1 DEF Fresh
    <2>4. SameEntries
      BY <1>1 DEF SameEntries, db
    <2>5. \A p, n : Done(p, n)' <=> Done(p, n)
      BY <2>1, <2>2 DEF Done
    <2>6. \A p, n : Pending(p, n) => Pending(p, n)'
      BY <2>1, <2>2 DEF Pending
    <2>7. Scanned => Scanned'
      BY <1>1, <2>4, <2>5, <2>6, ScannedStays DEF SameDone
    <2>8. /\ FileAtRest => FileAtRest'
          /\ Swept => Swept'
      BY <1>1, <2>1, <2>2 DEF FileAtRest, Swept, db
    <2> QED
      BY <2>1, <2>3, <2>7, <2>8 DEF CompleteInv
  <1>3. CASE realm # "stale"
    <2> DEFINE first == [Idle EXCEPT !.pc = "walk", !.at = 1]
    <2>1. first.pc = "walk" /\ first.at = 1
      BY IdleFacts DEF Scans, Steps
    <2>2. scan' = first
      BY <1>3 DEF StartScan
    <2> HIDE DEF first
    <2>3. scan'.pc = "walk" /\ scan'.at = 1
      BY <2>1, <2>2
    <2>4. \A p, n : ~Done(p, n)'
      <3>1. 1..(1 - 1) = {}
        OBVIOUS
      <3> QED
        BY <2>3, <3>1 DEF Done, AddSteps
    <2>5. Scanned'
      BY <2>4 DEF Scanned
    <2>6. Fresh' /\ FileAtRest' /\ Swept'
      BY <2>3 DEF Fresh, FileAtRest, Swept, AddSteps
    <2> QED
      BY <2>5, <2>6 DEF CompleteInv
  <1> QED
    BY <1>2, <1>3

\* In its walk the scan is done with the files before Here.
LEMMA WalkFacts ==
    ASSUME LinksInv
    PROVE  /\ scan \in Scans /\ scan.at \in Nat
           /\ \A p \in DOMAIN storage :
                /\ p \in Paths /\ storage[p] \in Seq(Tags)
                /\ \A n \in DOMAIN storage[p] : n \in Nat /\ n >= 1
  <1>1. scan \in Scans /\ scan.at \in Nat
    BY DEF LinksInv, Types, RestOK, Scans
  <1>2. ASSUME NEW p \in DOMAIN storage
        PROVE  /\ p \in Paths /\ storage[p] \in Seq(Tags)
               /\ \A n \in DOMAIN storage[p] : n \in Nat /\ n >= 1
    <2>1. p \in Paths /\ storage[p] \in Seq(Tags)
      BY ContentsFacts DEF LinksInv, Types, StorageOK
    <2> QED
      BY <2>1
  <1> QED
    BY <1>1, <1>2

LEMMA WalkSameDone ==
    ASSUME LinksInv, ReadFile \/ WalkEnds
    PROVE  SameDone
  <1>1. scan.pc = "walk" /\ scan \in Scans /\ scan.at \in Nat
    BY WalkFacts DEF ReadFile, WalkEnds
  <1>2. \A p, n : ~Pending(p, n)
    BY <1>1 DEF Pending, AddSteps
  <1>3. CASE /\ ReadFile
             /\ scan' = [scan EXCEPT !.pc = "check", !.number = 1,
                                     !.file = storage[Here], !.new = << >>]
    <2>1. scan'.pc = "check" /\ scan'.at = scan.at /\ scan'.number = 1
      BY <1>1, <1>3 DEF Scans
    <2>2. \A p, n : Done(p, n) => Done(p, n)'
      BY <1>1, <2>1 DEF Done, AddSteps
    <2>3. \A p \in DOMAIN storage : \A n \in DOMAIN storage[p] :
            Done(p, n)' => Done(p, n)
      <3>1. \A p \in DOMAIN storage : \A n \in DOMAIN storage[p] : ~(n < 1)
        BY WalkFacts
      <3> QED
        BY <1>1, <2>1, <3>1 DEF Done, AddSteps
    <2> QED
      BY <1>2, <2>2, <2>3 DEF SameDone
  <1>4. CASE /\ Here \in DOMAIN storage => storage[Here] = << >>
             /\ scan' = NextFile
    <2>1. scan'.pc = "walk" /\ scan'.at = scan.at + 1
      BY <1>1, <1>4 DEF NextFile, Scans
    <2>2. /\ 1..(scan.at + 1 - 1) = 1..scan.at
          /\ \A k \in 1..scan.at : k \in 1..(scan.at - 1) \/ k = scan.at
          /\ 1..(scan.at - 1) \subseteq 1..scan.at
      BY <1>1
    <2>3. \A p, n : Done(p, n) => Done(p, n)'
      BY <1>1, <2>1, <2>2 DEF Done, AddSteps
    <2>4. \A p \in DOMAIN storage : \A n \in DOMAIN storage[p] :
            Done(p, n)' => Done(p, n)
      <3>1. \A p \in DOMAIN storage : \A n \in DOMAIN storage[p] : p # Here
        BY <1>4
      <3> QED
        BY <1>1, <2>1, <2>2, <3>1 DEF Done, AddSteps, Here
    <2> QED
      BY <1>2, <2>3, <2>4 DEF SameDone
  <1>5. CASE WalkEnds
    <2>1. /\ scan.at > Len(Walk)
          /\ scan' = [scan EXCEPT !.pc = "tracks", !.left = DOMAIN tracks]
      BY <1>5 DEF WalkEnds
    <2>2. scan'.pc = "tracks"
      BY <1>1, <2>1 DEF Scans
    <2>3. \A p \in DOMAIN storage : \A n : Done(p, n)
      <3>1. \A p \in Paths : \E k \in DOMAIN Walk : Walk[k] = p
        BY DEF Paths, Range
      <3>2. DOMAIN Walk \subseteq 1..(scan.at - 1)
        BY <1>1, <2>1, LibraryAssumption
      <3> QED
        BY <3>1, <3>2, WalkFacts DEF Done
    <2>4. \A p, n : Done(p, n)'
      BY <2>2 DEF Done
    <2> QED
      BY <1>2, <2>3, <2>4 DEF SameDone
  <1> QED
    BY <1>3, <1>4, <1>5 DEF ReadFile

LEMMA CompleteReadFile ==
    ASSUME LinksInv, CompleteInv, ReadFile
    PROVE  CompleteInv'
  <1>1. /\ UNCHANGED <<storage, db, rests>> /\ scan \in Scans
    BY WalkFacts DEF ReadFile
  <1>2. SameEntries
    BY <1>1 DEF SameEntries, db
  <1>3. Scanned => Scanned'
    BY <1>1, <1>2, ScannedStays, WalkSameDone
  <1>4. Fresh' /\ FileAtRest' /\ Swept'
    <2>1. CASE /\ Here \in DOMAIN storage
               /\ scan' = [scan EXCEPT !.pc = "check", !.number = 1,
                                       !.file = storage[Here], !.new = << >>]
      <3>1. /\ scan'.pc = "check" /\ scan'.at = scan.at
            /\ scan'.file = storage[Here]
        BY <1>1, <2>1 DEF Scans
      <3>2. Here' = Here
        BY <3>1 DEF Here
      <3> QED
        BY <1>1, <2>1, <3>1, <3>2 DEF Fresh, FileAtRest, Swept
    <2>2. CASE scan' = NextFile
      <3>1. scan'.pc = "walk"
        BY <1>1, <2>2 DEF NextFile, Scans
      <3> QED
        BY <3>1 DEF Fresh, FileAtRest, Swept, AddSteps
    <2> QED
      BY <2>1, <2>2 DEF ReadFile
  <1> QED
    BY <1>1, <1>3, <1>4 DEF CompleteInv

LEMMA CompleteWalkEnds ==
    ASSUME LinksInv, CompleteInv, WalkEnds
    PROVE  CompleteInv'
  <1>1. /\ UNCHANGED <<storage, db, rests>> /\ scan \in Scans
        /\ scan' = [scan EXCEPT !.pc = "tracks", !.left = DOMAIN tracks]
    BY WalkFacts DEF WalkEnds
  <1>2. SameEntries
    BY <1>1 DEF SameEntries, db
  <1>3. Scanned => Scanned'
    BY <1>1, <1>2, ScannedStays, WalkSameDone
  <1>4. scan'.pc = "tracks" /\ scan'.left = DOMAIN tracks
    BY <1>1 DEF Scans
  <1>5. Fresh' /\ FileAtRest' /\ Swept'
    BY <1>1, <1>4 DEF Fresh, FileAtRest, Swept, AddSteps, db
  <1> QED
    BY <1>1, <1>3, <1>5 DEF CompleteInv

-----------------------------------------------------------------------------
(***************************************************************************)
(* checkForDeletion takes no entry with a file.                            *)
(***************************************************************************)
LEMMA SweepSameDone ==
    ASSUME scan.pc \in {"tracks", "games", "names"},
           scan'.pc \in {"tracks", "games", "names", "idle"}
    PROVE  SameDone
  <1>1. \A p, n : Done(p, n) /\ Done(p, n)' /\ ~Pending(p, n)
    BY DEF Done, Pending, AddSteps
  <1> QED
    BY <1>1 DEF SameDone

LEMMA ScannedSweep ==
    ASSUME Scanned, storage' = storage, SameEntries,
           scan.pc \in {"tracks", "games", "names"},
           scan'.pc \in {"tracks", "games", "names", "idle"}
    PROVE  Scanned' /\ FileAtRest' /\ Fresh'
  <1>1. Scanned'
    BY SweepSameDone, ScannedStays
  <1> QED
    BY <1>1 DEF FileAtRest, Fresh, AddSteps

LEMMA CompleteSweep ==
    ASSUME LinksInv, CompleteInv, CheckTrack \/ TracksChecked \/ CheckGames
                                  \/ CheckArtists \/ ScanCompletes
    PROVE  CompleteInv'
  <1>1. /\ storage' = storage /\ rests' = rests /\ scan \in Scans
        /\ scan.pc \in {"tracks", "games", "names"}
    BY WalkFacts DEF CheckTrack, TracksChecked, CheckGames, CheckArtists,
                     ScanCompletes
  <1>2. CASE CheckTrack
    <2>1. PICK n \in scan.left :
            /\ scan' = [scan EXCEPT !.left = scan.left \ {n}]
            /\ IF tracks[n].path \in DOMAIN storage
               THEN UNCHANGED db
               ELSE tracks' = [t \in DOMAIN tracks \ {n} |-> tracks[t]]
      BY <1>2 DEF CheckTrack, Without
    <2>2. scan.pc = "tracks"
      BY <1>2 DEF CheckTrack
    <2>3. scan'.pc = "tracks" /\ scan'.left = scan.left \ {n}
      BY <1>1, <2>1, <2>2 DEF Scans
    <2>4. SameEntries
      BY <2>1 DEF SameEntries, db
    <2>5. Swept => Swept'
      BY <1>1, <2>1, <2>2, <2>3 DEF Swept, db
    <2>6. Fresh' /\ (Scanned => Scanned' /\ FileAtRest')
      BY <1>1, <2>3, <2>4, ScannedSweep DEF Fresh
    <2> QED
      BY <1>1, <2>5, <2>6 DEF CompleteInv
  <1>3. CASE TracksChecked \/ CheckGames \/ CheckArtists \/ ScanCompletes
    <2>1. tracks' = tracks
      BY <1>3 DEF TracksChecked, CheckGames, CheckArtists, ScanCompletes, db
    <2>2. SameEntries
      BY <2>1 DEF SameEntries
    <2>3. /\ scan'.pc \in {"games", "names", "idle"}
          /\ Swept => Swept'
      <3>1. CASE TracksChecked
        <4>1. scan.pc = "tracks" /\ scan.left = {} /\ scan'.pc = "games"
          BY <1>1, <3>1 DEF TracksChecked, Scans
        <4> QED
          BY <1>1, <2>1, <4>1 DEF Swept
      <3>2. CASE CheckGames /\ Empty(games) = {}
        <4>1. scan.pc = "games" /\ scan'.pc = "names" /\ games' = games
          BY <1>1, <3>2 DEF CheckGames, Scans
        <4>2. {} \notin Range(games)
          BY <3>2 DEF Empty, Range
        <4> QED
          BY <1>1, <2>1, <4>1, <4>2 DEF Swept
      <3>3. CASE CheckGames /\ Empty(games) # {}
        <4>1. scan.pc = "games" /\ scan' = scan
          BY <3>3 DEF CheckGames
        <4> QED
          BY <1>1, <2>1, <4>1 DEF Swept
      <3>4. CASE CheckArtists
        <4>1. scan.pc = "names" /\ scan' = scan /\ games' = games
          BY <3>4 DEF CheckArtists
        <4> QED
          BY <1>1, <2>1, <4>1 DEF Swept
      <3>5. CASE ScanCompletes
        <4>1. scan.pc = "names" /\ scan'.pc = "idle" /\ games' = games
              /\ artists' = artists /\ Empty(artists) = {}
          BY <3>5, IdleFacts DEF ScanCompletes, db
        <4>2. {} \notin Range(artists)
          BY <4>1 DEF Empty, Range
        <4> QED
          BY <1>1, <2>1, <4>1, <4>2 DEF Swept
      <3> QED
        BY <1>3, <3>1, <3>2, <3>3, <3>4, <3>5
    <2>4. Fresh' /\ (Scanned => Scanned' /\ FileAtRest')
      BY <1>1, <2>2, <2>3, ScannedSweep DEF Fresh
    <2> QED
      BY <1>1, <2>3, <2>4 DEF CompleteInv
  <1> QED
    BY <1>2, <1>3

-----------------------------------------------------------------------------
(***************************************************************************)
(* The check of a track: the scan is done with one track more.             *)
(***************************************************************************)
LEMMA DoneChecked ==
    ASSUME LinksInv, scan.pc = "check", NEW isNew \in BOOLEAN,
           FileAtRest, storage' = storage, scan' = Checked(isNew)
    PROVE  /\ \A p : \A n \in Nat : Done(p, n) => Done(p, n)'
           /\ \A p, n : p = Here /\ n = scan.number => Done(p, n)'
           /\ \A p \in DOMAIN storage : \A n \in DOMAIN storage[p] :
                Done(p, n)' => Done(p, n) \/ (p = Here /\ n = scan.number)
           /\ \A p, n : Pending(p, n) => Pending(p, n)'
           /\ \A p, n : isNew /\ p = Here /\ n = scan.number
                        => Pending(p, n)'
           /\ FileAtRest' /\ Fresh'
  <1>1. PICK new \in Seq(Nat) :
             /\ new = IF isNew THEN Append(scan.new, scan.number) ELSE scan.new
             /\ \/ /\ scan.number < Len(scan.file)
                   /\ scan'.pc = "check" /\ scan'.at = scan.at
                   /\ scan'.number = scan.number + 1
                   /\ scan'.file = scan.file /\ scan'.new = new
                \/ /\ ~(scan.number < Len(scan.file))
                   /\ scan'.pc = "save" /\ scan'.at = scan.at
                   /\ scan'.file = scan.file /\ scan'.new = new
                \/ /\ ~(scan.number < Len(scan.file)) /\ new = << >>
                   /\ scan'.pc = "walk" /\ scan'.at = scan.at + 1
    BY CheckedCases DEF LinksInv
  <1>2. /\ scan.new \in Seq(Nat) /\ scan.number \in Nat /\ scan.at \in Nat
        /\ scan.number \in DOMAIN scan.file /\ scan.file \in Seq(Tags)
        /\ scan.at \in DOMAIN Walk
    BY DEF LinksInv, Types, RestOK, Scans, Progress, AtFile
  <1>3. /\ \A i \in DOMAIN scan.new : i \in DOMAIN new /\ new[i] = scan.new[i]
        /\ isNew => \E i \in DOMAIN new : new[i] = scan.number
    <2>1. CASE isNew
      <3>1. new = Append(scan.new, scan.number)
        BY <1>1, <2>1
      <3>2. /\ DOMAIN new = 1..(Len(scan.new) + 1) /\ Len(scan.new) \in Nat
            /\ DOMAIN scan.new = 1..Len(scan.new)
            /\ new[Len(scan.new) + 1] = scan.number
            /\ \A i \in 1..Len(scan.new) : new[i] = scan.new[i]
        BY <1>2, <3>1
      <3>3. 1..Len(scan.new) \subseteq 1..(Len(scan.new) + 1)
            /\ Len(scan.new) + 1 \in 1..(Len(scan.new) + 1)
        BY <3>2
      <3> QED
        BY <3>2, <3>3
    <2>2. CASE ~isNew
      BY <1>1, <2>2
    <2> QED
      BY <2>1, <2>2
  <1>4. Here \in DOMAIN storage /\ scan.file = storage[Here]
    BY DEF FileAtRest
  <1>5. Fresh'
    BY <1>1 DEF Fresh
  <1>6. ASSUME scan'.at = scan.at, scan'.file = scan.file, scan'.new = new,
               scan'.pc \in {"check", "save"}
        PROVE  /\ Here' = Here
               /\ \A p, n : Pending(p, n) => Pending(p, n)'
               /\ \A p, n : isNew /\ p = Here /\ n = scan.number
                        => Pending(p, n)'
               /\ FileAtRest'
    <2>1. Here' = Here
      BY <1>6 DEF Here
    <2>2. \A p, n : Pending(p, n) => Pending(p, n)'
      BY <1>3, <1>6, <2>1 DEF Pending, AddSteps
    <2>3. \A p, n : isNew /\ p = Here /\ n = scan.number => Pending(p, n)'
      BY <1>3, <1>6, <2>1 DEF Pending, AddSteps
    <2>4. FileAtRest'
      BY <1>4, <1>6, <2>1 DEF FileAtRest
    <2> QED
      BY <2>1, <2>2, <2>3, <2>4
  <1>7. CASE /\ scan'.pc = "check" /\ scan'.at = scan.at
             /\ scan'.number = scan.number + 1
             /\ scan'.file = scan.file /\ scan'.new = new
    <2>1. Here' = Here
      BY <1>6, <1>7
    <2>2. /\ \A n \in Nat : n < scan.number => n < scan.number + 1
          /\ \A n \in Nat : n < scan.number + 1 =>
               n < scan.number \/ n = scan.number
          /\ scan.number < scan.number + 1
      BY <1>2
    <2>3. \A p : \A n \in Nat : Done(p, n) => Done(p, n)'
      BY <1>7, <2>1, <2>2 DEF Done, AddSteps
    <2>4. \A p, n : p = Here /\ n = scan.number => Done(p, n)'
      BY <1>7, <2>1, <2>2 DEF Done
    <2>5. \A p \in DOMAIN storage : \A n \in DOMAIN storage[p] :
            Done(p, n)' => Done(p, n) \/ (p = Here /\ n = scan.number)
      <3>1. \A p \in DOMAIN storage : \A n \in DOMAIN storage[p] : n \in Nat
        BY WalkFacts
      <3> QED
        BY <1>7, <2>1, <2>2, <3>1 DEF Done, AddSteps
    <2> QED
      BY <1>5, <1>6, <1>7, <2>3, <2>4, <2>5
  <1>8. ASSUME NEW n \in DOMAIN scan.file, ~(scan.number < Len(scan.file))
        PROVE  n < scan.number \/ n = scan.number
    BY <1>2, <1>8
  <1>9. CASE /\ ~(scan.number < Len(scan.file))
             /\ scan'.pc = "save" /\ scan'.at = scan.at
             /\ scan'.file = scan.file /\ scan'.new = new
    <2>1. Here' = Here
      BY <1>6, <1>9
    <2>2. \A p, n : Done(p, n) => Done(p, n)'
      BY <1>9, <2>1 DEF Done, AddSteps
    <2>3. \A p, n : p = Here /\ n = scan.number => Done(p, n)'
      BY <1>9, <2>1 DEF Done, AddSteps
    <2>4. \A p \in DOMAIN storage : \A n \in DOMAIN storage[p] :
            Done(p, n)' => Done(p, n) \/ (p = Here /\ n = scan.number)
      BY <1>4, <1>8, <1>9, <2>1 DEF Done, AddSteps
    <2> QED
      BY <1>5, <1>6, <1>9, <2>2, <2>3, <2>4
  <1>10. CASE /\ ~(scan.number < Len(scan.file)) /\ new = << >>
              /\ scan'.pc = "walk" /\ scan'.at = scan.at + 1
    <2>1. /\ \A k \in 1..(scan.at + 1 - 1) : k \in 1..(scan.at - 1) \/ k = scan.at
          /\ 1..(scan.at - 1) \subseteq 1..(scan.at + 1 - 1)
          /\ scan.at \in 1..(scan.at + 1 - 1)
      <3>1. scan.at >= 1
        BY <1>2, LibraryAssumption
      <3> QED
        BY <1>2, <3>1
    <2>2. \A p, n : Done(p, n) => Done(p, n)'
      BY <1>10, <2>1 DEF Done, AddSteps, Here
    <2>3. \A p, n : p = Here /\ n = scan.number => Done(p, n)'
      BY <1>10, <2>1 DEF Done, AddSteps, Here
    <2>4. \A p \in DOMAIN storage : \A n \in DOMAIN storage[p] :
            Done(p, n)' => Done(p, n) \/ (p = Here /\ n = scan.number)
      <3>1. \A p, n : Done(p, n)' => p = Here \/ \E k \in 1..(scan.at - 1) : Walk[k] = p
        BY <1>10, <2>1 DEF Done, AddSteps, Here
      <3>2. \A n \in DOMAIN scan.file : n < scan.number \/ n = scan.number
        BY <1>8, <1>10
      <3> QED
        BY <1>4, <3>1, <3>2 DEF Done
    <2>5. ~isNew /\ \A p, n : ~Pending(p, n)
      <3>1. \A i \in DOMAIN new : FALSE
        BY <1>10
      <3> QED
        BY <1>3, <3>1 DEF Pending
    <2>6. FileAtRest'
      BY <1>10 DEF FileAtRest, AddSteps
    <2> QED
      BY <1>5, <2>2, <2>3, <2>4, <2>5, <2>6
  <1> QED
    BY <1>1, <1>7, <1>9, <1>10

\* The entry that serves a track goes on to do so when it is moved.
LEMMA ScannedChecked ==
    ASSUME LinksInv, Scanned, FileAtRest, scan.pc = "check",
           storage' = storage, NEW isNew \in BOOLEAN, scan' = Checked(isNew),
           \A t \in DOMAIN tracks : Done(tracks[t].path, tracks[t].number) =>
             /\ t \in DOMAIN tracks'
             /\ tracks'[t].title = tracks[t].title
             /\ tracks'[t].game = tracks[t].game
             /\ tracks'[t].gameTitle = tracks[t].gameTitle
             /\ \/ /\ tracks'[t].path = tracks[t].path
                   /\ tracks'[t].number = tracks[t].number
                \/ tracks'[t].path = Here /\ tracks'[t].number = scan.number,
           \/ isNew
           \/ \E t \in DOMAIN tracks' :
                /\ tracks'[t].title = Tag.title
                /\ \/ tracks'[t].game = Tag.game
                   \/ tracks'[t].game \notin {None, tracks'[t].gameTitle}
                /\ tracks'[t].path = Here /\ tracks'[t].number = scan.number
    PROVE  Scanned'
  <1>1. /\ \A p : \A n \in Nat : Done(p, n) => Done(p, n)'
        /\ \A p, n : p = Here /\ n = scan.number => Done(p, n)'
        /\ \A p \in DOMAIN storage : \A n \in DOMAIN storage[p] :
             Done(p, n)' => Done(p, n) \/ (p = Here /\ n = scan.number)
        /\ \A p, n : Pending(p, n) => Pending(p, n)'
        /\ \A p, n : isNew /\ p = Here /\ n = scan.number => Pending(p, n)'
    BY DoneChecked
  <1>2. Here \in DOMAIN storage /\ storage[Here][scan.number] = Tag
    BY DEF FileAtRest, Tag
  <1> SUFFICES ASSUME NEW p \in DOMAIN storage, NEW n \in DOMAIN storage[p],
                      Done(p, n)', ~Pending(p, n)'
               PROVE  \E t \in DOMAIN tracks' : Serves(t, p, n)'
    BY DEF Scanned
  <1>3. CASE Done(p, n)
    <2>1. PICK t \in DOMAIN tracks : Serves(t, p, n)
      BY <1>1, <1>3 DEF Scanned
    <2>2. /\ Done(tracks[t].path, tracks[t].number)
          /\ tracks[t].path \in DOMAIN storage
          /\ tracks[t].number \in Nat
      BY <2>1 DEF Serves, LinksInv, Types, TracksOK, TrackObjects
    <2>3. PICK a \in DOMAIN storage, b \in Nat :
            /\ a = tracks'[t].path /\ b = tracks'[t].number
            /\ Done(a, b)'
      <3>1. scan.number \in Nat
        BY DEF LinksInv, Types, RestOK, Scans
      <3> QED
        BY <1>1, <1>2, <2>2, <3>1
    <2>4. Done(tracks[t].path, tracks[t].number)'
      BY <2>3 DEF Done
    <2> QED
      BY <2>1, <2>2, <2>3, <2>4 DEF Serves
  <1>4. CASE p = Here /\ n = scan.number
    <2>1. ~isNew
      BY <1>1, <1>4
    <2>2. PICK t \in DOMAIN tracks' :
                /\ tracks'[t].title = Tag.title
                /\ \/ tracks'[t].game = Tag.game
                   \/ tracks'[t].game \notin {None, tracks'[t].gameTitle}
                /\ tracks'[t].path = Here /\ tracks'[t].number = scan.number
      BY <2>1
    <2>3. PICK a \in DOMAIN storage, b \in Nat :
            /\ a = tracks'[t].path /\ b = tracks'[t].number
            /\ Done(a, b)'
      <3>1. scan.number \in Nat
        BY DEF LinksInv, Types, RestOK, Scans
      <3> QED
        BY <1>1, <1>2, <2>2, <3>1
    <2>4. Done(tracks[t].path, tracks[t].number)'
      BY <2>3 DEF Done
    <2>5. storage'[p][n] = Tag
      BY <1>2, <1>4
    <2> HIDE DEF Tag
    <2> QED
      BY <2>2, <2>3, <2>4, <2>5 DEF Serves
  <1> QED
    BY <1>1, <1>3, <1>4

LEMMA CompleteNoCandidate ==
    ASSUME LinksInv, CompleteInv, NoCandidate
    PROVE  CompleteInv'
  <1>1. /\ scan.pc = "check" /\ scan' = Checked(TRUE) /\ storage' = storage
        /\ tracks' = tracks /\ rests' = rests
    BY DEF NoCandidate, db
  <1>2. scan'.pc \in {"walk", "check", "save"}
    BY <1>1, CheckedFacts DEF LinksInv
  <1>3. Fresh' /\ Swept'
    BY <1>2 DEF Fresh, Swept
  <1>4. ASSUME rests > 0
        PROVE  FileAtRest' /\ Scanned'
    <2>1. FileAtRest /\ Scanned
      BY <1>4 DEF CompleteInv
    <2>2. FileAtRest'
      BY <1>1, <2>1, DoneChecked
    <2>3. Scanned'
      BY <1>1, <2>1, ScannedChecked
    <2> QED
      BY <2>2, <2>3
  <1> QED
    BY <1>1, <1>3, <1>4 DEF CompleteInv

\* What is found at the place of this track serves none of those before it.
LEMMA AtPathIsNew ==
    ASSUME LinksInv, OnceInv, scan.pc = "check", NEW t \in AtPath
    PROVE  ~Done(tracks[t].path, tracks[t].number)
  <1>1. tracks[t].path = Here /\ tracks[t].number = scan.number
        /\ scan.number \in Nat
    BY CheckFacts
  <1>2. scan.at \in DOMAIN Walk /\ scan.at \in Nat
    BY DEF LinksInv, Types, RestOK, Scans, Progress, AtFile
  <1>3. ~\E k \in 1..(scan.at - 1) : Walk[k] = Here
    <2> SUFFICES ASSUME NEW k \in 1..(scan.at - 1), Walk[k] = Here
                 PROVE  FALSE
      OBVIOUS
    <2>1. k \in DOMAIN Walk /\ k # scan.at
      BY <1>2, LibraryAssumption
    <2> QED
      BY <1>2, <2>1, LibraryAssumption DEF IsInjective, Here
  <1> QED
    BY <1>1, <1>3 DEF Done, AddSteps

LEMMA CompleteUpdateTrack ==
    ASSUME LinksInv, OnceInv, CompleteInv, UpdateTrack
    PROVE  CompleteInv'
  <1>1. PICK n \in Candidates :
             /\ n \in DOMAIN tracks /\ DOMAIN tracks' = DOMAIN tracks
             /\ \A t \in DOMAIN tracks : t # n => tracks'[t] = tracks[t]
             /\ tracks'[n].path = Here /\ tracks'[n].number = scan.number
             /\ tracks'[n].title = Tag.title
             /\ tracks'[n].gameTitle = tracks[n].gameTitle
             /\ tracks'[n].game = IF Regamed(n) THEN Tag.game
                                  ELSE tracks[n].game
             /\ scan' = Checked(tracks'[n].game = None)
             /\ scan.pc = "check"
             /\ UNCHANGED <<storage, realm, rests, count>>
    BY UpdateFacts
  <1> DEFINE isNew == tracks'[n].game = None
  <1>2. isNew \in BOOLEAN /\ scan' = Checked(isNew)
    BY <1>1
  <1>3. isNew <=> tracks'[n].game = None
    OBVIOUS
  <1> HIDE DEF isNew
  <1>4. scan'.pc \in {"walk", "check", "save"}
    BY <1>1, <1>2, CheckedFacts DEF LinksInv
  <1>5. Fresh' /\ Swept'
    BY <1>4 DEF Fresh, Swept
  <1>6. Done(tracks[n].path, tracks[n].number) =>
          tracks'[n].title = tracks[n].title /\ tracks'[n].game = tracks[n].game
    <2>1. CASE AtPath # {}
      BY <1>1, <2>1, AtPathIsNew DEF Candidates
    <2>2. CASE AtPath = {}
      BY <1>1, <2>2 DEF Candidates, SameTag, Regamed
    <2> QED
      BY <2>1, <2>2
  <1>7. \A t \in DOMAIN tracks : Done(tracks[t].path, tracks[t].number) =>
             /\ t \in DOMAIN tracks'
             /\ tracks'[t].title = tracks[t].title
             /\ tracks'[t].game = tracks[t].game
             /\ tracks'[t].gameTitle = tracks[t].gameTitle
             /\ \/ /\ tracks'[t].path = tracks[t].path
                   /\ tracks'[t].number = tracks[t].number
                \/ tracks'[t].path = Here /\ tracks'[t].number = scan.number
    BY <1>1, <1>6
  <1>8. \/ isNew
        \/ tracks'[n].game = Tag.game
        \/ tracks'[n].game \notin {None, tracks'[n].gameTitle}
    BY <1>1, <1>3 DEF Regamed
  <1>9. \/ isNew
        \/ \E t \in DOMAIN tracks' :
             /\ tracks'[t].title = Tag.title
             /\ \/ tracks'[t].game = Tag.game
                \/ tracks'[t].game \notin {None, tracks'[t].gameTitle}
             /\ tracks'[t].path = Here /\ tracks'[t].number = scan.number
    BY <1>1, <1>8
  <1>10. ASSUME rests > 0
         PROVE  FileAtRest' /\ Scanned'
    <2>1. FileAtRest /\ Scanned
      BY <1>10 DEF CompleteInv
    <2>2. FileAtRest'
      BY <1>1, <1>2, <2>1, DoneChecked
    <2>3. Scanned'
      BY <1>1, <1>2, <1>7, <1>9, <2>1, ScannedChecked
    <2> QED
      BY <2>2, <2>3
  <1> QED
    BY <1>1, <1>5, <1>10 DEF CompleteInv

-----------------------------------------------------------------------------
(***************************************************************************)
(* addTrack: a track is pending until its entry has its game.              *)
(***************************************************************************)
LEMMA CompleteSaveTrack ==
    ASSUME LinksInv, CompleteInv, SaveTrack
    PROVE  CompleteInv'
  <1> DEFINE n == count.saved + 1
  <1> DEFINE r == [path |-> Here, number |-> Head(scan.new),
                   title |-> Adding.title, gameTitle |-> Adding.game,
                   artistText |-> Adding.artists, game |-> None,
                   artists |-> {}]
  <1>1. /\ scan \in Scans /\ scan.pc = "save"
        /\ DOMAIN tracks \subseteq 1..count.saved /\ count.saved \in Nat
    BY DEF LinksInv, Types, RestOK, TracksOK, SaveTrack
  <1>2. n \in Nat /\ n \notin DOMAIN tracks
    BY <1>1
  <1>3. /\ tracks' = [t \in DOMAIN tracks \cup {n} |-> IF t = n THEN r ELSE tracks[t]]
        /\ scan' = [scan EXCEPT !.pc = "game", !.id = n]
        /\ UNCHANGED <<storage, rests>>
    BY DEF SaveTrack, With
  <1>4. r.path = Here /\ r.number = Head(scan.new) /\ r.title = Adding.title
    OBVIOUS
  <1> HIDE DEF n, r
  <1>5. /\ tracks'[n] = r
        /\ \A t \in DOMAIN tracks : t \in DOMAIN tracks' /\ tracks'[t] = tracks[t]
    BY <1>2, <1>3
  <1>6. /\ scan'.pc = "game" /\ scan'.id = n /\ scan'.at = scan.at
        /\ scan'.new = scan.new /\ scan'.file = scan.file
    BY <1>1, <1>2, <1>3 DEF Scans
  <1>7. Here' = Here /\ Adding' = Adding
    BY <1>6 DEF Here, Adding
  <1>8. Fresh'
    BY <1>4, <1>5, <1>6, <1>7 DEF Fresh
  <1>9. SameEntries
    BY <1>5 DEF SameEntries
  <1>10. Scanned => Scanned'
    BY <1>1, <1>3, <1>6, <1>9, ScannedStays, AddingSameDone DEF AddSteps
  <1>11. FileAtRest => FileAtRest'
    BY <1>1, <1>3, <1>6, FileAtRestStays DEF AddSteps
  <1>12. Swept'
    BY <1>6 DEF Swept
  <1> QED
    BY <1>3, <1>8, <1>10, <1>11, <1>12 DEF CompleteInv

LEMMA CompleteSaveGame ==
    ASSUME LinksInv, CompleteInv, SaveGame
    PROVE  CompleteInv'
  <1>1. /\ scan \in Scans /\ scan.pc = "game"
        /\ scan' = [scan EXCEPT !.pc = "link"]
        /\ UNCHANGED <<storage, tracks, rests>>
    BY WalkFacts DEF SaveGame
  <1>2. /\ scan'.pc = "link" /\ scan'.id = scan.id /\ scan'.at = scan.at
        /\ scan'.new = scan.new /\ scan'.file = scan.file
    BY <1>1 DEF Scans
  <1>3. Here' = Here /\ Adding' = Adding
    BY <1>2 DEF Here, Adding
  <1>4. Fresh'
    BY <1>1, <1>2, <1>3 DEF CompleteInv, Fresh
  <1>5. SameEntries
    BY <1>1 DEF SameEntries
  <1>6. Scanned => Scanned'
    BY <1>1, <1>2, <1>5, ScannedStays, AddingSameDone DEF AddSteps
  <1>7. FileAtRest => FileAtRest'
    BY <1>1, <1>2, FileAtRestStays DEF AddSteps
  <1>8. Swept'
    BY <1>2 DEF Swept
  <1> QED
    BY <1>1, <1>4, <1>6, <1>7, <1>8 DEF CompleteInv

LEMMA CompleteArtists ==
    ASSUME LinksInv, CompleteInv, SaveArtist \/ LinkArtist
    PROVE  CompleteInv'
  <1>1. /\ scan \in Scans /\ scan.pc \in {"artists", "artist"}
        /\ UNCHANGED <<storage, rests>>
    BY WalkFacts DEF SaveArtist, LinkArtist
  <1>2. \/ scan' = [scan EXCEPT !.pc = "artist", !.names = Adding.artists]
        \/ scan' = [scan EXCEPT !.names = Tail(scan.names)]
    BY DEF SaveArtist, LinkArtist
  <1>3. /\ scan'.pc \in {"artists", "artist"} /\ scan'.at = scan.at
        /\ scan'.new = scan.new /\ scan'.file = scan.file
    BY <1>1, <1>2 DEF Scans
  <1>4. SameEntries
    <2>1. CASE SaveArtist
      BY <2>1 DEF SaveArtist, SameEntries
    <2>2. CASE LinkArtist
      <3> DEFINE n == scan.id
      <3> DEFINE a0 == Head(scan.names)
      <3>1. /\ n \in DOMAIN tracks
            /\ \A t \in DOMAIN tracks : tracks[t] \in TrackObjects
        BY <2>2 DEF LinksInv, Types, TracksOK, LinkArtist, Progress
      <3>2. tracks' = [tracks EXCEPT ![n].artists = tracks[n].artists \cup {a0}]
        BY <2>2 DEF LinkArtist
      <3> HIDE DEF n, a0
      <3>3. /\ DOMAIN tracks' = DOMAIN tracks
            /\ tracks'[n] = [tracks[n] EXCEPT !.artists = tracks[n].artists \cup {a0}]
            /\ \A t \in DOMAIN tracks : t # n => tracks'[t] = tracks[t]
        BY <3>1, <3>2 DEF LinksInv, Types, TracksOK
      <3>4. /\ tracks'[n].path = tracks[n].path
            /\ tracks'[n].number = tracks[n].number
            /\ tracks'[n].title = tracks[n].title
            /\ tracks'[n].game = tracks[n].game
            /\ tracks'[n].gameTitle = tracks[n].gameTitle
            /\ tracks'[n].artistText = tracks[n].artistText
        BY <3>1, <3>3 DEF TrackObjects
      <3> QED
        BY <3>3, <3>4 DEF SameEntries
    <2> QED
      BY <2>1, <2>2
  <1>5. Fresh' /\ Swept'
    BY <1>3 DEF Fresh, Swept
  <1>6. Scanned => Scanned'
    BY <1>1, <1>3, <1>4, ScannedStays, AddingSameDone DEF AddSteps
  <1>7. FileAtRest => FileAtRest'
    BY <1>1, <1>3, FileAtRestStays DEF AddSteps
  <1> QED
    BY <1>1, <1>5, <1>6, <1>7 DEF CompleteInv

LEMMA CompleteLinkGame ==
    ASSUME LinksInv, CompleteInv, LinkGame
    PROVE  CompleteInv'
  <1>0. PICK m : m = scan.id
    OBVIOUS
  <1> DEFINE g0 == Adding.game
  <1>1. /\ scan \in Scans /\ scan.pc = "link"
        /\ m \in DOMAIN tracks /\ tracks[m].game = None
        /\ \A t \in DOMAIN tracks : tracks[t] \in TrackObjects
    BY <1>0 DEF LinksInv, Types, RestOK, TracksOK, LinkGame, Progress
  <1>2. /\ tracks' = [tracks EXCEPT ![m].game = g0]
        /\ scan' = [scan EXCEPT !.pc = "artists", !.names = Adding.artists]
        /\ UNCHANGED <<storage, rests>>
    BY <1>0 DEF LinkGame
  <1>3. /\ scan'.pc = "artists" /\ scan'.at = scan.at
        /\ scan'.new = scan.new /\ scan'.file = scan.file
    BY <1>1, <1>2 DEF Scans
  <1>4. Here' = Here
    BY <1>3 DEF Here
  <1>5. /\ tracks[m].path = Here
        /\ tracks[m].title = Adding.title
        /\ tracks[m].number = scan.new[1]
        /\ \A i \in DOMAIN scan.new : scan.new[i] \in DOMAIN scan.file
        /\ Adding = scan.file[scan.new[1]] /\ 1 \in DOMAIN scan.new
    BY <1>0, <1>1, NewFacts DEF CompleteInv, Fresh, AddSteps, Adding
  <1> HIDE DEF g0
  <1>6. /\ DOMAIN tracks' = DOMAIN tracks
        /\ tracks'[m] = [tracks[m] EXCEPT !.game = g0]
        /\ \A t \in DOMAIN tracks : t # m => tracks'[t] = tracks[t]
    BY <1>1, <1>2 DEF LinksInv, Types, TracksOK
  <1>7. /\ tracks'[m].game = g0 /\ tracks'[m].path = tracks[m].path
        /\ tracks'[m].number = tracks[m].number
        /\ tracks'[m].title = tracks[m].title
    BY <1>1, <1>6 DEF TrackObjects
  <1>8. Fresh' /\ Swept'
    BY <1>3 DEF Fresh, Swept
  <1>9. FileAtRest => FileAtRest'
    BY <1>1, <1>2, <1>3, FileAtRestStays DEF AddSteps
  <1>10. ASSUME FileAtRest, Scanned
         PROVE  Scanned'
    <2> SUFFICES ASSUME NEW p \in DOMAIN storage, NEW n \in DOMAIN storage[p],
                        Done(p, n)', ~Pending(p, n)'
                 PROVE  \E t \in DOMAIN tracks' : Serves(t, p, n)'
      BY <1>2 DEF Scanned
    <2>1. \A a, b : Done(a, b)' <=> Done(a, b)
      BY <1>1, <1>3, <1>4 DEF Done, AddSteps
    <2>2. Here \in DOMAIN storage /\ scan.file = storage[Here]
      BY <1>1, <1>10 DEF FileAtRest, AddSteps
    <2>3. CASE Pending(p, n)
      <3>1. p = Here /\ n = scan.new[1]
        BY <1>1, <1>3, <1>4, <2>3 DEF Pending, AddSteps
      <3>2. /\ storage'[p][n] = Adding
            /\ tracks'[m].title = Adding.title /\ tracks'[m].game = Adding.game
        BY <1>2, <1>5, <1>7, <2>2, <3>1 DEF g0
      <3>3. Done(tracks[m].path, tracks[m].number)'
        BY <1>3, <1>4, <1>5, <1>7 DEF Done, AddSteps
      <3>4. tracks'[m].path \in DOMAIN storage'
        BY <1>2, <1>5, <1>7, <2>2
      <3>5. Serves(m, p, n)'
        BY <3>2, <3>3, <3>4 DEF Serves
      <3> QED
        BY <1>1, <1>6, <3>5
    <2>4. CASE ~Pending(p, n)
      <3>1. PICK t \in DOMAIN tracks : Serves(t, p, n)
        BY <1>10, <2>1, <2>4 DEF Scanned
      <3>2. t # m
        <4>1. storage[p][n].game # None
          BY WalkFacts, TagFacts
        <4> QED
          BY <1>1, <3>1, <4>1 DEF Serves
      <3>3. tracks'[t] = tracks[t]
        BY <1>6, <3>2
      <3>4. Done(tracks[t].path, tracks[t].number)
        BY <3>1 DEF Serves
      <3>5. Done(tracks[t].path, tracks[t].number)'
        BY <2>1, <3>3, <3>4 DEF Done
      <3>6. Serves(t, p, n)'
        BY <1>2, <3>1, <3>3, <3>5 DEF Serves
      <3> QED
        BY <1>6, <3>6
    <2> QED
      BY <2>3, <2>4
  <1> QED
    BY <1>2, <1>8, <1>9, <1>10 DEF CompleteInv

LEMMA AddReturnsSameDone ==
    ASSUME LinksInv, AddReturns
    PROVE  SameDone
  <1>1. scan \in Scans /\ scan.pc = "artist" /\ scan.at \in Nat
    BY WalkFacts DEF AddReturns
  <1>2. scan.new \in Seq(Nat)
    BY <1>1, NewFacts DEF AddSteps
  <1>3. CASE Len(scan.new) > 1
    <2>1. scan' = [scan EXCEPT !.pc = "save", !.new = Tail(scan.new)]
      BY <1>3 DEF AddReturns
    <2>2. /\ scan'.pc = "save" /\ scan'.at = scan.at
          /\ scan'.new = Tail(scan.new)
      BY <1>1, <2>1 DEF Scans
    <2>3. Here' = Here
      BY <2>2 DEF Here
    <2>4. \A p, n : Done(p, n)' <=> Done(p, n)
      BY <1>1, <2>2, <2>3 DEF Done, AddSteps
    <2>5. \A p, n : Pending(p, n) => Pending(p, n)'
      <3>1. \A i \in DOMAIN scan.new : i # 1 =>
              i - 1 \in DOMAIN Tail(scan.new) /\ Tail(scan.new)[i - 1] = scan.new[i]
        BY <1>2, <1>3, TailFacts
      <3> QED
        BY <1>1, <2>2, <2>3, <3>1 DEF Pending, AddSteps
    <2> QED
      BY <2>4, <2>5 DEF SameDone
  <1>4. CASE ~(Len(scan.new) > 1)
    <2>1. scan'.pc = "walk" /\ scan'.at = scan.at + 1
      BY <1>1, <1>4 DEF AddReturns, NextFile, Scans
    <2>2. scan.at \in DOMAIN Walk
      BY <1>1 DEF LinksInv, Progress, AtFile
    <2>3. /\ \A k \in 1..(scan.at + 1 - 1) : k \in 1..(scan.at - 1) \/ k = scan.at
          /\ 1..(scan.at - 1) \subseteq 1..(scan.at + 1 - 1)
          /\ scan.at \in 1..(scan.at + 1 - 1)
      <3>1. scan.at >= 1
        BY <2>2, LibraryAssumption
      <3> QED
        BY <1>1, <3>1
    <2>4. \A p, n : Done(p, n)' <=> Done(p, n)
      BY <1>1, <2>1, <2>3 DEF Done, AddSteps, Here
    <2>5. \A p, n : ~Pending(p, n)
      <3>1. \A i \in DOMAIN scan.new : i = 1
        BY <1>2, <1>4
      <3> QED
        BY <1>1, <3>1 DEF Pending
    <2> QED
      BY <2>4, <2>5 DEF SameDone
  <1> QED
    BY <1>3, <1>4

LEMMA CompleteAddReturns ==
    ASSUME LinksInv, CompleteInv, AddReturns
    PROVE  CompleteInv'
  <1>1. /\ scan \in Scans /\ scan.pc = "artist"
        /\ UNCHANGED <<storage, tracks, rests>>
    BY WalkFacts DEF AddReturns, db
  <1>2. SameEntries
    BY <1>1 DEF SameEntries
  <1>3. Scanned => Scanned'
    BY <1>1, <1>2, ScannedStays, AddReturnsSameDone
  <1>4. \/ /\ scan'.pc = "save" /\ scan'.at = scan.at
           /\ scan'.file = scan.file
        \/ scan'.pc = "walk"
    BY <1>1, NextFileFacts DEF AddReturns, LinksInv, Scans
  <1>5. FileAtRest => FileAtRest'
    <2>1. CASE scan'.at = scan.at /\ scan'.file = scan.file
      BY <1>1, <2>1, FileAtRestStays DEF AddSteps
    <2>2. CASE scan'.pc = "walk"
      BY <2>2 DEF FileAtRest, AddSteps
    <2> QED
      BY <1>4, <2>1, <2>2
  <1>6. Fresh' /\ Swept'
    BY <1>4 DEF Fresh, Swept
  <1> QED
    BY <1>1, <1>3, <1>5, <1>6 DEF CompleteInv

-----------------------------------------------------------------------------
LEMMA CompleteStep ==
    LinksInv /\ OnceInv /\ CompleteInv /\ [Next]_vars => CompleteInv'
  <1> SUFFICES ASSUME LinksInv, OnceInv, CompleteInv, [Next]_vars
               PROVE  CompleteInv'
    OBVIOUS
  <1>1. CASE UNCHANGED vars
    <2>1. /\ scan' = scan /\ tracks' = tracks /\ storage' = storage
          /\ rests' = rests /\ games' = games /\ artists' = artists
      BY <1>1 DEF vars
    <2>2. Here' = Here /\ Adding' = Adding
      BY <2>1 DEF Here, Adding
    <2>3. SameEntries
      BY <2>1 DEF SameEntries
    <2>4. \A p, n : /\ Done(p, n)' <=> Done(p, n)
                    /\ Pending(p, n) => Pending(p, n)'
      BY <2>1, <2>2 DEF Done, Pending
    <2>5. Scanned => Scanned'
      BY <2>1, <2>3, <2>4, ScannedStays DEF SameDone
    <2>6. /\ Fresh' /\ (FileAtRest => FileAtRest') /\ (Swept => Swept')
      BY <2>1, <2>2 DEF CompleteInv, Fresh, FileAtRest, Swept
    <2> QED
      BY <2>1, <2>5, <2>6 DEF CompleteInv
  <1>2. CASE Next
    BY <1>2, CompleteListener, CompleteStartScan, CompleteReadFile,
       CompleteWalkEnds, CompleteSweep, CompleteNoCandidate,
       CompleteUpdateTrack, CompleteSaveTrack, CompleteSaveGame,
       CompleteArtists, CompleteLinkGame, CompleteAddReturns DEF Next
  <1> QED
    BY <1>1, <1>2

LEMMA CompleteInvHolds == Spec => []CompleteInv
  BY CompleteInit, CompleteStep, LinksInvHolds, OnceInvHolds, PTL DEF Spec

(***************************************************************************)
(* After a whole scan of a storage at rest the library is complete and     *)
(* holds nothing else, whatever scans before it left undone                *)
(* (LibraryComplete): for any storage, any tags and any number of kills    *)
(* and failures.                                                           *)
(***************************************************************************)
THEOREM ScanCompletesLibrary == Spec => []LibraryComplete
  <1>1. LinksInv /\ CompleteInv => LibraryComplete
    <2> SUFFICES ASSUME LinksInv, CompleteInv, scan.pc = "idle", rests > 0
                 PROVE  /\ NoneMoved => \A x \in Stored : \E t \in DOMAIN tracks :
                             /\ tracks[t].title = TagOf(x).title
                             /\ tracks[t].game = TagOf(x).game
                        /\ \A t \in DOMAIN tracks : tracks[t].path \in DOMAIN storage
                        /\ {} \notin Range(games) \cup Range(artists)
      BY DEF LibraryComplete
    <2>1. Scanned /\ Swept
      BY DEF CompleteInv
    <2>2. ASSUME NoneMoved, NEW x \in Stored
          PROVE  \E t \in DOMAIN tracks : /\ tracks[t].title = TagOf(x).title
                                          /\ tracks[t].game = TagOf(x).game
      <3>0. PICK p \in DOMAIN storage : x \in {<<p, n>> : n \in DOMAIN storage[p]}
        BY DEF Stored
      <3>1. PICK n \in DOMAIN storage[p] : x = <<p, n>>
        BY <3>0
      <3>2. TagOf(x) = storage[p][n]
        BY <3>1 DEF TagOf
      <3>3. Done(p, n) /\ ~Pending(p, n)
        BY DEF Done, Pending, AddSteps
      <3>4. PICK t \in DOMAIN tracks : Serves(t, p, n)
        BY <2>1, <3>3 DEF Scanned
      <3>5. tracks[t].game \in {None, tracks[t].gameTitle}
        BY <2>2 DEF NoneMoved
      <3> QED
        BY <3>2, <3>4, <3>5 DEF Serves
    <2> QED
      BY <2>1, <2>2 DEF Swept
  <1> QED
    BY <1>1, LinksInvHolds, CompleteInvHolds, PTL

-----------------------------------------------------------------------------
(***************************************************************************)
(* A scan that has nothing to do.  An entry that has another game than its *)
(* gameTitle keeps one as long as its file is there; as long as there is   *)
(* none, and no two tracks look alike, a whole scan leaves every track     *)
(* with an entry of its own place and tag, which nothing moves away, and   *)
(* the next scan finds it there.                                           *)
(***************************************************************************)
Apart ==
    \A p \in DOMAIN storage : \A n \in DOMAIN storage[p] :
      \A q \in DOMAIN storage : \A m \in DOMAIN storage[q] :
        /\ storage[p][n].title = storage[q][m].title
        /\ storage[p][n].game = storage[q][m].game
        => p = q /\ n = m

\* It has not the game of its gameTitle, and will not get it.
Misplaced(t) ==
    /\ tracks[t].game # tracks[t].gameTitle
    /\ ~(scan.pc \in {"game", "link"} /\ scan.id = t)

SomeMisplaced ==
    \E t \in DOMAIN tracks : Misplaced(t) /\ tracks[t].path \in DOMAIN storage

\* The entry is what the scan would make of it.
Settled(t, p, n) ==
    /\ tracks[t].path = p /\ tracks[t].number = n
    /\ tracks[t].title = storage[p][n].title
    /\ tracks[t].gameTitle = storage[p][n].game
    /\ tracks[t].game = tracks[t].gameTitle
    /\ tracks[t].artistText = storage[p][n].artists

SettledSoFar ==
    \A p \in DOMAIN storage : \A n \in DOMAIN storage[p] :
      Done(p, n) => Pending(p, n) \/ \E t \in DOMAIN tracks : Settled(t, p, n)

AllSettled ==
    /\ \A p \in DOMAIN storage : \A n \in DOMAIN storage[p] :
         \E t \in DOMAIN tracks : Settled(t, p, n)
    /\ \A t \in DOMAIN tracks : tracks[t].path \in DOMAIN storage

NothingToAdd ==
    scan.pc \notin AddSteps /\ (scan.pc = "check" => scan.new = << >>)

\* The track that is being added has the tag of the file.
FreshTag ==
    scan.pc \in {"game", "link"} =>
      /\ tracks[scan.id].gameTitle = Adding.game
      /\ tracks[scan.id].artistText = Adding.artists

SettledInv ==
    /\ FreshTag
    /\ Apart /\ ~SomeMisplaced =>
         /\ rests > 0 => SettledSoFar
         /\ rests > 1 => /\ AllSettled /\ NothingToAdd
                         /\ OneEntryPerFile => ~report

-----------------------------------------------------------------------------
LEMMA SettledStays ==
    ASSUME storage' = storage, SameEntries, NEW p \in DOMAIN storage,
           NEW n \in DOMAIN storage[p], NEW t \in DOMAIN tracks,
           Settled(t, p, n)
    PROVE  t \in DOMAIN tracks' /\ Settled(t, p, n)'
  BY DEF SameEntries, Settled

LEMMA SettledSoFarStays ==
    ASSUME SettledSoFar, storage' = storage, SameEntries, SameDone
    PROVE  SettledSoFar'
  BY SettledStays DEF SettledSoFar, SameDone

LEMMA ApartStays ==
    ASSUME storage' = storage
    PROVE  Apart' <=> Apart
  BY DEF Apart

\* The steps that leave the entries, and their number, alone.
LEMMA SettledQuiet ==
    ASSUME SettledInv, storage' = storage, rests' = rests, SameEntries,
           DOMAIN tracks' \subseteq DOMAIN tracks, report' = report, SameDone,
           FreshTag', SomeMisplaced => SomeMisplaced',
           NothingToAdd => NothingToAdd'
    PROVE  SettledInv'
  <1> SUFFICES ASSUME Apart, ~SomeMisplaced
               PROVE  /\ rests > 0 => SettledSoFar'
                      /\ rests > 1 => /\ AllSettled' /\ NothingToAdd'
                                      /\ OneEntryPerFile' => ~report
    BY ApartStays DEF SettledInv
  <1>1. rests > 0 => SettledSoFar'
    BY SettledSoFarStays DEF SettledInv
  <1>2. ASSUME rests > 1
        PROVE  AllSettled' /\ NothingToAdd' /\ (OneEntryPerFile' => ~report)
    <2>1. AllSettled /\ NothingToAdd /\ (OneEntryPerFile => ~report)
      BY <1>2 DEF SettledInv
    <2>2. DOMAIN tracks' = DOMAIN tracks
          /\ \A t \in DOMAIN tracks : /\ tracks'[t].path = tracks[t].path
                                      /\ tracks'[t].number = tracks[t].number
      BY <2>1 DEF AllSettled, SameEntries
    <2>3. AllSettled'
      BY <2>1, <2>2, SettledStays DEF AllSettled
    <2>4. OneEntryPerFile' => OneEntryPerFile
      BY <2>2 DEF OneEntryPerFile
    <2> QED
      BY <2>1, <2>3, <2>4
  <1> QED
    BY <1>1, <1>2

\* The steps of addTrack: with nothing to add there are none.
LEMMA SettledAdding ==
    ASSUME SettledInv, scan.pc \in AddSteps, storage' = storage,
           rests' = rests, FreshTag', SomeMisplaced => SomeMisplaced',
           SettledSoFar /\ rests > 0 => SettledSoFar'
    PROVE  SettledInv'
  <1> SUFFICES ASSUME Apart, ~SomeMisplaced
               PROVE  (rests > 0 => SettledSoFar') /\ ~(rests > 1)
    BY ApartStays DEF SettledInv
  <1> QED
    BY DEF SettledInv, NothingToAdd

\* A misplaced entry stays one where its entry stays as it is.
LEMMA MisplacedStays ==
    ASSUME storage' = storage, SameEntries, SomeMisplaced,
           scan'.pc \in {"game", "link"} =>
             scan.pc \in {"game", "link"} /\ scan'.id = scan.id
    PROVE  SomeMisplaced'
  BY DEF SomeMisplaced, Misplaced, SameEntries

-----------------------------------------------------------------------------
LEMMA SettledInit == Init => SettledInv
  <1> SUFFICES ASSUME Init PROVE SettledInv
    OBVIOUS
  <1>1. rests = 0 /\ scan.pc = "idle"
    BY IdleFacts DEF Init
  <1> QED
    BY <1>1 DEF SettledInv, FreshTag

LEMMA SettledListener ==
    ASSUME LinksInv, SettledInv,
           PutFile \/ RemoveFile \/ Kill \/ UpdateThrows
    PROVE  SettledInv'
  <1>1. rests' = 0 /\ tracks' = tracks
    BY DEF PutFile, RemoveFile, Kill, UpdateThrows, db
  <1>2. scan' = scan \/ scan'.pc = "idle"
    BY IdleFacts DEF PutFile, RemoveFile, Kill, UpdateThrows
  <1>3. FreshTag'
    <2>1. CASE scan' = scan
      BY <1>1, <2>1 DEF SettledInv, FreshTag, Adding
    <2>2. CASE scan'.pc = "idle"
      BY <2>2 DEF FreshTag
    <2> QED
      BY <1>2, <2>1, <2>2
  <1> QED
    BY <1>1, <1>3 DEF SettledInv

\* Between two scans everything is done.
LEMMA SettledStartScan ==
    ASSUME LinksInv, CompleteInv, SettledInv, StartScan
    PROVE  SettledInv'
  <1>1. /\ UNCHANGED <<storage, db>> /\ scan.pc = "idle" /\ report' = FALSE
        /\ rests \in Nat
    BY DEF StartScan, LinksInv, Types, RestOK
  <1>2. SameEntries
    BY <1>1 DEF SameEntries, db
  <1>3. CASE realm = "stale"
    <2>1. scan' = scan /\ rests' = rests
      BY <1>3 DEF StartScan
    <2>2. Here' = Here
      BY <2>1 DEF Here
    <2>3. SameDone
      BY <2>1, <2>2 DEF SameDone, Done, Pending
    <2>4. FreshTag' /\ NothingToAdd'
      BY <1>1, <2>1 DEF FreshTag, NothingToAdd, AddSteps
    <2>5. SomeMisplaced => SomeMisplaced'
      BY <1>1, <1>2, <2>1, MisplacedStays
    <2>6. AllSettled => AllSettled'
      BY <1>1, <1>2, SettledStays DEF AllSettled, db
    <2>7. SettledSoFar => SettledSoFar'
      BY <1>1, <1>2, <2>3, SettledSoFarStays
    <2> QED
      BY <1>1, <2>1, <2>4, <2>5, <2>6, <2>7, ApartStays DEF SettledInv
  <1>4. CASE realm # "stale"
    <2> DEFINE first == [Idle EXCEPT !.pc = "walk", !.at = 1]
    <2>1. first.pc = "walk" /\ first.at = 1
      BY IdleFacts DEF Scans, Steps
    <2>2. scan' = first /\ rests' = rests + 1
      BY <1>4 DEF StartScan
    <2> HIDE DEF first
    <2>3. scan'.pc = "walk" /\ scan'.at = 1
      BY <2>1, <2>2
    <2>4. \A p, n : ~Done(p, n)'
      <3>1. 1..(1 - 1) = {}
        OBVIOUS
      <3> QED
        BY <2>3, <3>1 DEF Done, AddSteps
    <2>5. SettledSoFar'
      BY <2>4 DEF SettledSoFar
    <2>6. FreshTag' /\ NothingToAdd'
      BY <2>3 DEF FreshTag, NothingToAdd, AddSteps
    <2>7. SomeMisplaced => SomeMisplaced'
      BY <1>1, <1>2, <2>3, MisplacedStays
    <2>8. ASSUME rests' > 1, Apart, ~SomeMisplaced
          PROVE  AllSettled'
      <3>1. rests > 0
        BY <1>1, <2>2, <2>8
      <3>2. SettledSoFar /\ Swept
        BY <2>8, <3>1 DEF SettledInv, CompleteInv
      <3>3. \A p, n : Done(p, n) /\ ~Pending(p, n)
        BY <1>1 DEF Done, Pending, AddSteps
      <3>4. AllSettled
        BY <1>1, <3>2, <3>3 DEF SettledSoFar, Swept, AllSettled
      <3> QED
        BY <1>1, <1>2, <3>4, SettledStays DEF AllSettled, db
    <2> QED
      BY <1>1, <2>5, <2>6, <2>7, <2>8, ApartStays DEF SettledInv
  <1> QED
    BY <1>3, <1>4

LEMMA SettledWalk ==
    ASSUME LinksInv, SettledInv, ReadFile \/ WalkEnds
    PROVE  SettledInv'
  <1>1. /\ UNCHANGED <<storage, db, report, rests>> /\ scan \in Scans
        /\ scan.pc = "walk"
    BY WalkFacts DEF ReadFile, WalkEnds
  <1>2. SameEntries /\ DOMAIN tracks' = DOMAIN tracks
    BY <1>1 DEF SameEntries, db
  <1>3. \/ scan'.pc = "check" /\ scan'.new = << >>
        \/ scan'.pc \in {"walk", "tracks"}
    <2>1. CASE scan' = [scan EXCEPT !.pc = "check", !.number = 1,
                                    !.file = storage[Here], !.new = << >>]
      BY <1>1, <2>1 DEF Scans
    <2>2. CASE scan' = NextFile
      BY <1>1, <2>2 DEF NextFile, Scans
    <2>3. CASE scan' = [scan EXCEPT !.pc = "tracks", !.left = DOMAIN tracks]
      BY <1>1, <2>3 DEF Scans
    <2> QED
      BY <2>1, <2>2, <2>3 DEF ReadFile, WalkEnds
  <1>4. FreshTag' /\ NothingToAdd'
    BY <1>3 DEF FreshTag, NothingToAdd, AddSteps
  <1>5. SomeMisplaced => SomeMisplaced'
    BY <1>1, <1>2, <1>3, MisplacedStays
  <1> QED
    BY <1>1, <1>2, <1>4, <1>5, WalkSameDone, SettledQuiet

LEMMA SettledSweep ==
    ASSUME LinksInv, SettledInv, CheckTrack \/ TracksChecked \/ CheckGames
                                 \/ CheckArtists \/ ScanCompletes
    PROVE  SettledInv'
  <1>1. /\ UNCHANGED <<storage, report, rests>> /\ scan \in Scans
        /\ scan.pc \in {"tracks", "games", "names"}
    BY WalkFacts DEF CheckTrack, TracksChecked, CheckGames, CheckArtists,
                     ScanCompletes
  <1>2. scan'.pc \in {"tracks", "games", "names", "idle"}
    <2>1. \/ \E n \in scan.left : scan' = [scan EXCEPT !.left = scan.left \ {n}]
          \/ scan' = scan
          \/ scan' = [scan EXCEPT !.pc = "games"]
          \/ scan' = [scan EXCEPT !.pc = "names"]
          \/ scan' = Idle
      BY DEF CheckTrack, TracksChecked, CheckGames, CheckArtists,
             ScanCompletes
    <2> QED
      BY <1>1, <2>1, IdleFacts DEF Scans
  <1>3. SameEntries /\ DOMAIN tracks' \subseteq DOMAIN tracks
    <2>1. CASE CheckTrack
      <3>1. PICK n \in scan.left :
              IF tracks[n].path \in DOMAIN storage
              THEN UNCHANGED db
              ELSE tracks' = [t \in DOMAIN tracks \ {n} |-> tracks[t]]
        BY <2>1 DEF CheckTrack, Without
      <3> QED
        BY <3>1 DEF SameEntries, db
    <2>2. CASE TracksChecked \/ CheckGames \/ CheckArtists \/ ScanCompletes
      <3>1. tracks' = tracks
        BY <2>2 DEF TracksChecked, CheckGames, CheckArtists, ScanCompletes, db
      <3> QED
        BY <3>1 DEF SameEntries
    <2> QED
      BY <2>1, <2>2
  <1>4. FreshTag' /\ NothingToAdd'
    BY <1>2 DEF FreshTag, NothingToAdd, AddSteps
  <1>5. SomeMisplaced => SomeMisplaced'
    BY <1>1, <1>2, <1>3, MisplacedStays
  <1> QED
    BY <1>1, <1>2, <1>3, <1>4, <1>5, SweepSameDone, SettledQuiet

-----------------------------------------------------------------------------
\* The next track to check is not done.
LEMMA TagIsNext ==
    ASSUME LinksInv, OnceInv, scan.pc = "check", FileAtRest
    PROVE  /\ Here \in DOMAIN storage /\ scan.number \in DOMAIN storage[Here]
           /\ storage[Here][scan.number] = Tag
           /\ ~Done(Here, scan.number)
  <1>1. Here \in DOMAIN storage /\ scan.file = storage[Here]
    BY DEF FileAtRest
  <1>2. scan.number \in DOMAIN scan.file /\ scan.number \in Nat
        /\ scan.at \in DOMAIN Walk /\ scan.at \in Nat
    BY DEF LinksInv, Types, RestOK, Scans, Progress, AtFile
  <1>3. ~\E k \in 1..(scan.at - 1) : Walk[k] = Here
    <2> SUFFICES ASSUME NEW k \in 1..(scan.at - 1), Walk[k] = Here
                 PROVE  FALSE
      OBVIOUS
    <2>1. k \in DOMAIN Walk /\ k # scan.at
      BY <1>2, LibraryAssumption
    <2> QED
      BY <1>2, <2>1, LibraryAssumption DEF IsInjective, Here
  <1> QED
    BY <1>1, <1>2, <1>3 DEF Done, AddSteps, Tag

\* A settled entry is the one that is found for its track.
LEMMA SettledIsFound ==
    ASSUME LinksInv, OnceInv, scan.pc = "check", FileAtRest,
           NEW t \in DOMAIN tracks, Settled(t, Here, scan.number)
    PROVE  t \in AtPath
  BY CheckFacts DEF Settled

LEMMA SettledNoCandidate ==
    ASSUME LinksInv, OnceInv, CompleteInv, SettledInv, NoCandidate
    PROVE  SettledInv'
  <1>1. /\ scan.pc = "check" /\ scan' = Checked(TRUE) /\ storage' = storage
        /\ tracks' = tracks /\ rests' = rests /\ rests \in Nat
        /\ AtPath = {}
    BY DEF NoCandidate, db, Candidates, LinksInv, Types, RestOK
  <1>2. scan'.pc \in {"walk", "check", "save"}
    BY <1>1, CheckedFacts DEF LinksInv
  <1>3. SameEntries
    BY <1>1 DEF SameEntries
  <1>4. SomeMisplaced => SomeMisplaced'
    BY <1>1, <1>2, <1>3, MisplacedStays
  <1>5. FreshTag'
    BY <1>2 DEF FreshTag
  <1>6. ASSUME rests > 0, Apart, ~SomeMisplaced
        PROVE  SettledSoFar' /\ ~(rests > 1)
    <2>1. SettledSoFar /\ FileAtRest
      BY <1>6 DEF SettledInv, CompleteInv
    <2>2. /\ \A p \in DOMAIN storage : \A n \in DOMAIN storage[p] :
               Done(p, n)' => Done(p, n) \/ (p = Here /\ n = scan.number)
          /\ \A p, n : Pending(p, n) => Pending(p, n)'
          /\ \A p, n : p = Here /\ n = scan.number => Pending(p, n)'
      BY <1>1, <2>1, DoneChecked
    <2>3. SettledSoFar'
      BY <1>1, <1>3, <2>1, <2>2, SettledStays DEF SettledSoFar
    <2>4. ~AllSettled
      BY <1>1, <2>1, TagIsNext, SettledIsFound DEF AllSettled
    <2> QED
      BY <1>6, <2>3, <2>4 DEF SettledInv
  <1>7. ASSUME rests > 1
        PROVE  rests > 0
    BY <1>1, <1>7
  <1> QED
    BY <1>1, <1>4, <1>5, <1>6, <1>7, ApartStays DEF SettledInv

\* What updateTrack makes of an entry.
LEMMA UpdateTexts ==
    ASSUME LinksInv, OnceInv, UpdateTrack
    PROVE  \E n \in Candidates :
             /\ n \in DOMAIN tracks /\ DOMAIN tracks' = DOMAIN tracks
             /\ \A t \in DOMAIN tracks : t # n => tracks'[t] = tracks[t]
             /\ tracks'[n] = Updated(n)
             /\ Updated(n).path = Here /\ Updated(n).number = scan.number
             /\ Updated(n).title = Tag.title
             /\ Updated(n).artistText = Tag.artists
             /\ Updated(n).gameTitle = tracks[n].gameTitle
             /\ Updated(n).game = IF Regamed(n) THEN Tag.game
                                  ELSE tracks[n].game
             /\ scan' = Checked(tracks'[n].game = None)
             /\ report' = (\/ report
                           \/ AtPath = {}
                           \/ Regamed(n)
                           \/ tracks'[n] # tracks[n])
  <1>1. PICK n \in Candidates :
          /\ tracks' = [tracks EXCEPT ![n] = Updated(n)]
          /\ report' = (\/ report
                        \/ AtPath = {}
                        \/ Regamed(n)
                        \/ tracks'[n] # tracks[n])
          /\ scan' = Checked(tracks'[n].game = None)
    BY DEF UpdateTrack
  <1>2. scan.pc = "check"
    BY DEF UpdateTrack
  <1>3. n \in DOMAIN tracks
    BY DEF Candidates, AtPath, SameTag
  <1>4. tracks[n] \in TrackObjects
    BY <1>2, <1>3, CheckFacts
  <1>5. /\ Updated(n).path = Here /\ Updated(n).number = scan.number
        /\ Updated(n).title = Tag.title
        /\ Updated(n).artistText = Tag.artists
        /\ Updated(n).gameTitle = tracks[n].gameTitle
        /\ Updated(n).game = IF Regamed(n) THEN Tag.game ELSE tracks[n].game
    BY <1>4 DEF Updated, TrackObjects
  <1>6. /\ DOMAIN tracks' = DOMAIN tracks /\ tracks'[n] = Updated(n)
        /\ \A t \in DOMAIN tracks : t # n => tracks'[t] = tracks[t]
    BY <1>1, <1>3 DEF LinksInv, Types, TracksOK
  <1> HIDE DEF Candidates, Updated, AtPath, Regamed
  <1> QED
    BY <1>1, <1>3, <1>5, <1>6

\* An entry that is what the tag says is not changed by it.
LEMMA UpdateOfSettled ==
    ASSUME LinksInv, OnceInv, scan.pc = "check", FileAtRest,
           NEW n \in DOMAIN tracks, Settled(n, Here, scan.number)
    PROVE  Updated(n) = tracks[n] /\ ~Regamed(n)
  <1>1. tracks[n] \in TrackObjects
    BY CheckFacts
  <1>2. storage[Here][scan.number] = Tag
    BY TagIsNext
  <1>3. /\ tracks[n].path = Here /\ tracks[n].number = scan.number
        /\ tracks[n].title = Tag.title /\ tracks[n].gameTitle = Tag.game
        /\ tracks[n].artistText = Tag.artists
    BY <1>2 DEF Settled
  <1>4. ~Regamed(n) /\ Added(n) = {}
    BY <1>3 DEF Regamed, Added
  <1>5. Updated(n) =
          [tracks[n] EXCEPT !.title = tracks[n].title, !.path = tracks[n].path,
                            !.number = tracks[n].number,
                            !.artistText = tracks[n].artistText,
                            !.artists = tracks[n].artists,
                            !.game = tracks[n].game]
    BY <1>3, <1>4 DEF Updated
  <1>6. Updated(n) = tracks[n]
    BY <1>1, <1>5 DEF TrackObjects
  <1> QED
    BY <1>4, <1>6

\* A check that finds its track leaves an empty list empty.
LEMMA CheckedEmpty ==
    ASSUME LinksInv, scan.pc = "check", scan.new = << >>,
           NEW isNew \in BOOLEAN, ~isNew, scan' = Checked(isNew)
    PROVE  /\ scan'.pc \in {"walk", "check"}
           /\ scan'.pc = "check" => scan'.new = << >>
  <1>1. PICK new \in Seq(Nat) :
             /\ new = IF isNew THEN Append(scan.new, scan.number) ELSE scan.new
             /\ \/ /\ scan.number < Len(scan.file)
                   /\ scan'.pc = "check" /\ scan'.at = scan.at
                   /\ scan'.number = scan.number + 1
                   /\ scan'.file = scan.file /\ scan'.new = new
                \/ /\ ~(scan.number < Len(scan.file))
                   /\ scan'.pc = "save" /\ scan'.at = scan.at
                   /\ scan'.file = scan.file /\ scan'.new = new
                \/ /\ ~(scan.number < Len(scan.file)) /\ new = << >>
                   /\ scan'.pc = "walk" /\ scan'.at = scan.at + 1
    BY CheckedCases DEF LinksInv
  <1>2. new = << >>
    BY <1>1
  <1>3. scan'.pc # "save"
    <2>1. scan.pc = "check" /\ Types /\ Progress
      BY DEF LinksInv
    <2>2. scan'.pc = "save" => scan'.new # << >>
      BY <2>1, CheckedFacts
    <2> QED
      BY <1>1, <1>2, <2>2
  <1> QED
    BY <1>1, <1>2, <1>3

LEMMA SettledUpdateTrack ==
    ASSUME LinksInv, OnceInv, CompleteInv, SettledInv, UpdateTrack
    PROVE  SettledInv'
  <1>1. PICK n \in Candidates :
             /\ n \in DOMAIN tracks /\ DOMAIN tracks' = DOMAIN tracks
             /\ \A t \in DOMAIN tracks : t # n => tracks'[t] = tracks[t]
             /\ tracks'[n] = Updated(n)
             /\ Updated(n).path = Here /\ Updated(n).number = scan.number
             /\ Updated(n).title = Tag.title
             /\ Updated(n).artistText = Tag.artists
             /\ Updated(n).gameTitle = tracks[n].gameTitle
             /\ Updated(n).game = IF Regamed(n) THEN Tag.game
                                  ELSE tracks[n].game
             /\ scan' = Checked(tracks'[n].game = None)
             /\ report' = (\/ report
                           \/ AtPath = {}
                           \/ Regamed(n)
                           \/ tracks'[n] # tracks[n])
    BY UpdateTexts
  <1>2. /\ scan.pc = "check" /\ storage' = storage /\ rests' = rests
        /\ rests \in Nat /\ report \in BOOLEAN
    BY DEF UpdateTrack, LinksInv, Types, RestOK
  <1> DEFINE isNew == tracks'[n].game = None
  <1>3. isNew \in BOOLEAN /\ scan' = Checked(isNew)
    BY <1>1
  <1>4. isNew <=> tracks'[n].game = None
    OBVIOUS
  <1> HIDE DEF isNew
  <1>5. scan'.pc \in {"walk", "check", "save"}
    BY <1>2, <1>3, CheckedFacts DEF LinksInv
  <1>6. FreshTag'
    BY <1>5 DEF FreshTag
  <1>7. Tag \in Tags /\ tracks[n] \in TrackObjects
        /\ tracks[n].gameTitle # None
    <2>1. Tag \in Tags /\ tracks[n] \in TrackObjects
      BY <1>1, <1>2, CheckFacts
    <2>2. tracks[n].gameTitle \in Games
      BY <2>1 DEF TrackObjects
    <2> QED
      BY <2>1, <2>2, LibraryAssumption
  <1>8. ASSUME rests > 0, SomeMisplaced
        PROVE  SomeMisplaced'
    <2>1. Here \in DOMAIN storage
      BY <1>2, <1>8 DEF CompleteInv, FileAtRest
    <2>2. PICK t \in DOMAIN tracks : Misplaced(t) /\ tracks[t].path \in DOMAIN storage
      BY <1>8 DEF SomeMisplaced
    <2>3. tracks[t].game # tracks[t].gameTitle
      BY <2>2 DEF Misplaced
    <2>4. tracks'[t].game # tracks'[t].gameTitle /\ tracks'[t].path \in DOMAIN storage
      <3>1. CASE t = n
        BY <1>1, <2>1, <2>3, <3>1 DEF Regamed
      <3>2. CASE t # n
        BY <1>1, <2>2, <2>3, <3>2
      <3> QED
        BY <3>1, <3>2
    <2> QED
      BY <1>1, <1>2, <1>5, <2>4 DEF SomeMisplaced, Misplaced
  <1>9. ASSUME rests > 0, Apart, ~SomeMisplaced'
        PROVE  /\ SettledSoFar'
               /\ rests > 1 => /\ AllSettled' /\ NothingToAdd'
                               /\ OneEntryPerFile' => ~report'
    <2>1. ~SomeMisplaced
      BY <1>8, <1>9
    <2>2. SettledSoFar /\ FileAtRest
      BY <1>9, <2>1 DEF SettledInv, CompleteInv
    <2>3. /\ Here \in DOMAIN storage /\ scan.number \in DOMAIN storage[Here]
          /\ storage[Here][scan.number] = Tag
          /\ ~Done(Here, scan.number)
      BY <1>2, <2>2, TagIsNext
    <2>4. Updated(n).game = Updated(n).gameTitle
      BY <1>1, <1>2, <1>5, <1>9, <2>3 DEF SomeMisplaced, Misplaced
    <2>5. ~Regamed(n) /\ tracks[n].gameTitle = Tag.game
          /\ tracks[n].game = tracks[n].gameTitle /\ ~isNew
      BY <1>1, <1>4, <1>7, <2>4 DEF Regamed
    <2>6. \A p, m : p = Here /\ m = scan.number => Settled(n, p, m)'
      BY <1>1, <1>2, <2>3, <2>4, <2>5 DEF Settled
    <2>7. ASSUME NEW p \in DOMAIN storage, NEW m \in DOMAIN storage[p],
                 NEW t \in DOMAIN tracks, Settled(t, p, m)
          PROVE  \E u \in DOMAIN tracks' : Settled(u, p, m)'
      <3>1. CASE t # n
        <4>1. tracks'[t] = tracks[t] /\ t \in DOMAIN tracks'
          BY <1>1, <3>1
        <4>2. Settled(t, p, m)'
          BY <1>2, <2>7, <4>1 DEF Settled
        <4> QED
          BY <4>1, <4>2
      <3>2. CASE t = n /\ ~(p = Here /\ m = scan.number)
        <4>1. n \notin AtPath
          BY <1>2, <2>7, <3>2, CheckFacts DEF Settled
        <4>2. AtPath = {} /\ tracks[n].title = Tag.title
          BY <4>1 DEF Candidates, SameTag
        <4>3. storage[p][m].title = Tag.title /\ storage[p][m].game = Tag.game
          BY <2>5, <2>7, <3>2, <4>2 DEF Settled
        <4>4. p = Here /\ m = scan.number
          BY <1>9, <2>3, <4>3 DEF Apart
        <4> QED
          BY <3>2, <4>4
      <3>3. CASE t = n /\ p = Here /\ m = scan.number
        BY <1>1, <2>6, <3>3
      <3> QED
        BY <3>1, <3>2, <3>3
    <2>8. SettledSoFar'
      <3>1. /\ \A p \in DOMAIN storage : \A m \in DOMAIN storage[p] :
                 Done(p, m)' => Done(p, m) \/ (p = Here /\ m = scan.number)
            /\ \A p, m : Pending(p, m) => Pending(p, m)'
        BY <1>2, <1>3, <2>2, DoneChecked
      <3> SUFFICES ASSUME NEW p \in DOMAIN storage, NEW m \in DOMAIN storage[p],
                          Done(p, m)', ~Pending(p, m)'
                   PROVE  \E u \in DOMAIN tracks' : Settled(u, p, m)'
        BY <1>2 DEF SettledSoFar
      <3>2. CASE Done(p, m)
        <4>1. PICK t \in DOMAIN tracks : Settled(t, p, m)
          BY <2>2, <3>1, <3>2 DEF SettledSoFar
        <4> QED
          BY <2>7, <4>1
      <3>3. CASE p = Here /\ m = scan.number
        BY <1>1, <2>6, <3>3
      <3> QED
        BY <3>1, <3>2, <3>3
    <2>9. ASSUME rests > 1
          PROVE  /\ AllSettled' /\ NothingToAdd'
                 /\ OneEntryPerFile' => ~report'
      <3>1. AllSettled /\ NothingToAdd /\ (OneEntryPerFile => ~report)
        BY <1>9, <2>1, <2>9 DEF SettledInv
      <3>2. \A t \in DOMAIN tracks' : tracks'[t].path \in DOMAIN storage'
        BY <1>1, <1>2, <2>3, <3>1 DEF AllSettled
      <3>3. AllSettled'
        BY <1>2, <2>7, <3>1, <3>2 DEF AllSettled
      <3>4. NothingToAdd'
        <4>1. scan.new = << >>
          BY <1>2, <3>1 DEF NothingToAdd
        <4>2. scan'.pc \in {"walk", "check"} /\ (scan'.pc = "check" => scan'.new = << >>)
          BY <1>2, <1>3, <2>5, <4>1, CheckedEmpty
        <4> QED
          BY <4>2 DEF NothingToAdd, AddSteps
      <3>5. PICK e \in DOMAIN tracks : Settled(e, Here, scan.number)
        BY <2>3, <3>1 DEF AllSettled
      <3>6. e \in AtPath
        BY <1>2, <2>2, <3>5, SettledIsFound
      <3>7. n \in AtPath
        BY <3>6 DEF Candidates
      <3>8. \A t \in DOMAIN tracks : /\ tracks'[t].path = tracks[t].path
                                     /\ tracks'[t].number = tracks[t].number
        BY <1>1, <1>2, <3>7, CheckFacts
      <3>9. OneEntryPerFile' => OneEntryPerFile
        BY <1>1, <3>8 DEF OneEntryPerFile
      <3>10. OneEntryPerFile => n = e
        BY <1>2, <3>6, <3>7, CheckFacts DEF OneEntryPerFile
      <3>11. n = e => tracks'[n] = tracks[n]
        BY <1>1, <1>2, <2>2, <3>5, UpdateOfSettled
      <3>12. AtPath # {}
        BY <3>6
      <3>13. OneEntryPerFile' => ~report'
        BY <1>1, <2>5, <3>1, <3>9, <3>10, <3>11, <3>12
      <3> QED
        BY <3>3, <3>4, <3>13
    <2> QED
      BY <2>8, <2>9
  <1>10. ASSUME rests > 1
         PROVE  rests > 0
    BY <1>2, <1>10
  <1> QED
    BY <1>2, <1>6, <1>9, <1>10, ApartStays DEF SettledInv

-----------------------------------------------------------------------------
LEMMA SettledSaveTrack ==
    ASSUME LinksInv, SettledInv, SaveTrack
    PROVE  SettledInv'
  <1>0. PICK n : n = count.saved + 1
    OBVIOUS
  <1> DEFINE r == [path |-> Here, number |-> Head(scan.new),
                   title |-> Adding.title, gameTitle |-> Adding.game,
                   artistText |-> Adding.artists, game |-> None,
                   artists |-> {}]
  <1>1. /\ scan \in Scans /\ scan.pc = "save"
        /\ DOMAIN tracks \subseteq 1..count.saved /\ count.saved \in Nat
    BY DEF LinksInv, Types, RestOK, TracksOK, SaveTrack
  <1>2. n \in Nat /\ n \notin DOMAIN tracks
    BY <1>0, <1>1
  <1>3. /\ tracks' = [t \in DOMAIN tracks \cup {n} |-> IF t = n THEN r ELSE tracks[t]]
        /\ scan' = [scan EXCEPT !.pc = "game", !.id = n]
        /\ UNCHANGED <<storage, rests>>
    BY <1>0 DEF SaveTrack, With
  <1>4. r.gameTitle = Adding.game /\ r.artistText = Adding.artists
    OBVIOUS
  <1> HIDE DEF r
  <1>5. /\ tracks'[n] = r
        /\ \A t \in DOMAIN tracks : t \in DOMAIN tracks' /\ tracks'[t] = tracks[t]
    BY <1>2, <1>3
  <1>6. /\ scan'.pc = "game" /\ scan'.id = n /\ scan'.at = scan.at
        /\ scan'.new = scan.new /\ scan'.file = scan.file
    BY <1>1, <1>2, <1>3 DEF Scans
  <1>7. Adding' = Adding
    BY <1>6 DEF Adding
  <1>8. FreshTag'
    BY <1>4, <1>5, <1>6, <1>7 DEF FreshTag
  <1>9. SameEntries
    BY <1>5 DEF SameEntries
  <1>10. SettledSoFar => SettledSoFar'
    BY <1>1, <1>3, <1>6, <1>9, SettledSoFarStays, AddingSameDone DEF AddSteps
  <1>11. SomeMisplaced => SomeMisplaced'
    BY <1>2, <1>3, <1>5, <1>6 DEF SomeMisplaced, Misplaced
  <1> QED
    BY <1>1, <1>3, <1>8, <1>10, <1>11, SettledAdding DEF AddSteps

LEMMA SettledSaveGame ==
    ASSUME LinksInv, SettledInv, SaveGame
    PROVE  SettledInv'
  <1>1. /\ scan \in Scans /\ scan.pc = "game"
        /\ scan' = [scan EXCEPT !.pc = "link"]
        /\ UNCHANGED <<storage, tracks, rests>>
    BY WalkFacts DEF SaveGame
  <1>2. /\ scan'.pc = "link" /\ scan'.id = scan.id /\ scan'.at = scan.at
        /\ scan'.new = scan.new /\ scan'.file = scan.file
    BY <1>1 DEF Scans
  <1>3. Adding' = Adding
    BY <1>2 DEF Adding
  <1>4. FreshTag'
    BY <1>1, <1>2, <1>3 DEF SettledInv, FreshTag
  <1>5. SameEntries
    BY <1>1 DEF SameEntries
  <1>6. SettledSoFar => SettledSoFar'
    BY <1>1, <1>2, <1>5, SettledSoFarStays, AddingSameDone DEF AddSteps
  <1>7. SomeMisplaced => SomeMisplaced'
    BY <1>1, <1>2, <1>5, MisplacedStays
  <1> QED
    BY <1>1, <1>4, <1>6, <1>7, SettledAdding DEF AddSteps

\* The lists of artists are no matter of updateTrack's comparisons.
LEMMA ArtistsSameEntries ==
    ASSUME LinksInv, SaveArtist \/ LinkArtist
    PROVE  SameEntries
  <1>1. CASE SaveArtist
    BY <1>1 DEF SaveArtist, SameEntries
  <1>2. CASE LinkArtist
    <2>0. PICK n, a0 : n = scan.id /\ a0 = Head(scan.names)
      OBVIOUS
    <2>1. /\ n \in DOMAIN tracks
          /\ \A t \in DOMAIN tracks : tracks[t] \in TrackObjects
      BY <1>2, <2>0 DEF LinksInv, Types, TracksOK, LinkArtist, Progress
    <2>2. tracks' = [tracks EXCEPT ![n].artists = tracks[n].artists \cup {a0}]
      BY <1>2, <2>0 DEF LinkArtist
    <2>3. /\ DOMAIN tracks' = DOMAIN tracks
          /\ tracks'[n] = [tracks[n] EXCEPT !.artists = tracks[n].artists \cup {a0}]
          /\ \A t \in DOMAIN tracks : t # n => tracks'[t] = tracks[t]
      BY <2>1, <2>2 DEF LinksInv, Types, TracksOK
    <2>4. /\ tracks'[n].path = tracks[n].path
          /\ tracks'[n].number = tracks[n].number
          /\ tracks'[n].title = tracks[n].title
          /\ tracks'[n].game = tracks[n].game
          /\ tracks'[n].gameTitle = tracks[n].gameTitle
          /\ tracks'[n].artistText = tracks[n].artistText
      BY <2>1, <2>3 DEF TrackObjects
    <2> QED
      BY <2>3, <2>4 DEF SameEntries
  <1> QED
    BY <1>1, <1>2

LEMMA SettledArtists ==
    ASSUME LinksInv, SettledInv, SaveArtist \/ LinkArtist
    PROVE  SettledInv'
  <1>1. /\ scan \in Scans /\ scan.pc \in {"artists", "artist"}
        /\ UNCHANGED <<storage, rests>>
    BY WalkFacts DEF SaveArtist, LinkArtist
  <1>2. \/ scan' = [scan EXCEPT !.pc = "artist", !.names = Adding.artists]
        \/ scan' = [scan EXCEPT !.names = Tail(scan.names)]
    BY DEF SaveArtist, LinkArtist
  <1>3. /\ scan'.pc \in {"artists", "artist"} /\ scan'.at = scan.at
        /\ scan'.new = scan.new /\ scan'.file = scan.file
    BY <1>1, <1>2 DEF Scans
  <1>4. SameEntries
    BY ArtistsSameEntries
  <1>5. FreshTag'
    BY <1>3 DEF FreshTag
  <1>6. SettledSoFar => SettledSoFar'
    BY <1>1, <1>3, <1>4, SettledSoFarStays, AddingSameDone DEF AddSteps
  <1>7. SomeMisplaced => SomeMisplaced'
    BY <1>1, <1>3, <1>4, MisplacedStays
  <1> QED
    BY <1>1, <1>5, <1>6, <1>7, SettledAdding DEF AddSteps

LEMMA SettledLinkGame ==
    ASSUME LinksInv, CompleteInv, SettledInv, LinkGame
    PROVE  SettledInv'
  <1>0. PICK m, g0 : m = scan.id /\ g0 = Adding.game
    OBVIOUS
  <1>1. /\ scan \in Scans /\ scan.pc = "link" /\ rests \in Nat
        /\ m \in DOMAIN tracks /\ tracks[m].game = None
        /\ \A t \in DOMAIN tracks : tracks[t] \in TrackObjects
    BY <1>0 DEF LinksInv, Types, RestOK, TracksOK, LinkGame, Progress
  <1>2. /\ tracks' = [tracks EXCEPT ![m].game = g0]
        /\ scan' = [scan EXCEPT !.pc = "artists", !.names = Adding.artists]
        /\ UNCHANGED <<storage, rests>>
    BY <1>0 DEF LinkGame
  <1>3. /\ scan'.pc = "artists" /\ scan'.at = scan.at
        /\ scan'.new = scan.new /\ scan'.file = scan.file
    BY <1>1, <1>2 DEF Scans
  <1>4. Here' = Here
    BY <1>3 DEF Here
  <1>5. /\ tracks[m].path = Here
        /\ tracks[m].title = Adding.title
        /\ tracks[m].gameTitle = Adding.game
        /\ tracks[m].artistText = Adding.artists
        /\ tracks[m].number = scan.new[1]
        /\ Adding = scan.file[scan.new[1]] /\ 1 \in DOMAIN scan.new
    BY <1>0, <1>1, NewFacts DEF CompleteInv, Fresh, SettledInv, FreshTag,
                                AddSteps, Adding
  <1>6. /\ DOMAIN tracks' = DOMAIN tracks
        /\ tracks'[m] = [tracks[m] EXCEPT !.game = g0]
        /\ \A t \in DOMAIN tracks : t # m => tracks'[t] = tracks[t]
    BY <1>1, <1>2 DEF LinksInv, Types, TracksOK
  <1>7. /\ tracks'[m].game = g0 /\ tracks'[m].path = tracks[m].path
        /\ tracks'[m].number = tracks[m].number
        /\ tracks'[m].title = tracks[m].title
        /\ tracks'[m].gameTitle = tracks[m].gameTitle
        /\ tracks'[m].artistText = tracks[m].artistText
    BY <1>1, <1>6 DEF TrackObjects
  <1>8. FreshTag'
    BY <1>3 DEF FreshTag
  <1>9. SomeMisplaced => SomeMisplaced'
    <2> SUFFICES ASSUME NEW t \in DOMAIN tracks, Misplaced(t),
                        tracks[t].path \in DOMAIN storage
                 PROVE  SomeMisplaced'
      BY DEF SomeMisplaced
    <2>1. t # m
      BY <1>0, <1>1 DEF Misplaced
    <2> QED
      BY <1>2, <1>3, <1>6, <2>1 DEF SomeMisplaced, Misplaced
  <1>10. ASSUME rests > 0, SettledSoFar
         PROVE  SettledSoFar'
    <2> SUFFICES ASSUME NEW p \in DOMAIN storage, NEW n \in DOMAIN storage[p],
                        Done(p, n)', ~Pending(p, n)'
                 PROVE  \E t \in DOMAIN tracks' : Settled(t, p, n)'
      BY <1>2 DEF SettledSoFar
    <2>1. Done(p, n)
      BY <1>1, <1>3, <1>4 DEF Done, AddSteps
    <2>2. scan.file = storage[Here]
      BY <1>1, <1>10 DEF CompleteInv, FileAtRest, AddSteps
    <2>3. CASE Pending(p, n)
      <3>1. p = Here /\ n = scan.new[1]
        BY <1>1, <1>3, <1>4, <2>3 DEF Pending, AddSteps
      <3>2. storage'[p][n] = Adding
        BY <1>2, <1>5, <2>2, <3>1
      <3>3. Settled(m, p, n)'
        BY <1>0, <1>5, <1>7, <3>1, <3>2 DEF Settled
      <3> QED
        BY <1>1, <1>6, <3>3
    <2>4. CASE ~Pending(p, n)
      <3>1. PICK t \in DOMAIN tracks : Settled(t, p, n)
        BY <1>10, <2>1, <2>4 DEF SettledSoFar
      <3>2. t # m
        <4>1. storage[p][n].game # None
          BY WalkFacts, TagFacts
        <4> QED
          BY <1>1, <3>1, <4>1 DEF Settled
      <3>3. tracks'[t] = tracks[t]
        BY <1>6, <3>2
      <3>4. Settled(t, p, n)'
        BY <1>2, <3>1, <3>3 DEF Settled
      <3> QED
        BY <1>6, <3>4
    <2> QED
      BY <2>3, <2>4
  <1> QED
    BY <1>1, <1>2, <1>8, <1>9, <1>10, SettledAdding DEF AddSteps

LEMMA SettledAddReturns ==
    ASSUME LinksInv, SettledInv, AddReturns
    PROVE  SettledInv'
  <1>1. /\ scan \in Scans /\ scan.pc = "artist"
        /\ UNCHANGED <<storage, tracks, rests>>
    BY WalkFacts DEF AddReturns, db
  <1>2. SameEntries
    BY <1>1 DEF SameEntries
  <1>3. scan'.pc \in {"save", "walk"}
    BY <1>1, NextFileFacts DEF AddReturns, LinksInv, Scans
  <1>4. FreshTag'
    BY <1>3 DEF FreshTag
  <1>5. SomeMisplaced => SomeMisplaced'
    BY <1>1, <1>2, <1>3, MisplacedStays
  <1>6. SettledSoFar => SettledSoFar'
    BY <1>1, <1>2, AddReturnsSameDone, SettledSoFarStays
  <1> QED
    BY <1>1, <1>4, <1>5, <1>6, SettledAdding DEF AddSteps

-----------------------------------------------------------------------------
LEMMA SettledStep ==
    LinksInv /\ OnceInv /\ CompleteInv /\ SettledInv /\ [Next]_vars
      => SettledInv'
  <1> SUFFICES ASSUME LinksInv, OnceInv, CompleteInv, SettledInv, [Next]_vars
               PROVE  SettledInv'
    OBVIOUS
  <1>1. CASE UNCHANGED vars
    <2>1. /\ scan' = scan /\ tracks' = tracks /\ storage' = storage
          /\ rests' = rests /\ report' = report
      BY <1>1 DEF vars
    <2>2. Here' = Here /\ Adding' = Adding
      BY <2>1 DEF Here, Adding
    <2>3. SameEntries /\ DOMAIN tracks' \subseteq DOMAIN tracks
      BY <2>1 DEF SameEntries
    <2>4. SameDone
      BY <2>1, <2>2 DEF SameDone, Done, Pending
    <2>5. FreshTag' /\ (NothingToAdd => NothingToAdd')
      BY <2>1, <2>2 DEF SettledInv, FreshTag, NothingToAdd
    <2>6. SomeMisplaced => SomeMisplaced'
      BY <2>1, <2>3, MisplacedStays
    <2> QED
      BY <2>1, <2>3, <2>4, <2>5, <2>6, SettledQuiet
  <1>2. CASE Next
    BY <1>2, SettledListener, SettledStartScan, SettledWalk, SettledSweep,
       SettledNoCandidate, SettledUpdateTrack, SettledSaveTrack,
       SettledSaveGame, SettledArtists, SettledLinkGame, SettledAddReturns
       DEF Next
  <1> QED
    BY <1>1, <1>2

LEMMA SettledInvHolds == Spec => []SettledInv
  BY SettledInit, SettledStep, LinksInvHolds, OnceInvHolds, CompleteInvHolds,
     PTL DEF Spec

(***************************************************************************)
(* A second scan of a storage that has not changed reports nothing, where  *)
(* the library can tell its tracks apart (UpToDate), for any storage, any  *)
(* tags and whatever came before the first of the two.                     *)
(***************************************************************************)
THEOREM SecondScanIsQuiet == Spec => []UpToDate
  <1>1. LinksInv /\ SettledInv => UpToDate
    <2> SUFFICES ASSUME LinksInv, SettledInv, scan.pc = "idle", rests > 1,
                        Distinct
                 PROVE  ~report
      BY DEF UpToDate
    <2>1. Apart
      <3> SUFFICES ASSUME NEW p \in DOMAIN storage, NEW n \in DOMAIN storage[p],
                          NEW q \in DOMAIN storage, NEW m \in DOMAIN storage[q],
                          storage[p][n].title = storage[q][m].title,
                          storage[p][n].game = storage[q][m].game
                   PROVE  p = q /\ n = m
        BY DEF Apart
      <3>1. <<p, n>> \in Stored /\ <<q, m>> \in Stored
        BY DEF Stored
      <3>2. TagOf(<<p, n>>) = storage[p][n] /\ TagOf(<<q, m>>) = storage[q][m]
        BY DEF TagOf
      <3>3. <<p, n>> = <<q, m>>
        BY <3>1, <3>2 DEF Distinct
      <3> QED
        BY <3>3
    <2>2. ~SomeMisplaced /\ OneEntryPerFile
      BY DEF Distinct, SomeMisplaced, Misplaced
    <2> QED
      BY <2>1, <2>2 DEF SettledInv
  <1> QED
    BY <1>1, LinksInvHolds, SettledInvHolds, PTL
=============================================================================
