----------------------------- MODULE LibraryScan -----------------------------
(***************************************************************************)
(* The library: LibraryScanner walks over the storage and brings the       *)
(* database of RealmRepository up to date, while the listener adds,        *)
(* changes and removes files and the process may be killed between any two *)
(* transactions.                                                           *)
(*                                                                         *)
(* A file is the sequence of the tags of its tracks: one track, or several *)
(* in the formats of EXTENSIONS_MULTI_TRACK, none if it cannot be read.  A *)
(* tag has a title, a game and the artists its text names; there is one    *)
(* platform.  Realm is external: a transaction is atomic, findFirst finds  *)
(* any match, a deleted object leaves every list, and a list that is       *)
(* changed while it is iterated over throws.                               *)
(***************************************************************************)
EXTENDS Naturals, SequencesExt

CONSTANTS
    Walk,       \* the paths, in the order of the walk
    MultiTrack, \* the paths of EXTENSIONS_MULTI_TRACK
    Contents,   \* for every path, the files a listener may put there
    None,       \* null
    MaxTracks,  \* bound: the tracks ever saved
    MaxScans,   \* bound: the scans that are started
    MaxEdits,   \* bound: the changes of the storage
    MaxKills    \* bound: the times the process is killed

Paths == Range(Walk)
Titles == {tag.title : tag \in UNION {Range(f) : f \in UNION Range(Contents)}}
Games == {tag.game : tag \in UNION {Range(f) : f \in UNION Range(Contents)}}
Artists == UNION {Range(tag.artists) : tag \in
                    UNION {Range(f) : f \in UNION Range(Contents)}}

ASSUME LibraryAssumption ==
    /\ Walk \in Seq(Paths) /\ IsInjective(Walk) /\ MultiTrack \subseteq Paths
    /\ Contents \in [Paths -> SUBSET Seq([title : Titles, game : Games,
                                          artists : Seq(Artists)])]
    /\ \A p \in Paths : \A f \in Contents[p] :
         p \notin MultiTrack => Len(f) <= 1
    /\ None \notin Paths \cup Titles \cup Games \cup Artists
    /\ {MaxTracks, MaxScans, MaxEdits, MaxKills} \subseteq Nat

VARIABLES
    storage,  \* the files that exist
    tracks,   \* the Track objects, by id
    games,    \* the tracks of every Game
    artists,  \* the tracks of every Artist
    scan,     \* the locals of scanLibrary and the calls it makes
    realm,    \* of the scanner's repository: "closed", "open", or "stale",
              \* open on the thread of a scan that has failed
    report,   \* whether ScanService has counted a new or an updated track
    rests,    \* the scans begun since a change of the storage, a kill or a failure
    count     \* what the bounds count

vars == <<storage, tracks, games, artists, scan, realm, report, rests, count>>
db == <<tracks, games, artists>>

\* The scanner does not run.
Idle == [pc |-> "idle", at |-> 0, number |-> 0, file |-> << >>,
         new |-> << >>, id |-> 0, names |-> << >>, left |-> {}]

Steps == {"idle", "walk", "check", "save", "game", "link", "artists",
          "artist", "tracks", "games", "names"}

TypeOK ==
    /\ DOMAIN storage \subseteq Paths
    /\ \A p \in DOMAIN storage : storage[p] \in Contents[p]
    /\ DOMAIN tracks \subseteq 1..MaxTracks
    /\ \A t \in DOMAIN tracks :
         tracks[t] \in [path : Paths, number : Nat, title : Titles,
                        gameTitle : Games, artistText : Seq(Artists),
                        game : Games \cup {None}, artists : SUBSET Artists]
    /\ DOMAIN games \subseteq Games /\ DOMAIN artists \subseteq Artists
    /\ Range(games) \cup Range(artists) \subseteq SUBSET DOMAIN tracks
    /\ scan.pc \in Steps
    /\ realm \in {"closed", "open", "stale"}
    /\ report \in BOOLEAN /\ rests \in Nat

-----------------------------------------------------------------------------
Init ==
    /\ storage = << >> /\ tracks = << >> /\ games = << >> /\ artists = << >>
    /\ scan = Idle
    /\ realm = "closed"
    /\ report = FALSE /\ rests = 0
    /\ count = [saved |-> 0, scans |-> 0, edits |-> 0, kills |-> 0]

Without(f, S) == [x \in DOMAIN f \ S |-> f[x]]

\* f with x mapped to y, new or not.
With(f, x, y) == [z \in DOMAIN f \cup {x} |-> IF z = x THEN y ELSE f[z]]

\* getGame, getArtistByName: find or create.
Found(f, x) == IF x \in DOMAIN f THEN f ELSE With(f, x, {})

(***************************************************************************)
(* The listener.                                                           *)
(***************************************************************************)
PutFile ==
    /\ count.edits < MaxEdits
    /\ \E p \in Paths : \E f \in Contents[p] :
         /\ p \in DOMAIN storage => storage[p] # f
         /\ storage' = With(storage, p, f)
    /\ rests' = 0
    /\ count' = [count EXCEPT !.edits = @ + 1]
    /\ UNCHANGED <<db, scan, realm, report>>

RemoveFile ==
    /\ count.edits < MaxEdits
    /\ \E p \in DOMAIN storage : storage' = Without(storage, {p})
    /\ rests' = 0
    /\ count' = [count EXCEPT !.edits = @ + 1]
    /\ UNCHANGED <<db, scan, realm, report>>

\* The process is killed: what was committed stays.
Kill ==
    /\ scan.pc # "idle" \/ realm = "stale"
    /\ count.kills < MaxKills
    /\ scan' = Idle
    /\ realm' = "closed"
    /\ rests' = 0
    /\ count' = [count EXCEPT !.kills = @ + 1]
    /\ UNCHANGED <<storage, db, report>>

-----------------------------------------------------------------------------
(***************************************************************************)
(* scanLibrary and scanFolder.                                             *)
(***************************************************************************)
\* ScanService.onHandleIntent; reopen.  A repository that a failed scan has
\* left open belongs to another thread, and its first query throws.
StartScan ==
    /\ scan.pc = "idle" /\ count.scans < MaxScans
    /\ count' = [count EXCEPT !.scans = @ + 1]
    /\ IF realm = "stale"
       THEN UNCHANGED <<scan, realm, rests>>
       ELSE /\ scan' = [Idle EXCEPT !.pc = "walk", !.at = 1]
            /\ realm' = "open"
            /\ rests' = rests + 1
    /\ report' = FALSE
    /\ UNCHANGED <<storage, db>>

Here == Walk[scan.at]

NextFile == [scan EXCEPT !.pc = "walk", !.at = @ + 1]

\* readSingleTrack and readMultipleTracks read the file, unless it is gone
\* or cannot be read.
ReadFile ==
    /\ scan.pc = "walk" /\ scan.at <= Len(Walk)
    /\ \/ /\ Here \in DOMAIN storage /\ storage[Here] # << >>
          /\ scan' = [scan EXCEPT !.pc = "check", !.number = 1,
                                  !.file = storage[Here], !.new = << >>]
       \/ /\ Here \in DOMAIN storage => storage[Here] = << >>
          /\ scan' = NextFile
    /\ UNCHANGED <<storage, db, realm, report, rests, count>>

WalkEnds ==
    /\ scan.pc = "walk" /\ scan.at > Len(Walk)
    /\ scan' = [scan EXCEPT !.pc = "tracks", !.left = DOMAIN tracks]
    /\ UNCHANGED <<storage, db, realm, report, rests, count>>

-----------------------------------------------------------------------------
(***************************************************************************)
(* checkForExistingTrack and updateTrack.                                  *)
(***************************************************************************)
Tag == scan.file[scan.number]

\* Mutant: the number is not compared.
AtPathAnyNumber == {t \in DOMAIN tracks : tracks[t].path = Here}

\* Mutant: the number in the file counts from zero.
AtPathFromZero == {t \in DOMAIN tracks :
                     /\ tracks[t].path = Here
                     /\ Here \in MultiTrack => tracks[t].number + 1 = scan.number}

\* getTrackFromPath: in a file of many tracks also by the number.
AtPath == {t \in DOMAIN tracks :
             /\ tracks[t].path = Here
             /\ Here \in MultiTrack => tracks[t].number = scan.number}

\* getTrack: the title and the game it was saved with.
SameTag == {t \in DOMAIN tracks : /\ tracks[t].title = Tag.title
                                  /\ tracks[t].gameTitle = Tag.game}

\* Mutant: tracks are only looked for by their tag.
CandidatesByTag == SameTag

\* By the path; if there is none, by the tag, as a track that has moved.
Candidates == IF AtPath # {} THEN AtPath ELSE SameTag

Gone(t) == IF tracks[t].artistText = Tag.artists THEN {}
           ELSE tracks[t].artists \ Range(Tag.artists)

Added(t) == IF tracks[t].artistText = Tag.artists THEN {}
            ELSE Range(Tag.artists) \ tracks[t].artists

Regamed(t) == tracks[t].gameTitle # Tag.game

\* gameTitle is compared but never set.
Updated(t) ==
    [tracks[t] EXCEPT !.title = Tag.title, !.path = Here,
                      !.number = scan.number, !.artistText = Tag.artists,
                      !.artists = @ \cup Added(t),
                      !.game = IF Regamed(t) THEN Tag.game ELSE @]

\* The track is done, or is one to add: also when it exists without a game.
Checked(isNew) ==
    LET new == IF isNew THEN Append(scan.new, scan.number) ELSE scan.new
    IN  IF scan.number < Len(scan.file)
        THEN [scan EXCEPT !.number = @ + 1, !.new = new]
        ELSE IF new = << >> THEN NextFile
        ELSE [scan EXCEPT !.pc = "save", !.new = new]

\* Mutant: the track stays in the list of its old game.
RelinkedTwice(t) ==
    LET all == Found(games, Tag.game)
    IN  IF Regamed(t) THEN [all EXCEPT ![Tag.game] = @ \cup {t}] ELSE games

\* updateGame: from the list of the old game to that of the new one.
Relinked(t) ==
    LET off == [g \in DOMAIN games |-> IF g = tracks[t].game
                                       THEN games[g] \ {t} ELSE games[g]]
        all == Found(off, Tag.game)
    IN  IF Regamed(t) THEN [all EXCEPT ![Tag.game] = @ \cup {t}] ELSE games

\* updateArtists: the artists the text did not name before.
Credited(t) ==
    LET all == [a \in DOMAIN artists \cup Added(t) |->
                  IF a \in DOMAIN artists THEN artists[a] ELSE {}]
    IN  [a \in DOMAIN all |-> IF a \in Added(t) THEN all[a] \cup {t}
                              ELSE all[a]]

UpdateTrack ==
    /\ scan.pc = "check"
    /\ \E t \in Candidates :
         /\ Gone(t) = {}
         /\ tracks' = [tracks EXCEPT ![t] = Updated(t)]
         /\ games' = Relinked(t)
         /\ artists' = Credited(t)
         /\ report' = (\/ report
                       \/ AtPath = {}
                       \/ Regamed(t)
                       \/ tracks'[t] # tracks[t])
         /\ scan' = Checked(tracks'[t].game = None)
    /\ UNCHANGED <<storage, realm, rests, count>>

\* updateArtists takes an artist off the list it iterates over: the
\* exception leaves the transaction uncommitted, the scan unfinished and
\* the repository open.
UpdateThrows ==
    /\ scan.pc = "check"
    /\ \E t \in Candidates : Gone(t) # {}
    /\ scan' = Idle
    /\ realm' = "stale"
    /\ rests' = 0
    /\ UNCHANGED <<storage, db, report, count>>

NoCandidate ==
    /\ scan.pc = "check" /\ Candidates = {}
    /\ scan' = Checked(TRUE)
    /\ UNCHANGED <<storage, db, realm, report, rests, count>>

-----------------------------------------------------------------------------
(***************************************************************************)
(* addTrack, a transaction at a time.                                      *)
(***************************************************************************)
Adding == scan.file[Head(scan.new)]

\* save.  Bound: MaxTracks.
SaveTrack ==
    /\ scan.pc = "save" /\ count.saved < MaxTracks
    /\ LET id == count.saved + 1
       IN  /\ tracks' = With(tracks, id,
                          [path |-> Here, number |-> Head(scan.new),
                           title |-> Adding.title, gameTitle |-> Adding.game,
                           artistText |-> Adding.artists, game |-> None,
                           artists |-> {}])
           /\ scan' = [scan EXCEPT !.pc = "game", !.id = id]
    /\ count' = [count EXCEPT !.saved = @ + 1]
    /\ UNCHANGED <<storage, games, artists, realm, report, rests>>

\* getGame.
SaveGame ==
    /\ scan.pc = "game"
    /\ games' = Found(games, Adding.game)
    /\ scan' = [scan EXCEPT !.pc = "link"]
    /\ UNCHANGED <<storage, tracks, artists, realm, report, rests, count>>

LinkGame ==
    /\ scan.pc = "link"
    /\ tracks' = [tracks EXCEPT ![scan.id].game = Adding.game]
    /\ games' = [games EXCEPT ![Adding.game] = @ \cup {scan.id}]
    /\ scan' = [scan EXCEPT !.pc = "artists", !.names = Adding.artists]
    /\ UNCHANGED <<storage, artists, realm, report, rests, count>>

\* getArtistByName for every name, then one transaction for every artist.
SaveArtist ==
    /\ scan.pc = "artists"
    /\ IF scan.names = << >>
       THEN /\ scan' = [scan EXCEPT !.pc = "artist", !.names = Adding.artists]
            /\ UNCHANGED artists
       ELSE /\ scan' = [scan EXCEPT !.names = Tail(@)]
            /\ artists' = Found(artists, Head(scan.names))
    /\ UNCHANGED <<storage, tracks, games, realm, report, rests, count>>

LinkArtist ==
    /\ scan.pc = "artist" /\ scan.names # << >>
    /\ LET name == Head(scan.names)
       IN  /\ artists' = [artists EXCEPT ![name] = @ \cup {scan.id}]
           /\ tracks' = [tracks EXCEPT ![scan.id].artists = @ \cup {name}]
    /\ scan' = [scan EXCEPT !.names = Tail(@)]
    /\ UNCHANGED <<storage, games, realm, report, rests, count>>

AddReturns ==
    /\ scan.pc = "artist" /\ scan.names = << >>
    /\ report' = TRUE
    /\ scan' = IF Len(scan.new) > 1
               THEN [scan EXCEPT !.pc = "save", !.new = Tail(@)]
               ELSE NextFile
    /\ UNCHANGED <<storage, db, realm, rests, count>>

-----------------------------------------------------------------------------
(***************************************************************************)
(* checkForDeletion: tracks without a file, then games and artists without *)
(* tracks.                                                                 *)
(***************************************************************************)
\* Mutant: the lists keep a track that is deleted.
UnlistedNowhere(f, t) == f

\* deleteFromRealm, for the lists that held the track.
Unlisted(f, t) == [x \in DOMAIN f |-> f[x] \ {t}]

CheckTrack ==
    /\ scan.pc = "tracks"
    /\ \E t \in scan.left :
         /\ scan' = [scan EXCEPT !.left = @ \ {t}]
         /\ IF tracks[t].path \in DOMAIN storage
            THEN UNCHANGED db
            ELSE /\ tracks' = Without(tracks, {t})
                 /\ games' = Unlisted(games, t)
                 /\ artists' = Unlisted(artists, t)
    /\ UNCHANGED <<storage, realm, report, rests, count>>

TracksChecked ==
    /\ scan.pc = "tracks" /\ scan.left = {}
    /\ scan' = [scan EXCEPT !.pc = "games"]
    /\ UNCHANGED <<storage, db, realm, report, rests, count>>

Empty(f) == {x \in DOMAIN f : f[x] = {}}

CheckGames ==
    /\ scan.pc = "games"
    /\ IF Empty(games) = {}
       THEN scan' = [scan EXCEPT !.pc = "names"] /\ UNCHANGED games
       ELSE /\ \E g \in Empty(games) : games' = Without(games, {g})
            /\ UNCHANGED scan
    /\ UNCHANGED <<storage, tracks, artists, realm, report, rests, count>>

CheckArtists ==
    /\ scan.pc = "names" /\ Empty(artists) # {}
    /\ \E a \in Empty(artists) : artists' = Without(artists, {a})
    /\ UNCHANGED <<storage, tracks, games, scan, realm, report, rests, count>>

\* The scan is complete: close.
ScanCompletes ==
    /\ scan.pc = "names" /\ Empty(artists) = {}
    /\ scan' = Idle
    /\ realm' = "closed"
    /\ UNCHANGED <<storage, db, report, rests, count>>

-----------------------------------------------------------------------------
Next ==
    \/ PutFile \/ RemoveFile \/ Kill
    \/ StartScan \/ ReadFile \/ WalkEnds
    \/ UpdateTrack \/ UpdateThrows \/ NoCandidate
    \/ SaveTrack \/ SaveGame \/ LinkGame \/ SaveArtist \/ LinkArtist \/ AddReturns
    \/ CheckTrack \/ TracksChecked \/ CheckGames \/ CheckArtists \/ ScanCompletes

Spec == Init /\ [][Next]_vars

-----------------------------------------------------------------------------
\* The tracks on the storage, by the path and the number in the file.
Stored == UNION {{<<p, n>> : n \in DOMAIN storage[p]} : p \in DOMAIN storage}

TagOf(x) == storage[x[1]][x[2]]

(***************************************************************************)
(* A track has a game exactly if the game lists it, and an artist exactly  *)
(* if the artist lists it, between any two transactions of addTrack,       *)
(* updateTrack and deleteTrack, however scans were killed or failed.       *)
(***************************************************************************)
LinksAgree ==
    \A t \in DOMAIN tracks :
      /\ \A g \in DOMAIN games : t \in games[g] <=> tracks[t].game = g
      /\ \A a \in DOMAIN artists : t \in artists[a] <=> a \in tracks[t].artists
      /\ tracks[t].game \in DOMAIN games \cup {None}
      /\ tracks[t].artists \subseteq DOMAIN artists

\* No track has got another game than it was saved with: the gameTitle of
\* such a track stays the old one, and getTrack takes it for a track of it.
NoneMoved == \A t \in DOMAIN tracks : tracks[t].game \in {None, tracks[t].gameTitle}

(***************************************************************************)
(* After a whole scan of a storage at rest, whatever scans before it did   *)
(* not finish, every track on the storage has an entry with its title      *)
(* under its game, unless a track has moved to another game; no entry has  *)
(* a path without a file, and no game or artist is empty                   *)
(* (checkForExistingTrack, addTrack, checkForDeletion).                    *)
(***************************************************************************)
LibraryComplete ==
    scan.pc = "idle" /\ rests > 0 =>
      /\ NoneMoved => \A x \in Stored : \E t \in DOMAIN tracks :
           tracks[t].title = TagOf(x).title /\ tracks[t].game = TagOf(x).game
      /\ \A t \in DOMAIN tracks : tracks[t].path \in DOMAIN storage
      /\ {} \notin Range(games) \cup Range(artists)

\* No track of a file has two entries.
OneEntryPerFile ==
    \A t, u \in DOMAIN tracks :
      tracks[t].path = tracks[u].path /\ tracks[t].number = tracks[u].number
        => t = u

\* What a scan can tell apart: no two tracks with one title and game, no
\* track that has moved, or that a killed scan has left without its game, and
\* none of the second entries such a track gets, of which findFirst may find
\* another in every scan.
Distinct ==
    /\ \A x, y \in Stored :
         TagOf(x).title = TagOf(y).title /\ TagOf(x).game = TagOf(y).game
           => x = y
    /\ \A t \in DOMAIN tracks : tracks[t].game = tracks[t].gameTitle
    /\ OneEntryPerFile

(***************************************************************************)
(* A second scan of a storage that has not changed has nothing to report:  *)
(* "Your library is up to date" (FileScanCompleteEvent with two zeroes).   *)
(* A scan that reports an update for an unchanged file would do so forever *)
(* (the result of updateTrack, getTrackFromPath before getTrack).          *)
(***************************************************************************)
UpToDate ==
    scan.pc = "idle" /\ rests > 1 /\ Distinct => ~report

(***************************************************************************)
(* "Check if this track modifies one we already had." (LibraryScanner,     *)
(* checkForExistingTrack): as long as no scan is killed, no file is        *)
(* entered twice, not after changes of its tag, moves, copies, or changes  *)
(* in the middle of a scan.  A scan killed between save and the            *)
(* transaction that sets the game leaves an entry that is found but taken  *)
(* for none, and every later scan adds another.                            *)
(***************************************************************************)
OneEntryUnlessKilled == count.kills = 0 => OneEntryPerFile
=============================================================================
