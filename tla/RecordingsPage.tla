---------------------------- MODULE RecordingsPage ----------------------------
(***************************************************************************)
(* The student's recordings page (web/src/pages/student/Recordings.tsx):   *)
(* the list, its tabs and search, the selected recording and the progress  *)
(* its player saves, with answers that arrive after another recording was  *)
(* chosen.                                                                 *)
(***************************************************************************)
EXTENDS Integers, FiniteSets

CONSTANTS Uploaded, YouTube, External,  \* the recordings, by source
          SearchAbove,                  \* the search box is shown above this many (6 in the code)
          Watchable,                    \* seconds of an uploaded recording
          MaxShelfActs                  \* bound on what the student does
Catalogue == Uploaded \cup YouTube \cup External
NoRecording == 0
ASSUME ShelfAssumption ==
    /\ Catalogue \subseteq Nat \ {0} /\ SearchAbove \in Nat /\ Watchable \in Nat /\ MaxShelfActs \in Nat
    /\ Uploaded \cap YouTube = {} /\ Uploaded \cap External = {} /\ YouTube \cap External = {}

VARIABLES shelf,         \* the cohort's recordings, on the server
          watchedSaved,  \* WatchProgress rows: seconds watched, by uploaded recording
          onList,        \* s3Recordings and legacyRecordings
          watchedShown,  \* watch_progress of the rows on the page
          shelfLoading, listError,
          fromSaved,     \* showingSavedData
          picked,        \* selectedItem
          pickedAt,      \* the watch progress selectedItem was picked with
          played,        \* seconds the player has counted since, its start included
          tab, searching,  \* activeTab; query: NoRecording or the one recording it matches
          progressCalls, shelfActs
shelfVars == <<shelf, watchedSaved, onList, watchedShown, shelfLoading, listError, fromSaved, picked, pickedAt, played,
               tab, searching, progressCalls, shelfActs>>
listVars == <<onList, shelfLoading, listError, fromSaved>>
playerVars == <<picked, pickedAt, played>>

Unwatched == [r \in Uploaded |-> 0]
ShelfInit ==
    /\ shelf \in SUBSET Catalogue /\ watchedSaved = Unwatched
    /\ onList = {} /\ watchedShown = Unwatched /\ shelfLoading = TRUE /\ listError = FALSE /\ fromSaved = FALSE
    /\ picked = NoRecording /\ pickedAt = 0 /\ played = 0 /\ tab = "all" /\ searching = NoRecording
    /\ progressCalls = {} /\ shelfActs = 0

\* normalizeLegacyRecording, normalizeUploadedRecording: where an item belongs.
SourceOf(r) == CASE r \in Uploaded -> "uploaded" [] r \in YouTube -> "youtube" [] OTHER -> "external"
\* allRecordingsForTab; the tabs appear when there is more than one source.
InTab(t) == IF t = "all" THEN onList ELSE {r \in onList: SourceOf(r) = t}
TabsShown == Cardinality({SourceOf(r): r \in onList}) > 1
TabsOffered == {t \in {"all", "uploaded", "youtube", "external"}: t = "all" \/ InTab(t) # {}}
Playlist == IF searching = NoRecording THEN InTab(tab) ELSE InTab(tab) \cap {searching}
SearchOffered == Cardinality(InTab(tab)) > SearchAbove

\* What the page shows instead of, or around, the playlist.
ShelfView == CASE shelfLoading -> "loading"
               [] listError /\ onList = {} -> "retry"
               [] onList = {} -> "empty"
               [] OTHER -> "playlist"
\* LegacyPlayer: a YouTube recording is embedded, any other is a link.
PlayerFor(r) == CASE r = NoRecording -> "none" [] r \in Uploaded -> "player" [] r \in YouTube -> "iframe" [] OTHER -> "link"

ShelfAct == shelfActs < MaxShelfActs /\ shelfActs' = shelfActs + 1
\* setSelectedItem: the player of an uploaded recording is keyed by its id, so another one is
\* mounted with the progress the item was picked with.
Picks(r, shown) ==
    /\ picked' = r
    /\ pickedAt' = IF r \in Uploaded THEN shown[r] ELSE 0
    /\ played' = IF r = picked THEN played ELSE pickedAt'

(***************************************************************************)
(* loadRecordings: the answer may be an older copy the client kept.        *)
(***************************************************************************)
FirstOf(items) == IF items = {} THEN NoRecording
                 ELSE LET front == IF items \cap Uploaded # {} THEN items \cap Uploaded ELSE items
                      IN  CHOOSE r \in front: \A q \in front: r <= q
ShelfArrives(items, cached) ==
    /\ shelfLoading /\ shelfLoading' = FALSE
    /\ onList' = items /\ fromSaved' = cached /\ listError' = cached
    /\ watchedShown' = IF cached THEN Unwatched ELSE watchedSaved
    /\ Picks(FirstOf(items), watchedShown')
    /\ UNCHANGED <<shelf, watchedSaved, tab, searching, progressCalls, shelfActs>>
ListFails ==
    /\ shelfLoading /\ shelfLoading' = FALSE /\ listError' = TRUE
    /\ UNCHANGED <<shelf, watchedSaved, onList, watchedShown, fromSaved, tab, searching, progressCalls, shelfActs>>
    /\ UNCHANGED playerVars
RetryList ==
    /\ ShelfView = "retry" /\ ShelfAct /\ shelfLoading' = TRUE /\ listError' = FALSE /\ fromSaved' = FALSE
    /\ UNCHANGED <<shelf, watchedSaved, onList, watchedShown, tab, searching, progressCalls>> /\ UNCHANGED playerVars

(***************************************************************************)
(* The playlist.                                                           *)
(***************************************************************************)
Pick(r) ==
    /\ ShelfView = "playlist" /\ r \in Playlist /\ ShelfAct /\ Picks(r, watchedShown)
    /\ UNCHANGED <<shelf, watchedSaved, watchedShown, tab, searching, progressCalls>> /\ UNCHANGED listVars
SwitchTab(t) ==
    /\ ShelfView = "playlist" /\ TabsShown /\ t \in TabsOffered /\ t # tab /\ ShelfAct /\ tab' = t
    /\ UNCHANGED <<shelf, watchedSaved, watchedShown, searching, progressCalls>>
    /\ UNCHANGED listVars /\ UNCHANGED playerVars
Search(r) ==
    /\ ShelfView = "playlist" /\ SearchOffered /\ searching # r /\ ShelfAct /\ searching' = r
    /\ UNCHANGED <<shelf, watchedSaved, watchedShown, tab, progressCalls>>
    /\ UNCHANGED listVars /\ UNCHANGED playerVars

(***************************************************************************)
(* The player, and its saves.                                              *)
(***************************************************************************)
Watch ==
    /\ ShelfView = "playlist" /\ PlayerFor(picked) = "player" /\ played < Watchable
    /\ played' = played + 1
    /\ UNCHANGED <<shelf, watchedSaved, watchedShown, picked, pickedAt, tab, searching, progressCalls, shelfActs>>
    /\ UNCHANGED listVars
\* saveSelectedProgress: the call remembers the recording it was made for.
SaveProgress ==
    /\ ShelfView = "playlist" /\ PlayerFor(picked) = "player" /\ played > 0 /\ ShelfAct
    /\ progressCalls' = progressCalls \cup {[for |-> picked, seconds |-> played, answer |-> 0]}
    /\ UNCHANGED <<shelf, watchedSaved, watchedShown, tab, searching>>
    /\ UNCHANGED listVars /\ UNCHANGED playerVars
\* The server keeps the larger count and answers with the row.
WatchKept(c) ==
    /\ c \in progressCalls /\ c.answer = 0
    /\ LET kept == IF c.seconds > watchedSaved[c.for] THEN c.seconds ELSE watchedSaved[c.for]
       IN  /\ watchedSaved' = [watchedSaved EXCEPT ![c.for] = kept]
           /\ progressCalls' = (progressCalls \ {c}) \cup {[c EXCEPT !.answer = kept]}
    /\ UNCHANGED <<shelf, watchedShown, tab, searching, shelfActs>> /\ UNCHANGED listVars /\ UNCHANGED playerVars
\* Mutant: handleProgressUpdate reads the selection of the moment the answer arrives.
ProgressArrivesForPicked(c) ==
    /\ c \in progressCalls /\ c.answer > 0 /\ progressCalls' = progressCalls \ {c}
    /\ watchedShown' = IF picked \in Uploaded THEN [watchedShown EXCEPT ![picked] = c.answer] ELSE watchedShown
    /\ UNCHANGED <<shelf, watchedSaved, tab, searching, shelfActs>> /\ UNCHANGED listVars /\ UNCHANGED playerVars
ProgressArrives(c) ==
    /\ c \in progressCalls /\ c.answer > 0 /\ progressCalls' = progressCalls \ {c}
    /\ watchedShown' = [watchedShown EXCEPT ![c.for] = c.answer]
    /\ UNCHANGED <<shelf, watchedSaved, tab, searching, shelfActs>> /\ UNCHANGED listVars /\ UNCHANGED playerVars
ProgressLost(c) ==
    /\ c \in progressCalls /\ progressCalls' = progressCalls \ {c}
    /\ UNCHANGED <<shelf, watchedSaved, watchedShown, tab, searching, shelfActs>>
    /\ UNCHANGED listVars /\ UNCHANGED playerVars

ListReplies ==
    \/ ListFails \/ ShelfArrives(shelf, FALSE)
    \/ \E items \in SUBSET shelf: ShelfArrives(items, TRUE)
ShelfNext ==
    \/ ListReplies \/ RetryList \/ Watch \/ SaveProgress
    \/ \E r \in Catalogue: Pick(r)
    \/ \E r \in Catalogue \cup {NoRecording}: Search(r)
    \/ \E t \in {"all", "uploaded", "youtube", "external"}: SwitchTab(t)
    \/ \E c \in progressCalls: WatchKept(c) \/ ProgressArrives(c) \/ ProgressLost(c)
ShelfSpec == ShelfInit /\ [][ShelfNext]_shelfVars

(***************************************************************************)
(* Properties.                                                             *)
(***************************************************************************)
\* The progress beside a recording is that recording's: no row ever shows more than the
\* server holds for it, whichever recording is on when the answer of an earlier save arrives.
ProgressBelongs == \A r \in Uploaded: watchedShown[r] <= watchedSaved[r]
\* The tab that is open is never one with nothing in it.
TabHasItems == ShelfView = "playlist" => InTab(tab) # {}
=============================================================================
