----------------------------- MODULE VideoWatch -----------------------------
(***************************************************************************)
(* Watching a lesson's uploaded video on the web: the player and the time  *)
(* it credits (web/src/components/shared/VideoPlayer.tsx), the progress it *)
(* saves, the lesson block and the lesson page around it                   *)
(* (ContentBlockRenderer.tsx, pages/student/LessonView.tsx), and the row   *)
(* the server keeps (content_blocks_controller.rb, video_progress).        *)
(*                                                                         *)
(* Time is counted in whole seconds at playback rate 1; the half second    *)
(* the player adds to what it credits and the rounding are left out.       *)
(***************************************************************************)
EXTENDS Integers, FiniteSets, FiniteSetsExt

CONSTANTS Duration,    \* of the video
          SaveEvery,   \* the autosave period (10 s in the code)
          Slack,       \* credited at once at most, whatever time passed (2 s)
          MaxActs,     \* bound on what the student does
          MaxPings,    \* bound on the saves under way
          MaxRefresh   \* bound on the stream's renewals
ASSUME WatchAssumption == {Duration, SaveEvery, Slack, MaxActs, MaxPings, MaxRefresh} \subseteq Nat

VARIABLES stream,       \* "loading", "ready", "renewing", "failed": the video element's source
          pos, running, \* the element's currentTime, and if it is not paused
          playing,      \* the component's state of that name
          lastTime, lag,        \* lastTimeRef, and the time since lastTickAtRef
          totalWatched, saveIn, \* totalWatchedRef, time to the next autosave
          renewal,      \* {} or {[at, resume]}: what the renewal of the URL restores
          blockDone, given,   \* the block's state; the status the lesson last gave it
          pings, reloads,       \* requests under way
          row,          \* the server's [total, completed]
          acts, refreshes,
          unsaved       \* seconds played since the last save was sent
watchVars == <<stream, pos, running, playing, lastTime, lag, totalWatched, saveIn, renewal, blockDone,
               given, pings, reloads, row, acts, refreshes, unsaved>>
mediaVars == <<stream, pos, running, playing, lastTime, lag, totalWatched, renewal>>
blockVars == <<blockDone, given, reloads>>
countVars == <<acts, refreshes>>

(***************************************************************************)
(* sendProgress: nothing is sent without a video that knows its duration.  *)
(***************************************************************************)
Known == stream = "ready"
Ping(for, total) == [for |-> for, total |-> total, step |-> "sent",
                     slot |-> Min(1 .. MaxPings + 1 \ {p.slot : p \in pings})]
SendsProgress(ended) ==
    LET total == IF ended THEN Max({totalWatched', Duration}) ELSE totalWatched'
    IN IF Known THEN /\ Cardinality(pings) < MaxPings
                     /\ pings' = pings \cup {Ping("progress", total)}
                     /\ unsaved' = 0
       ELSE UNCHANGED <<pings, unsaved>>
\* handleTimeUpdate
Credit(now) == totalWatched + Max({0, Min({now - lastTime, Max({Slack, lag})})})
TimeUpdate(now) == totalWatched' = Credit(now) /\ lastTime' = now /\ lag' = 0

WatchInit ==
    /\ stream = "loading" /\ pos = 0 /\ running = FALSE /\ playing = FALSE
    /\ lastTime = 0 /\ lag = 0 /\ saveIn = SaveEvery /\ renewal = {}
    /\ row = [total |-> 0, completed |-> FALSE]
    /\ totalWatched = row.total /\ blockDone = row.completed /\ given = row.completed
    /\ pings = {} /\ reloads = {} /\ acts = 0 /\ refreshes = 0 /\ unsaved = 0

(***************************************************************************)
(* The source.  loadUrl answers; the element reads the metadata, where     *)
(* handleLoaded starts the count at the position it is at.  A renewal puts *)
(* the element back to the start and, once loaded, to where it was before  *)
(* the new URL was asked for; the jump raises timeupdate and seeked.       *)
(***************************************************************************)
SourceLoaded ==
    /\ stream = "loading"
    /\ stream' = "ready" /\ \E p \in {0, Duration \div 2} : pos' = p /\ lastTime' = p
    /\ lag' = 0
    /\ UNCHANGED <<running, playing, totalWatched, saveIn, renewal, blockVars, pings, row, countVars, unsaved>>
UrlRenewed ==
    /\ Known /\ refreshes < MaxRefresh /\ refreshes' = refreshes + 1
    /\ renewal' = {[at |-> pos, resume |-> running]}
    /\ UNCHANGED <<stream, pos, running, playing, lastTime, lag, totalWatched, saveIn, blockVars, pings, row, acts, unsaved>>
NewSource ==
    /\ Known /\ renewal # {}
    /\ stream' = "renewing" /\ pos' = 0 /\ running' = FALSE
    /\ UNCHANGED <<playing, lastTime, lag, totalWatched, saveIn, renewal, blockVars, pings, row, countVars, unsaved>>
RenewalLoaded ==
    /\ stream = "renewing" /\ stream' = "ready"
    /\ \E r \in renewal :
          /\ pos' = r.at
          /\ totalWatched' = totalWatched + Min({r.at, Slack})
          /\ lastTime' = r.at /\ lag' = 0
          /\ running' = (r.at > 0 /\ r.resume)
          /\ playing' = (playing \/ running')
          /\ saveIn' = IF running' /\ ~playing THEN SaveEvery ELSE saveIn
    /\ renewal' = {}
    /\ UNCHANGED <<blockVars, pings, row, countVars, unsaved>>
\* The URL cannot be had, or handleError: the error replaces the player.
SourceFails ==
    /\ stream \in {"loading", "ready", "renewing"} /\ acts < MaxActs /\ acts' = acts + 1
    /\ stream' = "failed" /\ running' = FALSE /\ playing' = FALSE /\ renewal' = {}
    /\ UNCHANGED <<pos, lastTime, lag, totalWatched, saveIn, blockVars, pings, row, refreshes, unsaved>>

(***************************************************************************)
(* Playing.                                                                *)
(***************************************************************************)
Play ==
    /\ Known /\ ~running /\ pos < Duration /\ acts < MaxActs /\ acts' = acts + 1
    /\ running' = TRUE /\ playing' = TRUE /\ lag' = 0
    /\ saveIn' = IF playing THEN saveIn ELSE SaveEvery
    /\ UNCHANGED <<stream, pos, lastTime, totalWatched, renewal, blockVars, pings, row, refreshes, unsaved>>
Pause ==
    /\ Known /\ running /\ acts < MaxActs /\ acts' = acts + 1
    /\ running' = FALSE /\ playing' = FALSE
    /\ UNCHANGED totalWatched
    /\ SendsProgress(FALSE)
    /\ UNCHANGED <<stream, pos, lastTime, lag, saveIn, renewal, blockVars, row, refreshes>>
\* A click on the bar: timeupdate and then seeked at the new position.
Seek(to) ==
    /\ Known /\ acts < MaxActs /\ acts' = acts + 1
    /\ pos' = to /\ TimeUpdate(to)
    /\ UNCHANGED <<stream, running, playing, saveIn, renewal, blockVars, pings, row, refreshes, unsaved>>
Restart ==
    /\ Known /\ acts < MaxActs /\ acts' = acts + 1
    /\ pos' = 0 /\ TimeUpdate(0)
    /\ running' = TRUE /\ playing' = TRUE /\ saveIn' = IF playing THEN saveIn ELSE SaveEvery
    /\ UNCHANGED <<stream, renewal, blockVars, pings, row, refreshes, unsaved>>
\* A second passes; the browser may hold timeupdate back.
Second ==
    /\ IF running THEN pos < Duration ELSE lag < Duration
    /\ playing => saveIn > 0
    /\ pos' = IF running THEN pos + 1 ELSE pos
    /\ unsaved' = IF running THEN unsaved + 1 ELSE unsaved
    /\ saveIn' = IF playing THEN saveIn - 1 ELSE saveIn
    /\ \/ /\ running /\ totalWatched' = totalWatched + Max({0, Min({pos' - lastTime, Max({Slack, lag + 1})})})
          /\ lastTime' = pos' /\ lag' = 0
       \/ lag' = Min({lag + 1, Duration}) /\ UNCHANGED <<totalWatched, lastTime>>
    /\ UNCHANGED <<stream, running, playing, renewal, blockVars, pings, row, countVars>>
\* Mutant: the timer keeps counting and nothing is sent.
AutosaveSkipped ==
    /\ playing /\ saveIn = 0 /\ saveIn' = SaveEvery
    /\ UNCHANGED <<mediaVars, blockVars, pings, row, countVars, unsaved>>
Autosave ==
    /\ playing /\ saveIn = 0 /\ saveIn' = SaveEvery
    /\ UNCHANGED totalWatched
    /\ SendsProgress(FALSE)
    /\ UNCHANGED <<stream, pos, running, playing, lastTime, lag, renewal, blockVars, row, countVars>>
\* The end of the video: the element pauses, then handleEnded and the block's
\* handleBlockCompleted.  Of the two saves the first adds nothing to the second.
VideoEnded ==
    /\ Known /\ running /\ pos = Duration
    /\ running' = FALSE /\ playing' = FALSE
    /\ TimeUpdate(pos)
    /\ SendsProgress(TRUE)
    /\ blockDone' = TRUE
    /\ UNCHANGED <<stream, pos, saveIn, renewal, given, reloads, row, countVars>>

(***************************************************************************)
(* The block and the page.  handleToggleComplete; the saves at the server; *)
(* their answers; the lesson read again, whose rendering gives the player  *)
(* a new onSaveProgress and so runs the effect that saves once more.       *)
(***************************************************************************)
ToggleComplete ==
    /\ acts < MaxActs /\ acts' = acts + 1 /\ Cardinality(pings) < MaxPings
    /\ pings' = pings \cup {Ping(IF blockDone THEN "undo" ELSE "complete", 0)}
    /\ UNCHANGED <<mediaVars, saveIn, blockVars, row, refreshes, unsaved>>
\* Mutant: the row takes the ping's figure.
MergedLast(p) == [total |-> Min({p.total, Duration}), completed |-> row.completed \/ 10 * p.total >= 9 * Duration]
\* upsert_video_progress
Merged(p) ==
    LET total == Max({row.total, Min({p.total, Duration})})
    IN [total |-> total, completed |-> row.completed \/ 10 * total >= 9 * Duration]
Served(p) == CASE p.for = "progress" -> Merged(p)
               [] p.for = "complete" -> [row EXCEPT !.completed = TRUE]
               [] p.for = "undo" -> [row EXCEPT !.completed = FALSE]
PingServed(p) ==
    /\ p.step = "sent" /\ row' = Served(p)
    /\ pings' = (pings \ {p}) \cup {[p EXCEPT !.step = IF row'.completed THEN "completed" ELSE "saved"]}
    /\ UNCHANGED <<mediaVars, saveIn, blockVars, countVars, unsaved>>
\* Before or after the server ran it.
PingLost(p) ==
    /\ pings' = pings \ {p} /\ acts < MaxActs /\ acts' = acts + 1
    /\ UNCHANGED <<mediaVars, saveIn, blockVars, row, refreshes, unsaved>>
\* saveBlockProgress and handleToggleComplete after their awaits.
PingAnswered(p) ==
    /\ p.step # "sent" /\ pings' = pings \ {p}
    /\ CASE p.for = "progress" -> blockDone' = (blockDone \/ p.step = "completed")
         [] p.for = "complete" -> blockDone' = TRUE
         [] p.for = "undo" -> blockDone' = FALSE
    /\ reloads' = IF p.for # "progress" \/ p.step = "completed" THEN reloads \cup {"sent"} ELSE reloads
    /\ UNCHANGED <<mediaVars, saveIn, given, row, countVars, unsaved>>
LessonServed ==
    /\ "sent" \in reloads /\ reloads' = {IF row.completed THEN "completed" ELSE "open"}
    /\ UNCHANGED <<mediaVars, saveIn, blockDone, given, pings, row, countVars, unsaved>>
LessonLoaded(r) ==
    /\ r \in reloads \ {"sent"} /\ reloads' = reloads \ {r}
    /\ given' = (r = "completed")
    /\ blockDone' = IF given' # given THEN given' ELSE blockDone
    /\ saveIn' = IF playing THEN SaveEvery ELSE saveIn
    /\ UNCHANGED totalWatched
    /\ SendsProgress(FALSE)
    /\ UNCHANGED <<stream, pos, running, playing, lastTime, lag, renewal, row, countVars>>

WatchStep ==
    \/ \E p \in pings : PingServed(p) \/ PingAnswered(p)
    \/ LessonServed \/ \E r \in reloads : LessonLoaded(r)
WatchNext ==
    \/ SourceLoaded \/ UrlRenewed \/ NewSource \/ RenewalLoaded \/ SourceFails
    \/ Play \/ Pause \/ Restart \/ Second \/ Autosave \/ VideoEnded \/ ToggleComplete
    \/ \E to \in 0 .. Duration : Seek(to)
    \/ \E p \in pings : PingLost(p)
    \/ WatchStep
WatchSpec == WatchInit /\ [][WatchNext]_watchVars

\* What the autosave's comment promises (VideoPlayer.tsx, "a tab close
\* mid-watch loses at most ~10s of unsaved progress"): however playing,
\* pausing, seeking, failing and re-rendering interleave, no more than one
\* autosave period has been played since progress was last sent.  A renewal of
\* the stream adds one period: the autosave that falls while the new source
\* loads finds no duration and sends nothing.
UnsavedBounded == unsaved <= SaveEvery * (1 + refreshes)

\* Saves reach the server in any order, and an old one never takes back what a
\* newer one stored: the seconds watched do not go down, and a completed video
\* is opened again only by the student's own "Mark incomplete".
ProgressKept ==
    [][/\ row'.total >= row.total
       /\ row.completed /\ ~row'.completed => \E p \in pings : p.for = "undo"]_watchVars
=============================================================================
