----------------------------- MODULE NativePlayer -----------------------------
(***************************************************************************)
(* The mobile app's video player (components/native-video-player.tsx): the *)
(* playback it credits, the queue that saves progress, and the sources it  *)
(* loads, renews and recovers. Time is counted in whole seconds at rate 1. *)
(***************************************************************************)
EXTENDS Integers

CONSTANTS Length,        \* of the recording
          SaveInterval,  \* PROGRESS_SAVE_INTERVAL_MS
          MaxClock,      \* bound on the time that passes
          MaxTouches     \* bound on what the student, the system and the stream do
ASSUME PlayerAssumption == {Length, SaveInterval, MaxClock, MaxTouches} \subseteq Nat

VARIABLES source,        \* "loading", "ready", "failed"
          at,            \* the player's position
          seenAt,        \* currentTimeRef, and lastTimeRef with it: the position last reported
          isPlaying, sinceTick,  \* playingRef, time since lastTickAtRef
          lengthKnown,   \* durationRef is set
          credited,      \* totalWatchedRef
          sinceSaved,    \* time since lastSavedAtRef
          restore,       \* pendingRestoreRef: <<>> or <<position, shouldPlay>>
          pendingSave, savingNow,  \* {} or {payload}: pendingSaveRef; the save under way
          syncError,
          newest, tried, \* numbers of the payload last enqueued and last sent
          front,         \* the app is in the foreground
          mounted, clock, playTime, touches
playerStateVars == <<source, at, seenAt, isPlaying, lengthKnown, sinceTick, credited, sinceSaved, restore, pendingSave, savingNow,
                     syncError, newest, tried, front, mounted, clock, playTime, touches>>
queueVars == <<pendingSave, savingNow, syncError, newest, tried>>
timeVars == <<clock, playTime>>

PlayerInit ==
    /\ source = "loading" /\ at = 0 /\ seenAt = 0 /\ isPlaying = FALSE /\ lengthKnown = FALSE /\ sinceTick = 0 /\ credited = 0 /\ sinceSaved = SaveInterval
    /\ restore = <<0, FALSE>> /\ pendingSave = {} /\ savingNow = {} /\ syncError = FALSE /\ newest = 0 /\ tried = 0
    /\ front = TRUE /\ mounted = TRUE /\ clock = 0 /\ playTime = 0 /\ touches = 0

(***************************************************************************)
(* enqueueProgress and drainSaves: one save at a time, and only the newest *)
(* payload waits.                                                          *)
(***************************************************************************)
\* normalizedProgress has nothing to say before the duration is known (sourceLoad).
Enqueues ==
    IF ~lengthKnown THEN UNCHANGED queueVars
    ELSE /\ newest' = newest + 1 /\ UNCHANGED syncError
         /\ IF savingNow = {} THEN savingNow' = {newest'} /\ tried' = newest' /\ pendingSave' = {}
            ELSE pendingSave' = {newest'} /\ UNCHANGED <<savingNow, tried>>
\* Mutant: the waiting payload is cleared after the call instead of before it.
SaveEndsClearing(ok) ==
    /\ savingNow # {} /\ savingNow' = {} /\ pendingSave' = {} /\ UNCHANGED <<tried, newest>>
    /\ syncError' = IF mounted THEN ~ok ELSE syncError
    /\ UNCHANGED <<source, at, seenAt, isPlaying, lengthKnown, sinceTick, credited, sinceSaved, restore, front, mounted, touches>>
    /\ UNCHANGED timeVars
\* A save that ends, well or not, is followed by the payload that waits; a failed payload is
\* not put back.
SaveEnds(ok) ==
    /\ savingNow # {}
    /\ savingNow' = pendingSave /\ pendingSave' = {} /\ UNCHANGED newest
    /\ tried' = IF pendingSave = {} THEN tried ELSE newest
    /\ syncError' = IF mounted THEN ~ok ELSE syncError
    /\ UNCHANGED <<source, at, seenAt, isPlaying, lengthKnown, sinceTick, credited, sinceSaved, restore, front, mounted, touches>>
    /\ UNCHANGED timeVars

(***************************************************************************)
(* The player's events.                                                    *)
(***************************************************************************)
CreditedPlaybackSeconds(from, to, elapsed) ==
    IF isPlaying /\ elapsed > 0 /\ to > from /\ to - from <= elapsed THEN to - from ELSE 0
\* timeUpdate
PlayerTimeUpdate(to, elapsed) ==
    /\ credited' = credited + CreditedPlaybackSeconds(seenAt, to, elapsed)
    /\ at' = to /\ seenAt' = to /\ sinceTick' = 0
\* playingChange
PlayingChange(nowPlaying) ==
    /\ isPlaying' = nowPlaying /\ sinceTick' = 0
    /\ IF nowPlaying THEN UNCHANGED queueVars ELSE Enqueues
\* A second passes. While playing the position moves on, or waits for the network, and the
\* autosave falls due.
SecondPasses(moves) ==
    /\ mounted /\ clock < MaxClock /\ clock' = clock + 1
    /\ IF isPlaying /\ source = "ready"
       THEN /\ playTime' = playTime + 1 /\ PlayerTimeUpdate(IF moves /\ at < Length THEN at + 1 ELSE at, sinceTick + 1)
            /\ IF sinceSaved + 1 >= SaveInterval THEN sinceSaved' = 0 /\ Enqueues
               ELSE sinceSaved' = sinceSaved + 1 /\ UNCHANGED queueVars
       ELSE /\ moves /\ sinceTick' = sinceTick + 1 /\ sinceSaved' = IF sinceSaved < SaveInterval THEN sinceSaved + 1 ELSE sinceSaved
            /\ UNCHANGED <<playTime, credited, at, seenAt>> /\ UNCHANGED queueVars
    /\ UNCHANGED <<source, isPlaying, lengthKnown, restore, front, mounted, touches>>
Touch == mounted /\ touches < MaxTouches /\ touches' = touches + 1 /\ UNCHANGED timeVars
PressPlayPause ==
    /\ source = "ready" /\ front /\ Touch /\ PlayingChange(~isPlaying)
    /\ UNCHANGED <<source, at, seenAt, lengthKnown, credited, sinceSaved, restore, front, mounted>>
\* The player's own controls: no event comes of a seek, the next timeUpdate reports it.
SeekTo(to) ==
    /\ source = "ready" /\ front /\ to # at /\ Touch /\ at' = to
    /\ UNCHANGED <<source, seenAt, isPlaying, lengthKnown, sinceTick, credited, sinceSaved, restore, front, mounted>>
    /\ UNCHANGED queueVars
\* playToEnd, with the playingChange that comes with it.
PlayedToEnd ==
    /\ source = "ready" /\ isPlaying /\ at = Length /\ Touch /\ PlayingChange(FALSE)
    /\ UNCHANGED <<source, at, seenAt, lengthKnown, credited, sinceSaved, restore, front, mounted>>

(***************************************************************************)
(* Sources: the first one, the renewal before the URL expires, the         *)
(* recovery of a failed one and the student's Retry.                       *)
(***************************************************************************)
LoadSource ==
    /\ source' = "loading" /\ restore' = <<seenAt, isPlaying>>
RenewSource ==
    /\ source = "ready" /\ Touch /\ LoadSource /\ PlayingChange(FALSE)
    /\ UNCHANGED <<at, seenAt, lengthKnown, credited, sinceSaved, front, mounted>>
\* statusChange: an interrupted stream is loaded again, unless that was done moments ago.
PlaybackFails(recovers) ==
    /\ source = "ready" /\ Touch /\ PlayingChange(FALSE)
    /\ IF recovers THEN LoadSource ELSE source' = "failed" /\ UNCHANGED restore
    /\ UNCHANGED <<at, seenAt, lengthKnown, credited, sinceSaved, front, mounted>>
RetrySource ==
    /\ source = "failed" /\ front /\ Touch /\ LoadSource
    /\ UNCHANGED <<at, seenAt, isPlaying, lengthKnown, sinceTick, credited, sinceSaved, front, mounted>> /\ UNCHANGED queueVars
\* sourceLoad puts the player back where it was, playing if it was.
SourceLoad ==
    /\ source = "loading" /\ mounted /\ source' = "ready" /\ restore' = <<>>
    /\ at' = restore[1] /\ seenAt' = restore[1] /\ sinceTick' = 0 /\ isPlaying' = restore[2] /\ lengthKnown' = TRUE
    /\ UNCHANGED <<credited, sinceSaved, front, mounted, touches>> /\ UNCHANGED queueVars /\ UNCHANGED timeVars
SourceError ==
    /\ source = "loading" /\ mounted /\ source' = "failed"
    /\ UNCHANGED <<at, seenAt, isPlaying, lengthKnown, sinceTick, credited, sinceSaved, restore, front, mounted, touches>>
    /\ UNCHANGED queueVars /\ UNCHANGED timeVars

(***************************************************************************)
(* The app, and the screen.                                                *)
(***************************************************************************)
AppToBack ==
    /\ front /\ Touch /\ front' = FALSE /\ isPlaying' = FALSE /\ Enqueues
    /\ sinceTick' = 0
    /\ UNCHANGED <<source, at, seenAt, lengthKnown, credited, sinceSaved, restore, mounted>>
AppToFront ==
    /\ ~front /\ Touch /\ front' = TRUE /\ sinceTick' = 0
    /\ UNCHANGED <<source, at, seenAt, isPlaying, lengthKnown, credited, sinceSaved, restore, mounted>> /\ UNCHANGED queueVars
\* Leaving saves once more, outside the queue.
LeavePlayer ==
    /\ Touch /\ mounted' = FALSE /\ isPlaying' = FALSE
    /\ UNCHANGED <<source, at, seenAt, lengthKnown, sinceTick, credited, sinceSaved, restore, front>> /\ UNCHANGED queueVars

PlayerNext ==
    \/ \E ok \in BOOLEAN: SaveEnds(ok) \/ SecondPasses(ok) \/ PlaybackFails(ok)
    \/ \E to \in 0 .. Length: SeekTo(to)
    \/ PressPlayPause \/ PlayedToEnd \/ RenewSource \/ RetrySource
    \/ SourceLoad \/ SourceError \/ AppToBack \/ AppToFront \/ LeavePlayer
PlayerFairness == WF_playerStateVars(\E ok \in BOOLEAN: SaveEnds(ok))
PlayerSpec == PlayerInit /\ [][PlayerNext]_playerStateVars /\ PlayerFairness

(***************************************************************************)
(* Properties.                                                             *)
(***************************************************************************)
\* No enqueued progress is passed over: when the queue is at rest, the save last sent was of
\* the progress last enqueued, whatever was enqueued while earlier saves were under way.
NewestTried == savingNow = {} => tried = newest
\* Seeking is not watching: the seconds credited never exceed the seconds spent playing,
\* however seeks, pauses, renewals and the background interleave.
CreditBounded == credited <= playTime

\* The newest progress has been tried when no save is under way, and no more is
\* credited than was played (persistProgress, creditedPlaybackSeconds).
ProgressSound == NewestTried /\ CreditBounded
=============================================================================
