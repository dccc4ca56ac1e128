--------------------------- MODULE ClientsProofs ----------------------------
(***************************************************************************)
(* Proofs about the parts of the clients that outlive one answer: the      *)
(* runner of exercise code, what is counted and saved of a video, the      *)
(* lesson editor, whose saves meet the answers of students, and dictation, *)
(* where a take is neither lost nor given to two composers.                *)
(***************************************************************************)
EXTENDS CodeRunner, NativePlayer, VideoWatch, LessonDesk, VoiceDraft, TLAPS

-----------------------------------------------------------------------------
(***************************************************************************)
(* Running code in the browser (CodeRunner.tsx).                           *)
(***************************************************************************)

Job == [run : Nat \ {0}, step : {"queued", "executing", "done"}]
Message == [run : Nat \ {0}, type : {"started", "success", "error"}]
RunnerTypeOK ==
    /\ worker \in Nat /\ runId \in Nat /\ output \in Nat /\ runs \in Nat /\ workers \in Nat
    /\ timer \in {"none", "start", "run"}
    /\ status \in {"idle", "running", "success", "error", "timeout", "gone"}
    /\ live \subseteq 1 .. workers
    /\ job \in [1 .. workers -> Job]
    /\ messages \in Seq(Message)

\* The page holds the worker that is alive, and waits for nobody but the last
\* run.
Held == worker \in live \cup {0} /\ worker <= workers
WaitsForLast == runId # 0 => runId = runs
RunnerIInv == RunnerTypeOK /\ Held /\ OneWorker /\ WaitsForLast /\ OutputBelongs

\* What is true at first.
LEMMA RunnerStarts == RunnerInit => RunnerIInv
  <1> SUFFICES ASSUME RunnerInit PROVE RunnerIInv
    OBVIOUS
  <1>1. job \in [1 .. workers -> Job]
    <2>1. workers = 0 /\ job = << >> /\ 1 .. 0 = {}
      BY DEF RunnerInit
    <2> QED
      BY <2>1
  <1>2. messages \in Seq(Message)
    BY DEF RunnerInit
  <1> QED
    BY <1>1, <1>2 DEF RunnerInit, RunnerIInv, RunnerTypeOK, Held, OneWorker, WaitsForLast, OutputBelongs

\* What a worker posts is a message, and the messages after it are too.
LEMMA PostType ==
    ASSUME RunnerTypeOK, NEW w \in live, NEW type \in {"started", "success", "error"}
    PROVE  Post(w, type) \in Seq(Message)
  <1>1. job[w].run \in Nat \ {0}
    BY DEF RunnerTypeOK, Job
  <1>2. [run |-> job[w].run, type |-> type] \in Message
    BY <1>1 DEF Message
  <1> QED
    BY <1>2 DEF RunnerTypeOK, Post

\* Every step keeps the invariant.
LEMMA RunnerStep == RunnerIInv /\ [RunnerNext]_runnerVars => RunnerIInv'
  <1> SUFFICES ASSUME RunnerIInv, [RunnerNext]_runnerVars PROVE RunnerIInv'
    OBVIOUS
  <1> USE RunnerAssumption DEF RunnerIInv, RunnerTypeOK, Held, OneWorker, WaitsForLast, OutputBelongs
  <1>1. CASE Run
    <2> DEFINE w == IF worker # 0 THEN worker ELSE workers + 1
    <2>1. w \in Nat \ {0} /\ workers' \in Nat /\ w <= workers' /\ workers <= workers' /\ runs' \in Nat \ {0}
      BY <1>1 DEF Run
    <2>2. live' = {w}
      BY Zenon, <1>1 DEF Run
    <2>3. job' \in [1 .. workers' -> Job]
      <3>1. ASSUME NEW n \in 1 .. workers', n # w PROVE n \in 1 .. workers
        BY <1>1, <3>1 DEF Run
      <3>2. [run |-> runs', step |-> "queued"] \in Job
        BY <2>1 DEF Job
      <3>3. job' = [n \in 1 .. workers' |-> IF n = w THEN [run |-> runs', step |-> "queued"] ELSE job[n]]
        BY <1>1 DEF Run
      <3> QED
        BY <3>1, <3>2, <3>3
    <2> QED
      BY <1>1, <2>1, <2>2, <2>3 DEF Run
  <1>2. CASE Stop
    BY <1>2 DEF Stop, StopWorker
  <1>3. CASE TimerFires
    BY <1>3 DEF TimerFires, StopWorker
  <1>4. CASE Unmount
    BY <1>4 DEF Unmount, StopWorker
  <1>5. CASE OnMessage
    <2> DEFINE m == Head(messages)
    <2>1. m \in Message /\ messages' \in Seq(Message)
      BY <1>5 DEF OnMessage
    <2>2. CASE ~Taken(m)
      BY Zenon, <1>5, <2>1, <2>2 DEF OnMessage
    <2>3. CASE Taken(m) /\ m.type = "started"
      BY Zenon, <1>5, <2>1, <2>3 DEF OnMessage, StartedTimer
    <2>4. CASE Taken(m) /\ m.type \in {"success", "error"}
      <3>1. m.run = runs /\ m.run \in Nat
        BY <2>1, <2>4 DEF Taken, Message
      <3>2. m.type # "started"
        BY <2>4
      <3>3. /\ timer' = "none" /\ runId' = 0 /\ status' = m.type /\ output' = m.run
            /\ UNCHANGED <<worker, live, job, runs, workers>>
        BY Zenon, <1>5, <2>4, <3>2 DEF OnMessage
      <3> QED
        BY <2>1, <2>4, <3>1, <3>3
    <2> QED
      BY <2>1, <2>2, <2>3, <2>4 DEF Message
  <1>6. CASE OnError
    <2>1. runId = runs
      BY <1>6 DEF OnError, Job
    <2> QED
      BY <1>6, <2>1 DEF OnError, StopWorker
  <1>7. CASE Dropped
    BY <1>7 DEF Dropped, workerVars
  <1>8. ASSUME NEW w \in live, Begins(w) PROVE RunnerIInv'
    <2>1. job' \in [1 .. workers -> Job]
      BY <1>8 DEF Begins, Job
    <2>2. messages' \in Seq(Message)
      BY <1>8, PostType DEF Begins
    <2> QED
      BY <1>8, <2>1, <2>2 DEF Begins
  <1>9. ASSUME NEW w \in live, Ends(w) PROVE RunnerIInv'
    <2>1. job' \in [1 .. workers -> Job]
      BY Zenon, <1>9 DEF Ends, Job
    <2>2. messages' \in Seq(Message)
      BY <1>9, PostType DEF Ends
    <2> QED
      BY <1>9, <2>1, <2>2 DEF Ends
  <1>10. CASE UNCHANGED runnerVars
    BY <1>10 DEF runnerVars
  <1> QED
    BY <1>1, <1>2, <1>3, <1>4, <1>5, <1>6, <1>7, <1>8, <1>9, <1>10 DEF RunnerNext

(***************************************************************************)
(* One worker at most is alive, and a result on the screen is that of the  *)
(* last click on Run: messages of stopped, timed out and replaced runs are *)
(* recognised by the run they carry (handleRun, stopWorker and the         *)
(* worker's onmessage of CodeRunner.tsx).                                  *)
(***************************************************************************)
THEOREM RunnerIsSound == RunnerSpec => []RunnerSound
  <1>1. RunnerIInv => RunnerSound
    BY DEF RunnerIInv, RunnerSound
  <1> QED
    BY <1>1, RunnerStarts, RunnerStep, PTL DEF RunnerSpec

-----------------------------------------------------------------------------
(***************************************************************************)
(* The mobile video player (native-video-player.tsx).                      *)
(***************************************************************************)

PlayerTypeOK ==
    /\ source \in {"loading", "ready", "failed"}
    /\ at \in Nat /\ seenAt \in Nat /\ sinceTick \in Nat
    /\ credited \in Nat /\ playTime \in Nat /\ newest \in Nat /\ tried \in Nat
    /\ isPlaying \in BOOLEAN
    /\ source = "loading" => restore \in Nat \X BOOLEAN

\* Nothing waits behind no save, and what was enqueued last waits or was sent.
QueueInv ==
    /\ savingNow = {} => pendingSave = {}
    /\ pendingSave = {} => tried = newest
\* While the position moves, every second is reported as it passes, so a seek
\* between two reports cannot be credited with the time of a pause before it.
TickInv == isPlaying /\ source = "ready" => sinceTick = 0

PlayerIInv == PlayerTypeOK /\ QueueInv /\ TickInv /\ CreditBounded

\* Enqueueing keeps the queue in order (enqueueProgress).
LEMMA EnqueuesInOrder ==
    ASSUME newest \in Nat, tried \in Nat, QueueInv, Enqueues PROVE QueueInv' /\ newest' \in Nat /\ tried' \in Nat
  BY DEF QueueInv, Enqueues, queueVars

\* So does leaving the queue alone.
LEMMA QueueAtRest ==
    ASSUME newest \in Nat, tried \in Nat, QueueInv, UNCHANGED queueVars PROVE QueueInv' /\ newest' \in Nat /\ tried' \in Nat
  BY DEF QueueInv, queueVars

\* A start or an end of playing resets the time of the last report and leaves
\* the queue in order (playingChange).
LEMMA PlayingChangeInOrder ==
    ASSUME newest \in Nat, tried \in Nat, QueueInv, NEW b \in BOOLEAN, PlayingChange(b)
    PROVE  QueueInv' /\ newest' \in Nat /\ tried' \in Nat /\ isPlaying' = b /\ sinceTick' = 0
  BY EnqueuesInOrder, QueueAtRest DEF PlayingChange

\* A second of playing credits one second at most (timeUpdate).
LEMMA OneSecondAtMost ==
    ASSUME NEW to \in Nat, NEW elapsed \in Nat, elapsed <= 1, PlayerTypeOK, PlayerTimeUpdate(to, elapsed)
    PROVE  credited' \in Nat /\ credited' <= credited + 1 /\ at' = to /\ seenAt' = to /\ sinceTick' = 0
  BY DEF PlayerTypeOK, PlayerTimeUpdate, CreditedPlaybackSeconds

\* The states the player starts in.
LEMMA PlayerStarts == PlayerInit => PlayerIInv
  <1> SUFFICES ASSUME PlayerInit PROVE PlayerIInv
    OBVIOUS
  <1>1. restore \in Nat \X BOOLEAN
    BY Zenon DEF PlayerInit
  <1>2. PlayerTypeOK
    BY Zenon, <1>1 DEF PlayerInit, PlayerTypeOK
  <1> QED
    BY <1>2 DEF PlayerInit, PlayerIInv, QueueInv, TickInv, CreditBounded

\* A second that passes.
LEMMA SecondStep ==
    ASSUME PlayerIInv, NEW moves \in BOOLEAN, SecondPasses(moves) PROVE PlayerIInv'
  <1> USE PlayerAssumption DEF PlayerIInv, PlayerTypeOK
  <1>1. CASE isPlaying /\ source = "ready"
    <2> DEFINE to == IF moves /\ at < Length THEN at + 1 ELSE at
    <2>1. to \in Nat /\ sinceTick + 1 = 1 /\ playTime' = playTime + 1 /\ PlayerTimeUpdate(to, sinceTick + 1)
      BY <1>1 DEF SecondPasses, TickInv
    <2>2. credited' \in Nat /\ credited' <= credited + 1 /\ at' = to /\ seenAt' = to /\ sinceTick' = 0
      BY <2>1, OneSecondAtMost
    <2>3. QueueInv' /\ newest' \in Nat /\ tried' \in Nat
      BY <1>1, EnqueuesInOrder, QueueAtRest DEF SecondPasses
    <2>4. UNCHANGED <<source, isPlaying, restore>>
      BY DEF SecondPasses
    <2>5. CreditBounded'
      BY <2>1, <2>2 DEF CreditBounded
    <2>6. TickInv'
      BY <2>2 DEF TickInv
    <2> HIDE DEF to
    <2> QED
      BY <2>1, <2>2, <2>3, <2>4, <2>5, <2>6
  <1>2. CASE ~(isPlaying /\ source = "ready")
    <2>1. UNCHANGED <<source, isPlaying, restore, playTime, credited, at, seenAt>> /\ UNCHANGED queueVars /\ sinceTick' = sinceTick + 1
      BY <1>2 DEF SecondPasses
    <2> QED
      BY <1>2, <2>1, QueueAtRest DEF TickInv, CreditBounded
  <1> QED
    BY <1>1, <1>2

\* Every step keeps the invariant.
LEMMA PlayerStep == PlayerIInv /\ [PlayerNext]_playerStateVars => PlayerIInv'
  <1> SUFFICES ASSUME PlayerIInv, [PlayerNext]_playerStateVars PROVE PlayerIInv'
    OBVIOUS
  <1> USE PlayerAssumption DEF PlayerIInv, PlayerTypeOK
  <1>1. ASSUME NEW ok \in BOOLEAN, SaveEnds(ok) PROVE PlayerIInv'
    <2>1. QueueInv' /\ newest' \in Nat /\ tried' \in Nat
      BY <1>1 DEF SaveEnds, QueueInv
    <2> QED
      BY Zenon, <1>1, <2>1 DEF SaveEnds, timeVars, TickInv, CreditBounded
  <1>2. ASSUME NEW ok \in BOOLEAN, SecondPasses(ok) PROVE PlayerIInv'
    BY <1>2, SecondStep
  <1>3. ASSUME NEW ok \in BOOLEAN, PlaybackFails(ok) PROVE PlayerIInv'
    <2>1. QueueInv' /\ newest' \in Nat /\ tried' \in Nat /\ isPlaying' = FALSE /\ sinceTick' = 0
      BY Zenon, <1>3, PlayingChangeInOrder DEF PlaybackFails
    <2>2. source' = "loading" => restore' \in Nat \X BOOLEAN
      BY <1>3 DEF PlaybackFails, LoadSource
    <2> QED
      BY Zenon, <1>3, <2>1, <2>2 DEF PlaybackFails, LoadSource, Touch, timeVars, TickInv, CreditBounded
  <1>4. ASSUME NEW to \in 0 .. Length, SeekTo(to) PROVE PlayerIInv'
    BY <1>4, QueueAtRest DEF SeekTo, Touch, timeVars, TickInv, CreditBounded
  <1>5. CASE PressPlayPause
    <2>1. QueueInv' /\ newest' \in Nat /\ tried' \in Nat /\ isPlaying' \in BOOLEAN /\ sinceTick' = 0
      <3>1. isPlaying' = ~isPlaying /\ sinceTick' = 0 /\ (Enqueues \/ UNCHANGED queueVars)
        BY <1>5 DEF PressPlayPause, PlayingChange
      <3>2. isPlaying' \in BOOLEAN
        BY <3>1
      <3> QED
        BY <3>1, <3>2, EnqueuesInOrder, QueueAtRest
    <2> QED
      BY <1>5, <2>1 DEF PressPlayPause, Touch, timeVars, TickInv, CreditBounded
  <1>6. CASE PlayedToEnd
    BY Zenon, <1>6, PlayingChangeInOrder DEF PlayedToEnd, Touch, timeVars, TickInv, CreditBounded
  <1>7. CASE RenewSource
    <2>1. QueueInv' /\ newest' \in Nat /\ tried' \in Nat /\ isPlaying' = FALSE /\ sinceTick' = 0
      BY Zenon, <1>7, PlayingChangeInOrder DEF RenewSource
    <2>2. restore' \in Nat \X BOOLEAN
      BY <1>7 DEF RenewSource, LoadSource
    <2> QED
      BY Zenon, <1>7, <2>1, <2>2 DEF RenewSource, LoadSource, Touch, timeVars, TickInv, CreditBounded
  <1>8. CASE RetrySource
    BY <1>8, QueueAtRest DEF RetrySource, LoadSource, Touch, timeVars, TickInv, CreditBounded
  <1>9. CASE SourceLoad
    BY <1>9, QueueAtRest DEF SourceLoad, timeVars, TickInv, CreditBounded
  <1>10. CASE SourceError
    BY <1>10, QueueAtRest DEF SourceError, timeVars, TickInv, CreditBounded
  <1>11. CASE AppToBack
    BY Zenon, <1>11, EnqueuesInOrder DEF AppToBack, Touch, timeVars, TickInv, CreditBounded
  <1>12. CASE AppToFront
    BY <1>12, QueueAtRest DEF AppToFront, Touch, timeVars, TickInv, CreditBounded
  <1>13. CASE LeavePlayer
    BY Zenon, <1>13, QueueAtRest DEF LeavePlayer, Touch, timeVars, TickInv, CreditBounded
  <1>14. CASE UNCHANGED playerStateVars
    BY <1>14 DEF playerStateVars, QueueInv, TickInv, CreditBounded
  <1> QED
    BY Zenon, <1>1, <1>2, <1>3, <1>4, <1>5, <1>6, <1>7, <1>8, <1>9, <1>10, <1>11, <1>12, <1>13, <1>14 DEF PlayerNext

(***************************************************************************)
(* Whenever no save is under way the progress last enqueued has been tried *)
(* (enqueueProgress, drainSaves), and seeks, pauses, renewed sources and   *)
(* the background never credit more than was played                        *)
(* (creditedPlaybackSeconds of native-video-player.tsx).                   *)
(***************************************************************************)
THEOREM PlayerIsSound == PlayerSpec => []ProgressSound
  <1>1. PlayerIInv => ProgressSound
    BY DEF PlayerIInv, QueueInv, ProgressSound, NewestTried
  <1> QED
    BY <1>1, PlayerStarts, PlayerStep, PTL DEF PlayerSpec

-----------------------------------------------------------------------------
(***************************************************************************)
(* Progress of a lesson's video (VideoPlayer.tsx, video_progress).         *)
(***************************************************************************)
LEMMA TwoMax ==
    ASSUME NEW a \in Int, NEW b \in Int
    PROVE  Max({a, b}) \in {a, b} /\ Max({a, b}) >= a /\ Max({a, b}) >= b
<1>1. \E x \in {a, b} : \A y \in {a, b} : x >= y
  <2>1. CASE a >= b
    BY <2>1
  <2>2. CASE b >= a
    BY <2>2
  <2> QED
    BY <2>1, <2>2
<1>2. Max({a, b}) \in {a, b} /\ \A y \in {a, b} : Max({a, b}) >= y
  BY <1>1 DEF Max
<1> QED
  BY <1>2

LEMMA NatIsInt == \A n \in Nat : n \in Int
OBVIOUS

LEMMA TwoMin ==
    ASSUME NEW a \in Int, NEW b \in Int
    PROVE  Min({a, b}) \in {a, b} /\ Min({a, b}) <= a /\ Min({a, b}) <= b
<1>1. \E x \in {a, b} : \A y \in {a, b} : x <= y
  <2>1. CASE a <= b
    BY <2>1
  <2>2. CASE b <= a
    BY <2>2
  <2> QED
    BY <2>1, <2>2
<1>2. Min({a, b}) \in {a, b} /\ \A y \in {a, b} : Min({a, b}) <= y
  BY <1>1 DEF Min
<1> QED
  BY <1>2

\* A save carries what was watched; its slot only tells it from others under way.
PingFits(p) == p \in [for : {"progress", "complete", "undo"}, total : Nat,
                      step : {"sent", "saved", "completed"}, slot : {p.slot}]
WatchTypeOK ==
    /\ {pos, lastTime, lag, totalWatched} \subseteq Nat
    /\ \A r \in renewal : r.at \in Nat
    /\ \A p \in pings : PingFits(p)
    /\ row.total \in Nat /\ row.completed \in BOOLEAN
    /\ row = [total |-> row.total, completed |-> row.completed]

LEMMA PingFacts ==
    ASSUME NEW p, PingFits(p), NEW s \in {"sent", "saved", "completed"}
    PROVE  /\ p.for \in {"progress", "complete", "undo"} /\ p.total \in Nat
           /\ PingFits([p EXCEPT !.step = s])
<1> DEFINE q == [p EXCEPT !.step = s]
<1>1. q.slot = p.slot
  BY DEF PingFits
<1>2. q \in [for : {"progress", "complete", "undo"}, total : Nat,
             step : {"sent", "saved", "completed"}, slot : {p.slot}]
  BY DEF PingFits
<1> HIDE DEF q
<1>3. PingFits(q)
  BY <1>1, <1>2 DEF PingFits
<1> QED
  BY <1>3 DEF PingFits, q

LEMMA NewPing ==
    ASSUME NEW for \in {"progress", "complete", "undo"}, NEW total \in Nat
    PROVE  PingFits(Ping(for, total))
BY DEF PingFits, Ping

\* sendProgress sends what was watched, when the player knows the video.
LEMMA SendsFits ==
    ASSUME WatchTypeOK, totalWatched' \in Nat, NEW ended \in BOOLEAN, SendsProgress(ended)
    PROVE  \A p \in pings' : PingFits(p)
<1>1. CASE UNCHANGED pings
  BY <1>1 DEF WatchTypeOK
<1>2. CASE pings' # pings
  <2>1. Duration \in Nat
    BY WatchAssumption
  <2> DEFINE total == IF ended THEN Max({totalWatched', Duration}) ELSE totalWatched'
  <2>2. total \in Nat
    <3>1. totalWatched' \in Int /\ Duration \in Int
      BY <2>1
    <3>2. Max({totalWatched', Duration}) \in {totalWatched', Duration}
      BY <3>1, TwoMax
    <3> QED
      BY <2>1, <3>2
  <2>3. pings' = pings \cup {Ping("progress", total)}
    BY <1>2 DEF SendsProgress
  <2> HIDE DEF total
  <2>4. PingFits(Ping("progress", total))
    BY <2>2, NewPing
  <2> QED
    BY <2>3, <2>4 DEF WatchTypeOK
<1> QED
  BY <1>1, <1>2

\* What is credited is never negative.
LEMMA CreditType ==
    ASSUME NEW total \in Nat, NEW now \in Int, NEW last \in Int, NEW passed \in Int
    PROVE  total + Max({0, Min({now - last, Max({Slack, passed})})}) \in Nat
<1>1. Slack \in Int
  BY WatchAssumption
<1> DEFINE m == Max({Slack, passed})
           n == Min({now - last, m})
<1>2. m \in Int
  BY <1>1, TwoMax
<1> HIDE DEF m
<1>3. n \in Int
  <2>1. now - last \in Int
    OBVIOUS
  <2>2. n \in {now - last, m}
    BY Zenon, <1>2, <2>1, TwoMin
  <2> QED
    BY <1>2, <2>1, <2>2
<1> HIDE DEF n
<1>4. Max({0, n}) \in Int /\ Max({0, n}) >= 0
  <2>1. Max({0, n}) \in {0, n} /\ Max({0, n}) >= 0
    BY <1>3, 0 \in Int, TwoMax
  <2> QED
    BY <1>3, <2>1
<1> QED
  BY <1>4 DEF n, m

LEMMA WatchTypesStart == WatchInit => WatchTypeOK
BY WatchAssumption DEF WatchInit, WatchTypeOK

\* What one save does to the row.
LEMMA ServedFacts ==
    ASSUME WatchTypeOK, NEW p \in pings
    PROVE  /\ Served(p).total \in Nat /\ Served(p).completed \in BOOLEAN
           /\ Served(p) = [total |-> Served(p).total, completed |-> Served(p).completed]
           /\ Served(p).total >= row.total
           /\ row.completed /\ ~Served(p).completed => p.for = "undo"
<1>1. /\ p.for \in {"progress", "complete", "undo"} /\ p.total \in Nat
      /\ row.total \in Nat /\ row.completed \in BOOLEAN /\ Duration \in Nat
      /\ row = [total |-> row.total, completed |-> row.completed]
  BY Zenon, WatchAssumption, PingFacts DEF WatchTypeOK
<1>2. CASE p.for = "progress"
  <2> DEFINE m == Min({p.total, Duration})
             t == Max({row.total, m})
             done == row.completed \/ 10 * t >= 9 * Duration
  <2>1. m \in Nat
    <3>1. m \in {p.total, Duration}
      BY Zenon, <1>1, NatIsInt, TwoMin
    <3> QED
      BY Zenon, <1>1, <3>1
  <2> HIDE DEF m
  <2>2. t \in Nat /\ t >= row.total
    BY <1>1, <2>1, TwoMax
  <2>3. Served(p) = [total |-> t, completed |-> done]
    BY <1>2 DEF Served, Merged, m
  <2> HIDE DEF t
  <2>4. done \in BOOLEAN /\ (row.completed => done)
    BY Zenon
  <2> HIDE DEF done
  <2> QED
    BY <2>2, <2>3, <2>4
<1>3. CASE p.for = "complete"
  <2>1. Served(p) = [total |-> row.total, completed |-> TRUE]
    BY Zenon, <1>1, <1>3 DEF Served
  <2> QED
    BY <1>1, <2>1
<1>4. CASE p.for = "undo"
  <2>1. Served(p) = [total |-> row.total, completed |-> FALSE]
    BY Zenon, <1>1, <1>4 DEF Served
  <2> QED
    BY <1>1, <1>4, <2>1
<1> QED
  BY <1>1, <1>2, <1>3, <1>4

\* The player's numbers stay natural numbers.
LEMMA MediaKeeps ==
    ASSUME WatchTypeOK, [WatchNext]_watchVars
    PROVE  {pos, lastTime, lag, totalWatched}' \subseteq Nat /\ \A r \in renewal' : r.at \in Nat
<1> DEFINE Goal == {pos, lastTime, lag, totalWatched}' \subseteq Nat /\ \A r \in renewal' : r.at \in Nat
<1>1. /\ pos \in Nat /\ lastTime \in Nat /\ lag \in Nat /\ totalWatched \in Nat
      /\ \A r \in renewal : r.at \in Nat
      /\ Duration \in Nat /\ Slack \in Nat
  BY WatchAssumption DEF WatchTypeOK
<1>2. CASE UNCHANGED mediaVars
  BY <1>1, <1>2 DEF mediaVars
<1>3. CASE SourceLoaded
  BY <1>1, <1>3 DEF SourceLoaded
<1>4. CASE UrlRenewed
  BY <1>1, <1>4 DEF UrlRenewed
<1>5. CASE NewSource
  BY <1>1, <1>5 DEF NewSource
<1>6. CASE RenewalLoaded
  <2>1. PICK r \in renewal : /\ pos' = r.at /\ totalWatched' = totalWatched + Min({r.at, Slack})
                             /\ lastTime' = r.at /\ lag' = 0
    BY Zenon, <1>6 DEF RenewalLoaded
  <2>2. r.at \in Nat
    BY <1>1
  <2>3. Min({r.at, Slack}) \in {r.at, Slack}
    <3>1. r.at \in Int /\ Slack \in Int
      BY <1>1, <2>2
    <3> QED
      BY Zenon, <3>1, TwoMin
  <2> QED
    BY <1>1, <1>6, <2>1, <2>2, <2>3 DEF RenewalLoaded
<1>7. CASE SourceFails \/ Play \/ Pause
  <2>1. /\ lag' \in {0, lag} /\ UNCHANGED <<pos, lastTime, totalWatched>>
        /\ renewal' \in {renewal, {}}
    BY Zenon, <1>7 DEF SourceFails, Play, Pause
  <2> QED
    BY <1>1, <2>1
<1>8. ASSUME NEW to \in 0 .. Duration, pos' = to \/ (pos' = pos /\ to = pos), TimeUpdate(to),
             UNCHANGED renewal
      PROVE  Goal
  <2>1. totalWatched' \in Nat
    <3>1. to \in Int /\ lastTime \in Int /\ lag \in Int
      BY <1>1
    <3>2. totalWatched' = totalWatched + Max({0, Min({to - lastTime, Max({Slack, lag})})})
      BY <1>8 DEF TimeUpdate, Credit
    <3> QED
      BY Zenon, <1>1, <3>1, <3>2, CreditType
  <2> QED
    BY <1>1, <1>8, <2>1 DEF TimeUpdate
<1>9. ASSUME NEW to \in 0 .. Duration, Seek(to) PROVE Goal
  BY <1>8, <1>9 DEF Seek
<1>10. CASE Restart
  <2>1. 0 \in 0 .. Duration
    BY <1>1
  <2> QED
    BY <1>8, <1>10, <2>1 DEF Restart
<1>11. CASE Second
  <2>1. pos' \in Nat /\ lag + 1 \in Nat
    BY <1>1, <1>11 DEF Second
  <2>2. totalWatched + Max({0, Min({pos' - lastTime, Max({Slack, lag + 1})})}) \in Nat
    <3>1. pos' \in Int /\ lastTime \in Int /\ lag + 1 \in Int
      BY <1>1, <2>1
    <3> QED
      BY Zenon, <1>1, <3>1, CreditType
  <2>3. Min({lag + 1, Duration}) \in {lag + 1, Duration}
    <3>1. lag + 1 \in Int /\ Duration \in Int
      BY <1>1
    <3> QED
      BY Zenon, <3>1, TwoMin
  <2>4. lag' \in {0, Min({lag + 1, Duration})} /\ lastTime' \in {pos', lastTime} /\ UNCHANGED renewal
    BY <1>11 DEF Second
  <2>5. \/ totalWatched' = totalWatched
        \/ totalWatched' = totalWatched + Max({0, Min({pos' - lastTime, Max({Slack, lag + 1})})})
    BY <1>11 DEF Second
  <2> QED
    BY <1>1, <2>1, <2>2, <2>3, <2>4, <2>5
<1>12. CASE Autosave
  BY <1>1, <1>12 DEF Autosave
<1>13. CASE VideoEnded
  <2>1. pos \in 0 .. Duration
    BY <1>1, <1>13 DEF VideoEnded
  <2> QED
    BY <1>8, <1>13, <2>1 DEF VideoEnded
<1>14. CASE ToggleComplete \/ (\E p \in pings : PingLost(p)) \/ WatchStep
  <2>1. CASE UNCHANGED mediaVars
    BY <1>2, <2>1
  <2>2. ASSUME NEW r \in reloads, LessonLoaded(r) PROVE Goal
    BY <1>1, <2>2 DEF LessonLoaded
  <2> QED
    BY Zenon, <1>14, <2>1, <2>2 DEF ToggleComplete, PingLost, WatchStep, PingServed, PingAnswered, LessonServed
<1>15. CASE UNCHANGED watchVars
  BY <1>2, <1>15 DEF watchVars, mediaVars
<1> QED
  BY <1>3, <1>4, <1>5, <1>6, <1>7, <1>9, <1>10, <1>11, <1>12, <1>13, <1>14, <1>15 DEF WatchNext

\* So do the figures of the saves under way.
LEMMA PingsKeep ==
    ASSUME WatchTypeOK, [WatchNext]_watchVars
    PROVE  \A p \in pings' : PingFits(p)
<1>1. totalWatched' \in Nat
  BY MediaKeeps
<1>2. \A p \in pings : PingFits(p)
  BY DEF WatchTypeOK
<1>3. CASE UNCHANGED pings
  BY <1>2, <1>3
<1>4. CASE Pause \/ Autosave \/ \E r \in reloads : LessonLoaded(r)
  <2>1. SendsProgress(FALSE)
    BY Zenon, <1>4 DEF Pause, Autosave, LessonLoaded
  <2> QED
    BY Zenon, <1>1, <2>1, SendsFits
<1>5. CASE VideoEnded
  BY Zenon, <1>1, <1>5, SendsFits DEF VideoEnded
<1>6. CASE ToggleComplete
  <2>1. PICK for \in {"complete", "undo"} : pings' = pings \cup {Ping(for, 0)}
    BY <1>6 DEF ToggleComplete
  <2>2. PingFits(Ping(for, 0))
    BY NewPing
  <2> QED
    BY <1>2, <2>1, <2>2
<1>7. ASSUME NEW p \in pings, PingLost(p) \/ PingAnswered(p) PROVE \A q \in pings' : PingFits(q)
  BY Zenon, <1>2, <1>7 DEF PingLost, PingAnswered
<1>8. ASSUME NEW p \in pings, PingServed(p) PROVE \A q \in pings' : PingFits(q)
  <2>1. PICK s \in {"completed", "saved"} : pings' = (pings \ {p}) \cup {[p EXCEPT !.step = s]}
    BY <1>8 DEF PingServed
  <2>2. PingFits([p EXCEPT !.step = s])
    BY Zenon, <1>2, PingFacts
  <2> QED
    BY <1>2, <2>1, <2>2
<1>9. CASE \/ SourceLoaded \/ UrlRenewed \/ NewSource \/ RenewalLoaded \/ SourceFails
           \/ Play \/ Restart \/ Second \/ LessonServed \/ (\E to \in 0 .. Duration : Seek(to))
  BY Zenon, <1>3, <1>9 DEF SourceLoaded, UrlRenewed, NewSource, RenewalLoaded, SourceFails, Play, Restart,
                    Second, LessonServed, Seek
<1> QED
  BY <1>3, <1>4, <1>5, <1>6, <1>7, <1>8, <1>9 DEF WatchNext, WatchStep, watchVars

\* Only a save at the server changes the row, and in one direction.
LEMMA RowKeeps ==
    ASSUME WatchTypeOK, [WatchNext]_watchVars
    PROVE  /\ row'.total \in Nat /\ row'.completed \in BOOLEAN
           /\ row' = [total |-> row'.total, completed |-> row'.completed]
           /\ row'.total >= row.total
           /\ row.completed /\ ~row'.completed => \E p \in pings : p.for = "undo"
<1>1. CASE UNCHANGED row
  BY <1>1 DEF WatchTypeOK
<1>2. ASSUME NEW p \in pings, PingServed(p)
      PROVE  /\ row'.total \in Nat /\ row'.completed \in BOOLEAN
             /\ row' = [total |-> row'.total, completed |-> row'.completed]
             /\ row'.total >= row.total
             /\ row.completed /\ ~row'.completed => \E q \in pings : q.for = "undo"
  <2>1. row' = Served(p)
    BY <1>2 DEF PingServed
  <2> QED
    BY <2>1, ServedFacts
<1>3. CASE WatchNext /\ ~\E p \in pings : PingServed(p)
  <2>1. UNCHANGED row
    BY Zenon, <1>3 DEF WatchNext, WatchStep, SourceLoaded, UrlRenewed, NewSource, RenewalLoaded, SourceFails,
                Play, Pause, Restart, Second, Autosave, VideoEnded, ToggleComplete, Seek, PingLost,
                PingAnswered, LessonServed, LessonLoaded
  <2> QED
    BY <1>1, <2>1
<1> QED
  BY <1>1, <1>2, <1>3 DEF watchVars

\* Saves may reach the server in any order and be lost: what it holds never goes back,
\* and a completed video is opened again only by the student (upsert_video_progress).
THEOREM ProgressIsKept == WatchSpec => ProgressKept
<1>1. WatchTypeOK /\ [WatchNext]_watchVars => WatchTypeOK'
  BY MediaKeeps, PingsKeep, RowKeeps DEF WatchTypeOK
<1>2. WatchTypeOK /\ [WatchNext]_watchVars =>
         [/\ row'.total >= row.total
          /\ row.completed /\ ~row'.completed => \E p \in pings : p.for = "undo"]_watchVars
  BY RowKeeps
<1> QED
  BY <1>1, <1>2, WatchTypesStart, PTL DEF WatchSpec, ProgressKept

(***************************************************************************)
(* What may be lost.  Budget is what may have been played without a save;  *)
(* an autosave is due before it is used up.  While a renewal is under way  *)
(* one period is kept in reserve for the autosave that sends nothing.      *)
(***************************************************************************)
Budget == IF renewal = {} THEN SaveEvery * (refreshes + 1) ELSE SaveEvery * refreshes
SavesInv ==
    /\ saveIn \in 0 .. SaveEvery /\ unsaved \in Nat /\ refreshes \in Nat
    /\ stream \in {"loading", "ready", "renewing", "failed"}
    /\ renewal # {} => refreshes >= 1 /\ stream \in {"ready", "renewing"}
    /\ stream = "renewing" => renewal # {}
    /\ stream \in {"loading", "failed"} => ~playing
    /\ running => Known /\ playing
    /\ ~playing /\ stream # "failed" => unsaved = 0
    /\ unsaved <= Budget
    /\ Known => unsaved + saveIn <= Budget

LEMMA BudgetFacts ==
    ASSUME NEW s \in Nat, NEW r \in Nat
    PROVE  s * r \in Nat /\ s * (r + 1) = s * r + s /\ s * (1 + r) = s * r + s
           /\ (r >= 1 => s <= s * r)
<1>1. s * r \in Nat /\ s * (r + 1) = s * r + s /\ s * (1 + r) = s * r + s
  OBVIOUS
<1>2. ASSUME r >= 1 PROVE s <= s * r
  <2>1. PICK k \in Nat : r = k + 1
    <3>1. r - 1 \in Nat /\ r = (r - 1) + 1
      BY <1>2
    <3> QED
      BY <3>1
  <2>2. s * r = s * k + s /\ s * k \in Nat
    BY <2>1
  <2> QED
    BY <2>2
<1> QED
  BY <1>1, <1>2

\* Room for a period, whatever the budget is made of.
LEMMA Room ==
    ASSUME NEW b \in Nat, NEW u \in Nat, NEW t \in 0 .. SaveEvery, SaveEvery \in Nat,
           u + SaveEvery <= b
    PROVE  u <= b /\ u + t <= b
  OBVIOUS

LEMMA SavesStart == WatchInit => SavesInv
<1> SUFFICES ASSUME WatchInit PROVE SavesInv
  OBVIOUS
<1>1. SaveEvery \in Nat
  BY WatchAssumption
<1>2. SaveEvery * 1 = SaveEvery
  BY <1>1
<1>3. Budget = SaveEvery
  BY <1>1, <1>2 DEF WatchInit, Budget
<1> QED
  BY <1>1, <1>3 DEF WatchInit, SavesInv, Known

\* A save that is sent empties what may be lost, and the period starts again or runs on.
LEMMA SavedStep ==
    ASSUME SavesInv, SendsProgress(FALSE) \/ SendsProgress(TRUE),
           saveIn' \in 0 .. SaveEvery, ~Known => saveIn' = saveIn \/ stream = "renewing",
           UNCHANGED <<stream, renewal, refreshes>>,
           running' => Known /\ playing', stream \in {"loading", "failed"} => ~playing',
           ~Known => playing' = playing
    PROVE  SavesInv'
<1>1. SaveEvery \in Nat /\ refreshes \in Nat /\ Budget' = Budget
  BY WatchAssumption DEF SavesInv, Budget
<1>2. CASE Known
  <2>1. unsaved' = 0
    BY <1>2 DEF SendsProgress
  <2>2. Budget \in Nat /\ SaveEvery <= Budget
    <3>1. /\ SaveEvery * refreshes \in Nat
          /\ SaveEvery * (refreshes + 1) = SaveEvery * refreshes + SaveEvery
          /\ refreshes >= 1 => SaveEvery <= SaveEvery * refreshes
      BY <1>1, BudgetFacts
    <3> QED
      BY <1>1, <3>1 DEF SavesInv, Budget
  <2>3. stream' = "ready" /\ renewal' = renewal /\ refreshes' = refreshes
        /\ (renewal # {} => refreshes >= 1)
    BY <1>2 DEF SavesInv, Known
  <2>4. unsaved' <= Budget' /\ unsaved' + saveIn' <= Budget'
    <3>1. Budget' \in Nat /\ unsaved' \in Nat /\ saveIn' \in 0 .. SaveEvery
      BY <1>1, <2>1, <2>2
    <3>2. 0 + SaveEvery <= Budget
      BY <1>1, <2>2
    <3>3. unsaved' + SaveEvery <= Budget'
      BY <1>1, <2>1, <3>2
    <3> QED
      BY Zenon, <1>1, <3>1, <3>3, Room
  <2> QED
    BY <1>1, <1>2, <2>1, <2>3, <2>4 DEF SavesInv, Known
<1>3. CASE ~Known
  <2>1. unsaved' = unsaved
    BY <1>3 DEF SendsProgress
  <2> QED
    BY <1>1, <1>3, <2>1 DEF SavesInv, Known
<1> QED
  BY <1>2, <1>3

\* The source: a renewal borrows a period and pays it back when it is loaded.
LEMMA SourceSaves ==
    ASSUME SavesInv, SourceLoaded \/ UrlRenewed \/ NewSource \/ RenewalLoaded \/ SourceFails
    PROVE  SavesInv'
<1>1. SaveEvery \in Nat /\ refreshes \in Nat /\ refreshes + 1 \in Nat
  BY WatchAssumption DEF SavesInv
<1>2. /\ SaveEvery * refreshes \in Nat
      /\ SaveEvery * (refreshes + 1) = SaveEvery * refreshes + SaveEvery
      /\ refreshes >= 1 => SaveEvery <= SaveEvery * refreshes
  BY <1>1, BudgetFacts
<1>3. Budget \in Nat /\ SaveEvery <= Budget
  BY <1>1, <1>2 DEF Budget, SavesInv
<1>4. CASE SourceLoaded
  <2>1. /\ stream = "loading" /\ stream' = "ready"
        /\ UNCHANGED <<running, playing, saveIn, renewal, refreshes, unsaved>>
    BY <1>4 DEF SourceLoaded, countVars
  <2>2. Budget' = Budget
    BY <2>1 DEF Budget
  <2> QED
    BY <1>1, <1>3, <2>1, <2>2 DEF SavesInv, Known
<1>5. CASE UrlRenewed
  <2>1. /\ stream = "ready" /\ refreshes' = refreshes + 1 /\ renewal' # {}
        /\ UNCHANGED <<stream, running, playing, saveIn, unsaved>>
    BY <1>5 DEF UrlRenewed, Known
  <2>2. Budget' = SaveEvery * (refreshes + 1)
    BY <2>1 DEF Budget
  <2>3. Budget <= Budget' /\ Budget' \in Nat
    BY <1>1, <1>2, <2>2 DEF Budget
  <2> QED
    BY <1>1, <1>3, <2>1, <2>3 DEF SavesInv, Known
<1>6. CASE NewSource
  <2>1. /\ stream = "ready" /\ stream' = "renewing" /\ renewal # {} /\ running' = FALSE
        /\ UNCHANGED <<playing, saveIn, renewal, refreshes, unsaved>>
    BY <1>6 DEF NewSource, Known, countVars
  <2>2. Budget' = Budget
    BY <2>1 DEF Budget
  <2> QED
    BY <1>1, <1>3, <2>1, <2>2 DEF SavesInv, Known
<1>7. CASE RenewalLoaded
  <2>1. /\ stream = "renewing" /\ stream' = "ready" /\ renewal' = {} /\ renewal # {}
        /\ (running' => playing') /\ (playing => playing')
        /\ saveIn' \in {SaveEvery, saveIn} /\ UNCHANGED <<refreshes, unsaved>>
    BY Zenon, <1>7 DEF RenewalLoaded, countVars, SavesInv
  <2>2. Budget' = SaveEvery * (refreshes + 1) /\ Budget = SaveEvery * refreshes
    BY <2>1 DEF Budget
  <2>3. saveIn' \in 0 .. SaveEvery
    BY <1>1, <2>1 DEF SavesInv
  <2>4. unsaved \in Nat /\ unsaved <= SaveEvery * refreshes
    BY <2>2 DEF SavesInv
  <2>5. unsaved' <= Budget' /\ unsaved' + saveIn' <= Budget'
    <3>1. PICK b \in Nat : b = SaveEvery * refreshes
      BY <1>2
    <3>2. Budget' = b + SaveEvery /\ unsaved' = unsaved /\ unsaved <= b
      BY <1>2, <2>1, <2>2, <2>4, <3>1
    <3>3. unsaved + SaveEvery <= b + SaveEvery /\ b + SaveEvery \in Nat
      BY <1>1, <2>4, <3>1, <3>2
    <3>4. Budget' \in Nat /\ unsaved' \in Nat /\ unsaved' + SaveEvery <= Budget'
      BY <2>4, <3>2, <3>3
    <3> QED
      BY Zenon, <1>1, <2>3, <3>4, Room
  <2>6. ~playing' => unsaved' = 0
    BY <2>1 DEF SavesInv
  <2> QED
    BY <1>1, <2>1, <2>3, <2>4, <2>5, <2>6 DEF SavesInv, Known
<1>8. CASE SourceFails
  <2>1. /\ stream' = "failed" /\ running' = FALSE /\ playing' = FALSE /\ renewal' = {}
        /\ UNCHANGED <<saveIn, refreshes, unsaved>>
    BY <1>8 DEF SourceFails
  <2>2. Budget' = SaveEvery * (refreshes + 1)
    BY <2>1 DEF Budget
  <2>3. Budget <= Budget'
    BY <1>1, <1>2, <2>2 DEF Budget
  <2>4. unsaved' <= Budget'
    BY <1>3, <1>1, <1>2, <2>1, <2>2, <2>3 DEF SavesInv
  <2> QED
    BY <1>1, <2>1, <2>4 DEF SavesInv, Known
<1> QED
  BY <1>4, <1>5, <1>6, <1>7, <1>8

\* Playing: a second moves one second from the time to the next save to what is unsaved.
LEMMA PlayingSaves ==
    ASSUME SavesInv, Play \/ Restart \/ Second \/ \E to \in 0 .. Duration : Seek(to)
    PROVE  SavesInv'
<1>1. SaveEvery \in Nat /\ refreshes \in Nat
  BY WatchAssumption DEF SavesInv
<1>2. /\ SaveEvery * refreshes \in Nat
      /\ SaveEvery * (refreshes + 1) = SaveEvery * refreshes + SaveEvery
      /\ refreshes >= 1 => SaveEvery <= SaveEvery * refreshes
  BY <1>1, BudgetFacts
<1>3. Budget \in Nat /\ SaveEvery <= Budget
  BY <1>1, <1>2 DEF Budget, SavesInv
<1>4. CASE Play \/ Restart
  <2>1. /\ stream = "ready" /\ running' = TRUE /\ playing' = TRUE
        /\ saveIn' = (IF playing THEN saveIn ELSE SaveEvery)
        /\ UNCHANGED <<stream, renewal, refreshes, unsaved>>
    BY <1>4 DEF Play, Restart, Known
  <2>2. Budget' = Budget
    BY <2>1 DEF Budget
  <2>3. saveIn' \in 0 .. SaveEvery /\ unsaved' + saveIn' <= Budget'
    BY <1>1, <1>3, <2>1, <2>2 DEF SavesInv, Known
  <2> QED
    BY <1>1, <2>1, <2>2, <2>3 DEF SavesInv, Known
<1>5. CASE Second
  <2>1. /\ playing => saveIn > 0
        /\ unsaved' = (IF running THEN unsaved + 1 ELSE unsaved)
        /\ saveIn' = (IF playing THEN saveIn - 1 ELSE saveIn)
        /\ UNCHANGED <<stream, running, playing, renewal, refreshes>>
    BY <1>5 DEF Second, countVars
  <2>2. Budget' = Budget
    BY <2>1 DEF Budget
  <2>3. saveIn' \in 0 .. SaveEvery /\ unsaved' \in Nat
    BY <1>1, <2>1 DEF SavesInv
  <2>4. /\ unsaved' <= Budget /\ (Known => unsaved' + saveIn' <= Budget)
        /\ ~running => unsaved' = unsaved
    BY <1>1, <1>3, <2>1 DEF SavesInv
  <2> QED
    BY <1>1, <2>1, <2>2, <2>3, <2>4 DEF SavesInv, Known
<1>6. ASSUME NEW to \in 0 .. Duration, Seek(to) PROVE SavesInv'
  <2>1. UNCHANGED <<stream, running, playing, saveIn, renewal, refreshes, unsaved>>
    BY <1>6 DEF Seek
  <2> QED
    BY <2>1 DEF SavesInv, Budget, Known
<1> QED
  BY <1>4, <1>5, <1>6

LEMMA SavesKeep == SavesInv /\ [WatchNext]_watchVars => SavesInv'
<1> SUFFICES ASSUME SavesInv, [WatchNext]_watchVars PROVE SavesInv'
  OBVIOUS
<1>1. SaveEvery \in Nat /\ saveIn \in 0 .. SaveEvery /\ SaveEvery \in 0 .. SaveEvery
  BY WatchAssumption DEF SavesInv
<1>2. CASE UNCHANGED <<stream, running, playing, saveIn, renewal, refreshes, unsaved>>
  BY <1>2 DEF SavesInv, Budget, Known
<1>3. CASE Pause
  <2>1. /\ Known /\ running' = FALSE /\ playing' = FALSE /\ SendsProgress(FALSE)
        /\ UNCHANGED <<stream, saveIn, renewal, refreshes>>
    BY Zenon, <1>3 DEF Pause
  <2> QED
    BY <1>1, <2>1, SavedStep DEF Known
<1>4. CASE VideoEnded
  <2>1. /\ Known /\ running' = FALSE /\ playing' = FALSE /\ SendsProgress(TRUE)
        /\ UNCHANGED <<stream, saveIn, renewal, refreshes>>
    BY Zenon, <1>4 DEF VideoEnded, countVars
  <2> QED
    BY <1>1, <2>1, SavedStep DEF Known
<1>5. CASE Autosave
  <2>1. /\ playing /\ saveIn' = SaveEvery /\ SendsProgress(FALSE)
        /\ UNCHANGED <<stream, running, playing, renewal, refreshes>>
    BY Zenon, <1>5 DEF Autosave, countVars
  <2>2. ~Known => stream = "renewing"
    BY <2>1 DEF SavesInv, Known
  <2> QED
    BY <1>1, <2>1, <2>2, SavedStep DEF SavesInv
<1>6. ASSUME NEW r \in reloads, LessonLoaded(r) PROVE SavesInv'
  <2>1. /\ saveIn' = (IF playing THEN SaveEvery ELSE saveIn) /\ SendsProgress(FALSE)
        /\ UNCHANGED <<stream, running, playing, renewal, refreshes>>
    BY Zenon, <1>6 DEF LessonLoaded, countVars
  <2>2. ~Known => saveIn' = saveIn \/ stream = "renewing"
    BY <2>1 DEF SavesInv, Known
  <2> QED
    BY <1>1, <2>1, <2>2, SavedStep DEF SavesInv
<1>7. CASE ToggleComplete \/ LessonServed
           \/ \E p \in pings : PingLost(p) \/ PingServed(p) \/ PingAnswered(p)
  <2>1. UNCHANGED <<stream, running, playing, saveIn, renewal, refreshes, unsaved>>
    BY Zenon, <1>7 DEF ToggleComplete, LessonServed, PingLost, PingServed, PingAnswered, mediaVars, countVars
  <2> QED
    BY <1>2, <2>1
<1>8. CASE UNCHANGED watchVars
  BY <1>2, <1>8 DEF watchVars
<1> QED
  BY <1>3, <1>4, <1>5, <1>6, <1>7, <1>8, SourceSaves, PlayingSaves DEF WatchNext, WatchStep

\* However the student plays, pauses, seeks and the stream is renewed, no more than one
\* period has been played since progress was last sent, and one for each renewal.
THEOREM LittleIsUnsaved == WatchSpec => []UnsavedBounded
<1>1. SavesInv => UnsavedBounded
  <2> SUFFICES ASSUME SavesInv PROVE UnsavedBounded
    OBVIOUS
  <2>1. SaveEvery \in Nat /\ refreshes \in Nat /\ unsaved \in Nat /\ unsaved <= Budget
    BY WatchAssumption DEF SavesInv
  <2>2. /\ SaveEvery * refreshes \in Nat
        /\ SaveEvery * (refreshes + 1) = SaveEvery * refreshes + SaveEvery
        /\ SaveEvery * (1 + refreshes) = SaveEvery * refreshes + SaveEvery
    BY <2>1, BudgetFacts
  <2> QED
    BY <2>1, <2>2 DEF Budget, UnsavedBounded
<1> QED
  BY <1>1, SavesStart, SavesKeep, PTL DEF WatchSpec

-----------------------------------------------------------------------------
(***************************************************************************)
(* A recall check that was answered (LessonEditor.tsx).                    *)
(***************************************************************************)

Form == [aligned : SUBSET Nat, rubric : Nat, check : Nat, locked : BOOLEAN]
LessonRow == [aligned : SUBSET Nat, rubric : Nat, check : Nat, archived : BOOLEAN]
Ops == {"catalog", "objective", "rubric", "save", "archive", "restore"}
Steps == {"sent", "checked", "done", "refused"}

\* The fields of a request; the number only tells equal requests apart.
IsDeskCall(c) == c \in [n : {c.n}, op : Ops, form : Form, step : Steps, got : Nat]

DeskTypeOK ==
    /\ desk \in Form /\ lessonRow \in LessonRow
    /\ attempted \in BOOLEAN /\ savingLesson \in BOOLEAN
    /\ objectiveCatalog \subseteq Nat /\ rubricCatalog \subseteq Nat
    /\ objectiveCount \in Nat /\ rubricCount \in Nat /\ wordings \in Nat
    /\ \A c \in deskCalls : IsDeskCall(c)

\* The button is disabled while a save is under way, so there is one at most.
OneSave ==
    /\ \A c, d \in deskCalls : c.op = "save" /\ d.op = "save" => c = d
    /\ \A c \in deskCalls : c.op = "save" => savingLesson
\* Only a check that exists is answered, and it keeps existing.
AnsweredExists == attempted => lessonRow.check # 0
\* A validation that saw an attempt let through only the wording that is stored.
CheckedKeeps ==
    \A c \in deskCalls : c.op = "save" /\ c.step = "checked" =>
        c.got = 0 \/ (c.got = 1 /\ attempted /\ c.form.check = lessonRow.check)

DeskIInv == DeskTypeOK /\ OneSave /\ AnsweredExists /\ CheckedKeeps

\* What the invariant says of the requests is kept when a request is taken away.
LEMMA CallRemoved ==
    ASSUME NEW c \in deskCalls, DeskIInv, deskCalls' = deskCalls \ {c},
           UNCHANGED <<lessonRow, attempted>>,
           savingLesson' = savingLesson \/ (c.op = "save" /\ savingLesson' \in BOOLEAN)
    PROVE  (\A d \in deskCalls' : IsDeskCall(d)) /\ OneSave' /\ AnsweredExists' /\ CheckedKeeps'
  BY DEF DeskIInv, DeskTypeOK, OneSave, AnsweredExists, CheckedKeeps

\* It is kept when a request that is not a save moves on.
LEMMA CallMoved ==
    ASSUME NEW c \in deskCalls, NEW d, DeskIInv, deskCalls' = (deskCalls \ {c}) \cup {d},
           IsDeskCall(d), d.op = c.op, c.op = "save" => d.step # "checked",
           savingLesson' = savingLesson, attempted' = attempted, lessonRow'.check = lessonRow.check
    PROVE  (\A e \in deskCalls' : IsDeskCall(e)) /\ OneSave' /\ AnsweredExists' /\ CheckedKeeps'
  BY DEF DeskIInv, DeskTypeOK, OneSave, AnsweredExists, CheckedKeeps

\* It is kept when a request is added; a save only when none is under way.
LEMMA CallAdded ==
    ASSUME NEW op \in Ops, DeskIInv, DeskCall(op), UNCHANGED <<lessonRow, attempted>>,
           IF op = "save" THEN ~savingLesson /\ savingLesson' = TRUE ELSE savingLesson' = savingLesson
    PROVE  (\A e \in deskCalls' : IsDeskCall(e)) /\ OneSave' /\ AnsweredExists' /\ CheckedKeeps'
  <1> DEFINE d == [n |-> DeskNumber, op |-> op, form |-> desk, step |-> "sent", got |-> 0]
  <1>1. deskCalls' = deskCalls \cup {d}
    BY DEF DeskCall
  <1>2. IsDeskCall(d) /\ d.op = op /\ d.step = "sent"
    BY DEF IsDeskCall, DeskIInv, DeskTypeOK, Steps
  <1> HIDE DEF d
  <1>3. CASE op = "save"
    <2>1. \A c \in deskCalls : c.op # "save"
      BY Zenon, <1>3 DEF DeskIInv, OneSave
    <2> QED
      BY Zenon, <1>1, <1>2, <1>3, <2>1 DEF DeskIInv, DeskTypeOK, OneSave, AnsweredExists, CheckedKeeps
  <1>4. CASE op # "save"
    BY Zenon, <1>1, <1>2, <1>4 DEF DeskIInv, DeskTypeOK, OneSave, AnsweredExists, CheckedKeeps
  <1> QED
    BY <1>3, <1>4

\* It does not speak of the form.
LEMMA CallsKept ==
    ASSUME DeskIInv, UNCHANGED <<deskCalls, lessonRow, attempted, savingLesson>>
    PROVE  (\A e \in deskCalls' : IsDeskCall(e)) /\ OneSave' /\ AnsweredExists' /\ CheckedKeeps'
  BY DEF DeskIInv, DeskTypeOK, OneSave, AnsweredExists, CheckedKeeps

\* The empty form of an answer.
LEMMA NoFormIsForm == NoForm \in Form
  BY Zenon DEF NoForm, Form

\* The invariant is kept when the server answers a request.
LEMMA CallAnswered ==
    ASSUME NEW c \in deskCalls, DeskIInv, NEW step \in Steps \ {"checked"}, NEW got \in Nat, Answer(c, step, got),
           UNCHANGED <<savingLesson, attempted>>, lessonRow'.check = lessonRow.check
    PROVE  (\A e \in deskCalls' : IsDeskCall(e)) /\ OneSave' /\ AnsweredExists' /\ CheckedKeeps'
  <1> DEFINE d == [c EXCEPT !.step = step, !.got = got, !.form = NoForm]
  <1>1. IsDeskCall(c)
    BY Zenon DEF DeskIInv, DeskTypeOK
  <1>2. IsDeskCall(d) /\ d.op = c.op /\ d.step = step
    BY Zenon, <1>1, NoFormIsForm DEF IsDeskCall
  <1>3. deskCalls' = (deskCalls \ {c}) \cup {d}
    BY DEF Answer
  <1> HIDE DEF d
  <1> QED
    BY <1>2, <1>3, CallMoved

\* The state the editor opens in.
LEMMA DeskStarts == DeskInit => DeskIInv
  <1> SUFFICES ASSUME DeskInit PROVE DeskIInv
    OBVIOUS
  <1> DEFINE c == [n |-> 1, op |-> "catalog", form |-> NoForm, step |-> "sent", got |-> 0]
  <1>0. /\ lessonRow = [aligned |-> {1}, rubric |-> 0, check |-> 1, archived |-> FALSE] /\ attempted = FALSE
        /\ desk = FormOf(lessonRow)
        /\ objectiveCount = 2 /\ rubricCount = 1 /\ wordings = 1 /\ objectiveCatalog = {} /\ rubricCatalog = {1}
        /\ savingLesson = FALSE
    BY DEF DeskInit
  <1>a. lessonRow \in LessonRow
    BY <1>0 DEF LessonRow
  <1>b. desk = [aligned |-> {1}, rubric |-> 0, check |-> 1, locked |-> FALSE]
    BY Zenon, <1>0 DEF FormOf
  <1>1. lessonRow \in LessonRow /\ desk \in Form
    BY <1>a, <1>b DEF Form
  <1>2. IsDeskCall(c) /\ c.op = "catalog"
    BY NoFormIsForm DEF IsDeskCall, Ops, Steps
  <1>3. deskCalls = {c}
    BY DEF DeskInit
  <1> HIDE DEF c
  <1>4. DeskTypeOK
    <2>1. attempted \in BOOLEAN /\ savingLesson \in BOOLEAN
      BY Zenon, <1>0
    <2>2. objectiveCatalog \subseteq Nat /\ rubricCatalog \subseteq Nat
      BY <1>0
    <2>3. objectiveCount \in Nat /\ rubricCount \in Nat /\ wordings \in Nat
      BY <1>0
    <2> QED
      BY <1>1, <1>2, <1>3, <2>1, <2>2, <2>3 DEF DeskTypeOK
  <1> QED
    BY Zenon, <1>0, <1>2, <1>3, <1>4 DEF DeskIInv, OneSave, AnsweredExists, CheckedKeeps

\* Edits of the form.
LEMMA ShapeStep ==
    ASSUME DeskIInv, NEW form \in Form, Shape(form), wordings' \in Nat PROVE DeskIInv'
  <1>1. UNCHANGED <<deskCalls, lessonRow, attempted, savingLesson, objectiveCatalog, rubricCatalog, objectiveCount, rubricCount>> /\ desk' = form
    BY DEF Shape, deskServer, deskFlags
  <1> QED
    BY <1>1, CallsKept DEF DeskIInv, DeskTypeOK

\* The fields of the form, one by one.
LEMMA FormStep ==
    ASSUME DeskIInv,
           \/ \E o \in 1 .. objectiveCount : AddExistingObjective(o) \/ RemoveObjective(o)
           \/ \E r \in 0 .. rubricCount : SelectRubric(r)
           \/ RewordCheck \/ ToggleCheck
    PROVE  DeskIInv'
  <1> USE DEF DeskIInv, DeskTypeOK
  <1>1. ASSUME NEW o \in 1 .. objectiveCount, AddExistingObjective(o) PROVE DeskIInv'
    <2>1. [desk EXCEPT !.aligned = @ \cup {o}] \in Form
      BY DEF Form
    <2> QED
      BY <1>1, <2>1, ShapeStep DEF AddExistingObjective
  <1>2. ASSUME NEW o \in 1 .. objectiveCount, RemoveObjective(o) PROVE DeskIInv'
    <2>1. [desk EXCEPT !.aligned = @ \ {o}] \in Form
      BY DEF Form
    <2> QED
      BY <1>2, <2>1, ShapeStep DEF RemoveObjective
  <1>3. ASSUME NEW r \in 0 .. rubricCount, SelectRubric(r) PROVE DeskIInv'
    <2>1. [desk EXCEPT !.rubric = r] \in Form
      BY DEF Form
    <2> QED
      BY <1>3, <2>1, ShapeStep DEF SelectRubric
  <1>4. CASE RewordCheck
    <2>1. wordings' \in Nat
      BY <1>4 DEF RewordCheck
    <2>2. [desk EXCEPT !.check = wordings'] \in Form
      BY <2>1 DEF Form
    <2> QED
      BY <1>4, <2>1, <2>2, ShapeStep DEF RewordCheck
  <1>5. CASE ToggleCheck
    <2>1. wordings' \in Nat
      BY <1>5 DEF ToggleCheck
    <2>2. [desk EXCEPT !.check = IF @ = 0 THEN wordings' ELSE 0] \in Form
      BY <2>1 DEF Form
    <2> QED
      BY <1>5, <2>1, <2>2, ShapeStep DEF ToggleCheck
  <1> QED
    BY <1>1, <1>2, <1>3, <1>4, <1>5

\* The buttons, and the student's answer.
LEMMA ButtonStep ==
    ASSUME DeskIInv,
           HandleCreateObjective \/ HandleCreateRubric \/ HandleSaveLesson \/ AskArchive \/ HandleArchive \/ StudentAnswers
    PROVE  DeskIInv'
  <1>1. CASE HandleCreateObjective
    <2>1. DeskCall("objective") /\ UNCHANGED <<desk, objectiveCatalog, rubricCatalog, savingLesson, lessonRow, attempted, objectiveCount, rubricCount, wordings>>
      BY <1>1 DEF HandleCreateObjective, deskServer
    <2> QED
      BY Zenon, <2>1, CallAdded DEF DeskIInv, DeskTypeOK, Ops
  <1>2. CASE HandleCreateRubric
    <2>1. DeskCall("rubric") /\ UNCHANGED <<desk, objectiveCatalog, rubricCatalog, savingLesson, lessonRow, attempted, objectiveCount, rubricCount, wordings>>
      BY <1>2 DEF HandleCreateRubric, deskServer
    <2> QED
      BY Zenon, <2>1, CallAdded DEF DeskIInv, DeskTypeOK, Ops
  <1>3. CASE HandleSaveLesson
    <2>1. /\ DeskCall("save") /\ ~savingLesson /\ savingLesson' = TRUE
          /\ UNCHANGED <<desk, objectiveCatalog, rubricCatalog, lessonRow, attempted, objectiveCount, rubricCount, wordings>>
      BY <1>3 DEF HandleSaveLesson, deskServer
    <2> QED
      BY Zenon, <2>1, CallAdded DEF DeskIInv, DeskTypeOK, Ops
  <1>4. CASE AskArchive
    <2>1. UNCHANGED <<desk, objectiveCatalog, rubricCatalog, deskCalls, savingLesson, lessonRow, attempted, objectiveCount, rubricCount, wordings>>
      BY <1>4 DEF AskArchive, deskServer, deskFlags
    <2> QED
      BY <2>1, CallsKept DEF DeskIInv, DeskTypeOK
  <1>5. CASE HandleArchive
    <2>1. PICK op \in {"archive", "restore"} : DeskCall(op)
      BY <1>5 DEF HandleArchive
    <2>2. UNCHANGED <<desk, objectiveCatalog, rubricCatalog, savingLesson, lessonRow, attempted, objectiveCount, rubricCount, wordings>>
      BY Zenon, <1>5 DEF HandleArchive, deskServer, deskPage
    <2> QED
      BY Zenon, <2>1, <2>2, CallAdded DEF DeskIInv, DeskTypeOK, Ops
  <1>6. CASE StudentAnswers
    <2>1. /\ lessonRow.check # 0 /\ ~attempted /\ attempted' = TRUE
          /\ UNCHANGED <<desk, objectiveCatalog, rubricCatalog, savingLesson, lessonRow, deskCalls, objectiveCount, rubricCount, wordings>>
      BY <1>6 DEF StudentAnswers, deskPage, deskFlags
    <2> QED
      BY <2>1 DEF DeskIInv, DeskTypeOK, OneSave, AnsweredExists, CheckedKeeps
  <1> QED
    BY <1>1, <1>2, <1>3, <1>4, <1>5, <1>6

\* The server's two steps of a save.
LEMMA ValidateStep ==
    ASSUME DeskIInv, NEW c \in deskCalls, ValidateSave(c) PROVE DeskIInv'
  <1>1. /\ c.op = "save" /\ c.step = "sent" /\ IsDeskCall(c)
        /\ UNCHANGED <<desk, objectiveCatalog, rubricCatalog, savingLesson, lessonRow, attempted, objectiveCount, rubricCount, wordings>>
    BY DEF ValidateSave, deskPage, deskFlags, deskServer, DeskIInv, DeskTypeOK
  <1>2. CASE PreservesEvidence(c.form)
    <2> DEFINE d == [c EXCEPT !.step = "checked", !.got = AsNumber(attempted)]
    <2>1. deskCalls' = (deskCalls \ {c}) \cup {d}
      BY <1>2 DEF ValidateSave
    <2>2. IsDeskCall(d) /\ d.op = "save" /\ d.step = "checked" /\ d.got = AsNumber(attempted) /\ d.form = c.form
      BY Zenon, <1>1 DEF IsDeskCall, AsNumber, Steps
    <2> HIDE DEF d
    <2>3. d.got = 0 \/ (d.got = 1 /\ attempted /\ d.form.check = lessonRow.check)
      BY Zenon, <1>2, <2>2 DEF AsNumber, PreservesEvidence
    <2>4. \A e \in deskCalls : e.op = "save" => e = c
      BY <1>1 DEF DeskIInv, OneSave
    <2> QED
      BY Zenon, <1>1, <2>1, <2>2, <2>3, <2>4 DEF DeskIInv, DeskTypeOK, OneSave, AnsweredExists, CheckedKeeps
  <1>3. CASE ~PreservesEvidence(c.form)
    <2>1. Answer(c, "refused", 0)
      BY <1>3 DEF ValidateSave
    <2> QED
      BY <1>1, <2>1, CallAnswered DEF DeskIInv, DeskTypeOK, Steps
  <1> QED
    BY <1>2, <1>3

\* The commit: an answered check changes only if no attempt was seen before.
LEMMA CommitStep ==
    ASSUME DeskIInv, NEW c \in deskCalls, CommitSave(c)
    PROVE  /\ DeskIInv'
           /\ attempted /\ lessonRow'.check # lessonRow.check => lessonRow'.check # 0 /\ c.step = "checked" /\ c.got = 0
  <1>1. /\ c.op = "save" /\ c.step = "checked" /\ IsDeskCall(c)
        /\ UNCHANGED <<desk, objectiveCatalog, rubricCatalog, savingLesson, attempted, objectiveCount, rubricCount, wordings>>
    BY DEF CommitSave, deskPage, deskFlags, DeskIInv, DeskTypeOK
  <1>2. CASE attempted /\ c.form.check = 0 /\ lessonRow.check # 0
    <2>1. Answer(c, "refused", 0) /\ lessonRow' = lessonRow
      BY <1>2 DEF CommitSave
    <2>2. DeskIInv'
      BY <1>1, <2>1, CallAnswered DEF DeskIInv, DeskTypeOK, Steps
    <2> QED
      BY <2>1, <2>2
  <1>3. CASE ~(attempted /\ c.form.check = 0 /\ lessonRow.check # 0)
    <2> DEFINE d == [c EXCEPT !.step = "done", !.form.locked = attempted, !.got = AsNumber(lessonRow.archived)]
    <2>1. deskCalls' = (deskCalls \ {c}) \cup {d}
      BY <1>3 DEF CommitSave
    <2>2. IsDeskCall(d) /\ d.op = "save" /\ d.step = "done"
      <3>1. [c.form EXCEPT !.locked = attempted] \in Form
        BY <1>1 DEF IsDeskCall, Form, DeskIInv, DeskTypeOK
      <3>2. d = [c EXCEPT !.step = "done", !.form = [c.form EXCEPT !.locked = attempted], !.got = AsNumber(lessonRow.archived)]
        BY <1>1 DEF IsDeskCall
      <3>3. AsNumber(lessonRow.archived) \in Nat /\ "done" \in Steps
        BY DEF AsNumber, Steps
      <3> HIDE DEF d
      <3> QED
        BY Zenon, <1>1, <3>1, <3>2, <3>3 DEF IsDeskCall
    <2> HIDE DEF d
    <2>3. lessonRow' = [lessonRow EXCEPT !.aligned = c.form.aligned, !.rubric = c.form.rubric, !.check = c.form.check]
      BY <1>3 DEF CommitSave
    <2>4. lessonRow' \in LessonRow /\ lessonRow'.check = c.form.check
      BY Zenon, <1>1, <2>3 DEF IsDeskCall, Form, LessonRow, DeskIInv, DeskTypeOK
    <2>5. attempted => lessonRow.check # 0 /\ c.form.check # 0
      BY <1>3 DEF DeskIInv, AnsweredExists
    <2>6. \A e \in deskCalls : e.op = "save" => e = c
      BY <1>1 DEF DeskIInv, OneSave
    <2>7. c.got = 0 \/ c.form.check = lessonRow.check
      BY Zenon, <1>1 DEF DeskIInv, CheckedKeeps
    <2> QED
      <3>1. DeskTypeOK'
        BY Zenon, <1>1, <2>1, <2>2, <2>4 DEF DeskIInv, DeskTypeOK
      <3>2. OneSave' /\ CheckedKeeps'
        BY ZenonT(40), <1>1, <2>1, <2>2, <2>6 DEF DeskIInv, OneSave, CheckedKeeps
      <3>3. AnsweredExists'
        BY Zenon, <1>1, <2>4, <2>5 DEF AnsweredExists
      <3> QED
        BY ZenonT(40), <1>1, <2>4, <2>5, <2>7, <3>1, <3>2, <3>3 DEF DeskIInv
  <1> QED
    BY Zenon, <1>2, <1>3

\* The server's other answers, and failures: the stored check stays.
LEMMA ServeStep ==
    ASSUME DeskIInv, NEW c \in deskCalls,
           ServeObjective(c) \/ ServeRubric(c) \/ ServeArchive(c) \/ ServeCatalog(c) \/ DeskFails(c)
    PROVE  DeskIInv' /\ lessonRow'.check = lessonRow.check
  <1>0. IsDeskCall(c) /\ lessonRow \in LessonRow /\ objectiveCount \in Nat /\ rubricCount \in Nat
    BY DEF DeskIInv, DeskTypeOK
  <1>1. CASE ServeObjective(c)
    <2> DEFINE d == [c EXCEPT !.step = "done", !.got = objectiveCount']
    <2>1. /\ objectiveCount' = objectiveCount + 1 /\ c.op = "objective"
          /\ deskCalls' = (deskCalls \ {c}) \cup {d}
          /\ lessonRow' = [lessonRow EXCEPT !.aligned = @ \cup {objectiveCount'}]
          /\ UNCHANGED <<desk, objectiveCatalog, rubricCatalog, savingLesson, attempted, rubricCount, wordings>>
      BY <1>1 DEF ServeObjective, deskPage, deskFlags
    <2>2. lessonRow' \in LessonRow /\ lessonRow'.check = lessonRow.check /\ objectiveCount' \in Nat
      BY <1>0, <2>1 DEF LessonRow
    <2>3. IsDeskCall(d) /\ d.op = c.op
      BY Zenon, <1>0, <2>2 DEF IsDeskCall, Steps
    <2> HIDE DEF d
    <2> QED
      BY <2>1, <2>2, <2>3, CallMoved DEF DeskIInv, DeskTypeOK
  <1>2. CASE ServeRubric(c)
    <2>1. /\ rubricCount' = rubricCount + 1 /\ Answer(c, "done", rubricCount')
          /\ UNCHANGED <<desk, objectiveCatalog, rubricCatalog, savingLesson, lessonRow, attempted, objectiveCount, wordings>>
      BY <1>2 DEF ServeRubric, deskPage, deskFlags
    <2> QED
      BY <1>0, <2>1, CallAnswered DEF DeskIInv, DeskTypeOK, Steps
  <1>3. CASE ServeArchive(c)
    <2>1. /\ Answer(c, "done", AsNumber(c.op = "archive")) /\ lessonRow' = [lessonRow EXCEPT !.archived = (c.op = "archive")]
          /\ UNCHANGED <<desk, objectiveCatalog, rubricCatalog, savingLesson, attempted, objectiveCount, rubricCount, wordings>>
      BY <1>3 DEF ServeArchive, deskPage, deskFlags
    <2>2. AsNumber(c.op = "archive") \in Nat
      BY DEF AsNumber
    <2>3. lessonRow' \in LessonRow /\ lessonRow'.check = lessonRow.check
      BY Zenon, <1>0, <2>1 DEF LessonRow
    <2> QED
      BY <2>1, <2>2, <2>3, CallAnswered DEF DeskIInv, DeskTypeOK, Steps
  <1>4. CASE ServeCatalog(c)
    <2>1. /\ Answer(c, "done", objectiveCount)
          /\ UNCHANGED <<desk, objectiveCatalog, rubricCatalog, savingLesson, lessonRow, attempted, objectiveCount, rubricCount, wordings>>
      BY <1>4 DEF ServeCatalog, deskPage, deskFlags, deskServer
    <2> QED
      BY <1>0, <2>1, CallAnswered DEF DeskIInv, DeskTypeOK, Steps
  <1>5. CASE DeskFails(c)
    <2>1. /\ Answer(c, "refused", 0)
          /\ UNCHANGED <<desk, objectiveCatalog, rubricCatalog, savingLesson, lessonRow, attempted, objectiveCount, rubricCount, wordings>>
      BY <1>5 DEF DeskFails, deskPage, deskFlags, deskServer
    <2> QED
      BY <2>1, CallAnswered DEF DeskIInv, DeskTypeOK, Steps
  <1> QED
    BY <1>1, <1>2, <1>3, <1>4, <1>5

\* The editor's side of the answers.
LEMMA AnsweredStep ==
    ASSUME DeskIInv, NEW c \in deskCalls,
           \/ ObjectiveAnswered(c) \/ RubricAnswered(c) \/ LessonSaved(c) \/ ArchiveAnswered(c)
           \/ CatalogAnswered(c) \/ DeskRefused(c)
    PROVE  DeskIInv' /\ lessonRow' = lessonRow
  <1>0. /\ IsDeskCall(c) /\ c.got \in Nat /\ c.form \in Form /\ desk \in Form /\ savingLesson \in BOOLEAN
        /\ objectiveCatalog \subseteq Nat /\ rubricCatalog \subseteq Nat
    BY DEF DeskIInv, DeskTypeOK, IsDeskCall
  <1>1. CASE ObjectiveAnswered(c)
    <2>1. /\ objectiveCatalog' = objectiveCatalog \cup {c.got} /\ desk' = [desk EXCEPT !.aligned = c.form.aligned \cup {c.got}]
          /\ deskCalls' = deskCalls \ {c}
          /\ UNCHANGED <<rubricCatalog, savingLesson, lessonRow, attempted, objectiveCount, rubricCount, wordings>>
      BY <1>1 DEF ObjectiveAnswered, deskServer
    <2>2. objectiveCatalog' \subseteq Nat /\ desk' \in Form
      BY <1>0, <2>1 DEF Form
    <2> QED
      BY <2>1, <2>2, CallRemoved DEF DeskIInv, DeskTypeOK
  <1>2. CASE RubricAnswered(c)
    <2>1. /\ rubricCatalog' = rubricCatalog \cup {c.got} /\ desk' = [desk EXCEPT !.rubric = c.got] /\ deskCalls' = deskCalls \ {c}
          /\ UNCHANGED <<objectiveCatalog, savingLesson, lessonRow, attempted, objectiveCount, rubricCount, wordings>>
      BY <1>2 DEF RubricAnswered, deskServer
    <2>2. rubricCatalog' \subseteq Nat /\ desk' \in Form
      BY <1>0, <2>1 DEF Form
    <2> QED
      BY <2>1, <2>2, CallRemoved DEF DeskIInv, DeskTypeOK
  <1>3. CASE LessonSaved(c)
    <2>1. /\ c.op = "save" /\ desk' = c.form /\ savingLesson' = FALSE /\ deskCalls' = deskCalls \ {c}
          /\ UNCHANGED <<objectiveCatalog, rubricCatalog, lessonRow, attempted, objectiveCount, rubricCount, wordings>>
      BY <1>3 DEF LessonSaved, deskServer
    <2>2. savingLesson' \in BOOLEAN
      BY Zenon, <2>1
    <2> QED
      BY <1>0, <2>1, <2>2, CallRemoved DEF DeskIInv, DeskTypeOK
  <1>4. CASE ArchiveAnswered(c)
    <2>1. /\ deskCalls' = deskCalls \ {c}
          /\ UNCHANGED <<desk, objectiveCatalog, rubricCatalog, savingLesson, lessonRow, attempted, objectiveCount, rubricCount, wordings>>
      BY <1>4 DEF ArchiveAnswered, deskServer
    <2> QED
      BY <2>1, CallRemoved DEF DeskIInv, DeskTypeOK
  <1>5. CASE CatalogAnswered(c)
    <2>1. /\ deskCalls' = deskCalls \ {c}
          /\ objectiveCatalog' = IF c.step = "done" THEN 1 .. c.got ELSE objectiveCatalog
          /\ UNCHANGED <<desk, rubricCatalog, savingLesson, lessonRow, attempted, objectiveCount, rubricCount, wordings>>
      BY <1>5 DEF CatalogAnswered, deskServer, deskFlags
    <2>2. objectiveCatalog' \subseteq Nat
      <3>1. \A k \in Nat : 1 .. k \subseteq Nat
        OBVIOUS
      <3>2. c.got \in Nat /\ objectiveCatalog \subseteq Nat
        BY Zenon, <1>0 DEF DeskIInv, DeskTypeOK
      <3> QED
        BY Zenon, <2>1, <3>1, <3>2
    <2> QED
      BY <2>1, <2>2, CallRemoved DEF DeskIInv, DeskTypeOK
  <1>6. CASE DeskRefused(c)
    <2>1. /\ deskCalls' = deskCalls \ {c} /\ savingLesson' = (savingLesson /\ c.op # "save")
          /\ UNCHANGED <<desk, objectiveCatalog, rubricCatalog, lessonRow, attempted, objectiveCount, rubricCount, wordings>>
      BY <1>6 DEF DeskRefused, deskServer
    <2>2. savingLesson' \in BOOLEAN
      BY <2>1
    <2>3. c.op # "save" => savingLesson' = savingLesson
      BY Zenon, <1>0, <2>1
    <2> QED
      BY <2>1, <2>2, <2>3, CallRemoved DEF DeskIInv, DeskTypeOK
  <1> QED
    BY <1>1, <1>2, <1>3, <1>4, <1>5, <1>6

\* Every step keeps the invariant, and changes an answered check only as promised.
LEMMA DeskNextStep ==
    ASSUME DeskIInv, [DeskNext]_deskVars
    PROVE  /\ DeskIInv'
           /\ attempted /\ lessonRow'.check # lessonRow.check
                => lessonRow'.check # 0 /\ \E c \in deskCalls : c.step = "checked" /\ c.got = 0
  <1>1. CASE \/ \E o \in 1 .. objectiveCount : AddExistingObjective(o) \/ RemoveObjective(o)
             \/ \E r \in 0 .. rubricCount : SelectRubric(r)
             \/ RewordCheck \/ ToggleCheck
    <2>1. lessonRow' = lessonRow
      BY <1>1 DEF AddExistingObjective, RemoveObjective, SelectRubric, RewordCheck, ToggleCheck, Shape, deskServer
    <2> QED
      BY <1>1, <2>1, FormStep
  <1>2. CASE HandleCreateObjective \/ HandleCreateRubric \/ HandleSaveLesson \/ AskArchive \/ HandleArchive \/ StudentAnswers
    <2>1. lessonRow' = lessonRow
      BY <1>2 DEF HandleCreateObjective, HandleCreateRubric, HandleSaveLesson, AskArchive, HandleArchive, StudentAnswers, deskServer
    <2> QED
      BY Zenon, <1>2, <2>1, ButtonStep
  <1>3. ASSUME NEW c \in deskCalls, ValidateSave(c) PROVE DeskIInv' /\ lessonRow' = lessonRow
    BY ZenonT(40), <1>3, ValidateStep DEF ValidateSave, deskServer
  <1>4. ASSUME NEW c \in deskCalls, ServeObjective(c) \/ ServeRubric(c) \/ ServeArchive(c) \/ ServeCatalog(c) \/ DeskFails(c)
        PROVE  DeskIInv' /\ lessonRow'.check = lessonRow.check
    BY Zenon, <1>4, ServeStep
  <1>5. ASSUME NEW c \in deskCalls,
               \/ ObjectiveAnswered(c) \/ RubricAnswered(c) \/ LessonSaved(c) \/ ArchiveAnswered(c)
               \/ CatalogAnswered(c) \/ DeskRefused(c)
        PROVE  DeskIInv' /\ lessonRow' = lessonRow
    BY <1>5, AnsweredStep
  <1>6. CASE UNCHANGED deskVars
    <2>1. UNCHANGED <<desk, objectiveCatalog, rubricCatalog, deskCalls, savingLesson, lessonRow, attempted, objectiveCount, rubricCount, wordings>>
      BY <1>6 DEF deskVars, deskPage, deskFlags, deskServer
    <2> QED
      BY <2>1, CallsKept DEF DeskIInv, DeskTypeOK
  <1> QED
    BY <1>1, <1>2, <1>3, <1>4, <1>5, <1>6, CommitStep DEF DeskNext, DeskStep

\* The invariant holds in every behaviour of the editor.
THEOREM DeskInvariant == DeskSpec => []DeskIInv
  <1>1. DeskIInv /\ [DeskNext]_deskVars => DeskIInv'
    BY DeskNextStep
  <1> QED
    BY <1>1, DeskStarts, PTL DEF DeskSpec

(***************************************************************************)
(* A recall check that was answered is never removed, and is reworded only *)
(* by a save that was validated before the answer: a later validation sees *)
(* the attempt, and the editor has no second save under way that could     *)
(* change the wording in between (handleSave, update_editor,               *)
(* changes_preserve_attempt_evidence).                                     *)
(***************************************************************************)
THEOREM AnsweredChecksStay == DeskSpec => AttemptedCheckImmutable
  <1>1. DeskIInv /\ [DeskNext]_deskVars
          => [ attempted /\ lessonRow'.check # lessonRow.check
                 => lessonRow'.check # 0 /\ \E c \in deskCalls : c.step = "checked" /\ c.got = 0 ]_deskVars
    BY Zenon, DeskNextStep
  <1> QED
    BY <1>1, DeskInvariant, PTL DEF DeskSpec, AttemptedCheckImmutable

-----------------------------------------------------------------------------
(***************************************************************************)
(* Dictation (use-voice-draft.ts, voice-recorder-provider.tsx).            *)
(***************************************************************************)

Pending == {"permission", "session", "recorder", "failing", "undo"}
Panels == {"idle", "preparing", "recording", "transcribing", "error", "review"}
Callers == {"stop", "cancel", "background", "leave"}
Starts == [at : Pending \cup {"none"}, current : BOOLEAN]
Shutdowns == [at : {"none", "stop", "session"}, joined : SUBSET Callers, uri : Nat]
Transcripts == [surface : Surfaces, take : Nat, at : {"token", "sent", "lost"}, held : BOOLEAN]

\* The types of the recorder and of the composers; a take is numbered by the
\* press that led to it, at the latest, so lastTake never passes voiceActs.
VoiceTypeOK ==
    /\ recorderOwner \in Surfaces \cup {NoSurface}
    /\ voiceActs \in 0 .. MaxVoiceActs /\ lastTake \in 0 .. voiceActs
    /\ mic \in {0, lastTake} /\ audio \subseteq 1 .. lastTake
    /\ voiceUi \in [Surfaces -> Panels] /\ keptTake \in [Surfaces -> Nat]
    /\ starting \in [Surfaces -> Starts]
    /\ finalizing \in [Surfaces -> Shutdowns]
    /\ transcripts \subseteq Transcripts
    /\ inView \in [Surfaces -> BOOLEAN]

\* A take that a composer, a shutdown or a transcription holds has been
\* recorded already: it is not the one under the recorder.
Recorded(n) == n <= lastTake /\ (mic # 0 => n # mic)
HeldTakes ==
    /\ \A s \in Surfaces : Recorded(keptTake[s]) /\ Recorded(finalizing[s].uri)
    /\ \A c \in transcripts : Recorded(c.take)

\* The press that claimed the recorder has not led to a take yet.
ClaimUnspent ==
    \A s \in Surfaces : starting[s].current /\ recorderOwner = s => lastTake < voiceActs

\* A composer that is starting does not show a recording.
NotYetListening ==
    \A s \in Surfaces : starting[s].at # "none" => voiceUi[s] # "recording"

\* A shutdown has a caller, and one called by leaving belongs to a composer
\* that has left.
ClosingHasCaller ==
    \A s \in Surfaces : finalizing[s].at # "none" =>
        finalizing[s].joined # {} /\ ("leave" \in finalizing[s].joined => ~ inView[s])

VoiceInv == VoiceTypeOK /\ HeldTakes /\ ClaimUnspent /\ NotYetListening /\ ClosingHasCaller
            /\ TakesSound

LEMMA VoiceStarts == VoiceInit => VoiceInv
<1> SUFFICES ASSUME VoiceInit PROVE VoiceInv
  OBVIOUS
<1>1. VoiceTypeOK
  BY VoiceAssumption DEF VoiceInit, VoiceTypeOK, NotStarting, NotClosing, Starts, Shutdowns,
     Pending, Panels, Callers
<1>2. HeldTakes /\ ClaimUnspent /\ NotYetListening /\ ClosingHasCaller
  BY VoiceAssumption DEF VoiceInit, HeldTakes, Recorded, ClaimUnspent, NotYetListening,
     ClosingHasCaller, NotStarting, NotClosing
<1>3. TakesSound
  BY VoiceAssumption DEF VoiceInit, TakesSound, ListenerOwns, TakeSafe, NotStarting, NotClosing
<1> QED
  BY Zenon, <1>1, <1>2, <1>3 DEF VoiceInv

\* A start that moves on stays in its type, and is current only if it was.
LEMMA StartMoves ==
    ASSUME VoiceTypeOK, NEW s \in Surfaces, NEW stage \in Pending \cup {"none"}, StartsAt(s, stage)
    PROVE  /\ starting' \in [Surfaces -> Starts]
           /\ \A q \in Surfaces : starting'[q].current => starting[q].current
           /\ \A q \in Surfaces : q # s => starting'[q] = starting[q]
           /\ stage = "none" => ~ starting'[s].current
           /\ starting'[s].at = stage
<1>1. CASE stage = "none"
  BY <1>1 DEF VoiceTypeOK, Starts, StartsAt, NotStarting
<1>2. CASE stage # "none"
  BY Zenon, <1>2 DEF VoiceTypeOK, Starts, StartsAt
<1> QED
  BY <1>1, <1>2

\* Joining a shutdown adds the caller; the take it will end with is recorded.
LEMMA JoiningFits ==
    ASSUME VoiceTypeOK, HeldTakes, NEW s \in Surfaces, NEW who \in Callers, Joined(s, who)
    PROVE  /\ finalizing' \in [Surfaces -> Shutdowns]
           /\ \A q \in Surfaces : q # s => finalizing'[q] = finalizing[q]
           /\ finalizing'[s].joined # {} /\ Recorded(finalizing'[s].uri)
           /\ \A w \in finalizing'[s].joined : w = who \/ (finalizing[s].at # "none" /\ w \in finalizing[s].joined)
<1> DEFINE Fits(d) == /\ d \in Shutdowns /\ d.joined # {} /\ Recorded(d.uri)
                      /\ \A w \in d.joined : w = who \/ (finalizing[s].at # "none" /\ w \in finalizing[s].joined)
<1>1. SUFFICES \E d : Fits(d) /\ finalizing' = [finalizing EXCEPT ![s] = d]
  BY Zenon DEF VoiceTypeOK
<1>2. CASE finalizing[s].at # "none"
  <2> DEFINE d == [finalizing[s] EXCEPT !.joined = finalizing[s].joined \cup {who}]
  <2>1. finalizing' = [finalizing EXCEPT ![s] = d]
    BY <1>2, Zenon DEF Joined
  <2>2. finalizing[s] \in Shutdowns /\ Recorded(finalizing[s].uri)
    BY DEF VoiceTypeOK, HeldTakes
  <2>3. d \in Shutdowns /\ d.joined = finalizing[s].joined \cup {who} /\ d.uri = finalizing[s].uri
    BY Zenon, <2>2 DEF Shutdowns
  <2> HIDE DEF d
  <2>4. Fits(d)
    BY <1>2, <2>2, <2>3
  <2> QED
    BY Zenon, <2>1, <2>4
<1>3. CASE finalizing[s].at = "none" /\ mic # 0
  <2> DEFINE d == [at |-> "stop", joined |-> {who}, uri |-> 0]
  <2>1. finalizing' = [finalizing EXCEPT ![s] = d]
    BY <1>3, Zenon DEF Joined
  <2>2. Recorded(0)
    BY <1>3 DEF VoiceTypeOK, Recorded
  <2>3. d \in Shutdowns /\ d.joined = {who} /\ Recorded(d.uri)
    BY Zenon, <2>2 DEF Shutdowns
  <2> HIDE DEF d
  <2>4. Fits(d)
    BY Zenon, <2>3
  <2> QED
    BY Zenon, <2>1, <2>4
<1>4. CASE finalizing[s].at = "none" /\ mic = 0
  <2> DEFINE d == [at |-> "session", joined |-> {who}, uri |-> TakeUri(s)]
  <2>1. finalizing' = [finalizing EXCEPT ![s] = d]
    BY <1>4 DEF Joined
  <2>2. TakeUri(s) \in Nat /\ Recorded(TakeUri(s))
    BY <1>4 DEF VoiceTypeOK, HeldTakes, Recorded, TakeUri
  <2>3. d \in Shutdowns /\ d.joined = {who} /\ Recorded(d.uri)
    BY Zenon, <2>2 DEF Shutdowns
  <2> HIDE DEF d
  <2>4. Fits(d)
    BY Zenon, <2>3
  <2> QED
    BY Zenon, <2>1, <2>4
<1> QED
  BY Zenon, <1>2, <1>3, <1>4

\* A new transcription is of a recorded take; the others go on.
LEMMA TranscribingFits ==
    ASSUME NEW calls_, calls_ \subseteq Transcripts, \A c \in calls_ : Recorded(c.take),
           NEW s \in Surfaces, NEW take \in Nat, Recorded(take)
    PROVE  /\ Transcribes(calls_, s, take) \subseteq Transcripts
           /\ \A c \in Transcribes(calls_, s, take) : Recorded(c.take)
<1>1. ASSUME NEW c \in Transcribes(calls_, s, take)
      PROVE  c \in Transcripts /\ Recorded(c.take)
  <2>1. CASE c = [surface |-> s, take |-> take, at |-> "token", held |-> TRUE]
    BY <2>1 DEF Transcripts
  <2>2. CASE \E b \in calls_ : c = [b EXCEPT !.held = IF b.surface = s THEN FALSE ELSE b.held]
    BY Zenon, <2>2 DEF Transcripts
  <2> QED
    BY Zenon, <1>1, <2>1, <2>2 DEF Transcribes
<1> QED
  BY <1>1


LEMMA StartVoiceKeeps ==
    ASSUME VoiceInv, NEW s \in Surfaces, StartVoice(s)
    PROVE  VoiceInv'
<1>1. VoiceTypeOK'
  BY VoiceAssumption DEF VoiceTypeOK, Starts, Shutdowns, Pending, Panels, VoiceInv, StartVoice,
     VoiceAct, ClaimRecorder, ShowVoice, VoicePressed, MayClaim
<1>2. HeldTakes'
  BY Zenon, VoiceAssumption DEF VoiceTypeOK, HeldTakes, Recorded, VoiceInv, StartVoice, VoiceAct,
     ClaimRecorder, ShowVoice, VoicePressed, MayClaim
<1>3. (ClaimUnspent /\ NotYetListening)'
  BY VoiceAssumption DEF VoiceTypeOK, ClaimUnspent, NotYetListening, VoiceInv, StartVoice,
     VoiceAct, ClaimRecorder, ShowVoice, VoicePressed, MayClaim
<1>4. ClosingHasCaller'
  BY Zenon, VoiceAssumption DEF VoiceTypeOK, ClosingHasCaller, VoiceInv, StartVoice, VoiceAct,
     ClaimRecorder, ShowVoice, VoicePressed, MayClaim
<1>5. TakesSound'
  BY Zenon, VoiceAssumption DEF VoiceTypeOK, HeldTakes, Recorded, NotYetListening, ClosingHasCaller,
     TakesSound, ListenerOwns, TakeSafe, VoiceInv, StartVoice, VoiceAct, ClaimRecorder, ShowVoice,
     VoicePressed, MayClaim
<1> QED
  BY Zenon, <1>1, <1>2, <1>3, <1>4, <1>5 DEF VoiceInv

LEMMA PermissionDeniedKeeps ==
    ASSUME VoiceInv, NEW s \in Surfaces, PermissionDenied(s)
    PROVE  VoiceInv'
<1>1. VoiceTypeOK'
  BY VoiceAssumption DEF VoiceTypeOK, Starts, Shutdowns, Pending, Panels, VoiceInv,
     PermissionDenied, Release, ShowVoice, StartsAt, NotStarting
<1>2. HeldTakes'
  BY VoiceAssumption DEF VoiceTypeOK, HeldTakes, Recorded, VoiceInv, PermissionDenied, Release,
     ShowVoice, StartsAt, NotStarting
<1>3. (ClaimUnspent /\ NotYetListening)'
  BY VoiceAssumption DEF VoiceTypeOK, ClaimUnspent, NotYetListening, VoiceInv, PermissionDenied,
     Release, ShowVoice, StartsAt, NotStarting
<1>4. ClosingHasCaller'
  BY VoiceAssumption DEF VoiceTypeOK, ClosingHasCaller, VoiceInv, PermissionDenied, Release,
     ShowVoice, StartsAt, NotStarting
<1>5. TakesSound'
  BY VoiceAssumption DEF VoiceTypeOK, HeldTakes, Recorded, NotYetListening, ClosingHasCaller,
     TakesSound, ListenerOwns, TakeSafe, VoiceInv, PermissionDenied, Release, ShowVoice, StartsAt,
     NotStarting
<1> QED
  BY <1>1, <1>2, <1>3, <1>4, <1>5 DEF VoiceInv

LEMMA PermissionGrantedKeeps ==
    ASSUME VoiceInv, NEW s \in Surfaces, PermissionGranted(s)
    PROVE  VoiceInv'
<1>0. \E stage \in {"session", "none"} : StartsAt(s, stage)
  BY Zenon DEF VoiceInv, PermissionGranted, StillStarting
<1>a. PICK stage \in {"session", "none"} : StartsAt(s, stage)
  BY Zenon, <1>0 DEF VoiceInv, PermissionGranted, StillStarting
<1>b. stage \in Pending \cup {"none"}
  BY DEF Pending, VoiceInv, PermissionGranted, StillStarting
<1>c. keptTake' \in [Surfaces -> Nat] /\ audio' \subseteq audio
  BY DEF VoiceTypeOK, VoiceInv, PermissionGranted, StillStarting
<1>1. VoiceTypeOK'
  BY Zenon, <1>a, <1>b, <1>c, StartMoves, VoiceAssumption DEF VoiceTypeOK, VoiceInv, PermissionGranted,
     StillStarting
<1>2. HeldTakes'
  BY <1>a, <1>b, <1>c, StartMoves, VoiceAssumption DEF VoiceTypeOK, HeldTakes, Recorded, VoiceInv,
     PermissionGranted, StillStarting
<1>3. (ClaimUnspent /\ NotYetListening)'
  BY Zenon, <1>a, <1>b, <1>c, StartMoves, VoiceAssumption DEF VoiceTypeOK, ClaimUnspent, NotYetListening,
     VoiceInv, PermissionGranted, StillStarting
<1>4. ClosingHasCaller'
  BY Zenon, <1>a, <1>b, <1>c, StartMoves, VoiceAssumption DEF VoiceTypeOK, ClosingHasCaller, VoiceInv,
     PermissionGranted, StillStarting
<1>5. TakesSound'
  BY Zenon, <1>a, <1>b, <1>c, StartMoves, VoiceAssumption DEF VoiceTypeOK, HeldTakes, Recorded,
     NotYetListening, ClosingHasCaller, TakesSound, ListenerOwns, TakeSafe, VoiceInv,
     PermissionGranted, StillStarting
<1> QED
  BY Zenon, <1>1, <1>2, <1>3, <1>4, <1>5 DEF VoiceInv

LEMMA SessionOpenedKeeps ==
    ASSUME VoiceInv, NEW s \in Surfaces, SessionOpened(s)
    PROVE  VoiceInv'
<1>a. PICK stage \in {"recorder", "undo"} : StartsAt(s, stage)
  BY Zenon DEF VoiceInv, SessionOpened, StillStarting
<1>b. stage \in Pending \cup {"none"}
  BY Zenon DEF Pending, VoiceInv, SessionOpened, StillStarting
<1>1. VoiceTypeOK'
  BY Zenon, <1>a, <1>b, StartMoves, VoiceAssumption DEF VoiceTypeOK, VoiceInv, SessionOpened,
     StillStarting
<1>2. HeldTakes'
  BY <1>a, <1>b, StartMoves, VoiceAssumption DEF VoiceTypeOK, HeldTakes, Recorded, VoiceInv,
     SessionOpened, StillStarting
<1>3. (ClaimUnspent /\ NotYetListening)'
  BY Zenon, <1>a, <1>b, StartMoves, VoiceAssumption DEF VoiceTypeOK, ClaimUnspent, NotYetListening,
     VoiceInv, SessionOpened, StillStarting
<1>4. ClosingHasCaller'
  BY Zenon, <1>a, <1>b, StartMoves, VoiceAssumption DEF VoiceTypeOK, ClosingHasCaller, VoiceInv,
     SessionOpened, StillStarting
<1>5. TakesSound'
  BY Zenon, <1>a, <1>b, StartMoves, VoiceAssumption DEF VoiceTypeOK, HeldTakes, Recorded, NotYetListening,
     ClosingHasCaller, TakesSound, ListenerOwns, TakeSafe, VoiceInv, SessionOpened, StillStarting
<1> QED
  BY <1>1, <1>2, <1>3, <1>4, <1>5 DEF VoiceInv

LEMMA RecorderReadyKeeps ==
    ASSUME VoiceInv, NEW s \in Surfaces, RecorderReady(s)
    PROVE  VoiceInv'
<1> DEFINE n == NewTake
<1>1. n = lastTake + 1 /\ lastTake \in Nat
  BY DEF NewTake, VoiceTypeOK, VoiceInv
<1>2. CASE StillStarting(s)
  <2>0. starting[s].current /\ recorderOwner = s /\ lastTake < voiceActs
    BY Zenon, <1>2 DEF StillStarting, ClaimUnspent, VoiceInv
  <2>1. mic' = n /\ lastTake' = n /\ audio' = audio \cup {n}
        /\ voiceUi' = [voiceUi EXCEPT ![s] = "recording"]
        /\ starting' = [starting EXCEPT ![s] = NotStarting]
        /\ UNCHANGED <<recorderOwner, keptTake, finalizing, transcripts, inView, voiceActs>>
    BY Zenon, <1>2 DEF RecorderReady, ShowVoice, StartsAt, VoiceInv
  <2> HIDE DEF n
  <2>2. VoiceTypeOK'
    BY <1>1, <2>0, <2>1 DEF VoiceTypeOK, Starts, NotStarting, Panels, VoiceInv
  <2>3. HeldTakes'
    BY <1>1, <2>1 DEF VoiceTypeOK, Transcripts, Shutdowns, HeldTakes, Recorded, VoiceInv
  <2>4. (ClaimUnspent /\ NotYetListening /\ ClosingHasCaller)'
    BY Zenon, <2>0, <2>1 DEF VoiceTypeOK, ClaimUnspent, NotYetListening, ClosingHasCaller, NotStarting,
       VoiceInv
  <2>5. TakesSound'
    BY <2>0, <2>1 DEF VoiceTypeOK, TakesSound, ListenerOwns, TakeSafe, VoiceInv
  <2> QED
    BY Zenon, <2>2, <2>3, <2>4, <2>5 DEF VoiceInv
<1>3. CASE ~ StillStarting(s)
  <2>1. starting' = [starting EXCEPT ![s].at = "undo"]
        /\ UNCHANGED <<recorderOwner, mic, lastTake, audio, voiceUi, keptTake, finalizing, transcripts,
                       inView, voiceActs>>
    BY <1>3 DEF RecorderReady, StartsAt, VoiceInv
  <2>2. VoiceTypeOK'
    BY <2>1 DEF VoiceTypeOK, Starts, Pending, VoiceInv
  <2>3. (HeldTakes /\ ClaimUnspent /\ NotYetListening /\ ClosingHasCaller /\ TakesSound)'
    BY <2>1, RecorderReady(s) DEF VoiceTypeOK, HeldTakes, Recorded, ClaimUnspent, NotYetListening,
       ClosingHasCaller, TakesSound, ListenerOwns, TakeSafe, RecorderReady, VoiceInv
  <2> QED
    BY <2>2, <2>3 DEF VoiceInv
<1> QED
  BY <1>2, <1>3 DEF VoiceInv

LEMMA StartFailsKeeps ==
    ASSUME VoiceInv, NEW s \in Surfaces, StartFails(s)
    PROVE  VoiceInv'
<1>b. "failing" \in Pending \cup {"none"}
  BY Zenon DEF Pending, VoiceInv, StartFails, Release
<1>1. VoiceTypeOK'
  BY Zenon, <1>b, StartMoves, VoiceAssumption DEF VoiceTypeOK, VoiceInv, StartFails, Release
<1>2. HeldTakes'
  BY Zenon, <1>b, StartMoves, VoiceAssumption DEF VoiceTypeOK, HeldTakes, Recorded, VoiceInv, StartFails,
     Release
<1>3. (ClaimUnspent /\ NotYetListening)'
  BY Zenon, <1>b, StartMoves, VoiceAssumption DEF VoiceTypeOK, ClaimUnspent, NotYetListening, VoiceInv,
     StartFails, Release
<1>4. ClosingHasCaller'
  BY Zenon, <1>b, StartMoves, VoiceAssumption DEF VoiceTypeOK, ClosingHasCaller, VoiceInv, StartFails,
     Release
<1>5. TakesSound'
  BY Zenon, <1>b, StartMoves, VoiceAssumption DEF VoiceTypeOK, HeldTakes, Recorded, NotYetListening,
     ClosingHasCaller, TakesSound, ListenerOwns, TakeSafe, VoiceInv, StartFails, Release
<1> QED
  BY <1>1, <1>2, <1>3, <1>4, <1>5 DEF VoiceInv

LEMMA StartUndoneKeeps ==
    ASSUME VoiceInv, NEW s \in Surfaces, StartUndone(s)
    PROVE  VoiceInv'
<1>1. VoiceTypeOK'
  BY VoiceAssumption DEF VoiceTypeOK, Starts, Shutdowns, Pending, Panels, VoiceInv, StartUndone,
     StartsAt, NotStarting
<1>2. HeldTakes'
  BY VoiceAssumption DEF VoiceTypeOK, HeldTakes, Recorded, VoiceInv, StartUndone, StartsAt,
     NotStarting
<1>3. (ClaimUnspent /\ NotYetListening)'
  BY VoiceAssumption DEF VoiceTypeOK, ClaimUnspent, NotYetListening, VoiceInv, StartUndone,
     StartsAt, NotStarting
<1>4. ClosingHasCaller'
  BY Zenon, VoiceAssumption DEF VoiceTypeOK, ClosingHasCaller, VoiceInv, StartUndone, StartsAt,
     NotStarting
<1>5. TakesSound'
  BY VoiceAssumption DEF VoiceTypeOK, HeldTakes, Recorded, NotYetListening, ClosingHasCaller,
     TakesSound, ListenerOwns, TakeSafe, VoiceInv, StartUndone, StartsAt, NotStarting
<1> QED
  BY <1>1, <1>2, <1>3, <1>4, <1>5 DEF VoiceInv

LEMMA RecorderStoppedKeeps ==
    ASSUME VoiceInv, NEW s \in Surfaces, RecorderStopped(s)
    PROVE  VoiceInv'
<1>a. TakeUri(s) \in Nat /\ TakeUri(s) <= lastTake
  BY DEF VoiceTypeOK, TakeUri, HeldTakes, Recorded, VoiceInv, RecorderStopped
<1>b. finalizing' = [finalizing EXCEPT ![s] = [finalizing[s] EXCEPT !.at = "session", !.uri = TakeUri(s)]]
  BY Zenon DEF VoiceTypeOK, VoiceInv, RecorderStopped
<1>1. VoiceTypeOK'
  BY <1>a, <1>b, VoiceAssumption DEF VoiceTypeOK, Shutdowns, VoiceInv, RecorderStopped
<1>2. HeldTakes'
  BY <1>a, <1>b, VoiceAssumption DEF VoiceTypeOK, HeldTakes, Recorded, VoiceInv, RecorderStopped
<1>3. (ClaimUnspent /\ NotYetListening)'
  BY <1>a, <1>b, VoiceAssumption DEF VoiceTypeOK, ClaimUnspent, NotYetListening, VoiceInv,
     RecorderStopped
<1>4. ClosingHasCaller'
  BY <1>a, <1>b, VoiceAssumption DEF VoiceTypeOK, ClosingHasCaller, VoiceInv, RecorderStopped
<1>5. TakesSound'
  BY <1>a, <1>b, VoiceAssumption DEF VoiceTypeOK, HeldTakes, Recorded, NotYetListening,
     ClosingHasCaller, TakesSound, ListenerOwns, TakeSafe, VoiceInv, RecorderStopped
<1> QED
  BY <1>1, <1>2, <1>3, <1>4, <1>5 DEF VoiceInv

LEMMA StopFailsKeeps ==
    ASSUME VoiceInv, NEW s \in Surfaces, StopFails(s)
    PROVE  VoiceInv'
<1>1. VoiceTypeOK'
  BY VoiceAssumption DEF VoiceTypeOK, Starts, Shutdowns, Pending, Panels, VoiceInv, StopFails,
     Release, NotClosing, ShowVoice, AfterFailure
<1>2. HeldTakes'
  BY VoiceAssumption DEF VoiceTypeOK, HeldTakes, Recorded, VoiceInv, StopFails, Release,
     NotClosing, ShowVoice, AfterFailure
<1>3. (ClaimUnspent /\ NotYetListening)'
  BY VoiceAssumption DEF VoiceTypeOK, ClaimUnspent, NotYetListening, VoiceInv, StopFails, Release,
     NotClosing, ShowVoice, AfterFailure
<1>4. ClosingHasCaller'
  BY VoiceAssumption DEF VoiceTypeOK, ClosingHasCaller, VoiceInv, StopFails, Release, NotClosing,
     ShowVoice, AfterFailure
<1>5. TakesSound'
  BY Zenon, VoiceAssumption DEF VoiceTypeOK, HeldTakes, Recorded, NotYetListening, ClosingHasCaller,
     TakesSound, ListenerOwns, TakeSafe, VoiceInv, StopFails, Release, NotClosing, ShowVoice,
     AfterFailure
<1> QED
  BY <1>1, <1>2, <1>3, <1>4, <1>5 DEF VoiceInv

LEMMA StopVoiceKeeps ==
    ASSUME VoiceInv, NEW s \in Surfaces, StopVoice(s)
    PROVE  VoiceInv'
<1>1. /\ voiceUi' = [voiceUi EXCEPT ![s] = "transcribing"] /\ Joined(s, "stop")
      /\ recorderOwner = s /\ voiceActs' \in voiceActs .. MaxVoiceActs
      /\ UNCHANGED <<recorderOwner, mic, lastTake, audio, keptTake, starting, transcripts, inView>>
  BY VoiceAssumption DEF StopVoice, VoiceAct, ShowVoice, VoiceInv, VoiceTypeOK
<1>2. /\ finalizing' \in [Surfaces -> Shutdowns]
      /\ \A q \in Surfaces : q # s => finalizing'[q] = finalizing[q]
      /\ finalizing'[s].joined # {} /\ Recorded(finalizing'[s].uri)
      /\ \A w \in finalizing'[s].joined : w = "stop" \/ (finalizing[s].at # "none" /\ w \in finalizing[s].joined)
  BY Zenon, <1>1, JoiningFits DEF Callers, VoiceInv
<1>3. VoiceTypeOK'
  <2>1. voiceActs' \in 0 .. MaxVoiceActs /\ lastTake \in 0 .. voiceActs'
    BY <1>1, VoiceAssumption DEF VoiceInv, VoiceTypeOK
  <2>2. voiceUi' \in [Surfaces -> Panels]
    BY Zenon, <1>1 DEF VoiceInv, VoiceTypeOK, Panels
  <2> QED
    BY Zenon, <1>1, <1>2, <2>1, <2>2 DEF VoiceInv, VoiceTypeOK
<1>4. HeldTakes'
  BY Zenon, <1>1, <1>2 DEF VoiceInv, HeldTakes, Recorded
<1>5. (ClaimUnspent /\ NotYetListening)'
  BY <1>1 DEF VoiceInv, VoiceTypeOK, ClaimUnspent, NotYetListening
<1>6. ClosingHasCaller'
  BY Zenon, <1>1, <1>2 DEF VoiceInv, ClosingHasCaller
<1>7. TakesSound'
  BY <1>1 DEF VoiceInv, VoiceTypeOK, TakesSound, ListenerOwns, TakeSafe
<1> QED
  BY <1>3, <1>4, <1>5, <1>6, <1>7 DEF VoiceInv

LEMMA CancelVoiceKeeps ==
    ASSUME VoiceInv, NEW s \in Surfaces, CancelVoice(s)
    PROVE  VoiceInv'
<1>b. "cancel" \in Callers
  BY DEF Callers
<1>c. \/ Joined(s, "cancel") /\ UNCHANGED <<audio, keptTake, voiceUi>>
      \/ UNCHANGED finalizing /\ recorderOwner # s /\ audio' = audio \ {keptTake[s]}
         /\ keptTake' = [keptTake EXCEPT ![s] = 0] /\ voiceUi'[s] # "recording"
         /\ voiceUi' \in [Surfaces -> Panels] /\ \A q \in Surfaces : q # s => voiceUi'[q] = voiceUi[q]
  BY DEF VoiceTypeOK, Panels, VoiceInv, CancelVoice, VoiceAct, Discard, ShowVoice, Aborted
<1>d. starting' \in [Surfaces -> Starts]
  BY ZenonT(40) DEF VoiceTypeOK, Starts, VoiceInv, CancelVoice, VoiceAct, Discard, ShowVoice, Aborted
<1>e. audio' \subseteq audio /\ keptTake' \in [Surfaces -> Nat] /\ transcripts' \subseteq transcripts
  BY <1>c DEF VoiceTypeOK, VoiceInv, CancelVoice, VoiceAct, Discard, ShowVoice, Aborted
<1>f. voiceActs' \in 0 .. MaxVoiceActs /\ lastTake \in 0 .. voiceActs'
  BY VoiceAssumption DEF VoiceTypeOK, VoiceInv, CancelVoice, VoiceAct, Discard, ShowVoice, Aborted
<1>1. VoiceTypeOK'
  BY <1>b, <1>c, <1>d, <1>e, <1>f, JoiningFits, VoiceAssumption DEF VoiceTypeOK, VoiceInv,
     CancelVoice, VoiceAct, Discard, ShowVoice, Aborted
<1>2. HeldTakes'
  BY <1>b, <1>c, <1>d, <1>e, <1>f, JoiningFits, VoiceAssumption DEF VoiceTypeOK, HeldTakes,
     Recorded, VoiceInv, CancelVoice, VoiceAct, Discard, ShowVoice, Aborted
<1>3. (ClaimUnspent /\ NotYetListening)'
  BY <1>b, <1>c, <1>d, <1>e, <1>f, JoiningFits, VoiceAssumption DEF VoiceTypeOK, ClaimUnspent,
     NotYetListening, VoiceInv, CancelVoice, VoiceAct, Discard, ShowVoice, Aborted
<1>4. ClosingHasCaller'
  BY <1>b, <1>c, <1>d, <1>e, <1>f, JoiningFits, VoiceAssumption DEF VoiceTypeOK, ClosingHasCaller,
     VoiceInv, CancelVoice, VoiceAct, Discard, ShowVoice, Aborted
<1>5. TakesSound'
  BY <1>b, <1>c, <1>d, <1>e, <1>f, JoiningFits, VoiceAssumption DEF VoiceTypeOK, HeldTakes,
     Recorded, NotYetListening, ClosingHasCaller, TakesSound, ListenerOwns, TakeSafe, VoiceInv,
     CancelVoice, VoiceAct, Discard, ShowVoice, Aborted
<1> QED
  BY <1>1, <1>2, <1>3, <1>4, <1>5 DEF VoiceInv

LEMMA BackgroundedKeeps ==
    ASSUME VoiceInv, NEW s \in Surfaces, Backgrounded(s)
    PROVE  VoiceInv'
<1>b. "background" \in Callers
  BY DEF Callers
<1>c. \/ Joined(s, "background") /\ UNCHANGED <<audio, keptTake, voiceUi>>
      \/ UNCHANGED finalizing /\ recorderOwner # s /\ audio' = audio \ {keptTake[s]}
         /\ keptTake' = [keptTake EXCEPT ![s] = 0] /\ voiceUi'[s] # "recording"
         /\ voiceUi' \in [Surfaces -> Panels] /\ \A q \in Surfaces : q # s => voiceUi'[q] = voiceUi[q]
  BY DEF VoiceTypeOK, Panels, VoiceInv, Backgrounded, VoiceAct, Discard, ShowVoice, Aborted
<1>d. starting' \in [Surfaces -> Starts]
  <2>1. starting' = [starting EXCEPT ![s].current = FALSE]
    BY DEF Backgrounded, Discard
  <2> QED
    BY Zenon, <2>1 DEF VoiceTypeOK, Starts, VoiceInv
<1>e. audio' \subseteq audio /\ keptTake' \in [Surfaces -> Nat] /\ transcripts' \subseteq transcripts
  BY <1>c DEF VoiceTypeOK, VoiceInv, Backgrounded, VoiceAct, Discard, ShowVoice, Aborted
<1>f. voiceActs' \in 0 .. MaxVoiceActs /\ lastTake \in 0 .. voiceActs'
  BY VoiceAssumption DEF VoiceTypeOK, VoiceInv, Backgrounded, VoiceAct, Discard, ShowVoice,
     Aborted
<1>1. VoiceTypeOK'
  BY <1>b, <1>c, <1>d, <1>e, <1>f, JoiningFits, VoiceAssumption DEF VoiceTypeOK, VoiceInv,
     Backgrounded, VoiceAct, Discard, ShowVoice, Aborted
<1>2. HeldTakes'
  BY <1>b, <1>c, <1>d, <1>e, <1>f, JoiningFits, VoiceAssumption DEF VoiceTypeOK, HeldTakes,
     Recorded, VoiceInv, Backgrounded, VoiceAct, Discard, ShowVoice, Aborted
<1>3. (ClaimUnspent /\ NotYetListening)'
  BY <1>b, <1>c, <1>d, <1>e, <1>f, JoiningFits, VoiceAssumption DEF VoiceTypeOK, ClaimUnspent,
     NotYetListening, VoiceInv, Backgrounded, VoiceAct, Discard, ShowVoice, Aborted
<1>4. ClosingHasCaller'
  BY <1>b, <1>c, <1>d, <1>e, <1>f, JoiningFits, VoiceAssumption DEF VoiceTypeOK, ClosingHasCaller,
     VoiceInv, Backgrounded, VoiceAct, Discard, ShowVoice, Aborted
<1>5. TakesSound'
  BY <1>b, <1>c, <1>d, <1>e, <1>f, JoiningFits, VoiceAssumption DEF VoiceTypeOK, HeldTakes,
     Recorded, NotYetListening, ClosingHasCaller, TakesSound, ListenerOwns, TakeSafe, VoiceInv,
     Backgrounded, VoiceAct, Discard, ShowVoice, Aborted
<1> QED
  BY <1>1, <1>2, <1>3, <1>4, <1>5 DEF VoiceInv

LEMMA LeaveSurfaceKeeps ==
    ASSUME VoiceInv, NEW s \in Surfaces, LeaveSurface(s)
    PROVE  VoiceInv'
<1>b. "leave" \in Callers
  BY DEF Callers, VoiceInv, LeaveSurface, VoiceAct
<1>d. starting' \in [Surfaces -> Starts]
  BY Zenon DEF VoiceTypeOK, Starts, VoiceInv, LeaveSurface, VoiceAct
<1>e. audio' \subseteq audio /\ keptTake' \in [Surfaces -> Nat] /\ transcripts' \subseteq transcripts
  BY DEF VoiceTypeOK, VoiceInv, LeaveSurface, VoiceAct
<1>f. voiceActs' \in 0 .. MaxVoiceActs /\ lastTake \in 0 .. voiceActs'
  BY VoiceAssumption DEF VoiceTypeOK, VoiceInv, LeaveSurface, VoiceAct
<1>1. VoiceTypeOK'
  BY <1>b, <1>d, <1>e, <1>f, JoiningFits, VoiceAssumption DEF VoiceTypeOK, VoiceInv, LeaveSurface,
     VoiceAct
<1>2. HeldTakes'
  BY <1>b, <1>d, <1>e, <1>f, JoiningFits, VoiceAssumption DEF VoiceTypeOK, HeldTakes, Recorded,
     VoiceInv, LeaveSurface, VoiceAct
<1>3. (ClaimUnspent /\ NotYetListening)'
  BY <1>b, <1>d, <1>e, <1>f, JoiningFits, VoiceAssumption DEF VoiceTypeOK, ClaimUnspent,
     NotYetListening, VoiceInv, LeaveSurface, VoiceAct
<1>4. ClosingHasCaller'
  BY <1>b, <1>d, <1>e, <1>f, JoiningFits, VoiceAssumption DEF VoiceTypeOK, ClosingHasCaller,
     VoiceInv, LeaveSurface, VoiceAct
<1>5. TakesSound'
  BY Zenon, <1>b, <1>d, <1>e, <1>f, JoiningFits, VoiceAssumption DEF VoiceTypeOK, HeldTakes, Recorded,
     NotYetListening, ClosingHasCaller, TakesSound, ListenerOwns, TakeSafe, VoiceInv, LeaveSurface,
     VoiceAct
<1> QED
  BY <1>1, <1>2, <1>3, <1>4, <1>5 DEF VoiceInv

LEMMA RetryVoiceKeeps ==
    ASSUME VoiceInv, NEW s \in Surfaces, RetryVoice(s)
    PROVE  VoiceInv'
<1>a. keptTake[s] \in Nat /\ Recorded(keptTake[s]) /\ transcripts \subseteq Transcripts
      /\ \A c \in transcripts : Recorded(c.take)
  BY DEF VoiceTypeOK, HeldTakes, VoiceInv, RetryVoice, VoiceAct, ShowVoice, recorderVars,
     audioVars
<1>b. transcripts' \subseteq Transcripts /\ \A c \in transcripts' : Recorded(c.take)
  BY Zenon, <1>a, TranscribingFits DEF VoiceInv, RetryVoice, VoiceAct, ShowVoice, recorderVars, audioVars
<1>1. VoiceTypeOK'
  BY <1>b, VoiceAssumption DEF VoiceTypeOK, Panels, VoiceInv, RetryVoice, VoiceAct, ShowVoice,
     recorderVars, audioVars
<1>2. HeldTakes'
  BY Zenon, <1>b, VoiceAssumption DEF VoiceTypeOK, HeldTakes, Recorded, VoiceInv, RetryVoice, VoiceAct,
     ShowVoice, recorderVars, audioVars
<1>3. (ClaimUnspent /\ NotYetListening)'
  BY <1>b, VoiceAssumption DEF VoiceTypeOK, ClaimUnspent, NotYetListening, VoiceInv, RetryVoice,
     VoiceAct, ShowVoice, recorderVars, audioVars
<1>4. ClosingHasCaller'
  BY Zenon, <1>b, VoiceAssumption DEF VoiceTypeOK, ClosingHasCaller, VoiceInv, RetryVoice, VoiceAct,
     ShowVoice, recorderVars, audioVars
<1>5. TakesSound'
  BY Zenon, <1>b, VoiceAssumption DEF VoiceTypeOK, HeldTakes, Recorded, NotYetListening, ClosingHasCaller,
     TakesSound, ListenerOwns, TakeSafe, VoiceInv, RetryVoice, VoiceAct, ShowVoice, recorderVars,
     audioVars
<1> QED
  BY <1>1, <1>2, <1>3, <1>4, <1>5 DEF VoiceInv

LEMMA RecordAgainKeeps ==
    ASSUME VoiceInv, NEW s \in Surfaces, RecordAgain(s)
    PROVE  VoiceInv'
<1>1. /\ transcripts' \subseteq transcripts /\ audio' = audio \ {keptTake[s]}
      /\ keptTake' = [keptTake EXCEPT ![s] = 0] /\ voiceActs' = voiceActs + 1 /\ voiceActs < MaxVoiceActs
      /\ UNCHANGED <<mic, lastTake, finalizing, inView>>
  BY Zenon DEF RecordAgain, VoiceAct, Aborted
<1>2. \/ /\ starting' = [starting EXCEPT ![s] = [at |-> "permission", current |-> TRUE]]
         /\ voiceUi' = [voiceUi EXCEPT ![s] = "preparing"] /\ recorderOwner' = s
         /\ recorderOwner \in {NoSurface, s}
      \/ voiceUi' = [voiceUi EXCEPT ![s] = "idle"] /\ UNCHANGED <<recorderOwner, starting>>
  BY DEF RecordAgain, ClaimRecorder, ShowVoice, MayClaim
<1>3. VoiceTypeOK'
  <2>1. voiceActs' \in 0 .. MaxVoiceActs /\ lastTake' \in 0 .. voiceActs'
    BY <1>1, VoiceAssumption DEF VoiceInv, VoiceTypeOK
  <2>2. /\ starting' \in [Surfaces -> Starts] /\ voiceUi' \in [Surfaces -> Panels]
        /\ recorderOwner' \in Surfaces \cup {NoSurface}
    <3>1. [at |-> "permission", current |-> TRUE] \in Starts /\ {"preparing", "idle"} \subseteq Panels
      BY DEF Starts, Pending, Panels
    <3> QED
      BY Zenon, <1>2, <3>1 DEF VoiceInv, VoiceTypeOK
  <2> QED
    BY Zenon, <1>1, <2>1, <2>2 DEF VoiceInv, VoiceTypeOK
<1>4. HeldTakes'
  BY <1>1 DEF VoiceInv, VoiceTypeOK, HeldTakes, Recorded
<1>5. (ClaimUnspent /\ NotYetListening)'
  BY <1>1, <1>2 DEF VoiceInv, VoiceTypeOK, ClaimUnspent, NotYetListening
<1>6. ClosingHasCaller'
  BY Zenon, <1>1 DEF VoiceInv, ClosingHasCaller
<1>7. ListenerOwns'
  BY Zenon, <1>1, <1>2, VoiceAssumption DEF VoiceInv, VoiceTypeOK, TakesSound, ListenerOwns
<1>8. TakeSafe'
  BY Zenon, <1>1 DEF VoiceInv, HeldTakes, Recorded, TakesSound, TakeSafe
<1> QED
  BY Zenon, <1>3, <1>4, <1>5, <1>6, <1>7, <1>8 DEF VoiceInv, TakesSound

LEMMA ReviewDoneKeeps ==
    ASSUME VoiceInv, NEW s \in Surfaces, ReviewDone(s)
    PROVE  VoiceInv'
<1>1. VoiceTypeOK'
  BY VoiceAssumption DEF VoiceTypeOK, Starts, Shutdowns, Pending, Panels, VoiceInv, ReviewDone,
     VoiceAct, ShowVoice, recorderVars, audioVars, hookVars
<1>2. HeldTakes'
  BY Zenon, VoiceAssumption DEF VoiceTypeOK, HeldTakes, Recorded, VoiceInv, ReviewDone, VoiceAct,
     ShowVoice, recorderVars, audioVars, hookVars
<1>3. (ClaimUnspent /\ NotYetListening)'
  BY VoiceAssumption DEF VoiceTypeOK, ClaimUnspent, NotYetListening, VoiceInv, ReviewDone,
     VoiceAct, ShowVoice, recorderVars, audioVars, hookVars
<1>4. ClosingHasCaller'
  BY Zenon, VoiceAssumption DEF VoiceTypeOK, ClosingHasCaller, VoiceInv, ReviewDone, VoiceAct, ShowVoice,
     recorderVars, audioVars, hookVars
<1>5. TakesSound'
  BY Zenon, VoiceAssumption DEF VoiceTypeOK, HeldTakes, Recorded, NotYetListening, ClosingHasCaller,
     TakesSound, ListenerOwns, TakeSafe, VoiceInv, ReviewDone, VoiceAct, ShowVoice, recorderVars,
     audioVars, hookVars
<1> QED
  BY <1>1, <1>2, <1>3, <1>4, <1>5 DEF VoiceInv

LEMMA SendAudioKeeps ==
    ASSUME VoiceInv, NEW c \in transcripts, SendAudio(c)
    PROVE  VoiceInv'
<1> DEFINE d == [c EXCEPT !.at = IF c.take \in audio THEN "sent" ELSE "lost"]
<1>1. transcripts' = (transcripts \ {c}) \cup {d}
      /\ UNCHANGED <<recorderOwner, mic, lastTake, audio, voiceUi, keptTake, starting, finalizing, inView, voiceActs>>
  BY DEF SendAudio, recorderVars, VoiceInv
<1>2. c \in Transcripts /\ Recorded(c.take)
  BY DEF VoiceTypeOK, HeldTakes, VoiceInv
<1>3. d \in Transcripts /\ Recorded(d.take)
  BY <1>2 DEF Transcripts, VoiceInv
<1> HIDE DEF d
<1>4. VoiceTypeOK'
  BY Zenon, <1>1, <1>3 DEF VoiceTypeOK, VoiceInv
<1>5. HeldTakes'
  BY Zenon, <1>1, <1>3 DEF HeldTakes, Recorded, VoiceInv
<1> QED
  BY Zenon, <1>1, <1>4, <1>5 DEF ClaimUnspent, NotYetListening, ClosingHasCaller, TakesSound,
     ListenerOwns, TakeSafe, VoiceInv

LEMMA DraftInsertedKeeps ==
    ASSUME VoiceInv, NEW c \in transcripts, DraftInserted(c)
    PROVE  VoiceInv'
<1>1. c.surface \in Surfaces
  BY DEF VoiceTypeOK, Transcripts, VoiceInv, DraftInserted, ShowVoice, recorderVars
<1>2. VoiceTypeOK'
  BY Zenon, <1>1 DEF VoiceTypeOK, Panels, VoiceInv, DraftInserted, ShowVoice, recorderVars
<1>3. HeldTakes'
  BY <1>1 DEF VoiceTypeOK, HeldTakes, Recorded, VoiceInv, DraftInserted, ShowVoice, recorderVars
<1>4. (ClaimUnspent /\ NotYetListening /\ ClosingHasCaller)'
  BY Zenon, <1>1 DEF VoiceTypeOK, ClaimUnspent, NotYetListening, ClosingHasCaller, VoiceInv,
     DraftInserted, ShowVoice, recorderVars
<1>5. TakesSound'
  BY <1>1 DEF VoiceTypeOK, HeldTakes, Recorded, TakesSound, ListenerOwns, TakeSafe, VoiceInv,
     DraftInserted, ShowVoice, recorderVars
<1> QED
  BY Zenon, <1>2, <1>3, <1>4, <1>5 DEF VoiceInv

LEMMA TranscriptFailsKeeps ==
    ASSUME VoiceInv, NEW c \in transcripts, TranscriptFails(c)
    PROVE  VoiceInv'
<1>1. c.surface \in Surfaces
  BY DEF VoiceTypeOK, Transcripts, VoiceInv, TranscriptFails, ShowVoice, recorderVars
<1>2. VoiceTypeOK'
  BY Zenon, <1>1 DEF VoiceTypeOK, Panels, VoiceInv, TranscriptFails, ShowVoice, recorderVars
<1>3. (HeldTakes /\ ClaimUnspent /\ NotYetListening /\ ClosingHasCaller)'
  BY Zenon, <1>1 DEF VoiceTypeOK, HeldTakes, Recorded, ClaimUnspent, NotYetListening, ClosingHasCaller,
     VoiceInv, TranscriptFails, ShowVoice, recorderVars
<1>4. TakesSound'
  BY <1>1 DEF VoiceTypeOK, TakesSound, ListenerOwns, TakeSafe, VoiceInv, TranscriptFails,
     ShowVoice, recorderVars
<1> QED
  BY <1>2, <1>3, <1>4 DEF VoiceInv

\* The shutdown is over: what was recorded is sent or deleted, and the
\* recorder is let go only by a composer that shows no recording any more.
LEMMA SessionClosedKeeps ==
    ASSUME VoiceInv, NEW s \in Surfaces, NEW short \in BOOLEAN, SessionClosed(s, short)
    PROVE  VoiceInv'
<1> DEFINE joined == finalizing[s].joined
           uri == finalizing[s].uri
           sends == "stop" \in joined /\ inView[s] /\ uri # 0 /\ ~ short
<1>1. /\ Release(s) /\ finalizing' = [finalizing EXCEPT ![s] = NotClosing]
      /\ UNCHANGED <<mic, lastTake, starting, inView, voiceActs>>
      /\ finalizing[s].at = "session" /\ ShutDown(s, short)
  BY Zenon DEF SessionClosed, VoiceInv
<1>2. uri \in Nat /\ Recorded(uri) /\ joined \subseteq Callers /\ joined # {}
      /\ ("leave" \in joined => ~ inView[s])
  BY Zenon, <1>1 DEF VoiceTypeOK, Shutdowns, HeldTakes, ClosingHasCaller, VoiceInv
<1>3. transcripts' \subseteq Transcripts /\ \A c \in transcripts' : Recorded(c.take)
  <2>1. transcripts' = IF sends THEN Transcribes(transcripts, s, uri) ELSE transcripts
    BY <1>1 DEF ShutDown, VoiceInv
  <2>2. transcripts \subseteq Transcripts /\ \A c \in transcripts : Recorded(c.take)
    BY DEF VoiceTypeOK, HeldTakes, VoiceInv
  <2> QED
    BY Zenon, <1>2, <2>1, <2>2, TranscribingFits
<1>4. audio' \in {audio, audio \ {uri}}
      /\ \E n \in {0, uri, keptTake[s]} : keptTake' = [keptTake EXCEPT ![s] = n]
  BY Zenon, <1>1 DEF ShutDown, VoiceInv
<1>5. \E p \in Panels : voiceUi' = [voiceUi EXCEPT ![s] = p] /\ (p # "recording" \/ (p = voiceUi[s] /\ ~ inView[s]))
  <2>1. PICK p : p = CASE "background" \in joined -> "error"
                       [] "cancel" \in joined /\ "background" \notin joined -> "idle"
                       [] joined = {"stop"} -> IF sends THEN "transcribing" ELSE "error"
                       [] OTHER -> voiceUi[s]
    BY DEF VoiceInv
  <2>2. voiceUi' = [voiceUi EXCEPT ![s] = p]
    BY <1>1, <2>1 DEF ShutDown, VoiceInv
  <2>3. p \in {"error", "idle", "transcribing"} \/ (p = voiceUi[s] /\ "leave" \in joined)
    BY <1>2, <2>1 DEF Callers, VoiceInv
  <2>4. voiceUi[s] \in Panels
    BY DEF VoiceTypeOK, VoiceInv
  <2> QED
    BY Zenon, <1>2, <2>2, <2>3, <2>4 DEF Panels
<1> HIDE DEF joined, uri, sends
<1>6. recorderOwner' \in {recorderOwner, NoSurface} /\ (recorderOwner # s => recorderOwner' = recorderOwner)
  BY Zenon, <1>1 DEF Release, VoiceInv
<1>7. VoiceTypeOK'
  <2>1. keptTake' \in [Surfaces -> Nat] /\ voiceUi' \in [Surfaces -> Panels] /\ audio' \subseteq audio
    BY <1>2, <1>4, <1>5 DEF VoiceTypeOK, VoiceInv
  <2>2. finalizing' \in [Surfaces -> Shutdowns]
    BY Zenon, <1>1 DEF VoiceTypeOK, Shutdowns, NotClosing, VoiceInv
  <2> QED
    BY Zenon, <1>1, <1>3, <1>6, <2>1, <2>2 DEF VoiceTypeOK, VoiceInv
<1>8. HeldTakes'
  <2>1. \A q \in Surfaces : Recorded(keptTake'[q]) /\ Recorded(finalizing'[q].uri)
    BY <1>1, <1>2, <1>4 DEF VoiceTypeOK, HeldTakes, Recorded, NotClosing, VoiceInv
  <2> QED
    BY Zenon, <1>1, <1>3, <2>1 DEF HeldTakes, Recorded
<1>9. (ClaimUnspent /\ NotYetListening)'
  <2>1. \A q \in Surfaces : starting[q].at # "none" => voiceUi'[q] # "recording"
    BY Zenon, <1>5 DEF VoiceTypeOK, NotYetListening, VoiceInv
  <2> QED
    BY Zenon, <1>1, <1>6, <2>1, VoiceAssumption DEF VoiceInv, ClaimUnspent, NotYetListening
<1>10. ClosingHasCaller'
  BY <1>1 DEF VoiceTypeOK, ClosingHasCaller, NotClosing, VoiceInv
<1>11. TakesSound'
  <2>1. ListenerOwns'
    BY <1>1, <1>5, <1>6 DEF VoiceTypeOK, TakesSound, ListenerOwns, VoiceInv
  <2>2. TakeSafe'
    BY Zenon, <1>1, <1>2, <1>4 DEF TakesSound, TakeSafe, Recorded, VoiceInv
  <2> QED
    BY Zenon, <2>1, <2>2 DEF TakesSound
<1> QED
  BY <1>7, <1>8, <1>9, <1>10, <1>11 DEF VoiceInv

LEMMA VoiceKeeps == VoiceInv /\ [VoiceNext]_voiceVars => VoiceInv'
<1> SUFFICES ASSUME VoiceInv, [VoiceNext]_voiceVars PROVE VoiceInv'
  OBVIOUS
<1>1. CASE UNCHANGED voiceVars
  <2>1. UNCHANGED <<recorderOwner, mic, lastTake, audio, voiceUi, keptTake, starting, finalizing,
                    transcripts, inView, voiceActs>>
    BY Zenon, <1>1 DEF voiceVars, recorderVars, hookVars, audioVars
  <2>2. (VoiceTypeOK /\ HeldTakes /\ ClaimUnspent)'
    BY Zenon, <2>1 DEF VoiceInv, VoiceTypeOK, HeldTakes, Recorded, ClaimUnspent
  <2>3. (NotYetListening /\ ClosingHasCaller /\ TakesSound)'
    BY Zenon, <2>1 DEF VoiceInv, NotYetListening, ClosingHasCaller, TakesSound, ListenerOwns, TakeSafe
  <2> QED
    BY <2>2, <2>3 DEF VoiceInv
<1>2. CASE TimeUp
  BY Zenon, <1>2 DEF TimeUp, hookVars, VoiceInv, VoiceTypeOK, HeldTakes, Recorded, ClaimUnspent,
     NotYetListening, ClosingHasCaller, TakesSound, ListenerOwns, TakeSafe
<1>3. ASSUME NEW s \in Surfaces,
             \/ PermissionDenied(s) \/ PermissionGranted(s) \/ SessionOpened(s) \/ RecorderReady(s)
             \/ StartFails(s) \/ StartUndone(s) \/ RecorderStopped(s) \/ StopFails(s)
             \/ \E short \in BOOLEAN : SessionClosed(s, short)
      PROVE  VoiceInv'
  BY Zenon, <1>3, PermissionDeniedKeeps, PermissionGrantedKeeps, SessionOpenedKeeps, RecorderReadyKeeps, StartFailsKeeps,
     StartUndoneKeeps, RecorderStoppedKeeps, StopFailsKeeps, SessionClosedKeeps
<1>4. ASSUME NEW s \in Surfaces,
             \/ StartVoice(s) \/ StopVoice(s) \/ CancelVoice(s) \/ Backgrounded(s)
             \/ LeaveSurface(s) \/ RetryVoice(s) \/ RecordAgain(s) \/ ReviewDone(s)
      PROVE  VoiceInv'
  BY Zenon, <1>4, StartVoiceKeeps, StopVoiceKeeps, CancelVoiceKeeps, BackgroundedKeeps, LeaveSurfaceKeeps,
     RetryVoiceKeeps, RecordAgainKeeps, ReviewDoneKeeps
<1>5. ASSUME NEW c \in transcripts, SendAudio(c) \/ DraftInserted(c) \/ TranscriptFails(c)
      PROVE  VoiceInv'
  BY <1>5, SendAudioKeeps, DraftInsertedKeeps, TranscriptFailsKeeps
<1> QED
  BY <1>1, <1>2, <1>3, <1>4, <1>5 DEF VoiceNext, VoiceStep, VoiceInternal

\* A composer that shows a recording holds the shared recorder, and the file
\* under the recorder is never deleted, however many composers there are
\* (use-voice-draft.ts, voice-recorder-provider.tsx).
THEOREM TakesAreSound == VoiceSpec => []TakesSound
<1>1. VoiceInv => TakesSound
  BY DEF VoiceInv
<1> QED
  BY <1>1, VoiceStarts, VoiceKeeps, PTL DEF VoiceSpec
=============================================================================
