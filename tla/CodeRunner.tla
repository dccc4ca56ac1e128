----------------------------- MODULE CodeRunner -----------------------------
(***************************************************************************)
(* Running a student's code in the browser                                 *)
(* (web/src/components/shared/CodeRunner.tsx): a web worker that is kept   *)
(* from run to run, one timer for its start and one for the execution, and *)
(* the worker's own side (codeRunner.worker.ts).                           *)
(***************************************************************************)
EXTENDS Integers, Sequences, FiniteSets

CONSTANT MaxRuns      \* bound on the clicks on Run
ASSUME RunnerAssumption == MaxRuns \in Nat

VARIABLES worker,     \* workerRef: the number of a worker, 0 for null
          runId,      \* runIdRef, 0 for null
          timer,      \* timeoutRef: "none", "start" (30 s) or "run" (timeoutMs + 250)
          status, output,   \* runState, and the run its text comes from
          live,       \* the workers that exist
          job,        \* worker -> what it was last given: [run, step]
          messages,   \* posted by workers, not yet handled by the page
          runs, workers   \* runs asked for, workers made
runnerVars == <<worker, runId, timer, status, output, live, job, messages, runs, workers>>
workerVars == <<live, job, workers>>

RunnerInit ==
    /\ worker = 0 /\ runId = 0 /\ timer = "none" /\ status = "idle" /\ output = 0
    /\ live = {} /\ job = <<>> /\ messages = <<>> /\ runs = 0 /\ workers = 0

(***************************************************************************)
(* The page.                                                               *)
(***************************************************************************)
StopWorker == worker' = 0 /\ runId' = 0 /\ timer' = "none" /\ live' = live \ {worker}
\* handleRun; the page offers Run when nothing runs, and Stop when something does.
Run ==
    LET reused == worker # 0
        w == IF reused THEN worker ELSE workers + 1
    IN /\ status # "running" /\ runs < MaxRuns /\ runs' = runs + 1
       /\ worker' = w /\ runId' = runs' /\ timer' = "start"
       /\ status' = "running" /\ output' = 0
       /\ workers' = IF reused THEN workers ELSE w
       /\ live' = live \cup {w}
       /\ job' = [n \in 1 .. workers' |-> IF n = w THEN [run |-> runs', step |-> "queued"] ELSE job[n]]
       /\ UNCHANGED messages
Stop ==
    /\ status = "running" /\ StopWorker /\ status' = "timeout"
    /\ UNCHANGED <<output, job, messages, runs, workers>>
TimerFires ==
    /\ timer # "none" /\ StopWorker /\ status' = "timeout" /\ output' = runId
    /\ UNCHANGED <<job, messages, runs, workers>>
\* Leaving the page: the effect's cleanup.
Unmount ==
    /\ status # "gone" /\ StopWorker /\ status' = "gone" /\ runs' = MaxRuns
    /\ UNCHANGED <<output, job, messages, workers>>
\* Mutant: a message of any run is taken.
TakenUnchecked(m) == runId # 0
Taken(m) == m.run = runId
\* Mutant: the execution gets no timer of its own.
StartedUntimed == timer' = "none"
StartedTimer == timer' = "run"
OnMessage ==
    /\ messages # <<>> /\ messages' = Tail(messages)
    /\ LET m == Head(messages)
       IN CASE ~Taken(m) -> UNCHANGED <<worker, runId, timer, status, output, live>>
            [] Taken(m) /\ m.type = "started" -> StartedTimer /\ UNCHANGED <<worker, runId, status, output, live>>
            [] Taken(m) /\ m.type \in {"success", "error"} ->
                  /\ timer' = "none" /\ runId' = 0 /\ status' = m.type /\ output' = m.run
                  /\ UNCHANGED <<worker, live>>
    /\ UNCHANGED <<job, runs, workers>>
\* worker.onerror: the worker could not be loaded, or failed outside a run.
OnError ==
    /\ worker \in live /\ job[worker].run = runId
    /\ StopWorker /\ status' = "error" /\ output' = runId
    /\ UNCHANGED <<job, messages, runs, workers>>

(***************************************************************************)
(* The workers.  What a worker has posted may still be handled after       *)
(* terminate(), or be dropped with it; a program may never end.            *)
(***************************************************************************)
Post(w, type) == Append(messages, [run |-> job[w].run, type |-> type])
Begins(w) ==
    /\ w \in live /\ job[w].step = "queued"
    /\ job' = [job EXCEPT ![w].step = "executing"] /\ messages' = Post(w, "started")
    /\ UNCHANGED <<worker, runId, timer, status, output, live, runs, workers>>
Ends(w) ==
    /\ w \in live /\ job[w].step = "executing"
    /\ job' = [job EXCEPT ![w].step = "done"]
    /\ \E type \in {"success", "error"} : messages' = Post(w, type)
    /\ UNCHANGED <<worker, runId, timer, status, output, live, runs, workers>>
Dropped ==
    /\ messages # <<>>
    /\ \A w \in live : job[w].run # Head(messages).run
    /\ messages' = Tail(messages)
    /\ UNCHANGED <<worker, runId, timer, status, output, workerVars, runs>>

RunnerNext ==
    \/ Run \/ Stop \/ TimerFires \/ Unmount \/ OnMessage \/ OnError \/ Dropped
    \/ \E w \in live : Begins(w) \/ Ends(w)
\* Timers fire and posted messages are handled.
RunnerFairness == WF_runnerVars(TimerFires) /\ WF_runnerVars(OnMessage)
RunnerSpec == RunnerInit /\ [][RunnerNext]_runnerVars /\ RunnerFairness

\* What the page shows is the result of the last click on Run: a message of a
\* run that was stopped, timed out or replaced never changes the output.
OutputBelongs == status \in {"success", "error"} => output = runs

\* No worker is left behind: the one the page holds is the only one alive, and
\* none after it stopped, timed out or left, so no abandoned program keeps
\* using the student's machine.
OneWorker == live \subseteq {worker} \ {0}

\* One worker at most, and the result on the screen is that of the last run
\* (runCode, stopRun, the worker's messages and the time limits).
RunnerSound == OneWorker /\ OutputBelongs

\* Whatever the program does, and also when its worker never answers, the
\* button does not stay on "Running".
RunEnds == []<>(status # "running")
=============================================================================
