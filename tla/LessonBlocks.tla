---------------------------- MODULE LessonBlocks ----------------------------
(***************************************************************************)
(* A student works through a lesson on the web: the lesson page, which     *)
(* loads the lesson its address names and reads it again after each step   *)
(* (web/src/pages/student/LessonView.tsx), and one of its blocks, with its *)
(* submission form, its "done" mark or its recall question                 *)
(* (web/src/components/shared/ContentBlockRenderer.tsx).                   *)
(*                                                                         *)
(* The block belongs to lesson 1; lesson 2 is where the student may go     *)
(* meanwhile.  Texts are numbered in the order they are typed, 0 is blank; *)
(* the links of a project count as one text.                               *)
(***************************************************************************)
EXTENDS Integers, FiniteSets

CONSTANT MaxLessonActs    \* bound on what the student and the staff do
ASSUME LessonAssumption == MaxLessonActs \in Nat

VARIABLES kind,           \* what the block asks for
          route, lesson, loading,    \* LessonView: id, lesson and loading
          block,          \* the lesson's block as last read: the props of the renderer
          mount,          \* which mounting of the renderer is on the page, 0 for none
          formText, formEdited, submitting, notice,    \* the form
          isCompleted, choice, checking, attempt, \* the mark; the recall question
          calls, server, lessonActs, mounts
lessonVars == <<kind, route, lesson, loading, block, mount, formText, formEdited, submitting, notice, isCompleted,
                choice, checking, attempt, calls, server, lessonActs, mounts>>
formVars == <<formText, formEdited, submitting, notice>>
checkVars == <<choice, checking, attempt>>
lessonPageVars == <<kind, route, lesson, loading, block, mount, mounts>>

Kinds == {"text_submission", "repo_url_submission", "prework_github_sync", "manual_complete", "check", "video"}

(***************************************************************************)
(* What the renderer offers: the lock, the mark, the forms, the question.  *)
(***************************************************************************)
WorkLocked == block.closed /\ kind \notin {"check", "video"}
OffersMark == mount # 0 /\ kind \in {"manual_complete", "video"} /\ (WorkLocked => isCompleted)
OffersToggle == mount # 0 /\ kind = "manual_complete" /\ (WorkLocked => isCompleted)
OffersText == mount # 0 /\ kind = "text_submission" /\ ~WorkLocked
OffersLinks == mount # 0 /\ kind = "repo_url_submission" /\ ~WorkLocked
OffersForm == OffersText \/ OffersLinks
OffersCheck == mount # 0 /\ kind = "check" /\ attempt # "right"

\* The draft effect: unless the student edited it, the form shows the latest submission.
Prefill(b, ed, text) == IF ed THEN text ELSE b.latest

\* The block when nothing has been done yet, and what a call without an answer carries.
Untouched == [latest |-> 0, grade |-> "none", done |-> FALSE, closed |-> FALSE, tries |-> 0]
LessonInit ==
    /\ kind \in Kinds /\ route = 1 /\ lesson = 0 /\ loading = TRUE
    /\ server = Untouched /\ block = Untouched /\ mount = 0 /\ mounts = 0
    /\ formText = 0 /\ formEdited = FALSE /\ submitting = FALSE /\ notice = "none" /\ isCompleted = FALSE
    /\ choice = "none" /\ checking = FALSE /\ attempt = "none" /\ lessonActs = 0
    /\ calls = {[id |-> 0, for |-> "load", lesson |-> 1, mount |-> 0, arg |-> 0, step |-> "sent", got |-> Untouched]}

Budget == lessonActs < MaxLessonActs /\ lessonActs' = lessonActs + 1
Call(for, l, m, arg) == [id |-> lessonActs, for |-> for, lesson |-> l, mount |-> m, arg |-> arg, step |-> "sent", got |-> Untouched]
Reload(c) == [c EXCEPT !.for = "silent", !.step = "sent", !.got = Untouched]

(***************************************************************************)
(* What the student does.                                                  *)
(***************************************************************************)
GoTo(l) ==
    /\ ~loading /\ l # route /\ Budget
    /\ route' = l /\ loading' = TRUE /\ mount' = 0
    /\ formText' = 0 /\ formEdited' = FALSE /\ submitting' = FALSE /\ notice' = "none"
    /\ choice' = "none" /\ checking' = FALSE /\ attempt' = "none"
    /\ calls' = calls \cup {Call("load", l, 0, 0)}
    /\ UNCHANGED <<kind, lesson, block, mounts, isCompleted, server>>
\* handleDraftChange
Type ==
    /\ OffersForm /\ Budget
    /\ formText' = lessonActs' /\ formEdited' = TRUE /\ notice' = "none"
    /\ UNCHANGED <<lessonPageVars, submitting, isCompleted, checkVars, calls, server>>
\* handleSubmit up to its await.
Submit ==
    /\ OffersForm /\ ~submitting /\ formText # 0 /\ Budget
    /\ submitting' = TRUE /\ notice' = "none"
    /\ calls' = calls \cup {Call("submit", 1, mount, formText)}
    /\ UNCHANGED <<lessonPageVars, formText, formEdited, isCompleted, checkVars, server>>
\* handleToggleComplete up to its await: nothing disables the mark meanwhile.
Toggle ==
    /\ OffersMark \/ OffersToggle
    /\ Budget
    /\ calls' = calls \cup {Call("toggle", 1, mount, IF isCompleted THEN 0 ELSE 1)}
    /\ UNCHANGED <<lessonPageVars, formVars, isCompleted, checkVars, server>>
\* The embedded player reports the end of the video: markVideoCompleted.
EmbedEnded ==
    /\ mount # 0 /\ kind = "video" /\ ~isCompleted /\ Budget
    /\ calls' = calls \cup {Call("toggle", 1, mount, 1)}
    /\ UNCHANGED <<lessonPageVars, formVars, isCompleted, checkVars, server>>
Choose(o) ==
    /\ OffersCheck /\ choice # o /\ Budget /\ choice' = o
    /\ UNCHANGED <<lessonPageVars, formVars, isCompleted, checking, attempt, calls, server>>
\* handleKnowledgeCheck up to its await.
CheckAnswer ==
    /\ OffersCheck /\ choice # "none" /\ ~checking /\ Budget
    /\ checking' = TRUE /\ calls' = calls \cup {Call("check", 1, mount, IF choice = "right" THEN 1 ELSE 0)}
    /\ UNCHANGED <<lessonPageVars, formVars, isCompleted, choice, attempt, server>>
\* Elsewhere: a grade is given, the week's window closes.
Elsewhere ==
    /\ Budget
    /\ \/ server.latest # 0 /\ \E g \in {"R", "pass"} : server' = [server EXCEPT !.grade = g, !.done = (g = "pass")]
       \/ ~server.closed /\ server' = [server EXCEPT !.closed = TRUE]
    /\ UNCHANGED <<lessonPageVars, formVars, isCompleted, checkVars, calls>>

(***************************************************************************)
(* The server.  A submission after the window closed is refused.           *)
(***************************************************************************)
Accepted(c) == CASE c.for = "submit" -> ~server.closed
                 [] c.for = "toggle" -> ~(server.closed /\ kind = "manual_complete" /\ c.arg = 1)
                 [] OTHER -> TRUE
Written(c) == CASE c.for = "submit" -> [server EXCEPT !.latest = c.arg, !.grade = "none", !.done = TRUE]
                [] c.for = "toggle" -> [server EXCEPT !.done = (c.arg = 1)]
                [] c.for = "check" -> [server EXCEPT !.tries = @ + 1, !.done = @ \/ c.arg = 1]
                [] OTHER -> server
ServeLesson(c) ==
    /\ c.step = "sent"
    /\ server' = IF Accepted(c) THEN Written(c) ELSE server
    /\ calls' = (calls \ {c}) \cup {[c EXCEPT !.step = IF Accepted(c) THEN "ok" ELSE "failed", !.got = IF Accepted(c) THEN server' ELSE Untouched]}
    /\ UNCHANGED <<lessonPageVars, formVars, isCompleted, checkVars, lessonActs>>
\* The request fails, before or after the server ran it.
FailLesson(c) ==
    /\ c.step \in {"sent", "ok"} /\ Budget
    /\ calls' = (calls \ {c}) \cup {[c EXCEPT !.step = "failed", !.got = Untouched]}
    /\ UNCHANGED <<lessonPageVars, formVars, isCompleted, checkVars, server>>

(***************************************************************************)
(* The answers.  loadLesson takes any answer for the lesson on the page;   *)
(* the first rendering of the block, and every new status, set the mark.   *)
(***************************************************************************)
LoadEnds(c) == loading /\ c.for # "load"
LessonAnswered(c) ==
    /\ c.for \in {"load", "silent"} /\ c.step \in {"ok", "failed"}
    /\ calls' = calls \ {c}
    /\ loading' = LoadEnds(c)
    /\ lesson' = IF c.step = "ok" THEN c.lesson ELSE lesson
    /\ block' = IF c.step = "ok" /\ c.lesson = 1 THEN c.got ELSE block
    /\ LET there == lesson' = 1 /\ ~loading'
           fresh == there /\ mount = 0
           kept == there /\ mount # 0
       IN /\ mounts' = IF fresh THEN mounts + 1 ELSE mounts
          /\ mount' = CASE fresh -> mounts' [] kept -> mount [] OTHER -> 0
          /\ formEdited' = (formEdited /\ kept) /\ submitting' = (submitting /\ kept)
          /\ notice' = IF kept THEN notice ELSE "none"
          /\ formText' = IF there THEN Prefill(block', formEdited', formText) ELSE 0
          /\ isCompleted' = IF fresh \/ block'.done # block.done THEN block'.done ELSE isCompleted
          /\ choice' = IF kept THEN choice ELSE "none"
          /\ checking' = (checking /\ kept)
          /\ attempt' = IF kept THEN attempt ELSE "none"
    /\ UNCHANGED <<kind, route, server, lessonActs>>
Here(c) == mount # 0 /\ c.mount = mount
SubmitAnswered(c) ==
    /\ c.for = "submit" /\ c.step \in {"ok", "failed"}
    /\ calls' = (calls \ {c}) \cup (IF c.step = "ok" THEN {Reload(c)} ELSE {})
    /\ submitting' = (submitting /\ ~Here(c))
    /\ notice' = IF Here(c) THEN (IF c.step = "ok" THEN "saved" ELSE "error") ELSE notice
    /\ formEdited' = (formEdited /\ ~(Here(c) /\ c.step = "ok"))
    /\ formText' = IF Here(c) THEN Prefill(block, formEdited', formText) ELSE formText
    /\ UNCHANGED <<lessonPageVars, isCompleted, checkVars, server, lessonActs>>
ToggleAnswered(c) ==
    /\ c.for = "toggle" /\ c.step \in {"ok", "failed"}
    /\ calls' = (calls \ {c}) \cup (IF c.step = "ok" THEN {Reload(c)} ELSE {})
    /\ isCompleted' = IF Here(c) /\ c.step = "ok" THEN c.arg = 1 ELSE isCompleted
    /\ UNCHANGED <<lessonPageVars, formVars, checkVars, server, lessonActs>>
Given(c) == IF c.arg = 1 THEN "right" ELSE "wrong"
CheckAnswered(c) ==
    /\ c.for = "check" /\ c.step \in {"ok", "failed"}
    /\ calls' = (calls \ {c}) \cup (IF c.step = "ok" /\ c.got.done THEN {Reload(c)} ELSE {})
    /\ checking' = (checking /\ ~Here(c))
    /\ attempt' = IF Here(c) /\ c.step = "ok" THEN Given(c) ELSE attempt
    /\ isCompleted' = (isCompleted \/ (Here(c) /\ c.step = "ok" /\ c.got.done))
    /\ UNCHANGED <<lessonPageVars, formVars, choice, server, lessonActs>>

LessonStep ==
    \E c \in calls : ServeLesson(c) \/ LessonAnswered(c) \/ SubmitAnswered(c) \/ ToggleAnswered(c) \/ CheckAnswered(c)
LessonNext ==
    \/ \E l \in {1, 2} : GoTo(l)
    \/ Type \/ Submit \/ Toggle \/ EmbedEnded \/ CheckAnswer \/ Elsewhere
    \/ \E o \in {"right", "wrong"} : Choose(o)
    \/ \E c \in calls : FailLesson(c)
    \/ LessonStep
\* fetchApi gives every request a time limit, so each is answered or fails.
LessonFairness == WF_lessonVars(LessonStep)
LessonSpec == LessonInit /\ [][LessonNext]_lessonVars /\ LessonFairness

\* What the student has typed into the form is theirs: no answer of the
\* lesson, which any step of this or another block brings at any time, puts
\* another text there while the form is marked as edited; only the answer to
\* their own submission lifts that mark.
DraftSafe == [][mount # 0 /\ mount' = mount /\ formEdited /\ formEdited' => formText' = formText \/ formText' = lessonActs']_lessonVars

\* "Submitting…" and "Checking…" mean a request of this form is under way, so
\* the disabled button comes back, also when the student left and returned.
BusyHasRequest ==
    /\ submitting => \E c \in calls : c.for = "submit" /\ Here(c)
    /\ checking => \E c \in calls : c.for = "check" /\ Here(c)

\* A recall question that says "Correct" was answered correctly, whatever was
\* chosen while the answer was on its way: the server recorded it as done.
CorrectIsRecorded == attempt = "right" => server.done
=============================================================================
