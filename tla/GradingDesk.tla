----------------------------- MODULE GradingDesk -----------------------------
(***************************************************************************)
(* Grading a module's submissions (web/src/pages/admin/                    *)
(* CohortModuleGrading.tsx): the side panel of the student and queue       *)
(* views, the dialog of the grid view, the keyboard shortcuts that serve   *)
(* both, the question asked before a redo without feedback                 *)
(* (ConfirmContext.tsx), GitHub sync and the advance to the next ungraded  *)
(* submission.  Submissions are read one by one and the answers come in    *)
(* any order.                                                              *)
(*                                                                         *)
(* What is in a feedback box is modelled by the submission it was read or  *)
(* typed for and by whether it is blank.  Every submission here is the     *)
(* latest attempt at its exercise, and a sync finds no new ones.           *)
(***************************************************************************)
EXTENDS Naturals, FiniteSets

CONSTANTS Submissions, \* submissions of the module: positive numbers
          StudentSubs, \* those of the student who may be picked
          MaxKeys      \* bound on what staff click, type and press
ASSUME GradingAssumption == /\ Submissions \subseteq Nat \ {0} /\ StudentSubs \subseteq Submissions
                            /\ MaxKeys \in Nat

VARIABLES gradeOf,     \* the server's grades
          noted,       \* submissions with feedback on the server
          listGrade,   \* data.submissions
          viewMode, queueFilter, selected, feedback, details, loadingDetail,
          gridOpen, gridSub, gridFeedback, gridLoads,
          asking,      \* redo grades that wait for the question's answer
          grading, gradeCalls, advanceFrom, reloads, syncing,
          keys
gradingVars == <<gradeOf, noted, listGrade, viewMode, queueFilter, selected, feedback, details, loadingDetail, gridOpen,
              gridSub, gridFeedback, gridLoads, asking, grading, gradeCalls, advanceFrom, reloads, syncing, keys>>

Grades == {"none", "pass", "redo"}
Box == [of : Submissions \cup {0}, blank : BOOLEAN]
Blank(s) == [of |-> s, blank |-> TRUE]
\* A grade on its way: from the panel or the dialog, with what the box held,
\* and whether the submission was on screen when it was given.
GradeCalls == [from : {"panel", "grid"}, sub : Submissions, grade : Grades \ {"none"}, box : Box]
\* A reading of the list, for a grade or a sync, before and after the server
\* read its rows.
Reload(why, s) == [by |-> [why |-> why, sub |-> s], served |-> FALSE, list |-> listGrade]
\* The views: the grid, the list of students, one student, the queue.
Views == {"grid", "students", "student", "queue"}

DialogShown == viewMode = "grid" /\ gridOpen
\* filteredSubmissions, of a list, and the ungraded ones it offers.
Filtered(list) ==
    {s \in Submissions : /\ viewMode = "student" => s \in StudentSubs
                         /\ viewMode # "student" /\ queueFilter = "ungraded" => list[s] = "none"
                         /\ viewMode # "student" /\ queueFilter = "redo" => list[s] = "redo"}
Ungraded(list) == {s \in Filtered(list) : list[s] = "none"}
Act == keys < MaxKeys /\ keys' = keys + 1

GradingInit ==
    /\ gradeOf = [s \in Submissions |-> "none"] /\ noted = {} /\ listGrade = gradeOf
    /\ viewMode = "grid" /\ queueFilter = "ungraded" /\ selected = 0 /\ feedback = Blank(0) /\ details = {} /\ loadingDetail = FALSE
    /\ gridOpen = FALSE /\ gridSub = 0 /\ gridFeedback = Blank(0) /\ gridLoads = {}
    /\ asking = {} /\ grading = FALSE /\ gradeCalls = {} /\ advanceFrom = 0 /\ reloads = {} /\ syncing = {}
    /\ keys = 0

\* selectSubmission reads the submission; the spinner stops at any answer.
SelectSubmission(s) ==
    /\ Act /\ asking = {}
    /\ viewMode \in {"student", "queue"} /\ s \in Filtered(listGrade)
    /\ details' = details \cup {s} /\ loadingDetail' = TRUE
    /\ UNCHANGED <<gradeOf, noted, listGrade, viewMode, queueFilter, selected, feedback, gridOpen, gridSub, gridFeedback, gridLoads,
                   asking, grading, gradeCalls, advanceFrom, reloads, syncing>>
SubmissionShownOverDraft(s) ==
    /\ s \in details /\ details' = details \ {s}
    /\ selected' = s /\ loadingDetail' = FALSE
    /\ feedback' = IF feedback.blank THEN [of |-> s, blank |-> s \notin noted] ELSE feedback
    /\ UNCHANGED <<gradeOf, noted, listGrade, viewMode, queueFilter, gridOpen, gridSub, gridFeedback, gridLoads,
                   asking, grading, gradeCalls, advanceFrom, reloads, syncing, keys>>
SubmissionShown(s) ==
    /\ s \in details /\ details' = details \ {s}
    /\ selected' = s /\ feedback' = [of |-> s, blank |-> s \notin noted] /\ loadingDetail' = FALSE
    /\ UNCHANGED <<gradeOf, noted, listGrade, viewMode, queueFilter, gridOpen, gridSub, gridFeedback, gridLoads,
                   asking, grading, gradeCalls, advanceFrom, reloads, syncing, keys>>
\* The view buttons, a student of the list and "Back to student list".
SwitchTo(mode) ==
    /\ Act /\ asking = {} /\ ~DialogShown
    /\ mode = "student" => viewMode = "students"
    /\ viewMode' = mode /\ selected' = 0
    /\ UNCHANGED <<gradeOf, noted, listGrade, queueFilter, feedback, details, loadingDetail, gridOpen, gridSub, gridFeedback, gridLoads,
                   asking, grading, gradeCalls, advanceFrom, reloads, syncing>>
\* The counters: the first of them goes on to the first ungraded submission.
OpenQueue(filter) ==
    /\ Act /\ asking = {} /\ ~DialogShown
    /\ viewMode' = "queue" /\ queueFilter' = filter
    /\ LET first == {s \in Submissions : filter = "ungraded" /\ listGrade[s] = "none"} IN
       IF first = {} THEN selected' = 0 /\ UNCHANGED <<details, loadingDetail>>
       ELSE /\ \E s \in first : details' = details \cup {s}
            /\ loadingDetail' = TRUE /\ UNCHANGED selected
    /\ UNCHANGED <<gradeOf, noted, listGrade, feedback, gridOpen, gridSub, gridFeedback, gridLoads,
                   asking, grading, gradeCalls, advanceFrom, reloads, syncing>>

OpenGridCell(s) ==
    /\ Act /\ viewMode = "grid" /\ ~gridOpen /\ asking = {}
    /\ gridOpen' = TRUE /\ gridSub' = 0 /\ gridLoads' = gridLoads \cup {s}
    /\ UNCHANGED <<gradeOf, noted, listGrade, viewMode, queueFilter, selected, feedback, details, loadingDetail, gridFeedback,
                   asking, grading, gradeCalls, advanceFrom, reloads, syncing>>
GridCellShown(s) ==
    /\ s \in gridLoads /\ gridLoads' = gridLoads \ {s}
    /\ gridSub' = s /\ gridFeedback' = [of |-> s, blank |-> s \notin noted]
    /\ UNCHANGED <<gradeOf, noted, listGrade, viewMode, queueFilter, selected, feedback, details, loadingDetail, gridOpen,
                   asking, grading, gradeCalls, advanceFrom, reloads, syncing, keys>>
CloseGridModal ==
    /\ gridOpen /\ viewMode = "grid" /\ asking = {}
    /\ gridOpen' = FALSE /\ gridSub' = 0 /\ gridFeedback' = Blank(0)
    /\ UNCHANGED <<gradeOf, noted, listGrade, viewMode, queueFilter, selected, feedback, details, loadingDetail, gridLoads,
                   asking, grading, gradeCalls, advanceFrom, reloads, syncing, keys>>

\* Typing in the feedback box that is on screen.
TypeFeedback ==
    /\ Act /\ asking = {}
    /\ \/ /\ viewMode # "grid" /\ selected # 0 /\ ~loadingDetail
          /\ feedback' = [of |-> selected, blank |-> FALSE] /\ UNCHANGED gridFeedback
       \/ /\ DialogShown /\ gridSub # 0
          /\ gridFeedback' = [of |-> gridSub, blank |-> FALSE] /\ UNCHANGED feedback
    /\ UNCHANGED <<gradeOf, noted, listGrade, viewMode, queueFilter, selected, details, loadingDetail, gridOpen, gridSub, gridLoads,
                   asking, grading, gradeCalls, advanceFrom, reloads, syncing>>

PanelGrade(g) == [from |-> "panel", sub |-> selected, grade |-> g, box |-> feedback]
GridGrade(g) == [from |-> "grid", sub |-> gridSub, grade |-> g, box |-> gridFeedback]
\* handleGrade and handleGridGrade; the panel remembers where to advance from.
SendGrade(c) ==
    /\ gradeCalls' = gradeCalls \cup {c} /\ grading' = TRUE
    /\ advanceFrom' = IF c.from = "panel" THEN c.sub ELSE advanceFrom
\* A redo with an empty box is asked about first; a new question answers an
\* open one with no.
GradeOrAsk(c) ==
    IF c.grade = "redo" /\ c.box.blank
    THEN asking' = {c} /\ UNCHANGED <<gradeCalls, grading, advanceFrom>>
    ELSE SendGrade(c) /\ UNCHANGED asking
\* The grade buttons of the panel and of the dialog.
ClickGrade(g) ==
    /\ Act /\ ~grading /\ asking = {}
    /\ \/ /\ viewMode # "grid" /\ selected # 0 /\ ~loadingDetail /\ GradeOrAsk(PanelGrade(g))
       \/ /\ DialogShown /\ gridSub # 0 /\ GradeOrAsk(GridGrade(g))
    /\ UNCHANGED <<gradeOf, noted, listGrade, viewMode, queueFilter, selected, feedback, details, loadingDetail, gridOpen, gridSub,
                   gridFeedback, gridLoads, reloads, syncing>>
\* The keyboard, which a question does not silence: the dialog's submission
\* comes first, if there is one.
PressGrade(g) ==
    /\ Act /\ ~grading
    /\ IF gridSub # 0 THEN GradeOrAsk(GridGrade(g))
       ELSE selected # 0 /\ ~loadingDetail /\ GradeOrAsk(PanelGrade(g))
    /\ UNCHANGED <<gradeOf, noted, listGrade, viewMode, queueFilter, selected, feedback, details, loadingDetail, gridOpen, gridSub,
                   gridFeedback, gridLoads, reloads, syncing>>
AnswerQuestion(yes) ==
    \E c \in asking :
       /\ asking' = {}
       /\ IF yes THEN SendGrade(c) ELSE UNCHANGED <<gradeCalls, grading, advanceFrom>>
       /\ UNCHANGED <<gradeOf, noted, listGrade, viewMode, queueFilter, selected, feedback, details, loadingDetail, gridOpen, gridSub,
                      gridFeedback, gridLoads, reloads, syncing, keys>>

StoreGrade(c) ==
    /\ gradeOf' = [gradeOf EXCEPT ![c.sub] = c.grade]
    /\ noted' = IF c.box.blank THEN noted \ {c.sub} ELSE noted \cup {c.sub}
GradeSaved(c) ==
    /\ c \in gradeCalls /\ gradeCalls' = gradeCalls \ {c}
    /\ StoreGrade(c)
    /\ reloads' = reloads \cup {Reload(c.from, c.sub)}
    /\ IF c.from = "panel"
       THEN feedback' = Blank(selected) /\ UNCHANGED <<gridOpen, gridSub, gridFeedback>>
       ELSE gridOpen' = FALSE /\ gridSub' = 0 /\ gridFeedback' = Blank(0) /\ UNCHANGED feedback
    /\ UNCHANGED <<listGrade, viewMode, queueFilter, selected, details, loadingDetail, gridLoads, asking, grading, advanceFrom,
                   syncing, keys>>
GradeFailsBusy(c) ==
    /\ c \in gradeCalls /\ gradeCalls' = gradeCalls \ {c}
    /\ StoreGrade(c) \/ UNCHANGED <<gradeOf, noted>>
    /\ UNCHANGED <<listGrade, viewMode, queueFilter, selected, feedback, details, loadingDetail, gridOpen, gridSub,
                   gridFeedback, gridLoads, asking, grading, advanceFrom, reloads, syncing, keys>>
\* The grade may have been stored all the same.
GradeFails(c) ==
    /\ c \in gradeCalls /\ gradeCalls' = gradeCalls \ {c}
    /\ StoreGrade(c) \/ UNCHANGED <<gradeOf, noted>>
    /\ grading' = FALSE
    /\ UNCHANGED <<listGrade, viewMode, queueFilter, selected, feedback, details, loadingDetail, gridOpen, gridSub, gridFeedback,
                   gridLoads, asking, advanceFrom, reloads, syncing, keys>>

\* loadData, and the effect that advances once a panel grade was given.
Advance(list) ==
    IF advanceFrom = 0 THEN UNCHANGED <<advanceFrom, selected, details, loadingDetail>>
    ELSE /\ advanceFrom' = 0
         /\ IF Ungraded(list) \ {advanceFrom} = {}
            THEN selected' = 0 /\ UNCHANGED <<details, loadingDetail>>
            ELSE \E s \in Ungraded(list) \ {advanceFrom} :
                    /\ details' = details \cup {s} /\ loadingDetail' = TRUE /\ UNCHANGED selected
ListServed(q) ==
    /\ q \in reloads /\ ~q.served
    /\ reloads' = (reloads \ {q}) \cup {[q EXCEPT !.served = TRUE, !.list = gradeOf]}
    /\ UNCHANGED <<gradeOf, noted, listGrade, viewMode, queueFilter, selected, feedback, details, loadingDetail, gridOpen,
                   gridSub, gridFeedback, gridLoads, asking, grading, gradeCalls, advanceFrom, syncing, keys>>
\* What the caller of loadData does when it returns.
Returned(why) ==
    IF why \in {"panel", "grid"} THEN grading' = FALSE /\ UNCHANGED syncing
    ELSE syncing' = syncing \ {why} /\ UNCHANGED grading
ListReloaded(q) ==
    /\ q \in reloads /\ q.served /\ reloads' = reloads \ {q}
    /\ listGrade' = q.list /\ Advance(q.list) /\ Returned(q.by.why)
    /\ UNCHANGED <<gradeOf, noted, viewMode, queueFilter, feedback, gridOpen, gridSub, gridFeedback, gridLoads, asking,
                   gradeCalls, keys>>
\* The list could not be read, or the sync before it failed.
ListReloadFails(q) ==
    /\ q \in reloads /\ reloads' = reloads \ {q} /\ Returned(q.by.why)
    /\ UNCHANGED <<gradeOf, noted, listGrade, viewMode, queueFilter, selected, feedback, details, loadingDetail, gridOpen,
                   gridSub, gridFeedback, gridLoads, asking, gradeCalls, advanceFrom, keys>>
\* handleSyncAll and handleSyncStudent, which end in loadData.
SyncGithub(who) ==
    /\ Act /\ who \notin syncing /\ asking = {} /\ ~DialogShown
    /\ who = "student" => viewMode = "student"
    /\ syncing' = syncing \cup {who} /\ reloads' = reloads \cup {Reload(who, 0)}
    /\ UNCHANGED <<gradeOf, noted, listGrade, viewMode, queueFilter, selected, feedback, details, loadingDetail, gridOpen,
                   gridSub, gridFeedback, gridLoads, asking, grading, gradeCalls, advanceFrom>>

GradingSettles ==
    \/ \E c \in gradeCalls : GradeSaved(c) \/ GradeFails(c)
    \/ \E q \in reloads : ListServed(q) \/ ListReloaded(q) \/ ListReloadFails(q)
GradingNext ==
    \/ GradingSettles
    \/ \E s \in Submissions :
          SelectSubmission(s) \/ SubmissionShown(s) \/ OpenGridCell(s) \/ GridCellShown(s)
    \/ \E mode \in Views : SwitchTo(mode)
    \/ \E filter \in {"ungraded", "redo", "all"} : OpenQueue(filter)
    \/ CloseGridModal \/ TypeFeedback
    \/ \E who \in {"all", "student"} : SyncGithub(who)
    \/ \E g \in {"pass", "redo"} : ClickGrade(g) \/ PressGrade(g)
    \/ \E yes \in BOOLEAN : AnswerQuestion(yes)
\* fetchApi answers every request: it gives up after its timeout.
GradingFairness == WF_gradingVars(GradingSettles)
GradingSpec == GradingInit /\ [][GradingNext]_gradingVars /\ GradingFairness

(***************************************************************************)
(* The feedback sent with a grade was read or typed for the submission     *)
(* that is graded, however the panel, the dialog and late answers follow   *)
(* one another: no student gets another student's feedback.                *)
(***************************************************************************)
FeedbackBelongs == \A c \in gradeCalls : c.box.of = c.sub

(***************************************************************************)
(* The grade buttons are disabled only while a grade is on its way or the  *)
(* list is read again after one.                                           *)
(***************************************************************************)
GradingHasCall == grading => gradeCalls # {} \/ \E q \in reloads : q.by.sub # 0

(***************************************************************************)
(* Grading goes on: the buttons come back after every grade, saved or not. *)
(***************************************************************************)
GradingEnds == []<>~grading
=============================================================================
