---------------------------- MODULE PagesProofs -----------------------------
(***************************************************************************)
(* Proofs about the web pages whose spinners, busy buttons, forms and rows *)
(* stand for calls under way: the settings and the roster of a cohort, the *)
(* grading page, the page of one student, the announcements, the upload    *)
(* queue of recordings and the recordings page.  Each page has an          *)
(* inductive invariant that every step keeps; what the page promises       *)
(* follows from it.                                                        *)
(***************************************************************************)
EXTENDS CohortPage, GradingDesk, StudentAccess, UpdatesFeed, CohortRoster,
        RecordingLibrary, RecordingsPage, TLAPS

-----------------------------------------------------------------------------
(***************************************************************************)
(* The settings of a cohort (CohortDetail.tsx).                            *)
(***************************************************************************)

\* A request has its fields, and a finished one names the section it was sent for.
IsCohortCall(c) ==
    c \in [for : {c.for}, sec : {c.sec}, value : {c.value}, keep : {c.keep}, step : {c.step}, answer : {c.answer}, id : {c.id}]
CohortIInv == (\A c \in calls : IsCohortCall(c)) /\ BusyHasCall

\* A save of the page's own sections begins.
LEMMA FormSent ==
    ASSUME CohortIInv, NEW kind, NEW v, saving' = saving \cup {kind},
           Send(Call("save", <<kind, 0>>, v, 0, acts)), UNCHANGED savingModuleId
    PROVE  CohortIInv'
  <1> DEFINE c == Call("save", <<kind, 0>>, v, 0, acts)
  <1>1. IsCohortCall(c) /\ c.for = "save" /\ c.sec = <<kind, 0>>
    BY DEF Call, IsCohortCall
  <1>2. calls' = calls \cup {c}
    BY DEF Send
  <1> HIDE DEF c
  <1> QED
    BY <1>1, <1>2 DEF CohortIInv, BusyHasCall, IsCohortCall, ModuleOf

\* A save of a module begins: its call names the module.
LEMMA ModuleSent ==
    ASSUME CohortIInv, NEW m, NEW for, for \notin {"save", "reload"}, NEW what, NEW v, NEW keep,
           savingModuleId' = m, Send(Call(for, <<what, m>>, v, keep, acts)), UNCHANGED saving
    PROVE  CohortIInv'
  <1> DEFINE c == Call(for, <<what, m>>, v, keep, acts)
  <1>1. IsCohortCall(c) /\ c.for = for /\ c.sec = <<what, m>>
    BY DEF Call, IsCohortCall
  <1>2. calls' = calls \cup {c}
    BY DEF Send
  <1> HIDE DEF c
  <1>3. ModuleOf(c) = m
    <2>1. c.for \notin {"save", "reload"} /\ c.sec[2] = m
      BY <1>1
    <2> QED
      BY <2>1 DEF ModuleOf
  <1> QED
    BY <1>1, <1>2, <1>3 DEF CohortIInv, BusyHasCall, IsCohortCall

\* A call that goes on, as itself or as the next of its operation, still
\* stands for the same button.
LEMMA CallGoesOn ==
    ASSUME CohortIInv, NEW c \in calls, NEW d, IsCohortCall(d), ModuleOf(d) = ModuleOf(c),
           c.for = "save" => d.for = "save" /\ d.sec = c.sec,
           calls' = (calls \ {c}) \cup {d}, UNCHANGED <<saving, savingModuleId>>
    PROVE  CohortIInv'
  <1>1. \A x \in calls' : IsCohortCall(x)
    BY DEF CohortIInv, IsCohortCall
  <1>2. ASSUME NEW k \in saving' PROVE \E x \in calls' : x.for = "save" /\ x.sec[1] = k
    BY <1>2 DEF CohortIInv, BusyHasCall
  <1>3. savingModuleId' # 0 => \E x \in calls' : ModuleOf(x) = savingModuleId'
    BY DEF CohortIInv, BusyHasCall
  <1>4. BusyHasCall'
    BY <1>2, <1>3 DEF BusyHasCall, ModuleOf
  <1>5. (\A x \in calls : IsCohortCall(x))'
    BY <1>1 DEF IsCohortCall
  <1> QED
    BY <1>4, <1>5 DEF CohortIInv

\* A call that ends gives its button back.
LEMMA CallEnds ==
    ASSUME CohortIInv, NEW c \in calls, NEW message, Ends(c, message)
    PROVE  CohortIInv'
  <1>1. (\A x \in calls : IsCohortCall(x))'
    BY DEF CohortIInv, IsCohortCall, Ends
  <1>2. BusyHasCall'
    <2>1. CASE c.for = "save"
      <3>1. calls' = calls \ {c} /\ saving' = saving \ {c.sec[1]} /\ savingModuleId' = savingModuleId
        BY <2>1 DEF Ends
      <3>2. ModuleOf(c) = 0
        BY <2>1 DEF ModuleOf
      <3> QED
        BY <3>1, <3>2 DEF CohortIInv, BusyHasCall, ModuleOf
    <2>2. CASE c.for # "save"
      BY <2>2 DEF Ends, CohortIInv, BusyHasCall, ModuleOf
    <2> QED
      BY <2>1, <2>2
  <1> QED
    BY <1>1, <1>2 DEF CohortIInv

\* An operation that continues sends its next call.
LEMMA Continued ==
    ASSUME CohortIInv, NEW c \in calls, c.for \notin {"save", "reload"}, NEW for, for \notin {"save", "reload"},
           NEW sec, sec[2] = c.sec[2], NEW v, Continues(c, for, sec, v)
    PROVE  CohortIInv'
  <1> DEFINE d == Call(for, sec, v, c.keep, c.id)
  <1>1. IsCohortCall(d) /\ d.for = for /\ d.sec = sec
    BY DEF Call, IsCohortCall
  <1>2. calls' = (calls \ {c}) \cup {d} /\ UNCHANGED <<saving, savingModuleId>>
    BY DEF Continues
  <1> HIDE DEF d
  <1>3. ModuleOf(d) = ModuleOf(c)
    BY <1>1 DEF ModuleOf
  <1> QED
    BY <1>1, <1>2, <1>3, CallGoesOn

\* What the server does to a request.
LEMMA CohortServed ==
    ASSUME CohortIInv, NEW c \in calls, Serve(c)
    PROVE  CohortIInv'
  <1>1. PICK step \in {"ok", "failed"} : calls' = (calls \ {c}) \cup {[c EXCEPT !.step = step, !.answer = served']}
    BY Zenon DEF Serve
  <1> DEFINE d == [c EXCEPT !.step = step, !.answer = served']
  <1>2. IsCohortCall(d) /\ d.for = c.for /\ d.sec = c.sec
    BY Zenon DEF CohortIInv, IsCohortCall
  <1>3. calls' = (calls \ {c}) \cup {d} /\ UNCHANGED <<saving, savingModuleId>>
    BY <1>1 DEF Serve
  <1> HIDE DEF d
  <1>4. ModuleOf(d) = ModuleOf(c)
    BY <1>2 DEF ModuleOf
  <1> QED
    BY <1>2, <1>3, <1>4, CallGoesOn

\* What an answer does, by the operation it belongs to.
LEMMA CohortAnswered ==
    ASSUME CohortIInv, NEW c \in calls, Arrive(c)
    PROVE  CohortIInv'
  <1>1. CASE FormSaved(c)
    BY <1>1, CallEnds DEF FormSaved
  <1>2. CASE FormRefused(c)
    BY <1>2, CallEnds DEF FormRefused
  <1>3. CASE Reloaded(c)
    <2>1. calls' = calls \ {c} /\ UNCHANGED <<saving, savingModuleId>> /\ c.for = "reload"
      BY <1>3 DEF Reloaded
    <2>2. ModuleOf(c) = 0
      BY <2>1 DEF ModuleOf
    <2> QED
      BY <2>1, <2>2 DEF CohortIInv, IsCohortCall, BusyHasCall, ModuleOf
  <1>4. CASE AccessSaved(c)
    <2>1. c.for = "config access" /\ Continues(c, "config windows", WindowsOf(c), c.keep) /\ WindowsOf(c)[2] = c.sec[2]
      BY <1>4 DEF AccessSaved, WindowsOf
    <2> QED
      BY <2>1, Continued
  <1>5. CASE WindowsSaved(c)
    <2>1. c.for \in {"config windows", "windows"}
          /\ (Continues(c, "windows reload", c.sec, 0) \/ Continues(c, "config reload", c.sec, 0))
      BY <1>5 DEF WindowsSaved
    <2> QED
      BY <2>1, Continued
  <1>6. CASE WindowsFailed(c)
    BY <1>6, Continued DEF WindowsFailed
  <1>7. CASE ModuleReloaded(c)
    BY <1>7, CallEnds DEF ModuleReloaded
  <1>8. CASE WindowsRestored(c)
    BY <1>8, CallEnds DEF WindowsRestored
  <1> QED
    BY <1>1, <1>2, <1>3, <1>4, <1>5, <1>6, <1>7, <1>8 DEF Arrive

\* Every step of the cohort page keeps the invariant.
LEMMA CohortStep == CohortIInv /\ [CohortNext]_cohortVars => CohortIInv'
  <1> SUFFICES ASSUME CohortIInv, [CohortNext]_cohortVars PROVE CohortIInv'
    OBVIOUS
  <1>1. ASSUME UNCHANGED <<calls, saving, savingModuleId>> PROVE CohortIInv'
    BY <1>1 DEF CohortIInv, IsCohortCall, BusyHasCall, ModuleOf
  <1>2. CASE \E s \in Sections : Edit(s)
    BY <1>2, <1>1 DEF Edit
  <1>3. CASE \E k \in Simple : SaveForm(k)
    BY <1>3, FormSent DEF SaveForm
  <1>4. CASE AskStatus \/ CancelStatus
    BY <1>4, <1>1 DEF AskStatus, CancelStatus
  <1>5. CASE ConfirmStatus
    <2>1. PICK v \in confirming :
             \/ UNCHANGED <<calls, saving, savingModuleId>>
             \/ /\ saving' = saving \cup {"status"} /\ UNCHANGED savingModuleId
                /\ Send(Call("save", <<"status", 0>>, v, 0, acts))
      BY <1>5 DEF ConfirmStatus
    <2> QED
      BY <2>1, <1>1, FormSent
  <1>6. CASE RecordingsChanged
    <2> DEFINE c == Call("reload", Nothing, 0, 0, acts)
    <2>1. IsCohortCall(c)
      BY DEF Call, IsCohortCall
    <2>2. calls' = calls \cup {c} /\ UNCHANGED <<saving, savingModuleId>>
      BY <1>6 DEF RecordingsChanged
    <2> HIDE DEF c
    <2> QED
      BY <2>1, <2>2 DEF CohortIInv, IsCohortCall, BusyHasCall, ModuleOf
  <1>7. CASE \E m \in Modules, f \in {"config access", "windows", "assign"} : SaveModule(m, f)
    <2>1. PICK m \in Modules, f \in {"config access", "windows", "assign"} : SaveModule(m, f)
      BY <1>7
    <2>2. PICK what, v, keep :
            savingModuleId' = m /\ UNCHANGED saving /\ Send(Call(f, <<what, m>>, v, keep, acts))
      BY <2>1 DEF SaveModule
    <2>3. f \notin {"save", "reload"}
      BY <2>1
    <2> QED
      BY <2>2, <2>3, ModuleSent
  <1>8. CASE \E c \in calls : Serve(c)
    BY <1>8, CohortServed
  <1>9. CASE \E c \in calls : Arrive(c)
    BY <1>9, CohortAnswered
  <1>10. CASE UNCHANGED cohortVars
    BY <1>10, <1>1 DEF cohortVars
  <1> QED
    BY <1>2, <1>3, <1>4, <1>5, <1>6, <1>7, <1>8, <1>9, <1>10 DEF CohortNext

\* At first no call is under way and no button is busy.
LEMMA CohortStart == CohortInit => CohortIInv
  BY DEF CohortInit, CohortIInv, BusyHasCall

\* No save of the cohort page leaves its button busy.
THEOREM CohortButtons == CohortSpec => []BusyHasCall
  <1>1. CohortIInv => BusyHasCall
    BY DEF CohortIInv
  <1> QED
    BY <1>1, CohortStart, CohortStep, PTL DEF CohortSpec

-----------------------------------------------------------------------------
(***************************************************************************)
(* The grading page (CohortModuleGrading.tsx).                             *)
(***************************************************************************)

Reasons == {"panel", "grid", "all", "student"}
Reloads == [by : [why : Reasons, sub : Submissions \cup {0}], served : BOOLEAN, list : [Submissions -> Grades]]
GradingTypeOK ==
    /\ gradeOf \in [Submissions -> Grades] /\ listGrade \in [Submissions -> Grades]
    /\ selected \in Submissions \cup {0} /\ gridSub \in Submissions \cup {0}
    /\ details \subseteq Submissions /\ gridLoads \subseteq Submissions
    /\ feedback \in Box /\ gridFeedback \in Box
    /\ gradeCalls \subseteq GradeCalls /\ asking \subseteq GradeCalls
    /\ reloads \subseteq Reloads

\* What is in a feedback box was read or typed for the submission beside it.
BoxesBelong ==
    /\ selected # 0 => feedback.of = selected
    /\ gridSub # 0 => gridFeedback.of = gridSub
    /\ \A c \in asking : c.box.of = c.sub
\* A reading of the list after a grade says so, and of which submission.
ReasonsKnown == \A q \in reloads : q.by.why \in {"panel", "grid"} <=> q.by.sub # 0
GradingIInv == GradingTypeOK /\ BoxesBelong /\ ReasonsKnown /\ FeedbackBelongs /\ GradingHasCall

\* A grade given for what is on the screen, or asked about first.
LEMMA GradeGiven ==
    ASSUME GradingIInv, NEW c \in GradeCalls, c.box.of = c.sub, GradeOrAsk(c), UNCHANGED reloads
    PROVE  /\ gradeCalls' \subseteq GradeCalls /\ asking' \subseteq GradeCalls
           /\ FeedbackBelongs' /\ GradingHasCall' /\ \A d \in asking' : d.box.of = d.sub
  BY DEF GradingIInv, GradingTypeOK, BoxesBelong, FeedbackBelongs, GradingHasCall, GradeOrAsk, SendGrade

\* The grade the buttons beside a submission give.
LEMMA PanelGradeType ==
    ASSUME GradingIInv, selected # 0, NEW g \in {"pass", "redo"}
    PROVE  PanelGrade(g) \in GradeCalls /\ PanelGrade(g).box.of = PanelGrade(g).sub
  BY DEF GradingIInv, GradingTypeOK, BoxesBelong, PanelGrade, GradeCalls, Grades

\* The grade the buttons over the grid give.
LEMMA GridGradeType ==
    ASSUME GradingIInv, gridSub # 0, NEW g \in {"pass", "redo"}
    PROVE  GridGrade(g) \in GradeCalls /\ GridGrade(g).box.of = GridGrade(g).sub
  BY DEF GradingIInv, GradingTypeOK, BoxesBelong, GridGrade, GradeCalls, Grades

\* A submission's box as the server has it, and an empty one.
LEMMA ReadBoxType == \A s \in Submissions \cup {0} : [of |-> s, blank |-> s \notin noted] \in Box /\ Blank(s) \in Box /\ Blank(s).of = s
  BY DEF Box, Blank

\* Grades in and out of the server.
LEMMA StoreType ==
    ASSUME GradingTypeOK, NEW c \in GradeCalls, StoreGrade(c) \/ UNCHANGED <<gradeOf, noted>>
    PROVE  gradeOf' \in [Submissions -> Grades]
  BY DEF GradingTypeOK, StoreGrade, GradeCalls

\* A reading that begins.
LEMMA ReloadType ==
    ASSUME GradingTypeOK, NEW why \in Reasons, NEW s \in Submissions \cup {0}
    PROVE  Reload(why, s) \in Reloads /\ Reload(why, s).by.why = why /\ Reload(why, s).by.sub = s
  BY DEF GradingTypeOK, Reload, Reloads

\* The state the page opens in.
LEMMA GradingStarts == GradingInit => GradingIInv
  <1> SUFFICES ASSUME GradingInit PROVE GradingIInv
    OBVIOUS
  <1>1. Blank(0) \in Box
    BY DEF Blank, Box
  <1>2. GradingTypeOK
    BY <1>1 DEF GradingInit, GradingTypeOK, Grades
  <1>3. GradingHasCall
    BY DEF GradingInit, GradingHasCall
  <1> QED
    BY <1>2, <1>3 DEF GradingInit, GradingIInv, BoxesBelong, ReasonsKnown, FeedbackBelongs

\* What the staff do.
LEMMA ViewStep ==
    ASSUME GradingIInv,
           \/ \E s \in Submissions : SelectSubmission(s) \/ SubmissionShown(s) \/ OpenGridCell(s) \/ GridCellShown(s)
           \/ \E mode \in Views : SwitchTo(mode)
           \/ \E filter \in {"ungraded", "redo", "all"} : OpenQueue(filter)
           \/ CloseGridModal \/ TypeFeedback
    PROVE  GradingIInv'
  <1> USE GradingAssumption DEF GradingIInv
  <1>0. UNCHANGED <<gradeOf, listGrade, gradeCalls, asking, grading, reloads>>
    BY Zenon DEF SelectSubmission, SubmissionShown, OpenGridCell, GridCellShown, SwitchTo, OpenQueue, CloseGridModal, TypeFeedback
  <1>a. FeedbackBelongs' /\ GradingHasCall' /\ ReasonsKnown'
    BY <1>0 DEF FeedbackBelongs, GradingHasCall, ReasonsKnown
  <1>b. 0 \notin Submissions
    OBVIOUS
  <1>1. ASSUME NEW s \in Submissions, SelectSubmission(s) PROVE GradingIInv'
    BY ZenonT(40), <1>0, <1>a, <1>1 DEF SelectSubmission, GradingTypeOK, BoxesBelong, Filtered
  <1>2. ASSUME NEW s \in Submissions, SubmissionShown(s) PROVE GradingIInv'
    <2>1. selected' = s /\ feedback' = [of |-> s, blank |-> s \notin noted] /\ details' = details \ {s} /\ UNCHANGED <<gridSub, gridLoads, gridFeedback>>
      BY Zenon, <1>2 DEF SubmissionShown
    <2>2. feedback' \in Box /\ feedback'.of = s
      BY Zenon, <2>1, ReadBoxType
    <2> QED
      BY Zenon, <1>0, <1>a, <2>1, <2>2 DEF GradingTypeOK, BoxesBelong
  <1>3. ASSUME NEW s \in Submissions, OpenGridCell(s) PROVE GradingIInv'
    BY <1>0, <1>a, <1>3 DEF OpenGridCell, GradingTypeOK, BoxesBelong
  <1>4. ASSUME NEW s \in Submissions, GridCellShown(s) PROVE GradingIInv'
    <2>1. gridSub' = s /\ gridFeedback' = [of |-> s, blank |-> s \notin noted] /\ gridLoads' = gridLoads \ {s} /\ UNCHANGED <<selected, details, feedback>>
      BY Zenon, <1>4 DEF GridCellShown
    <2>2. gridFeedback' \in Box /\ gridFeedback'.of = s
      BY Zenon, <2>1, ReadBoxType
    <2> QED
      BY Zenon, <1>0, <1>a, <2>1, <2>2 DEF GradingTypeOK, BoxesBelong
  <1>5. ASSUME NEW mode \in Views, SwitchTo(mode) PROVE GradingIInv'
    BY Zenon, <1>0, <1>a, <1>5 DEF SwitchTo, GradingTypeOK, BoxesBelong
  <1>6. ASSUME NEW filter \in {"ungraded", "redo", "all"}, OpenQueue(filter) PROVE GradingIInv'
    <2> DEFINE first == {s \in Submissions : filter = "ungraded" /\ listGrade[s] = "none"}
    <2>0. /\ UNCHANGED <<feedback, gridSub, gridFeedback, gridLoads>>
          /\ IF first = {} THEN selected' = 0 /\ UNCHANGED <<details, loadingDetail>>
             ELSE (\E s \in first : details' = details \cup {s}) /\ loadingDetail' = TRUE /\ UNCHANGED selected
      BY <1>6 DEF OpenQueue
    <2>1. (selected' = 0 \/ selected' = selected) /\ details' \subseteq Submissions /\ UNCHANGED <<feedback, gridSub, gridFeedback, gridLoads>>
      <3>1. CASE first = {}
        BY Zenon, <2>0, <3>1 DEF GradingTypeOK
      <3>2. CASE first # {}
        <4>1. PICK s \in first : details' = details \cup {s}
          BY <2>0, <3>2
        <4>2. s \in Submissions /\ selected' = selected
          BY <2>0, <3>2
        <4> HIDE DEF first
        <4> QED
          BY <2>0, <4>1, <4>2 DEF GradingTypeOK
      <3> QED
        BY <3>1, <3>2
    <2> QED
      BY Zenon, <1>0, <1>a, <2>1 DEF GradingTypeOK, BoxesBelong
  <1>7. CASE CloseGridModal
    <2>1. gridSub' = 0 /\ gridFeedback' \in Box /\ UNCHANGED <<selected, details, feedback, gridLoads>>
      BY Zenon, <1>7, ReadBoxType DEF CloseGridModal
    <2> QED
      BY <1>0, <1>a, <2>1 DEF GradingTypeOK, BoxesBelong
  <1>8. CASE TypeFeedback
    <2>1. UNCHANGED <<selected, details, gridSub, gridLoads>>
      BY <1>8 DEF TypeFeedback
    <2>2. \/ feedback' = [of |-> selected, blank |-> FALSE] /\ UNCHANGED gridFeedback
          \/ gridFeedback' = [of |-> gridSub, blank |-> FALSE] /\ UNCHANGED feedback
      BY <1>8 DEF TypeFeedback
    <2>3. feedback' \in Box /\ gridFeedback' \in Box
      <3>1. [of |-> selected, blank |-> FALSE] \in Box /\ [of |-> gridSub, blank |-> FALSE] \in Box
        BY DEF GradingTypeOK, Box
      <3> QED
        BY Zenon, <2>2, <3>1 DEF GradingTypeOK
    <2>4. \/ feedback'.of = selected /\ gridFeedback' = gridFeedback
          \/ gridFeedback'.of = gridSub /\ feedback' = feedback
      BY <2>2
    <2>5. BoxesBelong'
      BY <1>0, <2>1, <2>4 DEF BoxesBelong
    <2> QED
      BY Zenon, <1>0, <1>a, <2>1, <2>3, <2>5 DEF GradingTypeOK
  <1> QED
    BY <1>1, <1>2, <1>3, <1>4, <1>5, <1>6, <1>7, <1>8

\* Grades that are given.
LEMMA GradeStep ==
    ASSUME GradingIInv,
           (\E g \in {"pass", "redo"} : ClickGrade(g) \/ PressGrade(g)) \/ \E yes \in BOOLEAN : AnswerQuestion(yes)
    PROVE  GradingIInv'
  <1>0. UNCHANGED <<gradeOf, listGrade, selected, gridSub, details, gridLoads, feedback, gridFeedback, reloads>>
    BY DEF ClickGrade, PressGrade, AnswerQuestion
  <1>1. ASSUME NEW g \in {"pass", "redo"}, ClickGrade(g) \/ PressGrade(g) PROVE GradingIInv'
    <2>1. \/ selected # 0 /\ GradeOrAsk(PanelGrade(g))
          \/ gridSub # 0 /\ GradeOrAsk(GridGrade(g))
      BY <1>1 DEF ClickGrade, PressGrade
    <2>2. /\ gradeCalls' \subseteq GradeCalls /\ asking' \subseteq GradeCalls
          /\ FeedbackBelongs' /\ GradingHasCall' /\ \A d \in asking' : d.box.of = d.sub
      BY Zenon, <1>0, <2>1, GradeGiven, PanelGradeType, GridGradeType
    <2> QED
      BY Zenon, <1>0, <2>2 DEF GradingIInv, GradingTypeOK, BoxesBelong, ReasonsKnown
  <1>2. ASSUME NEW yes \in BOOLEAN, AnswerQuestion(yes) PROVE GradingIInv'
    <2>1. PICK c \in asking : IF yes THEN SendGrade(c) ELSE UNCHANGED <<gradeCalls, grading, advanceFrom>>
      BY <1>2 DEF AnswerQuestion
    <2>2. asking' = {}
      BY <1>2 DEF AnswerQuestion
    <2> QED
      BY <1>0, <2>1, <2>2 DEF SendGrade, GradingIInv, GradingTypeOK, BoxesBelong, ReasonsKnown, FeedbackBelongs, GradingHasCall
  <1> QED
    BY <1>1, <1>2

\* A sync, and the server's reading of the list.
LEMMA ListStep ==
    ASSUME GradingIInv,
           (\E who \in {"all", "student"} : SyncGithub(who)) \/ \E q \in reloads : ListServed(q)
    PROVE  GradingIInv'
  <1> USE DEF GradingIInv
  <1>0. UNCHANGED <<gradeOf, listGrade, selected, gridSub, details, gridLoads, feedback, gridFeedback, gradeCalls, asking, grading>>
    BY Zenon DEF SyncGithub, ListServed
  <1>1. ASSUME NEW who \in {"all", "student"}, SyncGithub(who) PROVE GradingIInv'
    <2> DEFINE r == Reload(who, 0)
    <2>1. reloads' = reloads \cup {r}
      BY <1>1 DEF SyncGithub
    <2>2. r \in Reloads /\ r.by.why = who /\ r.by.sub = 0
      BY ReloadType DEF Reasons
    <2> HIDE DEF r
    <2> QED
      BY <1>0, <2>1, <2>2 DEF GradingTypeOK, BoxesBelong, ReasonsKnown, FeedbackBelongs, GradingHasCall
  <1>2. ASSUME NEW q \in reloads, ListServed(q) PROVE GradingIInv'
    <2> DEFINE r == [q EXCEPT !.served = TRUE, !.list = gradeOf]
    <2>1. reloads' = (reloads \ {q}) \cup {r}
      BY Zenon, <1>2 DEF ListServed
    <2>2. r \in Reloads /\ r.by = q.by
      BY ZenonT(40) DEF GradingTypeOK, Reloads
    <2> HIDE DEF r
    <2> QED
      BY Zenon, <1>0, <2>1, <2>2 DEF GradingTypeOK, BoxesBelong, ReasonsKnown, FeedbackBelongs, GradingHasCall
  <1> QED
    BY <1>1, <1>2

\* The answers to grades and to readings of the list.
LEMMA SettleStep ==
    ASSUME GradingIInv,
           \/ \E c \in gradeCalls : GradeSaved(c) \/ GradeFails(c)
           \/ \E q \in reloads : ListReloaded(q) \/ ListReloadFails(q)
    PROVE  GradingIInv'
  <1> USE GradingAssumption DEF GradingIInv
  <1>1. ASSUME NEW c \in gradeCalls, GradeSaved(c) PROVE GradingIInv'
    <2> DEFINE r == Reload(c.from, c.sub)
    <2>0. c \in GradeCalls /\ c.sub \in Submissions /\ c.sub # 0 /\ c.from \in {"panel", "grid"}
      BY DEF GradingTypeOK, GradeCalls
    <2>1. reloads' = reloads \cup {r} /\ gradeCalls' = gradeCalls \ {c} /\ UNCHANGED <<listGrade, selected, details, gridLoads, asking>>
      BY <1>1 DEF GradeSaved
    <2>2. r \in Reloads /\ r.by.why = c.from /\ r.by.sub = c.sub
      <3>1. c.from \in Reasons /\ c.sub \in Submissions \cup {0}
        BY Zenon, <2>0 DEF Reasons
      <3> QED
        BY Zenon, <3>1, ReloadType
    <2> HIDE DEF r
    <2>3. gradeOf' \in [Submissions -> Grades]
      BY Zenon, <1>1, <2>0, StoreType DEF GradeSaved
    <2>4. \/ feedback' = Blank(selected) /\ UNCHANGED <<gridSub, gridFeedback>>
          \/ gridSub' = 0 /\ gridFeedback' = Blank(0) /\ UNCHANGED feedback
      BY <1>1 DEF GradeSaved
    <2>5. feedback' \in Box /\ gridFeedback' \in Box /\ gridSub' \in Submissions \cup {0}
      BY Zenon, <2>4, ReadBoxType DEF GradingTypeOK
    <2>6. BoxesBelong'
      BY Zenon, <2>1, <2>4, ReadBoxType DEF GradingTypeOK, BoxesBelong
    <2>7. GradingTypeOK'
      BY Zenon, <2>1, <2>2, <2>3, <2>5 DEF GradingTypeOK
    <2>8. ReasonsKnown' /\ FeedbackBelongs' /\ GradingHasCall'
      BY Zenon, <2>0, <2>1, <2>2 DEF ReasonsKnown, FeedbackBelongs, GradingHasCall
    <2> QED
      BY <2>6, <2>7, <2>8
  <1>2. ASSUME NEW c \in gradeCalls, GradeFails(c) PROVE GradingIInv'
    <2>1. gradeOf' \in [Submissions -> Grades]
      BY <1>2, StoreType DEF GradeFails, GradingTypeOK
    <2>2. /\ gradeCalls' = gradeCalls \ {c} /\ grading' = FALSE
          /\ UNCHANGED <<listGrade, selected, details, gridLoads, asking, feedback, gridSub, gridFeedback, reloads>>
      BY <1>2 DEF GradeFails
    <2>3. GradingHasCall'
      BY ZenonT(40), <2>2 DEF GradingHasCall
    <2> QED
      BY Zenon, <2>1, <2>2, <2>3 DEF GradingTypeOK, BoxesBelong, ReasonsKnown, FeedbackBelongs
  <1>3. ASSUME NEW q \in reloads, ListReloaded(q) \/ ListReloadFails(q) PROVE GradingIInv'
    <2>0. q \in Reloads
      BY Zenon DEF GradingTypeOK
    <2>1. /\ reloads' = reloads \ {q} /\ Returned(q.by.why)
          /\ UNCHANGED <<gradeOf, feedback, gridSub, gridFeedback, gridLoads, asking, gradeCalls>>
      BY Zenon, <1>3 DEF ListReloaded, ListReloadFails
    <2>2. listGrade' \in [Submissions -> Grades]
      BY <1>3, <2>0 DEF ListReloaded, ListReloadFails, Reloads, GradingTypeOK
    <2>3. (selected' = 0 \/ selected' = selected) /\ details' \subseteq Submissions
      BY ZenonT(40), <1>3 DEF ListReloaded, ListReloadFails, Advance, Ungraded, Filtered, GradingTypeOK
    <2>4. GradingTypeOK' /\ BoxesBelong' /\ ReasonsKnown' /\ FeedbackBelongs'
      BY Zenon, <2>1, <2>2, <2>3 DEF GradingTypeOK, BoxesBelong, ReasonsKnown, FeedbackBelongs
    <2>5. CASE q.by.why \in {"panel", "grid"}
      <3>1. grading' = FALSE
        BY Zenon, <2>1, <2>5 DEF Returned
      <3> QED
        BY Zenon, <2>4, <3>1 DEF GradingHasCall
    <2>6. CASE q.by.why \notin {"panel", "grid"}
      <3>1. grading' = grading /\ q.by.sub = 0
        BY Zenon, <2>1, <2>6 DEF Returned, ReasonsKnown
      <3> QED
        BY Zenon, <2>1, <2>4, <3>1 DEF GradingHasCall
    <2> QED
      BY Zenon, <2>5, <2>6
  <1> QED
    BY <1>1, <1>2, <1>3

\* Every step keeps the invariant.
LEMMA GradingNextStep == GradingIInv /\ [GradingNext]_gradingVars => GradingIInv'
  <1> SUFFICES ASSUME GradingIInv, [GradingNext]_gradingVars PROVE GradingIInv'
    OBVIOUS
  <1>1. CASE UNCHANGED gradingVars
    BY Zenon, <1>1 DEF gradingVars, GradingIInv, GradingTypeOK, BoxesBelong, ReasonsKnown, FeedbackBelongs, GradingHasCall
  <1> QED
    BY Zenon, <1>1, ViewStep, GradeStep, ListStep, SettleStep DEF GradingNext, GradingSettles

\* The invariant holds in every behaviour of the grading page.
THEOREM GradingInvariant == GradingSpec => []GradingIInv
  BY GradingStarts, GradingNextStep, PTL DEF GradingSpec

(***************************************************************************)
(* The feedback sent with a grade was read or typed for the submission it  *)
(* grades, for any number of submissions and in every order of clicks,     *)
(* keys, questions and late answers (selectSubmission, handleGrade,        *)
(* handleGridGrade of CohortModuleGrading.tsx).                            *)
(***************************************************************************)
THEOREM FeedbackIsNeverMixedUp == GradingSpec => []FeedbackBelongs
  <1>1. GradingIInv => FeedbackBelongs
    BY DEF GradingIInv
  <1> QED
    BY <1>1, GradingInvariant, PTL

-----------------------------------------------------------------------------
(***************************************************************************)
(* A student's page (StudentDetail.tsx).                                   *)
(***************************************************************************)

Row == [id : Nat, open : BOOLEAN]
Rows == [mods : [Assignable -> Row], lesson : Row]
AccessSteps == {"write", "written", "refused", "read", "fresh", "stale"}
AccessCalls == [n : Nat, op : Operations, on : Assignable \cup {1}, row : Nat, open : BOOLEAN, step : AccessSteps, got : Rows]
AccessTypeOK ==
    /\ rows \in Rows /\ data \in Rows /\ rowIds \in Nat /\ accessActs \in Nat
    /\ moduleForms \in [Assignable -> BOOLEAN] /\ lessonForm \in Row
    /\ DOMAIN busy = Operations /\ busy = [op \in Operations |-> busy[op]]
    /\ accessCalls \subseteq AccessCalls

\* A call about an assignment names its module, and a save names the row it saw.
CallsNameRows ==
    \A c \in accessCalls : /\ c.op \in {"save", "create", "remove"} => c.on \in Assignable
                           /\ c.op = "save" => c.row # 0
AccessIInv == AccessTypeOK /\ CallsNameRows /\ FlagHasCall

\* An operation that begins.
LEMMA BeginStep ==
    ASSUME AccessIInv, NEW op \in Operations, NEW on \in Assignable \cup {1}, NEW row \in Nat, NEW open \in BOOLEAN,
           op \in {"save", "create", "remove"} => on \in Assignable, op = "save" => row # 0,
           Begin(op, on, row, open)
    PROVE  AccessIInv' /\ rows' = rows
  <1> DEFINE c == [n |-> accessActs', op |-> op, on |-> on, row |-> row, open |-> open, step |-> "write", got |-> data]
  <1>1. /\ accessActs' = accessActs + 1 /\ busy' = [busy EXCEPT ![op] = on] /\ accessCalls' = accessCalls \cup {c}
        /\ UNCHANGED <<data, moduleForms, lessonForm, rows, rowIds>>
    BY DEF Begin, Spend, accessForms
  <1>2. c \in AccessCalls /\ c.op = op /\ c.on = on /\ c.row = row
    BY <1>1 DEF AccessCalls, AccessIInv, AccessTypeOK, AccessSteps
  <1> HIDE DEF c
  <1>3. AccessTypeOK'
    BY <1>1, <1>2 DEF AccessIInv, AccessTypeOK
  <1>4. CallsNameRows'
    BY <1>1, <1>2 DEF AccessIInv, CallsNameRows
  <1>5. FlagHasCall'
    BY <1>1, <1>2 DEF AccessIInv, FlagHasCall, AccessTypeOK
  <1> QED
    BY Zenon, <1>1, <1>3, <1>4, <1>5 DEF AccessIInv

\* A call that moves on.
LEMMA AccessCallMoved ==
    ASSUME AccessIInv, NEW c \in accessCalls, NEW d \in AccessCalls, d.op = c.op, d.on = c.on, d.row = c.row,
           accessCalls' = (accessCalls \ {c}) \cup {d}, UNCHANGED busy
    PROVE  accessCalls' \subseteq AccessCalls /\ CallsNameRows' /\ FlagHasCall'
  BY DEF AccessIInv, AccessTypeOK, CallsNameRows, FlagHasCall

\* A call that ends, and its flag with it.
LEMMA AccessCallEnded ==
    ASSUME AccessIInv, NEW c \in accessCalls, accessCalls' = accessCalls \ {c}, busy' = [busy EXCEPT ![c.op] = 0]
    PROVE  accessCalls' \subseteq AccessCalls /\ CallsNameRows' /\ FlagHasCall' /\ busy' = [op \in Operations |-> busy'[op]] /\ DOMAIN busy' = Operations
  BY DEF AccessIInv, AccessTypeOK, CallsNameRows, FlagHasCall, AccessCalls

\* What the staff do begins an operation or changes a form.
LEMMA StaffStep ==
    ASSUME AccessIInv,
           \/ \E m \in Assignable : EditModule(m) \/ SaveAssignment(m) \/ CreateModuleAssignment(m) \/ DeleteModuleAssignment(m)
           \/ EditLesson \/ SaveLessonAssignment \/ OpenUser \/ SaveUser \/ RestartEnrollment
    PROVE  AccessIInv' /\ rows' = rows
  <1>0. data \in Rows /\ moduleForms \in [Assignable -> BOOLEAN] /\ lessonForm \in Row /\ accessActs \in Nat
    BY DEF AccessIInv, AccessTypeOK
  <1>1. ASSUME NEW m \in Assignable, EditModule(m) PROVE AccessIInv' /\ rows' = rows
    BY <1>1 DEF EditModule, Spend, AccessIInv, AccessTypeOK, CallsNameRows, FlagHasCall
  <1>2. ASSUME NEW m \in Assignable, SaveAssignment(m) PROVE AccessIInv' /\ rows' = rows
    <2>1. data.mods[m].id \in Nat \ {0} /\ moduleForms[m] \in BOOLEAN /\ "save" \in Operations
      BY <1>0, <1>2 DEF SaveAssignment, Assigned, Rows, Row, Operations
    <2> QED
      BY Zenon, <1>2, <2>1, BeginStep DEF SaveAssignment
  <1>3. ASSUME NEW m \in Assignable, CreateModuleAssignment(m) PROVE AccessIInv' /\ rows' = rows
    BY Zenon, <1>3, BeginStep DEF CreateModuleAssignment, Operations
  <1>4. ASSUME NEW m \in Assignable, DeleteModuleAssignment(m) PROVE AccessIInv' /\ rows' = rows
    <2>1. data.mods[m].id \in Nat /\ "remove" \in Operations
      BY <1>0 DEF Rows, Row, Operations
    <2> QED
      BY Zenon, <1>4, <2>1, BeginStep DEF DeleteModuleAssignment
  <1>5. CASE EditLesson
    <2>1. lessonForm' \in Row
      BY Zenon, <1>0, <1>5 DEF EditLesson, Row
    <2> QED
      BY <1>5, <2>1 DEF EditLesson, Spend, AccessIInv, AccessTypeOK, CallsNameRows, FlagHasCall
  <1>6. CASE SaveLessonAssignment
    <2>1. lessonForm.id \in Nat /\ lessonForm.open \in BOOLEAN /\ "lesson" \in Operations
      BY <1>0 DEF Row, Operations
    <2> QED
      BY <1>6, <2>1, BeginStep DEF SaveLessonAssignment
  <1>7. CASE OpenUser
    BY <1>7 DEF OpenUser, Spend, accessForms, AccessIInv, AccessTypeOK, CallsNameRows, FlagHasCall
  <1>8. CASE SaveUser
    <2>1. Begin("user", 1, 0, FALSE)
      BY Zenon, <1>8 DEF SaveUser
    <2>2. "user" \in Operations /\ "user" \notin {"save", "create", "remove"} /\ FALSE \in BOOLEAN
      BY DEF Operations
    <2> QED
      BY Zenon, <2>1, <2>2, BeginStep
  <1>9. CASE RestartEnrollment
    <2>1. Begin("restart", 1, 0, FALSE)
      BY Zenon, <1>9 DEF RestartEnrollment
    <2>2. "restart" \in Operations /\ "restart" \notin {"save", "create", "remove"} /\ FALSE \in BOOLEAN
      BY DEF Operations
    <2> QED
      BY Zenon, <2>1, <2>2, BeginStep
  <1> QED
    BY <1>1, <1>2, <1>3, <1>4, <1>5, <1>6, <1>7, <1>8, <1>9

\* A row that a write leaves.
LEMMA NewRowType ==
    ASSUME NEW c \in AccessCalls, NEW old \in Row, rowIds \in Nat
    PROVE  NewRow(c, old) \in Row /\ (old.id # 0 => NewRow(c, old).id = old.id)
  BY DEF NewRow, Row, AccessCalls

\* The server's writes: an assignment that was not there comes from a create.
LEMMA WriteStep ==
    ASSUME AccessIInv, NEW c \in accessCalls, WriteServed(c)
    PROVE  /\ AccessIInv'
           /\ \A m \in Assignable : rows.mods[m].id = 0 /\ rows'.mods[m].id # 0 => c.op = "create" /\ c.on = m
  <1> DEFINE d == [c EXCEPT !.step = IF Found(c) THEN "written" ELSE "refused"]
  <1>0. c \in AccessCalls /\ rows \in Rows /\ rowIds \in Nat /\ c.op \in Operations
    BY DEF AccessIInv, AccessTypeOK, AccessCalls
  <1>1. accessCalls' = (accessCalls \ {c}) \cup {d} /\ UNCHANGED <<data, moduleForms, lessonForm, busy, accessActs>> /\ rowIds' \in Nat
    BY <1>0 DEF WriteServed, accessForms
  <1>2. d \in AccessCalls /\ d.op = c.op /\ d.on = c.on /\ d.row = c.row
    BY <1>0 DEF AccessCalls, AccessSteps
  <1> HIDE DEF d
  <1>3. accessCalls' \subseteq AccessCalls /\ CallsNameRows' /\ FlagHasCall'
    BY <1>1, <1>2, AccessCallMoved
  <1>4. /\ rows' \in Rows
        /\ \A m \in Assignable : rows.mods[m].id = 0 /\ rows'.mods[m].id # 0 => c.op = "create" /\ c.on = m
    <2>1. CASE ~Found(c)
      BY <1>0, <2>1 DEF WriteServed
    <2>2. CASE Found(c) /\ c.op \in {"save", "create"}
      <3>0. c.on \in Assignable /\ (c.op = "save" => c.row # 0)
        BY <2>2 DEF AccessIInv, CallsNameRows
      <3>1. rows' = [rows EXCEPT !.mods[c.on] = NewRow(c, rows.mods[c.on])]
        BY <2>2 DEF WriteServed, After
      <3>2. rows.mods[c.on] \in Row
        BY Zenon, <1>0, <3>0 DEF Rows
      <3>3. NewRow(c, rows.mods[c.on]) \in Row /\ (rows.mods[c.on].id # 0 => NewRow(c, rows.mods[c.on]).id = rows.mods[c.on].id)
        BY <1>0, <3>2, NewRowType
      <3>4. c.op = "save" => rows.mods[c.on].id # 0
        BY <2>2, <3>0 DEF Found
      <3>5. rows' \in Rows /\ \A m \in Assignable : rows'.mods[m] = IF m = c.on THEN NewRow(c, rows.mods[c.on]) ELSE rows.mods[m]
        BY <1>0, <3>0, <3>1, <3>3 DEF Rows
      <3> QED
        BY Zenon, <2>2, <3>3, <3>4, <3>5
    <2>3. CASE Found(c) /\ c.op = "remove"
      <3>0. c.on \in Assignable
        BY <2>3 DEF AccessIInv, CallsNameRows
      <3>1. rows' = [rows EXCEPT !.mods[c.on] = NoRow] /\ NoRow \in Row /\ NoRow.id = 0
        BY <2>3 DEF WriteServed, After, NoRow, Row
      <3> QED
        BY <1>0, <3>0, <3>1 DEF Rows
    <2>4. CASE Found(c) /\ c.op = "lesson"
      <3>1. rows' = [rows EXCEPT !.lesson = NewRow(c, rows.lesson)]
        BY <2>4 DEF WriteServed, After
      <3>2. rows.lesson \in Row
        BY Zenon, <1>0 DEF Rows
      <3>3. NewRow(c, rows.lesson) \in Row
        BY <1>0, <3>2, NewRowType
      <3> QED
        BY <1>0, <3>1, <3>3 DEF Rows
    <2>5. CASE Found(c) /\ c.op = "restart"
      <3>1. rows' = [rows EXCEPT !.lesson = NoRow] /\ NoRow \in Row
        BY <2>5 DEF WriteServed, After, NoRow, Row
      <3> QED
        BY <1>0, <3>1 DEF Rows
    <2>6. CASE Found(c) /\ c.op = "user"
      BY <1>0, <2>6 DEF WriteServed, After
    <2> QED
      BY Zenon, <1>0, <2>1, <2>2, <2>3, <2>4, <2>5, <2>6 DEF Operations
  <1> QED
    BY <1>1, <1>3, <1>4 DEF AccessIInv, AccessTypeOK

\* The other steps of a call leave the rows alone.
LEMMA AnswerStep ==
    ASSUME AccessIInv, NEW c \in accessCalls,
           ReadServed(c) \/ WriteRefused(c) \/ WriteAnswered(c) \/ Refreshed(c) \/ AccessFails(c)
    PROVE  AccessIInv' /\ rows' = rows
  <1>0. c \in AccessCalls /\ rows \in Rows /\ data \in Rows /\ c.op \in Operations
    BY DEF AccessIInv, AccessTypeOK, AccessCalls
  <1>1. CASE ReadServed(c)
    <2> DEFINE d == [c EXCEPT !.step = "fresh", !.got = rows]
    <2>1. accessCalls' = (accessCalls \ {c}) \cup {d} /\ UNCHANGED <<data, moduleForms, lessonForm, busy, rows, rowIds, accessActs>>
      BY <1>1 DEF ReadServed, accessForms
    <2>2. d \in AccessCalls /\ d.op = c.op /\ d.on = c.on /\ d.row = c.row
      BY Zenon, <1>0 DEF AccessCalls, AccessSteps
    <2> HIDE DEF d
    <2> QED
      BY <2>1, <2>2, AccessCallMoved DEF AccessIInv, AccessTypeOK
  <1>2. CASE WriteRefused(c)
    BY <1>2, AccessCallEnded DEF WriteRefused, accessForms, AccessIInv, AccessTypeOK
  <1>3. CASE WriteAnswered(c)
    <2> DEFINE d == [c EXCEPT !.step = "read"]
    <2>1. accessCalls' = (accessCalls \ {c}) \cup {d} /\ UNCHANGED <<moduleForms, lessonForm, busy, rows, rowIds, accessActs>>
      BY <1>3 DEF WriteAnswered, accessForms
    <2>2. d \in AccessCalls /\ d.op = c.op /\ d.on = c.on /\ d.row = c.row
      BY <1>0 DEF AccessCalls, AccessSteps
    <2> HIDE DEF d
    <2>3. data' \in Rows
      <3>1. CASE c.op = "save" /\ data.mods[c.on].id = c.row
        <4>1. c.on \in Assignable /\ c.open \in BOOLEAN
          BY Zenon, <1>0, <3>1 DEF AccessIInv, CallsNameRows, AccessCalls
        <4>2. data' = [data EXCEPT !.mods[c.on].open = c.open]
          BY <1>3, <3>1 DEF WriteAnswered
        <4> QED
          BY Zenon, <1>0, <4>1, <4>2 DEF Rows, Row
      <3>2. CASE ~(c.op = "save" /\ data.mods[c.on].id = c.row)
        BY <1>0, <1>3, <3>2 DEF WriteAnswered
      <3> QED
        BY Zenon, <3>1, <3>2
    <2> QED
      BY <2>1, <2>2, <2>3, AccessCallMoved DEF AccessIInv, AccessTypeOK
  <1>4. CASE Refreshed(c)
    <2>1. accessCalls' = accessCalls \ {c} /\ busy' = [busy EXCEPT ![c.op] = 0] /\ UNCHANGED <<rows, rowIds, accessActs>>
      BY <1>4 DEF Refreshed
    <2>2. c.got \in Rows
      BY Zenon, <1>0 DEF AccessCalls
    <2>3. data' \in Rows /\ moduleForms' \in [Assignable -> BOOLEAN] /\ lessonForm' \in Row
      BY <1>4, <2>2 DEF Refreshed, Rows, Row, AccessIInv, AccessTypeOK
    <2> QED
      BY Zenon, <2>1, <2>3, AccessCallEnded DEF AccessIInv, AccessTypeOK
  <1>5. CASE AccessFails(c)
    <2> DEFINE d == [c EXCEPT !.step = IF c.step = "read" THEN "stale" ELSE "refused"]
    <2>1. accessCalls' = (accessCalls \ {c}) \cup {d} /\ UNCHANGED <<data, moduleForms, lessonForm, busy, rows, rowIds>> /\ accessActs' = accessActs + 1
      BY <1>5 DEF AccessFails, accessForms, Spend
    <2>2. d \in AccessCalls /\ d.op = c.op /\ d.on = c.on /\ d.row = c.row
      BY <1>0 DEF AccessCalls, AccessSteps
    <2> HIDE DEF d
    <2> QED
      BY <2>1, <2>2, AccessCallMoved DEF AccessIInv, AccessTypeOK
  <1> QED
    BY <1>1, <1>2, <1>3, <1>4, <1>5

\* Every step keeps the invariant, and brings an assignment back only by a create.
LEMMA AccessNextStep ==
    ASSUME AccessIInv, [AccessNext]_accessVars
    PROVE  /\ AccessIInv'
           /\ \A m \in Assignable : rows.mods[m].id = 0 /\ rows'.mods[m].id # 0
                                      => \E c \in accessCalls : c.op = "create" /\ c.on = m
  <1>1. CASE UNCHANGED accessVars
    BY <1>1 DEF accessVars, accessForms, AccessIInv, AccessTypeOK, CallsNameRows, FlagHasCall
  <1> QED
    BY Zenon, <1>1, StaffStep, WriteStep, AnswerStep DEF AccessNext, AccessStep

\* The state the page opens in.
LEMMA AccessStarts == AccessInit => AccessIInv
  <1> SUFFICES ASSUME AccessInit PROVE AccessIInv
    OBVIOUS
  <1>1. rows \in Rows
    <2>1. PICK l \in {0, 1} : rows = [mods |-> [m \in Assignable |-> NoRow], lesson |-> [id |-> l, open |-> l = 1]]
      BY Zenon DEF AccessInit
    <2>2. NoRow \in Row /\ [id |-> l, open |-> l = 1] \in Row
      <3>1. 0 \in Nat /\ l \in Nat
        OBVIOUS
      <3> QED
        BY Zenon, <3>1 DEF Row, NoRow
    <2> QED
      BY Zenon, <2>1, <2>2 DEF Rows
  <1>2. data \in Rows /\ lessonForm \in Row
    BY <1>1 DEF AccessInit, Rows
  <1>3. AccessTypeOK
    BY <1>1, <1>2 DEF AccessInit, AccessTypeOK
  <1> QED
    BY Zenon, <1>3 DEF AccessIInv, AccessInit, CallsNameRows, FlagHasCall

\* The invariant holds in every behaviour of the student's page.
THEOREM AccessInvariant == AccessSpec => []AccessIInv
  <1>1. AccessIInv /\ [AccessNext]_accessVars => AccessIInv'
    BY AccessNextStep
  <1> QED
    BY <1>1, AccessStarts, PTL DEF AccessSpec

(***************************************************************************)
(* A module that was taken from the student comes back only by assigning   *)
(* it again, for any set of modules and any overlap of saves, removals and *)
(* refreshes (saveAssignment, deleteModuleAssignment of StudentDetail.tsx; *)
(* the server finds a row by its number).                                  *)
(***************************************************************************)
THEOREM RemovalsAreFinal == AccessSpec => RemovedStaysRemoved
  <1>1. AccessIInv /\ [AccessNext]_accessVars
          => [\A m \in Assignable : rows.mods[m].id = 0 /\ rows'.mods[m].id # 0
                                      => \E c \in accessCalls : c.op = "create" /\ c.on = m]_accessVars
    BY AccessNextStep
  <1> QED
    BY <1>1, AccessInvariant, PTL DEF AccessSpec, RemovedStaysRemoved

-----------------------------------------------------------------------------
(***************************************************************************)
(* The announcements (Announcements.tsx).                                  *)
(***************************************************************************)

\* A handler under way has its fields; one that loads for itself does not run
\* in the background, and only opening and marking never hide the page.
IsFeedRequest(r) ==
    r \in [n : {r.n}, kind : {r.kind}, pc : {"write", "list", "listed"}, q : {r.q}, bg : BOOLEAN, id : {r.id}, answer : {r.answer}]
FeedIInv == spinner \in BOOLEAN /\ (\A r \in feedRequests : IsFeedRequest(r)) /\ SpinnerHasLoad

\* The page loads once more: that load justifies the spinner.
LEMMA FeedNavigates ==
    ASSUME FeedIInv, NEW q, Navigate(q)
    PROVE  FeedIInv'
  <1> DEFINE r == FeedRequest("load", "list", q, FALSE, 0)
  <1>1. IsFeedRequest(r) /\ r.pc = "list" /\ r.bg = FALSE
    BY DEF FeedRequest, IsFeedRequest
  <1>2. feedRequests' = feedRequests \cup {r}
    BY DEF Navigate
  <1>3. spinner' = TRUE
    BY DEF Navigate
  <1> HIDE DEF r
  <1>4. (\A x \in feedRequests : IsFeedRequest(x))'
    BY <1>1, <1>2 DEF FeedIInv, IsFeedRequest
  <1>5. SpinnerHasLoad'
    BY <1>1, <1>2 DEF SpinnerHasLoad
  <1> QED
    BY Zenon, <1>3, <1>4, <1>5 DEF FeedIInv

\* A handler that writes first does not touch the spinner.
LEMMA FeedCalls ==
    ASSUME FeedIInv, NEW kind, NEW q, NEW bg \in BOOLEAN, NEW id, UNCHANGED spinner,
           feedRequests' = feedRequests \cup {FeedRequest(kind, "write", q, bg, id)}
    PROVE  FeedIInv'
  <1> DEFINE r == FeedRequest(kind, "write", q, bg, id)
  <1>1. IsFeedRequest(r)
    BY DEF FeedRequest, IsFeedRequest
  <1> HIDE DEF r
  <1>2. (\A x \in feedRequests : IsFeedRequest(x))'
    BY <1>1 DEF FeedIInv, IsFeedRequest, r
  <1>3. SpinnerHasLoad'
    BY DEF FeedIInv, SpinnerHasLoad
  <1>4. spinner' \in BOOLEAN
    BY DEF FeedIInv
  <1> QED
    BY Zenon, <1>2, <1>3, <1>4 DEF FeedIInv

\* A request that goes on, to its reload or with the reload's answer.
LEMMA FeedGoesOn ==
    ASSUME FeedIInv, NEW r \in feedRequests, NEW d, IsFeedRequest(d), d.pc \in {"list", "listed"}, d.bg = r.bg,
           feedRequests' = (feedRequests \ {r}) \cup {d}, spinner' = spinner \/ spinner' = (spinner \/ ~d.bg)
    PROVE  FeedIInv'
  <1>1. (\A x \in feedRequests : IsFeedRequest(x))'
    BY DEF FeedIInv, IsFeedRequest
  <1>2. d \in feedRequests' /\ \A x \in feedRequests : x # r => x \in feedRequests'
    OBVIOUS
  <1>3. SpinnerHasLoad'
    BY <1>2, Zenon DEF FeedIInv, SpinnerHasLoad
  <1>4. spinner' \in BOOLEAN
    BY Zenon DEF FeedIInv
  <1> QED
    BY <1>1, <1>3, <1>4 DEF FeedIInv

\* A request that ends: the page's own load takes the spinner with it, and a
\* request in the background, or one that never loaded, was not its reason.
LEMMA FeedEnds ==
    ASSUME FeedIInv, NEW r \in feedRequests, feedRequests' = feedRequests \ {r},
           \/ r.pc = "write" /\ spinner' = spinner
           \/ spinner' = (spinner /\ r.bg)
    PROVE  FeedIInv'
  <1>1. (\A x \in feedRequests : IsFeedRequest(x))'
    BY DEF FeedIInv, IsFeedRequest
  <1>2. \A x \in feedRequests : x # r => x \in feedRequests'
    OBVIOUS
  <1>3. r.pc = "write" => r.pc \notin {"list", "listed"}
    OBVIOUS
  <1>4. SpinnerHasLoad'
    BY <1>2, <1>3, Zenon DEF FeedIInv, SpinnerHasLoad
  <1>5. spinner' \in BOOLEAN
    BY Zenon DEF FeedIInv
  <1> QED
    BY <1>1, <1>4, <1>5 DEF FeedIInv

\* The answers.
LEMMA FeedReply ==
    ASSUME FeedIInv, NEW r \in feedRequests, FeedReplies(r)
    PROVE  FeedIInv'
  <1>0. IsFeedRequest(r)
    BY DEF FeedIInv
  <1>1. CASE PostAnswered(r)
    <2> DEFINE d == [r EXCEPT !.pc = "list", !.q = IF r.kind = "show" THEN query ELSE r.q]
    <2>1. IsFeedRequest(d) /\ d.pc = "list" /\ d.bg = r.bg
      BY Zenon, <1>0 DEF IsFeedRequest
    <2>2. feedRequests' = (feedRequests \ {r}) \cup {d}
      BY <1>0, <1>1 DEF PostAnswered, IsFeedRequest
    <2>3. spinner' = (spinner \/ ~r.bg)
      BY Zenon, <1>1 DEF PostAnswered
    <2> HIDE DEF d
    <2>4. d.pc \in {"list", "listed"} /\ d.bg = r.bg
      BY <2>1
    <2>5. spinner' = (spinner \/ ~d.bg)
      BY <2>3, <2>4, Zenon
    <2> QED
      BY <2>1, <2>2, <2>4, <2>5, FeedGoesOn
  <1>2. CASE WriteFailed(r)
    <2>1. r.pc = "write" /\ spinner' = spinner /\ feedRequests' = feedRequests \ {r}
      BY <1>2 DEF WriteFailed
    <2> QED
      BY <2>1, FeedEnds
  <1>3. CASE FeedServed(r)
    <2> DEFINE d == [r EXCEPT !.pc = "listed", !.answer = Index(r.q)]
    <2>1. IsFeedRequest(d) /\ d.pc = "listed" /\ d.bg = r.bg
      BY Zenon, <1>0 DEF IsFeedRequest
    <2>2. feedRequests' = (feedRequests \ {r}) \cup {d} /\ spinner' = spinner
      BY Zenon, <1>3 DEF FeedServed
    <2> HIDE DEF d
    <2>3. d.pc \in {"list", "listed"}
      BY <2>1
    <2> QED
      BY <2>1, <2>2, <2>3, FeedGoesOn
  <1>4. CASE \E ok \in BOOLEAN : ListArrives(r, ok)
    <2>1. feedRequests' = feedRequests \ {r} /\ spinner' = (spinner /\ r.bg)
      BY <1>4 DEF ListArrives
    <2> QED
      BY <2>1, FeedEnds
  <1> QED
    BY <1>1, <1>2, <1>3, <1>4 DEF FeedReplies

\* Every step of the announcements page keeps the invariant.
LEMMA FeedStep == FeedIInv /\ [FeedNext]_feedVars => FeedIInv'
  <1> SUFFICES ASSUME FeedIInv, [FeedNext]_feedVars PROVE FeedIInv'
    OBVIOUS
  <1>1. ASSUME UNCHANGED <<spinner, feedRequests>> PROVE FeedIInv'
    BY <1>1 DEF FeedIInv, IsFeedRequest, SpinnerHasLoad
  <1>2. CASE SwitchScope \/ PreviousPage \/ NextPage
    BY <1>2, FeedNavigates DEF SwitchScope, PreviousPage, NextPage
  <1>3. CASE \E status \in {"published", "archived", "all"}, read \in {"all", "unread", "read"} : FilterFeed(status, read)
    BY <1>3, FeedNavigates DEF FilterFeed
  <1>4. CASE \E id \in DOMAIN posts : OpenUpdate(id) \/ AskArchivePost(id)
    <2>1. PICK id \in DOMAIN posts : OpenUpdate(id) \/ AskArchivePost(id)
      BY <1>4
    <2>2. CASE OpenUpdate(id)
      BY Zenon, <2>2, FeedCalls DEF OpenUpdate
    <2>3. CASE AskArchivePost(id)
      BY <2>3, <1>1 DEF AskArchivePost
    <2> QED
      BY <2>1, <2>2, <2>3
  <1>5. CASE MarkAllRead
    BY Zenon, <1>5, FeedCalls DEF MarkAllRead
  <1>6. CASE HandleCreate
    BY Zenon, <1>6, FeedCalls DEF HandleCreate
  <1>7. CASE DeclineArchive
    BY <1>7, <1>1 DEF DeclineArchive
  <1>8. CASE ConfirmArchive
    BY Zenon, <1>8, FeedCalls DEF ConfirmArchive
  <1>9. CASE \E r \in feedRequests : FeedReplies(r)
    BY <1>9, FeedReply
  <1>10. CASE UNCHANGED feedVars
    BY <1>10, <1>1 DEF feedVars
  <1> QED
    BY Zenon, <1>2, <1>3, <1>4, <1>5, <1>6, <1>7, <1>8, <1>9, <1>10 DEF FeedNext

\* The page opens with its first load under way.
LEMMA FeedStart == FeedInit => FeedIInv
  <1> SUFFICES ASSUME FeedInit PROVE FeedIInv
    OBVIOUS
  <1> DEFINE r == [n |-> 1, kind |-> "load", pc |-> "list", q |-> FirstQuery, bg |-> FALSE, id |-> 0, answer |-> NoAnswer]
  <1>1. IsFeedRequest(r) /\ r.pc = "list" /\ r.bg = FALSE
    BY Zenon DEF IsFeedRequest
  <1>2. feedRequests = {r} /\ spinner = TRUE
    BY DEF FeedInit
  <1> HIDE DEF r
  <1>3. SpinnerHasLoad
    BY <1>1, <1>2 DEF SpinnerHasLoad
  <1> QED
    BY Zenon, <1>1, <1>2, <1>3 DEF FeedIInv

\* The page is hidden by its spinner only while one of its own loads is under way.
THEOREM FeedSpinner == FeedSpec => []SpinnerHasLoad
  <1>1. FeedIInv => SpinnerHasLoad
    BY DEF FeedIInv
  <1> QED
    BY <1>1, FeedStart, FeedStep, PTL DEF FeedSpec

-----------------------------------------------------------------------------
(***************************************************************************)
(* Accounts, enrolments and sessions (CohortDetail.tsx).                   *)
(***************************************************************************)

RosterOps == {"account", "enrol", "invite", "hour", "removal", "module"}
IsRosterCall(c) ==
    c \in [n : {c.n}, op : {c.op}, who : {c.who}, with : {c.with}, step : {c.step}, got : {c.got}]
\* A call about a student names an address; one about a session carries the
\* values entered for that session; an enrolment past its write has happened.
CallSound(c) ==
    /\ IsRosterCall(c) /\ c.op \in RosterOps
    /\ c.op \in {"account", "enrol"} => c.who \in Emails
    /\ c.op = "hour" => c.with = c.who
    /\ c.op = "enrol" /\ c.step \in {"written", "read", "fresh", "stale"} => c.who \in enrolled
RosterTables ==
    /\ accounts \in [Emails -> {"none", "pending", "active"}] /\ invitations \in [Emails -> Nat]
    /\ emailBox \in Emails \cup {0}
\* The first account is the only invitation that is sent.
NoAccountNoInvite == \A e \in Emails : invitations[e] <= 1 /\ (accounts[e] = "none" => invitations[e] = 0)
FormIsOne == hourForm.id = hourForm.text /\ hourForm = [id |-> hourForm.id, text |-> hourForm.text]
HoursOwn == hours = [h \in DOMAIN hours |-> h]
RosterIInv ==
    /\ RosterTables /\ NoAccountNoInvite /\ FormIsOne /\ HoursOwn /\ AddedIsEnrolled
    /\ \A c \in rosterCalls : CallSound(c)

\* What the staff ask for.
LEMMA RosterAsked ==
    ASSUME RosterIInv, NEW op, NEW who, NEW with, RosterCall(op, who, with), op \in RosterOps, op # "enrol",
           op = "account" => who \in Emails, op = "hour" => with = who,
           notice' = notice \/ notice' = <<"none", 0>>, UNCHANGED <<emailBox, hourForm, rosterServer>>
    PROVE  RosterIInv'
  <1> DEFINE c == [n |-> rosterActs', op |-> op, who |-> who, with |-> with, step |-> "write", got |-> NoSnapshot]
  <1>1. IsRosterCall(c) /\ c.op = op /\ c.who = who /\ c.with = with
    BY DEF IsRosterCall
  <1>2. rosterCalls' = rosterCalls \cup {c}
    BY DEF RosterCall
  <1> HIDE DEF c
  <1>3. \A x \in rosterCalls' : CallSound(x)'
    BY <1>1, <1>2 DEF RosterIInv, CallSound, IsRosterCall, rosterServer
  <1>4. AddedIsEnrolled'
    BY DEF RosterIInv, AddedIsEnrolled, rosterServer
  <1> QED
    BY Zenon, <1>3, <1>4 DEF RosterIInv, RosterTables, NoAccountNoInvite, FormIsOne, HoursOwn, rosterServer

\* A step that changes no call, notice or table.
LEMMA RosterQuiet ==
    ASSUME RosterIInv, UNCHANGED <<rosterCalls, notice, rosterServer>>, emailBox' \in Emails \cup {0}, FormIsOne'
    PROVE  RosterIInv'
  BY DEF RosterIInv, RosterTables, NoAccountNoInvite, HoursOwn, AddedIsEnrolled, CallSound, IsRosterCall, rosterServer

\* What the staff do.
LEMMA RosterStaff ==
    ASSUME RosterIInv,
           \/ ToggleAddForm \/ HandleAddStudent \/ ManageSchedule \/ CancelEdit \/ SaveOfficeHour \/ ToggleModuleForm \/ HandleAddModule
           \/ \E e \in Emails : TypeEmail(e) \/ HandleResendInvite(e)
           \/ \E h \in roster.hours : EditOfficeHour(h) \/ DeleteOfficeHour(h)
    PROVE  RosterIInv'
  <1>0. emailBox \in Emails \cup {0} /\ FormIsOne
    BY ZenonT(40) DEF RosterIInv, RosterTables
  <1>1. CASE ToggleAddForm \/ ManageSchedule \/ ToggleModuleForm
    BY Zenon, <1>0, <1>1, RosterQuiet DEF ToggleAddForm, ManageSchedule, ToggleModuleForm, FormIsOne
  <1>2. CASE HandleAddStudent
    <2>1. PICK w : RosterCall("account", emailBox, w)
      BY Zenon, <1>2 DEF HandleAddStudent
    <2>2. emailBox \in Emails /\ notice' = <<"none", 0>> /\ UNCHANGED <<emailBox, hourForm, rosterServer>>
      BY ZenonT(40), <1>0, <1>2 DEF HandleAddStudent, rosterForms
    <2> QED
      BY Zenon, <2>1, <2>2, RosterAsked DEF RosterOps
  <1>3. CASE CancelEdit
    <2>1. hourForm' = EmptyHourForm /\ UNCHANGED <<rosterCalls, notice, rosterServer, emailBox>>
      BY Zenon, <1>3 DEF CancelEdit, ResetOfficeHourForm
    <2>2. FormIsOne'
      BY Zenon, <2>1 DEF FormIsOne, EmptyHourForm
    <2> QED
      BY ZenonT(40), <1>0, <2>1, <2>2, RosterQuiet
  <1>4. CASE SaveOfficeHour
    <2>1. RosterCall("hour", hourForm.id, hourForm.text) /\ UNCHANGED <<emailBox, hourForm, rosterServer, notice>>
      BY ZenonT(40), <1>4 DEF SaveOfficeHour, rosterForms
    <2> QED
      BY <1>0, <2>1, RosterAsked DEF FormIsOne, RosterOps
  <1>5. CASE HandleAddModule
    <2>1. PICK w : RosterCall("module", 0, w)
      BY Zenon, <1>5 DEF HandleAddModule
    <2> QED
      BY ZenonT(40), <1>5, <2>1, RosterAsked DEF RosterOps, HandleAddModule, rosterForms
  <1>6. ASSUME NEW e \in Emails, TypeEmail(e) PROVE RosterIInv'
    BY <1>0, <1>6, RosterQuiet DEF TypeEmail, FormIsOne
  <1>7. ASSUME NEW e \in Emails, HandleResendInvite(e) PROVE RosterIInv'
    BY ZenonT(40), <1>7, RosterAsked DEF RosterOps, HandleResendInvite, rosterForms
  <1>8. ASSUME NEW h \in roster.hours, EditOfficeHour(h) PROVE RosterIInv'
    <2>1. FormIsOne'
      BY ZenonT(40), <1>8 DEF EditOfficeHour, FormIsOne
    <2> QED
      BY ZenonT(40), <1>0, <1>8, <2>1, RosterQuiet DEF EditOfficeHour
  <1>9. ASSUME NEW h \in roster.hours, DeleteOfficeHour(h) PROVE RosterIInv'
    <2>1. RosterCall("removal", h, hourForm.id) /\ UNCHANGED <<emailBox, hourForm, rosterServer, notice>>
      BY ZenonT(40), <1>9 DEF DeleteOfficeHour, rosterForms
    <2> QED
      BY Zenon, <2>1, RosterAsked DEF RosterOps
  <1> QED
    BY ZenonT(40), <1>1, <1>2, <1>3, <1>4, <1>5, <1>6, <1>7, <1>8, <1>9

\* What a write does to the tables.
LEMMA RosterTablesServed ==
    ASSUME RosterIInv, NEW c \in rosterCalls, RosterServed(c)
    PROVE  /\ RosterTables' /\ NoAccountNoInvite' /\ HoursOwn' /\ enrolled \subseteq enrolled'
           /\ ServerAccepts(c) /\ c.op = "enrol" => c.who \in enrolled'
  <1>0. CallSound(c) /\ emailBox' = emailBox
    BY DEF RosterIInv, RosterServed, rosterForms
  <1>1. ASSUME UNCHANGED rosterServer
        PROVE  RosterTables' /\ NoAccountNoInvite' /\ HoursOwn' /\ enrolled' = enrolled
    BY <1>0, <1>1 DEF RosterIInv, RosterTables, NoAccountNoInvite, HoursOwn, rosterServer
  <1>2. CASE ~ServerAccepts(c)
    BY <1>1, <1>2 DEF RosterServed
  <1>3. CASE ServerAccepts(c) /\ c.op = "account"
    <2>1. ServeAccount(c) /\ c.who \in Emails
      BY <1>0, <1>3 DEF RosterServed, CallSound
    <2>2. /\ accounts' = [accounts EXCEPT ![c.who] = IF @ = "none" THEN "pending" ELSE @]
          /\ invitations' = [invitations EXCEPT ![c.who] = IF ShouldSendInvite(c.who, c.with) THEN @ + 1 ELSE @]
          /\ UNCHANGED <<enrolled, hours>>
      BY <2>1 DEF ServeAccount
    <2>3. RosterTables'
      BY <1>0, <2>1, <2>2 DEF RosterIInv, RosterTables
    <2>4. \A e \in Emails : invitations[e] \in Nat
      BY DEF RosterIInv, RosterTables
    <2>5. NoAccountNoInvite'
      BY <2>1, <2>2, <2>4 DEF RosterIInv, RosterTables, NoAccountNoInvite, ShouldSendInvite
    <2> QED
      BY <1>3, <2>2, <2>3, <2>5 DEF RosterIInv, HoursOwn
  <1>4. CASE ServerAccepts(c) /\ c.op = "enrol"
    <2>1. enrolled' = enrolled \cup {c.who} /\ UNCHANGED <<accounts, invitations, hours>>
      BY <1>4 DEF RosterServed, ServeEnrolment
    <2> QED
      BY <1>0, <2>1 DEF RosterIInv, RosterTables, NoAccountNoInvite, HoursOwn
  <1>5. CASE ServerAccepts(c) /\ c.op = "hour"
    <2>1. ServeHour(c) /\ c.with = c.who /\ (c.who = 0 \/ c.who \in DOMAIN hours)
      BY <1>0, <1>5 DEF RosterServed, CallSound, ServerAccepts
    <2>2. HoursOwn'
      <3>1. CASE c.who # 0
        <4>1. hours' = [hours EXCEPT ![c.who] = c.who]
          BY <2>1, <3>1 DEF ServeHour
        <4> QED
          BY Zenon, <2>1, <3>1, <4>1 DEF RosterIInv, HoursOwn
      <3>2. CASE c.who = 0
        <4> DEFINE new == 1 + rosterActs
        <4>1. hours' = [h \in DOMAIN hours \cup {new} |-> IF h # new THEN hours[h] ELSE new]
          BY <2>1, <3>2 DEF ServeHour
        <4> HIDE DEF new
        <4> QED
          BY <4>1 DEF RosterIInv, HoursOwn
      <3> QED
        BY <3>1, <3>2
    <2>3. UNCHANGED <<accounts, invitations, enrolled>>
      BY <2>1 DEF ServeHour
    <2> QED
      BY <1>0, <1>5, <2>2, <2>3 DEF RosterIInv, RosterTables, NoAccountNoInvite
  <1>6. CASE ServerAccepts(c) /\ c.op = "removal"
    <2>1. hours' = [h \in DOMAIN hours \ {c.who} |-> hours[h]] /\ UNCHANGED <<accounts, invitations, enrolled>>
      BY <1>6 DEF RosterServed, ServeRemoval
    <2> QED
      BY <1>0, <1>6, <2>1 DEF RosterIInv, RosterTables, NoAccountNoInvite, HoursOwn
  <1>7. CASE ServerAccepts(c) /\ c.op \in {"module", "invite"}
    <2>1. UNCHANGED <<accounts, invitations, enrolled, hours>>
      BY Zenon, <1>7 DEF RosterServed, ServeModule, rosterServer
    <2> QED
      BY <1>0, <1>7, <2>1 DEF RosterIInv, RosterTables, NoAccountNoInvite, HoursOwn
  <1> QED
    BY Zenon, <1>0, <1>2, <1>3, <1>4, <1>5, <1>6, <1>7 DEF CallSound, RosterOps

\* A call is replaced by its next stage.
LEMMA RosterGoesOn ==
    ASSUME RosterIInv, NEW c \in rosterCalls, NEW d, CallSound(d)',
           rosterCalls' = (rosterCalls \ {c}) \cup {d}, enrolled \subseteq enrolled',
           RosterTables', NoAccountNoInvite', HoursOwn', UNCHANGED <<notice, hourForm>>
    PROVE  RosterIInv'
  <1>1. \A x \in rosterCalls' : CallSound(x)'
    BY DEF RosterIInv, CallSound, IsRosterCall
  <1>2. AddedIsEnrolled'
    BY Zenon DEF RosterIInv, AddedIsEnrolled
  <1> QED
    BY Zenon, <1>1, <1>2 DEF RosterIInv, FormIsOne

\* A call ends, with a notice.
LEMMA RosterEnds ==
    ASSUME RosterIInv, NEW c \in rosterCalls, rosterCalls' = rosterCalls \ {c}, UNCHANGED rosterServer,
           AddedIsEnrolled', emailBox' \in Emails \cup {0}, FormIsOne'
    PROVE  RosterIInv'
  BY DEF RosterIInv, RosterTables, NoAccountNoInvite, HoursOwn, CallSound, IsRosterCall, rosterServer

\* What the server and the network do.
LEMMA RosterTravels ==
    ASSUME RosterIInv, NEW c \in rosterCalls, RosterServed(c) \/ RosterRead(c) \/ RosterFails(c) \/ RosterWritten(c)
    PROVE  RosterIInv'
  <1>0. CallSound(c)
    BY DEF RosterIInv
  <1>1. CASE RosterServed(c)
    <2>1. PICK stage \in {"written", "refused"} : stage = "written" <=> ServerAccepts(c)
      OBVIOUS
    <2> DEFINE d == [c EXCEPT !.step = stage]
    <2>2. IsRosterCall(d) /\ d.op = c.op /\ d.who = c.who /\ d.with = c.with /\ d.step = stage
      BY <1>0 DEF CallSound, IsRosterCall
    <2>3. rosterCalls' = (rosterCalls \ {c}) \cup {d} /\ UNCHANGED <<notice, hourForm>>
      BY <1>1, <2>1 DEF RosterServed, rosterForms
    <2> HIDE DEF d
    <2>4. /\ RosterTables' /\ NoAccountNoInvite' /\ HoursOwn' /\ enrolled \subseteq enrolled'
          /\ ServerAccepts(c) /\ c.op = "enrol" => c.who \in enrolled'
      BY Zenon, <1>1, RosterTablesServed
    <2>5. CallSound(d)'
      BY Zenon, <1>0, <2>1, <2>2, <2>4 DEF CallSound, IsRosterCall
    <2> QED
      BY <2>3, <2>4, <2>5, RosterGoesOn
  <1>2. ASSUME NEW d, CallSound(d), rosterCalls' = (rosterCalls \ {c}) \cup {d}, UNCHANGED <<notice, rosterForms, rosterServer>>
        PROVE  RosterIInv'
    <2>1. CallSound(d)'
      BY <1>2 DEF CallSound, IsRosterCall, rosterServer
    <2>2. RosterTables' /\ NoAccountNoInvite' /\ HoursOwn' /\ enrolled' = enrolled /\ UNCHANGED <<notice, hourForm>>
      BY <1>2 DEF RosterIInv, RosterTables, NoAccountNoInvite, HoursOwn, rosterServer, rosterForms
    <2> QED
      BY Zenon, <1>2, <2>1, <2>2, RosterGoesOn
  <1>3. CASE RosterRead(c)
    <2> DEFINE d == [c EXCEPT !.step = "fresh", !.got = Snapshot]
    <2>1. CallSound(d)
      BY Zenon, <1>0, <1>3 DEF CallSound, IsRosterCall, RosterRead
    <2> QED
      BY <1>2, <1>3, <2>1 DEF RosterRead
  <1>4. CASE RosterFails(c)
    <2> DEFINE d == [c EXCEPT !.step = IF c.step = "read" THEN "stale" ELSE "refused"]
    <2>1. CallSound(d)
      BY <1>0 DEF CallSound, IsRosterCall
    <2> QED
      BY <1>2, <1>4, <2>1 DEF RosterFails
  <1>5. CASE RosterWritten(c) /\ c.op = "account"
    <2> DEFINE d == [c EXCEPT !.op = "enrol", !.with = 0, !.step = "write"]
    <2>1. CallSound(d)
      BY Zenon, <1>0, <1>5 DEF CallSound, IsRosterCall, RosterOps
    <2>2. rosterCalls' = (rosterCalls \ {c}) \cup {d} /\ UNCHANGED <<notice, rosterForms, rosterServer>>
      BY <1>5 DEF RosterWritten
    <2> QED
      BY <1>2, <2>1, <2>2
  <1>6. CASE RosterWritten(c) /\ c.op # "account"
    <2> DEFINE d == [c EXCEPT !.step = "read"]
    <2>1. CallSound(d)
      BY <1>0, <1>6 DEF CallSound, IsRosterCall, RosterWritten
    <2>2. rosterCalls' = (rosterCalls \ {c}) \cup {d} /\ UNCHANGED <<notice, rosterForms, rosterServer>>
      BY <1>6 DEF RosterWritten
    <2> QED
      BY <1>2, <2>1, <2>2
  <1> QED
    BY <1>1, <1>3, <1>4, <1>5, <1>6

\* What the page does with an answer.
LEMMA RosterAnswers ==
    ASSUME RosterIInv, NEW c \in rosterCalls,
           RosterRefused(c) \/ InviteAnswered(c) \/ StudentAdded(c) \/ HourSaved(c) \/ HourRemoved(c) \/ ModuleAdded(c)
    PROVE  RosterIInv'
  <1>0. CallSound(c) /\ emailBox \in Emails \cup {0} /\ FormIsOne
    BY DEF RosterIInv, RosterTables
  <1>1. rosterCalls' = rosterCalls \ {c} /\ UNCHANGED rosterServer
    BY ZenonT(40) DEF RosterRefused, InviteAnswered, StudentAdded, HourSaved, HourRemoved, ModuleAdded
  <1>2. emailBox' = emailBox \/ emailBox' = 0
    BY ZenonT(40) DEF RosterRefused, InviteAnswered, StudentAdded, HourSaved, HourRemoved, ModuleAdded, rosterForms
  <1>3. hourForm' = hourForm \/ hourForm' = EmptyHourForm
    BY Zenon DEF RosterRefused, InviteAnswered, StudentAdded, HourSaved, HourRemoved, ModuleAdded, rosterForms, ResetOfficeHourForm
  <1>4. FormIsOne'
    BY <1>0, <1>3 DEF FormIsOne, EmptyHourForm
  <1>5. AddedIsEnrolled'
    <2>1. CASE StudentAdded(c)
      BY Zenon, <1>0, <1>1, <2>1 DEF StudentAdded, AddedIsEnrolled, CallSound, rosterServer
    <2>2. CASE ~StudentAdded(c)
      <3>1. notice'[1] # "added"
        <4>1. \/ notice' = <<"error", c.who>> \/ notice' = <<"invited", c.who>>
              \/ notice' = <<"session", 0>> \/ notice' = <<"removed", 0>> \/ notice' = <<"module", 0>>
          BY ZenonT(40), <2>2 DEF RosterRefused, InviteAnswered, HourSaved, HourRemoved, ModuleAdded
        <4> QED
          BY <4>1
      <3> QED
        BY <3>1 DEF AddedIsEnrolled
    <2> QED
      BY <2>1, <2>2
  <1> QED
    BY <1>0, <1>1, <1>2, <1>4, <1>5, RosterEnds

\* Every step of the roster keeps the invariant.
LEMMA RosterInductive == RosterIInv /\ [RosterNext]_rosterVars => RosterIInv'
  <1> SUFFICES ASSUME RosterIInv, [RosterNext]_rosterVars PROVE RosterIInv'
    OBVIOUS
  <1>1. ASSUME NEW e \in Emails, SignsIn(e) PROVE RosterIInv'
    <2>1. /\ accounts[e] = "pending" /\ accounts' = [accounts EXCEPT ![e] = "active"]
          /\ UNCHANGED <<rosterCalls, notice, enrolled, invitations, hours, emailBox, hourForm>>
      BY Zenon, <1>1 DEF SignsIn, rosterForms
    <2> QED
      BY <2>1 DEF RosterIInv, RosterTables, NoAccountNoInvite, FormIsOne, HoursOwn, AddedIsEnrolled, CallSound, IsRosterCall
  <1>2. CASE UNCHANGED rosterVars
    <2>1. emailBox \in Emails \cup {0} /\ FormIsOne
      BY DEF RosterIInv, RosterTables
    <2> QED
      BY <1>2, <2>1, RosterQuiet DEF rosterVars, rosterForms, FormIsOne
  <1> QED
    BY Zenon, <1>1, <1>2, RosterStaff, RosterTravels, RosterAnswers DEF RosterNext, RosterStep

\* The page opens on an empty roster and one session.
LEMMA RosterStart == RosterInit => RosterIInv
  <1> SUFFICES ASSUME RosterInit PROVE RosterIInv
    OBVIOUS
  <1>1. /\ accounts = [e \in Emails |-> "none"] /\ invitations = [e \in Emails |-> 0] /\ hours = [h \in {1} |-> 1]
        /\ emailBox = 0 /\ hourForm = [id |-> 0, text |-> 0] /\ notice = <<"none", 0>> /\ rosterCalls = {}
    BY DEF RosterInit, EmptyHourForm
  <1> QED
    BY <1>1 DEF RosterIInv, RosterTables, NoAccountNoInvite, FormIsOne, HoursOwn, AddedIsEnrolled

\* For every set of addresses and any number of actions: success means an
\* enrolment, nobody is invited twice, and no session is saved over another.
THEOREM RosterIsSound == RosterSpec => []RosterSound
  <1>1. RosterIInv => RosterSound
    BY DEF RosterIInv, RosterSound, NoAccountNoInvite, InvitedOnce, HoursOwn, SessionsKeepTheirs
  <1> QED
    BY <1>1, RosterStart, RosterInductive, PTL DEF RosterSpec

-----------------------------------------------------------------------------
(***************************************************************************)
(* The upload queue of recordings (RecordingUploadManager.tsx).            *)
(***************************************************************************)

LibraryTypeOK ==
    /\ files \in Nat \ {0} /\ files <= MaxFiles + 1 /\ launches \in [Files -> Nat]
    /\ queue \subseteq [file : Files, titled : BOOLEAN]
\* A file waits once, waits only before its upload, and has been chosen by then.
QueueInv ==
    /\ \A d, e \in queue : d.file = e.file => d = e
    /\ \A d \in queue : d.file <= files /\ launches[d.file] = 0
    /\ \A f \in Files : launches[f] <= 1 /\ (f > files => launches[f] = 0)
LibraryIInv == LibraryTypeOK /\ QueueInv

\* The queue may shrink, and nothing else changes.
LEMMA QueueShrinks ==
    ASSUME LibraryIInv, queue' \subseteq queue, UNCHANGED <<launches, files>>
    PROVE  LibraryIInv'
  BY DEF LibraryIInv, LibraryTypeOK, QueueInv

\* Some of the files that wait are handed to the uploader.
LEMMA LaunchOnce ==
    ASSUME LibraryIInv, NEW ds \in SUBSET queue, Launch(ds), UNCHANGED files
    PROVE  LibraryIInv'
  <1>1. launches' = [f \in Files |-> IF \E d \in ds : d.file = f THEN launches[f] + 1 ELSE launches[f]] /\ queue' = queue \ ds
    BY Zenon DEF Launch
  <1>2. \A f \in Files : launches[f] \in Nat
    BY DEF LibraryIInv, LibraryTypeOK
  <1>3. ASSUME NEW f \in Files
        PROVE  /\ launches'[f] \in Nat /\ launches'[f] <= 1 /\ (f > files => launches'[f] = 0)
               /\ (~\E d \in ds : d.file = f) => launches'[f] = launches[f]
    <2>1. CASE \E d \in ds : d.file = f
      <3>1. launches[f] = 0 /\ f <= files /\ launches'[f] = launches[f] + 1
        BY <1>1, <2>1 DEF LibraryIInv, QueueInv
      <3> QED
        BY <3>1, <2>1 DEF LibraryIInv, LibraryTypeOK, Files
    <2>2. CASE ~\E d \in ds : d.file = f
      <3>1. launches'[f] = launches[f]
        BY Zenon, <1>1, <2>2
      <3> QED
        BY Zenon, <1>2, <3>1 DEF LibraryIInv, QueueInv
    <2> QED
      BY <2>1, <2>2
  <1>4. LibraryTypeOK'
    BY <1>1, <1>3 DEF LibraryIInv, LibraryTypeOK
  <1>5. ASSUME NEW d \in queue' PROVE d.file <= files /\ launches'[d.file] = 0
    <2>1. d \in queue /\ d \notin ds /\ d.file \in Files
      BY <1>1, <1>5 DEF LibraryIInv, LibraryTypeOK
    <2>2. ~\E e \in ds : e.file = d.file
      BY <2>1 DEF LibraryIInv, QueueInv
    <2> QED
      BY <1>3, <2>1, <2>2 DEF LibraryIInv, QueueInv
  <1> QED
    BY <1>1, <1>3, <1>4, <1>5 DEF LibraryIInv, QueueInv

\* Every step of the section keeps the invariant.
LEMMA LibraryInductive == LibraryIInv /\ [LibraryNext]_libraryVars => LibraryIInv'
  <1> SUFFICES ASSUME LibraryIInv, [LibraryNext]_libraryVars PROVE LibraryIInv'
    OBVIOUS
  <1>1. CASE OpenSection \/ CloseSection \/ RefuseFiles \/ ClearDrafts \/ CancelRowEdit \/ SaveEdit
    <2>1. queue' \subseteq queue /\ UNCHANGED <<launches, files>>
      BY <1>1 DEF OpenSection, CloseSection, RefuseFiles, ClearDrafts, CancelRowEdit, SaveEdit, libraryForm
    <2> QED
      BY Zenon, <2>1, QueueShrinks
  <1>2. CASE AppendFiles
    <2> DEFINE d == [file |-> files + 1, titled |-> TRUE]
    <2>1. files <= MaxFiles /\ files' = files + 1 /\ queue' = queue \cup {d} /\ launches' = launches
      BY <1>2 DEF AppendFiles
    <2>2. files + 1 \in Files /\ files + 1 <= MaxFiles + 1
      BY <2>1, LibraryAssumption DEF Files, LibraryIInv, LibraryTypeOK
    <2>3. d \in [file : Files, titled : BOOLEAN] /\ d.file = files + 1
      BY <2>2
    <2> HIDE DEF d
    <2>4. LibraryTypeOK'
      BY <2>1, <2>2, <2>3 DEF LibraryIInv, LibraryTypeOK
    <2>5. ASSUME NEW e \in queue PROVE e.file \in Int /\ e.file <= files /\ e.file # d.file
      BY <2>3 DEF LibraryIInv, LibraryTypeOK, QueueInv, Files
    <2>6. launches[files + 1] = 0
      BY <2>2 DEF LibraryIInv, LibraryTypeOK, QueueInv
    <2>7. \A f \in Files : f \in Int /\ (f > files' => f > files)
      BY <2>1 DEF LibraryIInv, LibraryTypeOK, Files
    <2>8. \A x, y \in queue' : x.file = y.file => x = y
      BY Zenon, <2>1, <2>5 DEF LibraryIInv, QueueInv
    <2>9. \A x \in queue' : x.file <= files' /\ launches'[x.file] = 0
      BY <2>1, <2>3, <2>5, <2>6 DEF LibraryIInv, LibraryTypeOK, QueueInv
    <2> QED
      BY Zenon, <2>1, <2>4, <2>7, <2>8, <2>9 DEF LibraryIInv, QueueInv
  <1>3. CASE StartAllUploads
    BY <1>3, LaunchOnce DEF StartAllUploads
  <1>4. ASSUME NEW d \in queue, UpdateDraft(d) PROVE LibraryIInv'
    <2>1. PICK e \in [file : Files, titled : BOOLEAN] : e.file = d.file /\ e = [d EXCEPT !.titled = ~d.titled]
      <3>1. d \in [file : Files, titled : BOOLEAN]
        BY DEF LibraryIInv, LibraryTypeOK
      <3> QED
        BY Zenon, <3>1
    <2>2. queue' = (queue \ {d}) \cup {e} /\ UNCHANGED <<launches, files>>
      BY <1>4, <2>1 DEF UpdateDraft
    <2> QED
      BY <2>1, <2>2 DEF LibraryIInv, LibraryTypeOK, QueueInv
  <1>5. ASSUME NEW d \in queue, RemoveDraft(d) PROVE LibraryIInv'
    BY <1>5, QueueShrinks DEF RemoveDraft
  <1>6. ASSUME NEW d \in queue, StartDraft(d) PROVE LibraryIInv'
    BY <1>6, QueueShrinks, LaunchOnce DEF StartDraft
  <1>7. ASSUME UNCHANGED <<queue, launches, files>> PROVE LibraryIInv'
    BY <1>7, QueueShrinks
  <1>8. CASE \E u \in uploading : CancelFile(u)
    BY Zenon, <1>8, <1>7 DEF CancelFile, libraryForm
  <1>9. CASE \E r \in listed \cup {0} : Preview(r) \/ StartEdit(r) \/ DeleteRow(r)
    BY <1>9, <1>7 DEF Preview, StartEdit, DeleteRow, libraryForm
  <1>10. CASE \E yes \in BOOLEAN : AnswerDelete(yes)
    BY <1>10, <1>7 DEF AnswerDelete, libraryForm
  <1>11. CASE \E c \in libraryCalls : LibraryFails(c)
    BY <1>11, <1>7 DEF LibraryFails, libraryForm
  <1>12. CASE LibraryStep
    BY Zenon, <1>12, <1>7 DEF LibraryStep, UploadEnds, LibraryServed, ListAnswered, EditAnswered, DeleteAnswered, LibraryIgnored, libraryForm
  <1>13. CASE UNCHANGED libraryVars
    BY Zenon, <1>13, <1>7 DEF libraryVars, libraryForm
  <1> QED
    BY Zenon, <1>1, <1>2, <1>3, <1>4, <1>5, <1>6, <1>8, <1>9, <1>10, <1>11, <1>12, <1>13 DEF LibraryNext

\* At first no file is chosen.
LEMMA LibraryStart == LibraryInit => LibraryIInv
  BY LibraryAssumption DEF LibraryInit, LibraryIInv, LibraryTypeOK, QueueInv, Files

\* No file of the queue is uploaded twice, however many are chosen.
THEOREM UploadsStartOnce == LibrarySpec => []UploadedOnce
  <1>1. LibraryIInv => UploadedOnce
    BY DEF LibraryIInv, QueueInv, UploadedOnce
  <1> QED
    BY <1>1, LibraryStart, LibraryInductive, PTL DEF LibrarySpec

-----------------------------------------------------------------------------
(***************************************************************************)
(* The recordings page (Recordings.tsx).                                   *)
(***************************************************************************)

ShelfTypeOK ==
    /\ watchedSaved \in [Uploaded -> Nat] /\ watchedShown \in [Uploaded -> Nat]
    /\ played \in Nat /\ pickedAt \in Nat
    /\ progressCalls \subseteq [for : Uploaded, seconds : Nat, answer : Nat]
\* An answer under way is no more than the server holds by now.
AnswersKept == \A c \in progressCalls : c.answer <= watchedSaved[c.for]
\* The list is loaded again only while it is empty, and is left unfiltered then.
TabInv == /\ shelfLoading => onList = {}
          /\ onList = {} => tab = "all"
          /\ onList # {} => InTab(tab) # {}
ShelfIInv == ShelfTypeOK /\ AnswersKept /\ ProgressBelongs /\ TabInv

\* Picking an item starts its player at a count.
LEMMA PickType ==
    ASSUME ShelfTypeOK, NEW r, NEW shown \in [Uploaded -> Nat], Picks(r, shown)
    PROVE  pickedAt' \in Nat /\ played' \in Nat
  <1>1. pickedAt' \in Nat
    BY DEF Picks
  <1>2. played' = played \/ played' = pickedAt'
    BY DEF Picks
  <1> QED
    BY <1>1, <1>2 DEF ShelfTypeOK

\* The answer to a load.
LEMMA ShelfLoaded ==
    ASSUME ShelfIInv, NEW items, NEW cached \in BOOLEAN, ShelfArrives(items, cached)
    PROVE  ShelfIInv'
  <1>1. /\ shelfLoading /\ ~shelfLoading' /\ onList' = items /\ UNCHANGED <<watchedSaved, tab, progressCalls>>
        /\ watchedShown' = (IF cached THEN Unwatched ELSE watchedSaved)
        /\ Picks(FirstOf(items), watchedShown')
    BY DEF ShelfArrives
  <1>2. watchedShown' \in [Uploaded -> Nat] /\ \A r \in Uploaded : watchedShown'[r] <= watchedSaved[r]
    BY <1>1 DEF Unwatched, ShelfIInv, ShelfTypeOK
  <1>3. ShelfTypeOK'
    BY <1>1, <1>2, PickType DEF ShelfIInv, ShelfTypeOK
  <1>4. AnswersKept' /\ ProgressBelongs'
    BY Zenon, <1>1, <1>2 DEF ShelfIInv, AnswersKept, ProgressBelongs
  <1>5. tab' = "all"
    BY <1>1 DEF ShelfIInv, TabInv
  <1>6. TabInv'
    BY <1>1, <1>5 DEF TabInv, InTab
  <1> QED
    BY <1>3, <1>4, <1>6 DEF ShelfIInv

\* The tab's part does not depend on the player.
LEMMA TabKept ==
    ASSUME TabInv, UNCHANGED <<shelfLoading, onList, tab>>
    PROVE  TabInv'
  BY DEF TabInv, InTab

\* What the student does to the playlist and the player.
LEMMA ShelfStudent ==
    ASSUME ShelfIInv,
           \/ Watch \/ SaveProgress \/ \E r \in Catalogue : Pick(r)
           \/ \E r \in Catalogue \cup {NoRecording} : Search(r)
           \/ \E t \in {"all", "uploaded", "youtube", "external"} : SwitchTab(t)
    PROVE  ShelfIInv'
  <1>1. CASE Watch
    <2>1. played' = played + 1 /\ UNCHANGED <<watchedSaved, watchedShown, pickedAt, tab, progressCalls, onList, shelfLoading>>
      BY Zenon, <1>1 DEF Watch, listVars
    <2> QED
      BY <2>1, TabKept DEF ShelfIInv, ShelfTypeOK, AnswersKept, ProgressBelongs
  <1>2. CASE SaveProgress
    <2> DEFINE c == [for |-> picked, seconds |-> played, answer |-> 0]
    <2>1. /\ picked \in Uploaded /\ progressCalls' = progressCalls \cup {c}
          /\ UNCHANGED <<watchedSaved, watchedShown, pickedAt, played, tab, onList, shelfLoading>>
      BY Zenon, <1>2 DEF SaveProgress, PlayerFor, listVars, playerVars
    <2>2. c \in [for : Uploaded, seconds : Nat, answer : Nat] /\ c.answer = 0 /\ c.for = picked
      BY <2>1 DEF ShelfIInv, ShelfTypeOK
    <2> HIDE DEF c
    <2>3. AnswersKept'
      BY <2>1, <2>2 DEF ShelfIInv, ShelfTypeOK, AnswersKept
    <2> QED
      BY <2>1, <2>2, <2>3, TabKept DEF ShelfIInv, ShelfTypeOK, ProgressBelongs
  <1>3. ASSUME NEW r \in Catalogue, Pick(r) PROVE ShelfIInv'
    <2>1. Picks(r, watchedShown) /\ UNCHANGED <<watchedSaved, watchedShown, tab, progressCalls, onList, shelfLoading>>
      BY <1>3 DEF Pick, listVars
    <2>2. ShelfTypeOK'
      BY Zenon, <2>1, PickType DEF ShelfIInv, ShelfTypeOK
    <2> QED
      BY Zenon, <2>1, <2>2, TabKept DEF ShelfIInv, AnswersKept, ProgressBelongs
  <1>4. ASSUME NEW r, Search(r) PROVE ShelfIInv'
    <2>1. UNCHANGED <<watchedSaved, watchedShown, pickedAt, played, tab, progressCalls, onList, shelfLoading>>
      BY Zenon, <1>4 DEF Search, listVars, playerVars
    <2> QED
      BY Zenon, <2>1, TabKept DEF ShelfIInv, ShelfTypeOK, AnswersKept, ProgressBelongs
  <1>5. ASSUME NEW t, SwitchTab(t) PROVE ShelfIInv'
    <2>1. /\ t \in TabsOffered /\ tab' = t
          /\ UNCHANGED <<watchedSaved, watchedShown, pickedAt, played, progressCalls, onList, shelfLoading>>
      BY <1>5 DEF SwitchTab, listVars, playerVars
    <2>2. TabInv'
      <3>1. t = "all" \/ InTab(t) # {}
        BY <2>1 DEF TabsOffered
      <3>2. onList = {} => t = "all"
        BY <3>1 DEF InTab
      <3> QED
        BY <2>1, <3>1, <3>2 DEF ShelfIInv, TabInv, InTab
    <2> QED
      BY Zenon, <2>1, <2>2 DEF ShelfIInv, ShelfTypeOK, AnswersKept, ProgressBelongs
  <1> QED
    BY Zenon, <1>1, <1>2, <1>3, <1>4, <1>5

\* A save travels to the server and back.
LEMMA ShelfSaves ==
    ASSUME ShelfIInv, NEW c \in progressCalls, WatchKept(c) \/ ProgressArrives(c) \/ ProgressLost(c)
    PROVE  ShelfIInv'
  <1>0. c \in [for : Uploaded, seconds : Nat, answer : Nat] /\ watchedSaved[c.for] \in Nat
    BY DEF ShelfIInv, ShelfTypeOK
  <1>1. UNCHANGED <<pickedAt, played, tab, onList, shelfLoading>>
    BY DEF WatchKept, ProgressArrives, ProgressLost, listVars, playerVars
  <1>2. CASE WatchKept(c)
    <2>1. PICK kept \in Nat :
            /\ kept >= watchedSaved[c.for]
            /\ watchedSaved' = [watchedSaved EXCEPT ![c.for] = kept]
            /\ progressCalls' = (progressCalls \ {c}) \cup {[c EXCEPT !.answer = kept]}
            /\ watchedShown' = watchedShown
      <3> DEFINE k == IF c.seconds > watchedSaved[c.for] THEN c.seconds ELSE watchedSaved[c.for]
      <3>1. k \in Nat /\ k >= watchedSaved[c.for]
        BY <1>0
      <3>2. /\ watchedSaved' = [watchedSaved EXCEPT ![c.for] = k]
            /\ progressCalls' = (progressCalls \ {c}) \cup {[c EXCEPT !.answer = k]}
            /\ watchedShown' = watchedShown
        BY <1>2 DEF WatchKept
      <3> HIDE DEF k
      <3> QED
        BY Zenon, <3>1, <3>2
    <2> DEFINE d == [c EXCEPT !.answer = kept]
    <2>2. d \in [for : Uploaded, seconds : Nat, answer : Nat] /\ d.answer = kept /\ d.for = c.for
      BY <1>0
    <2>3. progressCalls' = (progressCalls \ {c}) \cup {d}
      BY <2>1
    <2> HIDE DEF d
    <2>4. ShelfTypeOK'
      BY <1>0, <1>1, <2>1, <2>2, <2>3 DEF ShelfIInv, ShelfTypeOK
    <2>5. \A r \in Uploaded : watchedSaved[r] \in Nat /\ watchedSaved'[r] \in Nat /\ watchedSaved[r] <= watchedSaved'[r] /\ watchedShown[r] \in Nat
      BY <1>0, <2>1 DEF ShelfIInv, ShelfTypeOK
    <2>6. ProgressBelongs'
      BY <2>1, <2>5 DEF ShelfIInv, ProgressBelongs
    <2>7. AnswersKept'
      <3>1. ASSUME NEW x \in progressCalls PROVE x.answer <= watchedSaved'[x.for]
        <4>1. x \in [for : Uploaded, seconds : Nat, answer : Nat] /\ x.answer <= watchedSaved[x.for]
          BY DEF ShelfIInv, ShelfTypeOK, AnswersKept
        <4>2. x.for \in Uploaded /\ x.answer \in Nat
          BY Zenon, <4>1
        <4>3. watchedSaved[x.for] \in Nat /\ watchedSaved'[x.for] \in Nat /\ watchedSaved[x.for] <= watchedSaved'[x.for]
          BY <2>5, <4>2
        <4> QED
          BY <4>1, <4>2, <4>3
      <3>2. d.answer <= watchedSaved'[d.for]
        BY <1>0, <2>1, <2>2 DEF ShelfIInv, ShelfTypeOK
      <3> QED
        BY Zenon, <2>3, <3>1, <3>2 DEF AnswersKept
    <2> QED
      BY <1>1, <2>4, <2>6, <2>7, TabKept DEF ShelfIInv
  <1>3. CASE ProgressArrives(c)
    <2>1. /\ watchedShown' = [watchedShown EXCEPT ![c.for] = c.answer] /\ progressCalls' = progressCalls \ {c}
          /\ watchedSaved' = watchedSaved
      BY Zenon, <1>3 DEF ProgressArrives
    <2>2. c.answer <= watchedSaved[c.for]
      BY DEF ShelfIInv, AnswersKept
    <2>3. ShelfTypeOK'
      BY <1>0, <1>1, <2>1 DEF ShelfIInv, ShelfTypeOK
    <2>4. ProgressBelongs'
      BY Zenon, <1>0, <2>1, <2>2 DEF ShelfIInv, ShelfTypeOK, ProgressBelongs
    <2> QED
      BY Zenon, <1>1, <2>1, <2>3, <2>4, TabKept DEF ShelfIInv, AnswersKept
  <1>4. CASE ProgressLost(c)
    BY <1>1, <1>4, TabKept DEF ProgressLost, ShelfIInv, ShelfTypeOK, AnswersKept, ProgressBelongs
  <1> QED
    BY <1>2, <1>3, <1>4

\* Every step of the recordings page keeps the invariant.
LEMMA ShelfInductive == ShelfIInv /\ [ShelfNext]_shelfVars => ShelfIInv'
  <1> SUFFICES ASSUME ShelfIInv, [ShelfNext]_shelfVars PROVE ShelfIInv'
    OBVIOUS
  <1>1. CASE ListFails
    <2>1. ~shelfLoading' /\ UNCHANGED <<watchedSaved, watchedShown, pickedAt, played, tab, progressCalls, onList>>
      BY Zenon, <1>1 DEF ListFails, playerVars
    <2> QED
      BY <2>1 DEF ShelfIInv, ShelfTypeOK, AnswersKept, ProgressBelongs, TabInv, InTab
  <1>2. CASE RetryList
    <2>1. onList = {} /\ UNCHANGED <<watchedSaved, watchedShown, pickedAt, played, tab, progressCalls, onList>>
      BY Zenon, <1>2 DEF RetryList, ShelfView, playerVars
    <2> QED
      BY <2>1 DEF ShelfIInv, ShelfTypeOK, AnswersKept, ProgressBelongs, TabInv, InTab
  <1>3. CASE UNCHANGED shelfVars
    BY <1>3, TabKept DEF shelfVars, ShelfIInv, ShelfTypeOK, AnswersKept, ProgressBelongs
  <1> QED
    BY Zenon, <1>1, <1>2, <1>3, ShelfLoaded, ShelfStudent, ShelfSaves DEF ShelfNext, ListReplies

\* The page opens with its list loading and nothing watched.
LEMMA ShelfStart == ShelfInit => ShelfIInv
  <1> SUFFICES ASSUME ShelfInit PROVE ShelfIInv
    OBVIOUS
  <1>1. /\ watchedSaved = Unwatched /\ watchedShown = Unwatched /\ pickedAt = 0 /\ played = 0
        /\ progressCalls = {} /\ onList = {} /\ tab = "all"
    BY DEF ShelfInit
  <1> QED
    BY <1>1 DEF ShelfIInv, ShelfTypeOK, AnswersKept, ProgressBelongs, TabInv, Unwatched

\* The tab that is open has items, and no row shows more progress than the
\* server holds for it, for every catalogue and length.
THEOREM ShelfIsSound == ShelfSpec => [](TabHasItems /\ ProgressBelongs)
  <1>1. ShelfIInv => TabHasItems /\ ProgressBelongs
    BY DEF ShelfIInv, TabInv, TabHasItems, ShelfView
  <1> QED
    BY <1>1, ShelfStart, ShelfInductive, PTL DEF ShelfSpec
=============================================================================
