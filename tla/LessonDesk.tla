----------------------------- MODULE LessonDesk -----------------------------
(***************************************************************************)
(* The rest of the lesson editor (web/src/pages/admin/LessonEditor.tsx):   *)
(* the learning objectives, the rubric, the recall check and the archive   *)
(* button, with the server's update_editor and the students who answer the *)
(* check meanwhile.  The lesson's video is in VideoPages.                  *)
(*                                                                         *)
(* A check is the number of its wording, 0 when the lesson has none; the   *)
(* server compares the wording it is sent with the one it has.             *)
(***************************************************************************)
EXTENDS Integers, FiniteSets

CONSTANT MaxDeskActs    \* bound on what the staff and the student do and on what fails
ASSUME DeskAssumption == MaxDeskActs \in Nat

VARIABLES desk,           \* the form: [aligned, rubric, check, locked] (locked: attempts were recorded)
          shownArchived, objectiveCatalog, rubricCatalog,
          creatingObjective, creatingRubric, savingLesson, archiveSaving, confirmArchive, deskMessage,
          deskCalls, lessonRow, attempted, objectiveCount, rubricCount, wordings, deskActs
deskFlags == <<creatingObjective, creatingRubric, savingLesson, archiveSaving>>
deskServer == <<lessonRow, attempted, objectiveCount, rubricCount>>
deskPage == <<desk, shownArchived, objectiveCatalog, rubricCatalog, confirmArchive, deskMessage>>
deskVars == <<deskPage, deskFlags, deskCalls, deskServer, wordings, deskActs>>

NoForm == [aligned |-> {}, rubric |-> 0, check |-> 0, locked |-> FALSE]
FormOf(row) == [aligned |-> row.aligned, rubric |-> row.rubric, check |-> row.check, locked |-> attempted]
\* The lesson was just loaded, and the list of the curriculum's objectives is on its way.
DeskInit ==
    /\ lessonRow = [aligned |-> {1}, rubric |-> 0, check |-> 1, archived |-> FALSE] /\ attempted = FALSE
    /\ objectiveCount = 2 /\ rubricCount = 1 /\ wordings = 1
    /\ desk = FormOf(lessonRow) /\ shownArchived = FALSE /\ objectiveCatalog = {} /\ rubricCatalog = {1}
    /\ creatingObjective = FALSE /\ creatingRubric = FALSE /\ savingLesson = FALSE /\ archiveSaving = FALSE
    /\ confirmArchive = FALSE /\ deskMessage = "none"
    /\ deskCalls = {[n |-> 1, op |-> "catalog", form |-> NoForm, step |-> "sent", got |-> 0]}
    /\ deskActs = 0

DeskSpend == deskActs < MaxDeskActs /\ deskActs' = deskActs + 1
DeskNumber == CHOOSE n \in 1 .. Cardinality(deskCalls) + 1 : \A c \in deskCalls : c.n # n
\* A request with the form its handler closed over.
DeskCall(op) == deskCalls' = deskCalls \cup {[n |-> DeskNumber, op |-> op, form |-> desk, step |-> "sent", got |-> 0]}

(***************************************************************************)
(* The form.                                                               *)
(***************************************************************************)
Shape(form) ==
    /\ DeskSpend /\ desk' = form
    /\ UNCHANGED <<shownArchived, objectiveCatalog, rubricCatalog, confirmArchive, deskMessage, deskFlags, deskCalls, deskServer>>
AddExistingObjective(o) ==
    o \in objectiveCatalog \ desk.aligned /\ Shape([desk EXCEPT !.aligned = @ \cup {o}]) /\ UNCHANGED wordings
\* An aligned objective that the list does not hold has no row, so no button.
RemoveObjective(o) ==
    o \in objectiveCatalog \cap desk.aligned /\ Shape([desk EXCEPT !.aligned = @ \ {o}]) /\ UNCHANGED wordings
SelectRubric(r) == r \in rubricCatalog \cup {0} /\ r # desk.rubric /\ Shape([desk EXCEPT !.rubric = r]) /\ UNCHANGED wordings
\* The check's fields are disabled once attempts are known.
CheckEditable == ~desk.locked
RewordCheck == CheckEditable /\ desk.check # 0 /\ wordings' = wordings + 1 /\ Shape([desk EXCEPT !.check = wordings'])
ToggleCheck ==
    /\ CheckEditable /\ wordings' = IF desk.check = 0 THEN wordings + 1 ELSE wordings
    /\ Shape([desk EXCEPT !.check = IF @ = 0 THEN wordings' ELSE 0])

(***************************************************************************)
(* The buttons.                                                            *)
(***************************************************************************)
HandleCreateObjective ==
    /\ ~creatingObjective /\ DeskSpend /\ creatingObjective' = TRUE /\ deskMessage' = "none" /\ DeskCall("objective")
    /\ UNCHANGED <<desk, shownArchived, objectiveCatalog, rubricCatalog, confirmArchive, creatingRubric, savingLesson, archiveSaving, deskServer, wordings>>
HandleCreateRubric ==
    /\ ~creatingRubric /\ DeskSpend /\ creatingRubric' = TRUE /\ deskMessage' = "none" /\ DeskCall("rubric")
    /\ UNCHANGED <<desk, shownArchived, objectiveCatalog, rubricCatalog, confirmArchive, creatingObjective, savingLesson, archiveSaving, deskServer, wordings>>
HandleSaveLesson ==
    /\ ~savingLesson /\ DeskSpend /\ savingLesson' = TRUE /\ deskMessage' = "none" /\ DeskCall("save")
    /\ UNCHANGED <<desk, shownArchived, objectiveCatalog, rubricCatalog, confirmArchive, creatingObjective, creatingRubric, archiveSaving, deskServer, wordings>>
\* "Archive exercise" asks once more; while archived there is "Restore exercise".
AskArchive ==
    /\ ~shownArchived /\ ~archiveSaving /\ DeskSpend /\ confirmArchive' = ~confirmArchive
    /\ UNCHANGED <<desk, shownArchived, objectiveCatalog, rubricCatalog, deskMessage, deskFlags, deskCalls, deskServer, wordings>>
ArchiveOffered == IF shownArchived THEN ~archiveSaving ELSE confirmArchive /\ ~archiveSaving
HandleArchive ==
    /\ ArchiveOffered /\ DeskSpend /\ archiveSaving' = TRUE /\ DeskCall(IF shownArchived THEN "restore" ELSE "archive")
    /\ UNCHANGED <<deskPage, creatingObjective, creatingRubric, savingLesson, deskServer, wordings>>

(***************************************************************************)
(* The server.                                                             *)
(***************************************************************************)
\* A student answers the check; attempts are never taken back here.
StudentAnswers ==
    /\ lessonRow.check # 0 /\ ~attempted /\ DeskSpend /\ attempted' = TRUE
    /\ UNCHANGED <<deskPage, deskFlags, deskCalls, lessonRow, objectiveCount, rubricCount, wordings>>
\* Mutant: attempts are looked at only when the check is removed.
PreservesUnlessReworded(form) == attempted => (form.check = 0) = (lessonRow.check = 0)
\* changes_preserve_attempt_evidence, and attempts' restrict_with_error
PreservesEvidence(form) == attempted => form.check = lessonRow.check
Answer(c, step, got) == deskCalls' = (deskCalls \ {c}) \cup {[c EXCEPT !.step = step, !.got = got, !.form = NoForm]}
AsNumber(b) == IF b THEN 1 ELSE 0
\* The save's transaction: its validations, then its writes.  got keeps whether
\* the validations saw an attempt.
ValidateSave(c) ==
    /\ c.op = "save" /\ c.step = "sent"
    /\ IF PreservesEvidence(c.form) THEN deskCalls' = (deskCalls \ {c}) \cup {[c EXCEPT !.step = "checked", !.got = AsNumber(attempted)]} ELSE Answer(c, "refused", 0)
    /\ UNCHANGED <<deskPage, deskFlags, deskServer, wordings, deskActs>>
\* update_editor: the lesson, its exercise's rubric, the check and the
\* alignments; the answer holds the lesson as it then is.  The attempts' foreign
\* key keeps the check's row.
CommitSave(c) ==
    /\ c.op = "save" /\ c.step = "checked"
    /\ IF attempted /\ c.form.check = 0 /\ lessonRow.check # 0
       THEN Answer(c, "refused", 0) /\ UNCHANGED lessonRow
       ELSE /\ lessonRow' = [lessonRow EXCEPT !.aligned = c.form.aligned, !.rubric = c.form.rubric, !.check = c.form.check]
            /\ deskCalls' = (deskCalls \ {c}) \cup {[c EXCEPT !.step = "done", !.form.locked = attempted, !.got = AsNumber(lessonRow.archived)]}
    /\ UNCHANGED <<deskPage, deskFlags, attempted, objectiveCount, rubricCount, wordings, deskActs>>
ServeObjective(c) ==
    /\ c.op = "objective" /\ c.step = "sent"
    /\ objectiveCount' = objectiveCount + 1 /\ lessonRow' = [lessonRow EXCEPT !.aligned = @ \cup {objectiveCount'}]
    /\ deskCalls' = (deskCalls \ {c}) \cup {[c EXCEPT !.step = "done", !.got = objectiveCount']}
    /\ UNCHANGED <<deskPage, deskFlags, attempted, rubricCount, wordings, deskActs>>
ServeRubric(c) ==
    /\ c.op = "rubric" /\ c.step = "sent"
    /\ rubricCount' = rubricCount + 1 /\ Answer(c, "done", rubricCount')
    /\ UNCHANGED <<deskPage, deskFlags, lessonRow, attempted, objectiveCount, wordings, deskActs>>
ServeArchive(c) ==
    /\ c.op \in {"archive", "restore"} /\ c.step = "sent"
    /\ lessonRow' = [lessonRow EXCEPT !.archived = (c.op = "archive")] /\ Answer(c, "done", AsNumber(c.op = "archive"))
    /\ UNCHANGED <<deskPage, deskFlags, attempted, objectiveCount, rubricCount, wordings, deskActs>>
ServeCatalog(c) ==
    /\ c.op = "catalog" /\ c.step = "sent" /\ Answer(c, "done", objectiveCount)
    /\ UNCHANGED <<deskPage, deskFlags, deskServer, wordings, deskActs>>
DeskFails(c) ==
    /\ c.step \in {"sent", "checked", "done"} /\ DeskSpend /\ Answer(c, "refused", 0)
    /\ UNCHANGED <<deskPage, deskFlags, deskServer, wordings>>

(***************************************************************************)
(* The answers.                                                            *)
(***************************************************************************)
ObjectiveAnswered(c) ==
    /\ c.op = "objective" /\ c.step = "done"
    /\ objectiveCatalog' = objectiveCatalog \cup {c.got} /\ desk' = [desk EXCEPT !.aligned = c.form.aligned \cup {c.got}]
    /\ creatingObjective' = FALSE /\ deskMessage' = "objective" /\ deskCalls' = deskCalls \ {c}
    /\ UNCHANGED <<shownArchived, rubricCatalog, confirmArchive, creatingRubric, savingLesson, archiveSaving, deskServer, wordings, deskActs>>
RubricAnswered(c) ==
    /\ c.op = "rubric" /\ c.step = "done"
    /\ rubricCatalog' = rubricCatalog \cup {c.got} /\ desk' = [desk EXCEPT !.rubric = c.got]
    /\ creatingRubric' = FALSE /\ deskMessage' = "rubric" /\ deskCalls' = deskCalls \ {c}
    /\ UNCHANGED <<shownArchived, objectiveCatalog, confirmArchive, creatingObjective, savingLesson, archiveSaving, deskServer, wordings, deskActs>>
LessonSaved(c) ==
    /\ c.op = "save" /\ c.step = "done"
    /\ desk' = c.form /\ shownArchived' = (c.got = 1)
    /\ savingLesson' = FALSE /\ deskMessage' = "saved" /\ deskCalls' = deskCalls \ {c}
    /\ UNCHANGED <<objectiveCatalog, rubricCatalog, confirmArchive, creatingObjective, creatingRubric, archiveSaving, deskServer, wordings, deskActs>>
ArchiveAnswered(c) ==
    /\ c.op \in {"archive", "restore"} /\ c.step = "done"
    /\ shownArchived' = (c.got = 1) /\ confirmArchive' = (confirmArchive /\ c.op = "restore")
    /\ archiveSaving' = FALSE /\ deskMessage' = "archive" /\ deskCalls' = deskCalls \ {c}
    /\ UNCHANGED <<desk, objectiveCatalog, rubricCatalog, creatingObjective, creatingRubric, savingLesson, deskServer, wordings, deskActs>>
CatalogAnswered(c) ==
    /\ c.op = "catalog" /\ c.step \in {"done", "refused"} /\ deskCalls' = deskCalls \ {c}
    /\ objectiveCatalog' = IF c.step = "done" THEN 1 .. c.got ELSE objectiveCatalog
    /\ UNCHANGED <<desk, shownArchived, rubricCatalog, confirmArchive, deskMessage, deskFlags, deskServer, wordings, deskActs>>
DeskRefused(c) ==
    /\ c.op # "catalog" /\ c.step = "refused" /\ deskMessage' = "error" /\ deskCalls' = deskCalls \ {c}
    /\ creatingObjective' = (creatingObjective /\ c.op # "objective") /\ creatingRubric' = (creatingRubric /\ c.op # "rubric")
    /\ savingLesson' = (savingLesson /\ c.op # "save") /\ archiveSaving' = (archiveSaving /\ c.op \notin {"archive", "restore"})
    /\ UNCHANGED <<desk, shownArchived, objectiveCatalog, rubricCatalog, confirmArchive, deskServer, wordings, deskActs>>

DeskStep ==
    \E c \in deskCalls : \/ ValidateSave(c) \/ CommitSave(c) \/ ServeObjective(c) \/ ServeRubric(c) \/ ServeArchive(c) \/ ServeCatalog(c)
                         \/ ObjectiveAnswered(c) \/ RubricAnswered(c) \/ LessonSaved(c) \/ ArchiveAnswered(c)
                         \/ CatalogAnswered(c) \/ DeskRefused(c)
DeskNext ==
    \/ \E o \in 1 .. objectiveCount : AddExistingObjective(o) \/ RemoveObjective(o)
    \/ \E r \in 0 .. rubricCount : SelectRubric(r)
    \/ RewordCheck \/ ToggleCheck \/ HandleCreateObjective \/ HandleCreateRubric \/ HandleSaveLesson \/ AskArchive \/ HandleArchive
    \/ StudentAnswers
    \/ \E c \in deskCalls : DeskFails(c)
    \/ DeskStep
\* fetchApi gives every request a time limit, so each is answered or fails.
DeskFairness == WF_deskVars(DeskStep)
DeskSpec == DeskInit /\ [][DeskNext]_deskVars /\ DeskFairness

\* A recall check that a student has answered is never removed, whatever the
\* editor knows of the attempt, and it is reworded only by a save whose validation
\* ran before the answer: validation and write are two statements of update_editor.
AttemptedCheckImmutable ==
    [][ attempted /\ lessonRow'.check # lessonRow.check
          => lessonRow'.check # 0 /\ \E c \in deskCalls : c.step = "checked" /\ c.got = 0 ]_deskVars

\* The editor's buttons come back, whichever of the requests fail and overlap.
DeskFlagsEnd == []<>~(creatingObjective \/ creatingRubric \/ savingLesson \/ archiveSaving)
=============================================================================
