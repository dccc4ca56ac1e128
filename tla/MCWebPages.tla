------------------------------ MODULE MCWebPages ------------------------------
(* The staff's pages, the announcements page and the recordings page, for    *)
(* TLC.  They share no browser state: one runs in a behaviour (which, chosen *)
(* at the start) and the others keep their first state.  Fairness is that of *)
(* each component.                                                           *)
EXTENDS CohortPage, GradingDesk, CurriculumBoard, StudentAccess,
        CohortRoster, RecordingLibrary, LessonDesk, UpdatesFeed,
        RecordingsPage

VARIABLE which

RestingBoard == [schedule |-> "weekdays", lessons |-> {[id |-> 1, day |-> 1, archived |-> FALSE]}]

Frozen(run) ==
    /\ UNCHANGED which
    /\ run # "cohort" => UNCHANGED cohortVars
    /\ run # "grading" => UNCHANGED gradingVars
    /\ run # "board" => UNCHANGED boardVars
    /\ run # "access" => UNCHANGED accessVars
    /\ run # "roster" => UNCHANGED rosterVars
    /\ run # "library" => UNCHANGED libraryVars
    /\ run # "desk" => UNCHANGED deskVars
    /\ run # "feed" => UNCHANGED feedVars
    /\ run # "shelf" => UNCHANGED shelfVars

WebInit ==
    /\ which \in {"cohort", "grading", "board", "access", "roster", "library", "desk", "feed", "shelf"}
    /\ CohortInit
    /\ GradingInit
    /\ BoardInit /\ (which # "board" => board = RestingBoard)
    /\ AccessInit /\ (which # "access" => rows.lesson.id = 0)
    /\ RosterInit
    /\ LibraryInit
    /\ DeskInit
    /\ FeedInit
    /\ ShelfInit /\ (which # "shelf" => shelf = {})

WebNext ==
    \/ which = "cohort"  /\ CohortNext /\ Frozen("cohort")
    \/ which = "grading" /\ GradingNext /\ Frozen("grading")
    \/ which = "board"   /\ BoardNext /\ Frozen("board")
    \/ which = "access"  /\ AccessNext /\ Frozen("access")
    \/ which = "roster"  /\ RosterNext /\ Frozen("roster")
    \/ which = "library" /\ LibraryNext /\ Frozen("library")
    \/ which = "desk"    /\ DeskNext /\ Frozen("desk")
    \/ which = "feed"    /\ FeedNext /\ Frozen("feed")
    \/ which = "shelf"   /\ ShelfNext /\ Frozen("shelf")

WebVars == <<which, cohortVars, gradingVars, boardVars, accessVars, rosterVars, libraryVars,
               deskVars, feedVars, shelfVars>>

WebSpec ==
    /\ WebInit /\ [][WebNext]_WebVars
    /\ WF_cohortVars(which = "cohort" /\ \E c \in calls : Serve(c))
    /\ WF_cohortVars(which = "cohort" /\ \E c \in calls : Arrive(c))
    /\ WF_gradingVars(which = "grading" /\ GradingSettles)
    /\ WF_boardVars(which = "board" /\ \E r \in requests : BoardStep(r))
    /\ WF_accessVars(which = "access" /\ AccessStep)
    /\ WF_rosterVars(which = "roster" /\ RosterStep)
    /\ WF_libraryVars(which = "library" /\ LibraryStep)
    /\ WF_deskVars(which = "desk" /\ DeskStep)
    /\ WF_feedVars(which = "feed" /\ \E r \in feedRequests: FeedReplies(r))

\* The announcements page comes back and its buttons with it, whatever fails.
AnnouncementsSettle == []<>(which = "feed" => ~spinner /\ ~savingPost /\ archivingId = 0)

\* A spinner or a busy button always has a call behind it that will end it: the
\* cohort's settings, the grading desk, the student page and the announcements.
FlagsHaveCalls == BusyHasCall /\ GradingHasCall /\ FlagHasCall /\ SpinnerHasLoad

\* The pages about recordings: a file is uploaded once, a tab that is shown has
\* items, and progress is drawn on the recording it was saved for
\* (RecordingUploadManager.tsx, Recordings.tsx).
RecordingsSound == UploadedOnce /\ TabHasItems /\ ProgressBelongs

\* Whatever fails and in whatever order calls are answered, no page stays busy, and
\* a recording that was stored appears in its list or an error is shown.
PagesSettle ==
    /\ SavesEnd /\ GradingEnds /\ BoardSettles /\ FlagsLifted /\ RosterSettles
    /\ NewRecordingAppears /\ EditEnds /\ DeskFlagsEnd /\ AnnouncementsSettle
=============================================================================
