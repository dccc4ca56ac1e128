-------------------------- MODULE CurriculumBoard --------------------------
(***************************************************************************)
(* A module on the content page (web/src/pages/admin/ContentManagement.tsx *)
(* with NewExerciseModal.tsx and NewModuleModal.tsx): its weeks and days,  *)
(* the slot the page proposes for the next exercise, creating and          *)
(* restoring exercises, changing the weekly schedule, creating modules;    *)
(* and the two validations by which the server keeps the exercises on      *)
(* scheduled days (models/lesson.rb, models/curriculum_module.rb).         *)
(*                                                                         *)
(* An exercise is its id, its release day, counted from 0 over weeks of 7, *)
(* and if it is archived.  The server checks a request and commits it in   *)
(* two steps: neither validation locks the rows it reads.                  *)
(***************************************************************************)
EXTENDS Integers, Sequences, FiniteSets, FiniteSetsExt, SequencesExt

CONSTANTS Patterns,    \* schedules staff choose from
          MaxWeeks,    \* bound on the weeks staff use
          MaxLessons,  \* bound on the exercises
          MaxWriters,  \* bound on the write requests under way at once
          MaxClicks    \* bound on what staff send
ASSUME BoardAssumption ==
    /\ Patterns \subseteq {"weekdays", "weekdays_sat", "mwf", "tth", "daily"}
    /\ {MaxWeeks, MaxLessons, MaxWriters, MaxClicks} \subseteq Nat \ {0}

VARIABLES schedule,      \* the module's schedule_days on the server
          exercises,     \* its exercises on the server
          board,         \* the page's copy: [schedule, lessons]
          activeWeek, extraWeek,
          slotForm,      \* {} or the schedule whose days the exercise form offers
          moduleForm,    \* the new-module form is open
          exerciseSaving, moduleSaving, scheduleSaving, restoringId,
          requests, clicks
boardVars == <<schedule, exercises, board, activeWeek, extraWeek, slotForm, moduleForm,
               exerciseSaving, moduleSaving, scheduleSaving, restoringId, requests, clicks>>
flagVars == <<exerciseSaving, moduleSaving, scheduleSaving, restoringId>>
tabVars == <<activeWeek, extraWeek>>

\* SCHEDULE_DAY_INDICES
Indices(pattern) ==
    CASE pattern = "weekdays" -> <<0, 1, 2, 3, 4>>
      [] pattern = "weekdays_sat" -> <<0, 1, 2, 3, 4, 5>>
      [] pattern = "mwf" -> <<0, 2, 4>>
      [] pattern = "tth" -> <<1, 3>>
      [] pattern = "daily" -> <<0, 1, 2, 3, 4, 5, 6>>
ValidReleaseDay(pattern, day) == Contains(Indices(pattern), day % 7)
WeekOf(day) == (day \div 7) + 1

ActiveOf(S) == {l \in S : ~l.archived}
DaysOf(S) == {l.day : l \in S}
WeekNumbers == {WeekOf(d) : d \in DaysOf(ActiveOf(board.lessons))} \cup ({extraWeek} \ {0})
\* daysInActiveWeek: the week's scheduled days with their exercises.
Drawn(week) == {l \in ActiveOf(board.lessons) : \E i \in ToSet(Indices(board.schedule)) : l.day = (week - 1) * 7 + i}

\* Mutant: after the week's last scheduled day its first one is proposed again.
NextSlotSameWeek(pattern, S) ==
    LET si == Indices(pattern)
        lastDay == Max(DaysOf(ActiveOf(S)))
        pos == {i \in 1 .. Len(si) : si[i] = lastDay % 7}
    IN IF ActiveOf(S) = {} THEN <<1, si[1]>>
       ELSE IF pos = {} THEN <<WeekOf(lastDay) + 1, si[1]>>
       ELSE <<WeekOf(lastDay), si[(Min(pos) % Len(si)) + 1]>>
(***************************************************************************)
(* The slot behind the "Exercise" button of the module's header: the       *)
(* schedule's next day in the week of the last exercise, or its first day  *)
(* in the week after.                                                      *)
(***************************************************************************)
NextSlot(pattern, S) ==
    LET si == Indices(pattern)
        lastDay == Max(DaysOf(ActiveOf(S)))
        pos == {i \in 1 .. Len(si) - 1 : si[i] = lastDay % 7}
    IN IF ActiveOf(S) = {} THEN <<1, si[1]>>
       ELSE IF pos = {} THEN <<WeekOf(lastDay) + 1, si[1]>>
       ELSE <<WeekOf(lastDay), si[Min(pos) + 1]>>
SlotDay(slot) == (slot[1] - 1) * 7 + slot[2]

Request(for, value) == [for |-> for, value |-> value, step |-> "sent", answer |-> {}, id |-> clicks]
Writers == {r \in requests : r.for # "reload"}
Click(for, value) ==
    /\ clicks < MaxClicks /\ Cardinality(Writers) < MaxWriters
    /\ clicks' = clicks + 1
    /\ requests' = requests \cup {Request(for, value)}
    /\ UNCHANGED <<schedule, exercises, board>>
\* A modal covers the board.
Covered == slotForm # {} \/ moduleForm

BoardInit ==
    /\ schedule \in Patterns
    /\ \E d \in {x \in 0 .. 6 : ValidReleaseDay(schedule, x)}, a \in BOOLEAN : exercises = {[id |-> 1, day |-> d, archived |-> a]}
    /\ board = [schedule |-> schedule, lessons |-> exercises]
    /\ activeWeek = 1 /\ extraWeek = 0
    /\ slotForm = {} /\ moduleForm = FALSE
    /\ exerciseSaving = FALSE /\ moduleSaving = FALSE /\ scheduleSaving = FALSE /\ restoringId = 0
    /\ requests = {} /\ clicks = 0

SetWeek(w) ==
    /\ ~Covered /\ w \in WeekNumbers /\ w # activeWeek
    /\ clicks < MaxClicks /\ clicks' = clicks + 1
    /\ activeWeek' = w
    /\ UNCHANGED <<schedule, exercises, board, extraWeek, slotForm, moduleForm, flagVars, requests>>
\* addWeek counts the weeks of archived exercises too.
AddWeek ==
    /\ ~Covered
    /\ clicks < MaxClicks /\ clicks' = clicks + 1
    /\ LET used == {WeekOf(d) : d \in DaysOf(board.lessons)}
           nextWeek == IF used = {} THEN 1 ELSE Max(used) + 1
       IN activeWeek' = nextWeek /\ extraWeek' = nextWeek
    /\ UNCHANGED <<schedule, exercises, board, slotForm, moduleForm, flagVars, requests>>
\* openExerciseForDay, from the header and from a day of the active week.
OpenExercise ==
    /\ ~Covered /\ slotForm' = {board.schedule}
    /\ UNCHANGED <<schedule, exercises, board, tabVars, moduleForm, flagVars, requests, clicks>>
CloseForm ==
    /\ Covered /\ slotForm' = {} /\ moduleForm' = FALSE
    /\ UNCHANGED <<schedule, exercises, board, tabVars, flagVars, requests, clicks>>
\* handleSubmit and onCreate of the exercise form: any week, and a day of the
\* schedule the form was opened with.
CreateExerciseAt(slot) ==
    \E pattern \in slotForm :
       /\ ~exerciseSaving /\ Contains(Indices(pattern), slot[2])
       /\ Click("create", SlotDay(slot))
       /\ exerciseSaving' = TRUE
       /\ UNCHANGED <<tabVars, slotForm, moduleForm, moduleSaving, scheduleSaving, restoringId>>
OpenModuleForm ==
    /\ ~Covered /\ moduleForm' = TRUE
    /\ UNCHANGED <<schedule, exercises, board, tabVars, slotForm, flagVars, requests, clicks>>
CreateModule ==
    /\ moduleForm /\ ~moduleSaving
    /\ Click("module", 0)
    /\ moduleSaving' = TRUE
    /\ UNCHANGED <<tabVars, slotForm, moduleForm, exerciseSaving, scheduleSaving, restoringId>>
UpdateModuleSchedule(pattern) ==
    /\ ~Covered /\ ~scheduleSaving /\ pattern # board.schedule
    /\ Click("schedule", pattern)
    /\ scheduleSaving' = TRUE
    /\ UNCHANGED <<tabVars, slotForm, moduleForm, exerciseSaving, moduleSaving, restoringId>>
RestoreLesson(l) ==
    /\ ~Covered /\ l \in board.lessons /\ l.archived /\ restoringId # l.id
    /\ Click("restore", l.id)
    /\ restoringId' = l.id
    /\ UNCHANGED <<tabVars, slotForm, moduleForm, exerciseSaving, moduleSaving, scheduleSaving>>

(***************************************************************************)
(* The server.  A schedule must not exclude an exercise, archived ones     *)
(* included; an exercise must be on a day of the schedule its request      *)
(* loaded.                                                                 *)
(***************************************************************************)
Valid(r) ==
    CASE r.for = "schedule" -> r.value = schedule \/ \A l \in exercises : ValidReleaseDay(r.value, l.day)
      [] r.for = "create" -> ValidReleaseDay(schedule, r.value)
      [] OTHER -> TRUE
Moved(r, step, answer) == requests' = (requests \ {r}) \cup {[r EXCEPT !.step = step, !.answer = answer]}
Check(r) ==
    /\ r \in requests /\ r.step = "sent" /\ r.for # "reload"
    /\ Moved(r, IF Valid(r) THEN "checked" ELSE "refused", {})
    /\ UNCHANGED <<schedule, exercises, board, tabVars, slotForm, moduleForm, flagVars, clicks>>
NewLesson(day) == [id |-> Cardinality(exercises) + 1, day |-> day, archived |-> FALSE]
Commit(r) ==
    /\ r \in requests /\ r.step = "checked"
    /\ r.for = "create" => Cardinality(exercises) < MaxLessons
    /\ schedule' = IF r.for = "schedule" THEN r.value ELSE schedule
    /\ exercises' = CASE r.for = "create" -> exercises \cup {NewLesson(r.value)}
                    [] r.for = "restore" -> {IF l.id = r.value THEN [l EXCEPT !.archived = FALSE] ELSE l : l \in exercises}
                    [] OTHER -> exercises
    /\ Moved(r, "ok", {})
    /\ UNCHANGED <<board, tabVars, slotForm, moduleForm, flagVars, clicks>>
CurriculumServed(r) ==
    /\ r \in requests /\ r.step = "sent" /\ r.for = "reload"
    /\ Moved(r, "ok", {[schedule |-> schedule, lessons |-> exercises]})
    /\ UNCHANGED <<schedule, exercises, board, tabVars, slotForm, moduleForm, flagVars, clicks>>
\* The request is lost, times out, or its answer does.
RequestFails(r) ==
    /\ r \in requests /\ r.step \in {"sent", "checked", "ok"}
    /\ Moved(r, "refused", {})
    /\ UNCHANGED <<schedule, exercises, board, tabVars, slotForm, moduleForm, flagVars, clicks>>
\* Someone archives an exercise in the lesson editor.
ArchivedElsewhere(l) ==
    /\ clicks < MaxClicks /\ clicks' = clicks + 1
    /\ l \in exercises /\ ~l.archived
    /\ exercises' = (exercises \ {l}) \cup {[l EXCEPT !.archived = TRUE]}
    /\ UNCHANGED <<schedule, board, tabVars, slotForm, moduleForm, flagVars, requests>>

\* An error is shown and the form stays open.
Refused(r) ==
    /\ r \in requests /\ r.step = "refused" /\ r.for # "reload"
    /\ requests' = requests \ {r}
    /\ exerciseSaving' = (exerciseSaving /\ r.for # "create")
    /\ moduleSaving' = (moduleSaving /\ r.for # "module")
    /\ scheduleSaving' = (scheduleSaving /\ r.for # "schedule")
    /\ restoringId' = IF r.for = "restore" THEN 0 ELSE restoringId
    /\ UNCHANGED <<schedule, exercises, board, tabVars, slotForm, moduleForm, clicks>>
\* Creating and restoring go on with loadCurricula; the exercise form closes first.
Accepted(r) ==
    /\ r \in requests /\ r.step = "ok" /\ r.for \in {"create", "restore", "module"}
    /\ requests' = (requests \ {r}) \cup {[Request("reload", r.for) EXCEPT !.id = r.id]}
    /\ exerciseSaving' = (exerciseSaving /\ r.for # "create")
    /\ slotForm' = IF r.for = "create" THEN {} ELSE slotForm
    /\ UNCHANGED <<schedule, exercises, board, tabVars, moduleForm, moduleSaving, scheduleSaving, restoringId, clicks>>
\* The new schedule is put into the copy as it is now.
ScheduleUpdated(r) ==
    /\ r \in requests /\ r.step = "ok" /\ r.for = "schedule"
    /\ requests' = requests \ {r}
    /\ board' = [board EXCEPT !.schedule = r.value]
    /\ scheduleSaving' = FALSE
    /\ UNCHANGED <<schedule, exercises, tabVars, slotForm, moduleForm, exerciseSaving, moduleSaving, restoringId, clicks>>
CurriculaLoaded(r) ==
    /\ r \in requests /\ r.for = "reload" /\ r.step \in {"ok", "refused"}
    /\ requests' = requests \ {r}
    /\ board' \in IF r.step = "ok" THEN r.answer ELSE {board}
    /\ restoringId' = IF r.value = "restore" THEN 0 ELSE restoringId
    /\ moduleSaving' = (moduleSaving /\ r.value # "module")
    /\ moduleForm' = (moduleForm /\ r.value # "module")
    /\ UNCHANGED <<schedule, exercises, tabVars, slotForm, exerciseSaving, scheduleSaving, clicks>>

BoardStep(r) ==
    \/ Check(r) \/ Commit(r) \/ CurriculumServed(r) \/ RequestFails(r)
    \/ Refused(r) \/ Accepted(r) \/ ScheduleUpdated(r) \/ CurriculaLoaded(r)
BoardNext ==
    \/ \E w \in WeekNumbers : SetWeek(w)
    \/ AddWeek \/ OpenExercise \/ CloseForm \/ OpenModuleForm \/ CreateModule
    \/ \E w \in 1 .. MaxWeeks, d \in 0 .. 6 : CreateExerciseAt(<<w, d>>)
    \/ \E p \in Patterns : UpdateModuleSchedule(p)
    \/ \E l \in board.lessons : RestoreLesson(l)
    \/ \E l \in exercises : ArchivedElsewhere(l)
    \/ \E r \in requests : BoardStep(r)
BoardFairness == WF_boardVars(\E r \in requests : BoardStep(r))
BoardSpec == BoardInit /\ [][BoardNext]_boardVars /\ BoardFairness

(***************************************************************************)
(* The slot behind the "Exercise" button is the first scheduled day after  *)
(* the last exercise, and a day the form offers and the server accepts,    *)
(* whatever schedule, exercises and archived exercises the board has.      *)
(***************************************************************************)
SlotIsNext ==
    LET day == SlotDay(NextSlot(board.schedule, board.lessons))
        after == {d \in 0 .. 7 * (MaxWeeks + 1) - 1 :
                     /\ ValidReleaseDay(board.schedule, d)
                     /\ \A l \in ActiveOf(board.lessons) : l.day < d}
    IN day = Min(after)

(***************************************************************************)
(* No exercise drops off the board: it draws only the scheduled days of a  *)
(* week, and every exercise the server has, archived ones too, is on such  *)
(* a day, and every active one of the page's copy is under some tab.  The  *)
(* schedule's and the exercise's validation hold it up from the two sides, *)
(* as long as the server works on one of them at a time.                   *)
(***************************************************************************)
LessonsOnSchedule ==
    /\ \A l \in exercises : ValidReleaseDay(schedule, l.day)
    /\ \A l \in ActiveOf(board.lessons) : \E w \in WeekNumbers : l \in Drawn(w)

\* The slot proposed for a new exercise is the first free day after the others,
\* and no exercise is stored off the schedule or left out of the board
\* (getNextSlot, release_day_matches_module_schedule).
LessonsPlaced == SlotIsNext /\ LessonsOnSchedule

(***************************************************************************)
(* Every save, schedule change and restore ends, refused or not, and gives *)
(* its control back.                                                       *)
(***************************************************************************)
BoardSettles ==
    /\ []<>~exerciseSaving
    /\ []<>~moduleSaving
    /\ []<>~scheduleSaving
    /\ []<>(restoringId = 0)
=============================================================================
