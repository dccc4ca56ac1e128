----------------------------- MODULE CohortPage -----------------------------
(***************************************************************************)
(* The forms of the cohort settings page (web/src/pages/admin/             *)
(* CohortDetail.tsx).  The page has one form per section: the cohort's     *)
(* status and start date, its external recordings and resources, and for   *)
(* each module its access and its weekly submission windows.  A save sends *)
(* one section, except that a module's configuration is two saves and a    *)
(* reload.  Every answer that carries the cohort rewrites every form.      *)
(*                                                                         *)
(* A form's contents are a number: 0 is what the cohort had at first, and  *)
(* every edit is a new number.                                             *)
(***************************************************************************)
EXTENDS Integers, FiniteSets

CONSTANTS Modules,     \* modules of the cohort: positive numbers
          MaxActs      \* bound on what staff edit and save
ASSUME CohortAssumption == Modules \subseteq Nat \ {0} /\ MaxActs \in Nat

VARIABLES served,      \* the server's cohort
          cohort,      \* the page's copy of it
          cohortPage,  \* what the forms hold
          confirming,  \* statusPendingConfirmation
          saving,      \* savingStatus, savingStartDate, savingRecordings, savingResources
          savingModuleId,
          calls,       \* requests under way
          note,        \* message
          acts
cohortVars == <<served, cohort, cohortPage, confirming, saving, savingModuleId, calls, note, acts>>

Simple == {"status", "start", "recordings", "resources"}
Sections == (Simple \X {0}) \cup ({"access", "windows", "assigned"} \X Modules)
Nothing == <<"none", 0>>
Reads(c) == c.for \in {"reload", "windows reload", "config reload", "config restore"}
ModuleOf(c) == IF c.for \in {"save", "reload"} THEN 0 ELSE c.sec[2]

Call(for, sec, value, keep, id) ==
    [for |-> for, sec |-> sec, value |-> value, keep |-> keep, step |-> "sent", answer |-> cohort, id |-> id]

CohortInit ==
    /\ served = [s \in Sections |-> 0] /\ cohort = served /\ cohortPage = served
    /\ confirming = {} /\ saving = {} /\ savingModuleId = 0
    /\ calls = {} /\ note = <<"none", 0>> /\ acts = 0

\* updateForm, updateSubmissionWindow and the setters behind the inputs.
Edit(s) ==
    /\ s[1] # "assigned" /\ acts < MaxActs /\ confirming = {}
    /\ acts' = acts + 1
    /\ cohortPage' = [cohortPage EXCEPT ![s] = acts']
    /\ UNCHANGED <<served, cohort, confirming, saving, savingModuleId, calls, note>>

Send(c) ==
    /\ calls' = calls \cup {c}
    /\ note' = Nothing
    /\ acts' = acts + 1
    /\ UNCHANGED <<served, cohort, cohortPage>>
\* The button is there when the form differs from the copy, for the status and
\* the date; archiving or completing a cohort is confirmed first.
SaveForm(kind) ==
    LET s == <<kind, 0>> IN
    /\ acts < MaxActs /\ confirming = {} /\ kind \notin saving
    /\ kind \in {"status", "start"} => cohortPage[s] # cohort[s]
    /\ saving' = saving \cup {kind}
    /\ Send(Call("save", s, cohortPage[s], 0, acts))
    /\ UNCHANGED <<confirming, savingModuleId>>
AskStatus ==
    /\ confirming = {} /\ "status" \notin saving /\ cohortPage[<<"status", 0>>] # cohort[<<"status", 0>>]
    /\ confirming' = {cohortPage[<<"status", 0>>]}
    /\ UNCHANGED <<served, cohort, cohortPage, saving, savingModuleId, calls, note, acts>>
CancelStatus ==
    /\ confirming # {} /\ confirming' = {}
    /\ UNCHANGED <<served, cohort, cohortPage, saving, savingModuleId, calls, note, acts>>
\* updateCohortStatus returns at once if the status became the pending one.
ConfirmStatus ==
    \E v \in confirming :
       /\ confirming' = {}
       /\ UNCHANGED <<savingModuleId>>
       /\ IF v = cohort[<<"status", 0>>]
          THEN UNCHANGED <<served, cohort, cohortPage, saving, calls, note, acts>>
          ELSE /\ acts < MaxActs /\ saving' = saving \cup {"status"}
               /\ Send(Call("save", <<"status", 0>>, v, 0, acts))

\* saveModuleConfiguration, saveOnlySubmissionWindows, assignModuleToCohort
\* and removeModuleFromCohort.
SaveModule(m, for) ==
    /\ acts < MaxActs /\ confirming = {} /\ savingModuleId # m
    /\ savingModuleId' = m
    /\ UNCHANGED <<confirming, saving>>
    /\ \/ /\ for = "config access"
          /\ Send(Call(for, <<"access", m>>, cohortPage[<<"access", m>>], cohortPage[<<"windows", m>>], acts))
       \/ /\ for = "windows"
          /\ Send(Call(for, <<"windows", m>>, cohortPage[<<"windows", m>>], 0, acts))
       \/ /\ for = "assign"
          /\ Send(Call(for, <<"assigned", m>>, acts, 0, acts))
\* An upload or a deletion in RecordingUploadManager calls reloadCohort.
RecordingsChanged ==
    /\ acts < MaxActs
    /\ calls' = calls \cup {Call("reload", Nothing, 0, 0, acts)}
    /\ acts' = acts + 1
    /\ UNCHANGED <<served, cohort, cohortPage, confirming, saving, savingModuleId, note>>

\* The server does what is asked and answers with the cohort, refuses, or does
\* it and the answer is lost.
Serve(c) ==
    /\ c \in calls /\ c.step = "sent"
    /\ \E done \in BOOLEAN, step \in {"ok", "failed"} :
          /\ step = "ok" => done
          /\ served' = IF done /\ ~Reads(c) THEN [served EXCEPT ![c.sec] = c.value] ELSE served
          /\ calls' = (calls \ {c}) \cup {[c EXCEPT !.step = step, !.answer = served']}
    /\ UNCHANGED <<cohort, cohortPage, confirming, saving, savingModuleId, note, acts>>

\* applyCohort.
ApplyCohort(next) == cohort' = next /\ cohortPage' = next
KeepForms == UNCHANGED <<cohort, cohortPage>>
Ends(c, message) ==
    /\ calls' = calls \ {c} /\ note' = <<message, ModuleOf(c)>>
    /\ IF c.for = "save" THEN saving' = saving \ {c.sec[1]} /\ UNCHANGED savingModuleId
       ELSE savingModuleId' = 0 /\ UNCHANGED saving
Continues(c, for, sec, value) ==
    /\ calls' = (calls \ {c}) \cup {Call(for, sec, value, c.keep, c.id)}
    /\ UNCHANGED <<saving, savingModuleId, note>>
WindowsOf(c) == <<"windows", c.sec[2]>>

FormSaved(c) ==
    /\ c.step = "ok" /\ c.for \in {"save", "assign"}
    /\ ApplyCohort(c.answer) /\ Ends(c, "saved")
FormRefused(c) ==
    /\ c.step = "failed" /\ c.for \in {"save", "assign", "windows", "config access"}
    /\ KeepForms /\ Ends(c, "failed")
Reloaded(c) ==
    /\ c.step # "sent" /\ c.for = "reload"
    /\ IF c.step = "ok" THEN ApplyCohort(c.answer) ELSE KeepForms
    /\ calls' = calls \ {c} /\ UNCHANGED <<saving, savingModuleId, note>>
AccessSaved(c) ==
    /\ c.step = "ok" /\ c.for = "config access"
    /\ KeepForms /\ Continues(c, "config windows", WindowsOf(c), c.keep)
WindowsSaved(c) ==
    /\ c.step = "ok" /\ c.for \in {"config windows", "windows"}
    /\ KeepForms
    /\ Continues(c, IF c.for = "windows" THEN "windows reload" ELSE "config reload", c.sec, 0)
WindowsFailed(c) ==
    /\ c.step = "failed" /\ c.for = "config windows"
    /\ KeepForms /\ Continues(c, "config restore", c.sec, 0)
ModuleReloaded(c) ==
    /\ c.step # "sent" /\ c.for \in {"config reload", "windows reload"}
    /\ IF c.step = "ok" THEN ApplyCohort(c.answer) ELSE KeepForms
    /\ Ends(c, "saved")
\* After the reload the windows form gets back what was sent.
WindowsRestored(c) ==
    /\ c.step # "sent" /\ c.for = "config restore"
    /\ cohort' = IF c.step = "ok" THEN c.answer ELSE cohort
    /\ cohortPage' = [(IF c.step = "ok" THEN c.answer ELSE cohortPage) EXCEPT ![WindowsOf(c)] = c.keep]
    /\ Ends(c, "windows failed")

Arrive(c) ==
    /\ c \in calls
    /\ \/ FormSaved(c) \/ FormRefused(c) \/ Reloaded(c) \/ AccessSaved(c) \/ WindowsSaved(c)
       \/ WindowsFailed(c) \/ ModuleReloaded(c) \/ WindowsRestored(c)
    /\ UNCHANGED <<served, confirming, acts>>

CohortNext ==
    \/ \E s \in Sections : Edit(s)
    \/ \E k \in Simple : SaveForm(k)
    \/ AskStatus \/ CancelStatus \/ ConfirmStatus \/ RecordingsChanged
    \/ \E m \in Modules, f \in {"config access", "windows", "assign"} : SaveModule(m, f)
    \/ \E c \in calls : Serve(c)
    \/ \E c \in calls : Arrive(c)
\* fetchApi gives every request up after its timeout, and a promise that is
\* settled runs what awaits it.
CohortFairness == /\ WF_cohortVars(\E c \in calls : Serve(c))
                  /\ WF_cohortVars(\E c \in calls : Arrive(c))
CohortSpec == CohortInit /\ [][CohortNext]_cohortVars /\ CohortFairness

(***************************************************************************)
(* A button that says it is saving belongs to a request that is under way, *)
(* through both saves and the reload of a module's configuration: no step  *)
(* of a save that fails half-way leaves its button disabled.               *)
(***************************************************************************)
BusyHasCall ==
    /\ \A k \in saving : \E c \in calls : c.for = "save" /\ c.sec[1] = k
    /\ savingModuleId # 0 => \E c \in calls : ModuleOf(c) = savingModuleId

(***************************************************************************)
(* Every save ends: the server's answer, its refusal or the timeout makes  *)
(* each button usable again.                                               *)
(***************************************************************************)
SavesEnd ==
    /\ \A k \in Simple : []<>(k \notin saving)
    /\ []<>(savingModuleId = 0)
=============================================================================
