--------------------------- MODULE StudentAccess ----------------------------
(***************************************************************************)
(* The staff's page of one student (web/src/pages/admin/StudentDetail.tsx): *)
(* module assignments, one lesson's override, the student's profile and    *)
(* the restart of the class progress.  Every operation is a write followed *)
(* by a refresh of the page, and keeps its own busy flag for both.         *)
(*                                                                         *)
(* An assignment is its row's number, 0 for none, and whether it is open.  *)
(***************************************************************************)
EXTENDS Integers, FiniteSets

CONSTANTS Assignable,     \* the curriculum's modules
          MaxAccessActs   \* bound on what the staff do
ASSUME AccessAssumption == MaxAccessActs \in Nat

VARIABLES data,           \* the assignments as last shown: [mods, lesson]
          moduleForms, lessonForm,   \* assignmentForms; lessonAssignmentForms of the lesson
          busy,           \* operation -> what its flag names: 0 for none
          editingUser, accessMessage,
          accessCalls, rows, rowIds, accessActs
accessVars == <<data, moduleForms, lessonForm, busy, editingUser, accessMessage, accessCalls, rows, rowIds, accessActs>>
accessForms == <<moduleForms, lessonForm>>

NoRow == [id |-> 0, open |-> FALSE]
Operations == {"save", "create", "remove", "lesson", "user", "restart"}
\* Which forms a refresh fills; restartEnrollment and the profile set the data only.
Refills(op) == op \in {"save", "create", "remove", "lesson"}

AccessInit ==
    /\ \E l \in {0, 1} : rows = [mods |-> [m \in Assignable |-> NoRow], lesson |-> [id |-> l, open |-> l = 1]]
    /\ data = rows /\ moduleForms = [m \in Assignable |-> FALSE] /\ lessonForm = rows.lesson
    /\ busy = [op \in Operations |-> 0] /\ editingUser = FALSE /\ accessMessage = "none"
    /\ accessCalls = {} /\ rowIds = 1 /\ accessActs = 0

Spend == accessActs < MaxAccessActs /\ accessActs' = accessActs + 1
\* An operation begins: its flag, no message, and the write.
Begin(op, on, row, open) ==
    /\ Spend
    /\ busy' = [busy EXCEPT ![op] = on] /\ accessMessage' = "none"
    /\ accessCalls' = accessCalls \cup {[n |-> accessActs', op |-> op, on |-> on, row |-> row, open |-> open,
                                         step |-> "write", got |-> data]}
    /\ UNCHANGED <<data, accessForms, editingUser, rows, rowIds>>

(***************************************************************************)
(* What the staff do.  The list of assigned modules offers their forms,    *)
(* "Save Access" and "Remove"; the others can be assigned; a lesson's row  *)
(* opens its override.  What follows an operation's write is below.        *)
(***************************************************************************)
Assigned(m) == data.mods[m].id # 0
Unassigned(m) == data.mods[m].id = 0
OffersLesson == busy["lesson"] = 0
\* updateAssignmentForm
EditModule(m) ==
    /\ Assigned(m) /\ Spend /\ moduleForms' = [moduleForms EXCEPT ![m] = ~@]
    /\ UNCHANGED <<data, lessonForm, busy, editingUser, accessMessage, accessCalls, rows, rowIds>>
\* updateLessonAssignmentForm
EditLesson ==
    /\ Spend /\ lessonForm' = [lessonForm EXCEPT !.open = ~@]
    /\ UNCHANGED <<data, moduleForms, busy, editingUser, accessMessage, accessCalls, rows, rowIds>>
SaveAssignment(m) == Assigned(m) /\ busy["save"] # m /\ Begin("save", m, data.mods[m].id, moduleForms[m])
CreateModuleAssignment(m) == Unassigned(m) /\ busy["create"] # m /\ Begin("create", m, 0, FALSE)
DeleteModuleAssignment(m) == Assigned(m) /\ busy["remove"] # m /\ Begin("remove", m, data.mods[m].id, FALSE)
SaveLessonAssignment == OffersLesson /\ Begin("lesson", 1, lessonForm.id, lessonForm.open)
SaveUser == editingUser /\ busy["user"] = 0 /\ Begin("user", 1, 0, FALSE)
RestartEnrollment == busy["restart"] = 0 /\ Begin("restart", 1, 0, FALSE)
OpenUser ==
    /\ Spend /\ editingUser' = ~editingUser
    /\ UNCHANGED <<data, accessForms, busy, accessMessage, accessCalls, rows, rowIds>>

(***************************************************************************)
(* The server.  A row that is gone is not found; a lesson has one override. *)
(***************************************************************************)
\* Mutant: a save finds its row by module, as the create does.
FoundByModule(c) == c.op # "lesson" \/ rows.lesson.id = c.row
Found(c) == CASE c.op \in {"save", "remove"} -> rows.mods[c.on].id = c.row
              [] c.op = "lesson" -> rows.lesson.id = c.row
              [] OTHER -> TRUE
NewRow(c, old) == [id |-> IF old.id = 0 THEN rowIds + 1 ELSE old.id, open |-> c.open]
After(c) == CASE c.op \in {"save", "create"} -> [rows EXCEPT !.mods[c.on] = NewRow(c, @)]
              [] c.op = "remove" -> [rows EXCEPT !.mods[c.on] = NoRow]
              [] c.op = "lesson" -> [rows EXCEPT !.lesson = NewRow(c, @)]
              [] c.op = "restart" -> [rows EXCEPT !.lesson = NoRow]
              [] c.op = "user" -> rows
WriteServed(c) ==
    /\ c.step = "write"
    /\ IF Found(c) THEN rows' = After(c) ELSE UNCHANGED rows
    /\ rowIds' = IF Found(c) /\ c.op \in {"create", "lesson"} THEN rowIds + 1 ELSE rowIds
    /\ accessCalls' = (accessCalls \ {c}) \cup {[c EXCEPT !.step = IF Found(c) THEN "written" ELSE "refused"]}
    /\ UNCHANGED <<data, accessForms, busy, editingUser, accessMessage, accessActs>>
ReadServed(c) ==
    /\ c.step = "read"
    /\ accessCalls' = (accessCalls \ {c}) \cup {[c EXCEPT !.step = "fresh", !.got = rows]}
    /\ UNCHANGED <<data, accessForms, busy, editingUser, accessMessage, rows, rowIds, accessActs>>
\* Either request may fail, the write also after the server ran it.
AccessFails(c) ==
    /\ c.step \in {"write", "written", "read"} /\ Spend
    /\ accessCalls' = (accessCalls \ {c}) \cup {[c EXCEPT !.step = IF c.step = "read" THEN "stale" ELSE "refused"]}
    /\ UNCHANGED <<data, accessForms, busy, editingUser, accessMessage, rows, rowIds>>

(***************************************************************************)
(* The answers.  The flags hold one number each: the end of any save       *)
(* clears the flag, whichever assignment it names by then.                 *)
(***************************************************************************)
WriteRefused(c) ==
    /\ c.step = "refused"
    /\ accessCalls' = accessCalls \ {c} /\ accessMessage' = "error"
    /\ busy' = [busy EXCEPT ![c.op] = 0]
    /\ UNCHANGED <<data, accessForms, editingUser, rows, rowIds, accessActs>>
\* saveAssignment shows its row at once; all ask for the page again.
WriteAnswered(c) ==
    /\ c.step = "written"
    /\ accessCalls' = (accessCalls \ {c}) \cup {[c EXCEPT !.step = "read"]}
    /\ data' = IF c.op = "save" /\ data.mods[c.on].id = c.row THEN [data EXCEPT !.mods[c.on].open = c.open] ELSE data
    /\ editingUser' = (editingUser /\ c.op # "user")
    /\ accessMessage' = IF c.op \in {"save", "lesson", "user"} THEN "saved" ELSE accessMessage
    /\ UNCHANGED <<accessForms, busy, rows, rowIds, accessActs>>
Refreshed(c) ==
    /\ c.step \in {"fresh", "stale"}
    /\ accessCalls' = accessCalls \ {c}
    /\ data' = IF c.step = "fresh" THEN c.got ELSE data
    /\ moduleForms' = IF c.step = "fresh" /\ Refills(c.op) THEN [m \in Assignable |-> c.got.mods[m].open] ELSE moduleForms
    /\ lessonForm' = IF c.step = "fresh" /\ Refills(c.op) THEN c.got.lesson ELSE lessonForm
    /\ busy' = [busy EXCEPT ![c.op] = 0]
    /\ accessMessage' = IF c.op = "restart" /\ c.step = "stale" THEN "error" ELSE "saved"
    /\ UNCHANGED <<editingUser, rows, rowIds, accessActs>>

AccessStep ==
    \E c \in accessCalls : WriteServed(c) \/ ReadServed(c) \/ WriteRefused(c) \/ WriteAnswered(c) \/ Refreshed(c)
AccessNext ==
    \/ \E m \in Assignable : EditModule(m) \/ SaveAssignment(m) \/ CreateModuleAssignment(m) \/ DeleteModuleAssignment(m)
    \/ EditLesson \/ SaveLessonAssignment \/ OpenUser \/ SaveUser \/ RestartEnrollment
    \/ \E c \in accessCalls : AccessFails(c)
    \/ AccessStep
\* fetchApi gives every request a time limit, so each is answered or fails.
AccessFairness == WF_accessVars(AccessStep)
AccessSpec == AccessInit /\ [][AccessNext]_accessVars /\ AccessFairness

\* A flag that says "Saving…", "Assigning…", "Removing…" or "Restarting…" names
\* something this page is really doing, however several operations overlap and
\* whichever of their two requests fails.
FlagHasCall == \A op \in Operations : busy[op] # 0 => \E c \in accessCalls : c.op = op /\ c.on = busy[op]

\* Every flag is lifted in the end.
FlagsLifted == []<>(\A op \in Operations : busy[op] = 0)

\* A module that was taken from the student comes back only by assigning it
\* again: a save that was under way when it was removed does not restore it.
RemovedStaysRemoved ==
    [][\A m \in Assignable : rows.mods[m].id = 0 /\ rows'.mods[m].id # 0
                              => \E c \in accessCalls : c.op = "create" /\ c.on = m]_accessVars
=============================================================================
