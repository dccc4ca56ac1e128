---------------------------- MODULE CohortRoster ----------------------------
(***************************************************************************)
(* The people and the live schedule of a cohort's page                     *)
(* (web/src/pages/admin/CohortDetail.tsx): adding a student (an account,   *)
(* then an enrolment), resending the invitation, the sessions of the live  *)
(* schedule and new modules.  The module, recording and resource forms of  *)
(* the page are in CohortPage.                                             *)
(*                                                                         *)
(* A session's values are named by the session they were first entered     *)
(* for; an account is none, pending (never signed in) or active.  Accounts *)
(* that were archived and are added again are left out.                    *)
(***************************************************************************)
EXTENDS Integers, FiniteSets

CONSTANTS Emails,         \* the addresses staff type
          MaxRosterActs   \* bound on what the staff do and on what fails
ASSUME RosterAssumption == MaxRosterActs \in Nat

VARIABLES roster,         \* what the page shows: [pending, hours, modules]
          emailBox,       \* addStudentEmail, 0 when empty
          sendInvite, addOpen, hoursOpen, moduleOpen,
          hourForm,       \* [id, text]: editingOfficeHourId and whose values the fields hold
          adding, resending, savingHour, deletingHour, addingModule,   \* the busy flags
          notice, rosterCalls, accounts, enrolled, invitations, hours, moduleCount, rosterActs
rosterServer == <<accounts, enrolled, invitations, hours, moduleCount>>
rosterFlags == <<adding, resending, savingHour, deletingHour, addingModule>>
rosterForms == <<emailBox, sendInvite, addOpen, hoursOpen, moduleOpen, hourForm>>
rosterVars == <<roster, rosterForms, rosterFlags, notice, rosterCalls, rosterServer, rosterActs>>

EmptyHourForm == [id |-> 0, text |-> 0]
Snapshot == [pending |-> {e \in enrolled : accounts[e] = "pending"}, hours |-> DOMAIN hours, modules |-> moduleCount]
NoSnapshot == [pending |-> {}, hours |-> {}, modules |-> 0]

RosterInit ==
    /\ accounts = [e \in Emails |-> "none"] /\ enrolled = {} /\ invitations = [e \in Emails |-> 0]
    /\ hours = [h \in {1} |-> 1] /\ moduleCount = 0
    /\ roster = Snapshot
    /\ emailBox = 0 /\ sendInvite = TRUE /\ addOpen = FALSE /\ hoursOpen = FALSE /\ moduleOpen = FALSE
    /\ hourForm = EmptyHourForm
    /\ adding = FALSE /\ resending = 0 /\ savingHour = FALSE /\ deletingHour = 0 /\ addingModule = FALSE
    /\ notice = <<"none", 0>> /\ rosterCalls = {} /\ rosterActs = 0

RosterSpend == rosterActs < MaxRosterActs /\ rosterActs' = rosterActs + 1
\* An operation's first request, with the values its handler closed over.
RosterCall(op, who, with) ==
    rosterCalls' = rosterCalls \cup {[n |-> rosterActs', op |-> op, who |-> who, with |-> with, step |-> "write", got |-> NoSnapshot]}

(***************************************************************************)
(* Adding a student.  The fields stay open to typing while it runs.        *)
(***************************************************************************)
OffersAdd == addOpen /\ ~adding
ToggleAddForm ==
    /\ RosterSpend /\ addOpen' = ~addOpen
    /\ UNCHANGED <<roster, emailBox, sendInvite, hoursOpen, moduleOpen, hourForm, rosterFlags, notice, rosterCalls, rosterServer>>
TypeEmail(e) ==
    /\ addOpen /\ RosterSpend /\ emailBox' = e /\ sendInvite' \in BOOLEAN
    /\ UNCHANGED <<roster, addOpen, hoursOpen, moduleOpen, hourForm, rosterFlags, notice, rosterCalls, rosterServer>>
HandleAddStudent ==
    /\ OffersAdd /\ emailBox # 0 /\ RosterSpend
    /\ adding' = TRUE /\ notice' = <<"none", 0>> /\ RosterCall("account", emailBox, IF sendInvite THEN 1 ELSE 0)
    /\ UNCHANGED <<roster, rosterForms, resending, savingHour, deletingHour, addingModule, rosterServer>>
OffersResend(e) == e \in roster.pending /\ resending # e
HandleResendInvite(e) ==
    /\ OffersResend(e) /\ RosterSpend
    /\ resending' = e /\ notice' = <<"none", 0>> /\ RosterCall("invite", e, 1)
    /\ UNCHANGED <<roster, rosterForms, adding, savingHour, deletingHour, addingModule, rosterServer>>

(***************************************************************************)
(* The live schedule and new modules.                                      *)
(***************************************************************************)
ManageSchedule ==
    /\ RosterSpend /\ hoursOpen' = ~hoursOpen
    /\ UNCHANGED <<roster, emailBox, sendInvite, addOpen, moduleOpen, hourForm, rosterFlags, notice, rosterCalls, rosterServer>>
SessionListed(h) == hoursOpen /\ h \in roster.hours
EditOfficeHour(h) ==
    /\ SessionListed(h) /\ RosterSpend /\ hourForm' = [id |-> h, text |-> h]
    /\ UNCHANGED <<roster, emailBox, sendInvite, addOpen, hoursOpen, moduleOpen, rosterFlags, notice, rosterCalls, rosterServer>>
\* Mutant: "Cancel edit" and the end of a save forget the session and keep its values.
ResetIdOnly == hourForm' = [hourForm EXCEPT !.id = 0]
ResetOfficeHourForm == hourForm' = EmptyHourForm
CancelEdit ==
    /\ hoursOpen /\ hourForm.id # 0 /\ RosterSpend /\ ResetOfficeHourForm
    /\ UNCHANGED <<roster, emailBox, sendInvite, addOpen, hoursOpen, moduleOpen, rosterFlags, notice, rosterCalls, rosterServer>>
SaveOfficeHour ==
    /\ hoursOpen /\ ~savingHour /\ RosterSpend
    /\ savingHour' = TRUE /\ RosterCall("hour", hourForm.id, hourForm.text)
    /\ UNCHANGED <<roster, rosterForms, adding, resending, deletingHour, addingModule, notice, rosterServer>>
\* `with` is the session being edited when the button was pressed.
DeleteOfficeHour(h) ==
    /\ SessionListed(h) /\ deletingHour # h /\ RosterSpend
    /\ deletingHour' = h /\ RosterCall("removal", h, hourForm.id)
    /\ UNCHANGED <<roster, rosterForms, adding, resending, savingHour, addingModule, notice, rosterServer>>
ToggleModuleForm ==
    /\ RosterSpend /\ moduleOpen' = ~moduleOpen
    /\ UNCHANGED <<roster, emailBox, sendInvite, addOpen, hoursOpen, hourForm, rosterFlags, notice, rosterCalls, rosterServer>>
HandleAddModule ==
    /\ moduleOpen /\ ~addingModule /\ RosterSpend
    /\ addingModule' = TRUE /\ notice' = <<"none", 0>> /\ RosterCall("module", 0, roster.modules + 1)
    /\ UNCHANGED <<roster, rosterForms, adding, resending, savingHour, deletingHour, rosterServer>>

(***************************************************************************)
(* The server.                                                             *)
(***************************************************************************)
ShouldSendInvite(e, asked) == asked = 1 /\ accounts[e] = "none"
ServerAccepts(c) == CASE c.op = "enrol" -> c.who \notin enrolled
                      [] c.op = "invite" -> accounts[c.who] = "pending"
                      [] c.op = "hour" -> c.who = 0 \/ c.who \in DOMAIN hours
                      [] c.op = "removal" -> c.who \in DOMAIN hours
                      [] OTHER -> TRUE
ServeAccount(c) ==
    /\ accounts' = [accounts EXCEPT ![c.who] = IF @ = "none" THEN "pending" ELSE @]
    /\ invitations' = [invitations EXCEPT ![c.who] = IF ShouldSendInvite(c.who, c.with) THEN @ + 1 ELSE @]
    /\ UNCHANGED <<enrolled, hours, moduleCount>>
ServeEnrolment(c) == enrolled' = enrolled \cup {c.who} /\ UNCHANGED <<accounts, invitations, hours, moduleCount>>
\* A new session's values are its own unless the form still held another's.
ServeHour(c) ==
    /\ hours' = IF c.who # 0 THEN [hours EXCEPT ![c.who] = c.with]
                ELSE LET new == 1 + rosterActs
                     IN [h \in DOMAIN hours \cup {new} |-> IF h # new THEN hours[h] ELSE IF c.with = 0 THEN new ELSE c.with]
    /\ UNCHANGED <<accounts, invitations, enrolled, moduleCount>>
ServeRemoval(c) ==
    /\ hours' = [h \in DOMAIN hours \ {c.who} |-> hours[h]] /\ UNCHANGED <<accounts, invitations, enrolled, moduleCount>>
ServeModule == moduleCount' = moduleCount + 1 /\ UNCHANGED <<accounts, invitations, enrolled, hours>>
RosterServed(c) ==
    /\ c.step = "write"
    /\ IF ServerAccepts(c)
       THEN CASE c.op = "account" -> ServeAccount(c)
              [] c.op = "enrol" -> ServeEnrolment(c)
              [] c.op = "hour" -> ServeHour(c)
              [] c.op = "removal" -> ServeRemoval(c)
              [] c.op = "module" -> ServeModule
              [] c.op = "invite" -> UNCHANGED rosterServer
       ELSE UNCHANGED rosterServer
    /\ rosterCalls' = (rosterCalls \ {c}) \cup {[c EXCEPT !.step = IF ServerAccepts(c) THEN "written" ELSE "refused"]}
    /\ UNCHANGED <<roster, rosterForms, rosterFlags, notice, rosterActs>>
RosterRead(c) ==
    /\ c.step = "read"
    /\ rosterCalls' = (rosterCalls \ {c}) \cup {[c EXCEPT !.step = "fresh", !.got = Snapshot]}
    /\ UNCHANGED <<roster, rosterForms, rosterFlags, notice, rosterServer, rosterActs>>
\* Any request may fail or time out, a write also after the server ran it.
RosterFails(c) ==
    /\ c.step \in {"write", "written", "read"} /\ RosterSpend
    /\ rosterCalls' = (rosterCalls \ {c}) \cup {[c EXCEPT !.step = IF c.step = "read" THEN "stale" ELSE "refused"]}
    /\ UNCHANGED <<roster, rosterForms, rosterFlags, notice, rosterServer>>
SignsIn(e) ==
    /\ accounts[e] = "pending" /\ RosterSpend /\ accounts' = [accounts EXCEPT ![e] = "active"]
    /\ UNCHANGED <<roster, rosterForms, rosterFlags, notice, rosterCalls, enrolled, invitations, hours, moduleCount>>

(***************************************************************************)
(* The answers.                                                            *)
(***************************************************************************)
\* The operation's flag goes down; the others stay as they are.
Lift(op) ==
    /\ adding' = (adding /\ op \notin {"account", "enrol"})
    /\ resending' = IF op = "invite" THEN 0 ELSE resending
    /\ savingHour' = (savingHour /\ op # "hour")
    /\ deletingHour' = IF op = "removal" THEN 0 ELSE deletingHour
    /\ addingModule' = (addingModule /\ op # "module")
RosterRefused(c) ==
    /\ c.step = "refused"
    /\ rosterCalls' = rosterCalls \ {c} /\ notice' = <<"error", c.who>> /\ Lift(c.op)
    /\ UNCHANGED <<roster, rosterForms, rosterServer, rosterActs>>

\* An account is followed by the enrolment, an invitation by nothing, and the
\* rest by a reload of the page.
RosterWritten(c) ==
    /\ c.step = "written" /\ c.op # "invite"
    /\ rosterCalls' = (rosterCalls \ {c})
                      \cup {IF c.op = "account" THEN [c EXCEPT !.op = "enrol", !.with = 0, !.step = "write"] ELSE [c EXCEPT !.step = "read"]}
    /\ UNCHANGED <<roster, rosterForms, rosterFlags, notice, rosterServer, rosterActs>>
InviteAnswered(c) ==
    /\ c.step = "written" /\ c.op = "invite"
    /\ rosterCalls' = rosterCalls \ {c} /\ notice' = <<"invited", c.who>> /\ Lift(c.op)
    /\ UNCHANGED <<roster, rosterForms, rosterServer, rosterActs>>
\* A reload that failed leaves the page as it was; the operation ends all the same.
Shows(c) == roster' = IF c.step = "fresh" THEN c.got ELSE roster
StudentAdded(c) ==
    /\ c.op = "enrol" /\ c.step \in {"fresh", "stale"} /\ Shows(c)
    /\ notice' = <<"added", c.who>> /\ emailBox' = 0 /\ addOpen' = FALSE
    /\ Lift(c.op) /\ rosterCalls' = rosterCalls \ {c}
    /\ UNCHANGED <<sendInvite, hoursOpen, moduleOpen, hourForm, rosterServer, rosterActs>>
\* Mutant: when the reload fails the handler returns before it lifts the flag.
HourSavedIfReloaded(c) ==
    /\ c.op = "hour" /\ c.step \in {"fresh", "stale"} /\ Shows(c)
    /\ notice' = <<"session", 0>> /\ ResetOfficeHourForm
    /\ IF c.step = "fresh" THEN Lift(c.op) ELSE UNCHANGED rosterFlags
    /\ rosterCalls' = rosterCalls \ {c}
    /\ UNCHANGED <<emailBox, sendInvite, addOpen, hoursOpen, moduleOpen, rosterServer, rosterActs>>
HourSaved(c) ==
    /\ c.op = "hour" /\ c.step \in {"fresh", "stale"} /\ Shows(c)
    /\ notice' = <<"session", 0>> /\ ResetOfficeHourForm
    /\ Lift(c.op) /\ rosterCalls' = rosterCalls \ {c}
    /\ UNCHANGED <<emailBox, sendInvite, addOpen, hoursOpen, moduleOpen, rosterServer, rosterActs>>
\* The form is cleared when the removed session was the edited one at the press.
HourRemoved(c) ==
    /\ c.op = "removal" /\ c.step \in {"fresh", "stale"} /\ Shows(c)
    /\ notice' = <<"removed", 0>>
    /\ IF c.with = c.who THEN ResetOfficeHourForm ELSE UNCHANGED hourForm
    /\ Lift(c.op) /\ rosterCalls' = rosterCalls \ {c}
    /\ UNCHANGED <<emailBox, sendInvite, addOpen, hoursOpen, moduleOpen, rosterServer, rosterActs>>
ModuleAdded(c) ==
    /\ c.op = "module" /\ c.step \in {"fresh", "stale"} /\ Shows(c)
    /\ notice' = <<"module", 0>> /\ moduleOpen' = FALSE
    /\ Lift(c.op) /\ rosterCalls' = rosterCalls \ {c}
    /\ UNCHANGED <<emailBox, sendInvite, addOpen, hoursOpen, hourForm, rosterServer, rosterActs>>

RosterStep ==
    \E c \in rosterCalls : \/ RosterServed(c) \/ RosterRead(c) \/ RosterRefused(c) \/ RosterWritten(c) \/ InviteAnswered(c)
                           \/ StudentAdded(c) \/ HourSaved(c) \/ HourRemoved(c) \/ ModuleAdded(c)
RosterNext ==
    \/ ToggleAddForm \/ HandleAddStudent \/ ManageSchedule \/ CancelEdit \/ SaveOfficeHour \/ ToggleModuleForm \/ HandleAddModule
    \/ \E e \in Emails : TypeEmail(e) \/ HandleResendInvite(e) \/ SignsIn(e)
    \/ \E h \in roster.hours : EditOfficeHour(h) \/ DeleteOfficeHour(h)
    \/ \E c \in rosterCalls : RosterFails(c)
    \/ RosterStep
\* fetchApi gives every request a time limit, so each is answered or fails.
RosterFairness == WF_rosterVars(RosterStep)
RosterSpec == RosterInit /\ [][RosterNext]_rosterVars /\ RosterFairness

\* "Added … to cohort" names a student the server has enrolled, whatever was typed
\* into the form while the account, the enrolment and the reload were under way
\* and whichever of them failed.
AddedIsEnrolled == notice[1] = "added" => notice[2] \in enrolled

\* Adding an address invites it once: an attempt that is repeated because the
\* enrolment failed, or because the first answer was lost, sends no second email.
InvitedOnce == \A e \in Emails : invitations[e] <= 1

\* A session of the schedule keeps its own values: no save writes the fields that
\* were filled from one session over another or into a new one, whatever was
\* opened, cancelled, saved and removed meanwhile.
SessionsKeepTheirs == \A h \in DOMAIN hours : hours[h] = h

\* Success means an enrolment, nobody is invited twice, and no session is saved
\* over another (handleAddStudent, the office-hour handlers).
RosterSound == AddedIsEnrolled /\ InvitedOnce /\ SessionsKeepTheirs

\* No button of the page says "Adding…", "Sending…", "Saving…" or "Removing…" for ever.
RosterSettles == []<>~(adding \/ resending # 0 \/ savingHour \/ deletingHour # 0 \/ addingModule)
=============================================================================
