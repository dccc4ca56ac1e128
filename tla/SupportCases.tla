---------------------------- MODULE SupportCases ----------------------------
(***************************************************************************)
(* Staff-only interventions ("cases") of one enrollment, the notifications *)
(* of their owners, the daily follow-up job, and the part of an enrollment *)
(* restart that cancels the previous restart case and opens a new one.     *)
(*                                                                         *)
(* An update loads a case, judges the copy, and later writes the           *)
(* attributes that differ from the copy; its notifications follow in       *)
(* statements of their own.  Only the job rereads a case under a lock.     *)
(***************************************************************************)
EXTENDS Integers, FiniteSets

CONSTANTS Staff,           \* users who are instructors or admins at first
          Demotable,       \* those whose role an admin may change
          NumCases,        \* bound on the cases ever opened
          Triggers,        \* trigger types staff use besides "restart"
          UpdateStatuses,  \* statuses that updates ask for
          Dates,           \* follow-up dates that staff choose
          Updaters,        \* concurrent staff requests
          Jobs,            \* concurrent runs of InterventionFollowUpJob
          Free,            \* no job
          MaxClock         \* bound on the clock

Cases == 1 .. NumCases
Active == {"open", "contacted", "waiting_on_student", "monitoring"}
Terminal == {"resolved", "canceled"}
Statuses == {"none"} \cup Active \cup Terminal
Week == 1

ASSUME CaseAssumption ==
    /\ Demotable \subseteq Staff
    /\ UpdateStatuses \subseteq Active \cup Terminal
    /\ Dates \subseteq 1 .. MaxClock
    /\ NumCases \in Nat /\ MaxClock \in Nat
    /\ Free \notin Jobs
    /\ Staff # {}

VARIABLES
    cases,      \* the interventions table; status "none" before the insert
    notices,    \* the notifications row of each case and user
    staffRole,  \* the users that are staff now
    caseLock,   \* the job that holds the row lock of a case
    upd,        \* the staff requests in flight
    job,        \* the runs of the follow-up job
    restart,    \* the restart in flight, serialised by the student's row
    told,       \* ghost: follow-up notices since the date changed or its claim was reset
    clock

vars == <<cases, notices, staffRole, caseLock, upd, job, restart, told, clock>>

Row == [status : Statuses, trigger : Triggers \cup {"restart"}, owner : Staff,
        creator : Staff, due : Nat, notified : Nat]
\* A notification of one user: no row yet, or whether it was read.
Notice == {"none", "unread", "read"}
Update == [pc : {"idle", "loaded", "close_others", "assign", "assign_found", "close_all"},
           id : Cases \cup {0}, seen : Row, want : Row, copy : Notice]
JobRun == [pc : {"idle", "scanning", "locked"}, now : Nat, todo : SUBSET Cases,
           id : Cases \cup {0}, copy : Notice]
RestartRun == [pc : {"idle", "closing"}, by : Staff, prev : SUBSET Cases,
               held : SUBSET (Cases \X Staff)]

NoRow == [status |-> "none", trigger |-> "restart", owner |-> CHOOSE s \in Staff : TRUE,
          creator |-> CHOOSE s \in Staff : TRUE, due |-> 0, notified |-> 0]
IdleUpdate == [pc |-> "idle", id |-> 0, seen |-> NoRow, want |-> NoRow, copy |-> "none"]
IdleJob == [pc |-> "idle", now |-> 0, todo |-> {}, id |-> 0, copy |-> "none"]
IdleRestart == [pc |-> "idle", by |-> NoRow.owner, prev |-> {}, held |-> {}]

Init ==
    /\ cases = [i \in Cases |-> NoRow]
    /\ notices = [i \in Cases |-> [s \in Staff |-> "none"]]
    /\ staffRole = Staff
    /\ caseLock = [i \in Cases |-> Free]
    /\ upd = [u \in Updaters |-> IdleUpdate]
    /\ job = [j \in Jobs |-> IdleJob]
    /\ restart = IdleRestart
    /\ told = [i \in Cases |-> 0]
    /\ clock = 1

-----------------------------------------------------------------------------

IsActive(i) == cases[i].status \in Active
Staffed(row) == {row.owner, row.creator} \subseteq staffRole
\* The partial unique index on (enrollment, trigger) of active cases.
Taken(trigger, others) == \E i \in Cases \ others :
                             IsActive(i) /\ cases[i].trigger = trigger
\* The id of the next insert: ids grow.
IsNextId(i) == /\ cases[i].status = "none"
               /\ \A k \in Cases : cases[k].status = "none" => i <= k
\* The bound NumCases: a restart in flight keeps an id for its new case.
Room(n) == Cardinality({i \in Cases : cases[i].status = "none"}) >= n
Held(i, s) == <<i, s>> \in restart.held
\* update_all(read_at: now) on a user's notification row, when there is one.
Closed(n) == IF n = "none" THEN "none" ELSE "read"
\* save! of a loaded notification with read_at nil, on the row as it is now: nil
\* is written only over a copy that had been read.
Renewed(copy, n) == IF copy = "unread" THEN n ELSE "unread"

-----------------------------------------------------------------------------
(* Staff requests *)

\* POST /interventions: the check and the unique index refuse a second
\* active case of the same trigger; the owner is told in a later statement.
Create(u, i, trigger, owner, creator, due) ==
    /\ upd[u].pc = "idle"
    /\ Room(IF restart.pc = "idle" THEN 1 ELSE 2) /\ IsNextId(i)
    /\ {owner, creator} \subseteq staffRole
    /\ ~Taken(trigger, {})
    /\ LET row == [status |-> "open", trigger |-> trigger, owner |-> owner,
                   creator |-> creator, due |-> due, notified |-> 0]
       IN /\ cases' = [cases EXCEPT ![i] = row]
          /\ upd' = [upd EXCEPT ![u] =
                 IF owner = creator THEN IdleUpdate
                 ELSE [pc |-> "assign", id |-> i, seen |-> row, want |-> row, copy |-> "none"]]
    /\ UNCHANGED <<notices, staffRole, caseLock, job, restart, told, clock>>

\* PATCH /interventions/:id up to the write.  A parameter that is absent, or
\* equal to the loaded attribute, leaves the attribute as it was loaded.
Load(u, i, status, owner, due) ==
    /\ upd[u].pc = "idle"
    /\ IsActive(i)
    /\ upd' = [upd EXCEPT ![u] =
          [pc |-> "loaded", id |-> i, seen |-> cases[i],
           want |-> [cases[i] EXCEPT !.status = status, !.owner = owner, !.due = due], copy |-> "none"]]
    /\ UNCHANGED <<cases, notices, staffRole, caseLock, job, restart, told, clock>>

Dirty(u, attribute) == upd[u].seen[attribute] # upd[u].want[attribute]

\* The row after an UPDATE of the attributes that differ from the copy.
\* clear_follow_up_notification assigns nil, which is a change only when the
\* copy had a value.
Saved(u) ==
    LET row == cases[upd[u].id]
        want == upd[u].want
    IN [row EXCEPT
          !.status = IF Dirty(u, "status") THEN want.status ELSE @,
          !.owner = IF Dirty(u, "owner") THEN want.owner ELSE @,
          !.due = IF Dirty(u, "due") THEN want.due ELSE @,
          !.notified = IF Dirty(u, "due") /\ upd[u].seen.notified # 0 THEN 0 ELSE @]

AfterSave(u) ==
    CASE Dirty(u, "owner") -> "close_others"
      [] ~Dirty(u, "owner") /\ upd[u].want.status \in Terminal -> "close_all"
      [] OTHER -> "idle"

\* @intervention.update!: it waits for a row that a job has locked.
Save(u) ==
    LET i == upd[u].id
    IN /\ upd[u].pc = "loaded"
       /\ caseLock[i] = Free
       /\ Staffed(upd[u].want)
       /\ Saved(u).status \in Active => ~Taken(cases[i].trigger, {i})
       /\ cases' = [cases EXCEPT ![i] = Saved(u)]
       /\ told' = [told EXCEPT ![i] =
              IF Saved(u).due # cases[i].due \/ Saved(u).notified # cases[i].notified THEN 0 ELSE @]
       /\ upd' = [upd EXCEPT ![u] =
              IF AfterSave(u) = "idle" THEN IdleUpdate ELSE [@ EXCEPT !.pc = AfterSave(u)]]
       /\ UNCHANGED <<notices, staffRole, caseLock, job, restart, clock>>

\* A failed validation (422) or a violated unique index (500).
SaveFails(u) ==
    LET i == upd[u].id
    IN /\ upd[u].pc = "loaded"
       /\ \/ ~Staffed(upd[u].want)
          \/ caseLock[i] = Free /\ Saved(u).status \in Active /\ Taken(cases[i].trigger, {i})
       /\ upd' = [upd EXCEPT ![u] = IdleUpdate]
       /\ UNCHANGED <<cases, notices, staffRole, caseLock, job, restart, told, clock>>

\* The notices of everybody but the new owner are marked read.
CloseOthers(u) ==
    LET i == upd[u].id
        owner == upd[u].want.owner
    IN /\ upd[u].pc = "close_others"
       /\ \A s \in Staff \ {owner} : ~Held(i, s)
       /\ notices' = [notices EXCEPT ![i] =
              [s \in Staff |-> IF s = owner THEN @[s] ELSE Closed(@[s])]]
       /\ upd' = [upd EXCEPT ![u].pc =
              IF upd[u].want.status \in Active THEN "assign" ELSE "close_all"]
       /\ UNCHANGED <<cases, staffRole, caseLock, job, restart, told, clock>>

\* NotificationDeliveryService.intervention_assigned, for the copy's owner:
\* find_or_initialize_by.
FindNotice(u) ==
    /\ upd[u].pc = "assign"
    /\ upd' = [upd EXCEPT ![u] = [upd[u] EXCEPT
          !.pc = "assign_found", !.copy = notices[upd[u].id][upd[u].want.owner]]]
    /\ UNCHANGED <<cases, notices, staffRole, caseLock, job, restart, told, clock>>

\* save!, or, when the insert meets a row, the rescue's second lookup.
Assign(u) ==
    LET i == upd[u].id
        owner == upd[u].want.owner
    IN /\ upd[u].pc = "assign_found"
       /\ ~Held(i, owner) \/ upd[u].copy = "unread"
       /\ \/ /\ upd[u].copy = "none" /\ notices[i][owner] # "none"
             /\ upd' = [upd EXCEPT ![u] = [upd[u] EXCEPT !.pc = "assign"]]
             /\ UNCHANGED notices
          \/ /\ upd[u].copy = "none" => notices[i][owner] = "none"
             /\ notices' = [notices EXCEPT ![i][owner] = Renewed(upd[u].copy, notices[i][owner])]
             /\ upd' = [upd EXCEPT ![u] = IdleUpdate]
       /\ UNCHANGED <<cases, staffRole, caseLock, job, restart, told, clock>>

\* close_notifications, when the copy is now terminal.
CloseAll(u) ==
    LET i == upd[u].id
    IN /\ upd[u].pc = "close_all"
       /\ \A s \in Staff : ~Held(i, s)
       /\ notices' = [notices EXCEPT ![i] = [s \in Staff |-> Closed(@[s])]]
       /\ upd' = [upd EXCEPT ![u] = IdleUpdate]
       /\ UNCHANGED <<cases, staffRole, caseLock, job, restart, told, clock>>

\* An owner opens a notification.
MarkRead(i, s) ==
    /\ notices[i][s] = "unread"
    /\ ~Held(i, s)
    /\ notices' = [notices EXCEPT ![i][s] = "read"]
    /\ UNCHANGED <<cases, staffRole, caseLock, upd, job, restart, told, clock>>

\* An admin changes the role of a user, in either direction.
ChangeRole(s) ==
    /\ s \in Demotable
    /\ staffRole' = IF s \in staffRole THEN staffRole \ {s} ELSE staffRole \cup {s}
    /\ UNCHANGED <<cases, notices, caseLock, upd, job, restart, told, clock>>

-----------------------------------------------------------------------------
(* The follow-up job *)

Due(row, now) == row.status \in Active /\ row.due <= now
Claimed(row) == row.notified # 0 /\ row.notified >= row.due

\* Mutant of JobStart: any earlier claim counts, whatever its date.
JobStartOnce(j) ==
    /\ job[j].pc = "idle"
    /\ job' = [job EXCEPT ![j] =
          [pc |-> "scanning", now |-> clock, id |-> 0, copy |-> "none",
           todo |-> {i \in Cases : Due(cases[i], clock) /\ cases[i].notified = 0}]]
    /\ UNCHANGED <<cases, notices, staffRole, caseLock, upd, restart, told, clock>>

\* perform: the query, and the first look at the claim, on the loaded rows.
JobStart(j) ==
    /\ job[j].pc = "idle"
    /\ job' = [job EXCEPT ![j] =
          [pc |-> "scanning", now |-> clock, id |-> 0, copy |-> "none",
           todo |-> {i \in Cases : Due(cases[i], clock) /\ ~Claimed(cases[i])}]]
    /\ UNCHANGED <<cases, notices, staffRole, caseLock, upd, restart, told, clock>>

JobEnd(j) ==
    /\ job[j].pc = "scanning" /\ job[j].todo = {}
    /\ job' = [job EXCEPT ![j] = IdleJob]
    /\ UNCHANGED <<cases, notices, staffRole, caseLock, upd, restart, told, clock>>

\* Mutants of StillDue: without the second look at the claim, or at the case.
StillActive(row, now) == Due(row, now)
StillUnclaimed(row, now) == ~Claimed(row)

\* What the job tests again once it holds the row.
StillDue(row, now) == Due(row, now) /\ ~Claimed(row)

\* with_lock: in the order of ids, lock, reload, and test again; then the
\* lookup of the owner's notification.
JobLock(j) ==
    \E i \in job[j].todo :
       /\ job[j].pc = "scanning" /\ \A k \in job[j].todo : i <= k
       /\ caseLock[i] = Free
       /\ \/ /\ ~StillDue(cases[i], job[j].now)
             /\ job' = [job EXCEPT ![j] = [job[j] EXCEPT !.todo = job[j].todo \ {i}]]
             /\ UNCHANGED caseLock
          \/ /\ StillDue(cases[i], job[j].now)
             /\ job' = [job EXCEPT ![j] = [job[j] EXCEPT
                    !.pc = "locked", !.todo = job[j].todo \ {i}, !.id = i,
                    !.copy = notices[i][cases[i].owner]]]
             /\ caseLock' = [caseLock EXCEPT ![i] = j]
       /\ UNCHANGED <<cases, notices, staffRole, upd, restart, told, clock>>

\* The insert meets a row that was not there at the lookup: in PostgreSQL the
\* transaction is lost, and the rescue's query fails too.
Collides(j) == job[j].copy = "none" /\ notices[job[j].id][cases[job[j].id].owner] # "none"

\* The notice and the claim commit together.
JobNotify(j) ==
    LET i == job[j].id
        owner == cases[i].owner
    IN /\ job[j].pc = "locked"
       /\ ~Held(i, owner) \/ job[j].copy = "unread"
       /\ ~Collides(j) /\ Staffed(cases[i])
       /\ notices' = [notices EXCEPT ![i][owner] = Renewed(job[j].copy, notices[i][owner])]
       /\ cases' = [cases EXCEPT ![i].notified = job[j].now]
       /\ told' = [told EXCEPT ![i] = @ + 1]
       /\ caseLock' = [caseLock EXCEPT ![i] = Free]
       /\ job' = [job EXCEPT ![j] = [@ EXCEPT !.pc = "scanning", !.id = 0, !.copy = "none"]]
       /\ UNCHANGED <<staffRole, upd, restart, clock>>

\* PostgreSQL ends a cycle of waits: the job holds the case and waits for the
\* notification, the restart holds the notification and waits for the case.
Deadlock(j) == /\ job[j].pc = "locked" /\ restart.pc = "closing"
               /\ Held(job[j].id, cases[job[j].id].owner)
               /\ job[j].id \in restart.prev

\* An exception leaves find_each: the rest of the run is lost.
JobFails(j) ==
    /\ job[j].pc = "locked"
    /\ Deadlock(j) \/ Collides(j) \/ ~Staffed(cases[job[j].id])
    /\ caseLock' = [caseLock EXCEPT ![job[j].id] = Free]
    /\ job' = [job EXCEPT ![j] = IdleJob]
    /\ UNCHANGED <<cases, notices, staffRole, upd, restart, told, clock>>

-----------------------------------------------------------------------------
(* The restart of the enrollment *)

\* The active restart cases are read, and their notifications marked read.  The
\* new case is validated with the administrator as the request loaded them.
RestartClose(by) ==
    LET prev == {i \in Cases : IsActive(i) /\ cases[i].trigger = "restart"}
    IN /\ restart.pc = "idle" /\ Room(1)
       /\ by \in staffRole
       /\ restart' = [pc |-> "closing", by |-> by, prev |-> prev,
                      held |-> {x \in prev \X Staff : notices[x[1]][x[2]] # "none"}]
       /\ UNCHANGED <<cases, notices, staffRole, caseLock, upd, job, told, clock>>

RestartDone == restart' = IdleRestart

\* The cases read before are canceled, whatever became of them since, and
\* the new case is inserted; all of it is visible at the commit.
RestartCommit ==
    /\ restart.pc = "closing"
    /\ \A i \in restart.prev : caseLock[i] = Free
    /\ ~Taken("restart", restart.prev)
    /\ \E new \in Cases : IsNextId(new) /\ cases' = [i \in Cases |->
          CASE i \in restart.prev -> [cases[i] EXCEPT !.status = "canceled"]
            [] i = new -> [status |-> "monitoring", trigger |-> "restart",
                           owner |-> restart.by, creator |-> restart.by,
                           due |-> clock + Week, notified |-> 0]
            [] OTHER -> cases[i]]
    /\ notices' = [i \in Cases |-> [s \in Staff |->
                     IF Held(i, s) THEN "read" ELSE notices[i][s]]]
    /\ RestartDone
    /\ UNCHANGED <<staffRole, caseLock, upd, job, told, clock>>

\* Mutant of RestartFails: the violated index is swallowed and waited out.
RestartFailsOnDeadlock ==
    /\ restart.pc = "closing"
    /\ \E j \in Jobs : Deadlock(j)
    /\ RestartDone
    /\ UNCHANGED <<cases, notices, staffRole, caseLock, upd, job, told, clock>>

\* A second restart case or a deadlock: the transaction rolls back.
RestartFails ==
    /\ restart.pc = "closing"
    /\ \/ /\ \A i \in restart.prev : caseLock[i] = Free
          /\ Taken("restart", restart.prev)
       \/ \E j \in Jobs : Deadlock(j)
    /\ RestartDone
    /\ UNCHANGED <<cases, notices, staffRole, caseLock, upd, job, told, clock>>

Tick == /\ clock < MaxClock
        /\ clock' = clock + 1
        /\ UNCHANGED <<cases, notices, staffRole, caseLock, upd, job, restart, told>>

-----------------------------------------------------------------------------

UpdateNext(u) ==
    \/ \E i \in Cases, t \in Triggers, o \in Staff, c \in Staff, d \in Dates :
          Create(u, i, t, o, c, d)
    \/ \E i \in Cases, o \in Staff :
          \E st \in UpdateStatuses \cup {cases[i].status}, d \in Dates \cup {cases[i].due} :
             Load(u, i, st, o, d)
    \/ Save(u) \/ SaveFails(u) \/ CloseOthers(u) \/ FindNotice(u) \/ Assign(u) \/ CloseAll(u)

JobNext(j) == JobStart(j) \/ JobEnd(j) \/ JobLock(j) \/ JobNotify(j) \/ JobFails(j)

RestartNext == (\E s \in Staff : RestartClose(s)) \/ RestartCommit \/ RestartFails

Next ==
    \/ \E u \in Updaters : UpdateNext(u)
    \/ \E j \in Jobs : JobNext(j)
    \/ RestartNext
    \/ \E s \in Staff : ChangeRole(s)
    \/ \E i \in Cases, s \in Staff : MarkRead(i, s)
    \/ Tick

Spec == Init /\ [][Next]_vars

\* A thread that can run does run, a row lock is granted in the order of
\* arrival, and the scheduler starts the job every day.
Fairness ==
    /\ \A j \in Jobs : /\ WF_vars(JobStart(j)) /\ WF_vars(JobEnd(j))
                       /\ SF_vars(JobLock(j))
                       /\ SF_vars(JobNotify(j)) /\ WF_vars(JobFails(j))
    /\ \A u \in Updaters : /\ WF_vars(FindNotice(u)) /\ WF_vars(Assign(u))
                           /\ WF_vars(CloseOthers(u)) /\ WF_vars(CloseAll(u))
                           /\ SF_vars(SaveFails(u))
                           /\ SF_vars(Save(u))
    /\ SF_vars(RestartCommit) /\ SF_vars(RestartFails)

FairSpec == Spec /\ Fairness

-----------------------------------------------------------------------------
(* Properties *)

\* Every table and every request in flight keeps its shape.
CaseTypeOK ==
    /\ cases \in [Cases -> Row]
    /\ notices \in [Cases -> [Staff -> Notice]]
    /\ staffRole \subseteq Staff
    /\ caseLock \in [Cases -> Jobs \cup {Free}]
    /\ upd \in [Updaters -> Update]
    /\ job \in [Jobs -> JobRun]
    /\ restart \in RestartRun
    /\ told \in [Cases -> Nat]
    /\ clock \in Nat

\* The job tells an owner at most once of a follow-up date until the claim is
\* reset, although runs of it overlap each other and staff updates.  A request
\* whose copy had a claim resets the claim with any date it writes, even the
\* one that another request wrote and the job announced meanwhile.
OneNoticePerClaim == \A i \in Cases : told[i] <= 1

\* A follow-up notice goes out only for a case that is active and due at that
\* moment, whatever the job saw when it made its list.
FollowUpOnlyDue ==
    [][\A i \in Cases : told'[i] > told[i] => Due(cases[i], clock) /\ ~Claimed(cases[i])]_vars

\* Every active case is owned and was created by users who are staff now.
AllStaffed == \A i \in Cases : IsActive(i) => Staffed(cases[i])

\* Once all active cases stay staffed, no due case stays unclaimed: the runs that
\* collide with an assignment, wait for a restart or are lost to a deadlock are
\* followed by others that get to it.  A claim counts for the date it covers,
\* also when an update that did not see it left it in place.
DueIsClaimed ==
    <>[]AllStaffed => \A i \in Cases : []<>(~Due(cases[i], clock) \/ Claimed(cases[i]))

RolesSettle == \E S \in SUBSET Staff : <>[](staffRole = S)

\* API_REFERENCE.md:597, "creates one owner notification per due date": once nobody's role
\* changes any more, a due case whose own owner and creator are staff is claimed in time.
StaffedCaseIsClaimed ==
    RolesSettle => \A i \in Cases :
        []<>(~Due(cases[i], clock) \/ Claimed(cases[i]) \/ ~Staffed(cases[i]))

\* A restart ends: it commits or rolls back, although it takes notifications
\* and cases in the opposite order to the job.
RestartEnds == []<>(restart.pc = "idle")

\* A resolved or canceled case is never reopened.
TerminalIsFinal ==
    [][\A i \in Cases : cases[i].status \in Terminal => cases'[i].status \in Terminal]_vars
=============================================================================
