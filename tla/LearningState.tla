------------------------------ MODULE LearningState ------------------------------
(* The learning evidence of one student in one curriculum, the requests that     *)
(* write it under Enrollment#with_learning_write_guard, and the administrative   *)
(* operations that compete with them: EnrollmentRestartService, status changes,  *)
(* enrolling and removing the student.                                           *)
(*                                                                               *)
(* A request reads committed rows without a lock, waits for row locks, and then  *)
(* reads, writes and commits while it holds the enrollment row.  A restart holds *)
(* the users row and the enrollment row from LockStudent to CommitRestart; what  *)
(* it wrote is invisible to the others until it commits.                         *)
EXTENDS Integers, FiniteSets

CONSTANTS Enrollments,    \* enrollment ids of the student, one per cohort of the curriculum
          WorkBlocks,     \* content blocks that take submissions or carry a video
          CheckBlocks,    \* checkpoints with a knowledge check; they may be work blocks too
          Requests,       \* learning-write requests in flight
          Admins,         \* administrative requests in flight
          Kinds,          \* the learning writes enabled in this instance
          Operations,     \* the administrative operations enabled in this instance
          NoOne,          \* free lock, or no enrollment found
          NoRow,          \* no row in the table
          NoOverride,     \* a module assignment whose unlock_date_override is null
          MaxClock,       \* bound on the clock
          MaxSubmissions  \* bound on submissions ever created

Blocks == WorkBlocks \cup CheckBlocks

StudentKinds == {"submit", "update", "progress", "attempt", "video", "watch"}
StaffKinds == {"grade", "sync", "override"}

ASSUME ConstantsAssumption ==
  /\ NoOne \notin Enrollments \cup Requests \cup Admins
  /\ Requests \cap Admins = {}
  /\ Kinds \subseteq StudentKinds \cup StaffKinds
  /\ Operations \subseteq {"restart", "status"}
  /\ MaxClock \in Nat
  /\ MaxSubmissions \in Nat

VARIABLES
  clock,           \* database time; several events may fall in one instant
  enrollment,      \* the enrollments table
  submissions, progress, attempts, watches, overrides,   \* the learning tables
  lastId,          \* last submission id handed out
  userLock,        \* holder of the student's users row (FOR UPDATE)
  enrollmentLock,  \* holder of each enrollments row (FOR UPDATE)
  pc, req,         \* control point and local state of each learning write
  apc, adm         \* control point and local state of each administrative request

tables == <<submissions, progress, attempts, watches, overrides, lastId>>
locks == <<userLock, enrollmentLock>>
vars == <<clock, enrollment, tables, locks, pc, req, apc, adm>>

\* Where a row came from: the kind of request, the guarding enrollment, when the request
\* started and when it read the enrollment.  Kept for the properties only.
Provenance == [kind: StudentKinds \cup StaffKinds, via: Enrollments \cup {NoOne}, started: Nat, asOf: Nat]

Statuses == {"active", "paused", "dropped", "completed"}
EnrollmentRow == [state: {"none", "present", "gone"}, status: Statuses, resetAt: Nat]
SubmissionRow == [id: Nat, block: WorkBlocks, grade: {"none", "pass", "R"},
                  children: SUBSET {"criterion_results", "check_runs"}, prov: Provenance]
ProgressRow == [status: {"not_started", "in_progress", "completed"}, prov: Provenance]
AttemptRow == [block: CheckBlocks, correct: BOOLEAN, prov: Provenance]
AccessTables == {"lesson_assignments", "module_assignments"}

\* The parameter of a request that its effect depends on.
Inputs == {"none", "not_started", "in_progress", "completed", "pass", "R", "changed", "same"}
            \cup {"lesson_assignments", "module_assignments"}
Request == [kind: StudentKinds \cup StaffKinds, started: Nat, asOf: Nat,
            enrollment: Enrollments \cup {NoOne}, block: Blocks \cup {NoOne},
            submission: Nat, status: Inputs, flag: BOOLEAN]
NoRequest == [kind |-> "progress", started |-> 0, asOf |-> 0, enrollment |-> NoOne,
              block |-> NoOne, submission |-> 0, status |-> "none", flag |-> FALSE]

\* The rows a restart copied into EnrollmentRestart.snapshot.
Snapshot == [submissions: SUBSET SubmissionRow, progress: [Blocks -> ProgressRow \cup {NoRow}],
             attempts: SUBSET AttemptRow, watch: Provenance \cup {NoRow},
             access: [AccessTables -> Provenance \cup {NoRow, NoOverride}]]
NoSnapshot == [submissions |-> {}, progress |-> [b \in Blocks |-> NoRow], attempts |-> {},
               watch |-> NoRow, access |-> [t \in AccessTables |-> NoRow]]
AdminRequest == [op: {"restart", "status"}, enrollment: Enrollments \cup {NoOne}, loaded: Statuses,
                 target: Statuses, resetAt: Nat, snapshot: Snapshot]
NoAdminRequest == [op |-> "restart", enrollment |-> NoOne, loaded |-> "active",
                   target |-> "active", resetAt |-> 0, snapshot |-> NoSnapshot]

\* Tables, requests in flight and their snapshots keep their shape.
TypeOK ==
  /\ clock \in Nat
  /\ enrollment \in [Enrollments -> EnrollmentRow]
  /\ submissions \subseteq SubmissionRow
  /\ progress \in [Blocks -> ProgressRow \cup {NoRow}]
  /\ attempts \subseteq AttemptRow
  /\ watches \in [Enrollments -> Provenance \cup {NoRow}]
  /\ overrides \in [Enrollments \X AccessTables -> Provenance \cup {NoRow, NoOverride}]
  /\ lastId \in Nat
  /\ userLock \in Admins \cup {NoOne}
  /\ enrollmentLock \in [Enrollments -> Requests \cup Admins \cup {NoOne}]
  /\ pc \in [Requests -> {"idle", "started", "authenticated", "authorized", "locked"}]
  /\ req \in [Requests -> Request]
  /\ apc \in [Admins -> {"idle", "begun", "student_locked", "snapshotted", "cleared"}]
  /\ adm \in [Admins -> AdminRequest]

Present(e) == enrollment[e].state = "present"

Init ==
  /\ clock = 1
  /\ enrollment \in [Enrollments -> {[state |-> s, status |-> "active", resetAt |-> 0] : s \in {"none", "present"}}]
  /\ submissions = {}
  /\ progress = [b \in Blocks |-> NoRow]
  /\ attempts = {}
  /\ watches = [e \in Enrollments |-> NoRow]
  /\ overrides = [k \in Enrollments \X AccessTables |->
                    IF k[2] = "module_assignments" /\ Present(k[1]) THEN NoOverride ELSE NoRow]
  /\ lastId = 0
  /\ userLock = NoOne
  /\ enrollmentLock = [e \in Enrollments |-> NoOne]
  /\ pc = [q \in Requests |-> "idle"]
  /\ req = [q \in Requests |-> NoRequest]
  /\ apc = [r \in Admins |-> "idle"]
  /\ adm = [r \in Admins |-> NoAdminRequest]

Tick ==
  /\ clock < MaxClock
  /\ clock' = clock + 1
  /\ UNCHANGED <<enrollment, tables, locks, pc, req, apc, adm>>

--------------------------------------------------------------------------------
(* A learning write, up to its guard.                                            *)

\* The request ends, with a response or an error: its row locks are released.
Released(p) == [e \in Enrollments |-> IF enrollmentLock[e] = p THEN NoOne ELSE enrollmentLock[e]]

Answer(q) ==
  /\ pc' = [pc EXCEPT ![q] = "idle"]
  /\ req' = [req EXCEPT ![q] = NoRequest]
  /\ enrollmentLock' = Released(q)
  /\ UNCHANGED <<clock, enrollment, userLock, apc, adm>>

Inserting == {q \in Requests : pc[q] # "idle" /\ req[q].kind \in {"submit", "sync"}}

\* before_action capture_learning_request_started_at; sync_student reads the clock itself.
CaptureStart(q, k) ==
  /\ pc[q] = "idle"
  /\ k \in {"submit", "sync"} => lastId + Cardinality(Inserting) < MaxSubmissions
  /\ pc' = [pc EXCEPT ![q] = "started"]
  /\ req' = [req EXCEPT ![q] = [NoRequest EXCEPT !.kind = k, !.started = clock]]
  /\ UNCHANGED <<clock, enrollment, tables, locks, apc, adm>>

AuthenticateWithoutTouch(q) ==   \* mutant: last_seen_at is not written
  /\ pc[q] = "started"
  /\ pc' = [pc EXCEPT ![q] = "authenticated"]
  /\ UNCHANGED <<clock, enrollment, tables, locks, req, apc, adm>>

\* authenticate_user! ends by writing users.last_seen_at, so a request of the student
\* waits here while a restart or an enrollment update holds the student's row.
Authenticate(q) ==
  /\ pc[q] = "started"
  /\ req[q].kind \in StudentKinds => userLock = NoOne
  /\ pc' = [pc EXCEPT ![q] = "authenticated"]
  /\ UNCHANGED <<clock, enrollment, tables, locks, req, apc, adm>>

\* The lesson is locked, its submission window is closed, or nothing was found.
Forbid(q) ==
  /\ pc[q] = "authenticated"
  /\ Answer(q)
  /\ UNCHANGED tables

\* What the handlers read before the guard.
Authorized(q, e, b, s, status, flag) ==
  /\ pc[q] = "authenticated"
  /\ pc' = [pc EXCEPT ![q] = "authorized"]
  /\ req' = [req EXCEPT ![q] = [@ EXCEPT !.asOf = clock, !.enrollment = e, !.block = b,
                                         !.submission = s, !.status = status, !.flag = flag]]
  /\ UNCHANGED <<clock, enrollment, tables, locks, apc, adm>>

ActiveEnrollment(e) == Present(e) /\ enrollment[e].status = "active"

CorrectAttempt(b) == \E a \in attempts : a.block = b /\ a.correct

AuthorizeSubmit(q, e, b) ==
  /\ req[q].kind = "submit"
  /\ ActiveEnrollment(e)
  /\ b \in WorkBlocks
  /\ Authorized(q, e, b, 0, "none", FALSE)

AuthorizeUpdate(q, e, s) ==
  /\ req[q].kind = "update"
  /\ s.grade = "none"
  /\ ActiveEnrollment(e)
  /\ Authorized(q, e, s.block, s.id, "none", FALSE)

AuthorizeProgress(q, e, b, status) ==
  /\ req[q].kind = "progress"
  /\ ActiveEnrollment(e)
  /\ status = "completed" /\ b \in CheckBlocks => CorrectAttempt(b)
  /\ Authorized(q, e, b, 0, status, FALSE)

AuthorizeAttempt(q, e, b, correct) ==
  /\ req[q].kind = "attempt"
  /\ ActiveEnrollment(e)
  /\ b \in CheckBlocks
  /\ Authorized(q, e, b, 0, "none", correct)

\* flag: the reported seconds reach 90% of the authoritative duration.
AuthorizeVideo(q, e, b, watched) ==
  /\ req[q].kind = "video"
  /\ ActiveEnrollment(e)
  /\ b \in WorkBlocks
  /\ Authorized(q, e, b, 0, "none", watched)

AuthorizeWatch(q, e) ==
  /\ req[q].kind = "watch"
  /\ ActiveEnrollment(e)
  /\ Authorized(q, e, NoOne, 0, "none", FALSE)

\* The enrollment of the submission's owner, whatever its status, or none at all.
LearningEnrollmentFor(e) == IF \E f \in Enrollments : Present(f) THEN e \in Enrollments /\ Present(e) ELSE e = NoOne

\* flag: criterion results were provided.
AuthorizeGrade(q, e, s, grade, rubric) ==
  /\ req[q].kind = "grade"
  /\ LearningEnrollmentFor(e)
  /\ Authorized(q, e, s.block, s.id, grade, rubric)

\* status: whether the fetched file differs from the stored text.
AuthorizeSync(q, e, b, text) ==
  /\ req[q].kind = "sync"
  /\ Present(e)
  /\ b \in WorkBlocks
  /\ Authorized(q, e, b, 0, text, FALSE)

\* status: the table; submission: 0 create, 1 update, 2 destroy; flag: an override is set.
AuthorizeOverride(q, e, t, verb, set) ==
  /\ req[q].kind = "override"
  /\ Present(e)
  /\ verb # 0 => overrides[<<e, t>>] # NoRow
  /\ Authorized(q, e, NoOne, verb, t, set)

Authorize(q) ==
  \/ \E e \in Enrollments :
       \/ \E b \in WorkBlocks : AuthorizeSubmit(q, e, b)
       \/ \E s \in submissions : AuthorizeUpdate(q, e, s)
       \/ \E b \in Blocks, status \in {"not_started", "in_progress", "completed"} : AuthorizeProgress(q, e, b, status)
       \/ \E b \in CheckBlocks, correct \in BOOLEAN : AuthorizeAttempt(q, e, b, correct)
       \/ \E b \in WorkBlocks, watched \in BOOLEAN : AuthorizeVideo(q, e, b, watched)
       \/ AuthorizeWatch(q, e)
       \/ \E b \in WorkBlocks, text \in {"changed", "same"} : AuthorizeSync(q, e, b, text)
       \/ \E t \in AccessTables, verb \in 0..2, set \in BOOLEAN : AuthorizeOverride(q, e, t, verb, set)
  \/ \E e \in Enrollments \cup {NoOne}, s \in submissions, grade \in {"pass", "R"}, rubric \in BOOLEAN :
       AuthorizeGrade(q, e, s, grade, rubric)

\* Enrollment#with_learning_write_guard: SELECT ... FOR UPDATE reloads the enrollment, then
\* a request that started no later than the last reset is refused.  Without an
\* enrollment the block runs unguarded.
GuardRefuses(q, e) == enrollment[e].resetAt # 0 /\ req[q].started <= enrollment[e].resetAt

Enter(q) ==
  /\ pc' = [pc EXCEPT ![q] = "locked"]
  /\ enrollmentLock' = [e \in Enrollments |-> IF e = req[q].enrollment THEN q ELSE enrollmentLock[e]]
  /\ UNCHANGED <<clock, enrollment, userLock, req, apc, adm>>

GuardRetries(q) ==   \* mutant: a stale request is not refused but tries again
  LET e == req[q].enrollment IN
  /\ pc[q] = "authorized"
  /\ e # NoOne => enrollmentLock[e] = NoOne
  /\ \/ e = NoOne /\ Enter(q)
     \/ e # NoOne /\ Present(e) /\ ~GuardRefuses(q, e) /\ Enter(q)
     \/ e # NoOne /\ ~Present(e) /\ Answer(q)
  /\ UNCHANGED tables

EnterGuard(q) ==
  LET e == req[q].enrollment IN
  /\ pc[q] = "authorized"
  /\ e # NoOne => enrollmentLock[e] = NoOne
  /\ \/ e = NoOne /\ Enter(q)
     \/ e # NoOne /\ Present(e) /\ ~GuardRefuses(q, e) /\ Enter(q)
     \/ e # NoOne /\ Present(e) /\ GuardRefuses(q, e) /\ Answer(q)   \* 409
     \/ e # NoOne /\ ~Present(e) /\ Answer(q)                     \* 404
  /\ UNCHANGED tables

--------------------------------------------------------------------------------
(* The guarded blocks.  An insert into a table with a foreign key to users takes *)
(* FOR KEY SHARE on the student's row and waits for whoever holds it.            *)

Prov(q) == [kind |-> req[q].kind, via |-> req[q].enrollment, started |-> req[q].started, asOf |-> req[q].asOf]

\* Progress.find_or_initialize_by(...).update!(status:)
SetProgress(q, status) ==
  /\ progress[req[q].block] = NoRow => userLock = NoOne
  /\ progress' = [progress EXCEPT ![req[q].block] = [status |-> status, prov |-> Prov(q)]]

InBlock(k, q) == pc[q] = "locked" /\ req[q].kind = k

NewSubmission(q) ==
  /\ userLock = NoOne
  /\ submissions' = submissions \cup {[id |-> lastId + 1, block |-> req[q].block, grade |-> "none",
                                       children |-> {}, prov |-> Prov(q)]}
  /\ lastId' = lastId + 1

CreateSubmission(q) ==
  /\ InBlock("submit", q)
  /\ NewSubmission(q)
  /\ SetProgress(q, "completed")
  /\ Answer(q)
  /\ UNCHANGED <<attempts, watches, overrides>>

\* UPDATE ... WHERE id = ?: no row is touched, and no error raised, if it is gone.
Rows(id) == {s \in submissions : s.id = id}

UpdateSubmission(q) ==
  /\ InBlock("update", q)
  /\ submissions' = {IF s.id = req[q].submission THEN [s EXCEPT !.prov = Prov(q)] ELSE s : s \in submissions}
  /\ Answer(q)
  /\ UNCHANGED <<progress, attempts, watches, overrides, lastId>>

ProgressFor(grade) == IF grade = "R" THEN "in_progress" ELSE "completed"

\* Criterion results reference the submission; inserting them for a missing one fails
\* and rolls the whole block back.
Graded(q, s) ==
  [s EXCEPT !.grade = req[q].status, !.prov = Prov(q),
            !.children = IF req[q].flag THEN @ \cup {"criterion_results"} ELSE @]

Grade(q) ==
  LET id == req[q].submission IN
  /\ InBlock("grade", q)
  /\ \/ /\ req[q].flag => Rows(id) # {}
        /\ submissions' = {IF s.id = id THEN Graded(q, s) ELSE s : s \in submissions}
        /\ SetProgress(q, ProgressFor(req[q].status))
        /\ UNCHANGED lastId
     \/ req[q].flag /\ Rows(id) = {} /\ UNCHANGED <<submissions, progress, lastId>>
  /\ Answer(q)
  /\ UNCHANGED <<attempts, watches, overrides>>

UpdateProgress(q) ==
  /\ InBlock("progress", q)
  /\ SetProgress(q, req[q].status)
  /\ Answer(q)
  /\ UNCHANGED <<submissions, attempts, watches, overrides, lastId>>

CreateAttempt(q) ==
  /\ InBlock("attempt", q)
  /\ userLock = NoOne
  /\ attempts' = attempts \cup {[block |-> req[q].block, correct |-> req[q].flag, prov |-> Prov(q)]}
  /\ IF req[q].flag THEN SetProgress(q, "completed") ELSE UNCHANGED progress
  /\ Answer(q)
  /\ UNCHANGED <<submissions, watches, overrides, lastId>>

\* upsert_video_progress: completes at 90%, starts a block that was not started, and
\* otherwise leaves the status as it finds it.
VideoProgress(q) ==
  LET row == progress[req[q].block]
      status == IF row = NoRow THEN "not_started" ELSE row.status
  IN
  /\ InBlock("video", q)
  /\ SetProgress(q, IF req[q].flag THEN "completed" ELSE IF status = "not_started" THEN "in_progress" ELSE status)
  /\ Answer(q)
  /\ UNCHANGED <<submissions, attempts, watches, overrides, lastId>>

UpdateWatchProgress(q) ==
  LET e == req[q].enrollment IN
  /\ InBlock("watch", q)
  /\ watches[e] = NoRow => userLock = NoOne
  /\ watches' = [watches EXCEPT ![e] = Prov(q)]
  /\ Answer(q)
  /\ UNCHANGED <<submissions, progress, attempts, overrides, lastId>>

\* The student's latest submission for the block, if any.
Latest(b) == {s \in submissions : s.block = b /\ \A t \in submissions : t.block = b => t.id <= s.id}

\* One file of sync_student's loop: changed text clears a grade that is not passing.
Synced(q, s) == [s EXCEPT !.grade = IF @ = "pass" THEN @ ELSE "none", !.prov = Prov(q)]

SyncFile(q) ==
  LET latest == Latest(req[q].block) IN
  /\ InBlock("sync", q)
  /\ \/ /\ latest = {}
        /\ NewSubmission(q)
        /\ SetProgress(q, "completed")
     \/ /\ latest # {} /\ req[q].status = "changed"
        /\ submissions' = {IF s \in latest THEN Synced(q, s) ELSE s : s \in submissions}
        /\ SetProgress(q, "completed")
        /\ UNCHANGED lastId
     \/ /\ latest # {} /\ req[q].status = "same"
        /\ UNCHANGED <<submissions, progress, lastId>>
  /\ Answer(q)
  /\ UNCHANGED <<attempts, watches, overrides>>

\* Lesson and module assignments: create, update and destroy.  A lesson assignment that
\* exists is not created twice, and updating a deleted row touches nothing.
OverrideAfter(q, row) ==
  LET verb == req[q].submission
      lesson == req[q].status = "lesson_assignments"
      new == IF lesson \/ req[q].flag THEN Prov(q) ELSE NoOverride
  IN CASE verb = 0 -> IF lesson /\ row # NoRow THEN row ELSE new
       [] verb = 1 -> IF row = NoRow THEN NoRow ELSE new
       [] OTHER -> NoRow

WriteOverride(q) ==
  LET k == <<req[q].enrollment, req[q].status>> IN
  /\ InBlock("override", q)
  /\ overrides' = [overrides EXCEPT ![k] = OverrideAfter(q, @)]
  /\ Answer(q)
  /\ UNCHANGED <<submissions, progress, attempts, watches, lastId>>

LearningWrite(q) ==
  \/ CreateSubmission(q) \/ UpdateSubmission(q) \/ Grade(q)
  \/ UpdateProgress(q) \/ CreateAttempt(q) \/ VideoProgress(q)
  \/ UpdateWatchProgress(q) \/ SyncFile(q) \/ WriteOverride(q)

\* The block is about to insert a row that references the student.
InsertsForStudent(q) ==
  LET k == req[q].kind IN
  /\ pc[q] = "locked"
  /\ \/ k \in {"submit", "attempt"}
     \/ k \in {"progress", "video"} /\ progress[req[q].block] = NoRow
     \/ k = "grade" /\ progress[req[q].block] = NoRow /\ (req[q].flag => Rows(req[q].submission) # {})
     \/ k = "watch" /\ watches[req[q].enrollment] = NoRow
     \/ k = "sync" /\ \/ Latest(req[q].block) = {}
                      \/ req[q].status = "changed" /\ progress[req[q].block] = NoRow

\* GithubCheckRunSyncService stores the commit's check runs and prunes obsolete ones, outside
\* the guard.  The foreign key makes it wait for, and then fail on, a submission a restart
\* is deleting.
ImportCheckRuns(s, children) ==
  /\ s \in submissions
  /\ s.children \ {"check_runs"} = children \ {"check_runs"}
  /\ s.children # children
  /\ \A r \in Admins : apc[r] # "cleared"
  /\ submissions' = {IF t = s THEN [t EXCEPT !.children = children] ELSE t : t \in submissions}
  /\ UNCHANGED <<clock, enrollment, progress, attempts, watches, overrides, lastId, locks, pc, req, apc, adm>>

--------------------------------------------------------------------------------
(* Administrative requests.                                                      *)

Begin(r, op, e, target) ==
  /\ apc[r] = "idle"
  /\ Present(e)
  /\ apc' = [apc EXCEPT ![r] = "begun"]
  /\ adm' = [adm EXCEPT ![r] = [op |-> op, enrollment |-> e, loaded |-> enrollment[e].status,
                                target |-> target, resetAt |-> 0, snapshot |-> NoSnapshot]]
  /\ UNCHANGED <<clock, enrollment, tables, locks, pc, req>>

LockNobody(r) ==   \* mutant: the student's row is not locked
  /\ apc[r] = "begun"
  /\ apc' = [apc EXCEPT ![r] = "student_locked"]
  /\ UNCHANGED <<clock, enrollment, tables, locks, pc, req, adm>>

LockStudent(r) ==
  /\ apc[r] = "begun"
  /\ userLock = NoOne
  /\ userLock' = r
  /\ apc' = [apc EXCEPT ![r] = "student_locked"]
  /\ UNCHANGED <<clock, enrollment, tables, enrollmentLock, pc, req, adm>>

\* The end of an administrative transaction, committed or rolled back.
Close(r) ==
  /\ apc' = [apc EXCEPT ![r] = "idle"]
  /\ adm' = [adm EXCEPT ![r] = NoAdminRequest]
  /\ userLock' = NoOne
  /\ enrollmentLock' = Released(r)
  /\ UNCHANGED <<clock, pc, req>>

\* enrollments#update writes the status only if it differs from the copy it loaded, and
\* the UPDATE of a deleted row touches nothing.
SetStatus(r) ==
  LET a == adm[r]
      e == a.enrollment
  IN
  /\ apc[r] = "student_locked"
  /\ a.op = "status"
  /\ \/ a.loaded = a.target /\ UNCHANGED enrollment
     \/ /\ a.loaded # a.target
        /\ enrollmentLock[e] = NoOne
        /\ enrollment' = [enrollment EXCEPT ![e].status = IF Present(e) THEN a.target ELSE @]
  /\ Close(r)
  /\ UNCHANGED tables

NeverAmbiguous(e) == TRUE   \* mutant
Unambiguous(e) == \A f \in Enrollments \ {e} : ~Present(f)

\* A submission's own columns; its criterion results and check runs are other tables.
Columns(s) == [s EXCEPT !.children = {}]

CurrentSnapshot(e) ==
  [submissions |-> {Columns(s) : s \in submissions}, progress |-> progress, attempts |-> attempts,
   watch |-> watches[e], access |-> [t \in AccessTables |-> overrides[<<e, t>>]]]

\* EnrollmentRestartService#call: enrollment.lock!, ensure_unambiguous_curriculum!, snapshot.
TakeSnapshot(r) ==
  LET e == adm[r].enrollment IN
  /\ apc[r] = "student_locked"
  /\ adm[r].op = "restart"
  /\ enrollmentLock[e] = NoOne
  /\ \/ ~Present(e) /\ Close(r)
     \/ Present(e) /\ ~Unambiguous(e) /\ Close(r)
     \/ /\ Present(e) /\ Unambiguous(e)
        /\ enrollmentLock' = [enrollmentLock EXCEPT ![e] = r]
        /\ apc' = [apc EXCEPT ![r] = "snapshotted"]
        /\ adm' = [adm EXCEPT ![r].snapshot = CurrentSnapshot(e)]
        /\ UNCHANGED <<clock, userLock, pc, req>>
  /\ UNCHANGED <<enrollment, tables>>

\* The deletes and the reset stamp.  submissions.delete_all runs no callbacks, so a
\* submission with criterion results or check runs violates their foreign keys and
\* the transaction rolls back.
ClearLearningState(r) ==
  /\ apc[r] = "snapshotted"
  /\ \/ (\E s \in submissions : s.children # {}) /\ Close(r)
     \/ /\ \A s \in submissions : s.children = {}
        /\ apc' = [apc EXCEPT ![r] = "cleared"]
        /\ adm' = [adm EXCEPT ![r].resetAt = clock]
        /\ UNCHANGED <<clock, locks, pc, req>>
  /\ UNCHANGED <<enrollment, tables>>

ClearedOverrides(e) ==
  [overrides EXCEPT ![<<e, "lesson_assignments">>] = NoRow,
                    ![<<e, "module_assignments">>] = IF @ = NoRow THEN NoRow ELSE NoOverride]

\* COMMIT makes the deletes and the enrollment update visible.
CommitRestart(r) ==
  LET e == adm[r].enrollment IN
  /\ apc[r] = "cleared"
  /\ enrollment' = [enrollment EXCEPT ![e] = [@ EXCEPT !.status = "active", !.resetAt = adm[r].resetAt]]
  /\ submissions' = {}
  /\ progress' = [b \in Blocks |-> NoRow]
  /\ attempts' = {}
  /\ watches' = [watches EXCEPT ![e] = NoRow]
  /\ overrides' = ClearedOverrides(e)
  /\ Close(r)
  /\ UNCHANGED lastId

\* enrollments#create, under user.with_lock.
CreateEnrollment(e) ==
  /\ enrollment[e].state = "none"
  /\ userLock = NoOne
  /\ enrollment' = [enrollment EXCEPT ![e] = [state |-> "present", status |-> "active", resetAt |-> 0]]
  /\ overrides' = [overrides EXCEPT ![<<e, "module_assignments">>] = NoOverride]
  /\ UNCHANGED <<clock, submissions, progress, attempts, watches, lastId, locks, pc, req, apc, adm>>

\* enrollments#destroy removes the enrollment and its assignments; the evidence stays.
DestroyEnrollment(e) ==
  /\ Present(e)
  /\ enrollmentLock[e] = NoOne
  /\ enrollment' = [enrollment EXCEPT ![e].state = "gone"]
  /\ overrides' = [overrides EXCEPT ![<<e, "lesson_assignments">>] = NoRow, ![<<e, "module_assignments">>] = NoRow]
  /\ UNCHANGED <<clock, submissions, progress, attempts, watches, lastId, locks, pc, req, apc, adm>>

--------------------------------------------------------------------------------
(* PostgreSQL aborts one member of a cycle of waiters: here an administrative    *)
(* request that holds the users row and wants the enrollment, and a learning     *)
(* write that holds the enrollment and wants to insert a row for the student.    *)

DeadlockBetween(q, r) ==
  /\ apc[r] = "student_locked"
  /\ InsertsForStudent(q)
  /\ enrollmentLock[adm[r].enrollment] = q
  /\ adm[r].op = "status" => adm[r].loaded # adm[r].target

AbortWrite(q, r) == DeadlockBetween(q, r) /\ Answer(q) /\ UNCHANGED tables
AbortAdmin(q, r) == DeadlockBetween(q, r) /\ Close(r) /\ UNCHANGED <<enrollment, tables>>

--------------------------------------------------------------------------------
RequestStep(q) == Authenticate(q) \/ Forbid(q) \/ Authorize(q) \/ EnterGuard(q) \/ LearningWrite(q)
AdminStep(r) == LockStudent(r) \/ SetStatus(r) \/ TakeSnapshot(r) \/ ClearLearningState(r) \/ CommitRestart(r)

Next ==
  \/ Tick
  \/ \E q \in Requests : (\E k \in Kinds : CaptureStart(q, k)) \/ RequestStep(q)
  \/ \E s \in submissions, c \in SUBSET {"criterion_results", "check_runs"} : ImportCheckRuns(s, c)
  \/ \E r \in Admins : \/ \E e \in Enrollments : \/ "restart" \in Operations /\ Begin(r, "restart", e, "active")
                                                \/ \E t \in Statuses : "status" \in Operations /\ Begin(r, "status", e, t)
                       \/ AdminStep(r)
  \/ \E e \in Enrollments : CreateEnrollment(e) \/ DestroyEnrollment(e)
  \/ \E q \in Requests, r \in Admins : AbortWrite(q, r) \/ AbortAdmin(q, r)

Spec == Init /\ [][Next]_vars

\* A server thread keeps running and PostgreSQL grants row locks in order of arrival.
Fairness ==
  /\ \A q \in Requests :
       /\ SF_vars(Authenticate(q)) /\ WF_vars(Forbid(q) \/ Authorize(q))
       /\ SF_vars(EnterGuard(q)) /\ SF_vars(LearningWrite(q))
  /\ \A r \in Admins :
       /\ SF_vars(LockStudent(r)) /\ SF_vars(SetStatus(r) \/ TakeSnapshot(r))
       /\ WF_vars(ClearLearningState(r)) /\ WF_vars(CommitRestart(r))
  /\ \A q \in Requests, r \in Admins : WF_vars(AbortWrite(q, r) \/ AbortAdmin(q, r))

LiveSpec == Spec /\ Fairness

--------------------------------------------------------------------------------
(* Properties.                                                                   *)

Evidence == {s.prov : s \in submissions} \cup {progress[b].prov : b \in {c \in Blocks : progress[c] # NoRow}}
              \cup {a.prov : a \in attempts}

\* The writer passed the guard of some enrollment, and read it no earlier than the reset
\* of e; if e itself guarded it, the request started after the reset.
FreshFor(p, e) == p.via # NoOne => p.asOf >= enrollment[e].resetAt /\ (p.via = e => p.started > enrollment[e].resetAt)

\* No evidence, watch progress or schedule override that survives a restart comes from a
\* request that began before it: with_learning_write_guard refuses the late write, and
\* the restart removes whatever was committed earlier, whichever of the student's
\* enrollments the writer was authorized through.
NoStaleEvidence ==
  /\ \A p \in Evidence, e \in Enrollments : Present(e) => FreshFor(p, e)
  /\ \A e \in Enrollments : Present(e) =>
       /\ watches[e] # NoRow => watches[e].started > enrollment[e].resetAt
       /\ \A t \in AccessTables : overrides[<<e, t>>] \notin {NoRow, NoOverride} => overrides[<<e, t>>].started > enrollment[e].resetAt

\* EnrollmentRestart.snapshot, taken before the deletes, holds every row that they remove as
\* it is then: submissions, progress and attempts of guarded requests, watch progress, and
\* the lesson and module assignments.  No concurrent write is lost without a copy.
SnapshotComplete ==
  \A r \in Admins : apc[r] \in {"snapshotted", "cleared"} =>
    LET e == adm[r].enrollment
        copy == adm[r].snapshot
    IN /\ \A s \in submissions : s.prov.via # NoOne => Columns(s) \in copy.submissions
       /\ \A b \in Blocks : progress[b] # NoRow /\ progress[b].prov.via # NoOne => copy.progress[b] = progress[b]
       /\ attempts \subseteq copy.attempts
       /\ copy.watch = watches[e]
       /\ \A t \in AccessTables : copy.access[t] = overrides[<<e, t>>]

\* Neither the progress endpoint nor an attempt leaves a checkpoint with a knowledge check
\* completed unless a correct attempt backs it, although progress#update looks for the
\* attempt before it waits for the guard.  A checkpoint that takes submissions or carries
\* a video may also be completed by those.
CheckpointEvidence ==
  \A b \in CheckBlocks :
    /\ progress[b] # NoRow
    /\ progress[b].status = "completed" /\ progress[b].prov.kind \in {"progress", "attempt"}
    => CorrectAttempt(b)

\* Every learning write, restart and status update ends, whatever row locks it
\* waits for and whatever deadlocks are broken (with_learning_write_guard,
\* EnrollmentRestartService#call).
EveryoneAnswered ==
    /\ \A q \in Requests : []<>(pc[q] = "idle")
    /\ \A r \in Admins : []<>(apc[r] = "idle")

\* submissions_grading_test.rb:71, "staff grade rejects a request from before the enrollment
\* restart": a grade for a submission that a restart removed records no progress.
GradeOnlyExisting ==
  [][\A q \in Requests : Grade(q) /\ Rows(req[q].submission) = {} => UNCHANGED progress]_vars

=============================================================================
