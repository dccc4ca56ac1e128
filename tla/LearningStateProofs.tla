--------------------------- MODULE LearningStateProofs ---------------------------
(* Proofs about LearningState, for any number of enrollments, blocks, concurrent *)
(* learning writes and administrative requests, and without bound on the clock.  *)
EXTENDS LearningState, TLAPS

--------------------------------------------------------------------------------
(* The inductive invariant.                                                      *)

\* What authorization leaves in a request, by kind.
RequestShape ==
  \A q \in Requests : pc[q] \in {"authorized", "locked"} =>
    /\ req[q].kind # "grade" => req[q].enrollment \in Enrollments
    /\ req[q].kind \in {"submit", "sync", "video", "grade"} => req[q].block \in WorkBlocks
    /\ req[q].kind = "attempt" => req[q].block \in CheckBlocks
    /\ req[q].kind = "progress" => /\ req[q].block \in Blocks
                                   /\ req[q].status \in {"not_started", "in_progress", "completed"}
    /\ req[q].kind = "grade" => req[q].status \in {"pass", "R"}
    /\ req[q].kind = "override" => req[q].status \in AccessTables

Holding == {"snapshotted", "cleared"}

\* A lock is held exactly by the transaction whose control point says so.
LockOwners ==
  /\ \A e \in Enrollments, q \in Requests : enrollmentLock[e] = q <=> pc[q] = "locked" /\ req[q].enrollment = e
  /\ \A e \in Enrollments, r \in Admins : enrollmentLock[e] = r <=> apc[r] \in Holding /\ adm[r].enrollment = e
  /\ \A r \in Admins : userLock = r <=> apc[r] \in {"student_locked"} \cup Holding

\* A restart past its checks works on the student's only enrollment.
RestartTarget ==
  \A r \in Admins :
    /\ apc[r] # "idle" => adm[r].enrollment \in Enrollments
    /\ apc[r] \in Holding => Present(adm[r].enrollment) /\ Unambiguous(adm[r].enrollment)

\* Nothing happened in the future, and a request starts before it reads.
Times ==
  /\ clock >= 1
  /\ \A e \in Enrollments : enrollment[e].resetAt <= clock
  /\ \A r \in Admins : adm[r].resetAt <= clock
  /\ \A q \in Requests : /\ pc[q] # "idle" => 1 <= req[q].started /\ req[q].started <= clock
                         /\ pc[q] \in {"authorized", "locked"} => req[q].started <= req[q].asOf

\* A request inside the guard started after the last reset of its enrollment, which exists.
InsideGuard ==
  \A q \in Requests : pc[q] = "locked" /\ req[q].enrollment # NoOne =>
    Present(req[q].enrollment) /\ req[q].started > enrollment[req[q].enrollment].resetAt

\* A request whose enrollment still exists read it after the resets of all the others.
ReadAfterReset ==
  \A q \in Requests : pc[q] \in {"authorized", "locked"} /\ req[q].enrollment # NoOne =>
    /\ enrollment[req[q].enrollment].state # "none"
    /\ Present(req[q].enrollment) =>
         \A e \in Enrollments \ {req[q].enrollment} : Present(e) => req[q].asOf >= enrollment[e].resetAt

\* No student request that started after the reset stamp gets past authentication before the
\* restart commits.
StudentWaits ==
  \A q \in Requests, r \in Admins :
    apc[r] = "cleared" /\ pc[q] \in {"authenticated", "authorized", "locked"} /\ req[q].kind \in StudentKinds
      => req[q].started <= adm[r].resetAt

Completes(q) == /\ pc[q] \in {"authorized", "locked"}
                /\ req[q].kind = "progress" /\ req[q].status = "completed" /\ req[q].block \in CheckBlocks

\* A request allowed to complete a checkpoint still has its attempt, or is bound to be refused.
AttemptOrRefusal ==
  \A q \in Requests : Completes(q) /\ Present(req[q].enrollment) =>
    CorrectAttempt(req[q].block) \/ req[q].started <= enrollment[req[q].enrollment].resetAt

\* Every row was written by a request, so after the clock started.
RowsStarted ==
  /\ \A s \in submissions : s.prov.started >= 1
  /\ \A b \in Blocks : progress[b] # NoRow => progress[b].prov.started >= 1
  /\ \A a \in attempts : a.prov.started >= 1
  /\ \A e \in Enrollments : watches[e] # NoRow => watches[e].started >= 1
  /\ \A k \in Enrollments \X AccessTables : overrides[k] \notin {NoRow, NoOverride} => overrides[k].started >= 1

Control == TypeOK /\ RequestShape /\ LockOwners /\ RestartTarget /\ Times /\ InsideGuard /\ ReadAfterReset
IInv == Control /\ RowsStarted /\ StudentWaits /\ AttemptOrRefusal /\ NoStaleEvidence /\ SnapshotComplete /\ CheckpointEvidence

--------------------------------------------------------------------------------
(* What groups of steps have in common.                                          *)

\* Every guarded block runs under the lock and ends the request.
LEMMA WriteEnds ==
  ASSUME NEW q \in Requests, LearningWrite(q)
  PROVE  pc[q] = "locked" /\ Answer(q)
BY DEF LearningWrite, CreateSubmission, UpdateSubmission, Grade, UpdateProgress, CreateAttempt,
       VideoProgress, UpdateWatchProgress, SyncFile, WriteOverride, InBlock

\* What the handler of a request of kind k read agrees with its kind.
Readable(k, e, b, status) ==
  /\ k # "grade" => e \in Enrollments
  /\ e # NoOne => Present(e)
  /\ k \in {"submit", "sync", "video", "grade"} => b \in WorkBlocks
  /\ k = "attempt" => b \in CheckBlocks
  /\ k = "progress" => /\ b \in Blocks
                       /\ status \in {"not_started", "in_progress", "completed"}
                       /\ status = "completed" /\ b \in CheckBlocks => CorrectAttempt(b)
  /\ k = "grade" => status \in {"pass", "R"}
  /\ k = "override" => status \in AccessTables

\* Authorization changes the request alone, and records what it read.
AuthorizedRequest(q) ==
  /\ pc[q] = "authenticated"
  /\ pc' = [pc EXCEPT ![q] = "authorized"]
  /\ req' = [req EXCEPT ![q] = req'[q]]
  /\ req'[q] \in Request
  /\ req'[q].kind = req[q].kind /\ req'[q].started = req[q].started /\ req'[q].asOf = clock
  /\ Readable(req[q].kind, req'[q].enrollment, req'[q].block, req'[q].status)
  /\ UNCHANGED <<clock, enrollment, tables, locks, apc, adm>>

LEMMA AuthorizedFields ==
  ASSUME TypeOK, NEW q \in Requests, NEW e \in Enrollments \cup {NoOne}, NEW b \in Blocks \cup {NoOne},
         NEW s \in Nat, NEW status \in Inputs, NEW flag \in BOOLEAN,
         Authorized(q, e, b, s, status, flag), Readable(req[q].kind, e, b, status)
  PROVE  AuthorizedRequest(q)
<1>1. /\ pc[q] = "authenticated"
      /\ pc' = [pc EXCEPT ![q] = "authorized"]
      /\ req' = [req EXCEPT ![q] = req'[q]]
      /\ req'[q] \in Request
      /\ req'[q].kind = req[q].kind /\ req'[q].started = req[q].started /\ req'[q].asOf = clock
      /\ req'[q].enrollment = e /\ req'[q].block = b /\ req'[q].status = status
      /\ UNCHANGED <<clock, enrollment, tables, locks, apc, adm>>
  <2>1. req'[q] = [req[q] EXCEPT !.asOf = clock, !.enrollment = e, !.block = b,
                                 !.submission = s, !.status = status, !.flag = flag]
    BY DEF Authorized, TypeOK
  <2>2. req[q] \in Request /\ clock \in Nat
    BY DEF TypeOK
  <2>3. /\ req'[q] \in Request
        /\ req'[q].kind = req[q].kind /\ req'[q].started = req[q].started /\ req'[q].asOf = clock
        /\ req'[q].enrollment = e /\ req'[q].block = b /\ req'[q].status = status
    BY Zenon, <2>1, <2>2 DEF Request
  <2>4. req' = [req EXCEPT ![q] = req'[q]]
    BY DEF Authorized, TypeOK
  <2> QED
    BY <2>3, <2>4 DEF Authorized
<1> QED
  BY <1>1 DEF AuthorizedRequest

LEMMA AuthorizeReads ==
  ASSUME TypeOK, NEW q \in Requests, Authorize(q)
  PROVE  AuthorizedRequest(q)
<1> SUFFICES Authorize(q) => AuthorizedRequest(q)  OBVIOUS
<1>0. /\ \A b \in WorkBlocks \cup CheckBlocks : b \in Blocks
      /\ {"none", "not_started", "in_progress", "completed", "pass", "R", "changed", "same"} \subseteq Inputs
      /\ AccessTables \subseteq Inputs
      /\ 0 \in Nat /\ 0..2 \subseteq Nat
      /\ \A s \in submissions : s.id \in Nat /\ s.block \in WorkBlocks
      /\ NoOne \notin Enrollments
  BY ConstantsAssumption DEF Blocks, Inputs, AccessTables, TypeOK, SubmissionRow
<1>1. ASSUME NEW e \in Enrollments, NEW b \in WorkBlocks, AuthorizeSubmit(q, e, b) PROVE AuthorizedRequest(q)
  <2>1. Authorized(q, e, b, 0, "none", FALSE)
    BY Zenon, <1>1 DEF AuthorizeSubmit
  <2>2. Readable(req[q].kind, e, b, "none")
    BY <1>0, <1>1 DEF AuthorizeSubmit, ActiveEnrollment, Readable
  <2> QED
    BY Zenon, <1>0, <2>1, <2>2, AuthorizedFields
<1>2. ASSUME NEW e \in Enrollments, NEW s \in submissions, AuthorizeUpdate(q, e, s) PROVE AuthorizedRequest(q)
  <2>1. Authorized(q, e, s.block, s.id, "none", FALSE)
    BY Zenon, <1>2 DEF AuthorizeUpdate
  <2>2. Readable(req[q].kind, e, s.block, "none")
    BY <1>0, <1>2 DEF AuthorizeUpdate, ActiveEnrollment, Readable
  <2> QED
    BY Zenon, <1>0, <2>1, <2>2, AuthorizedFields
<1>3. ASSUME NEW e \in Enrollments, NEW b \in Blocks, NEW status \in {"not_started", "in_progress", "completed"},
             AuthorizeProgress(q, e, b, status) PROVE AuthorizedRequest(q)
  <2>1. Authorized(q, e, b, 0, status, FALSE)
    BY Zenon, <1>3 DEF AuthorizeProgress
  <2>2. Readable(req[q].kind, e, b, status)
    BY <1>0, <1>3 DEF AuthorizeProgress, ActiveEnrollment, Readable
  <2> QED
    BY Zenon, <1>0, <2>1, <2>2, AuthorizedFields
<1>4. ASSUME NEW e \in Enrollments, NEW b \in CheckBlocks, NEW correct \in BOOLEAN,
             AuthorizeAttempt(q, e, b, correct) PROVE AuthorizedRequest(q)
  <2>1. Authorized(q, e, b, 0, "none", correct)
    BY <1>4 DEF AuthorizeAttempt
  <2>2. Readable(req[q].kind, e, b, "none")
    BY <1>0, <1>4 DEF AuthorizeAttempt, ActiveEnrollment, Readable
  <2> QED
    BY <1>0, <2>1, <2>2, AuthorizedFields
<1>5. ASSUME NEW e \in Enrollments, NEW b \in WorkBlocks, NEW watched \in BOOLEAN,
             AuthorizeVideo(q, e, b, watched) PROVE AuthorizedRequest(q)
  <2>1. Authorized(q, e, b, 0, "none", watched)
    BY <1>5 DEF AuthorizeVideo
  <2>2. Readable(req[q].kind, e, b, "none")
    BY <1>0, <1>5 DEF AuthorizeVideo, ActiveEnrollment, Readable
  <2> QED
    BY <1>0, <2>1, <2>2, AuthorizedFields
<1>6. ASSUME NEW e \in Enrollments, AuthorizeWatch(q, e) PROVE AuthorizedRequest(q)
  <2>1. Authorized(q, e, NoOne, 0, "none", FALSE)
    BY Zenon, <1>6 DEF AuthorizeWatch
  <2>2. Readable(req[q].kind, e, NoOne, "none")
    BY <1>0, <1>6 DEF AuthorizeWatch, ActiveEnrollment, Readable
  <2> QED
    BY Zenon, <1>0, <2>1, <2>2, AuthorizedFields
<1>7. ASSUME NEW e \in Enrollments, NEW b \in WorkBlocks, NEW text \in {"changed", "same"},
             AuthorizeSync(q, e, b, text) PROVE AuthorizedRequest(q)
  <2>1. Authorized(q, e, b, 0, text, FALSE)
    BY Zenon, <1>7 DEF AuthorizeSync
  <2>2. Readable(req[q].kind, e, b, text)
    BY <1>0, <1>7 DEF AuthorizeSync, ActiveEnrollment, Readable
  <2> QED
    BY Zenon, <1>0, <2>1, <2>2, AuthorizedFields
<1>8. ASSUME NEW e \in Enrollments, NEW t \in AccessTables, NEW verb \in 0..2, NEW set \in BOOLEAN,
             AuthorizeOverride(q, e, t, verb, set) PROVE AuthorizedRequest(q)
  <2>1. Authorized(q, e, NoOne, verb, t, set)
    BY <1>8 DEF AuthorizeOverride
  <2>2. Readable(req[q].kind, e, NoOne, t)
    BY <1>0, <1>8 DEF AuthorizeOverride, ActiveEnrollment, Readable
  <2> QED
    BY <1>0, <2>1, <2>2, AuthorizedFields
<1>9. ASSUME NEW e \in Enrollments \cup {NoOne}, NEW s \in submissions, NEW grade \in {"pass", "R"}, NEW rubric \in BOOLEAN,
             AuthorizeGrade(q, e, s, grade, rubric) PROVE AuthorizedRequest(q)
  <2>1. Authorized(q, e, s.block, s.id, grade, rubric)
    BY <1>9 DEF AuthorizeGrade
  <2>2. Readable(req[q].kind, e, s.block, grade)
    BY <1>0, <1>9 DEF AuthorizeGrade, LearningEnrollmentFor, Readable
  <2> QED
    BY <1>0, <2>1, <2>2, AuthorizedFields
<1> QED
  BY <1>1, <1>2, <1>3, <1>4, <1>5, <1>6, <1>7, <1>8, <1>9 DEF Authorize

--------------------------------------------------------------------------------
(* Types.                                                                        *)

TablesOK ==
  /\ submissions \subseteq SubmissionRow
  /\ progress \in [Blocks -> ProgressRow \cup {NoRow}]
  /\ attempts \subseteq AttemptRow
  /\ watches \in [Enrollments -> Provenance \cup {NoRow}]
  /\ overrides \in [Enrollments \X AccessTables -> Provenance \cup {NoRow, NoOverride}]
  /\ lastId \in Nat

ProcessesOK ==
  /\ clock \in Nat
  /\ enrollment \in [Enrollments -> EnrollmentRow]
  /\ userLock \in Admins \cup {NoOne}
  /\ enrollmentLock \in [Enrollments -> Requests \cup Admins \cup {NoOne}]
  /\ pc \in [Requests -> {"idle", "started", "authenticated", "authorized", "locked"}]
  /\ req \in [Requests -> Request]
  /\ apc \in [Admins -> {"idle", "begun", "student_locked", "snapshotted", "cleared"}]
  /\ adm \in [Admins -> AdminRequest]

LEMMA TypeParts == TypeOK <=> TablesOK /\ ProcessesOK
BY DEF TypeOK, TablesOK, ProcessesOK

LEMMA NoRequestType == NoRequest \in Request
BY DEF NoRequest, Request, StudentKinds, Inputs

LEMMA NoSnapshotType == NoSnapshot \in Snapshot
<1>1. [b \in Blocks |-> NoRow] \in [Blocks -> ProgressRow \cup {NoRow}]
  OBVIOUS
<1>2. [t \in AccessTables |-> NoRow] \in [AccessTables -> Provenance \cup {NoRow, NoOverride}]
  OBVIOUS
<1> QED
  BY <1>1, <1>2 DEF NoSnapshot, Snapshot

LEMMA NoAdminRequestType == NoAdminRequest \in AdminRequest
BY NoSnapshotType DEF NoAdminRequest, AdminRequest, Statuses

LEMMA AnswerType ==
  ASSUME TypeOK, NEW q \in Requests, Answer(q)
  PROVE  ProcessesOK'
BY NoRequestType DEF Answer, Released, TypeOK, ProcessesOK

LEMMA CloseType ==
  ASSUME TypeOK, NEW r \in Admins, Close(r), enrollment' \in [Enrollments -> EnrollmentRow]
  PROVE  ProcessesOK'
BY NoAdminRequestType DEF Close, Released, TypeOK, ProcessesOK

LEMMA ProvType ==
  ASSUME TypeOK, NEW q \in Requests
  PROVE  Prov(q) \in Provenance
BY DEF Prov, Provenance, TypeOK, Request

LEMMA SetProgressType ==
  ASSUME TypeOK, NEW q \in Requests, NEW status \in {"not_started", "in_progress", "completed"}, SetProgress(q, status)
  PROVE  progress' \in [Blocks -> ProgressRow \cup {NoRow}]
<1>1. [status |-> status, prov |-> Prov(q)] \in ProgressRow
  BY ProvType DEF ProgressRow
<1> QED
  BY Zenon, <1>1 DEF SetProgress, TypeOK

LEMMA NewSubmissionType ==
  ASSUME TypeOK, NEW q \in Requests, req[q].block \in WorkBlocks, NewSubmission(q)
  PROVE  submissions' \subseteq SubmissionRow /\ lastId' \in Nat
BY ProvType DEF NewSubmission, SubmissionRow, TypeOK

LEMMA LearningWriteType ==
  ASSUME TypeOK, RequestShape, NEW q \in Requests, LearningWrite(q)
  PROVE  TablesOK'
<1> USE ProvType DEF InBlock
<1>1. CASE CreateSubmission(q)
  <2>1. req[q].block \in WorkBlocks
    BY <1>1 DEF CreateSubmission, RequestShape
  <2> QED
    BY <1>1, <2>1, NewSubmissionType, SetProgressType DEF CreateSubmission, TypeOK, TablesOK
<1>2. CASE UpdateSubmission(q)
  <2>1. ASSUME NEW s \in submissions PROVE [s EXCEPT !.prov = Prov(q)] \in SubmissionRow /\ s \in SubmissionRow
    BY DEF TypeOK, SubmissionRow
  <2> QED
    BY <1>2, <2>1 DEF UpdateSubmission, TypeOK, TablesOK
<1>3. CASE Grade(q)
  <2>1. req[q].status \in {"pass", "R"} /\ req[q].flag \in BOOLEAN
    BY <1>3 DEF Grade, RequestShape, TypeOK, Request
  <2>2. ASSUME NEW s \in submissions PROVE Graded(q, s) \in SubmissionRow /\ s \in SubmissionRow
    BY Zenon, <2>1 DEF TypeOK, SubmissionRow, Graded
  <2>3. ProgressFor(req[q].status) \in {"not_started", "in_progress", "completed"}
    BY DEF ProgressFor
  <2>4. submissions' \subseteq SubmissionRow
    BY <1>3, <2>2 DEF Grade, TypeOK
  <2>5. progress' \in [Blocks -> ProgressRow \cup {NoRow}]
    BY <1>3, <2>3, SetProgressType DEF Grade, TypeOK
  <2> QED
    BY <1>3, <2>4, <2>5 DEF Grade, TypeOK, TablesOK
<1>4. CASE UpdateProgress(q)
  BY <1>4, SetProgressType DEF UpdateProgress, RequestShape, TypeOK, TablesOK
<1>5. CASE CreateAttempt(q)
  <2>1. req[q].block \in CheckBlocks /\ req[q].flag \in BOOLEAN
    BY <1>5 DEF CreateAttempt, RequestShape, TypeOK, Request
  <2>2. [block |-> req[q].block, correct |-> req[q].flag, prov |-> Prov(q)] \in AttemptRow
    BY <2>1 DEF AttemptRow
  <2>3. progress' \in [Blocks -> ProgressRow \cup {NoRow}]
    BY <1>5, SetProgressType DEF CreateAttempt, TypeOK
  <2> QED
    BY <1>5, <2>2, <2>3 DEF CreateAttempt, TypeOK, TablesOK
<1>6. CASE VideoProgress(q)
  <2>1. req[q].block \in Blocks
    BY <1>6 DEF VideoProgress, RequestShape, Blocks
  <2>2. progress[req[q].block] \in ProgressRow \cup {NoRow}
    BY <2>1 DEF TypeOK
  <2>3. PICK status \in {"not_started", "in_progress", "completed"} : SetProgress(q, status)
    BY <1>6, <2>2 DEF VideoProgress, ProgressRow
  <2>4. progress' \in [Blocks -> ProgressRow \cup {NoRow}]
    BY <2>3, SetProgressType
  <2> QED
    BY <1>6, <2>4 DEF VideoProgress, TypeOK, TablesOK
<1>7. CASE UpdateWatchProgress(q)
  BY Zenon, <1>7 DEF UpdateWatchProgress, TypeOK, TablesOK
<1>8. CASE SyncFile(q)
  <2>1. req[q].block \in WorkBlocks
    BY <1>8 DEF SyncFile, RequestShape
  <2>2. ASSUME NEW s \in submissions PROVE Synced(q, s) \in SubmissionRow /\ s \in SubmissionRow
    BY Zenon DEF TypeOK, SubmissionRow, Synced
  <2>3. submissions' \subseteq SubmissionRow /\ lastId' \in Nat
    BY <1>8, <2>1, <2>2, NewSubmissionType DEF SyncFile, TypeOK
  <2>4. progress' \in [Blocks -> ProgressRow \cup {NoRow}]
    BY <1>8, SetProgressType DEF SyncFile, TypeOK
  <2> QED
    BY <1>8, <2>3, <2>4 DEF SyncFile, TypeOK, TablesOK
<1>9. CASE WriteOverride(q)
  <2>1. ASSUME NEW row \in Provenance \cup {NoRow, NoOverride}
        PROVE  OverrideAfter(q, row) \in Provenance \cup {NoRow, NoOverride}
    BY DEF OverrideAfter
  <2>2. overrides' \in [Enrollments \X AccessTables -> Provenance \cup {NoRow, NoOverride}]
    BY Zenon, <1>9, <2>1 DEF WriteOverride, TypeOK
  <2> QED
    BY <1>9, <2>2 DEF WriteOverride, TypeOK, TablesOK
<1> QED
  BY <1>1, <1>2, <1>3, <1>4, <1>5, <1>6, <1>7, <1>8, <1>9 DEF LearningWrite

--------------------------------------------------------------------------------
(* Control: types, locks, times and what a request may rely on.                  *)

LEMMA TickControl ==
  ASSUME Control, Tick
  PROVE  Control'
<1>1. TypeOK'
  BY DEF Control, Tick, TypeOK, tables, locks
<1>2. Times'
  BY DEF Control, Tick, Times, TypeOK, EnrollmentRow, Request, AdminRequest, tables, locks
<1>3. RequestShape' /\ LockOwners' /\ RestartTarget' /\ InsideGuard' /\ ReadAfterReset'
  BY DEF Control, Tick, RequestShape, LockOwners, RestartTarget, InsideGuard, ReadAfterReset, Present, Unambiguous, tables, locks
<1> QED
  BY <1>1, <1>2, <1>3 DEF Control

\* Ending a learning write, whatever it wrote.
LEMMA AnswerControl ==
  ASSUME Control, NEW q \in Requests, Answer(q), TablesOK'
  PROVE  Control'
<1>1. TypeOK'
  BY AnswerType, TypeParts, PTL DEF Control
<1>2. /\ pc'[q] = "idle" /\ \A p \in Requests \ {q} : pc'[p] = pc[p] /\ req'[p] = req[p]
      /\ enrollmentLock' = [e \in Enrollments |-> IF enrollmentLock[e] = q THEN NoOne ELSE enrollmentLock[e]]
      /\ UNCHANGED <<clock, enrollment, userLock, apc, adm>>
  BY DEF Control, TypeOK, Answer, Released
<1>3. RequestShape'
  BY <1>2 DEF Control, RequestShape
<1>4. LockOwners'
  BY <1>2, ConstantsAssumption DEF Control, LockOwners
<1>5. RestartTarget'
  BY <1>2 DEF Control, RestartTarget, Present, Unambiguous
<1>6. Times'
  BY <1>2 DEF Control, Times
<1>7. InsideGuard' /\ ReadAfterReset'
  BY <1>2 DEF Control, InsideGuard, ReadAfterReset, Present
<1> QED
  BY <1>1, <1>3, <1>4, <1>5, <1>6, <1>7 DEF Control

\* Ending an administrative request that resets nothing and removes no enrollment.
LEMMA CloseControl ==
  ASSUME Control, NEW r \in Admins, apc[r] \in {"student_locked"} \cup Holding, Close(r), UNCHANGED tables,
         enrollment' \in [Enrollments -> EnrollmentRow],
         \A e \in Enrollments : enrollment'[e].state = enrollment[e].state /\ enrollment'[e].resetAt = enrollment[e].resetAt
  PROVE  Control'
<1>1. TypeOK'
  <2>1. TablesOK'
    BY DEF Control, TypeOK, TablesOK, tables
  <2> QED
    BY <2>1, CloseType, TypeParts, PTL DEF Control
<1>2. /\ apc'[r] = "idle" /\ adm'[r].resetAt = 0
      /\ \A p \in Admins \ {r} : apc'[p] = apc[p] /\ adm'[p] = adm[p]
      /\ userLock' = NoOne
      /\ enrollmentLock' = [e \in Enrollments |-> IF enrollmentLock[e] = r THEN NoOne ELSE enrollmentLock[e]]
      /\ UNCHANGED <<clock, pc, req>>
  BY DEF Control, TypeOK, Close, Released, NoAdminRequest
<1>3. RequestShape'
  BY <1>2 DEF Control, RequestShape
<1>4. LockOwners'
  <2>1. userLock = r
    BY DEF Control, LockOwners
  <2>2. \A p \in Admins \ {r} : apc[p] \notin {"student_locked"} \cup Holding
    BY <2>1 DEF Control, LockOwners
  <2>3. \A p \in Admins : userLock' = p <=> apc'[p] \in {"student_locked"} \cup Holding
    BY <1>2, <2>2, ConstantsAssumption DEF Holding
  <2>4. \A e \in Enrollments, p \in Admins : enrollmentLock'[e] = p <=> apc'[p] \in Holding /\ adm'[p].enrollment = e
    BY <1>2, <2>2, ConstantsAssumption DEF Control, LockOwners, Holding
  <2>5. \A e \in Enrollments, q \in Requests : enrollmentLock'[e] = q <=> pc'[q] = "locked" /\ req'[q].enrollment = e
    BY <1>2, ConstantsAssumption DEF Control, LockOwners
  <2> QED
    BY <2>3, <2>4, <2>5 DEF LockOwners
<1>5. RestartTarget'
  BY <1>2 DEF Control, RestartTarget, Present, Unambiguous, Holding
<1>6. Times'
  <2>1. clock \in Nat
    BY DEF Control, TypeOK
  <2>2. \A p \in Admins : adm'[p].resetAt <= clock'
    BY <1>2, <2>1 DEF Control, Times
  <2> QED
    BY <1>2, <2>2 DEF Control, Times
<1>7. InsideGuard' /\ ReadAfterReset'
  <2>1. \A q \in Requests : req[q].enrollment \in Enrollments \cup {NoOne}
    BY DEF Control, TypeOK, Request
  <2> QED
    BY <1>2, <2>1 DEF Control, InsideGuard, ReadAfterReset, Present
<1> QED
  BY <1>1, <1>3, <1>4, <1>5, <1>6, <1>7 DEF Control

LEMMA StartControl ==
  ASSUME Control, NEW q \in Requests, NEW k \in Kinds, CaptureStart(q, k)
  PROVE  Control'
<1>1. TypeOK'
  <2>1. [NoRequest EXCEPT !.kind = k, !.started = clock] \in Request
    BY Zenon, ConstantsAssumption, NoRequestType DEF Request, Control, TypeOK
  <2> QED
    BY <2>1 DEF Control, CaptureStart, TypeOK, tables, locks
<1>2. /\ pc[q] = "idle" /\ pc'[q] = "started" /\ req'[q].started = clock
      /\ \A p \in Requests \ {q} : pc'[p] = pc[p] /\ req'[p] = req[p]
      /\ UNCHANGED <<clock, enrollment, locks, apc, adm>>
  BY DEF Control, TypeOK, CaptureStart, NoRequest
<1>3. RequestShape' /\ RestartTarget' /\ InsideGuard' /\ ReadAfterReset'
  BY <1>2 DEF Control, RequestShape, RestartTarget, Present, Unambiguous, InsideGuard, ReadAfterReset
<1>4. LockOwners'
  BY <1>2 DEF Control, LockOwners, locks
<1>5. Times'
  <2>1. clock \in Nat
    BY DEF Control, TypeOK
  <2> QED
    BY <1>2, <2>1 DEF Control, Times
<1> QED
  BY <1>1, <1>3, <1>4, <1>5 DEF Control

\* Locks and control points untouched.
LEMMA LocksSame ==
  ASSUME LockOwners, UNCHANGED <<locks, pc, req, apc, adm>>
  PROVE  LockOwners'
BY DEF LockOwners, locks

LEMMA ShapeSame ==
  ASSUME RequestShape, UNCHANGED <<pc, req>>
  PROVE  RequestShape'
BY DEF RequestShape

LEMMA WriterHolds ==
  ASSUME LockOwners, NEW q \in Requests, pc[q] = "locked", req[q].enrollment \in Enrollments
  PROVE  enrollmentLock[req[q].enrollment] = q
BY DEF LockOwners

LEMMA HoldsEnrollment ==
  ASSUME LockOwners, NEW r \in Admins, NEW e \in Enrollments, apc[r] \in Holding, adm[r].enrollment = e
  PROVE  enrollmentLock[e] = r
BY DEF LockOwners

\* A request that neither held a lock nor takes one.
LEMMA LocksKept ==
  ASSUME LockOwners, NEW q \in Requests, pc[q] # "locked", pc'[q] # "locked",
         \A p \in Requests \ {q} : pc'[p] = pc[p] /\ req'[p] = req[p],
         UNCHANGED <<locks, apc, adm>>
  PROVE  LockOwners'
BY DEF LockOwners, locks

LEMMA AuthenticateControl ==
  ASSUME Control, NEW q \in Requests, Authenticate(q)
  PROVE  Control'
<1>1. TypeOK'
  BY DEF Control, Authenticate, TypeOK, tables, locks
<1>2. /\ pc[q] = "started" /\ pc'[q] = "authenticated"
      /\ \A p \in Requests \ {q} : pc'[p] = pc[p]
      /\ UNCHANGED <<clock, enrollment, locks, req, apc, adm>>
  BY Zenon DEF Control, TypeOK, Authenticate
<1>3. RequestShape' /\ RestartTarget' /\ InsideGuard' /\ ReadAfterReset' /\ Times'
  BY <1>2 DEF Control, RequestShape, RestartTarget, Present, Unambiguous, InsideGuard, ReadAfterReset, Times
<1>4. LockOwners'
  BY <1>2, LocksKept DEF Control
<1> QED
  BY <1>1, <1>3, <1>4 DEF Control

LEMMA AuthorizeControl ==
  ASSUME Control, NEW q \in Requests, Authorize(q)
  PROVE  Control'
<1>0. AuthorizedRequest(q)
  BY Zenon, AuthorizeReads DEF Control
<1>1. TypeOK'
  BY <1>0 DEF AuthorizedRequest, Control, TypeOK, tables, locks
<1>2. /\ pc[q] = "authenticated" /\ pc'[q] = "authorized"
      /\ req'[q].started = req[q].started /\ req'[q].asOf = clock
      /\ Readable(req'[q].kind, req'[q].enrollment, req'[q].block, req'[q].status)
      /\ \A p \in Requests \ {q} : pc'[p] = pc[p] /\ req'[p] = req[p]
      /\ UNCHANGED <<clock, enrollment, locks, apc, adm>>
  BY <1>0 DEF AuthorizedRequest, Control, TypeOK
<1>3. RequestShape'
  BY Zenon, <1>2 DEF Control, RequestShape, Readable
<1>4. LockOwners'
  BY <1>2, LocksKept DEF Control
<1>5. RestartTarget' /\ InsideGuard' /\ Times'
  BY <1>2 DEF Control, RestartTarget, InsideGuard, Times, Present, Unambiguous
<1>6. ReadAfterReset'
  <2>1. \A e \in Enrollments : clock >= enrollment[e].resetAt
    BY DEF Control, Times, TypeOK, EnrollmentRow
  <2> QED
    BY <1>2, <2>1 DEF Control, ReadAfterReset, Readable, Present
<1> QED
  BY <1>1, <1>3, <1>4, <1>5, <1>6 DEF Control

\* The guard admits a request only if it started after the last reset.
LEMMA EnterControl ==
  ASSUME Control, NEW q \in Requests, EnterGuard(q), Enter(q)
  PROVE  Control'
<1>0. req[q].enrollment \in Enrollments \cup {NoOne} /\ req[q].started \in Nat
  BY Zenon DEF Control, TypeOK, Request
<1>1. TypeOK'
  BY Zenon DEF Control, EnterGuard, Enter, TypeOK, tables
<1>2. /\ pc[q] = "authorized" /\ pc'[q] = "locked"
      /\ \A p \in Requests \ {q} : pc'[p] = pc[p]
      /\ enrollmentLock' = [e \in Enrollments |-> IF e = req[q].enrollment THEN q ELSE enrollmentLock[e]]
      /\ req[q].enrollment # NoOne => enrollmentLock[req[q].enrollment] = NoOne
      /\ UNCHANGED <<clock, enrollment, userLock, req, apc, adm>>
  BY DEF Control, TypeOK, EnterGuard, Enter
<1>3. req[q].enrollment # NoOne => Present(req[q].enrollment) /\ req[q].started > enrollment[req[q].enrollment].resetAt
  <2>1. pc'[q] # "idle"
    BY <1>2
  <2>2. ~(Answer(q))
    BY <2>1 DEF Answer, Control, TypeOK
  <2>3. req[q].enrollment # NoOne => Present(req[q].enrollment) /\ ~GuardRefuses(q, req[q].enrollment)
    BY <2>2 DEF EnterGuard
  <2>4. req[q].started >= 1
    BY <1>2, <1>0 DEF Control, Times
  <2>5. \A e \in Enrollments : enrollment[e].resetAt \in Nat
    BY Zenon DEF Control, TypeOK, EnrollmentRow
  <2> QED
    BY <1>0, <2>3, <2>4, <2>5 DEF GuardRefuses
<1>4. RequestShape' /\ RestartTarget' /\ Times' /\ ReadAfterReset'
  BY Zenon, <1>2 DEF Control, RequestShape, RestartTarget, Times, ReadAfterReset, Present, Unambiguous
<1>5. InsideGuard'
  BY <1>2, <1>3 DEF Control, InsideGuard, Present
<1>6. LockOwners'
  <2>1. \A e \in Enrollments, p \in Requests : enrollmentLock'[e] = p <=> pc'[p] = "locked" /\ req'[p].enrollment = e
    BY <1>0, <1>2, ConstantsAssumption DEF Control, LockOwners
  <2>2. \A e \in Enrollments, r \in Admins : enrollmentLock'[e] = r <=> apc'[r] \in Holding /\ adm'[r].enrollment = e
    BY <1>0, <1>2, ConstantsAssumption DEF Control, LockOwners
  <2> QED
    BY <1>2, <2>1, <2>2 DEF Control, LockOwners
<1> QED
  BY <1>1, <1>4, <1>5, <1>6 DEF Control

LEMMA BeginControl ==
  ASSUME Control, NEW r \in Admins, NEW op \in {"restart", "status"}, NEW e \in Enrollments, NEW t \in Statuses,
         Begin(r, op, e, t)
  PROVE  Control'
<1>1. TypeOK'
  <2>1. [op |-> op, enrollment |-> e, loaded |-> enrollment[e].status,
         target |-> t, resetAt |-> 0, snapshot |-> NoSnapshot] \in AdminRequest
    BY NoSnapshotType DEF Control, TypeOK, AdminRequest, EnrollmentRow
  <2> QED
    BY <2>1 DEF Control, Begin, TypeOK, tables, locks
<1>2. /\ apc[r] = "idle" /\ apc'[r] = "begun" /\ adm'[r].enrollment = e /\ adm'[r].resetAt = 0
      /\ \A p \in Admins \ {r} : apc'[p] = apc[p] /\ adm'[p] = adm[p]
      /\ UNCHANGED <<clock, enrollment, locks, pc, req>>
  BY Zenon DEF Control, TypeOK, Begin
<1>3. RequestShape' /\ InsideGuard' /\ ReadAfterReset'
  BY Zenon, <1>2 DEF Control, RequestShape, InsideGuard, ReadAfterReset, Present
<1>4. RestartTarget'
  BY <1>2 DEF Control, RestartTarget, Present, Unambiguous, Holding
<1>5. LockOwners'
  BY <1>2 DEF Control, LockOwners, Holding, locks
<1>6. Times'
  <2>1. clock \in Nat
    BY DEF Control, TypeOK
  <2> QED
    BY <1>2, <2>1 DEF Control, Times
<1> QED
  BY <1>1, <1>3, <1>4, <1>5, <1>6 DEF Control

LEMMA LockStudentControl ==
  ASSUME Control, NEW r \in Admins, LockStudent(r)
  PROVE  Control'
<1>1. TypeOK'
  BY DEF Control, LockStudent, TypeOK, tables
<1>2. /\ apc[r] = "begun" /\ apc'[r] = "student_locked" /\ userLock = NoOne /\ userLock' = r
      /\ \A p \in Admins \ {r} : apc'[p] = apc[p]
      /\ UNCHANGED <<clock, enrollment, enrollmentLock, pc, req, adm>>
  BY Zenon DEF Control, TypeOK, LockStudent
<1>3. RequestShape' /\ InsideGuard' /\ ReadAfterReset' /\ Times'
  BY Zenon, <1>2 DEF Control, RequestShape, InsideGuard, ReadAfterReset, Present, Times
<1>4. RestartTarget'
  BY <1>2 DEF Control, RestartTarget, Present, Unambiguous, Holding
<1>5. LockOwners'
  BY <1>2, ConstantsAssumption DEF Control, LockOwners, Holding
<1> QED
  BY <1>1, <1>3, <1>4, <1>5 DEF Control

LEMMA SetStatusControl ==
  ASSUME Control, NEW r \in Admins, SetStatus(r)
  PROVE  Control'
<1>1. adm[r].enrollment \in Enrollments /\ adm[r].target \in Statuses
  BY DEF Control, RestartTarget, SetStatus, TypeOK, AdminRequest
<1>2. /\ enrollment' \in [Enrollments -> EnrollmentRow]
      /\ \A e \in Enrollments : enrollment'[e].state = enrollment[e].state /\ enrollment'[e].resetAt = enrollment[e].resetAt
  <2>1. enrollment \in [Enrollments -> EnrollmentRow]
    BY DEF Control, TypeOK
  <2>2. CASE UNCHANGED enrollment
    BY <2>1, <2>2
  <2>3. CASE enrollment' = [enrollment EXCEPT ![adm[r].enrollment].status =
                              IF Present(adm[r].enrollment) THEN adm[r].target ELSE @]
    <3> DEFINE e0 == adm[r].enrollment
               row == [enrollment[e0] EXCEPT !.status = IF Present(e0) THEN adm[r].target ELSE @]
    <3>1. row \in EnrollmentRow /\ row.state = enrollment[e0].state /\ row.resetAt = enrollment[e0].resetAt
      BY <1>1, <2>1 DEF EnrollmentRow
    <3>2. enrollment' = [enrollment EXCEPT ![e0] = row]
      BY Zenon, <2>3
    <3> QED
      BY <1>1, <2>1, <3>1, <3>2
  <2> QED
    BY <2>2, <2>3 DEF SetStatus
<1> QED
  BY <1>2, CloseControl DEF SetStatus

LEMMA SnapshotType ==
  ASSUME TypeOK, NEW e \in Enrollments
  PROVE  CurrentSnapshot(e) \in Snapshot
<1>1. {Columns(s) : s \in submissions} \subseteq SubmissionRow
  <2>1. ASSUME NEW s \in submissions PROVE Columns(s) \in SubmissionRow
    BY DEF TypeOK, SubmissionRow, Columns
  <2> QED
    BY Zenon, <2>1
<1>2. [t \in AccessTables |-> overrides[<<e, t>>]] \in [AccessTables -> Provenance \cup {NoRow, NoOverride}]
  <2>1. ASSUME NEW t \in AccessTables PROVE overrides[<<e, t>>] \in Provenance \cup {NoRow, NoOverride}
    BY DEF TypeOK
  <2> QED
    BY Zenon, <2>1
<1>3. watches[e] \in Provenance \cup {NoRow} /\ progress \in [Blocks -> ProgressRow \cup {NoRow}] /\ attempts \subseteq AttemptRow
  BY Zenon DEF TypeOK
<1> QED
  BY <1>1, <1>2, <1>3 DEF CurrentSnapshot, Snapshot

LEMMA SnapshotControl ==
  ASSUME Control, NEW r \in Admins, TakeSnapshot(r)
  PROVE  Control'
<1>1. CASE Close(r)
  BY <1>1, CloseControl DEF TakeSnapshot, Control, TypeOK
<1>2. CASE /\ Present(adm[r].enrollment) /\ Unambiguous(adm[r].enrollment)
           /\ enrollmentLock' = [enrollmentLock EXCEPT ![adm[r].enrollment] = r]
           /\ apc' = [apc EXCEPT ![r] = "snapshotted"]
           /\ adm' = [adm EXCEPT ![r].snapshot = CurrentSnapshot(adm[r].enrollment)]
           /\ UNCHANGED <<clock, userLock, pc, req>>
  <2>0. /\ apc[r] = "student_locked" /\ enrollmentLock[adm[r].enrollment] = NoOne
        /\ UNCHANGED <<enrollment, tables>> /\ adm[r].enrollment \in Enrollments
    BY Zenon DEF TakeSnapshot, Control, RestartTarget
  <2>1. CurrentSnapshot(adm[r].enrollment) \in Snapshot
    BY <2>0, SnapshotType DEF Control
  <2>2. TypeOK'
    <3>1. [adm[r] EXCEPT !.snapshot = CurrentSnapshot(adm[r].enrollment)] \in AdminRequest
      BY <2>1 DEF Control, TypeOK, AdminRequest
    <3>2. adm' \in [Admins -> AdminRequest]
      BY <1>2, <3>1 DEF Control, TypeOK
    <3> QED
      BY <1>2, <2>0, <3>2 DEF Control, TypeOK, tables
  <2>3. /\ apc'[r] = "snapshotted" /\ adm'[r].enrollment = adm[r].enrollment /\ adm'[r].resetAt = adm[r].resetAt
        /\ \A p \in Admins \ {r} : apc'[p] = apc[p] /\ adm'[p] = adm[p]
    BY <1>2 DEF Control, TypeOK, AdminRequest
  <2>4. RequestShape' /\ InsideGuard' /\ ReadAfterReset'
    BY <1>2, <2>0 DEF Control, RequestShape, InsideGuard, ReadAfterReset, Present
  <2>5. Times'
    BY <1>2, <2>0, <2>3 DEF Control, Times
  <2>6. RestartTarget'
    BY <1>2, <2>0, <2>3 DEF Control, RestartTarget, Present, Unambiguous
  <2>7. LockOwners'
    <3>1. \A e \in Enrollments : enrollmentLock'[e] = IF e = adm[r].enrollment THEN r ELSE enrollmentLock[e]
      BY <1>2 DEF Control, TypeOK
    <3>2. \A e \in Enrollments, q \in Requests : enrollmentLock'[e] = q <=> pc'[q] = "locked" /\ req'[q].enrollment = e
      BY <1>2, <2>0, <3>1, ConstantsAssumption DEF Control, LockOwners
    <3>3. \A e \in Enrollments, p \in Admins : enrollmentLock'[e] = p <=> apc'[p] \in Holding /\ adm'[p].enrollment = e
      BY <2>0, <2>3, <3>1, ConstantsAssumption DEF Control, LockOwners, Holding
    <3>4. \A p \in Admins : userLock' = p <=> apc'[p] \in {"student_locked"} \cup Holding
      BY <1>2, <2>0, <2>3 DEF Control, LockOwners, Holding
    <3> QED
      BY <3>2, <3>3, <3>4 DEF LockOwners
  <2> QED
    BY <2>2, <2>4, <2>5, <2>6, <2>7 DEF Control
<1> QED
  BY <1>1, <1>2 DEF TakeSnapshot

LEMMA ClearControl ==
  ASSUME Control, NEW r \in Admins, ClearLearningState(r)
  PROVE  Control'
<1>1. CASE Close(r)
  BY <1>1, CloseControl DEF ClearLearningState, Control, TypeOK, Holding
<1>2. CASE /\ apc' = [apc EXCEPT ![r] = "cleared"]
           /\ adm' = [adm EXCEPT ![r].resetAt = clock]
           /\ UNCHANGED <<clock, locks, pc, req>>
  <2>0. apc[r] = "snapshotted" /\ UNCHANGED <<enrollment, tables>>
    BY DEF ClearLearningState
  <2>2. TypeOK'
    BY Zenon, <1>2, <2>0 DEF Control, TypeOK, AdminRequest, tables, locks
  <2>3. /\ apc'[r] = "cleared" /\ adm'[r].enrollment = adm[r].enrollment /\ adm'[r].resetAt = clock
        /\ \A p \in Admins \ {r} : apc'[p] = apc[p] /\ adm'[p] = adm[p]
    BY <1>2 DEF Control, TypeOK, AdminRequest
  <2>4. RequestShape' /\ InsideGuard' /\ ReadAfterReset'
    BY <1>2, <2>0 DEF Control, RequestShape, InsideGuard, ReadAfterReset, Present
  <2>5. Times'
    <3>1. clock \in Nat
      BY DEF Control, TypeOK
    <3> QED
      BY <1>2, <2>0, <2>3, <3>1 DEF Control, Times
  <2>6. RestartTarget'
    BY <1>2, <2>0, <2>3 DEF Control, RestartTarget, Present, Unambiguous, Holding
  <2>7. LockOwners'
    BY <1>2, <2>0, <2>3 DEF Control, LockOwners, Holding, locks
  <2> QED
    BY <2>2, <2>4, <2>5, <2>6, <2>7 DEF Control
<1> QED
  BY <1>1, <1>2 DEF ClearLearningState

\* The commit stamps the only enrollment there is, while it holds that row.
LEMMA CommitControl ==
  ASSUME Control, NEW r \in Admins, CommitRestart(r)
  PROVE  Control'
<1> DEFINE e0 == adm[r].enrollment
           row == [enrollment[e0] EXCEPT !.status = "active", !.resetAt = adm[r].resetAt]
<1>0. /\ apc[r] = "cleared" /\ Close(r) /\ e0 \in Enrollments /\ Present(e0) /\ Unambiguous(e0)
      /\ enrollment' = [enrollment EXCEPT ![e0] = row]
      /\ enrollmentLock[e0] = r /\ userLock = r
  BY DEF CommitRestart, Control, RestartTarget, LockOwners, Holding
<1>1. row \in EnrollmentRow /\ row.state = "present" /\ row.resetAt = adm[r].resetAt
  <2>1. enrollment[e0] \in EnrollmentRow /\ adm[r] \in AdminRequest
    BY <1>0 DEF Control, TypeOK
  <2>2. enrollment[e0].state = "present" /\ adm[r].resetAt \in Nat
    BY <1>0, <2>1 DEF Present, AdminRequest
  <2> QED
    BY Zenon, <2>1, <2>2 DEF EnrollmentRow, Statuses
<1>2. /\ enrollment' \in [Enrollments -> EnrollmentRow]
      /\ \A e \in Enrollments : enrollment'[e].state = enrollment[e].state
      /\ \A e \in Enrollments \ {e0} : enrollment'[e] = enrollment[e] /\ ~Present(e)
      /\ enrollment'[e0].resetAt = adm[r].resetAt
  BY <1>0, <1>1 DEF Control, TypeOK, Unambiguous, Present
<1>3. TypeOK'
  <2>1. TablesOK'
    BY Zenon, <1>0 DEF CommitRestart, ClearedOverrides, Control, TypeOK, TablesOK, AccessTables
  <2> QED
    BY <1>0, <1>2, <2>1, CloseType, TypeParts, PTL DEF Control
<1>4. /\ apc'[r] = "idle" /\ adm'[r].resetAt = 0
      /\ \A p \in Admins \ {r} : apc'[p] = apc[p] /\ adm'[p] = adm[p]
      /\ userLock' = NoOne
      /\ enrollmentLock' = [e \in Enrollments |-> IF enrollmentLock[e] = r THEN NoOne ELSE enrollmentLock[e]]
      /\ UNCHANGED <<clock, pc, req>>
  BY <1>0 DEF Control, TypeOK, Close, Released, NoAdminRequest
<1>5. RequestShape'
  BY <1>4 DEF Control, RequestShape
<1>6. \A p \in Admins \ {r} : apc[p] \notin {"student_locked"} \cup Holding
  BY <1>0 DEF Control, LockOwners
<1>7. LockOwners'
  <2>1. \A p \in Admins : userLock' = p <=> apc'[p] \in {"student_locked"} \cup Holding
    BY <1>4, <1>6, ConstantsAssumption DEF Holding
  <2>2. \A e \in Enrollments, p \in Admins : enrollmentLock'[e] = p <=> apc'[p] \in Holding /\ adm'[p].enrollment = e
    BY <1>4, <1>6, ConstantsAssumption DEF Control, LockOwners, Holding
  <2>3. \A e \in Enrollments, q \in Requests : enrollmentLock'[e] = q <=> pc'[q] = "locked" /\ req'[q].enrollment = e
    BY <1>4, ConstantsAssumption DEF Control, LockOwners
  <2> QED
    BY <2>1, <2>2, <2>3 DEF LockOwners
<1>8. RestartTarget'
  BY Zenon, <1>4, <1>6 DEF Control, RestartTarget, Holding
<1>9. Times'
  <2>1. clock \in Nat /\ adm[r].resetAt <= clock
    BY DEF Control, TypeOK, Times
  <2>2. \A e \in Enrollments : enrollment'[e].resetAt <= clock'
    BY Zenon, <1>2, <1>4, <2>1 DEF Control, Times
  <2>3. \A p \in Admins : adm'[p].resetAt <= clock'
    BY <1>4, <2>1 DEF Control, Times
  <2> QED
    BY <1>4, <2>2, <2>3 DEF Control, Times
<1>10. InsideGuard'
  <2>1. \A q \in Requests : pc[q] = "locked" => req[q].enrollment # e0
    BY <1>0, ConstantsAssumption DEF Control, LockOwners
  <2>2. \A q \in Requests : req[q].enrollment \in Enrollments \cup {NoOne}
    BY Zenon DEF Control, TypeOK, Request
  <2> QED
    BY <1>2, <1>4, <2>1, <2>2 DEF Control, InsideGuard, Present
<1>11. ReadAfterReset'
  <2>1. \A q \in Requests : req[q].enrollment \in Enrollments \cup {NoOne}
    BY DEF Control, TypeOK, Request
  <2> QED
    BY <1>2, <1>4, <2>1 DEF Control, ReadAfterReset, Present
<1> QED
  BY <1>3, <1>5, <1>7, <1>8, <1>9, <1>10, <1>11 DEF Control

LEMMA CreateEnrollmentControl ==
  ASSUME Control, NEW e0 \in Enrollments, CreateEnrollment(e0)
  PROVE  Control'
<1>1. TypeOK'
  <2>1. [state |-> "present", status |-> "active", resetAt |-> 0] \in EnrollmentRow
    BY DEF EnrollmentRow, Statuses
  <2> QED
    BY Zenon, <2>1 DEF CreateEnrollment, Control, TypeOK, locks
<1>2. /\ enrollment[e0].state = "none" /\ enrollment'[e0].resetAt = 0
      /\ \A e \in Enrollments \ {e0} : enrollment'[e] = enrollment[e]
      /\ userLock = NoOne
      /\ UNCHANGED <<clock, locks, pc, req, apc, adm>>
  BY DEF CreateEnrollment, Control, TypeOK
<1>3. RequestShape' /\ LockOwners'
  BY <1>2, LocksSame, ShapeSame DEF Control
<1>4. RestartTarget'
  <2>1. \A r \in Admins : apc[r] \notin Holding
    BY <1>2, ConstantsAssumption DEF Control, LockOwners
  <2> QED
    BY <1>2, <2>1 DEF Control, RestartTarget
<1>5. Times'
  <2>1. clock \in Nat
    BY Zenon DEF Control, TypeOK
  <2> QED
    BY <1>2, <2>1 DEF Control, Times
<1>6. \A q \in Requests : pc[q] \in {"authorized", "locked"} /\ req[q].enrollment # NoOne =>
        req[q].enrollment \in Enrollments \ {e0} /\ req[q].asOf \in Nat
  BY Zenon, <1>2 DEF Control, ReadAfterReset, TypeOK, Request
<1>7. InsideGuard'
  BY <1>2, <1>6 DEF Control, InsideGuard, Present
<1>8. ReadAfterReset'
  BY <1>2, <1>6 DEF Control, ReadAfterReset, Present
<1> QED
  BY <1>1, <1>3, <1>4, <1>5, <1>7, <1>8 DEF Control

LEMMA DestroyEnrollmentControl ==
  ASSUME Control, NEW e0 \in Enrollments, DestroyEnrollment(e0)
  PROVE  Control'
<1>0. enrollment' = [enrollment EXCEPT ![e0].state = "gone"] /\ enrollment \in [Enrollments -> EnrollmentRow]
  BY DEF DestroyEnrollment, Control, TypeOK
<1>1. TypeOK'
  <2>1. enrollment' \in [Enrollments -> EnrollmentRow]
    BY <1>0 DEF EnrollmentRow
  <2> QED
    BY Zenon, <2>1 DEF DestroyEnrollment, Control, TypeOK, AccessTables, locks
<1>2. /\ Present(e0) /\ enrollmentLock[e0] = NoOne
      /\ enrollment'[e0].state = "gone" /\ enrollment'[e0].resetAt = enrollment[e0].resetAt
      /\ \A e \in Enrollments \ {e0} : enrollment'[e] = enrollment[e]
      /\ UNCHANGED <<clock, locks, pc, req, apc, adm>>
  BY <1>0 DEF DestroyEnrollment, EnrollmentRow
<1>3. RequestShape' /\ LockOwners'
  BY <1>2, LocksSame, ShapeSame DEF Control
<1>4. RestartTarget'
  <2>1. ASSUME NEW r \in Admins, apc[r] \in Holding, adm[r].enrollment = e0
        PROVE  FALSE
    <3>1. enrollmentLock[e0] = r
      BY <2>1, HoldsEnrollment DEF Control
    <3> QED
      BY <1>2, <3>1, ConstantsAssumption
  <2> QED
    BY <1>2, <2>1 DEF Control, RestartTarget, Present, Unambiguous
<1>5. Times'
  BY <1>2 DEF Control, Times
<1>6. \A q \in Requests : req[q].enrollment \in Enrollments \cup {NoOne}
  BY DEF Control, TypeOK, Request
<1>7. InsideGuard'
  <2>1. \A q \in Requests : pc[q] = "locked" => req[q].enrollment # e0
    BY <1>2, ConstantsAssumption DEF Control, LockOwners
  <2> QED
    BY <1>2, <1>6, <2>1 DEF Control, InsideGuard, Present
<1>8. ReadAfterReset'
  BY <1>2, <1>6 DEF Control, ReadAfterReset, Present
<1> QED
  BY <1>1, <1>3, <1>4, <1>5, <1>7, <1>8 DEF Control

LEMMA ImportControl ==
  ASSUME Control, NEW s \in submissions, NEW c \in SUBSET {"criterion_results", "check_runs"}, ImportCheckRuns(s, c)
  PROVE  Control'
<1>1. TypeOK'
  <2>1. ASSUME NEW t \in submissions PROVE t \in SubmissionRow /\ [t EXCEPT !.children = c] \in SubmissionRow
    BY DEF Control, TypeOK, SubmissionRow
  <2>2. submissions' \subseteq SubmissionRow
    BY Zenon, <2>1 DEF ImportCheckRuns
  <2> QED
    BY <2>2 DEF ImportCheckRuns, Control, TypeOK, locks
<1>2. RequestShape' /\ LockOwners' /\ RestartTarget' /\ Times' /\ InsideGuard' /\ ReadAfterReset'
  BY DEF ImportCheckRuns, Control, RequestShape, LockOwners, RestartTarget, Times, InsideGuard, ReadAfterReset,
         Present, Unambiguous, locks
<1> QED
  BY <1>1, <1>2 DEF Control

LEMMA TablesSame ==
  ASSUME Control, UNCHANGED tables
  PROVE  TablesOK'
BY DEF Control, TypeOK, TablesOK, tables

LEMMA ControlStep ==
  ASSUME Control, [Next]_vars
  PROVE  Control'
<1>1. CASE UNCHANGED vars
  <2>1. TypeOK'
    BY <1>1 DEF Control, TypeOK, vars, tables, locks
  <2>2. UNCHANGED <<clock, enrollment, locks, pc, req, apc, adm>>
    BY <1>1 DEF vars
  <2>3. RequestShape' /\ LockOwners'
    BY <2>2, LocksSame, ShapeSame DEF Control
  <2>4. RestartTarget' /\ Times'
    BY <2>2 DEF Control, RestartTarget, Times, Present, Unambiguous
  <2>5. InsideGuard' /\ ReadAfterReset'
    BY <2>2 DEF Control, InsideGuard, ReadAfterReset, Present
  <2> QED
    BY <2>1, <2>3, <2>4, <2>5 DEF Control
<1>2. CASE Tick
  BY <1>2, TickControl
<1>3. ASSUME NEW q \in Requests, NEW k \in Kinds, CaptureStart(q, k) PROVE Control'
  BY <1>3, StartControl
<1>4. ASSUME NEW q \in Requests, RequestStep(q) PROVE Control'
  <2>1. CASE Authenticate(q)
    BY <2>1, AuthenticateControl
  <2>2. CASE Forbid(q)
    BY Zenon, <2>2, AnswerControl, TablesSame DEF Forbid
  <2>3. CASE Authorize(q)
    BY <2>3, AuthorizeControl
  <2>4. CASE EnterGuard(q)
    BY <2>4, AnswerControl, EnterControl, TablesSame DEF EnterGuard
  <2>5. CASE LearningWrite(q)
    BY <2>5, WriteEnds, LearningWriteType, AnswerControl DEF Control
  <2> QED
    BY <1>4, <2>1, <2>2, <2>3, <2>4, <2>5 DEF RequestStep
<1>5. ASSUME NEW s \in submissions, NEW c \in SUBSET {"criterion_results", "check_runs"}, ImportCheckRuns(s, c) PROVE Control'
  BY <1>5, ImportControl
<1>6. ASSUME NEW r \in Admins, NEW e \in Enrollments, Begin(r, "restart", e, "active") PROVE Control'
  BY <1>6, BeginControl DEF Statuses
<1>7. ASSUME NEW r \in Admins, NEW e \in Enrollments, NEW t \in Statuses, Begin(r, "status", e, t) PROVE Control'
  BY <1>7, BeginControl
<1>8. ASSUME NEW r \in Admins, AdminStep(r) PROVE Control'
  BY <1>8, LockStudentControl, SetStatusControl, SnapshotControl, ClearControl, CommitControl DEF AdminStep
<1>9. ASSUME NEW e \in Enrollments, CreateEnrollment(e) \/ DestroyEnrollment(e) PROVE Control'
  BY <1>9, CreateEnrollmentControl, DestroyEnrollmentControl
<1>10. ASSUME NEW q \in Requests, NEW r \in Admins, AbortWrite(q, r) PROVE Control'
  BY <1>10, AnswerControl, TablesSame DEF AbortWrite
<1>11. ASSUME NEW q \in Requests, NEW r \in Admins, AbortAdmin(q, r) PROVE Control'
  BY Zenon, <1>11, CloseControl DEF AbortAdmin, DeadlockBetween, Control, TypeOK
<1> QED
  BY <1>1, <1>2, <1>3, <1>4, <1>5, <1>6, <1>7, <1>8, <1>9, <1>10, <1>11 DEF Next

--------------------------------------------------------------------------------
(* What a guarded block may write: rows of its own request, in its own scope.    *)

OwnRows(q) ==
  /\ \A s \in submissions' : s \in submissions \/ s.prov = Prov(q)
  /\ \A b \in Blocks : progress'[b] = progress[b] \/ progress'[b].prov = Prov(q)
  /\ \A a \in attempts' : a \in attempts \/ a.prov = Prov(q)
  /\ attempts \subseteq attempts'
  /\ \A e \in Enrollments : watches'[e] = watches[e] \/ (e = req[q].enrollment /\ watches'[e] = Prov(q))
  /\ \A k \in Enrollments \X AccessTables :
       \/ overrides'[k] \in {overrides[k], NoRow, NoOverride}
       \/ k[1] = req[q].enrollment /\ overrides'[k] = Prov(q)

LEMMA SetProgressRows ==
  ASSUME TypeOK, NEW q \in Requests, NEW status, SetProgress(q, status)
  PROVE  \A b \in Blocks : progress'[b] = progress[b] \/ progress'[b].prov = Prov(q)
BY DEF SetProgress, TypeOK

LEMMA LearningWriteRows ==
  ASSUME Control, NEW q \in Requests, LearningWrite(q)
  PROVE  OwnRows(q)
<1>0. TypeOK
  BY DEF Control
<1>1. CASE CreateSubmission(q)
  <2>1. \A b \in Blocks : progress'[b] = progress[b] \/ progress'[b].prov = Prov(q)
    BY <1>0, <1>1, SetProgressRows DEF CreateSubmission
  <2>2. \A s \in submissions' : s \in submissions \/ s.prov = Prov(q)
    BY <1>1 DEF CreateSubmission, NewSubmission
  <2> QED
    BY Zenon, <1>1, <2>1, <2>2 DEF CreateSubmission, OwnRows
<1>2. CASE UpdateSubmission(q)
  <2>1. \A s \in submissions : [s EXCEPT !.prov = Prov(q)].prov = Prov(q)
    BY Zenon, <1>0 DEF TypeOK, SubmissionRow
  <2> QED
    BY Zenon, <1>2, <2>1 DEF UpdateSubmission, OwnRows
<1>3. CASE Grade(q)
  <2>1. \A s \in submissions : Graded(q, s).prov = Prov(q)
    BY Zenon, <1>0 DEF TypeOK, SubmissionRow, Graded
  <2>2. \A s \in submissions' : s \in submissions \/ s.prov = Prov(q)
    BY Zenon, <1>3, <2>1 DEF Grade
  <2>3. \A b \in Blocks : progress'[b] = progress[b] \/ progress'[b].prov = Prov(q)
    BY <1>0, <1>3, SetProgressRows DEF Grade
  <2> QED
    BY Zenon, <1>3, <2>2, <2>3 DEF Grade, OwnRows
<1>4. CASE UpdateProgress(q)
  BY Zenon, <1>0, <1>4, SetProgressRows DEF UpdateProgress, OwnRows
<1>5. CASE CreateAttempt(q)
  <2>1. \A b \in Blocks : progress'[b] = progress[b] \/ progress'[b].prov = Prov(q)
    BY <1>0, <1>5, SetProgressRows DEF CreateAttempt
  <2> QED
    <3>1. /\ attempts' = attempts \cup {[block |-> req[q].block, correct |-> req[q].flag, prov |-> Prov(q)]}
          /\ UNCHANGED <<submissions, watches, overrides>>
      BY <1>5 DEF CreateAttempt
    <3>2. \A a \in attempts' : a \in attempts \/ a.prov = Prov(q)
      BY <3>1
    <3> QED
      BY <2>1, <3>1, <3>2 DEF OwnRows
<1>6. CASE VideoProgress(q)
  BY <1>0, <1>6, SetProgressRows DEF VideoProgress, OwnRows
<1>7. CASE UpdateWatchProgress(q)
  BY <1>0, <1>7 DEF UpdateWatchProgress, OwnRows, TypeOK
<1>8. CASE SyncFile(q)
  <2>1. \A s \in submissions : Synced(q, s).prov = Prov(q)
    BY <1>0 DEF TypeOK, SubmissionRow, Synced
  <2>2. \A s \in submissions' : s \in submissions \/ s.prov = Prov(q)
    <3>1. CASE NewSubmission(q)
      BY <3>1 DEF NewSubmission
    <3>2. CASE submissions' = {IF s \in Latest(req[q].block) THEN Synced(q, s) ELSE s : s \in submissions}
      BY <2>1, <3>2
    <3> QED
      BY <1>8, <3>1, <3>2 DEF SyncFile
  <2>3. \A b \in Blocks : progress'[b] = progress[b] \/ progress'[b].prov = Prov(q)
    BY Zenon, <1>0, <1>8, SetProgressRows DEF SyncFile
  <2> QED
    BY <1>8, <2>2, <2>3 DEF SyncFile, OwnRows
<1>9. CASE WriteOverride(q)
  <2>1. \A row : OverrideAfter(q, row) \in {row, NoRow, NoOverride, Prov(q)}
    BY DEF OverrideAfter
  <2>2. ASSUME NEW k \in Enrollments \X AccessTables
        PROVE  \/ overrides'[k] \in {overrides[k], NoRow, NoOverride}
               \/ k[1] = req[q].enrollment /\ overrides'[k] = Prov(q)
    BY <1>0, <1>9, <2>1 DEF WriteOverride, TypeOK
  <2> QED
    BY <1>9, <2>2 DEF WriteOverride, OwnRows
<1> QED
  BY <1>1, <1>2, <1>3, <1>4, <1>5, <1>6, <1>7, <1>8, <1>9 DEF LearningWrite

--------------------------------------------------------------------------------
(* NoStaleEvidence.                                                              *)

FreshRows ==
  /\ \A e \in Enrollments : Present(e) =>
       /\ \A s \in submissions : FreshFor(s.prov, e)
       /\ \A b \in Blocks : progress[b] # NoRow => FreshFor(progress[b].prov, e)
       /\ \A a \in attempts : FreshFor(a.prov, e)
       /\ watches[e] # NoRow => watches[e].started > enrollment[e].resetAt
       /\ \A t \in AccessTables :
            overrides[<<e, t>>] \notin {NoRow, NoOverride} => overrides[<<e, t>>].started > enrollment[e].resetAt

LEMMA FreshRowsMeaning == NoStaleEvidence <=> FreshRows
BY DEF NoStaleEvidence, FreshRows, Evidence

\* Rows and enrollments untouched.
LEMMA FreshSame ==
  ASSUME FreshRows, UNCHANGED tables, Control,
         \A e \in Enrollments : enrollment'[e].state = enrollment[e].state /\ enrollment'[e].resetAt = enrollment[e].resetAt
  PROVE  FreshRows'
BY Zenon DEF FreshRows, FreshFor, Present, tables

LEMMA ProvFresh ==
  ASSUME Control, NEW q \in Requests, pc[q] = "locked", NEW e \in Enrollments, Present(e)
  PROVE  /\ FreshFor(Prov(q), e)
         /\ e = req[q].enrollment => Prov(q).started > enrollment[e].resetAt
         /\ Prov(q).started >= 1
<1>1. /\ req[q].started \in Nat /\ req[q].asOf \in Nat /\ enrollment[e].resetAt \in Nat
      /\ req[q].enrollment \in Enrollments \cup {NoOne}
  BY DEF Control, TypeOK, Request, EnrollmentRow
<1>2. 1 <= req[q].started /\ req[q].started <= req[q].asOf
  BY DEF Control, Times
<1>3. e = req[q].enrollment => req[q].started > enrollment[e].resetAt
  BY ConstantsAssumption DEF Control, InsideGuard
<1>4. e # req[q].enrollment /\ req[q].enrollment # NoOne => req[q].asOf >= enrollment[e].resetAt
  BY Zenon DEF Control, InsideGuard, ReadAfterReset
<1> QED
  <2>1. Prov(q).via = req[q].enrollment /\ Prov(q).started = req[q].started /\ Prov(q).asOf = req[q].asOf
    BY DEF Prov
  <2>2. req[q].enrollment # NoOne => req[q].asOf >= enrollment[e].resetAt
    BY <1>1, <1>2, <1>3, <1>4
  <2> QED
    BY <1>2, <1>3, <2>1, <2>2 DEF FreshFor

LEMMA FreshWrite ==
  ASSUME Control, FreshRows, NEW q \in Requests, LearningWrite(q)
  PROVE  FreshRows'
<1>1. OwnRows(q) /\ pc[q] = "locked" /\ UNCHANGED enrollment
  BY Zenon, LearningWriteRows, WriteEnds DEF Answer
<1>2. SUFFICES ASSUME NEW e \in Enrollments, Present(e)
      PROVE  /\ \A s \in submissions' : FreshFor(s.prov, e)
             /\ \A b \in Blocks : progress'[b] # NoRow => FreshFor(progress'[b].prov, e)
             /\ \A a \in attempts' : FreshFor(a.prov, e)
             /\ watches'[e] # NoRow => watches'[e].started > enrollment[e].resetAt
             /\ \A t \in AccessTables :
                  overrides'[<<e, t>>] \notin {NoRow, NoOverride} => overrides'[<<e, t>>].started > enrollment[e].resetAt
  BY Zenon, <1>1 DEF FreshRows, Present, FreshFor
<1>3. /\ FreshFor(Prov(q), e)
      /\ e = req[q].enrollment => Prov(q).started > enrollment[e].resetAt
  BY <1>1, <1>2, ProvFresh
<1>4. \A t \in AccessTables : <<e, t>> \in Enrollments \X AccessTables /\ <<e, t>>[1] = e
  OBVIOUS
<1> QED
  BY <1>1, <1>2, <1>3, <1>4 DEF FreshRows, OwnRows

LEMMA FreshCommit ==
  ASSUME Control, NEW r \in Admins, CommitRestart(r)
  PROVE  FreshRows'
<1>0. /\ enrollment \in [Enrollments -> EnrollmentRow]
      /\ watches \in [Enrollments -> Provenance \cup {NoRow}]
      /\ overrides \in [Enrollments \X AccessTables -> Provenance \cup {NoRow, NoOverride}]
      /\ adm[r].enrollment \in Enrollments
  BY Zenon DEF Control, TypeOK, RestartTarget, CommitRestart
<1>1. \A e \in Enrollments : Present(e)' => e = adm[r].enrollment
  <2>1. Unambiguous(adm[r].enrollment)
    BY DEF Control, RestartTarget, Holding, CommitRestart
  <2>2. \A e \in Enrollments \ {adm[r].enrollment} : enrollment'[e] = enrollment[e]
    BY <1>0 DEF CommitRestart
  <2> QED
    BY <2>1, <2>2 DEF Unambiguous, Present
<1>2. watches'[adm[r].enrollment] = NoRow
  BY <1>0 DEF CommitRestart
<1>3. \A t \in AccessTables : overrides'[<<adm[r].enrollment, t>>] \in {NoRow, NoOverride}
  BY <1>0 DEF CommitRestart, ClearedOverrides, AccessTables
<1>4. submissions' = {} /\ attempts' = {} /\ \A b \in Blocks : progress'[b] = NoRow
  BY DEF CommitRestart
<1> QED
  BY Zenon, <1>1, <1>2, <1>3, <1>4 DEF FreshRows

LEMMA FreshCreate ==
  ASSUME Control, RowsStarted, FreshRows, NEW e0 \in Enrollments, CreateEnrollment(e0)
  PROVE  FreshRows'
<1>0. \A n \in Nat : n >= 0 /\ (n >= 1 => n > 0)
  OBVIOUS
<1>1. /\ enrollment'[e0].resetAt = 0
      /\ \A e \in Enrollments \ {e0} : enrollment'[e] = enrollment[e]
      /\ \A k \in Enrollments \X AccessTables : overrides'[k] \in {overrides[k], NoOverride}
      /\ UNCHANGED <<submissions, progress, attempts, watches>>
  BY DEF CreateEnrollment, Control, TypeOK
<1>2. \A p \in Provenance : p.started >= 1 => FreshFor(p, e0)'
  BY Zenon, <1>0, <1>1 DEF Provenance, FreshFor
<1>3. /\ \A s \in submissions : s.prov \in Provenance
      /\ \A a \in attempts : a.prov \in Provenance
      /\ \A b \in Blocks : progress[b] # NoRow => progress[b].prov \in Provenance
      /\ watches[e0] # NoRow => watches[e0].started \in Nat
      /\ \A k \in Enrollments \X AccessTables : overrides[k] \notin {NoRow, NoOverride} => overrides[k].started \in Nat
  BY Zenon DEF Control, TypeOK, SubmissionRow, AttemptRow, ProgressRow, Provenance
<1>4. \A e \in Enrollments, t \in AccessTables : <<e, t>> \in Enrollments \X AccessTables
  BY Zenon
<1>5. SUFFICES ASSUME NEW e \in Enrollments, Present(e)'
      PROVE  /\ \A s \in submissions : FreshFor(s.prov, e)'
             /\ \A b \in Blocks : progress[b] # NoRow => FreshFor(progress[b].prov, e)'
             /\ \A a \in attempts : FreshFor(a.prov, e)'
             /\ watches[e] # NoRow => watches[e].started > enrollment'[e].resetAt
             /\ \A t \in AccessTables :
                  overrides'[<<e, t>>] \notin {NoRow, NoOverride} => overrides'[<<e, t>>].started > enrollment'[e].resetAt
  BY Zenon, <1>1 DEF FreshRows, FreshFor
<1>6. CASE e = e0
  <2>1. /\ \A s \in submissions : FreshFor(s.prov, e)'
        /\ \A b \in Blocks : progress[b] # NoRow => FreshFor(progress[b].prov, e)'
        /\ \A a \in attempts : FreshFor(a.prov, e)'
    BY Zenon, <1>1, <1>2, <1>3, <1>6 DEF RowsStarted
  <2>2. watches[e] # NoRow => watches[e].started > enrollment'[e].resetAt
    BY Zenon, <1>0, <1>1, <1>3, <1>6 DEF RowsStarted
  <2>3. ASSUME NEW t \in AccessTables, overrides'[<<e, t>>] \notin {NoRow, NoOverride}
        PROVE  overrides'[<<e, t>>].started > enrollment'[e].resetAt
    <3>1. <<e, t>> \in Enrollments \X AccessTables /\ overrides'[<<e, t>>] = overrides[<<e, t>>]
      BY Zenon, <1>1, <1>4, <2>3
    <3>2. overrides[<<e, t>>].started \in Nat /\ overrides[<<e, t>>].started >= 1
      BY Zenon, <1>3, <2>3, <3>1 DEF RowsStarted
    <3> QED
      BY Zenon, <1>0, <1>1, <1>6, <3>1, <3>2
  <2> QED
    BY Zenon, <2>1, <2>2, <2>3
<1>7. CASE e # e0
  <2>1. Present(e) /\ enrollment'[e] = enrollment[e]
    BY <1>1, <1>5, <1>7 DEF Present
  <2> QED
    BY Zenon, <1>1, <1>4, <2>1 DEF FreshRows, FreshFor
<1> QED
  BY Zenon, <1>6, <1>7

LEMMA FreshDestroy ==
  ASSUME Control, FreshRows, NEW e0 \in Enrollments, DestroyEnrollment(e0)
  PROVE  FreshRows'
<1>1. /\ enrollment'[e0].state = "gone"
      /\ \A e \in Enrollments \ {e0} : enrollment'[e] = enrollment[e]
      /\ \A k \in Enrollments \X AccessTables : overrides'[k] \in {overrides[k], NoRow}
      /\ UNCHANGED <<submissions, progress, attempts, watches>>
  BY Zenon DEF DestroyEnrollment, Control, TypeOK, EnrollmentRow
<1>2. \A e \in Enrollments, t \in AccessTables : <<e, t>> \in Enrollments \X AccessTables
  OBVIOUS
<1>3. \A e \in Enrollments : Present(e)' => Present(e) /\ enrollment'[e] = enrollment[e]
  BY Zenon, <1>1 DEF Present
<1> QED
  BY Zenon, <1>1, <1>2, <1>3 DEF FreshRows, FreshFor

\* Storing check runs changes no provenance.
LEMMA ImportKeepsProv ==
  ASSUME Control, NEW s0 \in submissions, NEW c, ImportCheckRuns(s0, c)
  PROVE  /\ \A s \in submissions' : \E t \in submissions : s.id = t.id /\ s.prov = t.prov
         /\ UNCHANGED <<enrollment, progress, attempts, watches, overrides, apc, adm, pc, req>>
<1>1. \A t \in submissions : [t EXCEPT !.children = c].id = t.id /\ [t EXCEPT !.children = c].prov = t.prov
  BY DEF Control, TypeOK, SubmissionRow
<1> QED
  BY Zenon, <1>1 DEF ImportCheckRuns

--------------------------------------------------------------------------------
(* The steps by what they do to the rows.                                        *)

\* No learning row changes, no enrollment appears, disappears or is reset.
Quiet == /\ UNCHANGED tables
         /\ \A e \in Enrollments : /\ enrollment'[e].state = enrollment[e].state
                                  /\ enrollment'[e].resetAt = enrollment[e].resetAt

RowStep ==
  \/ Quiet
  \/ \E q \in Requests : LearningWrite(q)
  \/ \E s \in submissions, c \in SUBSET {"criterion_results", "check_runs"} : ImportCheckRuns(s, c)
  \/ \E r \in Admins : CommitRestart(r)
  \/ \E e \in Enrollments : CreateEnrollment(e) \/ DestroyEnrollment(e)

LEMMA StepIsRowStep ==
  ASSUME Control, [Next]_vars
  PROVE  RowStep
<1>1. CASE UNCHANGED vars
  BY <1>1 DEF vars, RowStep, Quiet
<1>2. CASE Tick
  BY <1>2 DEF Tick, RowStep, Quiet
<1>3. ASSUME NEW q \in Requests, NEW k \in Kinds, CaptureStart(q, k) PROVE RowStep
  BY <1>3 DEF CaptureStart, RowStep, Quiet
<1>4. ASSUME NEW q \in Requests, RequestStep(q) PROVE RowStep
  <2>1. CASE Authenticate(q)
    BY <2>1 DEF Authenticate, RowStep, Quiet
  <2>2. CASE Forbid(q)
    BY <2>2 DEF Forbid, Answer, RowStep, Quiet
  <2>3. CASE Authorize(q)
    <3>1. AuthorizedRequest(q)
      BY <2>3, AuthorizeReads DEF Control
    <3> QED
      BY <3>1 DEF AuthorizedRequest, RowStep, Quiet
  <2>4. CASE EnterGuard(q)
    BY Zenon, <2>4 DEF EnterGuard, Enter, Answer, RowStep, Quiet
  <2>5. CASE LearningWrite(q)
    BY <2>5 DEF RowStep
  <2> QED
    BY <1>4, <2>1, <2>2, <2>3, <2>4, <2>5 DEF RequestStep
<1>5. ASSUME NEW r \in Admins, NEW op, NEW e \in Enrollments, NEW t, Begin(r, op, e, t) PROVE RowStep
  BY <1>5 DEF Begin, RowStep, Quiet
<1>6. ASSUME NEW r \in Admins, AdminStep(r) PROVE RowStep
  <2>1. CASE LockStudent(r)
    BY <2>1 DEF LockStudent, RowStep, Quiet
  <2>2. CASE SetStatus(r)
    <3>1. \A e \in Enrollments : enrollment'[e].state = enrollment[e].state /\ enrollment'[e].resetAt = enrollment[e].resetAt
      BY <2>2 DEF SetStatus, Control, TypeOK, EnrollmentRow
    <3> QED
      BY <2>2, <3>1 DEF SetStatus, RowStep, Quiet
  <2>3. CASE TakeSnapshot(r)
    BY <2>3 DEF TakeSnapshot, RowStep, Quiet
  <2>4. CASE ClearLearningState(r)
    BY <2>4 DEF ClearLearningState, RowStep, Quiet
  <2>5. CASE CommitRestart(r)
    BY <2>5 DEF RowStep
  <2> QED
    BY <1>6, <2>1, <2>2, <2>3, <2>4, <2>5 DEF AdminStep
<1>7. ASSUME NEW q \in Requests, NEW r \in Admins, AbortWrite(q, r) \/ AbortAdmin(q, r) PROVE RowStep
  BY <1>7 DEF AbortWrite, AbortAdmin, Answer, RowStep, Quiet
<1>8. (\/ \E s \in submissions, c \in SUBSET {"criterion_results", "check_runs"} : ImportCheckRuns(s, c)
       \/ \E e \in Enrollments : CreateEnrollment(e) \/ DestroyEnrollment(e)) => RowStep
  BY DEF RowStep
<1> QED
  BY <1>1, <1>2, <1>3, <1>4, <1>5, <1>6, <1>7, <1>8 DEF Next

LEMMA RowsStartedStep ==
  ASSUME Control, RowsStarted, RowStep
  PROVE  RowsStarted'
<1>1. CASE Quiet
  BY Zenon, <1>1 DEF Quiet, tables, RowsStarted
<1>2. ASSUME NEW q \in Requests, LearningWrite(q) PROVE RowsStarted'
  <2>1. OwnRows(q) /\ pc[q] = "locked"
    BY Zenon, <1>2, LearningWriteRows, WriteEnds
  <2>2. Prov(q).started >= 1
    BY <2>1 DEF Prov, Control, Times
  <2> QED
    BY <2>1, <2>2 DEF OwnRows, RowsStarted
<1>3. ASSUME NEW s \in submissions, NEW c, ImportCheckRuns(s, c) PROVE RowsStarted'
  BY <1>3, ImportKeepsProv DEF RowsStarted
<1>4. ASSUME NEW r \in Admins, CommitRestart(r) PROVE RowsStarted'
  <2>1. /\ adm[r].enrollment \in Enrollments
        /\ \A e \in Enrollments : watches'[e] \in {watches[e], NoRow}
        /\ \A k \in Enrollments \X AccessTables : overrides'[k] \in {overrides[k], NoRow, NoOverride}
    BY <1>4 DEF CommitRestart, ClearedOverrides, Control, RestartTarget, TypeOK
  <2>2. submissions' = {} /\ attempts' = {} /\ \A b \in Blocks : progress'[b] = NoRow
    BY <1>4 DEF CommitRestart
  <2> QED
    BY Zenon, <2>1, <2>2 DEF RowsStarted
<1>5. ASSUME NEW e \in Enrollments, CreateEnrollment(e) \/ DestroyEnrollment(e) PROVE RowsStarted'
  <2>1. /\ \A k \in Enrollments \X AccessTables : overrides'[k] \in {overrides[k], NoRow, NoOverride}
        /\ UNCHANGED <<submissions, progress, attempts, watches>>
    BY Zenon, <1>5 DEF CreateEnrollment, DestroyEnrollment, Control, TypeOK
  <2>2. \A k \in Enrollments \X AccessTables :
          overrides'[k] \notin {NoRow, NoOverride} => overrides'[k].started >= 1
    BY <2>1 DEF RowsStarted
  <2> QED
    BY <2>1, <2>2 DEF RowsStarted
<1> QED
  BY <1>1, <1>2, <1>3, <1>4, <1>5 DEF RowStep

LEMMA FreshStep ==
  ASSUME Control, RowsStarted, FreshRows, RowStep
  PROVE  FreshRows'
<1>1. CASE Quiet
  BY Zenon, <1>1, FreshSame DEF Quiet
<1>2. ASSUME NEW s \in submissions, NEW c, ImportCheckRuns(s, c) PROVE FreshRows'
  <2>1. /\ \A t \in submissions' : \E u \in submissions : t.prov = u.prov
        /\ UNCHANGED <<enrollment, progress, attempts, watches, overrides>>
    BY <1>2, ImportKeepsProv
  <2>2. \A e \in Enrollments : Present(e) => \A t \in submissions' : FreshFor(t.prov, e)
    BY Zenon, <2>1 DEF FreshRows
  <2> QED
    BY <2>1, <2>2 DEF FreshRows, FreshFor, Present
<1> QED
  BY <1>1, <1>2, FreshWrite, FreshCommit, FreshCreate, FreshDestroy DEF RowStep

--------------------------------------------------------------------------------
(* SnapshotComplete.                                                             *)

\* While a restart holds its rows, only a grade without an enrollment gets to write.
LEMMA WritersExcluded ==
  ASSUME Control, NEW q \in Requests, pc[q] = "locked", NEW r \in Admins, apc[r] \in Holding
  PROVE  req[q].enrollment = NoOne /\ req[q].kind = "grade"
<1>1. req[q].enrollment \in Enrollments \cup {NoOne} /\ adm[r].enrollment \in Enrollments
  BY Zenon DEF Control, TypeOK, Request, RestartTarget, Holding
<1>2. enrollmentLock[adm[r].enrollment] = r /\ Unambiguous(adm[r].enrollment)
  BY <1>1, HoldsEnrollment DEF Control, RestartTarget
<1>3. req[q].enrollment # NoOne => Present(req[q].enrollment) /\ enrollmentLock[req[q].enrollment] = q
  <2>1. req[q].enrollment # NoOne => Present(req[q].enrollment)
    BY DEF Control, InsideGuard
  <2>2. req[q].enrollment \in Enrollments => enrollmentLock[req[q].enrollment] = q
    BY WriterHolds DEF Control
  <2> QED
    BY <1>1, <2>1, <2>2
<1>4. req[q].enrollment = NoOne
  BY <1>1, <1>2, <1>3, ConstantsAssumption DEF Unambiguous
<1> QED
  BY <1>4, ConstantsAssumption DEF Control, RequestShape

\* The steps by how they move one request, and one restart.
RequestMoves(q) ==
  \/ pc'[q] \in {"idle", "started"}
  \/ pc'[q] = pc[q] /\ req'[q] = req[q]
  \/ pc[q] = "authorized" /\ pc'[q] = "locked" /\ req'[q] = req[q]
  \/ Authenticate(q)
  \/ AuthorizedRequest(q)

RestartMoves(r) ==
  \/ apc'[r] \notin Holding
  \/ apc'[r] = apc[r] /\ adm'[r] = adm[r]
  \/ /\ UNCHANGED tables /\ apc'[r] = "snapshotted"
     /\ adm'[r].enrollment = adm[r].enrollment /\ adm'[r].snapshot = CurrentSnapshot(adm[r].enrollment)
  \/ /\ apc[r] = "snapshotted" /\ apc'[r] = "cleared" /\ adm'[r].enrollment = adm[r].enrollment
     /\ adm'[r].snapshot = adm[r].snapshot /\ adm'[r].resetAt = clock
     /\ UNCHANGED <<pc, req>>

LEMMA Moves ==
  ASSUME Control, [Next]_vars
  PROVE  (\A q \in Requests : RequestMoves(q)) /\ (\A r \in Admins : RestartMoves(r))
<1> DEFINE M == (\A q \in Requests : RequestMoves(q)) /\ (\A r \in Admins : RestartMoves(r))
<1>0. /\ pc \in [Requests -> {"idle", "started", "authenticated", "authorized", "locked"}]
      /\ req \in [Requests -> Request]
      /\ apc \in [Admins -> {"idle", "begun", "student_locked", "snapshotted", "cleared"}]
      /\ adm \in [Admins -> AdminRequest]
  BY Zenon DEF Control, TypeOK
<1>1. CASE UNCHANGED <<pc, req, apc, adm>>
  BY <1>1 DEF RequestMoves, RestartMoves
<1>2. ASSUME NEW q \in Requests, NEW k \in Kinds, CaptureStart(q, k) PROVE M
  BY <1>0, <1>2 DEF CaptureStart, RequestMoves, RestartMoves
<1>3. ASSUME NEW q \in Requests, Answer(q) PROVE M
  BY <1>0, <1>3 DEF Answer, RequestMoves, RestartMoves
<1>4. ASSUME NEW r \in Admins, Close(r) PROVE M
  BY <1>0, <1>4 DEF Close, RequestMoves, RestartMoves, Holding
<1>5. ASSUME NEW q \in Requests, RequestStep(q) PROVE M
  <2>1. CASE Authenticate(q)
    BY Zenon, <1>0, <2>1 DEF Authenticate, RequestMoves, RestartMoves
  <2>2. CASE Forbid(q)
    BY <1>3, <2>2 DEF Forbid
  <2>3. CASE Authorize(q)
    <3>1. AuthorizedRequest(q)
      BY <2>3, AuthorizeReads DEF Control
    <3>2. \A p \in Requests \ {q} : pc'[p] = pc[p] /\ req'[p] = req[p]
      BY <1>0, <3>1 DEF AuthorizedRequest
    <3> QED
      BY Zenon, <3>1, <3>2 DEF AuthorizedRequest, RequestMoves, RestartMoves
  <2>4. CASE EnterGuard(q)
    <3>1. CASE Answer(q)
      BY Zenon, <1>3, <3>1
    <3>2. CASE pc[q] = "authorized" /\ Enter(q)
      BY <1>0, <3>2 DEF Enter, RequestMoves, RestartMoves
    <3> QED
      BY Zenon, <2>4, <3>1, <3>2 DEF EnterGuard
  <2>5. CASE LearningWrite(q)
    BY <1>3, <2>5, WriteEnds
  <2> QED
    BY <1>5, <2>1, <2>2, <2>3, <2>4, <2>5 DEF RequestStep
<1>6. ASSUME NEW r \in Admins, NEW op, NEW e \in Enrollments, NEW t, Begin(r, op, e, t) PROVE M
  BY <1>0, <1>6 DEF Begin, RequestMoves, RestartMoves, Holding
<1>7. ASSUME NEW r \in Admins, AdminStep(r) PROVE M
  <2>1. CASE LockStudent(r)
    BY <1>0, <2>1 DEF LockStudent, RequestMoves, RestartMoves, Holding
  <2>2. CASE SetStatus(r) \/ CommitRestart(r)
    BY <1>4, <2>2 DEF SetStatus, CommitRestart
  <2>3. CASE TakeSnapshot(r)
    <3>1. CASE Close(r)
      BY <1>4, <3>1
    <3>2. CASE ~Close(r)
      <4>1. /\ apc' = [apc EXCEPT ![r] = "snapshotted"]
            /\ adm' = [adm EXCEPT ![r].snapshot = CurrentSnapshot(adm[r].enrollment)]
            /\ UNCHANGED <<tables, pc, req>>
        BY <2>3, <3>2 DEF TakeSnapshot
      <4>2. /\ apc'[r] = "snapshotted" /\ adm'[r].enrollment = adm[r].enrollment
            /\ adm'[r].snapshot = CurrentSnapshot(adm[r].enrollment)
        BY <1>0, <4>1 DEF AdminRequest
      <4>3. \A p \in Admins \ {r} : apc'[p] = apc[p] /\ adm'[p] = adm[p]
        BY <1>0, <4>1
      <4> QED
        BY <4>1, <4>2, <4>3 DEF RequestMoves, RestartMoves
    <3> QED
      BY <3>1, <3>2
  <2>4. CASE ClearLearningState(r)
    <3>1. CASE Close(r)
      BY <1>4, <3>1
    <3>2. CASE ~Close(r)
      <4>1. /\ apc[r] = "snapshotted"
            /\ apc' = [apc EXCEPT ![r] = "cleared"]
            /\ adm' = [adm EXCEPT ![r].resetAt = clock]
            /\ UNCHANGED <<pc, req>>
        BY <2>4, <3>2 DEF ClearLearningState
      <4>2. /\ adm'[r].snapshot = adm[r].snapshot /\ adm'[r].resetAt = clock /\ apc'[r] = "cleared"
            /\ adm'[r].enrollment = adm[r].enrollment
        BY <1>0, <4>1 DEF AdminRequest
      <4>3. \A p \in Admins \ {r} : apc'[p] = apc[p] /\ adm'[p] = adm[p]
        BY <1>0, <4>1
      <4> QED
        BY <4>1, <4>2, <4>3 DEF RequestMoves, RestartMoves
    <3> QED
      BY <3>1, <3>2
  <2> QED
    BY <1>7, <2>1, <2>2, <2>3, <2>4 DEF AdminStep
<1>8. ASSUME NEW q \in Requests, NEW r \in Admins, AbortWrite(q, r) \/ AbortAdmin(q, r) PROVE M
  BY <1>3, <1>4, <1>8 DEF AbortWrite, AbortAdmin
<1>9. (Tick \/ UNCHANGED vars) => UNCHANGED <<pc, req, apc, adm>>
  BY DEF Tick, vars
<1>10. ASSUME NEW s, NEW c, ImportCheckRuns(s, c) PROVE UNCHANGED <<pc, req, apc, adm>>
  BY <1>10 DEF ImportCheckRuns
<1>11. ASSUME NEW e, CreateEnrollment(e) \/ DestroyEnrollment(e) PROVE UNCHANGED <<pc, req, apc, adm>>
  BY <1>11 DEF CreateEnrollment, DestroyEnrollment
<1> QED
  BY <1>1, <1>2, <1>5, <1>6, <1>7, <1>8, <1>9, <1>10, <1>11 DEF Next

\* The snapshot has the rows of guarded work, and those of the restarted enrollment.
CoveredWork(r) ==
  /\ \A s \in submissions : s.prov.via # NoOne => Columns(s) \in adm[r].snapshot.submissions
  /\ \A b \in Blocks : progress[b] # NoRow /\ progress[b].prov.via # NoOne => adm[r].snapshot.progress[b] = progress[b]
  /\ attempts \subseteq adm[r].snapshot.attempts
CoveredScope(r) ==
  /\ adm[r].snapshot.watch = watches[adm[r].enrollment]
  /\ \A t \in AccessTables : adm[r].snapshot.access[t] = overrides[<<adm[r].enrollment, t>>]

Covered == \A r \in Admins : apc[r] \in Holding => CoveredWork(r) /\ CoveredScope(r)

LEMMA CoverMeaning == SnapshotComplete <=> Covered
BY DEF SnapshotComplete, Covered, CoveredWork, CoveredScope, Holding

\* Importing check runs changes no column of a submission.
LEMMA ImportKeepsColumns ==
  ASSUME TypeOK, NEW s \in submissions, NEW c, ImportCheckRuns(s, c)
  PROVE  \A t \in submissions' : \E u \in submissions : Columns(t) = Columns(u) /\ t.prov = u.prov
<1>1. \A u \in submissions : Columns([u EXCEPT !.children = c]) = Columns(u) /\ [u EXCEPT !.children = c].prov = u.prov
  BY Zenon DEF TypeOK, SubmissionRow, Columns
<1>2. submissions' = {IF t = s THEN [t EXCEPT !.children = c] ELSE t : t \in submissions}
  BY Zenon DEF ImportCheckRuns
<1> QED
  BY Zenon, <1>1, <1>2

\* While a restart holds its rows, no other one commits, and its enrollment stays.
LEMMA HolderAlone ==
  ASSUME Control, NEW r \in Admins, apc[r] \in Holding
  PROVE  /\ \A p \in Admins : apc[p] = "cleared" => p = r
         /\ \A e \in Enrollments : enrollment[e].state = "none" \/ enrollmentLock[e] = NoOne => e # adm[r].enrollment
<1>1. \A p \in Admins : apc[p] \in Holding => userLock = p
  BY Zenon DEF Control, LockOwners
<1>2. "cleared" \in Holding
  BY Zenon DEF Holding
<1>3. adm[r].enrollment \in Enrollments /\ Present(adm[r].enrollment)
  BY Zenon DEF Control, RestartTarget, Holding
<1>4. enrollmentLock[adm[r].enrollment] = r
  BY Zenon, <1>3, HoldsEnrollment DEF Control
<1>5. r # NoOne
  BY Zenon, ConstantsAssumption
<1>6. enrollment[adm[r].enrollment].state # "none"
  BY <1>3 DEF Present
<1> QED
  BY Zenon, <1>1, <1>2, <1>4, <1>5, <1>6

LEMMA CoverWorkStep ==
  ASSUME Control, RowStep, NEW r \in Admins, apc[r] \in Holding, CoveredWork(r), adm'[r].snapshot = adm[r].snapshot
  PROVE  CoveredWork(r)'
<1>1. CASE Quiet
  BY Zenon, <1>1 DEF Quiet, tables, CoveredWork
<1>2. ASSUME NEW q \in Requests, LearningWrite(q) PROVE CoveredWork(r)'
  <2>1. OwnRows(q) /\ pc[q] = "locked"
    BY <1>2, LearningWriteRows, WriteEnds
  <2>2. req[q].enrollment = NoOne /\ req[q].kind = "grade"
    BY Zenon, <2>1, WritersExcluded
  <2>3. Prov(q).via = NoOne
    BY <2>2 DEF Prov
  <2>4. attempts' = attempts
    BY <1>2, <2>2 DEF LearningWrite, InBlock, CreateSubmission, UpdateSubmission, Grade, UpdateProgress,
                      CreateAttempt, VideoProgress, UpdateWatchProgress, SyncFile, WriteOverride
  <2> QED
    BY Zenon, <2>1, <2>3, <2>4 DEF OwnRows, CoveredWork
<1>3. ASSUME NEW s \in submissions, NEW c, ImportCheckRuns(s, c) PROVE CoveredWork(r)'
  <2>1. \A t \in submissions' : \E u \in submissions : Columns(t) = Columns(u) /\ t.prov = u.prov
    BY <1>3, ImportKeepsColumns DEF Control
  <2>2. UNCHANGED <<progress, attempts>>
    BY Zenon, <1>3 DEF ImportCheckRuns
  <2>3. \A t \in submissions' : t.prov.via # NoOne => Columns(t) \in adm[r].snapshot.submissions
    BY Zenon, <2>1 DEF CoveredWork
  <2> QED
    BY Zenon, <2>2, <2>3 DEF CoveredWork
<1>4. ASSUME NEW p \in Admins, CommitRestart(p) PROVE CoveredWork(r)'
  BY <1>4 DEF CommitRestart, CoveredWork
<1>5. ASSUME NEW e \in Enrollments, CreateEnrollment(e) \/ DestroyEnrollment(e) PROVE CoveredWork(r)'
  BY Zenon, <1>5 DEF CreateEnrollment, DestroyEnrollment, CoveredWork
<1> QED
  BY Zenon, <1>1, <1>2, <1>3, <1>4, <1>5 DEF RowStep

LEMMA CoverScopeStep ==
  ASSUME Control, RowStep, NEW r \in Admins, apc[r] \in Holding, apc'[r] \in Holding, CoveredScope(r),
         adm'[r].snapshot = adm[r].snapshot, adm'[r].enrollment = adm[r].enrollment
  PROVE  CoveredScope(r)'
<1>0. CASE UNCHANGED <<watches, overrides>>
  BY Zenon, <1>0 DEF CoveredScope
<1>1. CASE Quiet
  BY Zenon, <1>0, <1>1 DEF Quiet, tables
<1>2. ASSUME NEW q \in Requests, LearningWrite(q) PROVE CoveredScope(r)'
  <2>1. pc[q] = "locked"
    BY <1>2, WriteEnds
  <2>2. req[q].kind = "grade"
    BY Zenon, <2>1, WritersExcluded
  <2>3. UNCHANGED <<watches, overrides>>
    BY <1>2, <2>2 DEF LearningWrite, InBlock, CreateSubmission, UpdateSubmission, Grade, UpdateProgress,
                      CreateAttempt, VideoProgress, UpdateWatchProgress, SyncFile, WriteOverride
  <2> QED
    BY <1>0, <2>3
<1>3. ASSUME NEW s \in submissions, NEW c, ImportCheckRuns(s, c) PROVE CoveredScope(r)'
  BY Zenon, <1>0, <1>3 DEF ImportCheckRuns
<1>4. ASSUME NEW p \in Admins, CommitRestart(p) PROVE CoveredScope(r)'
  <2>1. p = r
    BY Zenon, <1>4, HolderAlone DEF CommitRestart
  <2>2. apc'[p] = "idle"
    BY <1>4 DEF CommitRestart, Close, Control, TypeOK
  <2> QED
    BY <2>1, <2>2 DEF Holding
<1>5. ASSUME NEW e \in Enrollments, CreateEnrollment(e) \/ DestroyEnrollment(e) PROVE CoveredScope(r)'
  <2>1. e # adm[r].enrollment /\ adm[r].enrollment \in Enrollments
    BY Zenon, <1>5, HolderAlone DEF CreateEnrollment, DestroyEnrollment, Control, RestartTarget, Holding
  <2>2. \A t \in AccessTables : overrides'[<<adm[r].enrollment, t>>] = overrides[<<adm[r].enrollment, t>>]
    BY <1>5, <2>1 DEF CreateEnrollment, DestroyEnrollment, Control, TypeOK
  <2>3. UNCHANGED watches
    BY Zenon, <1>5 DEF CreateEnrollment, DestroyEnrollment
  <2> QED
    BY Zenon, <2>2, <2>3 DEF CoveredScope
<1> QED
  BY Zenon, <1>1, <1>2, <1>3, <1>4, <1>5 DEF RowStep

\* A snapshot just taken has every row.
LEMMA CoverTaken ==
  ASSUME NEW r \in Admins, UNCHANGED tables, adm'[r].enrollment = adm[r].enrollment,
         adm'[r].snapshot = CurrentSnapshot(adm[r].enrollment)
  PROVE  CoveredWork(r)' /\ CoveredScope(r)'
<1> DEFINE copy == adm'[r].snapshot
<1>1. /\ copy.submissions = {Columns(s) : s \in submissions} /\ copy.progress = progress /\ copy.attempts = attempts
      /\ copy.watch = watches[adm[r].enrollment]
      /\ copy.access = [t \in AccessTables |-> overrides[<<adm[r].enrollment, t>>]]
  BY DEF CurrentSnapshot
<1>2. UNCHANGED <<submissions, progress, attempts, watches, overrides>>
  BY Zenon DEF tables
<1>3. CoveredWork(r)'
  <2>1. \A s \in submissions' : Columns(s) \in copy.submissions
    BY Zenon, <1>1, <1>2
  <2> QED
    BY Zenon, <1>1, <1>2, <2>1 DEF CoveredWork
<1>4. CoveredScope(r)'
  BY Zenon, <1>1, <1>2 DEF CoveredScope
<1> QED
  BY Zenon, <1>3, <1>4

LEMMA SnapshotStep ==
  ASSUME Control, SnapshotComplete, [Next]_vars
  PROVE  SnapshotComplete'
<1>1. SUFFICES ASSUME NEW r \in Admins, apc'[r] \in Holding
      PROVE  CoveredWork(r)' /\ CoveredScope(r)'
  <2>1. SnapshotComplete' <=> Covered'
    BY CoverMeaning, PTL
  <2> QED
    BY Zenon, <2>1 DEF Covered
<1>2. RestartMoves(r) /\ RowStep
  BY Moves, StepIsRowStep
<1>3. CASE apc[r] \in Holding /\ adm'[r].snapshot = adm[r].snapshot /\ adm'[r].enrollment = adm[r].enrollment
  <2>1. CoveredWork(r) /\ CoveredScope(r)
    BY Zenon, <1>3, CoverMeaning DEF Covered
  <2> QED
    BY Zenon, <1>1, <1>2, <1>3, <2>1, CoverWorkStep, CoverScopeStep
<1>4. CASE /\ UNCHANGED tables /\ adm'[r].enrollment = adm[r].enrollment
           /\ adm'[r].snapshot = CurrentSnapshot(adm[r].enrollment)
  BY Zenon, <1>4, CoverTaken
<1> QED
  BY <1>1, <1>2, <1>3, <1>4 DEF RestartMoves, Holding

--------------------------------------------------------------------------------
(* CheckpointEvidence.                                                           *)

LEMMA StudentWaitsStep ==
  ASSUME Control, StudentWaits, [Next]_vars
  PROVE  StudentWaits'
<1>1. SUFFICES ASSUME NEW q \in Requests, NEW r \in Admins, apc'[r] = "cleared",
                      pc'[q] \in {"authenticated", "authorized", "locked"}, req'[q].kind \in StudentKinds
      PROVE  req'[q].started <= adm'[r].resetAt
  BY DEF StudentWaits
<1>2. RequestMoves(q) /\ RestartMoves(r)
  BY Zenon, Moves
<1>3. CASE adm'[r].resetAt = clock /\ UNCHANGED <<pc, req>>
  BY Zenon, <1>1, <1>3 DEF Control, Times
<1>4. CASE apc[r] = "cleared" /\ adm'[r] = adm[r]
  <2>1. userLock = r
    BY <1>4 DEF Control, LockOwners, Holding
  <2>2. CASE Authenticate(q)
    BY <1>1, <2>1, <2>2, ConstantsAssumption DEF Authenticate
  <2>3. CASE AuthorizedRequest(q)
    BY <1>1, <1>4, <2>3 DEF AuthorizedRequest, StudentWaits
  <2>4. CASE pc[q] \in {"authenticated", "authorized", "locked"} /\ req'[q] = req[q]
    BY Zenon, <1>1, <1>4, <2>4 DEF StudentWaits
  <2> QED
    BY <1>1, <1>2, <2>2, <2>3, <2>4 DEF RequestMoves
<1> QED
  BY Zenon, <1>1, <1>2, <1>3, <1>4 DEF RestartMoves, Holding

\* A request that may complete a checkpoint was just authorized, or was so before.
LEMMA CompletesBefore ==
  ASSUME Control, NEW q \in Requests, RequestMoves(q), Completes(q)'
  PROVE  \/ CorrectAttempt(req'[q].block) /\ UNCHANGED tables
         \/ Completes(q) /\ req'[q] = req[q]
<1>1. CASE AuthorizedRequest(q)
  <2>1. CorrectAttempt(req'[q].block)
    BY ZenonT(40), <1>1 DEF AuthorizedRequest, Readable, Completes
  <2> QED
    BY <1>1, <2>1 DEF AuthorizedRequest
<1>2. CASE Authenticate(q)
  <2>1. pc'[q] = "authenticated"
    BY <1>2 DEF Authenticate, Control, TypeOK
  <2> QED
    BY <2>1 DEF Completes
<1>3. CASE req'[q] = req[q] /\ pc[q] \in {"authorized", "locked"}
  BY Zenon, <1>3 DEF Completes
<1> QED
  BY <1>1, <1>2, <1>3 DEF RequestMoves, Completes

LEMMA AttemptOrRefusalStep ==
  ASSUME Control, StudentWaits, AttemptOrRefusal, [Next]_vars
  PROVE  AttemptOrRefusal'
<1>1. SUFFICES ASSUME NEW q \in Requests, Completes(q)', enrollment'[req'[q].enrollment].state = "present"
      PROVE  (CorrectAttempt(req[q].block) \/ req[q].started <= enrollment[req[q].enrollment].resetAt)'
  BY DEF AttemptOrRefusal, Present
<1>2. RequestMoves(q) /\ RowStep
  BY Moves, StepIsRowStep
<1>3. CASE CorrectAttempt(req'[q].block) /\ UNCHANGED tables
  BY Zenon, <1>3 DEF CorrectAttempt, tables
<1>4. CASE Completes(q) /\ req'[q] = req[q]
  <2>e. req[q].enrollment \in Enrollments /\ pc[q] \in {"authorized", "locked"} /\ req[q].kind = "progress"
    BY Zenon, <1>4 DEF Completes, Control, RequestShape
  <2>n. enrollment[req[q].enrollment].state # "none"
    BY <2>e, ConstantsAssumption DEF Control, ReadAfterReset
  <2>t. enrollment \in [Enrollments -> EnrollmentRow]
    BY Zenon DEF Control, TypeOK
  <2>1. CASE Quiet
    BY Zenon, <1>1, <1>4, <2>1, <2>e DEF Quiet, tables, AttemptOrRefusal, CorrectAttempt, Present
  <2>2. ASSUME NEW p \in Requests, LearningWrite(p)
        PROVE  (CorrectAttempt(req[q].block) \/ req[q].started <= enrollment[req[q].enrollment].resetAt)'
    <3>1. attempts \subseteq attempts' /\ UNCHANGED enrollment
      BY <2>2, LearningWriteRows, WriteEnds DEF OwnRows, Answer
    <3> QED
      BY Zenon, <1>1, <1>4, <3>1 DEF AttemptOrRefusal, CorrectAttempt, Present
  <2>3. ASSUME NEW s \in submissions, NEW c, ImportCheckRuns(s, c)
        PROVE  (CorrectAttempt(req[q].block) \/ req[q].started <= enrollment[req[q].enrollment].resetAt)'
    BY <1>1, <1>4, <2>3 DEF ImportCheckRuns, AttemptOrRefusal, CorrectAttempt, Present
  <2>4. ASSUME NEW r \in Admins, CommitRestart(r)
        PROVE  (CorrectAttempt(req[q].block) \/ req[q].started <= enrollment[req[q].enrollment].resetAt)'
    <3>1. /\ adm[r].enrollment \in Enrollments /\ Unambiguous(adm[r].enrollment)
          /\ apc[r] = "cleared"
      BY <2>4 DEF CommitRestart, Control, RestartTarget, Holding
    <3>2. \A e \in Enrollments \ {adm[r].enrollment} : enrollment'[e] = enrollment[e]
      BY Zenon, <2>4, <2>t DEF CommitRestart
    <3>3. req[q].enrollment = adm[r].enrollment
      BY <1>1, <1>4, <2>e, <3>1, <3>2 DEF Unambiguous, Present
    <3>4. enrollment'[adm[r].enrollment].resetAt = adm[r].resetAt
      BY <2>4, <2>t, <3>1 DEF CommitRestart, EnrollmentRow
    <3>5. req[q].started <= adm[r].resetAt
      BY <2>e, <3>1 DEF StudentWaits, StudentKinds
    <3> QED
      BY <1>4, <3>3, <3>4, <3>5
  <2>5. ASSUME NEW e \in Enrollments, CreateEnrollment(e) \/ DestroyEnrollment(e)
        PROVE  (CorrectAttempt(req[q].block) \/ req[q].started <= enrollment[req[q].enrollment].resetAt)'
    <3>1. UNCHANGED attempts /\ \A f \in Enrollments \ {e} : enrollment'[f] = enrollment[f]
      BY <2>5, <2>t DEF CreateEnrollment, DestroyEnrollment
    <3>2. req[q].enrollment # e
      <4>1. CASE CreateEnrollment(e)
        BY <2>n, <4>1 DEF CreateEnrollment
      <4>2. CASE DestroyEnrollment(e)
        <5>1. enrollment'[e].state = "gone"
          BY <2>t, <4>2 DEF DestroyEnrollment, EnrollmentRow
        <5> QED
          BY <1>1, <1>4, <5>1
      <4> QED
        BY Zenon, <2>5, <4>1, <4>2
    <3> QED
      BY <1>1, <1>4, <2>e, <3>1, <3>2 DEF AttemptOrRefusal, CorrectAttempt, Present
  <2> QED
    BY Zenon, <1>2, <2>1, <2>2, <2>3, <2>4, <2>5 DEF RowStep
<1> QED
  BY <1>1, <1>2, <1>3, <1>4, CompletesBefore

LEMMA CheckpointWrite ==
  ASSUME Control, AttemptOrRefusal, CheckpointEvidence, NEW q \in Requests, LearningWrite(q)
  PROVE  CheckpointEvidence'
<1>0. /\ attempts \subseteq attempts'
      /\ pc[q] = "locked" /\ progress \in [Blocks -> ProgressRow \cup {NoRow}]
  BY ZenonT(40), LearningWriteRows, WriteEnds DEF OwnRows, Control, TypeOK
<1>1. CASE \A b \in CheckBlocks : progress'[b] = progress[b]
  BY Zenon, <1>0, <1>1 DEF CheckpointEvidence, CorrectAttempt
<1>2. ASSUME NEW status, SetProgress(q, status)
      PROVE  /\ \A b \in CheckBlocks \ {req[q].block} : progress'[b] = progress[b]
             /\ req[q].block \in CheckBlocks =>
                    progress'[req[q].block].status = status /\ progress'[req[q].block].prov = Prov(q)
  BY <1>0, <1>2 DEF SetProgress, Blocks
<1>3. CASE req[q].kind \in {"submit", "grade", "video", "sync"}
  <2>1. Prov(q).kind \notin {"progress", "attempt"}
    BY <1>3 DEF Prov
  <2>2. UNCHANGED progress \/ \E status : SetProgress(q, status)
    BY Zenon, <1>3 DEF LearningWrite, InBlock, CreateSubmission, UpdateSubmission, Grade, UpdateProgress,
                CreateAttempt, VideoProgress, UpdateWatchProgress, SyncFile, WriteOverride
  <2>3. ASSUME NEW status, SetProgress(q, status) PROVE CheckpointEvidence'
    <3>1. \A b \in CheckBlocks : progress'[b] = progress[b] \/ progress'[b].prov = Prov(q)
      BY Zenon, <1>2, <2>3
    <3> QED
      BY Zenon, <1>0, <2>1, <3>1 DEF CheckpointEvidence, CorrectAttempt
  <2> QED
    BY Zenon, <1>1, <2>2, <2>3
<1>4. CASE UpdateProgress(q)
  <2>1. /\ \A b \in CheckBlocks \ {req[q].block} : progress'[b] = progress[b]
        /\ req[q].block \in CheckBlocks => progress'[req[q].block].status = req[q].status
    BY Zenon, <1>2, <1>4 DEF UpdateProgress
  <2>2. req[q].block \in CheckBlocks /\ req[q].status = "completed" => CorrectAttempt(req[q].block)
    <3>1. req[q].kind = "progress" /\ req[q].enrollment \in Enrollments
      BY Zenon, <1>0, <1>4 DEF UpdateProgress, InBlock, Control, RequestShape
    <3>2. Present(req[q].enrollment) /\ req[q].started > enrollment[req[q].enrollment].resetAt
      BY <1>0, <3>1, ConstantsAssumption DEF Control, InsideGuard
    <3>3. req[q].started \in Nat /\ enrollment[req[q].enrollment].resetAt \in Nat
      BY <3>1 DEF Control, TypeOK, Request, EnrollmentRow
    <3> QED
      <4>1. ~(req[q].started <= enrollment[req[q].enrollment].resetAt)
        <5>1. \A m, n \in Nat : m > n => ~(m <= n)
          OBVIOUS
        <5> QED
          BY <3>2, <3>3, <5>1
      <4>2. pc[q] \in {"authorized", "locked"}
        BY Zenon, <1>0
      <4> QED
        BY Zenon, <3>1, <3>2, <4>1, <4>2 DEF AttemptOrRefusal, Completes
  <2> QED
    BY Zenon, <1>0, <2>1, <2>2 DEF CheckpointEvidence, CorrectAttempt
<1>5. CASE CreateAttempt(q)
  <2>1. CASE req[q].flag
    <3>1. \A b \in CheckBlocks \ {req[q].block} : progress'[b] = progress[b]
      BY Zenon, <1>2, <1>5, <2>1 DEF CreateAttempt
    <3>2. \E a \in attempts' : a.block = req[q].block /\ a.correct
      <4>1. [block |-> req[q].block, correct |-> req[q].flag, prov |-> Prov(q)] \in attempts'
        BY <1>5 DEF CreateAttempt
      <4> QED
        BY <2>1, <4>1
    <3> QED
      BY ZenonT(40), <1>0, <3>1, <3>2 DEF CheckpointEvidence, CorrectAttempt
  <2>2. CASE ~req[q].flag
    BY <1>1, <1>5, <2>2 DEF CreateAttempt
  <2> QED
    BY <2>1, <2>2
<1>6. CASE UpdateSubmission(q) \/ UpdateWatchProgress(q) \/ WriteOverride(q)
  BY <1>1, <1>6 DEF UpdateSubmission, UpdateWatchProgress, WriteOverride
<1> QED
  BY ZenonT(40), <1>3, <1>4, <1>5, <1>6 DEF LearningWrite, InBlock, CreateSubmission, Grade, VideoProgress, SyncFile

LEMMA CheckpointStep ==
  ASSUME Control, AttemptOrRefusal, CheckpointEvidence, RowStep
  PROVE  CheckpointEvidence'
<1>1. CASE Quiet
  BY <1>1 DEF Quiet, tables, CheckpointEvidence, CorrectAttempt
<1>2. ASSUME NEW s \in submissions, NEW c, ImportCheckRuns(s, c) PROVE CheckpointEvidence'
  BY <1>2 DEF ImportCheckRuns, CheckpointEvidence, CorrectAttempt
<1>3. ASSUME NEW r \in Admins, CommitRestart(r) PROVE CheckpointEvidence'
  BY <1>3 DEF CommitRestart, CheckpointEvidence, Blocks
<1>4. ASSUME NEW e \in Enrollments, CreateEnrollment(e) \/ DestroyEnrollment(e) PROVE CheckpointEvidence'
  BY <1>4 DEF CreateEnrollment, DestroyEnrollment, CheckpointEvidence, CorrectAttempt
<1> QED
  BY <1>1, <1>2, <1>3, <1>4, CheckpointWrite DEF RowStep

--------------------------------------------------------------------------------
(* The theorems.                                                                 *)

\* The enrollments a run starts from have never been reset.
LEMMA FirstRows ==
  \A row \in {[state |-> s, status |-> "active", resetAt |-> 0] : s \in {"none", "present"}} :
    row \in EnrollmentRow /\ row.resetAt = 0
BY DEF EnrollmentRow, Statuses

LEMMA InitInvariant == Init => IInv
<1> SUFFICES ASSUME Init PROVE IInv
  BY Zenon
<1>1. TypeOK
  <2>1. enrollment \in [Enrollments -> EnrollmentRow]
    BY Zenon, FirstRows DEF Init
  <2>2. adm \in [Admins -> AdminRequest] /\ req \in [Requests -> Request]
    BY Zenon, NoRequestType, NoAdminRequestType DEF Init
  <2> QED
    BY <2>1, <2>2 DEF Init, TypeOK
<1>2. RequestShape /\ InsideGuard /\ ReadAfterReset /\ StudentWaits /\ AttemptOrRefusal /\ SnapshotComplete
  BY ZenonT(40) DEF Init, RequestShape, InsideGuard, ReadAfterReset, StudentWaits, AttemptOrRefusal, Completes, SnapshotComplete
<1>3. LockOwners /\ RestartTarget
  BY Zenon, ConstantsAssumption DEF Init, LockOwners, RestartTarget, Holding
<1>4. Times
  <2>1. \A e \in Enrollments : enrollment[e].resetAt = 0
    BY Zenon, FirstRows DEF Init
  <2>2. \A r \in Admins : adm[r].resetAt = 0
    BY Zenon DEF Init, NoAdminRequest
  <2>3. clock = 1 /\ \A q \in Requests : pc[q] = "idle"
    BY Zenon DEF Init
  <2>4. \A e \in Enrollments : enrollment[e].resetAt <= clock
    BY <2>1, <2>3
  <2>5. \A r \in Admins : adm[r].resetAt <= clock
    BY <2>2, <2>3
  <2>6. clock >= 1
    BY <2>3
  <2>7. \A q \in Requests : pc[q] # "idle" => 1 <= req[q].started /\ req[q].started <= clock
    BY <2>3, Zenon
  <2>8. \A q \in Requests : pc[q] \in {"authorized", "locked"} => req[q].started <= req[q].asOf
    <3>1. "idle" \notin {"authorized", "locked"}
      BY Zenon
    <3> QED
      BY <2>3, <3>1, Zenon
  <2> QED
    BY <2>4, <2>5, <2>6, <2>7, <2>8, Zenon DEF Times
<1>5. \A k \in Enrollments \X AccessTables : overrides[k] \in {NoRow, NoOverride}
  BY Zenon DEF Init
<1>6. RowsStarted
  BY Zenon, <1>5 DEF Init, RowsStarted
<1>7. FreshRows
  <2>1. \A e \in Enrollments, t \in AccessTables : <<e, t>> \in Enrollments \X AccessTables
    OBVIOUS
  <2> QED
    BY <1>5, <2>1 DEF Init, FreshRows
<1>8. CheckpointEvidence
  BY DEF Init, CheckpointEvidence, Blocks
<1> QED
  BY <1>1, <1>2, <1>3, <1>4, <1>6, <1>7, <1>8, FreshRowsMeaning DEF IInv, Control

LEMMA StepInvariant == IInv /\ [Next]_vars => IInv'
<1> SUFFICES ASSUME IInv, [Next]_vars PROVE IInv'
  OBVIOUS
<1>1. Control /\ Control' /\ RowStep
  BY ControlStep, StepIsRowStep DEF IInv
<1>2. RowsStarted' /\ FreshRows'
  BY <1>1, RowsStartedStep, FreshStep, FreshRowsMeaning DEF IInv
<1>3. NoStaleEvidence'
  BY <1>2, FreshRowsMeaning, PTL
<1>4. StudentWaits' /\ AttemptOrRefusal' /\ SnapshotComplete' /\ CheckpointEvidence'
  BY <1>1, StudentWaitsStep, AttemptOrRefusalStep, SnapshotStep, CheckpointStep DEF IInv
<1> QED
  BY <1>1, <1>2, <1>3, <1>4 DEF IInv

LEMMA Invariance == Spec => []IInv
BY InitInvariant, StepInvariant, PTL DEF Spec

\* Every reachable state is well typed: in particular a grade is recorded as one of the
\* progress statuses of progress.rb, and a lock is held by a request or by nobody.
THEOREM TypeCorrectness == Spec => []TypeOK
<1>1. IInv => TypeOK
  BY DEF IInv, Control
<1> QED
  BY <1>1, Invariance, PTL

\* For any number of enrollments, requests and restarts, what EnrollmentRestartService
\* removed does not come back: with_learning_write_guard and the ambiguity check keep
\* work begun before a reset out of the state after it.
THEOREM RestartIsFinal == Spec => []NoStaleEvidence
<1>1. IInv => NoStaleEvidence
  BY DEF IInv
<1> QED
  BY <1>1, Invariance, PTL

\* The snapshot EnrollmentRestartService stores before its deletes copies every row they
\* remove as it is when they remove it: the submissions, progress and attempts of guarded
\* requests, the watch progress, and the lesson and module assignments, whatever requests
\* are in flight.
THEOREM RestartIsRecorded == Spec => []SnapshotComplete
<1>1. IInv => SnapshotComplete
  BY DEF IInv
<1> QED
  BY <1>1, Invariance, PTL

\* progress#update cannot complete a checkpoint without its correct attempt, even one that
\* takes submissions too and may be completed by them, and although it looks for the
\* attempt outside the guard: the write to users.last_seen_at during
\* authentication keeps the student out while a restart is deleting attempts.
THEOREM CheckpointsAreEarned == Spec => []CheckpointEvidence
<1>1. IInv => CheckpointEvidence
  BY DEF IInv
<1> QED
  BY <1>1, Invariance, PTL

=============================================================================
