--------------------------- MODULE SupportProofs ----------------------------
(***************************************************************************)
(* Proofs about how staff and students reach each other.  The follow-up    *)
(* job tells an owner once for each date, and only of a case that is due   *)
(* when it is told; the endpoints of HelpRequests implement HelpLifecycle, *)
(* and tell the student.  Under them, a live connection is one line        *)
(* however often it is lost, and a call to the server that is tried again  *)
(* writes once.  For any number of cases, requests, staff, handlers,       *)
(* sockets and calls.                                                      *)
(***************************************************************************)
EXTENDS SupportCases, HelpRequests, LiveSocket, ApiClient, TLAPS

-----------------------------------------------------------------------------
(***************************************************************************)
(* Support cases and the follow-up job.                                    *)
(***************************************************************************)

\* A run that has a case locked owns its lock, and the case is due and
\* unclaimed until the run lets go of it.
LockedIsDue ==
    \A j \in Jobs : job[j].pc = "locked" =>
        /\ job[j].id \in Cases
        /\ caseLock[job[j].id] = j
        /\ StillDue(cases[job[j].id], job[j].now)

\* A notice for the current date is recorded in the claim.
ToldIsClaimed ==
    \A i \in Cases : /\ told[i] = 0 \/ told[i] = 1
                     /\ told[i] = 1 => Claimed(cases[i]) /\ cases[i].status # "none"

\* A run compares dates with an instant that is not in the future, and a staff
\* request past its first step has a case.
RunsAreNow ==
    /\ 1 <= clock
    /\ \A j \in Jobs : job[j].now <= clock /\ (job[j].pc # "idle" => 1 <= job[j].now)
RequestsHaveCases ==
    \A u \in Updaters : upd[u].pc # "idle" => upd[u].id \in Cases /\ upd[u].want.status # "none"

CaseIInv == CaseTypeOK /\ LockedIsDue /\ ToldIsClaimed /\ RunsAreNow /\ RequestsHaveCases

-----------------------------------------------------------------------------
(* Types *)

LEMMA NoRowType == NoRow \in Row
<1>1. (CHOOSE s \in Staff : TRUE) \in Staff
  BY CaseAssumption
<1> QED
  BY <1>1 DEF NoRow, Row, Statuses

LEMMA IdleTypes == IdleUpdate \in Update /\ IdleJob \in JobRun /\ IdleRestart \in RestartRun
<1>1. NoRow.owner \in Staff
  BY NoRowType DEF Row
<1> QED
  BY <1>1, NoRowType DEF IdleUpdate, Update, IdleJob, JobRun, IdleRestart, RestartRun, Notice

\* Writing one notification, as intervention_notification_for does, keeps the
\* shape of the table.
LEMMA CaseNoticeWrite ==
    ASSUME CaseTypeOK, NEW i \in Cases, NEW s \in Staff, NEW n \in Notice
    PROVE  [notices EXCEPT ![i][s] = n] \in [Cases -> [Staff -> Notice]]
<1>1. [notices[i] EXCEPT ![s] = n] \in [Staff -> Notice]
  BY DEF CaseTypeOK
<1> QED
  BY <1>1 DEF CaseTypeOK

\* What save! leaves in read_at is a state of a notification.
LEMMA RenewedType ==
    ASSUME CaseTypeOK, NEW i \in Cases, NEW s \in Staff, NEW copy
    PROVE  Renewed(copy, notices[i][s]) \in Notice
BY DEF CaseTypeOK, Renewed, Notice

LEMMA CasesStart == Init => CaseIInv
<1> SUFFICES ASSUME Init PROVE CaseIInv
  OBVIOUS
<1>1. CaseTypeOK
  BY NoRowType, IdleTypes DEF Init, CaseTypeOK, Notice
<1>2. LockedIsDue /\ RunsAreNow
  BY DEF Init, LockedIsDue, RunsAreNow, IdleJob
<1>3. ToldIsClaimed
  BY DEF Init, ToldIsClaimed
<1>4. RequestsHaveCases
  BY DEF Init, RequestsHaveCases, IdleUpdate
<1> QED
  BY <1>1, <1>2, <1>3, <1>4 DEF CaseIInv

-----------------------------------------------------------------------------
(* Staff requests *)

LEMMA CreateCaseStep ==
    ASSUME CaseIInv, NEW u \in Updaters, NEW i \in Cases, NEW t \in Triggers, NEW o \in Staff,
           NEW c \in Staff, NEW d \in Dates, Create(u, i, t, o, c, d)
    PROVE  CaseIInv'
<1> DEFINE row == [status |-> "open", trigger |-> t, owner |-> o, creator |-> c,
                   due |-> d, notified |-> 0]
           request == [pc |-> "assign", id |-> i, seen |-> row, want |-> row, copy |-> "none"]
<1> USE DEF CaseIInv
<1>1. row \in Row
  BY CaseAssumption DEF Row, Statuses, Active
<1>2. request \in Update
  BY <1>1 DEF Update, Notice
<1> HIDE DEF row, request
<1>3. /\ cases' = [cases EXCEPT ![i] = row]
      /\ upd' = [upd EXCEPT ![u] = IdleUpdate] \/ upd' = [upd EXCEPT ![u] = request]
      /\ cases[i].status = "none"
      /\ UNCHANGED <<notices, staffRole, caseLock, job, restart, told, clock>>
  BY Zenon DEF Create, IsNextId, row, request
<1>4. CaseTypeOK'
  BY <1>1, <1>2, <1>3, IdleTypes DEF CaseTypeOK
<1>5. LockedIsDue'
  BY <1>3 DEF LockedIsDue, CaseTypeOK, StillDue, Due, Active
<1>6. ToldIsClaimed'
  BY <1>3 DEF ToldIsClaimed, CaseTypeOK
<1>7. RequestsHaveCases'
  BY <1>3 DEF RequestsHaveCases, CaseTypeOK, IdleUpdate, request, row
<1>8. RunsAreNow'
  BY <1>3 DEF RunsAreNow
<1> QED
  BY <1>4, <1>5, <1>6, <1>7, <1>8

LEMMA LoadStep ==
    ASSUME CaseIInv, NEW u \in Updaters, NEW i \in Cases, NEW o \in Staff,
           NEW st \in UpdateStatuses \cup {cases[i].status},
           NEW d \in Dates \cup {cases[i].due}, Load(u, i, st, o, d)
    PROVE  CaseIInv'
<1> DEFINE want == [cases[i] EXCEPT !.status = st, !.owner = o, !.due = d]
           request == [pc |-> "loaded", id |-> i, seen |-> cases[i], want |-> want, copy |-> "none"]
<1> USE DEF CaseIInv
<1>1. cases[i] \in Row
  BY DEF CaseTypeOK
<1>2. st \in Statuses /\ d \in Nat /\ st # "none"
  BY <1>1, CaseAssumption DEF Row, Statuses, Load, IsActive, Active, Terminal
<1>3. want \in Row /\ want.status # "none"
  BY Zenon, <1>1, <1>2 DEF Row
<1>4. request \in Update
  BY <1>1, <1>3 DEF Update, Notice
<1> HIDE DEF want, request
<1>5. /\ upd' = [upd EXCEPT ![u] = request]
      /\ UNCHANGED <<cases, notices, staffRole, caseLock, job, restart, told, clock>>
  BY DEF Load, want, request
<1>6. CaseTypeOK'
  BY <1>4, <1>5 DEF CaseTypeOK
<1>7. LockedIsDue' /\ ToldIsClaimed' /\ RunsAreNow'
  BY <1>5 DEF LockedIsDue, ToldIsClaimed, RunsAreNow
<1>8. RequestsHaveCases'
  BY <1>3, <1>5 DEF RequestsHaveCases, CaseTypeOK, request
<1> QED
  BY <1>6, <1>7, <1>8

LEMMA SavedType ==
    ASSUME CaseTypeOK, RequestsHaveCases, NEW u \in Updaters, upd[u].pc = "loaded"
    PROVE  /\ Saved(u) \in Row
           /\ ~Dirty(u, "due") => /\ Saved(u).due = cases[upd[u].id].due
                                  /\ Saved(u).notified = cases[upd[u].id].notified
           /\ cases[upd[u].id].status # "none" => Saved(u).status # "none"
<1> DEFINE row == cases[upd[u].id]
           want == upd[u].want
<1>1. row \in Row /\ want \in Row /\ want.status # "none"
  BY DEF CaseTypeOK, RequestsHaveCases, Update
<1> DEFINE newStatus == IF Dirty(u, "status") THEN want.status ELSE row.status
             newOwner == IF Dirty(u, "owner") THEN want.owner ELSE row.owner
             newDue == IF Dirty(u, "due") THEN want.due ELSE row.due
             newNotified == IF Dirty(u, "due") /\ upd[u].seen.notified # 0 THEN 0 ELSE row.notified
<1>3. /\ newStatus \in Statuses /\ newOwner \in Staff /\ newDue \in Nat /\ newNotified \in Nat
      /\ ~Dirty(u, "due") => newDue = row.due /\ newNotified = row.notified
      /\ row.status # "none" => newStatus # "none"
  BY <1>1 DEF Row
<1>4. Saved(u) = [row EXCEPT !.status = newStatus, !.owner = newOwner, !.due = newDue,
                             !.notified = newNotified]
  BY DEF Saved
<1> HIDE DEF row, newStatus, newOwner, newDue, newNotified
<1>5. Saved(u) \in Row /\ Saved(u).status = newStatus /\ Saved(u).due = newDue
      /\ Saved(u).notified = newNotified
  BY Zenon, <1>1, <1>3, <1>4 DEF Row
<1> QED
  BY <1>3, <1>5 DEF row

LEMMA SaveStep ==
    ASSUME CaseIInv, NEW u \in Updaters, Save(u)
    PROVE  CaseIInv'
<1> USE DEF CaseIInv
<1> DEFINE i == upd[u].id
           request == [upd[u] EXCEPT !.pc = AfterSave(u)]
<1>1. /\ i \in Cases /\ caseLock[i] = Free
      /\ cases' = [cases EXCEPT ![i] = Saved(u)]
      /\ told' = [told EXCEPT ![i] =
             IF Saved(u).due # cases[i].due \/ Saved(u).notified # cases[i].notified THEN 0 ELSE told[i]]
      /\ upd' = [upd EXCEPT ![u] = IdleUpdate] \/ upd' = [upd EXCEPT ![u] = request]
      /\ UNCHANGED <<notices, staffRole, caseLock, job, restart, clock>>
  BY Zenon DEF Save, RequestsHaveCases
<1>2. /\ Saved(u) \in Row
      /\ ~Dirty(u, "due") => /\ Saved(u).due = cases[i].due
                             /\ Saved(u).notified = cases[i].notified
      /\ cases[i].status # "none" => Saved(u).status # "none"
  BY SavedType DEF Save
<1>3. request \in Update /\ request.id = i /\ request.want.status # "none"
  <2>1. upd[u] \in Update /\ upd[u].want.status # "none"
    BY DEF CaseTypeOK, RequestsHaveCases, Save
  <2>2. AfterSave(u) \in {"close_others", "close_all", "idle"}
    BY DEF AfterSave
  <2> QED
    BY <2>1, <2>2 DEF Update
<1> HIDE DEF i, request
<1>4. CaseTypeOK'
  <2>1. told' \in [Cases -> Nat]
    BY <1>1 DEF CaseTypeOK
  <2>2. cases' \in [Cases -> Row]
    BY Zenon, <1>1, <1>2 DEF CaseTypeOK
  <2>3. upd' \in [Updaters -> Update]
    BY Zenon, <1>1, <1>3, IdleTypes DEF CaseTypeOK
  <2> QED
    BY Zenon, <1>1, <2>1, <2>2, <2>3 DEF CaseTypeOK
<1>5. LockedIsDue'
  BY <1>1, CaseAssumption DEF LockedIsDue, CaseTypeOK
<1>6. ToldIsClaimed'
  BY <1>1, <1>2 DEF ToldIsClaimed, CaseTypeOK, Claimed
<1>7. RequestsHaveCases'
  <2>1. IdleUpdate.pc = "idle"
    BY DEF IdleUpdate
  <2> QED
    BY <1>1, <1>3, <2>1 DEF RequestsHaveCases, CaseTypeOK
<1>8. RunsAreNow'
  BY <1>1 DEF RunsAreNow
<1> QED
  BY <1>4, <1>5, <1>6, <1>7, <1>8

\* The steps that only write notifications, or only end a request.
LEMMA NoticeStep ==
    ASSUME CaseIInv, NEW u \in Updaters,
           SaveFails(u) \/ CloseOthers(u) \/ FindNotice(u) \/ Assign(u) \/ CloseAll(u)
    PROVE  CaseIInv'
<1> USE DEF CaseIInv
<1>1. UNCHANGED <<cases, staffRole, caseLock, job, restart, told, clock>>
  BY Zenon DEF SaveFails, CloseOthers, FindNotice, Assign, CloseAll
<1>2. LockedIsDue' /\ ToldIsClaimed' /\ RunsAreNow'
  BY <1>1 DEF LockedIsDue, ToldIsClaimed, RunsAreNow
<1>3. \A n \in Notice : Closed(n) \in Notice
  BY DEF Closed, Notice
<1>4. notices' \in [Cases -> [Staff -> Notice]]
  <2>1. CASE SaveFails(u)
    BY <2>1 DEF SaveFails, CaseTypeOK
  <2>2. CASE CloseOthers(u)
    <3> DEFINE i == upd[u].id
               after == [s \in Staff |-> IF s = upd[u].want.owner THEN notices[i][s]
                                         ELSE Closed(notices[i][s])]
    <3>1. i \in Cases /\ notices' = [notices EXCEPT ![i] = after]
      BY <2>2 DEF CloseOthers, RequestsHaveCases
    <3>2. after \in [Staff -> Notice]
      BY <3>1, <1>3 DEF CaseTypeOK
    <3> HIDE DEF after, i
    <3> QED
      BY <3>1, <3>2 DEF CaseTypeOK
  <2>3. CASE Assign(u)
    <3> DEFINE i == upd[u].id
               receiver == upd[u].want.owner
    <3>1. i \in Cases /\ receiver \in Staff
      BY <2>3 DEF Assign, RequestsHaveCases, CaseTypeOK, Update, Row
    <3>3. Renewed(upd[u].copy, notices[i][receiver]) \in Notice
      BY Zenon, <3>1, RenewedType
    <3>4. \/ notices' = [notices EXCEPT ![i][receiver] = Renewed(upd[u].copy, notices[i][receiver])]
          \/ UNCHANGED notices
      BY <2>3 DEF Assign
    <3> HIDE DEF i, receiver
    <3>5. [notices EXCEPT ![i][receiver] = Renewed(upd[u].copy, notices[i][receiver])]
             \in [Cases -> [Staff -> Notice]]
      BY <3>1, <3>3, CaseNoticeWrite
    <3>6. notices \in [Cases -> [Staff -> Notice]]
      BY DEF CaseTypeOK
    <3> QED
      BY <3>4, <3>5, <3>6, Zenon
  <2>5. CASE FindNotice(u)
    BY <2>5 DEF FindNotice, CaseTypeOK
  <2>4. CASE CloseAll(u)
    <3> DEFINE i == upd[u].id
               after == [s \in Staff |-> Closed(notices[i][s])]
    <3>1. i \in Cases /\ notices' = [notices EXCEPT ![i] = after]
      BY <2>4 DEF CloseAll, RequestsHaveCases
    <3>2. after \in [Staff -> Notice]
      BY <3>1, <1>3 DEF CaseTypeOK
    <3> HIDE DEF after, i
    <3> QED
      BY <3>1, <3>2 DEF CaseTypeOK
  <2> QED
    BY <2>1, <2>2, <2>3, <2>4, <2>5
<1>5. upd' \in [Updaters -> Update] /\ RequestsHaveCases'
  <2>1. CASE CloseOthers(u)
    <3> DEFINE request(pc) == [upd[u] EXCEPT !.pc = pc]
    <3>1. upd[u] \in Update /\ upd[u].id \in Cases /\ upd[u].want.status # "none"
      BY <2>1 DEF CloseOthers, CaseTypeOK, RequestsHaveCases
    <3>2. PICK pc \in {"assign", "close_all"} : upd' = [upd EXCEPT ![u] = request(pc)]
      BY Zenon, <2>1 DEF CloseOthers
    <3>3. /\ request(pc) \in Update /\ request(pc).id = upd[u].id
          /\ request(pc).want = upd[u].want
      BY <3>1 DEF Update
    <3> HIDE DEF request
    <3> QED
      BY <3>1, <3>2, <3>3 DEF CaseTypeOK, RequestsHaveCases
  <2>3. CASE FindNotice(u) \/ (Assign(u) /\ upd' # [upd EXCEPT ![u] = IdleUpdate])
    <3> DEFINE request(pc, copy) == [upd[u] EXCEPT !.pc = pc, !.copy = copy]
    <3>1. upd[u] \in Update /\ upd[u].id \in Cases /\ upd[u].want.status # "none"
      BY <2>3 DEF FindNotice, Assign, CaseTypeOK, RequestsHaveCases
    <3>2. upd[u].want.owner \in Staff
      BY <3>1 DEF Update, Row
    <3>3. notices[upd[u].id][upd[u].want.owner] \in Notice
      BY <3>1, <3>2 DEF CaseTypeOK
    <3>4. \E pc \in {"assign", "assign_found"}, copy \in Notice :
             upd' = [upd EXCEPT ![u] = request(pc, copy)]
      <4>1. CASE FindNotice(u)
        BY ZenonT(40), <4>1, <3>3 DEF FindNotice
      <4>2. CASE Assign(u) /\ upd' # [upd EXCEPT ![u] = IdleUpdate]
        <5>1. upd' = [upd EXCEPT ![u] = [upd[u] EXCEPT !.pc = "assign"]]
          BY <4>2 DEF Assign
        <5>2. upd[u].copy \in Notice /\ request("assign", upd[u].copy) = [upd[u] EXCEPT !.pc = "assign"]
          BY Zenon, <3>1 DEF Update
        <5> QED
          BY Zenon, <5>1, <5>2
      <4> QED
        BY ZenonT(40), <2>3, <4>1, <4>2
    <3>5. PICK pc \in {"assign", "assign_found"}, copy \in Notice :
             upd' = [upd EXCEPT ![u] = request(pc, copy)]
      BY Zenon, <3>4
    <3>6. /\ request(pc, copy) \in Update /\ request(pc, copy).id = upd[u].id
          /\ request(pc, copy).want = upd[u].want
      BY Zenon, <3>1 DEF Update
    <3> HIDE DEF request
    <3> QED
      BY Zenon, <3>1, <3>5, <3>6 DEF CaseTypeOK, RequestsHaveCases
  <2>2. CASE /\ ~CloseOthers(u) /\ ~FindNotice(u)
             /\ ~(Assign(u) /\ upd' # [upd EXCEPT ![u] = IdleUpdate])
    <3>1. upd' = [upd EXCEPT ![u] = IdleUpdate]
      BY <2>2 DEF SaveFails, CloseAll
    <3>2. IdleUpdate \in Update /\ IdleUpdate.pc = "idle"
      BY IdleTypes DEF IdleUpdate
    <3> QED
      BY <3>1, <3>2 DEF CaseTypeOK, RequestsHaveCases
  <2> QED
    BY <2>1, <2>2, <2>3
<1>6. CaseTypeOK'
  BY <1>1, <1>4, <1>5 DEF CaseTypeOK
<1> QED
  BY Zenon, <1>2, <1>5, <1>6

LEMMA UpdateStep ==
    ASSUME CaseIInv, NEW u \in Updaters, UpdateNext(u)
    PROVE  CaseIInv'
BY CreateCaseStep, LoadStep, SaveStep, NoticeStep DEF UpdateNext

LEMMA OutsideStep ==
    ASSUME CaseIInv,
           \/ Tick
           \/ \E s \in Staff : ChangeRole(s)
           \/ \E k \in Cases, s \in Staff : MarkRead(k, s)
    PROVE  CaseIInv'
<1> USE DEF CaseIInv
<1>1. CASE Tick
  BY <1>1 DEF Tick, CaseTypeOK, LockedIsDue, ToldIsClaimed, RunsAreNow, RequestsHaveCases, JobRun
<1>2. ASSUME NEW s \in Staff, ChangeRole(s) PROVE CaseIInv'
  BY Zenon, <1>2 DEF ChangeRole, CaseTypeOK, LockedIsDue, ToldIsClaimed, RunsAreNow, RequestsHaveCases
<1>3. ASSUME NEW k \in Cases, NEW s \in Staff, MarkRead(k, s) PROVE CaseIInv'
  BY <1>3 DEF MarkRead, CaseTypeOK, LockedIsDue, ToldIsClaimed, RunsAreNow, RequestsHaveCases, Notice
<1> QED
  BY <1>1, <1>2, <1>3

-----------------------------------------------------------------------------
(* The follow-up job *)

LEMMA RunTimes ==
    ASSUME CaseTypeOK, RunsAreNow, NEW j \in Jobs
    PROVE  /\ job[j].now <= clock
           /\ job[j].pc # "idle" => 1 <= job[j].now
BY DEF CaseTypeOK, JobRun, RunsAreNow

LEMMA JobScanStep ==
    ASSUME CaseIInv, NEW j \in Jobs, JobStart(j) \/ JobEnd(j)
    PROVE  CaseIInv'
<1> USE DEF CaseIInv
<1> DEFINE todo == {i \in Cases : Due(cases[i], clock) /\ ~Claimed(cases[i])}
           run == [pc |-> "scanning", now |-> clock, todo |-> todo, id |-> 0, copy |-> "none"]
<1>1. run \in JobRun /\ run.pc # "locked" /\ run.now <= clock /\ 1 <= run.now
  <2>1. todo \in SUBSET Cases /\ clock \in Nat /\ 1 <= clock
    BY DEF CaseTypeOK, RunsAreNow
  <2> HIDE DEF todo
  <2> QED
    BY <2>1 DEF JobRun, Notice
<1>2. IdleJob \in JobRun /\ IdleJob.pc = "idle" /\ IdleJob.now <= clock
  BY IdleTypes DEF IdleJob, CaseTypeOK
<1>3. /\ job' = [job EXCEPT ![j] = run] \/ job' = [job EXCEPT ![j] = IdleJob]
      /\ UNCHANGED <<cases, notices, staffRole, caseLock, upd, restart, told, clock>>
  BY DEF JobStart, JobEnd
<1> HIDE DEF run
<1>4. CaseTypeOK'
  BY <1>1, <1>2, <1>3 DEF CaseTypeOK
<1>5. LockedIsDue'
  BY Zenon, <1>1, <1>2, <1>3 DEF CaseTypeOK, LockedIsDue
<1>7. RunsAreNow'
  BY <1>1, <1>2, <1>3 DEF CaseTypeOK, RunsAreNow
<1>6. ToldIsClaimed' /\ RequestsHaveCases'
  BY <1>3 DEF ToldIsClaimed, RequestsHaveCases
<1> QED
  BY <1>4, <1>5, <1>6, <1>7

LEMMA JobLockStep ==
    ASSUME CaseIInv, NEW j \in Jobs, JobLock(j)
    PROVE  CaseIInv'
<1> USE DEF CaseIInv
<1>1. PICK i \in job[j].todo :
         /\ job[j].pc = "scanning" /\ caseLock[i] = Free
         /\ \/ /\ job' = [job EXCEPT ![j] = [job[j] EXCEPT !.todo = job[j].todo \ {i}]]
               /\ UNCHANGED caseLock
            \/ /\ StillDue(cases[i], job[j].now)
               /\ job' = [job EXCEPT ![j] = [job[j] EXCEPT
                      !.pc = "locked", !.todo = job[j].todo \ {i}, !.id = i,
                      !.copy = notices[i][cases[i].owner]]]
               /\ caseLock' = [caseLock EXCEPT ![i] = j]
         /\ UNCHANGED <<cases, notices, staffRole, upd, restart, told, clock>>
  BY Zenon DEF JobLock
<1>2. job[j] \in JobRun /\ i \in Cases /\ job[j].now <= clock /\ 1 <= job[j].now
  <2>1. job[j] \in JobRun /\ i \in Cases
    BY DEF CaseTypeOK, JobRun
  <2> QED
    BY <1>1, <2>1, RunTimes
<1> DEFINE skipped == [job[j] EXCEPT !.todo = job[j].todo \ {i}]
           locked == [job[j] EXCEPT !.pc = "locked", !.todo = job[j].todo \ {i}, !.id = i,
                        !.copy = notices[i][cases[i].owner]]
<1>4. skipped \in JobRun /\ skipped.pc = "scanning" /\ skipped.now = job[j].now
  BY <1>1, <1>2 DEF JobRun
<1>5. locked \in JobRun /\ locked.id = i /\ locked.now = job[j].now
  <2>1. notices[i][cases[i].owner] \in Notice
    BY <1>2 DEF CaseTypeOK, Row
  <2> QED
    BY Zenon, <1>2, <2>1 DEF JobRun
<1> HIDE DEF skipped, locked
<1>6. CASE job' = [job EXCEPT ![j] = skipped] /\ UNCHANGED caseLock
  <2>1. CaseTypeOK'
    BY <1>1, <1>4, <1>6 DEF CaseTypeOK
  <2>2. LockedIsDue' /\ RunsAreNow'
    BY <1>1, <1>2, <1>4, <1>6 DEF CaseTypeOK, LockedIsDue, RunsAreNow
  <2>3. ToldIsClaimed' /\ RequestsHaveCases'
    BY <1>1 DEF ToldIsClaimed, RequestsHaveCases
  <2> QED
    BY <2>1, <2>2, <2>3
<1>7. CASE /\ StillDue(cases[i], job[j].now)
           /\ job' = [job EXCEPT ![j] = locked] /\ caseLock' = [caseLock EXCEPT ![i] = j]
  <2>1. CaseTypeOK'
    BY <1>1, <1>2, <1>5, <1>7 DEF CaseTypeOK
  <2>2. LockedIsDue'
    BY <1>1, <1>2, <1>5, <1>7, CaseAssumption DEF CaseTypeOK, LockedIsDue
  <2>3. RunsAreNow'
    BY <1>1, <1>2, <1>5, <1>7 DEF CaseTypeOK, RunsAreNow
  <2>4. ToldIsClaimed' /\ RequestsHaveCases'
    BY <1>1 DEF ToldIsClaimed, RequestsHaveCases
  <2> QED
    BY <2>1, <2>2, <2>3, <2>4
<1> QED
  BY <1>1, <1>6, <1>7 DEF skipped, locked

LEMMA JobNotifyStep ==
    ASSUME CaseIInv, NEW j \in Jobs, JobNotify(j)
    PROVE  CaseIInv'
<1> USE DEF CaseIInv
<1> DEFINE i == job[j].id
           row == [cases[i] EXCEPT !.notified = job[j].now]
           run == [job[j] EXCEPT !.pc = "scanning", !.id = 0, !.copy = "none"]
<1>1. /\ job[j].pc = "locked"
      /\ cases' = [cases EXCEPT ![i] = row]
      /\ notices' = [notices EXCEPT ![i][cases[i].owner] =
                       Renewed(job[j].copy, notices[i][cases[i].owner])]
      /\ told' = [told EXCEPT ![i] = told[i] + 1]
      /\ caseLock' = [caseLock EXCEPT ![i] = Free]
      /\ job' = [job EXCEPT ![j] = run]
      /\ UNCHANGED <<staffRole, upd, restart, clock>>
  BY DEF JobNotify
<1>2. /\ i \in Cases /\ caseLock[i] = j /\ StillDue(cases[i], job[j].now)
      /\ cases[i] \in Row /\ job[j] \in JobRun
      /\ job[j].now <= clock /\ 1 <= job[j].now
  <2>1. i \in Cases /\ caseLock[i] = j /\ StillDue(cases[i], job[j].now)
    BY <1>1, Zenon DEF LockedIsDue
  <2>2. cases[i] \in Row /\ job[j] \in JobRun
    BY <2>1 DEF CaseTypeOK
  <2> QED
    BY <1>1, <2>1, <2>2, RunTimes
<1>3. run \in JobRun /\ run.pc = "scanning" /\ run.now = job[j].now
  BY Zenon, <1>2 DEF JobRun, Notice
<1>4. row \in Row /\ row.due = cases[i].due /\ row.status = cases[i].status
      /\ row.notified = job[j].now
  BY <1>2 DEF Row, JobRun
<1>5. Claimed(row) /\ row.status # "none" /\ told[i] = 0
  <2>1. cases[i].due <= job[j].now /\ cases[i].status # "none" /\ ~Claimed(cases[i])
    BY <1>2 DEF StillDue, Due, Active
  <2>2. told[i] = 0
    BY <1>2, <2>1 DEF ToldIsClaimed
  <2> QED
    BY <1>2, <1>4, <2>1, <2>2 DEF Claimed, JobRun
<1> HIDE DEF row, run, i
<1>6. CaseTypeOK'
  <2>1. notices' \in [Cases -> [Staff -> Notice]]
    <3>1. cases[i].owner \in Staff
      BY <1>2 DEF Row
    <3> QED
      BY Zenon, <1>1, <1>2, <3>1, RenewedType, CaseNoticeWrite
  <2>2. cases' \in [Cases -> Row] /\ told' \in [Cases -> Nat]
    BY <1>1, <1>2, <1>4, <1>5 DEF CaseTypeOK
  <2>3. caseLock' \in [Cases -> Jobs \cup {Free}] /\ job' \in [Jobs -> JobRun]
    BY <1>1, <1>2, <1>3 DEF CaseTypeOK
  <2> QED
    BY <1>1, <2>1, <2>2, <2>3 DEF CaseTypeOK
<1>7. LockedIsDue'
  BY <1>1, <1>2, <1>3 DEF LockedIsDue, CaseTypeOK
<1>8. ToldIsClaimed'
  BY <1>1, <1>2, <1>5 DEF ToldIsClaimed, CaseTypeOK
<1>9. RunsAreNow' /\ RequestsHaveCases'
  BY <1>1, <1>2, <1>3 DEF RunsAreNow, RequestsHaveCases, CaseTypeOK
<1> QED
  BY <1>6, <1>7, <1>8, <1>9

LEMMA JobFailsStep ==
    ASSUME CaseIInv, NEW j \in Jobs, JobFails(j)
    PROVE  CaseIInv'
<1> USE DEF CaseIInv
<1> DEFINE i == job[j].id
<1>1. /\ job[j].pc = "locked"
      /\ caseLock' = [caseLock EXCEPT ![i] = Free]
      /\ job' = [job EXCEPT ![j] = IdleJob]
      /\ UNCHANGED <<cases, notices, staffRole, upd, restart, told, clock>>
  BY DEF JobFails
<1>2. i \in Cases /\ caseLock[i] = j
  BY <1>1 DEF LockedIsDue
<1>3. IdleJob \in JobRun /\ IdleJob.pc = "idle" /\ IdleJob.now <= clock
  BY IdleTypes DEF IdleJob, CaseTypeOK
<1>4. CaseTypeOK'
  BY Zenon, <1>1, <1>3 DEF CaseTypeOK
<1>5. LockedIsDue'
  BY <1>1, <1>2, <1>3 DEF LockedIsDue, CaseTypeOK
<1>6. RunsAreNow'
  BY Zenon, <1>1, <1>3 DEF RunsAreNow, CaseTypeOK
<1>7. ToldIsClaimed' /\ RequestsHaveCases'
  BY <1>1 DEF ToldIsClaimed, RequestsHaveCases
<1> QED
  BY <1>4, <1>5, <1>6, <1>7

-----------------------------------------------------------------------------
(* The restart *)

LEMMA RestartBookkeeping ==
    ASSUME CaseIInv, (\E s \in Staff : RestartClose(s)) \/ RestartFails
    PROVE  CaseIInv'
<1> USE DEF CaseIInv
<1>1. UNCHANGED <<cases, notices, staffRole, caseLock, upd, job, told, clock>>
  BY Zenon DEF RestartClose, RestartFails
<1>2. LockedIsDue' /\ ToldIsClaimed' /\ RunsAreNow' /\ RequestsHaveCases'
  BY <1>1 DEF LockedIsDue, ToldIsClaimed, RunsAreNow, RequestsHaveCases
<1>3. restart' \in RestartRun
  <2>1. CASE RestartFails
    BY <2>1, IdleTypes DEF RestartFails, RestartDone
  <2>2. ASSUME NEW s \in Staff, RestartClose(s) PROVE restart' \in RestartRun
    <3> DEFINE prev == {i \in Cases : IsActive(i) /\ cases[i].trigger = "restart"}
               held == {x \in prev \X Staff : notices[x[1]][x[2]] # "none"}
    <3>1. restart' = [pc |-> "closing", by |-> s, prev |-> prev, held |-> held]
      BY Zenon, <2>2 DEF RestartClose
    <3>2. prev \in SUBSET Cases /\ held \in SUBSET (Cases \X Staff)
      OBVIOUS
    <3> HIDE DEF prev, held
    <3> QED
      BY <3>1, <3>2 DEF RestartRun
  <2> QED
    BY Zenon, <2>1, <2>2
<1>4. CaseTypeOK'
  BY <1>1, <1>3 DEF CaseTypeOK
<1> QED
  BY <1>2, <1>4

LEMMA RestartCommitStep ==
    ASSUME CaseIInv, RestartCommit
    PROVE  CaseIInv'
<1> USE DEF CaseIInv
<1> DEFINE fresh == [status |-> "monitoring", trigger |-> "restart", owner |-> restart.by,
                     creator |-> restart.by, due |-> clock + Week, notified |-> 0]
           canceled(i) == [cases[i] EXCEPT !.status = "canceled"]
<1>1. PICK new \in Cases :
         /\ cases[new].status = "none"
         /\ cases' = [i \in Cases |-> CASE i \in restart.prev -> canceled(i)
                                        [] i = new -> fresh
                                        [] OTHER -> cases[i]]
  BY DEF RestartCommit, IsNextId
<1>2. /\ \A i \in restart.prev : caseLock[i] = Free
      /\ restart' = IdleRestart
      /\ notices' = [i \in Cases |-> [s \in Staff |->
                       IF Held(i, s) THEN "read" ELSE notices[i][s]]]
      /\ UNCHANGED <<staffRole, caseLock, upd, job, told, clock>>
  BY DEF RestartCommit, RestartDone
<1>3. fresh \in Row
  BY DEF Row, Statuses, Active, CaseTypeOK, RestartRun, Week
<1>4. ASSUME NEW i \in Cases
      PROVE  /\ canceled(i) \in Row /\ canceled(i).status = "canceled"
             /\ canceled(i).due = cases[i].due /\ canceled(i).notified = cases[i].notified
  BY Zenon, <1>4 DEF CaseTypeOK, Row, Statuses, Terminal
<1> HIDE DEF fresh, canceled
<1>5. CaseTypeOK'
  <2>1. cases' \in [Cases -> Row]
    BY <1>1, <1>3, <1>4 DEF CaseTypeOK
  <2>2. notices' \in [Cases -> [Staff -> Notice]]
    BY <1>2 DEF CaseTypeOK, Notice
  <2> QED
    BY <1>2, <2>1, <2>2, IdleTypes DEF CaseTypeOK
<1>6. LockedIsDue'
  <2> SUFFICES ASSUME NEW j \in Jobs, job[j].pc = "locked"
               PROVE  cases'[job[j].id] = cases[job[j].id]
    BY <1>2 DEF LockedIsDue
  <2>1. /\ job[j].id \in Cases /\ caseLock[job[j].id] = j
        /\ cases[job[j].id].status # "none"
    BY DEF LockedIsDue, StillDue, Due, Active
  <2>2. job[j].id \notin restart.prev /\ job[j].id # new
    BY <1>1, <1>2, <2>1, CaseAssumption
  <2> QED
    BY <1>1, <2>1, <2>2
<1>7. ToldIsClaimed'
  <2> SUFFICES ASSUME NEW i \in Cases
               PROVE  /\ told[i] = 0 \/ told[i] = 1
                      /\ told[i] = 1 => Claimed(cases'[i]) /\ cases'[i].status # "none"
    BY <1>2 DEF ToldIsClaimed, Claimed
  <2>1. CASE i \in restart.prev
    BY <1>1, <1>4, <2>1 DEF ToldIsClaimed, Claimed
  <2>2. CASE i \notin restart.prev /\ i = new
    BY <1>1, <2>2 DEF ToldIsClaimed
  <2>3. CASE i \notin restart.prev /\ i # new
    BY <1>1, <2>3 DEF ToldIsClaimed
  <2> QED
    BY <2>1, <2>2, <2>3
<1>8. RunsAreNow' /\ RequestsHaveCases'
  BY <1>2 DEF RunsAreNow, RequestsHaveCases
<1> QED
  BY <1>5, <1>6, <1>7, <1>8

-----------------------------------------------------------------------------
(* The theorems *)

LEMMA CasesKeep == CaseIInv /\ [Next]_vars => CaseIInv'
<1> SUFFICES ASSUME CaseIInv, [Next]_vars PROVE CaseIInv'
  BY Zenon
<1>1. CASE UNCHANGED vars
  BY <1>1 DEF vars, CaseIInv, CaseTypeOK, LockedIsDue, ToldIsClaimed, RunsAreNow, RequestsHaveCases
<1>2. ASSUME NEW u \in Updaters, UpdateNext(u) PROVE CaseIInv'
  BY <1>2, UpdateStep
<1>3. ASSUME NEW j \in Jobs, JobNext(j) PROVE CaseIInv'
  BY <1>3, JobScanStep, JobLockStep, JobNotifyStep, JobFailsStep DEF JobNext
<1>4. CASE RestartNext
  BY <1>4, RestartBookkeeping, RestartCommitStep DEF RestartNext
<1>5. CASE \/ Tick
           \/ \E s \in Staff : ChangeRole(s)
           \/ \E i \in Cases, s \in Staff : MarkRead(i, s)
  BY <1>5, OutsideStep
<1> QED
  BY <1>1, <1>2, <1>3, <1>4, <1>5 DEF Next

LEMMA CaseInvariant == Spec => []CaseIInv
BY CasesStart, CasesKeep, PTL DEF Spec

\* The tables and the requests of the intervention endpoints, the job and the
\* restart keep their shape.
THEOREM CaseTypeCorrectness == Spec => []CaseTypeOK
<1>1. CaseIInv => CaseTypeOK
  BY DEF CaseIInv
<1> QED
  BY <1>1, CaseInvariant, PTL

\* InterventionFollowUpJob tells an owner of a follow-up date at most once until the date
\* is changed or its claim is reset, for any number of overlapping runs, updates and
\* restarts.
THEOREM FollowUpsAreNotRepeated == Spec => []OneNoticePerClaim
<1>1. CaseIInv => OneNoticePerClaim
  BY DEF CaseIInv, ToldIsClaimed, OneNoticePerClaim
<1> QED
  BY <1>1, CaseInvariant, PTL

\* InterventionFollowUpJob tells an owner only of a case that is active, due and
\* unclaimed when the notice commits.
THEOREM FollowUpsAreDue == Spec => FollowUpOnlyDue
<1> DEFINE Told(i) == told'[i] > told[i] => Due(cases[i], clock) /\ ~Claimed(cases[i])
           A == \A i \in Cases : Told(i)
<1>1. ASSUME CaseIInv, [Next]_vars PROVE A \/ UNCHANGED vars
  <2>1. ASSUME NEW i \in Cases, told[i] \in Nat, told'[i] = told[i] \/ told'[i] = 0
        PROVE  Told(i)
    BY <2>1
  <2>2. ASSUME NEW u \in Updaters, UpdateNext(u) PROVE A
    <3>1. told \in [Cases -> Nat]
      BY <1>1 DEF CaseIInv, CaseTypeOK
    <3>2. \/ UNCHANGED told
          \/ \E n \in {0, told[upd[u].id]} : told' = [told EXCEPT ![upd[u].id] = n]
      <4>1. CASE Save(u)
        BY Zenon, <4>1 DEF Save
      <4>2. ASSUME NEW i, NEW t, NEW o, NEW c, NEW d, Create(u, i, t, o, c, d)
            PROVE  UNCHANGED told
        BY <4>2 DEF Create
      <4>3. ASSUME NEW i, NEW st, NEW o, NEW d, Load(u, i, st, o, d) PROVE UNCHANGED told
        BY <4>3 DEF Load
      <4>4. CASE SaveFails(u) \/ CloseOthers(u) \/ FindNotice(u) \/ Assign(u) \/ CloseAll(u)
        BY Zenon, <4>4 DEF SaveFails, CloseOthers, FindNotice, Assign, CloseAll
      <4> QED
        BY <2>2, <4>1, <4>2, <4>3, <4>4, Zenon DEF UpdateNext
    <3>3. \A i \in Cases : told[i] \in Nat /\ (told'[i] = told[i] \/ told'[i] = 0)
      BY <3>1, <3>2
    <3> QED
      BY <2>1, <3>3
  <2>3. ASSUME NEW j \in Jobs, JobNotify(j) PROVE A
    <3>1. /\ job[j].id \in Cases
          /\ StillDue(cases[job[j].id], job[j].now) /\ job[j].now <= clock
      <4>1. job[j].pc = "locked" /\ CaseTypeOK /\ LockedIsDue /\ RunsAreNow
        BY <1>1, <2>3 DEF CaseIInv, JobNotify
      <4> QED
        BY <4>1, RunTimes, Zenon DEF LockedIsDue
    <3>2. Due(cases[job[j].id], clock) /\ ~Claimed(cases[job[j].id])
      BY <1>1, <3>1 DEF CaseIInv, CaseTypeOK, Row, JobRun, StillDue, Due
    <3>3. \A i \in Cases : told[i] \in Nat /\ (i # job[j].id => told'[i] = told[i])
      BY <1>1, <2>3 DEF CaseIInv, CaseTypeOK, JobNotify
    <3> QED
      BY <2>1, <3>2, <3>3
  <2>4. CASE UNCHANGED told
    BY <1>1, <2>1, <2>4 DEF CaseIInv, CaseTypeOK
  <2>5. ASSUME NEW j \in Jobs, JobNext(j), ~JobNotify(j) PROVE UNCHANGED told
    BY Zenon, <2>5 DEF JobNext, JobStart, JobEnd, JobLock, JobFails
  <2>6. CASE RestartNext \/ Tick \/ (\E s \in Staff : ChangeRole(s))
             \/ (\E i \in Cases, s \in Staff : MarkRead(i, s))
    BY <2>4, <2>6 DEF RestartNext, RestartClose, RestartCommit, RestartFails, Tick,
                      ChangeRole, MarkRead
  <2> QED
    BY <1>1, <2>2, <2>3, <2>4, <2>5, <2>6 DEF Next
<1> HIDE DEF A
<1>2. CaseIInv /\ [Next]_vars => [A]_vars
  BY <1>1
<1>3. Spec => [][A]_vars
  BY <1>2, CaseInvariant, PTL DEF Spec
<1> QED
  BY Zenon, <1>3 DEF FollowUpOnlyDue, A

-----------------------------------------------------------------------------
(***************************************************************************)
(* Help requests.                                                          *)
(***************************************************************************)

Notifying == {"close_staff", "close_student", "find_notice", "save_notice"}

\* What a handler holds on to between its steps.
HandlersHaveRequests ==
    \A h \in Handlers : handler[h].pc # "idle" => handler[h].id \in Requests

\* A handler cancels for the student, and acknowledges or resolves for staff.
MayAsk(who, wants) ==
    IF who = Student THEN wants = "canceled" ELSE wants \in {"acknowledged", "resolved"}
RolesRight ==
    \A h \in Handlers : handler[h].pc \in {"loaded"} \cup Notifying =>
        MayAsk(handler[h].who, handler[h].wants)

\* help_request_canceled never writes a notification.
WritesNews ==
    \A h \in Handlers : handler[h].pc \in {"find_notice", "save_notice"} =>
        handler[h].wants \in {"acknowledged", "resolved"}

\* A handler that won a closing transition still agrees with the table, and so
\* has nobody who won after it.
Stored(r, who, wants) == /\ status[r] = wants
                         /\ wants = "resolved" => owner[r] = who
WinnerIsStored ==
    \A h \in Handlers : handler[h].pc \in Notifying /\ handler[h].wants \in Closing =>
        Stored(handler[h].id, handler[h].who, handler[h].wants)

\* Whoever was answered that the request changed is the one the table names.
CreditIsStored ==
    \A r \in Requests : \A u \in credited[r] :
        \/ status[r] = "resolved" /\ owner[r] = u
        \/ status[r] = "canceled" /\ Student = u

HelpIInv == /\ HelpTypeOK
        /\ HandlersHaveRequests
        /\ RolesRight
        /\ WritesNews
        /\ WinnerIsStored
        /\ CreditIsStored

-----------------------------------------------------------------------------

\* The idle handler has the shape of a handler.
LEMMA IdleType == Idle \in Handler /\ Idle.pc = "idle"
BY DEF Idle, Handler, NoNotice, HelpNotice, Users, Open, Closing

\* The empty tables satisfy the invariant.
LEMMA HelpStarts == HelpInit => HelpIInv
<1> SUFFICES ASSUME HelpInit PROVE HelpIInv
  OBVIOUS
<1>1. HelpTypeOK
  BY IdleType DEF HelpInit, HelpTypeOK, NoNotice, HelpNotice, Users
<1>2. HandlersHaveRequests /\ RolesRight /\ WritesNews /\ WinnerIsStored /\ CreditIsStored
  BY DEF HelpInit, HandlersHaveRequests, RolesRight, WritesNews, WinnerIsStored, CreditIsStored, Idle, Notifying
<1> QED
  BY <1>1, <1>2 DEF HelpIInv

\* update_all keeps the shape of the notifications.
LEMMA MarkedReadType ==
    ASSUME HelpTypeOK, NEW r \in Requests, NEW users, MarkedRead(r, users)
    PROVE  helpNotices' \in [Requests -> [Users -> HelpNotice]]
<1> DEFINE after == [u \in Users |->
        IF u \in users /\ helpNotices[r][u].kind # "none"
        THEN [kind |-> helpNotices[r][u].kind, read |-> TRUE] ELSE helpNotices[r][u]]
<1>1. ASSUME NEW u \in Users PROVE after[u] \in HelpNotice
  <2>1. helpNotices[r][u] \in HelpNotice
    BY DEF HelpTypeOK
  <2>2. [kind |-> helpNotices[r][u].kind, read |-> TRUE] \in HelpNotice
    BY <2>1 DEF HelpNotice
  <2> QED
    BY <2>1, <2>2
<1>2. after \in [Users -> HelpNotice]
  BY <1>1
<1>3. helpNotices' = [helpNotices EXCEPT ![r] = after]
  BY DEF MarkedRead
<1> HIDE DEF after
<1> QED
  BY <1>2, <1>3 DEF HelpTypeOK

\* Writing one notification keeps the shape of the notifications.
LEMMA HelpNoticeWrite ==
    ASSUME HelpTypeOK, NEW r \in Requests, NEW u \in Users, NEW n \in HelpNotice
    PROVE  [helpNotices EXCEPT ![r][u] = n] \in [Requests -> [Users -> HelpNotice]]
<1>1. [helpNotices[r] EXCEPT ![u] = n] \in [Users -> HelpNotice]
  BY DEF HelpTypeOK
<1> QED
  BY <1>1 DEF HelpTypeOK

\* A step that replaces the record of one handler, and touches neither requests
\* nor credits, keeps the invariant if the new record agrees with the table.
LEMMA HandlerStep ==
    ASSUME HelpIInv, NEW h \in Handlers, NEW new \in Handler,
           handler' = [handler EXCEPT ![h] = new],
           helpNotices' \in [Requests -> [Users -> HelpNotice]],
           UNCHANGED <<status, owner, credited>>,
           new.pc # "idle" => new.id \in Requests,
           new.pc \in {"loaded"} \cup Notifying =>
               MayAsk(new.who, new.wants),
           new.pc \in {"find_notice", "save_notice"} =>
               new.wants \in {"acknowledged", "resolved"},
           new.pc \in Notifying /\ new.wants \in Closing =>
               Stored(new.id, new.who, new.wants)
    PROVE  HelpIInv'
<1>1. HelpTypeOK'
  BY DEF HelpIInv, HelpTypeOK
<1>2. \A k \in Handlers : handler'[k] = IF k = h THEN new ELSE handler[k]
  BY DEF HelpIInv, HelpTypeOK
<1>3. HandlersHaveRequests'
  BY <1>2 DEF HelpIInv, HandlersHaveRequests
<1>4. RolesRight' /\ WritesNews'
  BY <1>2 DEF HelpIInv, RolesRight, WritesNews
<1>5. WinnerIsStored'
  BY <1>2 DEF HelpIInv, WinnerIsStored, Stored
<1>6. CreditIsStored'
  BY DEF HelpIInv, CreditIsStored
<1> QED
  BY <1>1, <1>3, <1>4, <1>5, <1>6 DEF HelpIInv

\* What the invariant says of one handler in flight.
LEMMA InFlight ==
    ASSUME HelpIInv, NEW h \in Handlers, handler[h].pc # "idle"
    PROVE  /\ handler[h] \in Handler /\ handler[h].id \in Requests
           /\ handler[h].who \in Users /\ handler[h].wants \in Open \cup Closing
BY DEF HelpIInv, HelpTypeOK, HandlersHaveRequests, Handler

-----------------------------------------------------------------------------
(* One lemma per kind of step: the invariant, and the step of the life cycle *)

\* POST inserts a request only while no other is active.
LEMMA CreateRequestStep ==
    ASSUME HelpIInv, NEW h \in Handlers, NEW r \in Requests, CreateRequest(h, r)
    PROVE  HelpIInv' /\ Lifecycle!Ask(r)
<1> DEFINE new == [pc |-> "notify_staff", id |-> r, who |-> Student, todo |-> Helpers,
                   wants |-> "open", copy |-> NoNotice]
<1>1. new \in Handler
  BY DEF Handler, Users, Open, NoNotice, HelpNotice
<1>2. /\ status[r] = "none" /\ Unique
      /\ status' = [status EXCEPT ![r] = "open"]
      /\ handler' = [handler EXCEPT ![h] = new]
      /\ UNCHANGED <<owner, helpNotices, credited>>
  BY DEF CreateRequest
<1>3. new.pc = "notify_staff" /\ new.id = r
  OBVIOUS
<1> HIDE DEF new
<1>4. HelpTypeOK'
  BY <1>1, <1>2 DEF HelpIInv, HelpTypeOK, Open
<1>5. \A k \in Handlers : handler'[k] = IF k = h THEN new ELSE handler[k]
  BY <1>2 DEF HelpIInv, HelpTypeOK
<1>6. \A k \in Requests : status'[k] = IF k = r THEN "open" ELSE status[k]
  BY <1>2 DEF HelpIInv, HelpTypeOK
<1>7. HandlersHaveRequests' /\ RolesRight' /\ WritesNews'
  BY <1>3, <1>5 DEF HelpIInv, HandlersHaveRequests, RolesRight, WritesNews, Notifying
<1>8. WinnerIsStored'
  <2> SUFFICES ASSUME NEW k \in Handlers, handler'[k].pc \in Notifying, handler'[k].wants \in Closing
               PROVE  /\ status'[handler'[k].id] = handler'[k].wants
                      /\ handler'[k].wants = "resolved" => owner'[handler'[k].id] = handler'[k].who
    BY DEF WinnerIsStored, Stored
  <2>1. k # h /\ handler'[k] = handler[k]
    BY <1>3, <1>5 DEF Notifying
  <2>2. handler[k].id \in Requests /\ status[handler[k].id] = handler[k].wants
    BY <2>1 DEF HelpIInv, HandlersHaveRequests, WinnerIsStored, Stored, Notifying
  <2>3. handler[k].id # r
    BY Zenon, <1>2, <2>1, <2>2 DEF Closing
  <2> QED
    BY Zenon, <1>2, <1>6, <2>1, <2>2, <2>3 DEF HelpIInv, WinnerIsStored, Stored
<1>9. CreditIsStored'
  BY <1>2, <1>6 DEF HelpIInv, CreditIsStored
<1>10. Lifecycle!Ask(r)
  BY <1>2 DEF Lifecycle!Ask, Unique, Open, Lifecycle!Open
<1> QED
  BY <1>4, <1>7, <1>8, <1>9, <1>10 DEF HelpIInv

\* The steps that write notifications or load a record leave the request alone.
LEMMA QuietStep ==
    ASSUME HelpIInv, NEW h \in Handlers,
           \/ \E s \in Helpers : NotifyStaff(h, s)
           \/ CreateEnds(h) \/ Lose(h) \/ CloseStaff(h) \/ FindHelpNotice(h) \/ SaveCollides(h)
           \/ \E r \in Requests, u \in Users, w \in {"acknowledged"} \cup Closing : LoadRequest(h, r, u, w)
    PROVE  HelpIInv' /\ UNCHANGED <<status, owner, credited>>
<1> DEFINE id == handler[h].id
<1>1. CASE CreateEnds(h) \/ Lose(h)
  <2>1. handler' = [handler EXCEPT ![h] = Idle] /\ UNCHANGED <<status, owner, helpNotices, credited>>
    BY <1>1 DEF CreateEnds, Lose
  <2> QED
    BY Zenon, <2>1, IdleType, HandlerStep DEF HelpIInv, HelpTypeOK, Notifying
<1>2. ASSUME NEW s \in Helpers, NotifyStaff(h, s) PROVE HelpIInv' /\ UNCHANGED <<status, owner, credited>>
  <2> DEFINE new == [handler[h] EXCEPT !.todo = handler[h].todo \ {s}]
             n == [kind |-> "created", read |-> FALSE]
  <2>1. /\ handler[h].pc = "notify_staff" /\ handler' = [handler EXCEPT ![h] = new]
        /\ helpNotices' = [helpNotices EXCEPT ![id][s] = n]
        /\ UNCHANGED <<status, owner, credited>>
    BY <1>2 DEF NotifyStaff
  <2>2. handler[h] \in Handler /\ id \in Requests
    BY <2>1, InFlight
  <2>3. new \in Handler /\ new.pc = "notify_staff" /\ new.id = id
    BY <2>1, <2>2 DEF Handler
  <2>4. n \in HelpNotice /\ s \in Users
    BY DEF HelpNotice, Users
  <2> HIDE DEF new, n, id
  <2>5. helpNotices' \in [Requests -> [Users -> HelpNotice]]
    BY <2>1, <2>2, <2>4, HelpNoticeWrite DEF HelpIInv
  <2> QED
    BY Zenon, <2>1, <2>2, <2>3, <2>5, HandlerStep DEF Notifying
<1>3. CASE CloseStaff(h)
  <2> DEFINE new == [handler[h] EXCEPT !.pc =
                       IF handler[h].wants = "canceled" THEN "close_student" ELSE "find_notice"]
  <2>1. /\ handler[h].pc = "close_staff" /\ handler' = [handler EXCEPT ![h] = new]
        /\ MarkedRead(id, Helpers) /\ UNCHANGED <<status, owner, credited>>
    BY <1>3 DEF CloseStaff
  <2>2. handler[h] \in Handler /\ id \in Requests
    BY <2>1, InFlight
  <2>3. /\ new \in Handler /\ new.pc \in Notifying /\ new.id = id
        /\ new.who = handler[h].who /\ new.wants = handler[h].wants
        /\ new.pc = "find_notice" => new.wants # "canceled"
        /\ new.pc # "save_notice"
    BY <2>2 DEF Handler, Notifying
  <2> HIDE DEF new
  <2>4. helpNotices' \in [Requests -> [Users -> HelpNotice]]
    BY <2>1, <2>2, MarkedReadType DEF HelpIInv
  <2>5. handler[h].pc \in Notifying
    BY Zenon, <2>1 DEF Notifying
  <2>6. /\ MayAsk(new.who, new.wants)
        /\ new.wants \in Closing => Stored(new.id, new.who, new.wants)
    BY Zenon, <2>3, <2>5 DEF HelpIInv, RolesRight, WinnerIsStored
  <2>9. new.pc \in {"find_notice", "save_notice"} => new.wants \in {"acknowledged", "resolved"}
    BY Zenon, <2>3, <2>6 DEF MayAsk
  <2>7. new.id \in Requests
    BY <2>2, <2>3
  <2>8. HelpIInv'
    BY Zenon, <2>1, <2>3, <2>4, <2>6, <2>7, <2>9, HandlerStep
  <2> QED
    BY <2>1, <2>8
<1>4. CASE FindHelpNotice(h) \/ SaveCollides(h)
  <2> DEFINE new(pc, copy) == [handler[h] EXCEPT !.pc = pc, !.copy = copy]
  <2>1. /\ handler[h].pc \in {"find_notice", "save_notice"}
        /\ UNCHANGED <<status, owner, helpNotices, credited>>
    BY Zenon, <1>4 DEF FindHelpNotice, SaveCollides
  <2>2. handler[h] \in Handler /\ id \in Requests
    BY <2>1, InFlight
  <2>3. helpNotices[id][Student] \in HelpNotice /\ handler[h].copy \in HelpNotice
    BY <2>2 DEF HelpIInv, HelpTypeOK, Users, Handler
  <2>4. PICK pc \in {"find_notice", "save_notice"}, copy \in HelpNotice :
           handler' = [handler EXCEPT ![h] = new(pc, copy)]
    <3>1. CASE FindHelpNotice(h)
      BY ZenonT(40), <3>1, <2>3 DEF FindHelpNotice
    <3>2. CASE SaveCollides(h)
      <4>1. handler' = [handler EXCEPT ![h] = [handler[h] EXCEPT !.pc = "find_notice"]]
        BY <3>2 DEF SaveCollides
      <4>2. [handler[h] EXCEPT !.pc = "find_notice"] = new("find_notice", handler[h].copy)
        BY Zenon, <2>2 DEF Handler
      <4> QED
        BY Zenon, <4>1, <4>2, <2>3
    <3> QED
      BY ZenonT(40), <1>4, <3>1, <3>2
  <2>5. /\ new(pc, copy) \in Handler /\ new(pc, copy).pc \in Notifying
        /\ new(pc, copy).id = id /\ new(pc, copy).who = handler[h].who
        /\ new(pc, copy).wants = handler[h].wants
    BY Zenon, <2>2 DEF Handler, Notifying
  <2> DEFINE rec == new(pc, copy)
  <2>6. handler' = [handler EXCEPT ![h] = rec] /\ rec \in Handler
    BY <2>4, <2>5
  <2>7. /\ rec.pc \in Notifying /\ rec.id = id /\ rec.who = handler[h].who
        /\ rec.wants = handler[h].wants
    BY <2>5
  <2> HIDE DEF rec, new
  <2>8. handler[h].pc \in Notifying
    BY ZenonT(40), <2>1 DEF Notifying
  <2>9. /\ MayAsk(rec.who, rec.wants)
        /\ rec.wants \in Closing => Stored(rec.id, rec.who, rec.wants)
    BY Zenon, <2>7, <2>8 DEF HelpIInv, RolesRight, WinnerIsStored
  <2>10. helpNotices' \in [Requests -> [Users -> HelpNotice]]
    BY Zenon, <2>1 DEF HelpIInv, HelpTypeOK
  <2>13. rec.wants \in {"acknowledged", "resolved"}
    BY Zenon, <2>1, <2>7 DEF HelpIInv, WritesNews
  <2>11. rec.id \in Requests /\ UNCHANGED <<status, owner, credited>>
    BY <2>1, <2>2, <2>7
  <2>12. HelpIInv'
    BY Zenon, <2>6, <2>7, <2>9, <2>10, <2>11, <2>13, HandlerStep
  <2> QED
    BY <2>11, <2>12
<1>5. ASSUME NEW r \in Requests, NEW u \in Users, NEW w \in {"acknowledged"} \cup Closing,
             LoadRequest(h, r, u, w)
      PROVE  HelpIInv' /\ UNCHANGED <<status, owner, credited>>
  <2> DEFINE new == [pc |-> "loaded", id |-> r, who |-> u, todo |-> {}, wants |-> w,
                     copy |-> NoNotice]
  <2>1. /\ handler' = [handler EXCEPT ![h] = new] /\ UNCHANGED <<status, owner, helpNotices, credited>>
        /\ MayAsk(u, w)
    BY Zenon, <1>5 DEF LoadRequest, MayAsk
  <2>2. /\ new \in Handler /\ new.pc = "loaded" /\ new.id = r /\ new.who = u /\ new.wants = w
    BY Zenon DEF Handler, Open, NoNotice, HelpNotice
  <2> HIDE DEF new
  <2>3. helpNotices' \in [Requests -> [Users -> HelpNotice]]
    BY <2>1 DEF HelpIInv, HelpTypeOK
  <2> QED
    BY ZenonT(40), <2>1, <2>2, <2>3, HandlerStep DEF Notifying
<1> QED
  BY <1>1, <1>2, <1>3, <1>4, <1>5

\* A transition under the row lock is a step of the life cycle, and takes
\* nothing from a handler that won before.
LEMMA TransitionStep ==
    ASSUME HelpIInv, NEW h \in Handlers, Transition(h)
    PROVE  HelpIInv' /\ Lifecycle!Next
<1> DEFINE r == handler[h].id
           who == handler[h].who
           wants == handler[h].wants
           new == [handler[h] EXCEPT !.pc = AfterTransition(wants)]
<1>1. /\ handler[h].pc = "loaded" /\ MayBecome(status[r], wants)
      /\ status' = [status EXCEPT ![r] = wants]
      /\ owner' = [owner EXCEPT ![r] = OwnerAfter(owner[r], wants, who)]
      /\ handler' = [handler EXCEPT ![h] = new]
      /\ UNCHANGED <<helpNotices, credited>>
  BY DEF Transition
<1>2. handler[h] \in Handler /\ r \in Requests /\ who \in Users
  BY <1>1, InFlight
<1>3. MayAsk(who, wants)
  BY <1>1 DEF HelpIInv, RolesRight
<1>4. /\ new \in Handler /\ new.pc \in Notifying /\ new.id = r
      /\ new.who = who /\ new.wants = wants
      /\ new.pc = "find_notice" => wants = "acknowledged"
      /\ new.pc # "save_notice"
  BY <1>2 DEF Handler, Notifying, AfterTransition
<1>5. /\ status[r] \in Open
      /\ wants = "acknowledged" => status[r] = "open"
  BY <1>1 DEF MayBecome, Open
<1>6. \/ wants = "canceled" /\ owner' = owner
      \/ /\ wants \in {"acknowledged", "resolved"} /\ who \in Helpers
         /\ owner' = [owner EXCEPT ![r] = who]
  <2>1. CASE who = Student
    <3>1. wants = "canceled"
      BY <1>3, <2>1 DEF MayAsk
    <3>2. owner' = [owner EXCEPT ![r] = owner[r]]
      BY <1>1, <3>1 DEF OwnerAfter
    <3>3. owner \in [Requests -> Helpers \cup {NoOwner}]
      BY DEF HelpIInv, HelpTypeOK
    <3> HIDE DEF r, wants
    <3>4. owner' = owner
      BY <3>2, <3>3
    <3> QED
      BY <3>1, <3>4
  <2>2. CASE who # Student
    <3>1. wants \in {"acknowledged", "resolved"} /\ who \in Helpers
      BY <1>2, <1>3, <2>2 DEF MayAsk, Users
    <3> QED
      BY Zenon, <1>1, <3>1 DEF OwnerAfter
  <2> QED
    BY <2>1, <2>2
<1> HIDE DEF r, who, wants, new
<1>7. HelpTypeOK'
  BY <1>1, <1>2, <1>4, <1>6 DEF HelpIInv, HelpTypeOK, Open, Closing
<1>8. /\ \A k \in Handlers : handler'[k] = IF k = h THEN new ELSE handler[k]
      /\ \A k \in Requests : status'[k] = IF k = r THEN wants ELSE status[k]
      /\ \A k \in Requests \ {r} : owner'[k] = owner[k]
      /\ wants = "resolved" => owner'[r] = who
  BY Zenon, <1>1, <1>2, <1>6 DEF HelpIInv, HelpTypeOK
<1>9. HandlersHaveRequests' /\ RolesRight' /\ WritesNews'
  BY <1>2, <1>3, <1>4, <1>8 DEF HelpIInv, HandlersHaveRequests, RolesRight, WritesNews
<1>10. WinnerIsStored'
  <2> SUFFICES ASSUME NEW k \in Handlers, handler'[k].pc \in Notifying, handler'[k].wants \in Closing
               PROVE  /\ status'[handler'[k].id] = handler'[k].wants
                      /\ handler'[k].wants = "resolved" => owner'[handler'[k].id] = handler'[k].who
    BY DEF WinnerIsStored, Stored
  <2>1. CASE k = h
    BY Zenon, <1>2, <1>4, <1>8, <2>1
  <2>2. CASE k # h
    <3>1. handler'[k] = handler[k]
      BY <1>8, <2>2
    <3>2. handler[k].id \in Requests /\ Stored(handler[k].id, handler[k].who, handler[k].wants)
      BY <3>1 DEF HelpIInv, HandlersHaveRequests, WinnerIsStored, Notifying
    <3>3. handler[k].id # r
      BY Zenon, <1>5, <3>1, <3>2 DEF Stored, Open, Closing
    <3> QED
      BY <1>8, <3>1, <3>2, <3>3 DEF Stored
  <2> QED
    BY <2>1, <2>2
<1>11. CreditIsStored'
  <2>1. credited[r] = {}
    BY <1>2, <1>5 DEF HelpIInv, CreditIsStored, HelpTypeOK, Open
  <2> QED
    BY <1>1, <1>8, <2>1 DEF HelpIInv, CreditIsStored
<1>12. Lifecycle!Next
  <2>1. CASE wants = "canceled" /\ owner' = owner
    <3>1. Lifecycle!Cancel(r)
      BY <1>1, <1>5, <2>1 DEF Lifecycle!Cancel, Lifecycle!Open, Open
    <3> QED
      BY <1>2, <3>1 DEF Lifecycle!Next
  <2>2. CASE wants = "acknowledged" /\ who \in Helpers /\ owner' = [owner EXCEPT ![r] = who]
    <3>1. Lifecycle!Acknowledge(r, who)
      BY Zenon, <1>1, <1>5, <2>2 DEF Lifecycle!Acknowledge
    <3> QED
      BY <1>2, <2>2, <3>1 DEF Lifecycle!Next
  <2>3. CASE wants = "resolved" /\ who \in Helpers /\ owner' = [owner EXCEPT ![r] = who]
    <3>1. Lifecycle!Resolve(r, who)
      BY Zenon, <1>1, <1>5, <2>3 DEF Lifecycle!Resolve, Lifecycle!Open, Open
    <3> QED
      BY <1>2, <2>3, <3>1 DEF Lifecycle!Next
  <2> QED
    BY <1>6, <2>1, <2>2, <2>3
<1> QED
  BY <1>7, <1>9, <1>10, <1>11, <1>12 DEF HelpIInv

\* The answer credits the handler whose transition the table still shows.
LEMMA AnswerStep ==
    ASSUME HelpIInv, NEW h \in Handlers, handler[h].pc \in Notifying, Answer(h),
           helpNotices' \in [Requests -> [Users -> HelpNotice]], UNCHANGED <<status, owner>>
    PROVE  HelpIInv' /\ (Lifecycle!Next \/ UNCHANGED credited)
<1> DEFINE r == handler[h].id
           who == handler[h].who
           wants == handler[h].wants
<1>1. r \in Requests /\ who \in Users /\ handler[h].pc # "idle"
  BY InFlight DEF Notifying
<1>2. handler' = [handler EXCEPT ![h] = Idle]
  BY DEF Answer
<1>3. \A k \in Handlers : handler'[k] = IF k = h THEN Idle ELSE handler[k]
  BY <1>2 DEF HelpIInv, HelpTypeOK
<1>4. HandlersHaveRequests' /\ RolesRight' /\ WritesNews' /\ WinnerIsStored'
  BY Zenon, <1>3, IdleType DEF HelpIInv, HandlersHaveRequests, RolesRight, WritesNews, WinnerIsStored,
                        Stored, Notifying
<1>5. CASE wants \notin Closing
  <2>1. UNCHANGED credited
    BY <1>5 DEF Answer
  <2>2. HelpTypeOK' /\ CreditIsStored'
    BY <1>2, <2>1, IdleType DEF HelpIInv, HelpTypeOK, CreditIsStored
  <2> QED
    BY <1>4, <2>1, <2>2 DEF HelpIInv
<1>6. CASE wants \in Closing
  <2>1. credited' = [credited EXCEPT ![r] = credited[r] \cup {who}]
    BY <1>6 DEF Answer
  <2>2. Stored(r, who, wants) /\ MayAsk(who, wants)
    BY Zenon, <1>6 DEF HelpIInv, WinnerIsStored, RolesRight
  <2>3. \/ status[r] = "resolved" /\ owner[r] = who
        \/ status[r] = "canceled" /\ Student = who
    BY <1>6, <2>2 DEF Stored, MayAsk, Closing
  <2> HIDE DEF r, who, wants
  <2>4. HelpTypeOK'
    BY <1>1, <1>2, <2>1, IdleType DEF HelpIInv, HelpTypeOK
  <2>5. CreditIsStored'
    BY <1>1, <2>1, <2>3 DEF HelpIInv, HelpTypeOK, CreditIsStored
  <2>6. credited[r] \cup {who} = {who}
    BY <1>1, <2>3 DEF HelpIInv, CreditIsStored
  <2>7. Lifecycle!Credit(r, who)
    BY Zenon, <2>1, <2>3, <2>6 DEF Lifecycle!Credit
  <2>8. Lifecycle!Next
    BY <1>1, <2>7 DEF Lifecycle!Next, Users
  <2> QED
    BY <1>4, <2>4, <2>5, <2>8 DEF HelpIInv
<1> QED
  BY <1>5, <1>6

\* Every step keeps the invariant and is a step of the life cycle or none.
LEMMA HelpKeeps ==
    ASSUME HelpIInv, [HelpNext]_helpVars
    PROVE  HelpIInv' /\ [Lifecycle!Next]_(Lifecycle!lifecycle)
<1> USE DEF Lifecycle!lifecycle
<1>1. CASE UNCHANGED helpVars
  BY <1>1 DEF helpVars, HelpIInv, HelpTypeOK, HandlersHaveRequests, RolesRight, WritesNews, WinnerIsStored, Stored,
              CreditIsStored
<1>2. ASSUME NEW h \in Handlers, NEW r \in Requests, CreateRequest(h, r)
      PROVE  HelpIInv' /\ [Lifecycle!Next]_(Lifecycle!lifecycle)
  BY <1>2, CreateRequestStep DEF Lifecycle!Next
<1>3. ASSUME NEW h \in Handlers,
             \/ \E s \in Helpers : NotifyStaff(h, s)
             \/ CreateEnds(h) \/ Lose(h) \/ CloseStaff(h) \/ FindHelpNotice(h) \/ SaveCollides(h)
             \/ \E r \in Requests, u \in Users, w \in {"acknowledged"} \cup Closing : LoadRequest(h, r, u, w)
      PROVE  HelpIInv' /\ [Lifecycle!Next]_(Lifecycle!lifecycle)
  <2>1. HelpIInv' /\ UNCHANGED <<status, owner, credited>>
    BY <1>3, QuietStep
  <2> QED
    BY <2>1
<1>4. ASSUME NEW h \in Handlers, Transition(h)
      PROVE  HelpIInv' /\ [Lifecycle!Next]_(Lifecycle!lifecycle)
  BY Zenon, <1>4, TransitionStep
<1>5. ASSUME NEW h \in Handlers, CloseStudent(h)
      PROVE  HelpIInv' /\ [Lifecycle!Next]_(Lifecycle!lifecycle)
  <2>1. /\ handler[h].pc \in Notifying /\ handler[h].pc # "idle" /\ Answer(h)
        /\ MarkedRead(handler[h].id, {Student}) /\ UNCHANGED <<status, owner>>
    BY Zenon, <1>5 DEF CloseStudent, Notifying
  <2>2. helpNotices' \in [Requests -> [Users -> HelpNotice]]
    BY Zenon, <2>1, InFlight, MarkedReadType DEF HelpIInv
  <2> QED
    BY Zenon, <2>1, <2>2, AnswerStep
<1>6. ASSUME NEW h \in Handlers, SaveNotice(h)
      PROVE  HelpIInv' /\ [Lifecycle!Next]_(Lifecycle!lifecycle)
  <2> DEFINE r == handler[h].id
             n == [kind |-> handler[h].wants,
                   read |-> helpNotices[r][Student].read /\ ~handler[h].copy.read]
  <2>1. /\ handler[h].pc = "save_notice" /\ Answer(h)
        /\ helpNotices' = [helpNotices EXCEPT ![r][Student] = n] /\ UNCHANGED <<status, owner>>
    BY <1>6 DEF SaveNotice
  <2>2. handler[h].pc \in Notifying /\ handler[h].pc # "idle"
    BY Zenon, <2>1 DEF Notifying
  <2>3. r \in Requests /\ Student \in Users
    BY <2>2, InFlight DEF Users
  <2>4. n \in HelpNotice
    <3>1. handler[h].wants \in {"acknowledged", "resolved"}
      BY Zenon, <2>1 DEF HelpIInv, WritesNews
    <3>2. (helpNotices[r][Student].read /\ ~handler[h].copy.read) \in BOOLEAN
      OBVIOUS
    <3> QED
      BY Zenon, <3>1, <3>2 DEF HelpNotice
  <2> HIDE DEF n, r
  <2>5. helpNotices' \in [Requests -> [Users -> HelpNotice]]
    BY <2>1, <2>3, <2>4, HelpNoticeWrite DEF HelpIInv
  <2> QED
    BY <2>1, <2>2, <2>5, AnswerStep
<1>7. ASSUME NEW r \in Requests, NEW u \in Users, ReadHelpNotice(r, u)
      PROVE  HelpIInv' /\ [Lifecycle!Next]_(Lifecycle!lifecycle)
  <2>1. MarkedRead(r, {u}) /\ UNCHANGED <<status, owner, handler, credited>>
    BY <1>7 DEF ReadHelpNotice
  <2>2. helpNotices' \in [Requests -> [Users -> HelpNotice]]
    BY Zenon, <2>1, MarkedReadType DEF HelpIInv
  <2>3. HelpIInv'
    BY Zenon, <2>1, <2>2 DEF HelpIInv, HelpTypeOK, HandlersHaveRequests, RolesRight, WritesNews, WinnerIsStored, Stored,
                      CreditIsStored
  <2> QED
    BY Zenon, <2>1, <2>3
<1>8. ASSUME NEW h \in Handlers, Duplicate(h) \/ \E r \in Requests : RefuseClosed(h, r)
      PROVE  UNCHANGED helpVars
  BY <1>8 DEF Duplicate, RefuseClosed
<1> QED
  BY Zenon, <1>1, <1>2, <1>3, <1>4, <1>5, <1>6, <1>7, <1>8 DEF HelpNext

-----------------------------------------------------------------------------

\* The tables and the HTTP requests in flight keep their shape, for any number
\* of requests, staff and handlers.
THEOREM HelpTypeCorrectness == HelpSpec => []HelpTypeOK
<1>1. HelpIInv => HelpTypeOK
  BY DEF HelpIInv
<1> QED
  BY <1>1, HelpStarts, HelpKeeps, PTL DEF HelpSpec

\* HelpRequestsController with HelpRequest's locked transitions implements the
\* life cycle: one active request, closed once, one person credited.
THEOREM LifecycleIsImplemented == HelpSpec => ImplementsLifecycle
<1>1. HelpInit => Lifecycle!Init
  BY DEF HelpInit, Lifecycle!Init
<1> QED
  BY <1>1, HelpStarts, HelpKeeps, PTL DEF HelpSpec, ImplementsLifecycle, Lifecycle!Spec

-----------------------------------------------------------------------------
(***************************************************************************)
(* The student is told.                                                    *)
(***************************************************************************)

\* What a student has to be told of a request.
News == {"acknowledged", "resolved"}
Told(r) == helpNotices[r][Student].kind \in News
\* A handler that has won still has the student's notification to write.
Telling(h, r) == /\ handler[h].id = r /\ handler[h].wants \in News
                 /\ handler[h].pc \in {"close_staff", "find_notice", "save_notice"}
\* Between the commit of a transition and the notification its handler is answerable.
SomebodyTells ==
    \A r \in Requests : owner[r] # NoOwner => Told(r) \/ \E h \in Handlers : Telling(h, r)

\* update_all changes what was read, never what a row says.
LEMMA MarkedKeepsKind ==
    ASSUME HelpTypeOK, NEW r \in Requests, NEW users, MarkedRead(r, users), NEW k \in Requests
    PROVE  Told(k) => Told(k)'
<1>1. Student \in Users /\ DOMAIN helpNotices = Requests
  BY DEF HelpTypeOK, Users
<1> DEFINE n == IF Student \in users /\ helpNotices[r][Student].kind # "none"
                THEN [kind |-> helpNotices[r][Student].kind, read |-> TRUE] ELSE helpNotices[r][Student]
<1>2. helpNotices'[r][Student] = n
  BY Zenon, <1>1 DEF MarkedRead
<1>3. n.kind = helpNotices[r][Student].kind
  OBVIOUS
<1>4. k # r => helpNotices'[k] = helpNotices[k]
  BY Zenon, <1>1 DEF MarkedRead
<1> HIDE DEF n
<1> QED
  BY <1>2, <1>3, <1>4 DEF Told

\* A step of handler h that does not drop what h has to tell, nor what was told.
LEMMA TellingStays ==
    ASSUME SomebodyTells, NEW h \in Handlers, owner' = owner,
           \A g \in Handlers \ {h} : handler'[g] = handler[g],
           \A r \in Requests : (Told(r) => Told(r)') /\ (Telling(h, r) => Told(r)' \/ Telling(h, r)')
    PROVE  SomebodyTells'
<1> SUFFICES ASSUME NEW r \in Requests, owner[r] # NoOwner
             PROVE  Told(r)' \/ \E g \in Handlers : Telling(g, r)'
  BY DEF SomebodyTells
<1>1. CASE Told(r)
  BY Zenon, <1>1
<1>2. ASSUME NEW g \in Handlers, Telling(g, r)
      PROVE  Told(r)' \/ \E k \in Handlers : Telling(k, r)'
  <2>1. CASE g = h
    BY <1>2, <2>1
  <2>2. CASE g # h
    BY <1>2, <2>2 DEF Telling
  <2> QED
    BY Zenon, <2>1, <2>2
<1> QED
  BY Zenon, <1>1, <1>2 DEF SomebodyTells

LEMMA TellingStep == HelpIInv /\ SomebodyTells /\ [HelpNext]_helpVars => SomebodyTells'
<1> SUFFICES ASSUME HelpIInv, SomebodyTells, [HelpNext]_helpVars PROVE SomebodyTells'
  OBVIOUS
<1>0. HelpTypeOK /\ DOMAIN handler = Handlers
  BY Zenon DEF HelpIInv, HelpTypeOK
<1>1. CASE UNCHANGED helpVars
  BY Zenon, <1>1 DEF helpVars, SomebodyTells, Told, Telling
<1>2. ASSUME NEW h \in Handlers,
             \/ \E r \in Requests : CreateRequest(h, r)
             \/ CreateEnds(h) \/ Lose(h)
             \/ \E r \in Requests, u \in Users, w \in {"acknowledged"} \cup Closing : LoadRequest(h, r, u, w)
      PROVE  SomebodyTells'
  <2>1. /\ handler[h].pc \in {"idle", "notify_staff", "loaded"}
        /\ owner' = owner /\ helpNotices' = helpNotices
        /\ \A g \in Handlers \ {h} : handler'[g] = handler[g]
    BY Zenon, <1>0, <1>2 DEF CreateRequest, CreateEnds, Lose, LoadRequest
  <2>2. \A r \in Requests : (Told(r) => Told(r)') /\ ~Telling(h, r)
    BY <2>1 DEF Told, Telling
  <2> QED
    BY Zenon, <2>1, <2>2, TellingStays
<1>3. ASSUME NEW h \in Handlers, NEW s \in Helpers, NotifyStaff(h, s) PROVE SomebodyTells'
  <2>1. /\ handler[h].pc = "notify_staff" /\ handler[h].id \in Requests /\ owner' = owner
        /\ helpNotices' = [helpNotices EXCEPT ![handler[h].id][s] = [kind |-> "created", read |-> FALSE]]
        /\ \A g \in Handlers \ {h} : handler'[g] = handler[g]
    BY Zenon, <1>0, <1>3 DEF NotifyStaff, HelpIInv, HandlersHaveRequests
  <2>2. \A r \in Requests : helpNotices'[r][Student] = helpNotices[r][Student]
    BY <1>0, <2>1, HelpAssumption DEF HelpTypeOK, Users
  <2>3. \A r \in Requests : (Told(r) => Told(r)') /\ ~Telling(h, r)
    BY <2>1, <2>2 DEF Told, Telling
  <2> QED
    BY <2>1, <2>3, TellingStays
<1>4. ASSUME NEW h \in Handlers, Transition(h) PROVE SomebodyTells'
  <2> DEFINE r == handler[h].id
             w == handler[h].wants
  <2>1. /\ handler[h].pc = "loaded" /\ r \in Requests /\ helpNotices' = helpNotices
        /\ owner' = [owner EXCEPT ![r] = OwnerAfter(owner[r], w, handler[h].who)]
        /\ handler' = [handler EXCEPT ![h] = [handler[h] EXCEPT !.pc = AfterTransition(w)]]
    BY <1>4 DEF Transition, HelpIInv, HandlersHaveRequests
  <2>2. handler[h] \in Handler /\ w \in News \cup {"canceled"}
    BY <1>0, <2>1 DEF HelpTypeOK, HelpIInv, RolesRight, MayAsk, News
  <2>3. /\ handler'[h].id = r /\ handler'[h].wants = w /\ handler'[h].pc = AfterTransition(w)
        /\ \A g \in Handlers \ {h} : handler'[g] = handler[g]
    BY <1>0, <2>1, <2>2 DEF Handler
  <2>4. \A k \in Requests : (Told(k) => Told(k)') /\ ~Telling(h, k)
    BY Zenon, <2>1 DEF Told, Telling
  <2>5. CASE w = "canceled"
    <3>1. owner' = owner
      BY Zenon, <1>0, <2>1, <2>5 DEF OwnerAfter, HelpTypeOK
    <3> QED
      BY <2>3, <2>4, <3>1, TellingStays
  <2>6. CASE w \in News
    <3>1. ASSUME NEW k \in Requests, k = r PROVE Telling(h, k)'
      BY <2>3, <2>6, <3>1 DEF Telling, AfterTransition, News
    <3>2. \A k \in Requests : k # r => owner'[k] = owner[k]
      BY <1>0, <2>1 DEF HelpTypeOK
    <3>3. ASSUME NEW k \in Requests, k # r, owner'[k] # NoOwner
          PROVE  Told(k)' \/ \E g \in Handlers : Telling(g, k)'
      <4>1. Told(k) \/ \E g \in Handlers \ {h} : Telling(g, k)
        BY <2>4, <3>2, <3>3 DEF SomebodyTells
      <4>2. \A g \in Handlers \ {h} : Telling(g, k) => Telling(g, k)'
        BY <2>3 DEF Telling
      <4> QED
        BY <2>4, <4>1, <4>2
    <3> QED
      BY <3>1, <3>3 DEF SomebodyTells
  <2> QED
    BY <2>2, <2>5, <2>6
<1>5. ASSUME NEW h \in Handlers, CloseStaff(h) PROVE SomebodyTells'
  <2> DEFINE to == IF handler[h].wants = "canceled" THEN "close_student" ELSE "find_notice"
  <2>1. /\ handler[h].pc = "close_staff" /\ handler[h].id \in Requests /\ owner' = owner
        /\ MarkedRead(handler[h].id, Helpers) /\ handler[h] \in Handler
        /\ handler' = [handler EXCEPT ![h] = [handler[h] EXCEPT !.pc = to]]
    BY <1>0, <1>5 DEF CloseStaff, HelpIInv, HandlersHaveRequests, HelpTypeOK
  <2>2. /\ handler'[h].id = handler[h].id /\ handler'[h].wants = handler[h].wants
        /\ handler'[h].pc = to
        /\ \A g \in Handlers \ {h} : handler'[g] = handler[g]
    BY <1>0, <2>1 DEF Handler
  <2>3. \A r \in Requests : Telling(h, r) => Telling(h, r)'
    BY <2>2 DEF Telling, News
  <2>4. \A r \in Requests : Told(r) => Told(r)'
    BY Zenon, <1>0, <2>1, MarkedKeepsKind
  <2> QED
    BY <2>1, <2>2, <2>3, <2>4, TellingStays
<1>6. ASSUME NEW h \in Handlers, CloseStudent(h) PROVE SomebodyTells'
  <2>1. /\ handler[h].pc = "close_student" /\ handler[h].id \in Requests /\ owner' = owner
        /\ MarkedRead(handler[h].id, {Student})
        /\ \A g \in Handlers \ {h} : handler'[g] = handler[g]
    BY Zenon, <1>0, <1>6 DEF CloseStudent, Answer, HelpIInv, HandlersHaveRequests
  <2>2. \A r \in Requests : (Told(r) => Told(r)') /\ ~Telling(h, r)
    BY <1>0, <2>1, MarkedKeepsKind DEF Telling
  <2> QED
    BY <2>1, <2>2, TellingStays
<1>7. ASSUME NEW h \in Handlers, FindHelpNotice(h) \/ SaveCollides(h) PROVE SomebodyTells'
  <2>1. /\ owner' = owner /\ helpNotices' = helpNotices /\ handler[h] \in Handler
        /\ \A g \in Handlers \ {h} : handler'[g] = handler[g]
    BY <1>0, <1>7 DEF FindHelpNotice, SaveCollides, HelpTypeOK
  <2>2. /\ handler'[h].id = handler[h].id /\ handler'[h].wants = handler[h].wants
        /\ handler'[h].pc \in {"find_notice", "save_notice"}
    BY ZenonT(40), <1>0, <1>7, <2>1 DEF FindHelpNotice, SaveCollides, Handler
  <2>3. \A r \in Requests : (Told(r) => Told(r)') /\ (Telling(h, r) => Telling(h, r)')
    BY <2>1, <2>2 DEF Told, Telling
  <2> QED
    BY Zenon, <2>1, <2>3, TellingStays
<1>8. ASSUME NEW h \in Handlers, SaveNotice(h) PROVE SomebodyTells'
  <2> DEFINE r == handler[h].id
             n == [kind |-> handler[h].wants,
                   read |-> helpNotices[r][Student].read /\ ~handler[h].copy.read]
  <2>1. /\ r \in Requests /\ handler[h].wants \in News /\ owner' = owner
        /\ helpNotices' = [helpNotices EXCEPT ![r][Student] = n]
        /\ \A g \in Handlers \ {h} : handler'[g] = handler[g]
    BY <1>0, <1>8 DEF SaveNotice, Answer, HelpIInv, HandlersHaveRequests, WritesNews, News
  <2>2. Student \in Users /\ n.kind = handler[h].wants
    BY Zenon DEF Users
  <2> HIDE DEF n
  <2>3. helpNotices'[r][Student] = n /\ \A k \in Requests : k # r => helpNotices'[k] = helpNotices[k]
    BY <1>0, <2>1, <2>2 DEF HelpTypeOK
  <2>4. \A k \in Requests : (Told(k) => Told(k)') /\ (Telling(h, k) => Told(k)')
    BY Zenon, <2>1, <2>2, <2>3 DEF Told, Telling
  <2> QED
    BY Zenon, <2>1, <2>4, TellingStays
<1>9. ASSUME NEW r \in Requests, NEW u \in Users, ReadHelpNotice(r, u) PROVE SomebodyTells'
  <2>1. MarkedRead(r, {u}) /\ owner' = owner /\ handler' = handler
    BY Zenon, <1>9 DEF ReadHelpNotice
  <2>2. \A k \in Requests : Told(k) => Told(k)'
    BY <1>0, <2>1, MarkedKeepsKind
  <2> QED
    BY Zenon, <2>1, <2>2 DEF SomebodyTells, Telling
<1>10. ASSUME NEW h \in Handlers, Duplicate(h) \/ \E r \in Requests : RefuseClosed(h, r)
       PROVE  UNCHANGED helpVars
  BY <1>10 DEF Duplicate, RefuseClosed
<1> QED
  BY <1>1, <1>2, <1>3, <1>4, <1>5, <1>6, <1>7, <1>8, <1>9, <1>10 DEF HelpNext

\* Nothing is owed before the first request.
LEMMA TellingStarts == HelpInit => SomebodyTells
BY DEF HelpInit, SomebodyTells

\* Once every handler is idle, the student of a request that was taken over or
\* resolved has a notification that says so: whatever the handlers raced for,
\* the one that won wrote it before it ended (HelpRequestsController,
\* HelpRequest.transition!).
THEOREM StudentsAreTold == HelpSpec => []StudentIsTold
<1>1. SomebodyTells => StudentIsTold
  BY DEF SomebodyTells, StudentIsTold, Quiet, Told, Telling, News
<1>2. HelpIInv /\ SomebodyTells /\ [HelpNext]_helpVars => (HelpIInv /\ SomebodyTells)'
  BY HelpKeeps, TellingStep
<1> QED
  BY <1>1, <1>2, HelpStarts, TellingStarts, PTL DEF HelpSpec

-----------------------------------------------------------------------------
(***************************************************************************)
(* The live connection (realtime.ts, cable.ts).                            *)
(***************************************************************************)

\* Nothing but the live socket, or no live socket and one call or timer.
LineInv ==
    \/ Live = {} /\ calls + timers <= 1
    \/ calls = 0 /\ timers = 0 /\ \E s \in SocketIds : Live = {s}

(***************************************************************************)
(* After unsubscribe (closing, cancelled) no socket is live and no timer   *)
(* is set; the token call that may still be under way opens nothing.       *)
(***************************************************************************)
GivenUpIsQuiet == closing => Live = {} /\ timers = 0

SocketIInv == SocketTypeOK /\ LineInv /\ GivenUpIsQuiet

\* Live after a socket was given a new state that is not a live one.
LEMMA LiveWithout ==
    ASSUME SocketTypeOK, NEW s \in SocketIds, NEW v \in SocketState \ LiveState,
           sockets' = [sockets EXCEPT ![s] = v]
    PROVE  Live' = Live \ {s}
  BY DEF SocketTypeOK, Live, LiveState, SocketState

\* Live after a socket was given a live state.
LEMMA LiveWith ==
    ASSUME SocketTypeOK, NEW s \in SocketIds, NEW v \in LiveState,
           sockets' = [sockets EXCEPT ![s] = v]
    PROVE  Live' = Live \cup {s}
  BY Zenon DEF SocketTypeOK, Live, LiveState, SocketState

\* Every step of a subscription keeps the types.
LEMMA SocketTypeStep == SocketTypeOK /\ [SocketNext]_socketVars => SocketTypeOK'
  <1> SUFFICES ASSUME SocketTypeOK, [SocketNext]_socketVars PROVE SocketTypeOK'
    OBVIOUS
  <1> USE DEF SocketTypeOK, SocketState, LiveState, Report, ScheduleReconnect, ConnectReturns, CleanupDue
  <1>1. CASE TokenRefused
    BY <1>1 DEF TokenRefused
  <1>2. CASE TokenIssued
    BY <1>2 DEF TokenIssued
  <1>3. CASE ReconnectFires
    BY <1>3 DEF ReconnectFires
  <1>4. ASSUME NEW s \in SocketIds, SocketOpened(s) PROVE SocketTypeOK'
    BY <1>4 DEF SocketOpened
  <1>5. ASSUME NEW s \in SocketIds, SubscriptionConfirmed(s) PROVE SocketTypeOK'
    BY <1>5 DEF SubscriptionConfirmed
  <1>6. CASE LeavePage
    <2>1. sockets' \in [SocketIds -> SocketState]
      BY <1>6, sockets \in [SocketIds -> SocketState] DEF LeavePage
    <2>2. {listening', closing', resolved'} \subseteq BOOLEAN
      BY Zenon, <1>6 DEF LeavePage
    <2> QED
      BY <1>6, <2>1, <2>2 DEF LeavePage
  <1>7. ASSUME NEW s \in SocketIds, SubscriptionRejected(s) PROVE SocketTypeOK'
    BY <1>7 DEF SubscriptionRejected
  <1>8. ASSUME NEW s \in SocketIds, SocketClosed(s) PROVE SocketTypeOK'
    BY <1>8 DEF SocketClosed
  <1>9. CASE UNCHANGED socketVars
    BY Zenon, <1>9 DEF socketVars
  <1> QED
    BY <1>1, <1>2, <1>3, <1>4, <1>5, <1>6, <1>7, <1>8, <1>9 DEF SocketNext, SocketStep

\* Every step keeps one line, and none after the subscription was given up.
LEMMA SocketLineStep ==
    ASSUME SocketIInv, [SocketNext]_socketVars PROVE LineInv' /\ GivenUpIsQuiet'
  <1> USE DEF SocketIInv, LineInv, GivenUpIsQuiet
  <1>0. calls \in Nat /\ timers \in Nat /\ closing \in BOOLEAN /\ listening \in BOOLEAN
    BY DEF SocketTypeOK
  <1>a. "connecting" \in LiveState /\ "open" \in LiveState /\ "subscribed" \in LiveState /\ "rejected" \in LiveState
    BY DEF LiveState
  <1>b. "closed" \in SocketState \ LiveState
    BY DEF LiveState, SocketState
  <1>1. CASE TokenRefused
    <2>0. Live' = Live
      BY <1>1 DEF TokenRefused, Live
    <2>1. Live' = Live /\ calls = 1 /\ timers = 0 /\ Live = {} /\ calls' = 0
      BY <1>0, <1>1, <2>0 DEF TokenRefused
    <2>2. (timers' = 0 \/ timers' = 1) /\ (closing' => timers' = 0)
      BY <1>0, <1>1, <2>1 DEF TokenRefused, ScheduleReconnect, ConnectReturns, CleanupDue
    <2>3. calls' + timers' <= 1
      BY <2>1, <2>2
    <2> QED
      BY <2>1, <2>2, <2>3, Zenon
  <1>2. CASE TokenIssued
    <2>1. calls = 1 /\ timers = 0 /\ Live = {} /\ calls' = 0 /\ timers' = 0
      BY <1>0, <1>2 DEF TokenIssued
    <2>2. CASE closing
      <3>1. Live' = Live
        BY <1>2, <2>2 DEF TokenIssued, Live
      <3> QED
        BY <2>1, <3>1
    <2>3. CASE ~closing
      <3>1. PICK s \in SocketIds : sockets' = [sockets EXCEPT ![s] = IF CleanupDue THEN "closed" ELSE "connecting"]
        BY <1>2, <2>3 DEF TokenIssued
      <3>2. CASE CleanupDue
        <4>1. Live' = Live \ {s}
          BY Zenon, <3>1, <3>2, <1>b, LiveWithout
        <4> QED
          BY <2>1, <4>1
      <3>3. CASE ~CleanupDue
        <4>1. Live' = Live \cup {s}
          BY Zenon, <3>1, <3>3, <1>a, LiveWith
        <4>2. closing' = FALSE
          BY Zenon, <1>2, <2>3, <3>3 DEF TokenIssued, ConnectReturns
        <4> QED
          BY <2>1, <4>1, <4>2
      <3> QED
        BY <3>2, <3>3
    <2> QED
      BY <2>2, <2>3
  <1>3. CASE ReconnectFires
    <2>1. timers = 1 /\ calls = 0 /\ Live = {} /\ timers' = 0 /\ calls' = 1
      BY <1>0, <1>3 DEF ReconnectFires
    <2>2. Live' = Live
      BY <1>3 DEF ReconnectFires, Live
    <2> QED
      BY <2>1, <2>2
  <1>4. ASSUME NEW s \in SocketIds, SocketOpened(s) PROVE LineInv' /\ GivenUpIsQuiet'
    <2>1. s \in Live
      BY <1>4, <1>a DEF SocketOpened, Live
    <2>2. Live' = Live \/ Live' = Live \ {s}
      <3>1. CASE closing /\ platform = "web"
        BY Zenon, <1>4, <1>b, <3>1, LiveWithout DEF SocketOpened
      <3>2. CASE ~(closing /\ platform = "web")
        BY Zenon, <1>4, <1>a, <2>1, <3>2, LiveWith DEF SocketOpened
      <3> QED
        BY <3>1, <3>2
    <2> QED
      BY <1>4, <2>1, <2>2 DEF SocketOpened
  <1>5. ASSUME NEW s \in SocketIds, SubscriptionConfirmed(s) PROVE LineInv' /\ GivenUpIsQuiet'
    <2>1. s \in Live
      BY <1>5, <1>a DEF SubscriptionConfirmed, Live
    <2>2. Live' = Live
      BY Zenon, <1>5, <1>a, <2>1, LiveWith DEF SubscriptionConfirmed
    <2> QED
      BY <1>5, <2>2 DEF SubscriptionConfirmed
  <1>6. CASE LeavePage
    <2>1. CASE resolved
      BY <1>0, <1>6, <2>1, Live' = {} DEF LeavePage, Live, LiveState
    <2>2. CASE ~resolved
      BY <1>6, <2>2, Live' = Live DEF LeavePage, Live
    <2> QED
      BY <2>1, <2>2
  <1>7. ASSUME NEW s \in SocketIds, SubscriptionRejected(s) PROVE LineInv' /\ GivenUpIsQuiet'
    <2>1. s \in Live
      BY <1>7, <1>a DEF SubscriptionRejected, Live
    <2>2. Live' = Live
      BY Zenon, <1>7, <1>a, <2>1, LiveWith DEF SubscriptionRejected
    <2> QED
      BY <1>7, <2>2 DEF SubscriptionRejected
  <1>8. ASSUME NEW s \in SocketIds, SocketClosed(s) PROVE LineInv' /\ GivenUpIsQuiet'
    <2>1. s \in Live
      BY <1>8 DEF SocketClosed, Live
    <2>2. Live' = {} /\ calls = 0 /\ timers = 0 /\ ~closing
      BY Zenon, <1>8, <1>b, <2>1, LiveWithout DEF SocketClosed
    <2>3. (timers' = 0 \/ timers' = 1) /\ calls' = 0 /\ closing' = FALSE
      BY <1>0, <1>8, <2>2 DEF SocketClosed, ScheduleReconnect
    <2>4. calls' + timers' <= 1
      BY <2>3
    <2> QED
      BY <2>2, <2>3, <2>4, Zenon
  <1>9. CASE UNCHANGED socketVars
    BY <1>9 DEF socketVars, Live
  <1> QED
    BY <1>1, <1>2, <1>3, <1>4, <1>5, <1>6, <1>7, <1>8, <1>9 DEF SocketNext, SocketStep

\* The invariant holds of every subscription.
THEOREM SocketInvariant == SocketSpec => []SocketIInv
  <1>1. SocketInit => SocketIInv
    <2> SUFFICES ASSUME SocketInit PROVE SocketIInv
      OBVIOUS
    <2>1. Live = {}
      BY DEF SocketInit, Live, LiveState
    <2>2. SocketTypeOK
      <3>1. resolved \in BOOLEAN
        BY DEF SocketInit
      <3>2. {listening, closing, resolved} \subseteq BOOLEAN
        BY Zenon, <3>1 DEF SocketInit
      <3> QED
        BY <3>2 DEF SocketInit, SocketTypeOK, SocketState
    <2>3. LineInv
      BY <2>1 DEF SocketInit, LineInv
    <2>4. GivenUpIsQuiet
      BY DEF SocketInit, GivenUpIsQuiet
    <2> QED
      BY <2>2, <2>3, <2>4 DEF SocketIInv
  <1>2. SocketIInv /\ [SocketNext]_socketVars => SocketIInv'
    BY SocketTypeStep, SocketLineStep DEF SocketIInv
  <1> QED
    BY <1>1, <1>2, PTL DEF SocketSpec

(***************************************************************************)
(* A subscription never has two lines to the server, however its token     *)
(* calls, handshakes and subscriptions fail and whenever the page is left  *)
(* (connect and scheduleReconnect of realtime.ts and cable.ts).            *)
(***************************************************************************)
THEOREM LinesDoNotMultiply == SocketSpec => []OneLine
  <1>1. SocketIInv => OneLine
    <2> SUFFICES ASSUME SocketIInv PROVE OneLine
      OBVIOUS
    <2>0. calls \in Nat /\ timers \in Nat
      BY DEF SocketIInv, SocketTypeOK
    <2>1. CASE Live = {} /\ calls + timers <= 1
      BY <2>1 DEF OneLine
    <2>2. ASSUME calls = 0, timers = 0, NEW s \in SocketIds, Live = {s} PROVE OneLine
      BY <2>2 DEF OneLine
    <2> QED
      BY <2>1, <2>2 DEF SocketIInv, LineInv
  <1> QED
    BY <1>1, SocketInvariant, PTL

(***************************************************************************)
(* A subscription that was given up has no socket and no timer again: what *)
(* was under way when unsubscribe ran cannot bring one back.               *)
(***************************************************************************)
THEOREM GivenUpStaysQuiet == SocketSpec => []GivenUpIsQuiet
  <1>1. SocketIInv => GivenUpIsQuiet
    BY DEF SocketIInv
  <1> QED
    BY <1>1, SocketInvariant, PTL

-----------------------------------------------------------------------------
(***************************************************************************)
(* Calls to the server (api.ts, AuthContext.tsx).                          *)
(***************************************************************************)
Purposes == Reads \cup Sessions \cup {"write", "accept"}
ApiCall == [id : Nat, for : Purposes, scope : BOOLEAN, since : Nat, attempt : Nat,
            step : {"token", "sent", "answered", "waiting", "done"}, retried401 : BOOLEAN,
            token : BOOLEAN, status : {"none", "ok", "empty", "401", "transient", "timeout", "refused"},
            value : Nat, error : BOOLEAN, fromCache : BOOLEAN, executed : Nat]

\* The attempt of call c ended well, or the call did.
Succeeded(c) == \/ c.step = "answered" /\ c.status \in {"ok", "empty"}
                \/ c.step = "done" /\ ~c.error
\* A write is only tried again while it has not been run; what a call that went well
\* brought is no older than the call, and acceptance that was read was recorded.
\* v is the server's version, a its record of the acceptance.
CallFits(c, v, a) ==
    /\ c \in ApiCall /\ c.since <= v
    /\ c.for \in {"write", "accept"} =>
          /\ c.executed <= 1
          /\ c.step \in {"token", "sent", "waiting"} \/ (c.step = "answered" /\ c.status = "401")
                => c.executed = 0
          /\ Succeeded(c) => c.executed = 1
    /\ c.for \in Reads /\ Succeeded(c) => c.value >= c.since
    /\ c.for \in Sessions /\ Succeeded(c) /\ c.value = 1 => a

ApiTypeOK ==
    /\ signedIn \in BOOLEAN /\ cacheScope \in BOOLEAN /\ accepted \in BOOLEAN
    /\ version \in Nat /\ made \in Nat /\ cache \subseteq Nat
    /\ me \in {{}, {[accepted |-> TRUE]}, {[accepted |-> FALSE]}}
ApiIInv ==
    /\ ApiTypeOK
    /\ \A c \in apiCalls : CallFits(c, version, accepted)
    /\ me = {[accepted |-> TRUE]} => accepted

\* The version grows and an acceptance stays, so a call keeps fitting.
LEMMA FitsLater ==
    ASSUME NEW c, NEW v \in Nat, NEW w \in Nat, NEW a \in BOOLEAN, NEW b \in BOOLEAN,
           v <= w, a => b, CallFits(c, v, a)
    PROVE  CallFits(c, w, b)
<1>1. c.since \in Nat
  BY DEF CallFits, ApiCall
<1> QED
  BY <1>1 DEF CallFits

\* A call is replaced by the next step of it.
LEMMA BecomesFits ==
    ASSUME ApiIInv, NEW c, NEW d, Becomes(c, d), version' \in Nat, version <= version',
           accepted' \in BOOLEAN, accepted => accepted', CallFits(d, version', accepted')
    PROVE  \A x \in apiCalls' : CallFits(x, version', accepted')
<1> SUFFICES ASSUME NEW x \in apiCalls, x # d
             PROVE  CallFits(x, version', accepted')
  BY DEF Becomes
<1>1. CallFits(x, version, accepted) /\ version \in Nat /\ accepted \in BOOLEAN
  BY DEF ApiIInv, ApiTypeOK
<1> QED
  BY <1>1, FitsLater

LEMMA StartedFits ==
    ASSUME ApiTypeOK, NEW for \in Purposes, NEW id \in Nat
    PROVE  CallFits(Started(for, id), version, accepted)
<1> DEFINE d == Started(for, id)
<1>1. cacheScope \in BOOLEAN /\ version \in Nat
  BY DEF ApiTypeOK
<1>2. d \in ApiCall
  BY Zenon, <1>1 DEF Started, ApiCall
<1>3. d.since = version /\ d.executed = 0 /\ d.step = "token"
  BY DEF Started
<1> HIDE DEF d
<1>4. ~Succeeded(d) /\ d.executed <= 1 /\ d.since <= version
  BY <1>1, <1>3 DEF Succeeded
<1> QED
  BY <1>2, <1>3, <1>4 DEF CallFits, d

LEMMA ApiStarts == ApiInit => ApiIInv
<1> SUFFICES ASSUME ApiInit PROVE ApiIInv
  OBVIOUS
<1>1. ApiTypeOK
  <2>1. cache \subseteq Nat /\ version \in Nat /\ made \in Nat
    BY DEF ApiInit
  <2>2. /\ signedIn \in BOOLEAN /\ cacheScope \in BOOLEAN /\ accepted \in BOOLEAN
        /\ me \in {{}, {[accepted |-> TRUE]}, {[accepted |-> FALSE]}}
    BY Zenon DEF ApiInit
  <2> QED
    BY <2>1, <2>2 DEF ApiTypeOK
<1>2. CallFits(Started("session", 0), version, accepted)
  BY <1>1, StartedFits DEF Purposes, Sessions
<1>3. me # {[accepted |-> TRUE]}
  BY Zenon DEF ApiInit
<1> QED
  BY Zenon, <1>1, <1>2, <1>3 DEF ApiInit, ApiIInv

\* A new call, and nothing that a call depends on changes.
LEMMA FetchFits ==
    ASSUME ApiIInv, NEW for \in Purposes, Fetch(for), UNCHANGED <<version, accepted>>
    PROVE  made' \in Nat /\ \A x \in apiCalls' : CallFits(x, version', accepted')
<1>1. made \in Nat /\ ApiTypeOK
  BY DEF ApiIInv, ApiTypeOK
<1>2. CallFits(Started(for, made), version, accepted)
  BY <1>1, StartedFits
<1> QED
  BY <1>1, <1>2 DEF Fetch, ApiIInv

\* The token is there, the wait for another attempt is over, or the request was not run.
LEMMA UnservedFits ==
    ASSUME ApiIInv, NEW c \in apiCalls, UNCHANGED <<version, accepted>>,
           \/ TokenGot(c) \/ RetryTimer(c)
           \/ \E answer \in {"401", "transient", "timeout", "refused"} : NotServed(c, answer)
    PROVE  \A x \in apiCalls' : CallFits(x, version', accepted')
<1>1. /\ CallFits(c, version, accepted) /\ c \in ApiCall /\ version \in Nat
      /\ accepted \in BOOLEAN /\ signedIn \in BOOLEAN
  BY DEF ApiIInv, ApiTypeOK, CallFits
<1>2. CASE TokenGot(c)
  <2> DEFINE d == [c EXCEPT !.step = "sent", !.token = signedIn]
  <2>1. Becomes(c, d) /\ c.step = "token"
    BY <1>2 DEF TokenGot
  <2>2. d \in ApiCall
    BY Zenon, <1>1 DEF ApiCall
  <2>3. /\ d.step = "sent" /\ d.since = c.since /\ d.executed = c.executed /\ d.for = c.for
    BY Zenon, <1>1 DEF ApiCall
  <2> HIDE DEF d
  <2>4. CallFits(d, version, accepted)
    BY <1>1, <2>1, <2>2, <2>3 DEF CallFits, Succeeded
  <2> QED
    BY <1>1, <2>1, <2>4, BecomesFits
<1>3. CASE RetryTimer(c)
  <2> DEFINE d == [c EXCEPT !.step = "token", !.attempt = @ + 1]
  <2>1. Becomes(c, d) /\ c.step = "waiting"
    BY <1>3 DEF RetryTimer
  <2>2. c.attempt + 1 \in Nat
    BY <1>1 DEF ApiCall
  <2>3. d \in ApiCall
    BY Zenon, <1>1, <2>2 DEF ApiCall
  <2>4. d.step = "token" /\ d.since = c.since /\ d.executed = c.executed /\ d.for = c.for
    BY Zenon, <1>1 DEF ApiCall
  <2> HIDE DEF d
  <2>5. CallFits(d, version, accepted)
    BY <1>1, <2>1, <2>3, <2>4 DEF CallFits, Succeeded
  <2> QED
    BY <1>1, <2>1, <2>5, BecomesFits
<1>4. ASSUME NEW answer \in {"401", "transient", "timeout", "refused"}, NotServed(c, answer)
      PROVE  \A x \in apiCalls' : CallFits(x, version', accepted')
  <2> DEFINE d == [c EXCEPT !.step = "answered", !.status = answer]
  <2>1. Becomes(c, d) /\ c.step = "sent"
    BY <1>4 DEF NotServed
  <2>2. d \in ApiCall
    BY Zenon, <1>1 DEF ApiCall
  <2>3. /\ d.step = "answered" /\ d.status = answer
        /\ d.since = c.since /\ d.executed = c.executed /\ d.for = c.for
    BY Zenon, <1>1 DEF ApiCall
  <2> HIDE DEF d
  <2>4. CallFits(d, version, accepted)
    BY <1>1, <2>1, <2>2, <2>3 DEF CallFits, Succeeded
  <2> QED
    BY <1>1, <2>1, <2>4, BecomesFits
<1> QED
  BY <1>2, <1>3, <1>4

\* The server runs the request: a write takes effect, a read sees the version.
LEMMA ServeFits ==
    ASSUME ApiIInv, NEW c \in apiCalls, Serve(c)
    PROVE  /\ version' \in Nat /\ accepted' \in BOOLEAN /\ (accepted => accepted')
           /\ UNCHANGED <<authVars, cache, made>>
           /\ \A x \in apiCalls' : CallFits(x, version', accepted')
<1>1. /\ CallFits(c, version, accepted) /\ c \in ApiCall /\ version \in Nat /\ accepted \in BOOLEAN
      /\ c.step = "sent"
  BY DEF ApiIInv, ApiTypeOK, CallFits, Serve
<1>2. PICK answer \in {"ok", "transient", "empty"} : Executed(c, answer)
  BY DEF Serve
<1>3. /\ version' \in Nat /\ version <= version'
  BY <1>1, <1>2 DEF Executed
<1>4. accepted' \in BOOLEAN /\ (accepted => accepted')
  BY <1>1, <1>2, Zenon DEF Executed
<1> DEFINE v == CASE c.for \in Sessions -> IF accepted THEN 1 ELSE 0 [] OTHER -> version
           d == [c EXCEPT !.step = "answered", !.status = answer, !.executed = c.executed + 1,
                          !.value = v]
<1>5. Becomes(c, d) /\ UNCHANGED <<authVars, cache, made>>
  BY <1>2 DEF Executed
<1>6. v \in Nat /\ c.executed + 1 \in Nat
  BY <1>1 DEF ApiCall
<1>7. /\ c.for \in Sessions /\ v = 1 => accepted
      /\ c.for \in Reads => v = version
  BY DEF Reads, Sessions
<1> HIDE DEF v
<1>8. d \in ApiCall
  BY Zenon, <1>1, <1>6 DEF ApiCall
<1>9. /\ d.step = "answered" /\ d.status = answer /\ d.executed = c.executed + 1 /\ d.value = v
      /\ d.since = c.since /\ d.for = c.for
  BY <1>1 DEF ApiCall
<1> HIDE DEF d
<1>10. CallFits(d, version, accepted)
  BY <1>1, <1>7, <1>8, <1>9 DEF CallFits, Succeeded
<1>11. CallFits(d, version', accepted')
  BY <1>1, <1>3, <1>4, <1>10, FitsLater
<1> QED
  BY Zenon, <1>3, <1>4, <1>5, <1>11, BecomesFits

\* fetchApi returns: what the last attempt brought, or an error.
LEMMA DoneFits ==
    ASSUME ApiIInv, NEW c \in apiCalls, NEW e \in ApiCall, Done(c, e), UNCHANGED <<version, accepted>>,
           c.step = "answered", e.since = c.since, e.for = c.for, e.executed = c.executed,
           e.error \/ (e.value = c.value /\ c.status \in {"ok", "empty"})
    PROVE  \A x \in apiCalls' : CallFits(x, version', accepted')
<1>1. CallFits(c, version, accepted) /\ version \in Nat /\ accepted \in BOOLEAN
  BY DEF ApiIInv, ApiTypeOK
<1> DEFINE d == [e EXCEPT !.step = "done", !.attempt = 1, !.token = FALSE, !.retried401 = FALSE]
<1>2. Becomes(c, d)
  BY DEF Done
<1>3. d \in ApiCall
  BY Zenon DEF ApiCall
<1>4. /\ d.step = "done" /\ d.error = e.error /\ d.value = e.value
      /\ d.since = c.since /\ d.for = c.for /\ d.executed = c.executed
  BY Zenon DEF ApiCall
<1> HIDE DEF d
<1>5. Succeeded(d) => Succeeded(c) /\ d.value = c.value
  BY <1>4 DEF Succeeded
<1>6. CallFits(d, version, accepted)
  BY <1>1, <1>3, <1>4, <1>5 DEF CallFits
<1>7. /\ version' = version /\ version' \in Nat /\ version <= version'
      /\ accepted' = accepted /\ accepted' \in BOOLEAN /\ (accepted => accepted')
  <2>1. \A n \in Nat : n <= n
    OBVIOUS
  <2> QED
    BY Zenon, <1>1, <2>1
<1>8. CallFits(d, version', accepted')
  BY Zenon, <1>6, <1>7
<1> QED
  BY Zenon, <1>2, <1>7, <1>8, BecomesFits

LEMMA SettleFits ==
    ASSUME ApiIInv, NEW c \in apiCalls, Settle(c)
    PROVE  /\ cache' \subseteq Nat /\ UNCHANGED <<authVars, serverVars, made>>
           /\ \A x \in apiCalls' : CallFits(x, version', accepted')
<1>1. /\ CallFits(c, version, accepted) /\ c \in ApiCall /\ version \in Nat /\ accepted \in BOOLEAN
      /\ c.step = "answered" /\ cache \subseteq Nat /\ c.value \in Nat
  BY DEF ApiIInv, ApiTypeOK, CallFits, Settle, ApiCall
<1>2. UNCHANGED <<authVars, serverVars, made>> /\ UNCHANGED <<version, accepted>>
  BY DEF Settle, serverVars
<1>3. CASE RetryUnauthorized(c) \/ RetryTransient(c)
  <2> DEFINE again == c.retried401 \/ c.status = "401"
             d == [c EXCEPT !.step = "waiting", !.status = "none", !.retried401 = again,
                            !.token = FALSE]
  <2>1. Becomes(c, d) /\ UNCHANGED cache
    BY <1>3 DEF Settle
  <2>2. again \in BOOLEAN
    BY Zenon
  <2> HIDE DEF again
  <2>3. d \in ApiCall
    BY Zenon, <1>1, <2>2 DEF ApiCall
  <2>4. d.step = "waiting" /\ d.since = c.since /\ d.executed = c.executed /\ d.for = c.for
    BY <1>1 DEF ApiCall
  <2> HIDE DEF d
  <2>5. c.for \in {"write", "accept"} => c.executed = 0
    BY <1>1, <1>3 DEF CallFits, RetryUnauthorized, RetryTransient, Reads
  <2>6. CallFits(d, version, accepted)
    BY <1>1, <2>3, <2>4, <2>5 DEF CallFits, Succeeded
  <2> QED
    BY <1>1, <1>2, <2>1, <2>6, BecomesFits
<1>4. CASE ~RetryUnauthorized(c) /\ ~RetryTransient(c) /\ c.status \in {"ok", "empty"}
  <2>1. Done(c, c) /\ (cache' = {c.value} \/ cache' = cache)
    BY <1>4 DEF Settle
  <2> QED
    BY ZenonT(40), <1>1, <1>2, <1>4, <2>1, DoneFits
<1>5. CASE ~RetryUnauthorized(c) /\ ~RetryTransient(c) /\ c.status \notin {"ok", "empty"}
  <2>1. UNCHANGED cache /\ (FallsBack(c) \/ Done(c, [c EXCEPT !.error = TRUE]))
    BY <1>5 DEF Settle
  <2>2. CASE FallsBack(c)
    <3>1. PICK v \in cache : Done(c, [c EXCEPT !.value = v, !.error = TRUE, !.fromCache = TRUE])
      BY Zenon, <2>2 DEF FallsBack
    <3> DEFINE e == [c EXCEPT !.value = v, !.error = TRUE, !.fromCache = TRUE]
    <3>2. v \in Nat
      BY <1>1
    <3>3. e \in ApiCall
      BY Zenon, <1>1, <3>2 DEF ApiCall
    <3>4. e.since = c.since /\ e.for = c.for /\ e.executed = c.executed /\ e.error = TRUE
      BY <1>1 DEF ApiCall
    <3> HIDE DEF e
    <3>5. Done(c, e)
      BY <3>1 DEF e
    <3> QED
      BY <1>1, <1>2, <2>1, <3>3, <3>4, <3>5, DoneFits
  <2>3. CASE Done(c, [c EXCEPT !.error = TRUE])
    <3> DEFINE e == [c EXCEPT !.error = TRUE]
    <3>1. e \in ApiCall
      BY Zenon, <1>1 DEF ApiCall
    <3>2. e.since = c.since /\ e.for = c.for /\ e.executed = c.executed /\ e.error = TRUE
      BY <1>1 DEF ApiCall
    <3> HIDE DEF e
    <3>3. Done(c, e)
      BY <2>3 DEF e
    <3> QED
      BY <1>1, <1>2, <2>1, <3>1, <3>2, <3>3, DoneFits
  <2> QED
    BY <2>1, <2>2, <2>3
<1> QED
  BY <1>2, <1>3, <1>4, <1>5

\* The callers take results; the session decides which screen is shown.
LEMMA TakenFits ==
    ASSUME ApiIInv, NEW c \in apiCalls, PageTakes(c) \/ SyncAnswered(c) \/ AcceptAnswered(c)
    PROVE  ApiIInv'
<1>1. /\ CallFits(c, version, accepted) /\ c \in ApiCall /\ ApiTypeOK
      /\ version \in Nat /\ accepted \in BOOLEAN
  BY DEF ApiIInv, ApiTypeOK, CallFits
<1>2. UNCHANGED <<version, accepted, made, signedIn, cacheScope>>
  BY DEF PageTakes, SyncAnswered, AcceptAnswered, serverVars, authVars
<1>3. \A x \in apiCalls' : CallFits(x, version', accepted')
  <2>1. CASE apiCalls' = apiCalls \ {c}
    BY <1>2, <2>1 DEF ApiIInv
  <2>2. CASE AcceptAnswered(c) /\ apiCalls' # apiCalls \ {c}
    <3>1. Becomes(c, Started("resync", c.id))
      BY <2>2 DEF AcceptAnswered
    <3>2. c.id \in Nat /\ "resync" \in Purposes
      BY <1>1 DEF ApiCall, Purposes, Sessions
    <3>3. CallFits(Started("resync", c.id), version, accepted)
      BY <1>1, <3>2, StartedFits
    <3> QED
      BY <1>1, <1>2, <3>1, <3>3, BecomesFits
  <2> QED
    BY Zenon, <2>1, <2>2 DEF PageTakes, SyncAnswered, AcceptAnswered
<1>4. CASE SyncAnswered(c)
  <2>1. cache' \subseteq Nat
    BY Zenon, <1>1, <1>4 DEF SyncAnswered, SessionRead, ApiTypeOK
  <2>2. me' = {} \/ (~c.error /\ me' = {[accepted |-> c.value = 1]})
    BY <1>4, Zenon DEF SyncAnswered, SessionRead
  <2>3. c.step = "done" /\ c.for \in Sessions
    BY <1>4 DEF SyncAnswered
  <2>4. CASE me' = {}
    BY Zenon, <1>1, <1>2, <1>3, <2>1, <2>4 DEF ApiIInv, ApiTypeOK
  <2>5. CASE ~c.error /\ me' = {[accepted |-> TRUE]} /\ c.value = 1
    <3>1. accepted'
      BY <1>1, <1>2, <2>3, <2>5 DEF CallFits, Succeeded
    <3> QED
      BY Zenon, <1>1, <1>2, <1>3, <2>1, <2>5, <3>1 DEF ApiIInv, ApiTypeOK
  <2>6. CASE me' = {[accepted |-> FALSE]}
    <3>1. me' # {[accepted |-> TRUE]}
      <4>1. [accepted |-> FALSE] # [accepted |-> TRUE]
        <5>1. [accepted |-> FALSE].accepted # [accepted |-> TRUE].accepted
          OBVIOUS
        <5> QED
          BY <5>1
      <4> QED
        BY <2>6, <4>1
    <3> QED
      BY <1>1, <1>2, <1>3, <2>1, <2>6, <3>1 DEF ApiIInv, ApiTypeOK
  <2>7. (c.value = 1) = TRUE \/ (c.value = 1) = FALSE
    OBVIOUS
  <2> QED
    BY <2>2, <2>4, <2>5, <2>6, <2>7, Zenon
<1>5. CASE PageTakes(c) \/ AcceptAnswered(c)
  <2>1. UNCHANGED <<me, cache>>
    BY <1>5 DEF PageTakes, AcceptAnswered, authVars
  <2> QED
    BY <1>1, <1>2, <1>3, <2>1 DEF ApiIInv, ApiTypeOK
<1> QED
  BY <1>4, <1>5

\* Everything else: calls made, sign-ins and sign-outs, and what others do.
LEMMA OtherFits ==
    ASSUME ApiIInv,
           \/ \E for \in Reads \cup {"write"} : PageCalls(for)
           \/ SyncSession \/ Accept \/ SignOut \/ SignInAs \/ Invite \/ SavedElsewhere \/ Expires
    PROVE  ApiIInv'
<1>1. ApiTypeOK /\ version \in Nat /\ accepted \in BOOLEAN /\ made \in Nat
  BY DEF ApiIInv, ApiTypeOK
<1>2. /\ UNCHANGED accepted /\ version' \in Nat /\ version <= version' /\ (me' = me \/ me' = {})
      /\ cache' \subseteq Nat /\ signedIn' \in BOOLEAN /\ cacheScope' \in BOOLEAN
  <2>1. UNCHANGED accepted /\ (version' = version \/ version' = version + 1)
    BY Zenon DEF PageCalls, SyncSession, Accept, SignOut, SignInAs, Invite, SavedElsewhere, Expires,
           serverVars
  <2>2. (me' = me \/ me' = {}) /\ (cache' = cache \/ cache' = {})
    BY DEF PageCalls, SyncSession, Accept, SignOut, SignInAs, Invite, SavedElsewhere, Expires,
           authVars
  <2>3. signedIn' \in {signedIn, TRUE, FALSE} /\ cacheScope' \in {cacheScope, TRUE, FALSE}
    BY Zenon DEF PageCalls, SyncSession, Accept, SignOut, SignInAs, Invite, SavedElsewhere,
                 Expires, authVars
  <2>4. signedIn' \in BOOLEAN /\ cacheScope' \in BOOLEAN
    BY <1>1, <2>3, Zenon DEF ApiTypeOK
  <2>5. version' \in Nat /\ version <= version'
    BY <1>1, <2>1
  <2>6. cache' \subseteq Nat
    BY Zenon, <1>1, <2>2 DEF ApiTypeOK
  <2> QED
    BY Zenon, <2>1, <2>2, <2>4, <2>5, <2>6
<1>3. made' \in Nat /\ \A x \in apiCalls' : CallFits(x, version', accepted')
  <2>1. CASE SignOut \/ Invite \/ SavedElsewhere \/ Expires
    <3>1. UNCHANGED <<apiCalls, made>>
      BY <2>1 DEF SignOut, Invite, SavedElsewhere, Expires
    <3> SUFFICES ASSUME NEW x \in apiCalls PROVE CallFits(x, version', accepted')
      BY <1>1, <3>1
    <3>2. CallFits(x, version, accepted)
      BY DEF ApiIInv
    <3> QED
      BY Zenon, <1>1, <1>2, <3>2, FitsLater
  <2>2. CASE \/ \E for \in Reads \cup {"write"} : PageCalls(for)
             \/ SyncSession \/ Accept \/ SignInAs
    <3>1. PICK for \in Purposes : Fetch(for) /\ UNCHANGED <<version, accepted>>
      BY <2>2 DEF PageCalls, SyncSession, Accept, SignInAs, serverVars, Purposes, Sessions
    <3> QED
      BY Zenon, <3>1, FetchFits
  <2> QED
    BY <2>1, <2>2
<1>4. me' = {[accepted |-> TRUE]} => accepted'
  BY Zenon, <1>2 DEF ApiIInv
<1> QED
  BY <1>1, <1>2, <1>3, <1>4 DEF ApiIInv, ApiTypeOK

LEMMA ApiKeeps == ApiIInv /\ [ApiNext]_apiVars => ApiIInv'
<1> SUFFICES ASSUME ApiIInv, [ApiNext]_apiVars PROVE ApiIInv'
  OBVIOUS
<1>1. CASE UNCHANGED apiVars
  BY <1>1 DEF apiVars, ApiIInv, ApiTypeOK
<1>2. ASSUME NEW c \in apiCalls, ApiStep(c) PROVE ApiIInv'
  <2>1. CASE PageTakes(c) \/ SyncAnswered(c) \/ AcceptAnswered(c)
    BY <2>1, TakenFits
  <2>2. CASE Serve(c)
    BY Zenon, <2>2, ServeFits DEF ApiIInv, ApiTypeOK, authVars
  <2>3. CASE Settle(c)
    BY <2>3, SettleFits DEF ApiIInv, ApiTypeOK, authVars, serverVars
  <2>4. CASE \/ TokenGot(c) \/ RetryTimer(c)
             \/ \E answer \in {"401", "transient", "timeout", "refused"} : NotServed(c, answer)
    <3>1. UNCHANGED <<authVars, serverVars, cache, made>>
      BY <2>4 DEF TokenGot, RetryTimer, NotServed
    <3>2. UNCHANGED <<version, accepted, signedIn, cacheScope, me>>
      BY <3>1 DEF authVars, serverVars
    <3>3. \A x \in apiCalls' : CallFits(x, version', accepted')
      BY <2>4, <3>2, UnservedFits
    <3> QED
      BY <3>1, <3>2, <3>3 DEF ApiIInv, ApiTypeOK
  <2> QED
    BY <1>2, <2>1, <2>2, <2>3, <2>4 DEF ApiStep
<1> QED
  BY <1>1, <1>2, OtherFits DEF ApiNext

\* However calls, retries, sign-ins and the writes of others interleave, a write is run
\* once when it is reported done, a read is no older than its call, and the application
\* opens only to those whose acceptance is recorded (fetchApi, syncSession, accept).
THEOREM CallsAreSound == ApiSpec => []CallsSound
<1>1. ApiIInv => CallsSound
  <2> SUFFICES ASSUME ApiIInv PROVE CallsSound
    OBVIOUS
  <2>1. WriteOnce
    BY DEF ApiIInv, CallFits, Succeeded, WriteOnce
  <2>2. ReadHonest
    BY DEF ApiIInv, CallFits, Succeeded, ReadHonest
  <2>3. AppMeansAccepted
    <3>1. Screen = "app" => me # {} /\ me # {[accepted |-> FALSE]}
      BY Zenon DEF Screen
    <3>2. me \in {{}, {[accepted |-> TRUE]}, {[accepted |-> FALSE]}}
      BY DEF ApiIInv, ApiTypeOK
    <3> QED
      BY <3>1, <3>2 DEF ApiIInv, AppMeansAccepted
  <2> QED
    BY <2>1, <2>2, <2>3 DEF CallsSound
<1> QED
  BY <1>1, ApiStarts, ApiKeeps, PTL DEF ApiSpec
=============================================================================
