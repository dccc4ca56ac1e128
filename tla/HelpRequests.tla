---------------------------- MODULE HelpRequests ----------------------------
(***************************************************************************)
(* The help requests of one student about one learning context: the        *)
(* endpoints of student and staff, with the notifications they write after *)
(* the transition has committed.                                           *)
(***************************************************************************)
EXTENDS Integers

CONSTANTS NumRequests,  \* bound on the requests ever made
          Helpers,      \* instructors and admins that are not archived
          Student,
          NoOwner,
          Handlers      \* concurrent HTTP requests

Requests == 1 .. NumRequests
Users == Helpers \cup {Student}
Open == {"open", "acknowledged"}
Closing == {"resolved", "canceled"}

ASSUME HelpAssumption ==
    /\ NumRequests \in Nat
    /\ Student \notin Helpers
    /\ NoOwner \notin Users

VARIABLES
    status,    \* help_requests.status; "none" before the insert
    owner,     \* help_requests.owner_id
    helpNotices, \* the notifications row of each request and user
    handler,   \* the HTTP requests in flight
    credited   \* ghost: who was answered status_changed for closing a request

helpVars == <<status, owner, helpNotices, handler, credited>>

\* kind stands for the title: which event the row was last written for.
HelpNotice == [kind : {"none", "created", "acknowledged", "resolved"}, read : BOOLEAN]
NoNotice == [kind |-> "none", read |-> FALSE]
\* wants is the status the handler asks for, and has in memory once it has won.
Handler == [pc : {"idle", "notify_staff", "loaded", "close_staff", "close_student",
                  "find_notice", "save_notice"},
            id : Requests \cup {0}, who : Users, todo : SUBSET Helpers,
            wants : Open \cup Closing, copy : HelpNotice]
Idle == [pc |-> "idle", id |-> 0, who |-> Student, todo |-> {}, wants |-> "open",
         copy |-> NoNotice]

HelpInit ==
    /\ status = [r \in Requests |-> "none"]
    /\ owner = [r \in Requests |-> NoOwner]
    /\ helpNotices = [r \in Requests |-> [u \in Users |-> NoNotice]]
    /\ handler = [h \in Handlers |-> Idle]
    /\ credited = [r \in Requests |-> {}]

-----------------------------------------------------------------------------

\* The partial unique index on active requests of a student and context.
Unique == \A k \in Requests : status[k] \notin Open

\* update_all(read_at: now) on the rows of the given users.
MarkedRead(r, users) ==
    helpNotices' = [helpNotices EXCEPT ![r] = [u \in Users |->
        IF u \in users /\ helpNotices[r][u].kind # "none"
        THEN [kind |-> helpNotices[r][u].kind, read |-> TRUE]
        ELSE helpNotices[r][u]]]

\* POST /help_requests.
CreateRequest(h, r) ==
    /\ handler[h].pc = "idle"
    /\ status[r] = "none" /\ Unique
    /\ status' = [status EXCEPT ![r] = "open"]
    /\ handler' = [handler EXCEPT ![h] =
          [pc |-> "notify_staff", id |-> r, who |-> Student, todo |-> Helpers,
           wants |-> "open", copy |-> NoNotice]]
    /\ UNCHANGED <<owner, helpNotices, credited>>

\* POST for a context with an active request answers with that request.
Duplicate(h) == handler[h].pc = "idle" /\ ~Unique /\ UNCHANGED helpVars

\* One round of the loop in help_request_created, in any order of the staff.
\* Nobody else inserts these rows.
NotifyStaff(h, s) ==
    /\ handler[h].pc = "notify_staff" /\ s \in handler[h].todo
    /\ helpNotices' = [helpNotices EXCEPT ![handler[h].id][s] = [kind |-> "created", read |-> FALSE]]
    /\ handler' = [handler EXCEPT ![h] = [handler[h] EXCEPT !.todo = handler[h].todo \ {s}]]
    /\ UNCHANGED <<status, owner, credited>>

CreateEnds(h) ==
    /\ handler[h].pc = "notify_staff" /\ handler[h].todo = {}
    /\ handler' = [handler EXCEPT ![h] = Idle]
    /\ UNCHANGED <<status, owner, helpNotices, credited>>

\* PATCH /help_requests/:id up to the model: the loaded copy must be active.
LoadRequest(h, r, who, wants) ==
    /\ handler[h].pc = "idle"
    /\ status[r] \in Open
    /\ IF who = Student THEN wants = "canceled" ELSE wants \in {"acknowledged", "resolved"}
    /\ handler' = [handler EXCEPT ![h] =
          [pc |-> "loaded", id |-> r, who |-> who, todo |-> {}, wants |-> wants,
           copy |-> NoNotice]]
    /\ UNCHANGED <<status, owner, helpNotices, credited>>

\* PATCH of a request that is closed is refused.
RefuseClosed(h, r) == handler[h].pc = "idle" /\ status[r] \in Closing /\ UNCHANGED helpVars

\* Mutant of MayBecome: the copy, which was active, is trusted.
AlwaysMay(now, wants) == TRUE

\* What acknowledge!, resolve! and cancel! test again under the row lock.
MayBecome(now, wants) == IF wants = "acknowledged" THEN now = "open" ELSE now \in Open

\* cancel! leaves the owner alone.
OwnerAfter(now, wants, who) == IF wants = "canceled" THEN now ELSE who

\* Mutant of AfterTransition: a resolution only closes notifications, as a
\* cancellation does.
ResolveLikeCancel(wants) == IF wants = "acknowledged" THEN "find_notice" ELSE "close_student"

\* The call that follows a transition: help_request_changed and
\* help_request_canceled begin with the staff's rows if the request is closed.
AfterTransition(wants) == IF wants = "acknowledged" THEN "find_notice" ELSE "close_staff"

\* The with_lock block: reload, test, update, commit.
Transition(h) ==
    LET r == handler[h].id
        wants == handler[h].wants
    IN /\ handler[h].pc = "loaded"
       /\ MayBecome(status[r], wants)
       /\ status' = [status EXCEPT ![r] = wants]
       /\ owner' = [owner EXCEPT ![r] = OwnerAfter(owner[r], wants, handler[h].who)]
       /\ handler' = [handler EXCEPT ![h] = [handler[h] EXCEPT !.pc = AfterTransition(wants)]]
       /\ UNCHANGED <<helpNotices, credited>>

\* Somebody else was faster, and status_changed is false; or a validation fails
\* because the student left the cohort or the owner's role has changed, which
\* may happen at any time.
Lose(h) ==
    /\ handler[h].pc = "loaded"
    /\ handler' = [handler EXCEPT ![h] = Idle]
    /\ UNCHANGED <<status, owner, helpNotices, credited>>

\* close_staff_help_notifications.
CloseStaff(h) ==
    /\ handler[h].pc = "close_staff"
    /\ MarkedRead(handler[h].id, Helpers)
    /\ handler' = [handler EXCEPT ![h] = [handler[h] EXCEPT !.pc =
          IF handler[h].wants = "canceled" THEN "close_student" ELSE "find_notice"]]
    /\ UNCHANGED <<status, owner, credited>>

\* The answer, with status_changed true, ends the HTTP request.
Answer(h) ==
    /\ handler' = [handler EXCEPT ![h] = Idle]
    /\ credited' = IF handler[h].wants \in Closing
                   THEN [credited EXCEPT ![handler[h].id] =
                           credited[handler[h].id] \cup {handler[h].who}]
                   ELSE credited

\* The rest of help_request_canceled.
CloseStudent(h) ==
    /\ handler[h].pc = "close_student"
    /\ MarkedRead(handler[h].id, {Student})
    /\ Answer(h)
    /\ UNCHANGED <<status, owner>>

\* help_request_notification_for the student: find_or_initialize_by.
FindHelpNotice(h) ==
    /\ handler[h].pc = "find_notice"
    /\ handler' = [handler EXCEPT ![h] = [handler[h] EXCEPT
          !.pc = "save_notice", !.copy = helpNotices[handler[h].id][Student]]]
    /\ UNCHANGED <<status, owner, helpNotices, credited>>

\* save!, with the status in memory.  Only attributes that differ from the copy
\* are written, so read_at is reset only if the copy had been read.
SaveNotice(h) ==
    LET r == handler[h].id
        row == helpNotices[r][Student]
    IN /\ handler[h].pc = "save_notice"
       /\ handler[h].copy.kind = "none" => row.kind = "none"
       /\ helpNotices' = [helpNotices EXCEPT ![r][Student] =
              [kind |-> handler[h].wants, read |-> row.read /\ ~handler[h].copy.read]]
       /\ Answer(h)
       /\ UNCHANGED <<status, owner>>

\* The insert met a row: the rescue looks it up and updates it.
SaveCollides(h) ==
    /\ handler[h].pc = "save_notice"
    /\ handler[h].copy.kind = "none" /\ helpNotices[handler[h].id][Student].kind # "none"
    /\ handler' = [handler EXCEPT ![h] = [handler[h] EXCEPT !.pc = "find_notice"]]
    /\ UNCHANGED <<status, owner, helpNotices, credited>>

\* A reader opens the notification.
ReadHelpNotice(r, u) ==
    /\ helpNotices[r][u].kind # "none" /\ ~helpNotices[r][u].read
    /\ MarkedRead(r, {u})
    /\ UNCHANGED <<status, owner, handler, credited>>

HelpNext ==
    \/ \E h \in Handlers :
          \/ \E r \in Requests : CreateRequest(h, r) \/ RefuseClosed(h, r)
          \/ Duplicate(h)
          \/ \E s \in Helpers : NotifyStaff(h, s)
          \/ CreateEnds(h)
          \/ \E r \in Requests, u \in Users, w \in {"acknowledged"} \cup Closing : LoadRequest(h, r, u, w)
          \/ Transition(h) \/ Lose(h) \/ CloseStaff(h) \/ CloseStudent(h)
          \/ FindHelpNotice(h) \/ SaveNotice(h) \/ SaveCollides(h)
    \/ \E r \in Requests, u \in Users : ReadHelpNotice(r, u)

HelpSpec == HelpInit /\ [][HelpNext]_helpVars

-----------------------------------------------------------------------------
(* Properties *)

\* Tables and handlers keep their shape.
HelpTypeOK ==
    /\ status \in [Requests -> {"none"} \cup Open \cup Closing]
    /\ owner \in [Requests -> Helpers \cup {NoOwner}]
    /\ helpNotices \in [Requests -> [Users -> HelpNotice]]
    /\ handler \in [Handlers -> Handler]
    /\ credited \in [Requests -> SUBSET Users]

\* The life cycle, read over the same variables.
Lifecycle == INSTANCE HelpLifecycle WITH Staff <- Helpers

\* The endpoints implement the life cycle: one active request per context, no
\* way out of a terminal state, and of the people who close a request at the
\* same time only the one whose answer is stored hears that it changed.
ImplementsLifecycle == Lifecycle!Spec

Quiet(r) == \A h \in Handlers : handler[h].id # r

\* Once the HTTP requests about it are answered, the student has a notification
\* of every request that staff took on: acknowledge! and resolve! commit before
\* help_request_changed writes it, two handlers may both try to insert it, and a
\* cancellation may come in between.  (A server that dies in between is not
\* modelled.)
StudentIsTold ==
    \A r \in Requests : Quiet(r) /\ owner[r] # NoOwner
                        => helpNotices[r][Student].kind \in {"acknowledged", "resolved"}
=============================================================================
