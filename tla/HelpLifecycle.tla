---------------------------- MODULE HelpLifecycle ----------------------------
(***************************************************************************)
(* What the help queue promises for one student and one learning context:  *)
(* at most one active request, closed once, by one person, who alone hears *)
(* that the request changed.                                               *)
(***************************************************************************)
CONSTANTS Requests, Staff, Student, NoOwner

VARIABLES status, owner, credited

lifecycle == <<status, owner, credited>>

Open == {"open", "acknowledged"}

Init ==
    /\ status = [r \in Requests |-> "none"]
    /\ owner = [r \in Requests |-> NoOwner]
    /\ credited = [r \in Requests |-> {}]

Ask(r) ==
    /\ status[r] = "none"
    /\ \A k \in Requests : status[k] \notin Open
    /\ status' = [status EXCEPT ![r] = "open"]
    /\ UNCHANGED <<owner, credited>>

Acknowledge(r, s) ==
    /\ status[r] = "open"
    /\ status' = [status EXCEPT ![r] = "acknowledged"]
    /\ owner' = [owner EXCEPT ![r] = s]
    /\ UNCHANGED credited

Resolve(r, s) ==
    /\ status[r] \in Open
    /\ status' = [status EXCEPT ![r] = "resolved"]
    /\ owner' = [owner EXCEPT ![r] = s]
    /\ UNCHANGED credited

Cancel(r) ==
    /\ status[r] \in Open
    /\ status' = [status EXCEPT ![r] = "canceled"]
    /\ UNCHANGED <<owner, credited>>

\* The answer "status_changed" to whoever closed the request.
Credit(r, who) ==
    /\ \/ status[r] = "resolved" /\ owner[r] = who
       \/ status[r] = "canceled" /\ Student = who
    /\ credited' = [credited EXCEPT ![r] = {who}]
    /\ UNCHANGED <<status, owner>>

Next ==
    \E r \in Requests :
        \/ Ask(r) \/ Cancel(r) \/ Credit(r, Student)
        \/ \E s \in Staff : Acknowledge(r, s) \/ Resolve(r, s) \/ Credit(r, s)

Spec == Init /\ [][Next]_lifecycle
=============================================================================
