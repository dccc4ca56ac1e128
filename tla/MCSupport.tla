------------------------------ MODULE MCSupport ------------------------------
(* The support cases of staff and the help requests of students, for TLC.  They *)
(* write different tables, so one of them runs in a behaviour (which, chosen at *)
(* the start) and the other keeps its first state.  The cases run either with   *)
(* one staff request at a time, two runs of the job and roles that change       *)
(* ("cases"), or with two requests that overlap each other and one run of the   *)
(* job ("edits").                                                               *)
EXTENDS SupportCases, HelpRequests

VARIABLE which

One(S) == {CHOOSE x \in S : TRUE}
ByOne(row) == {row.owner, row.creator} \subseteq One(Staff)
OneRequest == \A u \in Updaters \ One(Updaters) : upd[u].pc = "idle"
Edits ==
    /\ staffRole = Staff /\ restart.pc = "idle"
    /\ \A j \in Jobs \ One(Jobs) : job[j].pc = "idle"
    /\ \A i \in Cases : ByOne(cases[i])
    /\ \A u \in Updaters : ByOne(upd[u].want) /\ upd[u].want.status # "contacted"

SupportInit == which \in {"cases", "edits", "help"} /\ Init /\ HelpInit
SupportNext ==
    \/ which = "cases" /\ Next /\ OneRequest' /\ UNCHANGED <<which, helpVars>>
    \/ which = "edits" /\ Next /\ Edits' /\ UNCHANGED <<which, helpVars>>
    \/ which = "help" /\ HelpNext /\ UNCHANGED <<which, vars>>
SupportSpec == SupportInit /\ [][SupportNext]_<<which, vars, helpVars>>

\* For the liveness run, what begins: a case of any staff, whose roles change, and a
\* second case behind it ("roles"); restarts and cases of one member of staff ("restarts").
Begins ==
    \/ /\ which = "roles" /\ restart.pc = "idle" /\ clock = 1
       /\ \A i \in Cases : cases[i].due <= clock /\ (i > 1 => ByOne(cases[i]))
       /\ \A u \in Updaters : upd[u].want.due <= clock /\ (upd[u].id > 1 => ByOne(upd[u].want))
    \/ /\ which = "restarts" /\ staffRole = Staff
       /\ \A i \in Cases : ByOne(cases[i]) /\ cases[i].trigger = "restart"
       /\ \A u \in Updaters : ByOne(upd[u].want)
       /\ restart.pc = "idle" \/ restart.by \in One(Staff)
CaseLiveInit == which \in {"roles", "restarts"} /\ Init /\ HelpInit
CaseLiveNext == Next /\ UNCHANGED <<which, helpVars>> /\ Begins'
CaseLiveSpec == CaseLiveInit /\ [][CaseLiveNext]_<<which, vars, helpVars>> /\ Fairness
=============================================================================
