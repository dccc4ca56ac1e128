----------------------------- MODULE MobileSession -----------------------------
(***************************************************************************)
(* The signed-in state of the mobile app: the session and workspace        *)
(* providers, what they keep in the device's storage, and the cleanup at   *)
(* sign-out and when access is denied (providers/session-provider.tsx,     *)
(* providers/workspace-provider.tsx). Every await is a step boundary, so   *)
(* refreshes, sign-outs and late answers interleave.                       *)
(***************************************************************************)
EXTENDS Integers, FiniteSets

CONSTANTS People, MaxSessionActs   \* bound on what the user does
ASSUME SessionAssumption == People \subseteq Nat \ {0} /\ MaxSessionActs \in Nat
NoPerson == 0

VARIABLES subject,        \* who Clerk has signed in, NoPerson for nobody
          account,        \* user: who the app shows
          opening,        \* loading
          accessDenied,
          lastUser,       \* lastUserIdRef
          device,         \* keys in the device's storage: <<"session" | "spaces" | "authored", who>>, <<"token", NoPerson>>
          spacesOf,       \* whose workspaces are shown
          spacesLoading,
          tasks,          \* calls under way
          sessionActs
sessionVars == <<subject, account, opening, accessDenied, lastUser, device, spacesOf, spacesLoading, tasks, sessionActs>>

\* What clearUserConversationStorage, clearUserSubmissionDrafts and clearLearningCache remove.
AuthoredBy(who) == {<<"authored", who>>}
Task(n, kind, who, pc) == [n |-> n, kind |-> kind, who |-> who, pc |-> pc, seen |-> FALSE, cleans |-> NoPerson]
TaskNumber(running) == CHOOSE n \in 1 .. Cardinality(running) + 1: \A t \in running: t.n # n
With(running, kind, who, pc) == running \cup {Task(TaskNumber(running), kind, who, pc)}

SessionInit ==
    /\ subject = NoPerson /\ account = NoPerson /\ opening = FALSE /\ accessDenied = FALSE /\ lastUser = NoPerson
    /\ device = {} /\ spacesOf = NoPerson /\ spacesLoading = FALSE /\ tasks = {} /\ sessionActs = 0

\* setUser(b), with the effects of a changed user: the refs, and the workspaces, which are
\* dropped and asked for again.
AccountBecomes(b, running) ==
    /\ account' = b
    /\ lastUser' = IF b # NoPerson THEN b ELSE lastUser
    /\ spacesOf' = IF b = account THEN spacesOf ELSE NoPerson
    /\ spacesLoading' = IF b = account THEN spacesLoading ELSE b # NoPerson
    /\ tasks' = IF b = account \/ b = NoPerson THEN running ELSE With(running, "spaces", b, "ask")
AccountStays == UNCHANGED <<account, lastUser, spacesOf, spacesLoading>>

\* What is on the screen: the gate of the app's layout.
Gate == CASE subject = NoPerson -> "signIn"
          [] opening -> "opening"
          [] accessDenied -> "denied"
          [] account = NoPerson -> "retry"
          [] OTHER -> "app"
SessionAct == sessionActs < MaxSessionActs /\ sessionActs' = sessionActs + 1
\* refresh: it blocks the screen only while no user is known.
RefreshStarts(who) ==
    /\ opening' = (account = NoPerson)
    /\ tasks' = With(tasks, "session", who, "ask")
    /\ AccountStays

SignIn(who) ==
    /\ Gate = "signIn" /\ SessionAct /\ subject' = who /\ RefreshStarts(who)
    /\ UNCHANGED <<accessDenied, device>>
\* The retry of the two gates, and the app's own refreshes.
Refresh ==
    /\ Gate \in {"denied", "retry", "app"} /\ SessionAct /\ RefreshStarts(subject)
    /\ UNCHANGED <<subject, accessDenied, device>>
PressSignOut ==
    /\ Gate \in {"denied", "retry", "app"} /\ SessionAct
    /\ tasks' = With(tasks, "signOut", account, "unregister")
    /\ AccountStays /\ UNCHANGED <<subject, opening, accessDenied, device>>
\* A draft or a failed message kept by one of the app's screens.
Author ==
    /\ Gate = "app" /\ SessionAct /\ device' = device \cup AuthoredBy(account)
    /\ AccountStays /\ UNCHANGED <<subject, opening, accessDenied, tasks>>
RefreshSpaces ==
    /\ Gate = "app" /\ SessionAct /\ tasks' = With(tasks, "spaces", account, "ask")
    /\ spacesLoading' = (spacesOf = NoPerson)
    /\ UNCHANGED <<subject, account, opening, accessDenied, lastUser, device, spacesOf>>

(***************************************************************************)
(* refresh of the session.                                                 *)
(***************************************************************************)
Goes(t, pc) == (tasks \ {t}) \cup {[t EXCEPT !.pc = pc]}
SessionAnswered(t) ==
    /\ t \in tasks /\ t.kind = "session" /\ t.pc = "ask"
    /\ AccountBecomes(t.who, Goes(t, "store")) /\ accessDenied' = FALSE
    /\ UNCHANGED <<subject, opening, device>> /\ UNCHANGED sessionActs
\* Mutant: the user is kept on the device only when the cache of an earlier start is gone.
SessionStoredLate(t) ==
    /\ t \in tasks /\ t.kind = "session" /\ t.pc = "store"
    /\ device' = IF account = t.who THEN device ELSE device \cup {<<"session", t.who>>}
    /\ opening' = FALSE
    /\ tasks' = Goes(t, "register") /\ AccountStays /\ UNCHANGED <<subject, accessDenied, sessionActs>>
\* The user is kept on the device; loading ends; the push registration goes on by itself.
SessionStored(t) ==
    /\ t \in tasks /\ t.kind = "session" /\ t.pc = "store"
    /\ device' = device \cup {<<"session", t.who>>} /\ opening' = FALSE
    /\ tasks' = Goes(t, "register") /\ AccountStays /\ UNCHANGED <<subject, accessDenied, sessionActs>>
DeviceRegistered(t, ok) ==
    /\ t \in tasks /\ t.pc = "register" /\ tasks' = tasks \ {t}
    /\ device' = IF ok THEN device \cup {<<"token", NoPerson>>} ELSE device
    /\ AccountStays /\ UNCHANGED <<subject, opening, accessDenied, sessionActs>>
\* The call failed and the cached user is read (a local read: nothing comes between it and
\* what is done with it).
SessionRefused(t) ==
    /\ t \in tasks /\ t.kind = "session" /\ t.pc = "ask"
    /\ tasks' = (tasks \ {t}) \cup {[t EXCEPT !.pc = "denied", !.seen = <<"session", t.who>> \in device]}
    /\ AccountStays /\ UNCHANGED <<subject, opening, accessDenied, device, sessionActs>>
\* canUseCachedSession: a server that cannot be reached leaves the cached user signed in.
SessionFailed(t, down) ==
    /\ t \in tasks /\ t.kind = "session" /\ t.pc = "ask"
    /\ AccountBecomes(IF down /\ <<"session", t.who>> \in device THEN t.who ELSE NoPerson, tasks \ {t})
    /\ opening' = FALSE /\ UNCHANGED <<subject, accessDenied, device, sessionActs>>
\* isSessionAccessDenied: the person's authored state goes, then the keys, then the user.
DeniedClears(t) ==
    /\ t \in tasks /\ t.pc = "denied"
    /\ LET target == IF t.seen THEN t.who ELSE IF account # NoPerson THEN account ELSE lastUser
       IN  /\ device' = device \ AuthoredBy(target)
           /\ tasks' = (tasks \ {t}) \cup {[t EXCEPT !.pc = "deny", !.cleans = target]}
    /\ AccountStays /\ UNCHANGED <<subject, opening, accessDenied, sessionActs>>
RemovedKeys(t, who) == {<<"token", NoPerson>>, <<"session", who>>, <<"spaces", t.cleans>>}
DeniedEnds(t) ==
    /\ t \in tasks /\ t.pc = "deny"
    /\ device' = device \ RemovedKeys(t, t.who)
    /\ AccountBecomes(NoPerson, tasks \ {t}) /\ accessDenied' = TRUE /\ opening' = FALSE
    /\ UNCHANGED <<subject, sessionActs>>

(***************************************************************************)
(* signOut, with the user captured when it was pressed.                    *)
(***************************************************************************)
SignOutForgets(t) ==
    /\ t \in tasks /\ t.kind = "signOut" /\ t.pc = "unregister"
    /\ LET target == CASE t.who # NoPerson -> t.who
                       [] lastUser # NoPerson -> lastUser
                       [] <<"session", subject>> \in device -> subject
                       [] OTHER -> NoPerson
       IN  /\ device' = device \ AuthoredBy(target)
           /\ tasks' = (tasks \ {t}) \cup {[t EXCEPT !.pc = "remove", !.cleans = target]}
    /\ AccountStays /\ UNCHANGED <<subject, opening, accessDenied, sessionActs>>
SignOutRemoves(t) ==
    /\ t \in tasks /\ t.pc = "remove"
    /\ device' = device \ RemovedKeys(t, subject) /\ tasks' = Goes(t, "clerk")
    /\ AccountStays /\ UNCHANGED <<subject, opening, accessDenied, sessionActs>>
\* auth.signOut, and the refresh of the effect that follows it.
SignOutEnds(t) ==
    /\ t \in tasks /\ t.pc = "clerk"
    /\ subject' = NoPerson /\ account' = NoPerson /\ lastUser' = NoPerson /\ spacesOf' = NoPerson
    /\ opening' = FALSE /\ spacesLoading' = FALSE /\ accessDenied' = FALSE
    /\ tasks' = tasks \ {t} /\ UNCHANGED <<device, sessionActs>>

(***************************************************************************)
(* refresh of the workspaces.                                              *)
(***************************************************************************)
SpacesAnswered(t) ==
    /\ t \in tasks /\ t.kind = "spaces" /\ t.pc = "ask"
    /\ spacesOf' = t.who /\ tasks' = Goes(t, "storeSpaces")
    /\ UNCHANGED <<subject, account, opening, accessDenied, lastUser, device, spacesLoading, sessionActs>>
SpacesStored(t) ==
    /\ t \in tasks /\ t.pc = "storeSpaces"
    /\ device' = device \cup {<<"spaces", t.who>>} /\ spacesLoading' = FALSE /\ tasks' = tasks \ {t}
    /\ UNCHANGED <<subject, account, opening, accessDenied, lastUser, spacesOf, sessionActs>>
SpacesFailed(t) ==
    /\ t \in tasks /\ t.kind = "spaces" /\ t.pc = "ask"
    /\ spacesOf' = IF <<"spaces", t.who>> \in device THEN t.who ELSE spacesOf
    /\ spacesLoading' = FALSE /\ tasks' = tasks \ {t}
    /\ UNCHANGED <<subject, account, opening, accessDenied, lastUser, device, sessionActs>>

SessionReplies(t) ==
    \/ SessionAnswered(t) \/ SessionStored(t) \/ SessionRefused(t) \/ DeniedClears(t) \/ DeniedEnds(t)
    \/ SignOutForgets(t) \/ SignOutRemoves(t) \/ SignOutEnds(t)
    \/ SpacesAnswered(t) \/ SpacesStored(t) \/ SpacesFailed(t)
    \/ \E ok \in BOOLEAN: DeviceRegistered(t, ok) \/ SessionFailed(t, ok)
SessionNext ==
    \/ \E who \in People: SignIn(who)
    \/ Refresh \/ PressSignOut \/ Author \/ RefreshSpaces
    \/ \E t \in tasks: SessionReplies(t)
SessionFairness == WF_sessionVars(\E t \in tasks: SessionReplies(t))
SessionSpec == SessionInit /\ [][SessionNext]_sessionVars /\ SessionFairness

(***************************************************************************)
(* Properties.                                                             *)
(***************************************************************************)
\* The person the app shows is kept on the device for the next start without a network: once
\* no call that stores or removes it is under way, the user of the open app is the cached one.
AccountIsCached ==
    (Gate = "app" /\ account = subject /\ \A t \in tasks: t.kind = "spaces" \/ t.pc = "register")
        => <<"session", account>> \in device
\* Neither provider's loading screen stays: however refreshes, sign-outs and failures
\* overlap, both flags are lifted again.
SessionSettles == []<>(~opening /\ ~spacesLoading)
=============================================================================
