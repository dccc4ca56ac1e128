----------------------------- MODULE ApiClient -----------------------------
(***************************************************************************)
(* The web client's way to the server: fetchApi with its attempts, its     *)
(* token refresh and its cache in local storage (web/src/lib/api.ts), the  *)
(* session it carries (contexts/AuthContext.tsx), and the screens that     *)
(* stand before the application: sign-in, access denied, community         *)
(* standards (ProtectedRoute.tsx, SignIn.tsx, CommunityStandardsGate.tsx). *)
(*                                                                         *)
(* One browser and one person.  A call of fetchApi is a record that lives  *)
(* from the call to the moment its caller takes the result.  What a read   *)
(* returns is the server's version number, which every write raises.       *)
(***************************************************************************)
EXTENDS Integers, FiniteSets

CONSTANTS MaxCalls,   \* bound on the calls made
          MaxChanges  \* bound on sign-ins, sign-outs, invitations, writes of others
ASSUME ApiAssumption == MaxCalls \in Nat \ {0} /\ MaxChanges \in Nat

VARIABLES signedIn,      \* Clerk's isSignedIn
          cacheScope,    \* apiCacheScope is set
          cache,         \* {} or {the version kept for the scope}
          me,            \* AuthContext's user: {} or {[accepted |-> BOOLEAN]}
          isLoading, accessRefused,
          gateSaving,    \* the community standards screen is saving
          apiCalls, made,
          invited, accepted, version, changes   \* the server's side
apiVars == <<signedIn, cacheScope, cache, me, isLoading, accessRefused, gateSaving,
             apiCalls, made, invited, accepted, version, changes>>
authVars == <<signedIn, cacheScope, me, isLoading, accessRefused, gateSaving>>
serverVars == <<invited, accepted, version, changes>>

\* What a call is for: a read that may be cached, a read that may not, a write
\* of a page, the session, the acceptance of the community standards and the
\* session after it.
Reads == {"read", "helpRead"}
Sessions == {"session", "resync"}
CanUseCache(c) == c.for = "read" /\ c.scope
MaxAttempts(c) == IF c.for \in Reads THEN 3 ELSE 2

\* fetchApi up to the first await.
Started(for, id) ==
    [id |-> id, for |-> for, scope |-> cacheScope, since |-> version, attempt |-> 1,
     step |-> "token", retried401 |-> FALSE, token |-> FALSE,
     status |-> "none", value |-> 0, error |-> FALSE, fromCache |-> FALSE, executed |-> 0]
Fetch(for) ==
    /\ made < MaxCalls /\ made' = made + 1
    /\ apiCalls' = apiCalls \cup {Started(for, made)}
Becomes(c, d) == apiCalls' = (apiCalls \ {c}) \cup {d}
Done(c, d) == Becomes(c, [d EXCEPT !.step = "done", !.attempt = 1, !.token = FALSE, !.retried401 = FALSE])

(***************************************************************************)
(* The routes: what the browser ends up showing.                           *)
(***************************************************************************)
Screen ==
    CASE isLoading -> "loading"
      [] ~isLoading /\ ~signedIn -> "signIn"
      [] ~isLoading /\ signedIn /\ accessRefused -> "denied"
      [] ~isLoading /\ signedIn /\ ~accessRefused /\ me = {} -> "noAccount"
      [] ~isLoading /\ signedIn /\ ~accessRefused /\ me = {[accepted |-> FALSE]} -> "gate"
      [] OTHER -> "app"

ApiInit ==
    /\ signedIn = TRUE /\ cacheScope = TRUE /\ cache \in {{}, {0}}
    /\ me = {} /\ isLoading = TRUE /\ accessRefused = FALSE /\ gateSaving = FALSE
    /\ invited \in BOOLEAN /\ accepted \in BOOLEAN
    /\ version = 0 /\ changes = 0 /\ made = 1
    /\ apiCalls = {Started("session", 0)}

\* A page of the application reads or writes.
PageCalls(for) ==
    /\ Screen = "app" /\ for \in Reads \cup {"write"}
    /\ Fetch(for)
    /\ UNCHANGED <<authVars, serverVars, cache>>
\* handleRetry, handleCheckAccess: syncSession clears the refusal and asks again.
SyncSession ==
    /\ Screen \in {"noAccount", "denied"}
    /\ accessRefused' = FALSE
    /\ Fetch("session")
    /\ UNCHANGED <<signedIn, cacheScope, me, isLoading, gateSaving, serverVars, cache>>
\* accept() of the community standards screen.
Accept ==
    /\ Screen = "gate" /\ ~gateSaving
    /\ gateSaving' = TRUE
    /\ Fetch("accept")
    /\ UNCHANGED <<signedIn, cacheScope, me, isLoading, accessRefused, serverVars, cache>>
\* The effects of a sign-out: the scope's cache is cleared, the user is dropped.
SignOut ==
    /\ signedIn /\ ~isLoading
    /\ changes < MaxChanges /\ changes' = changes + 1
    /\ signedIn' = FALSE /\ cacheScope' = FALSE /\ cache' = {}
    /\ me' = {} /\ accessRefused' = FALSE /\ gateSaving' = FALSE
    /\ UNCHANGED <<isLoading, apiCalls, made, invited, accepted, version>>
\* The effects of a sign-in; isLoading stays as it is.
SignInAs ==
    /\ ~signedIn /\ changes < MaxChanges /\ changes' = changes + 1
    /\ signedIn' = TRUE /\ cacheScope' = TRUE /\ accessRefused' = FALSE
    /\ Fetch("session")
    /\ UNCHANGED <<cache, me, isLoading, gateSaving, invited, accepted, version>>
\* Staff put the person on the class list or archive the account.
Invite ==
    /\ changes < MaxChanges /\ changes' = changes + 1
    /\ invited' = ~invited
    /\ UNCHANGED <<authVars, cache, apiCalls, made, accepted, version>>
\* Somebody else's write.
SavedElsewhere ==
    /\ changes < MaxChanges /\ changes' = changes + 1
    /\ version' = version + 1
    /\ UNCHANGED <<authVars, cache, apiCalls, made, invited, accepted>>
\* The entry grows older than CACHE_MAX_AGE_MS.
Expires ==
    /\ cache # {} /\ changes < MaxChanges /\ changes' = changes + 1
    /\ cache' = {}
    /\ UNCHANGED <<authVars, apiCalls, made, invited, accepted, version>>

(***************************************************************************)
(* One attempt: the token, the request at the server, and how it ended:    *)
(* ok, empty (204 or no body), 401, transient (429, 5xx, a network error   *)
(* or no answer within REQUEST_TIMEOUT_MS: fetchApi treats them alike),    *)
(* timeout (408), refused (other statuses).                                *)
(***************************************************************************)
TokenGot(c) ==
    /\ c.step = "token"
    /\ Becomes(c, [c EXCEPT !.step = "sent", !.token = signedIn])
    /\ UNCHANGED <<authVars, serverVars, cache, made>>
\* The server runs the request: writes take effect.
Executed(c, status) ==
    /\ accepted' = (accepted \/ c.for = "accept")
    /\ version' = IF c.for = "write" THEN version + 1 ELSE version
    /\ Becomes(c, [c EXCEPT !.step = "answered", !.status = status, !.executed = @ + 1,
                            !.value = CASE c.for \in Sessions -> IF accepted THEN 1 ELSE 0
                                        [] OTHER -> version])
    /\ UNCHANGED <<authVars, cache, made, invited, changes>>
Serve(c) ==
    /\ c.step = "sent" /\ c.token /\ invited
    /\ \E status \in {"ok", "transient"} \cup (IF c.for = "write" THEN {"empty"} ELSE {}) :
          Executed(c, status)
\* A request that is not run: no or an old token, a refusal, an overload, or
\* it never arrives.
NotServed(c, status) ==
    /\ c.step = "sent"
    /\ status = "refused" => c.token /\ (~invited \/ c.for = "write")
    /\ Becomes(c, [c EXCEPT !.step = "answered", !.status = status])
    /\ UNCHANGED <<authVars, serverVars, cache, made>>

RetryUnauthorized(c) == c.status = "401" /\ ~c.retried401 /\ c.attempt < MaxAttempts(c)
\* Mutant: a write is tried again like a read.
RetryAnything(c) == c.status = "transient" /\ c.attempt < MaxAttempts(c)
RetryTransient(c) == c.for \in Reads /\ c.status = "transient" /\ c.attempt < MaxAttempts(c)
\* readCachedResponse with the error of the attempt.
FallsBack(c) ==
    \E v \in cache : Done(c, [c EXCEPT !.value = v, !.error = TRUE, !.fromCache = TRUE])
\* What fetchApi does with the end of an attempt.
Settle(c) ==
    /\ c.step = "answered"
    /\ \/ /\ RetryUnauthorized(c) \/ RetryTransient(c)
          /\ Becomes(c, [c EXCEPT !.step = "waiting", !.status = "none",
                                  !.retried401 = @ \/ c.status = "401", !.token = FALSE])
          /\ UNCHANGED cache
       \/ /\ ~RetryUnauthorized(c) /\ ~RetryTransient(c)
          /\ CASE c.status \in {"ok", "empty"} ->
                    /\ Done(c, c)
                    /\ cache' = IF CanUseCache(c) /\ c.status = "ok" THEN {c.value} ELSE cache
               [] OTHER ->
                    /\ UNCHANGED cache
                    /\ IF CanUseCache(c) /\ c.status \in {"transient", "timeout"} /\ cache # {}
                       THEN FallsBack(c)
                       ELSE Done(c, [c EXCEPT !.error = TRUE])
    /\ UNCHANGED <<authVars, serverVars, made>>
\* waitForRetry is over.
RetryTimer(c) ==
    /\ c.step = "waiting"
    /\ Becomes(c, [c EXCEPT !.step = "token", !.attempt = @ + 1])
    /\ UNCHANGED <<authVars, serverVars, cache, made>>

(***************************************************************************)
(* The callers take the results.                                           *)
(***************************************************************************)
PageTakes(c) ==
    /\ c.step = "done" /\ c.for \in Reads \cup {"write"}
    /\ apiCalls' = apiCalls \ {c}
    /\ UNCHANGED <<authVars, serverVars, cache, made>>
SessionRead(c) ==
    /\ me' = IF c.error THEN {} ELSE {[accepted |-> c.value = 1]}
    /\ accessRefused' = IF c.error THEN c.status = "refused" ELSE accessRefused
    /\ cache' = IF c.status = "refused" /\ cacheScope THEN {} ELSE cache
\* syncSession after its await.
SyncAnswered(c) ==
    /\ c.step = "done" /\ c.for \in Sessions
    /\ SessionRead(c)
    /\ isLoading' = FALSE
    /\ gateSaving' = (gateSaving /\ c.for # "resync" /\ me' # {})
    /\ apiCalls' = apiCalls \ {c}
    /\ UNCHANGED <<signedIn, cacheScope, serverVars, made>>
\* accept() after its await: an error is shown, or the session is read again.
AcceptAnswered(c) ==
    /\ c.step = "done" /\ c.for = "accept"
    /\ IF c.error
       THEN apiCalls' = apiCalls \ {c} /\ gateSaving' = FALSE /\ UNCHANGED accessRefused
       ELSE Becomes(c, Started("resync", c.id)) /\ accessRefused' = FALSE /\ UNCHANGED gateSaving
    /\ UNCHANGED <<signedIn, cacheScope, me, isLoading, serverVars, cache, made>>

ApiStep(c) ==
    \/ TokenGot(c) \/ Serve(c) \/ Settle(c) \/ RetryTimer(c)
    \/ \E status \in {"401", "transient", "timeout", "refused"} : NotServed(c, status)
    \/ PageTakes(c) \/ SyncAnswered(c) \/ AcceptAnswered(c)
ApiNext ==
    \/ \E for \in Reads \cup {"write"} : PageCalls(for)
    \/ SyncSession \/ Accept \/ SignOut \/ SignInAs \/ Invite \/ SavedElsewhere \/ Expires
    \/ \E c \in apiCalls : ApiStep(c)
ApiFairness == WF_apiVars(\E c \in apiCalls : ApiStep(c))
ApiSpec == ApiInit /\ [][ApiNext]_apiVars /\ ApiFairness

(***************************************************************************)
(* However often a write is attempted, the server runs it at most once,    *)
(* and a write reported as done was run: it is only repeated after a 401,  *)
(* by which the server says it did not run it.  (A write reported as       *)
(* failed may have been run.)                                              *)
(***************************************************************************)
WriteOnce ==
    \A c \in apiCalls : c.for \in {"write", "accept"} =>
       c.executed <= 1 /\ (c.step = "done" /\ ~c.error => c.executed = 1)

(***************************************************************************)
(* A read that returns without an error is as new as its call: saved data  *)
(* of the cache is only ever returned together with the error.             *)
(***************************************************************************)
ReadHonest ==
    \A c \in apiCalls : c.step = "done" /\ c.for \in Reads /\ ~c.error => c.value >= c.since

(***************************************************************************)
(* Nobody is in the application whose acceptance of the community          *)
(* standards the server has not recorded, whatever order sign-ins, failed  *)
(* acceptances, retries and late session answers come in.                  *)
(***************************************************************************)
AppMeansAccepted == Screen = "app" => accepted

\* A write runs at most once and exactly once when it is reported done, a read is
\* never older than its call, and the application opens only to those who accepted
\* the standards (fetchApi with its retries and its cache, the two gates).
CallsSound == WriteOnce /\ ReadHonest /\ AppMeansAccepted
=============================================================================
