----------------------------- MODULE LiveSocket -----------------------------
(***************************************************************************)
(* One subscription of a client to the server's live updates: subscribe    *)
(* of web/src/lib/realtime.ts and subscribeToUserMessages of               *)
(* mobile/src/lib/cable.ts.  Both ask for a token, open a WebSocket,       *)
(* subscribe, and come back through a timer when anything fails, until the *)
(* page that subscribed is left.                                           *)
(*                                                                         *)
(* Token calls, sockets and timers are counted, so that two of them at     *)
(* once are a state of the model.  The back-off delays are left out: a     *)
(* timer fires at some time after it is set.                               *)
(***************************************************************************)
EXTENDS Naturals

CONSTANTS MaxSockets,  \* bound: sockets opened in a behaviour
          MaxRefusals  \* bound: token calls, handshakes and subscriptions that fail

ASSUME SocketAssumption == MaxRefusals \in Nat /\ MaxSockets \in Nat /\ MaxSockets > MaxRefusals

VARIABLES platform,   \* which of the two clients runs
          listening,  \* the page's effect has not been cleaned up
          closing,    \* closing of the web client, cancelled of the mobile one
          resolved,   \* the web's subscribe has returned its unsubscribe
          calls,      \* token calls under way
          timers,     \* reconnect timers set
          sockets,    \* [1 .. MaxSockets -> SocketState]
          feedStatus, \* the last status reported to the page
          refusals    \* failures so far

socketVars == <<platform, listening, closing, resolved, calls, timers, sockets,
                feedStatus, refusals>>

SocketState == {"unused", "connecting", "open", "subscribed", "rejected", "closed"}
LiveState == {"connecting", "open", "subscribed", "rejected"}
SocketIds == 1 .. MaxSockets
Live == {s \in SocketIds : sockets[s] \in LiveState}

Report(status) == feedStatus' = status

(***************************************************************************)
(* scheduleReconnect: the web client keeps a timer that is already set,    *)
(* the mobile client sets another one.                                     *)
(***************************************************************************)
ScheduleReconnect ==
    timers' = IF closing \/ (platform = "web" /\ timers > 0) THEN timers ELSE timers + 1

SocketInit ==
    /\ platform \in {"web", "mobile"}
    /\ listening = TRUE /\ closing = FALSE
    /\ resolved = (platform = "mobile")
    /\ calls = 1 /\ timers = 0 /\ refusals = 0
    /\ sockets = [s \in SocketIds |-> "unused"]
    /\ feedStatus = "connecting"

\* The page was left before the web's subscribe returned: the unsubscribe it
\* returns is then called at once.
CleanupDue == ~listening /\ ~closing
ConnectReturns ==
    /\ resolved' = TRUE
    /\ closing' = (closing \/ CleanupDue)

\* connect, after its token call was refused.  The web client reports it even
\* when it is closing; the mobile client returns first.
TokenRefused ==
    /\ calls > 0 /\ refusals < MaxRefusals
    /\ refusals' = refusals + 1
    /\ calls' = calls - 1
    /\ IF platform = "mobile" /\ closing
       THEN UNCHANGED <<timers, feedStatus>>
       ELSE Report("error") /\ (IF CleanupDue THEN timers' = 0 ELSE ScheduleReconnect)
    /\ ConnectReturns
    /\ UNCHANGED <<platform, listening, sockets>>

\* connect, after its token call was answered.
TokenIssuedUnchecked ==
    /\ calls > 0
    /\ calls' = calls - 1
    /\ \E s \in SocketIds :
          /\ sockets[s] = "unused" /\ \A r \in 1 .. s - 1 : sockets[r] # "unused"
          /\ sockets' = [sockets EXCEPT ![s] = "connecting"]
    /\ ConnectReturns
    /\ UNCHANGED <<platform, listening, timers, refusals, feedStatus>>
TokenIssued ==
    /\ calls > 0
    /\ calls' = calls - 1
    /\ IF closing
       THEN /\ IF platform = "web" THEN Report("error") ELSE UNCHANGED feedStatus
            /\ UNCHANGED sockets
       ELSE \E s \in SocketIds :
               /\ sockets[s] = "unused" /\ \A r \in 1 .. s - 1 : sockets[r] # "unused"
               /\ sockets' = [sockets EXCEPT ![s] = IF CleanupDue THEN "closed" ELSE "connecting"]
               /\ UNCHANGED feedStatus
    /\ ConnectReturns
    /\ UNCHANGED <<platform, listening, timers, refusals>>

SocketOpened(s) ==
    /\ sockets[s] = "connecting"
    /\ sockets' = [sockets EXCEPT ![s] = IF closing /\ platform = "web" THEN "closed" ELSE "open"]
    /\ UNCHANGED <<platform, listening, closing, resolved, calls, timers, feedStatus, refusals>>

SubscriptionConfirmed(s) ==
    /\ sockets[s] = "open"
    /\ sockets' = [sockets EXCEPT ![s] = "subscribed"]
    /\ Report("connected")
    /\ UNCHANGED <<platform, listening, closing, resolved, calls, timers, refusals>>

RejectionRetried(s) ==
    /\ sockets[s] = "open" /\ refusals < MaxRefusals
    /\ refusals' = refusals + 1
    /\ sockets' = [sockets EXCEPT ![s] = "rejected"]
    /\ Report("error") /\ ScheduleReconnect
    /\ UNCHANGED <<platform, listening, closing, resolved, calls>>
\* Only the web client looks at a rejection; neither closes the socket.
SubscriptionRejected(s) ==
    /\ sockets[s] = "open" /\ refusals < MaxRefusals
    /\ refusals' = refusals + 1
    /\ sockets' = [sockets EXCEPT ![s] = "rejected"]
    /\ IF platform = "web" THEN Report("error") ELSE UNCHANGED feedStatus
    /\ UNCHANGED <<platform, listening, closing, resolved, calls, timers>>

\* The server or the network closes the socket.
SocketClosed(s) ==
    /\ sockets[s] \in LiveState /\ refusals < MaxRefusals
    /\ refusals' = refusals + 1
    /\ sockets' = [sockets EXCEPT ![s] = "closed"]
    /\ IF closing THEN UNCHANGED <<timers, feedStatus>>
       ELSE Report("disconnected") /\ ScheduleReconnect
    /\ UNCHANGED <<platform, listening, closing, resolved, calls>>

ReconnectFires ==
    /\ timers > 0
    /\ timers' = timers - 1
    /\ calls' = calls + 1
    /\ IF platform = "mobile" THEN Report("connecting") ELSE UNCHANGED feedStatus
    /\ UNCHANGED <<platform, listening, closing, resolved, sockets, refusals>>

\* The page is left.  unsubscribe clears the timer and closes the socket.
LeavePage ==
    /\ listening
    /\ listening' = FALSE
    /\ closing' = resolved
    /\ sockets' = IF resolved THEN [s \in SocketIds |-> IF s \in Live THEN "closed" ELSE sockets[s]]
                  ELSE sockets
    /\ timers' = IF resolved THEN 0 ELSE timers
    /\ UNCHANGED <<platform, resolved, calls, feedStatus, refusals>>

SocketStep ==
    \/ TokenRefused \/ TokenIssued \/ ReconnectFires
    \/ \E s \in SocketIds : SocketOpened(s) \/ SubscriptionConfirmed(s)
SocketNext ==
    \/ SocketStep \/ LeavePage
    \/ \E s \in SocketIds : SubscriptionRejected(s) \/ SocketClosed(s)
SocketFairness == WF_socketVars(SocketStep)
SocketSpec == SocketInit /\ [][SocketNext]_socketVars /\ SocketFairness

SocketTypeOK ==
    /\ platform \in {"web", "mobile"}
    /\ {listening, closing, resolved} \subseteq BOOLEAN
    /\ {calls, timers, refusals} \subseteq Nat
    /\ sockets \in [SocketIds -> SocketState]
    /\ feedStatus \in {"connecting", "connected", "disconnected", "error"}

(***************************************************************************)
(* A subscription never has two lines to the server, open or being opened: *)
(* a token call, a timer and a live socket exclude each other (connect,    *)
(* scheduleReconnect).  Two of them would deliver every event twice.       *)
(***************************************************************************)
OneLine ==
    /\ calls + timers <= 1
    /\ Live # {} => calls + timers = 0
    /\ \A s, t \in Live : s = t

(***************************************************************************)
(* A page that was left, at any moment of connecting or reconnecting, ends *)
(* with no socket, timer or token call (unsubscribe, the checks of closing *)
(* and cancelled).                                                         *)
(***************************************************************************)
LineReleased == <>[](listening \/ (Live = {} /\ timers = 0 /\ calls = 0))
=============================================================================
