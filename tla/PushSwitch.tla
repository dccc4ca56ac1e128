------------------------------ MODULE PushSwitch ------------------------------
(***************************************************************************)
(* Turning notifications on and off in the browser                         *)
(* (web/src/lib/pushNotifications.ts): the buttons of the announcements    *)
(* and messages pages, the switch of the profile page, and the refresh of  *)
(* the subscription that every page load starts (Layout.tsx), over the     *)
(* server's preference and its subscription rows                           *)
(* (push_subscriptions_controller.rb).                                     *)
(***************************************************************************)
EXTENDS Integers, FiniteSets

CONSTANT MaxSwitchActs   \* bound on what the user presses
ASSUME SwitchAssumption == MaxSwitchActs \in Nat

VARIABLES pref,        \* message_email_notifications_enabled
          pushRows,    \* the devices the server has a subscription of
          browserSub,  \* this browser's subscription: "none", "old" (another key), "current"
          permission,  \* Notification.permission; "unsupported" without the push interfaces
          pushPage,      \* the page that is open: "updates", "messages", "profile"
          shownOn,     \* pushEnabled / emailNotificationsEnabled
          loaded,      \* the profile's switch: "loading", "known", "error"
          pushNote,    \* pushMessage, "" for none
          savingPref,  \* savingNotifications
          flows,       \* calls under way: [n, kind, pc, sub: the subscription the call holds]
          presses, refreshed
pushVars == <<pref, pushRows, browserSub, permission, pushPage, shownOn, loaded, pushNote, savingPref, flows, presses, refreshed>>
serverSide == <<pref, pushRows>>
browserSide == <<browserSub, permission>>
pageSide == <<shownOn, loaded, pushNote, savingPref>>

PushInit ==
    /\ pref \in BOOLEAN /\ pushRows \in {{}, {"other"}, {"this", "other"}} /\ browserSub \in {"none", "old", "current"}
    /\ permission \in {"default", "granted", "unsupported"} /\ (browserSub # "none" => permission = "granted")
    /\ ("this" \in pushRows => browserSub # "none")
    /\ pushPage \in {"updates", "messages", "profile"}
    /\ shownOn = FALSE /\ loaded = "loading"
    /\ flows = {[n |-> 1, kind |-> "look", pc |-> "look", sub |-> "none"]}
    /\ pushNote = "" /\ savingPref = FALSE /\ presses = 0 /\ refreshed = FALSE

FlowNumber == CHOOSE n \in 1 .. Cardinality(flows) + 1: \A f \in flows: f.n # n
Begun(kind, pc) == flows' = flows \cup {[n |-> FlowNumber, kind |-> kind, pc |-> pc, 
                                       sub |-> IF kind = "off" THEN browserSub ELSE "none"]}
GoesTo(f, pc) == flows' = (flows \ {f}) \cup {[f EXCEPT !.pc = pc]}
Ended(f) == flows' = flows \ {f}
Quiet == UNCHANGED <<pushPage, presses, refreshed>>
Pressed == presses < MaxSwitchActs /\ presses' = presses + 1 /\ UNCHANGED <<pushPage, refreshed>>
           /\ UNCHANGED serverSide /\ UNCHANGED browserSide
\* The bell button of the two pages; the profile's switch, once the preference is known.
PushOffered == pushPage # "profile"
SwitchOffered == pushPage = "profile" /\ loaded = "known" /\ ~savingPref
\* handleTogglePush of either page: there is no guard against a second press.
TogglePush ==
    /\ PushOffered /\ Pressed /\ pushNote' = ""
    /\ IF shownOn THEN Begun("off", "delete")
       ELSE Begun("on", IF pushPage = "messages" THEN "prefer" ELSE "config")
    /\ UNCHANGED <<shownOn, loaded, savingPref>>
ToggleEmail ==
    /\ SwitchOffered /\ Pressed
    /\ savingPref' = TRUE /\ Begun("email", IF shownOn THEN "turnOff" ELSE "turnOn")
    /\ UNCHANGED <<shownOn, loaded, pushNote>>
RetryPreference ==
    /\ pushPage = "profile" /\ loaded = "error" /\ Pressed
    /\ loaded' = "loading" /\ Begun("look", "look")
    /\ UNCHANGED <<shownOn, pushNote, savingPref>>
\* Layout's effect, once per load: only with permission granted.
LayoutLoads ==
    /\ ~refreshed /\ refreshed' = TRUE /\ permission = "granted" /\ Begun("refresh", "config")
    /\ UNCHANGED <<pushPage, presses>> /\ UNCHANGED serverSide /\ UNCHANGED browserSide /\ UNCHANGED pageSide

(***************************************************************************)
(* What a page shows at first: the announcements page asks the browser,    *)
(* the profile the server, the messages page the server and, failing that, *)
(* the browser. The answer may arrive after a press.                       *)
(***************************************************************************)
LooksInBrowser(ok) == pushPage = "updates" \/ (pushPage = "messages" /\ ~ok)
PageLooks(f, ok) ==
    /\ f \in flows /\ f.pc = "look" /\ Quiet
    /\ GoesTo(f, CASE LooksInBrowser(ok) -> IF browserSub # "none" THEN "on" ELSE "off"
                   [] OTHER -> IF ~ok THEN "failed" ELSE IF pref THEN "on" ELSE "off")
    /\ UNCHANGED serverSide /\ UNCHANGED browserSide /\ UNCHANGED pageSide
PageLooked(f) ==
    /\ f \in flows /\ f.kind = "look" /\ f.pc # "look" /\ Quiet /\ Ended(f)
    /\ IF f.pc = "failed" THEN loaded' = "error" /\ UNCHANGED shownOn
       ELSE shownOn' = (f.pc = "on") /\ loaded' = "known"
    /\ UNCHANGED <<pushNote, savingPref>> /\ UNCHANGED serverSide /\ UNCHANGED browserSide

\* How a call ends on the page: with a message, except for the refresh.
Tells(f, note) ==
    /\ Ended(f)
    /\ pushNote' = IF f.kind = "refresh" THEN pushNote ELSE note
    /\ UNCHANGED <<loaded, savingPref>>
\* The call goes on and the page shows nothing of it.
FlowContinues(f, pc) == GoesTo(f, pc) /\ UNCHANGED <<loaded, pushNote, savingPref>>

(***************************************************************************)
(* disablePushNotifications: every row of the user goes, the preference    *)
(* with them; then this browser's subscription.                            *)
(***************************************************************************)
RowDeleted(f, ok) ==
    /\ f \in flows /\ f.pc = "delete" /\ Quiet /\ UNCHANGED browserSide /\ UNCHANGED shownOn
    /\ IF ok THEN /\ pref' = FALSE /\ pushRows' = {} /\ FlowContinues(f, "unsubscribe")
       ELSE Tells(f, "error") /\ UNCHANGED serverSide
Unsubscribed(f) ==
    /\ f \in flows /\ f.pc = "unsubscribe" /\ Quiet /\ UNCHANGED <<serverSide, permission>>
    /\ browserSub' = IF f.sub = "none" THEN browserSub ELSE "none"
    /\ shownOn' = FALSE /\ Tells(f, "off")

(***************************************************************************)
(* enablePushNotifications and refreshExistingPushSubscription.            *)
(***************************************************************************)
\* updateMessageNotifications(true), on the messages page: it shows on from here.
PreferenceAnswered(f, ok) ==
    /\ f \in flows /\ f.pc = "prefer" /\ Quiet /\ UNCHANGED browserSide /\ UNCHANGED pushRows
    /\ IF ok THEN /\ pref' = TRUE /\ shownOn' = TRUE
               /\ IF permission = "unsupported" THEN Tells(f, "unsupported") ELSE FlowContinues(f, "config")
       ELSE Tells(f, "error") /\ UNCHANGED <<pref, shownOn>>
\* getPushConfig: the refresh goes on only if notifications are enabled.
ConfigAnswered(f, answer) ==
    /\ f \in flows /\ f.pc = "config" /\ Quiet
    /\ UNCHANGED serverSide /\ UNCHANGED browserSide /\ UNCHANGED shownOn
    /\ CASE answer = "keys" /\ f.kind = "on" -> FlowContinues(f, "permission")
         [] answer = "keys" /\ f.kind = "refresh" /\ pref -> FlowContinues(f, "existing")
         [] OTHER -> Tells(f, answer)
\* refreshExistingPushSubscription does nothing without a subscription.
ExistingRead(f) ==
    /\ f \in flows /\ f.pc = "existing" /\ Quiet /\ UNCHANGED serverSide /\ UNCHANGED browserSide /\ UNCHANGED shownOn
    /\ IF browserSub = "none" THEN Tells(f, "") ELSE FlowContinues(f, "subscribe")
PermissionAnswered(f, granted) ==
    /\ f \in flows /\ f.pc = "permission" /\ Quiet /\ UNCHANGED <<serverSide, browserSub, shownOn>>
    /\ (permission = "granted" => granted) /\ (permission \in {"denied", "unsupported"} => ~granted)
    /\ permission' = IF permission = "default" THEN IF granted THEN "granted" ELSE "denied" ELSE permission
    /\ IF granted THEN FlowContinues(f, "subscribe") ELSE Tells(f, "denied")
\* subscribeWithPublicKey: a subscription made with another key is dropped first, on the
\* server (whatever it answers) and then in the browser.
SubscribeStep(f, ok) ==
    /\ f \in flows /\ f.pc = "subscribe" /\ Quiet /\ UNCHANGED <<pref, permission, shownOn>>
    /\ CASE browserSub = "current" -> ok /\ FlowContinues(f, "save") /\ UNCHANGED <<pushRows, browserSub>>
         [] browserSub = "old" -> /\ pushRows' = IF ok THEN pushRows \ {"this"} ELSE pushRows
                                  /\ FlowContinues(f, "replace") /\ UNCHANGED browserSub
         [] OTHER -> /\ browserSub' = IF ok THEN "current" ELSE "none"
                     /\ IF ok THEN FlowContinues(f, "save") ELSE Tells(f, "error")
                     /\ UNCHANGED pushRows
OldDropped(f) ==
    /\ f \in flows /\ f.pc = "replace" /\ Quiet /\ UNCHANGED <<serverSide, permission, shownOn>>
    /\ browserSub' = IF browserSub = "old" THEN "none" ELSE browserSub
    /\ FlowContinues(f, "subscribe")
\* saveSubscription: create saves the row and turns the preference on.
RowSaved(f, ok) ==
    /\ f \in flows /\ f.pc = "save" /\ Quiet /\ UNCHANGED browserSide
    /\ IF ok THEN pushRows' = pushRows \cup {"this"} /\ pref' = TRUE ELSE UNCHANGED serverSide
    /\ shownOn' = (shownOn \/ (ok /\ f.kind = "on"))
    /\ Tells(f, IF ok THEN "on" ELSE "error")
\* updateMessageNotifications, from the profile.
EmailAnswered(f, ok) ==
    /\ f \in flows /\ f.kind = "email" /\ Quiet /\ UNCHANGED browserSide /\ UNCHANGED <<pushRows, pushNote, loaded>>
    /\ pref' = IF ok THEN f.pc = "turnOn" ELSE pref
    /\ shownOn' = IF ok THEN f.pc = "turnOn" ELSE shownOn
    /\ savingPref' = FALSE /\ Ended(f)

PushReplies(f) ==
    \/ Unsubscribed(f) \/ PageLooked(f) \/ ExistingRead(f) \/ OldDropped(f)
    \/ \E ok \in BOOLEAN: \/ PageLooks(f, ok)
                          \/ RowDeleted(f, ok) \/ PreferenceAnswered(f, ok) \/ PermissionAnswered(f, ok)
                          \/ SubscribeStep(f, ok) \/ RowSaved(f, ok) \/ EmailAnswered(f, ok)
    \/ \E answer \in {"keys", "noKeys", "error"}: ConfigAnswered(f, answer)
PushNext == TogglePush \/ ToggleEmail \/ RetryPreference \/ LayoutLoads \/ \E f \in flows: PushReplies(f)
PushFairness == WF_pushVars(\E f \in flows: PushReplies(f))
PushSpec == PushInit /\ [][PushNext]_pushVars /\ PushFairness
=============================================================================
