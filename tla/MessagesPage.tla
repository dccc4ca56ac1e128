---------------------------- MODULE MessagesPage ----------------------------
(***************************************************************************)
(* The conversation of the web client's messages page                      *)
(* (web/src/pages/shared/Messages.tsx): the target that is open, the list  *)
(* and the pins shown for it, the requests under way for them, and the     *)
(* live events that change them meanwhile; with what the endpoints do to   *)
(* the messages of the one user the page belongs to.                       *)
(*                                                                         *)
(* A message is what the page can tell apart: its id, its conversation, if *)
(* it is the user's own, if it is pinned, and who reacted to it.  Optimis- *)
(* tic bubbles have negative ids, as in the code.  Bodies, attachments and *)
(* threads are left out.                                                   *)
(***************************************************************************)
EXTENDS Integers, Sequences, FiniteSets, FiniteSetsExt

CONSTANTS Targets,       \* channels and direct conversations of the user
          MaxInputs,     \* bound: what users, network and socket do in a behaviour
          Slots,         \* bound: loads under way at once, 1 .. n
          NoTarget

ASSUME PageAssumption ==
    /\ MaxInputs \in Nat /\ Targets # {}
    /\ Slots \subseteq Nat \ {0} /\ NoTarget \notin Targets

VARIABLES posted,    \* the server's visible messages
          lastId,    \* the newest message id
          unseen,    \* ids of others' messages after the user's last_read_at
          selected,  \* selectedTarget, as committed
          wanted,    \* selectedTarget, as set; the transition commits it
          list,      \* messages: the bubbles shown
          pins,      \* pinnedMessages
          badge,     \* unread_count of each conversation's summary
          loader,    \* loadingTargetRef.current
          refreshing,\* backgroundTargetLoadingRef.current
          loads,     \* [Slots -> TargetLoad]: calls of loadTarget under way
          sends,     \* calls of handleSend under way
          sent,      \* how many there were; also the last optimistic id
          changes,   \* edits of a message under way: pin, reaction, deletion
          marks,     \* markRead calls nobody waits for
          reading,   \* where the user's attention is
          feed,      \* realtimeStatus is "connected"
          wire,      \* live events sent and not yet handled
          inputs     \* how many of them there were

serverVars == <<posted, lastId, unseen>>
listVars == <<list, pins, badge>>
loadVars == <<loader, refreshing, loads>>
openVars == <<selected, wanted>>
callVars == <<sends, sent, changes, marks>>
messagesVars == <<posted, lastId, unseen, list, pins, badge, loader,
              refreshing, loads, selected, wanted, sends, sent,
              changes, marks, reading, feed, wire, inputs>>

Ids == 1 .. MaxInputs + 1
TempIds == {-n : n \in 1 .. MaxInputs}
Message == [id : Ids \cup TempIds, conv : Targets, mine : BOOLEAN,
            pinned : BOOLEAN, likes : SUBSET {"me", "others"},
            state : {"sent", "pending", "failed"}, copy : Nat]
Phase == {"idle", "get", "got", "stale", "mark", "marked"}
TargetLoad == [phase : Phase, target : Targets \cup {NoTarget}, background : BOOLEAN,
               markRead : BOOLEAN, data : SUBSET Message, unread : Nat]
MessageEvent == [event : {"created", "updated", "deleted"}, message : Message, unread : Nat]
SendCall == [temp : TempIds, target : Targets, saved : Ids \cup {0}]
Kind == {"pin", "like", "delete"}
ChangeCall == [kind : Kind, on : BOOLEAN, id : Ids, answer : SUBSET Message, served : BOOLEAN]

IdleLoad == [phase |-> "idle", target |-> NoTarget, background |-> FALSE,
         markRead |-> FALSE, data |-> {}, unread |-> 0]

In(conv) == {m \in posted : m.conv = conv}
UnreadCount(conv) == Cardinality({m \in In(conv) : m.id \in unseen})
ById(S, id) == {m \in S : m.id = id}
WithoutId(S, id) == {m \in S : m.id # id}
\* Appending to a list keeps a message that is there already: copy counts.
Added(S, m) == S \cup {[m EXCEPT !.copy = Cardinality(ById(S, m.id))]}
Pinned(S) == {m \in S : m.pinned}

Input == inputs < MaxInputs /\ inputs' = inputs + 1

(***************************************************************************)
(* mergeIncomingMessage keeps a reaction of the user's own over an event   *)
(* that has the emoji without it.                                          *)
(***************************************************************************)
MergeIncomingMessage(existing, incoming) ==
    [incoming EXCEPT !.likes = IF "me" \in existing.likes /\ @ # {} THEN @ \cup {"me"} ELSE @]
Merged(S, m) ==
    IF ById(S, m.id) = {} THEN Added(S, m)
    ELSE {IF x.id = m.id THEN MergeIncomingMessage(x, m) ELSE x : x \in S}
UpsertPinnedMessage(S, m) == IF m.pinned THEN Merged(S, m) ELSE WithoutId(S, m.id)
ReplaceById(S, m) == {IF x.id = m.id THEN m ELSE x : x \in S}

\* canAutoMarkRead: the page is visible, no thread is open, and, unless the
\* scroll position is ignored, the list is at its end.
CanAutoMarkRead(ignoreScrollPosition) ==
    reading = "bottom" \/ (ignoreScrollPosition /\ reading = "scrolled")

PageInit ==
    /\ posted = {[id |-> 1, conv |-> CHOOSE t \in Targets : TRUE, mine |-> FALSE,
                  pinned |-> FALSE, likes |-> {}, state |-> "sent", copy |-> 0]}
    /\ lastId = 1 /\ unseen = {1}
    /\ selected = NoTarget /\ wanted = NoTarget
    /\ list = {} /\ pins = {}
    /\ badge = [t \in Targets |-> Cardinality({m \in posted : m.conv = t})]
    /\ loader = FALSE /\ refreshing = FALSE
    /\ loads = [s \in Slots |-> IdleLoad]
    /\ sends = {} /\ sent = 0 /\ changes = {} /\ marks = {}
    /\ reading = "bottom" /\ feed \in BOOLEAN /\ wire = <<>> /\ inputs = 0

(***************************************************************************)
(* The server.  Every change of a message is broadcast after it is saved,  *)
(* to the sockets that are subscribed then, with the unread count of its   *)
(* conversation at that moment.                                            *)
(***************************************************************************)
Broadcast(event, m) ==
    wire' = IF feed
            THEN Append(wire, [event |-> event, message |-> m,
                               unread |-> Cardinality({x \in posted' : x.conv = m.conv /\ x.id \in unseen'})])
            ELSE wire
CreateMessage(conv, mine) ==
    LET m == [id |-> lastId + 1, conv |-> conv, mine |-> mine, pinned |-> FALSE,
              likes |-> {}, state |-> "sent", copy |-> 0]
    IN /\ lastId' = lastId + 1
       /\ posted' = posted \cup {m}
       /\ unseen' = IF mine THEN unseen \ {x.id : x \in In(conv)} ELSE unseen \cup {m.id}
       /\ Broadcast("created", m)
Applied(m, kind, on, who) ==
    IF kind = "pin" THEN [m EXCEPT !.pinned = on]
    ELSE [m EXCEPT !.likes = IF on THEN @ \cup {who} ELSE @ \ {who}]
Alter(m, kind, on, who) ==
    /\ IF kind = "delete"
       THEN /\ posted' = posted \ {m} /\ unseen' = unseen \ {m.id}
            /\ Broadcast("deleted", m)
       ELSE /\ posted' = ReplaceById(posted, Applied(m, kind, on, who))
            /\ unseen' = unseen
            /\ Broadcast("updated", Applied(m, kind, on, who))
    /\ UNCHANGED lastId

\* Someone else, or this user on another device.
OtherPosts ==
    /\ Input /\ \E t \in Targets : CreateMessage(t, FALSE)
    /\ UNCHANGED <<listVars, loadVars, openVars, callVars, reading, feed>>
OtherAlters ==
    /\ Input
    /\ \E m \in posted, kind \in Kind, who \in {"me", "others"} :
          Alter(m, kind, IF kind = "pin" THEN ~m.pinned ELSE who \notin m.likes, who)
    /\ UNCHANGED <<listVars, loadVars, openVars, callVars, reading, feed>>

(***************************************************************************)
(* loadTarget.  targetRequestRef counts the calls, and a call whose answer *)
(* comes after a newer call began returns at once: starting a load makes   *)
(* the ones that wait for their messages stale.                            *)
(***************************************************************************)
Superseded(l) ==
    IF l.phase \in {"get", "got"} THEN [l EXCEPT !.phase = "stale", !.data = {}, !.unread = 0] ELSE l
FreeSlots == {s \in Slots : loads[s].phase = "idle"}
LoadTarget(t, markRead, background) ==
    /\ FreeSlots # {}
    /\ loads' = [s \in Slots |->
                    IF s = Min(FreeSlots)
                    THEN [IdleLoad EXCEPT !.phase = "get", !.target = t, !.background = background,
                                      !.markRead = markRead]
                    ELSE Superseded(loads[s])]
    /\ loader' = (loader \/ ~background)
    /\ refreshing' = (refreshing \/ background)
LoadDone(s) ==
    /\ loads' = [loads EXCEPT ![s] = IdleLoad]
    /\ loader' = (loader /\ loads[s].background)
    /\ refreshing' = (refreshing /\ ~loads[s].background)

LoadServed(s) ==
    /\ loads[s].phase = "get"
    /\ loads' = [loads EXCEPT ![s].phase = "got", ![s].data = In(loads[s].target),
                              ![s].unread = UnreadCount(loads[s].target)]
    /\ UNCHANGED <<serverVars, listVars, loader, refreshing, openVars, callVars, reading, feed, wire, inputs>>
LoadAnswered(s) ==
    /\ loads[s].phase = "got"
    /\ list' = loads[s].data
    /\ pins' = Pinned(loads[s].data)
    /\ badge' = [badge EXCEPT ![loads[s].target] = loads[s].unread]
    /\ IF loads[s].markRead /\ loads[s].unread > 0
       THEN loads' = [loads EXCEPT ![s].phase = "mark", ![s].data = {}] /\ UNCHANGED <<loader, refreshing>>
       ELSE LoadDone(s)
    /\ UNCHANGED <<serverVars, openVars, callVars, reading, feed, wire, inputs>>
LoadFailed(s) ==
    /\ loads[s].phase = "get" /\ Input
    /\ LoadDone(s)
    /\ UNCHANGED <<serverVars, listVars, openVars, callVars, reading, feed, wire>>
LoadIgnoredBusy(s) ==
    /\ loads[s].phase = "stale"
    /\ loads' = [loads EXCEPT ![s] = IdleLoad]
    /\ UNCHANGED <<serverVars, listVars, loader, refreshing, openVars, callVars, reading, feed, wire, inputs>>
LoadIgnored(s) ==
    /\ loads[s].phase = "stale"
    /\ loads' = [loads EXCEPT ![s] = IdleLoad]
    /\ refreshing' = (refreshing /\ ~loads[s].background)
    /\ UNCHANGED <<serverVars, listVars, loader, openVars, callVars, reading, feed, wire, inputs>>
\* markChannelRead and markDirectConversationRead; their answer is not looked at.
MarkServed(s) ==
    /\ loads[s].phase = "mark"
    /\ loads' = [loads EXCEPT ![s].phase = "marked"]
    /\ \/ unseen' = unseen \ {m.id : m \in In(loads[s].target)} /\ UNCHANGED inputs
       \/ Input /\ UNCHANGED unseen
    /\ UNCHANGED <<posted, lastId, listVars, loader, refreshing, openVars, callVars, reading, feed, wire>>
MarkAnswered(s) ==
    /\ loads[s].phase = "marked"
    /\ badge' = [badge EXCEPT ![loads[s].target] = 0]
    /\ LoadDone(s)
    /\ UNCHANGED <<serverVars, list, pins, openVars, callVars, reading, feed, wire, inputs>>

(***************************************************************************)
(* Opening a conversation.  setSelectedTarget is a transition: the target  *)
(* is set first and committed later, and the effect of the commit loads.   *)
(***************************************************************************)
InitialMessageTarget(t) ==
    /\ selected = NoTarget /\ wanted = NoTarget
    /\ badge[t] > 0 \/ \A u \in Targets : badge[u] = 0
    /\ wanted' = t
    /\ UNCHANGED <<serverVars, listVars, loadVars, selected, callVars, reading, feed, wire, inputs>>
SelectTarget(t) ==
    /\ Input
    /\ wanted' = t
    /\ IF t = selected THEN LoadTarget(t, CanAutoMarkRead(TRUE), FALSE)
       ELSE loader' = TRUE /\ UNCHANGED <<refreshing, loads>>
    /\ UNCHANGED <<serverVars, listVars, selected, callVars, reading, feed, wire>>
\* selectWorkspace, of a workspace without conversations.
SelectEmptyWorkspace ==
    /\ Input /\ wanted # NoTarget
    /\ wanted' = NoTarget
    /\ list' = {} /\ pins' = {}
    /\ UNCHANGED <<serverVars, badge, loadVars, selected, callVars, reading, feed, wire>>
CommitTarget ==
    /\ wanted # selected
    /\ selected' = wanted
    /\ reading' = IF reading = "thread" THEN "bottom" ELSE reading
    /\ IF wanted = NoTarget THEN UNCHANGED loadVars
       ELSE LoadTarget(wanted, reading # "hidden", FALSE)
    /\ UNCHANGED <<serverVars, listVars, wanted, callVars, feed, wire, inputs>>

(***************************************************************************)
(* refreshTarget: by the timer while the socket is not connected, and when *)
(* the page gets the focus or becomes visible.                             *)
(***************************************************************************)
MayRefresh == selected # NoTarget /\ ~loader /\ ~refreshing
PollTarget ==
    /\ ~feed /\ reading # "hidden" /\ MayRefresh
    /\ LoadTarget(selected, CanAutoMarkRead(FALSE), TRUE)
    /\ UNCHANGED <<serverVars, listVars, openVars, callVars, reading, feed, wire, inputs>>
FocusPage ==
    /\ reading # "hidden" /\ MayRefresh /\ Input
    /\ LoadTarget(selected, CanAutoMarkRead(FALSE), TRUE)
    /\ UNCHANGED <<serverVars, listVars, openVars, callVars, reading, feed, wire>>
ShowPage ==
    /\ reading = "hidden" /\ Input
    /\ \E r \in {"scrolled", "bottom"} :
          /\ reading' = r
          /\ IF MayRefresh THEN LoadTarget(selected, r = "bottom", TRUE) ELSE UNCHANGED loadVars
    /\ UNCHANGED <<serverVars, listVars, openVars, callVars, feed, wire>>
\* Hiding the page, scrolling, opening and closing a thread.
MoveAttention ==
    /\ reading # "hidden" /\ Input
    /\ reading' \in {"hidden", "thread", "scrolled", "bottom"} \ {reading}
    /\ reading' = "thread" => list # {}
    /\ UNCHANGED <<serverVars, listVars, loadVars, openVars, callVars, feed, wire>>
ScrollToLatestMessage ==
    /\ reading = "scrolled" /\ selected # NoTarget
    /\ reading' = "bottom"
    /\ marks' = marks \cup {selected}
    /\ UNCHANGED <<serverVars, listVars, loadVars, openVars, sends, sent, changes, feed, wire, inputs>>
MarkedReadElsewhere(t) ==
    /\ t \in marks
    /\ marks' = marks \ {t}
    /\ \/ unseen' = unseen \ {m.id : m \in In(t)} /\ UNCHANGED inputs
       \/ Input /\ UNCHANGED unseen
    /\ UNCHANGED <<posted, lastId, listVars, loadVars, openVars, sends, sent, changes,
                   reading, feed, wire>>

(***************************************************************************)
(* The live feed: the callback of subscribeToUserMessages, and the socket  *)
(* as LiveSocket's client reports it.                                      *)
(***************************************************************************)
HandleEvent ==
    /\ wire # <<>>
    /\ wire' = Tail(wire)
    /\ LET e == Head(wire)
           m == e.message
           belongsToTarget == m.conv = selected
           shouldMarkIncomingRead ==
               belongsToTarget /\ ~m.mine /\ e.event = "created" /\ CanAutoMarkRead(FALSE)
       IN /\ badge' = [badge EXCEPT ![m.conv] =
                          IF m.mine \/ shouldMarkIncomingRead THEN 0 ELSE e.unread]
          /\ list' = IF ~belongsToTarget THEN list
                     ELSE IF e.event = "deleted" THEN WithoutId(list, m.id) ELSE Merged(list, m)
          /\ pins' = IF ~belongsToTarget THEN pins
                     ELSE IF e.event = "deleted" THEN WithoutId(pins, m.id) ELSE UpsertPinnedMessage(pins, m)
          /\ marks' = IF shouldMarkIncomingRead THEN marks \cup {selected} ELSE marks
    /\ UNCHANGED <<serverVars, loadVars, openVars, sends, sent, changes, reading, feed, inputs>>
FeedUp ==
    /\ ~feed /\ feed' = TRUE /\ Input
    /\ UNCHANGED <<serverVars, listVars, loadVars, openVars, callVars, reading, wire>>
FeedDown ==
    /\ feed /\ Input
    /\ feed' = FALSE /\ wire' = <<>>
    /\ UNCHANGED <<serverVars, listVars, loadVars, openVars, callVars, reading>>

(***************************************************************************)
(* handleSend.  The form can be submitted again (from the keyboard) while  *)
(* a send is under way.                                                    *)
(***************************************************************************)
HandleSend ==
    /\ selected # NoTarget /\ Input
    /\ sent' = sent + 1
    /\ sends' = sends \cup {[temp |-> -(sent + 1), target |-> selected, saved |-> 0]}
    /\ list' = Added(list, [id |-> -(sent + 1), conv |-> selected, mine |-> TRUE, pinned |-> FALSE,
                            likes |-> {}, state |-> "pending", copy |-> 0])
    /\ badge' = [badge EXCEPT ![selected] = 0]
    /\ UNCHANGED <<serverVars, pins, loadVars, openVars, changes, marks, reading, feed, wire>>
SendServed(c) ==
    /\ c.saved = 0
    /\ CreateMessage(c.target, TRUE)
    /\ sends' = (sends \ {c}) \cup {[c EXCEPT !.saved = lastId + 1]}
    /\ UNCHANGED <<listVars, loadVars, openVars, sent, changes, marks, reading, feed, inputs>>
SendAnsweredTwice(c) ==
    /\ c.saved # 0
    /\ sends' = sends \ {c}
    /\ list' = Added(WithoutId(list, c.temp),
                     [id |-> c.saved, conv |-> c.target, mine |-> TRUE, pinned |-> FALSE,
                      likes |-> {}, state |-> "sent", copy |-> 0])
    /\ badge' = [badge EXCEPT ![c.target] = 0]
    /\ UNCHANGED <<serverVars, pins, loadVars, openVars, sent, changes, marks, reading, feed, wire, inputs>>
SendAnswered(c) ==
    /\ c.saved # 0
    /\ sends' = sends \ {c}
    /\ list' = Added(WithoutId(WithoutId(list, c.temp), c.saved),
                     [id |-> c.saved, conv |-> c.target, mine |-> TRUE, pinned |-> FALSE,
                      likes |-> {}, state |-> "sent", copy |-> 0])
    /\ badge' = [badge EXCEPT ![c.target] = 0]
    /\ UNCHANGED <<serverVars, pins, loadVars, openVars, sent, changes, marks, reading, feed, wire, inputs>>
\* The request is refused, or times out, saved or not.
SendFailed(c) ==
    /\ Input
    /\ sends' = sends \ {c}
    /\ list' = {IF m.id = c.temp THEN [m EXCEPT !.state = "failed"] ELSE m : m \in list}
    /\ UNCHANGED <<serverVars, pins, badge, loadVars, openVars, sent, changes, marks, reading, feed, wire>>

(***************************************************************************)
(* togglePin, toggleReaction and deleteMessage: what is asked for is read  *)
(* from the bubble that is shown.                                          *)
(***************************************************************************)
ChangeMessage(m, kind) ==
    /\ m.id > 0 /\ Input
    /\ changes' = changes \cup {[kind |-> kind, id |-> m.id, answer |-> {}, served |-> FALSE,
                                 on |-> IF kind = "pin" THEN ~m.pinned ELSE "me" \notin m.likes]}
    /\ UNCHANGED <<serverVars, listVars, loadVars, openVars, sends, sent, marks, reading, feed, wire>>
ChangeServed(c) ==
    /\ ~c.served /\ ById(posted, c.id) # {}
    /\ \E m \in ById(posted, c.id) :
          /\ Alter(m, c.kind, c.on, "me")
          /\ changes' = (changes \ {c}) \cup
                 {[c EXCEPT !.served = TRUE,
                            !.answer = IF c.kind = "delete" THEN {} ELSE {Applied(m, c.kind, c.on, "me")}]}
    /\ UNCHANGED <<listVars, loadVars, openVars, sends, sent, marks, reading, feed, inputs>>
ChangeAnswered(c) ==
    /\ c.served
    /\ changes' = changes \ {c}
    /\ IF c.kind = "delete"
       THEN list' = WithoutId(list, c.id) /\ pins' = WithoutId(pins, c.id)
       ELSE \E m \in c.answer : list' = ReplaceById(list, m) /\ pins' = UpsertPinnedMessage(pins, m)
    /\ UNCHANGED <<serverVars, badge, loadVars, openVars, sends, sent, marks, reading, feed, wire, inputs>>
\* The message is gone, or the answer does not arrive: nothing is changed here.
ChangeFailed(c) ==
    /\ IF ~c.served /\ ById(posted, c.id) = {} THEN UNCHANGED inputs ELSE Input
    /\ changes' = changes \ {c}
    /\ UNCHANGED <<serverVars, listVars, loadVars, openVars, sends, sent, marks, reading, feed, wire>>

LoadStep(s) == LoadServed(s) \/ LoadAnswered(s) \/ LoadFailed(s) \/ LoadIgnored(s)
               \/ MarkServed(s) \/ MarkAnswered(s)
CallStep ==
    \/ \E c \in sends : SendServed(c) \/ SendAnswered(c) \/ SendFailed(c)
    \/ \E c \in changes : ChangeServed(c) \/ ChangeAnswered(c) \/ ChangeFailed(c)
    \/ \E t \in Targets : MarkedReadElsewhere(t)
PageNext ==
    \/ OtherPosts \/ OtherAlters
    \/ \E t \in Targets : InitialMessageTarget(t) \/ SelectTarget(t)
    \/ SelectEmptyWorkspace \/ CommitTarget
    \/ PollTarget \/ FocusPage \/ ShowPage \/ MoveAttention \/ ScrollToLatestMessage
    \/ HandleEvent \/ FeedUp \/ FeedDown \/ HandleSend
    \/ \E m \in list, kind \in Kind : ChangeMessage(m, kind)
    \/ \E s \in Slots : LoadStep(s)
    \/ CallStep
PageFairness ==
    /\ WF_messagesVars(PollTarget) /\ WF_messagesVars(CommitTarget)
    /\ WF_messagesVars(HandleEvent) /\ WF_messagesVars(CallStep)
    /\ \A s \in Slots : WF_messagesVars(LoadStep(s))
PageSpec == PageInit /\ [][PageNext]_messagesVars /\ PageFairness

\* The page keeps its shape: every message, load, send and event is a well-formed one.
PageTypeOK ==
    /\ posted \subseteq Message /\ lastId \in Nat /\ unseen \subseteq Ids
    /\ {selected, wanted} \subseteq Targets \cup {NoTarget}
    /\ list \subseteq Message /\ pins \subseteq Message /\ badge \in [Targets -> Nat]
    /\ {loader, refreshing, feed} \subseteq BOOLEAN
    /\ loads \in [Slots -> TargetLoad]
    /\ sends \subseteq SendCall /\ sent \in Nat /\ changes \subseteq ChangeCall /\ marks \subseteq Targets
    /\ reading \in {"hidden", "thread", "scrolled", "bottom"}
    /\ wire \in Seq(MessageEvent) /\ inputs \in Nat

(***************************************************************************)
(* No message is shown twice, whatever order the answer to a send, the     *)
(* live event of the same message and a load come in (handleSend, the live *)
(* callback, upsertPinnedMessage).                                         *)
(***************************************************************************)
NoDuplicateBubble ==
    \A S \in {list, pins} : \A m, n \in S : m.id = n.id => m = n

(***************************************************************************)
(* A bubble that says it is being sent belongs to a send under way: none   *)
(* is left behind when the send ends (handleSend's two failure paths).     *)
(***************************************************************************)
PendingHasSend == \A m \in list : m.state = "pending" => \E c \in sends : c.temp = m.id

(***************************************************************************)
(* The loader over an open conversation always has someone to end it: the  *)
(* newest load, in the foreground, or the commit of the target just        *)
(* selected.  A background load never takes that place (loadTarget,        *)
(* selectTarget, refreshTarget).                                           *)
(***************************************************************************)
LoaderHasLoad ==
    loader /\ selected # NoTarget =>
        \/ wanted # selected
        \/ \E s \in Slots : loads[s].phase \notin {"idle", "stale"} /\ ~loads[s].background

\* The open conversation never shows a message twice, nor a bubble or a loader
\* that nothing under way will settle (handleSend, loadTarget, the live callback).
PageSound == PageTypeOK /\ NoDuplicateBubble /\ PendingHasSend /\ LoaderHasLoad

\* The open conversation shows what the server has.
InStep ==
    selected # NoTarget =>
        /\ list = In(selected) /\ pins = Pinned(list)
        /\ badge[selected] = UnreadCount(selected)

(***************************************************************************)
(* While the socket stays down and the page stays in view, polling brings  *)
(* the open conversation to what the server has, for good: list, pins and  *)
(* unread count, whatever failed, was overtaken or was lost before         *)
(* (refreshTarget and shouldPollMessages).                                 *)
(***************************************************************************)
PollingCatchesUp == <>[](~feed /\ reading # "hidden") => <>[]InStep
=============================================================================
