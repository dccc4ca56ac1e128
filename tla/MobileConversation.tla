------------------------- MODULE MobileConversation -------------------------
(***************************************************************************)
(* What the mobile conversation screen                                     *)
(* (mobile/src/app/(app)/conversation/[kind]/[id].tsx) does with the text  *)
(* its user writes: the draft, the optimistic bubble of a send, the copies *)
(* of failed sends in the phone's storage (lib/conversation-storage.ts),   *)
(* leaving and reopening the screen, and the app being killed.             *)
(*                                                                         *)
(* A text is a number; 0 is the empty composer.  The temporary bubble of   *)
(* the nth press of send has id -n, the server's messages have 1, 2, ...   *)
(***************************************************************************)
EXTENDS Integers, FiniteSets

CONSTANTS MaxTexts,     \* bound: texts the user writes
          MaxVisits,    \* bound: times the screen is opened
          MaxPresses    \* bound: presses of send or retry

ASSUME MobileAssumption == MaxTexts \in Nat /\ MaxVisits \in Nat /\ MaxPresses \in Nat

VARIABLES screen,       \* where load() is; "closed" when the screen is not mounted
          visit,        \* which mount of the screen this is
          lists,        \* messages, of each mount
          draft,        \* the composer's text
          pendingText, \* pendingDraftRef: {} or the text the save timer holds
          sending,      \* the sending flag of this mount
          snapshot,     \* what the server returned to load()
          savedDraft,   \* storage: the conversation's draft
          storedFailed, \* storage: its failed messages
          sendCalls,        \* send() calls under way, of this and of earlier mounts
          delivered,    \* the messages the server has
          cable,        \* events of the user's own messages on their way
          typed, sendPresses
screenVars == <<screen, visit, snapshot>>
composerVars == <<draft, pendingText, typed>>
storageVars == <<savedDraft, storedFailed>>
sendVars == <<sending, sendCalls, sendPresses>>
mobileVars == <<screen, visit, snapshot, lists, draft, pendingText, typed, savedDraft,
                storedFailed, sending, sendCalls, sendPresses, delivered, cable>>

Texts == 1 .. MaxTexts
Mounts == 1 .. MaxVisits
Bubble == [text : Texts, id : -MaxPresses .. MaxPresses, status : {"sending", "failed", "sent"}]
SendCall == [text : Texts, id : -MaxPresses .. -1, retry : BOOLEAN, of : Mounts,
         at : {"upload", "post", "saved"}, answer : SUBSET Bubble]
Loading == screen \in {"draft", "fetch", "fetched", "mark"}
Failed(S) == {b \in S : b.status = "failed"}
AnyOf(S, id) == {b \in S : b.id = id}
\* The list with the bubble in its new state, in the place its id has.
Placed(S, b) == (S \ AnyOf(S, b.id)) \cup {b}
BubbleOf(c, status) == [text |-> c.text, id |-> c.id, status |-> status]
OfThisVisit(c) == c.of = visit /\ screen # "closed"

MobileInit ==
    /\ screen = "closed" /\ visit = 0 /\ snapshot = {}
    /\ lists = [v \in Mounts |-> {}] /\ draft = 0 /\ pendingText = {} /\ typed = 0
    /\ savedDraft = 0 /\ storedFailed = {}
    /\ sending = FALSE /\ sendCalls = {} /\ sendPresses = 0
    /\ delivered = {} /\ cable = {}

\* The effect that runs when the draft or loading changed: once the screen is
\* loaded the text waits 300 ms for the storage.
HoldDraft(at, text) == pendingText' = IF at \in {"ready", "error"} THEN {text} ELSE pendingText

(***************************************************************************)
(* load(): the draft is read, then the conversation and its workspace, and *)
(* at last the failed messages; markRead is awaited before the screen      *)
(* shows what it has.  Any request may fail.                               *)
(***************************************************************************)
OpenScreen ==
    /\ screen = "closed" /\ visit < MaxVisits
    /\ screen' = "draft" /\ visit' = visit + 1
    /\ UNCHANGED <<snapshot, lists, composerVars, storageVars, sendVars, delivered, cable>>
RetryLoad ==
    /\ screen = "error" /\ screen' = "draft"
    /\ UNCHANGED <<visit, snapshot, lists, composerVars, storageVars, sendVars, delivered, cable>>
LoadDraft ==
    /\ screen = "draft" /\ screen' = "fetch" /\ draft' = savedDraft
    /\ UNCHANGED <<visit, snapshot, lists, pendingText, typed, storageVars, sendVars, delivered, cable>>
ConversationServed ==
    /\ screen = "fetch" /\ screen' = "fetched"
    /\ snapshot' = delivered
    /\ UNCHANGED <<visit, lists, composerVars, storageVars, sendVars, delivered, cable>>
ConversationShown ==
    /\ screen = "fetched" /\ screen' = "mark"
    /\ lists' = [lists EXCEPT ![visit] = snapshot \cup storedFailed]
    /\ UNCHANGED <<visit, snapshot, composerVars, storageVars, sendVars, delivered, cable>>
ConversationRead ==
    /\ screen = "mark" /\ screen' = "ready" /\ HoldDraft("ready", draft)
    /\ UNCHANGED <<visit, snapshot, lists, draft, typed, storageVars, sendVars, delivered, cable>>
ConversationLoadFails ==
    /\ screen \in {"fetch", "fetched", "mark"} /\ screen' = "error" /\ HoldDraft("error", draft)
    /\ UNCHANGED <<visit, snapshot, lists, draft, typed, storageVars, sendVars, delivered, cable>>

(***************************************************************************)
(* The composer, which is open while the screen loads and while it sends.  *)
(***************************************************************************)
Write ==
    /\ screen # "closed" /\ typed < MaxTexts
    /\ typed' = typed + 1 /\ draft' = typed + 1
    /\ HoldDraft(screen, typed + 1)
    /\ UNCHANGED <<screenVars, lists, storageVars, sendVars, delivered, cable>>
SaveDraft ==
    /\ pendingText # {} /\ ~Loading
    /\ savedDraft' \in pendingText /\ pendingText' = {}
    /\ UNCHANGED <<screenVars, lists, draft, typed, storedFailed, sendVars, delivered, cable>>

(***************************************************************************)
(* send().  Attachments of a new message go up first: until they are       *)
(* stored there is no bubble and the draft stays.  A retry has its files   *)
(* uploaded already, and its bubble is the failed one.                     *)
(***************************************************************************)
Show(c, status) == lists' = [lists EXCEPT ![c.of] = Placed(@, BubbleOf(c, status))]
Press(call) == sending' = TRUE /\ sendPresses' = sendPresses + 1 /\ sendCalls' = sendCalls \cup {call}
MayPress == screen # "closed" /\ ~sending /\ sendPresses < MaxPresses
NewPost(at) == [text |-> draft, id |-> -(sendPresses + 1), retry |-> FALSE, of |-> visit, at |-> at, answer |-> {}]
SendWithFiles ==
    /\ MayPress /\ draft # 0
    /\ Press(NewPost("upload"))
    /\ UNCHANGED <<screenVars, lists, composerVars, storageVars, delivered, cable>>
SendMessage ==
    /\ MayPress /\ draft # 0
    /\ Press(NewPost("post"))
    /\ Show(NewPost("post"), "sending")
    /\ draft' = 0 /\ HoldDraft(screen, 0)
    /\ UNCHANGED <<screenVars, typed, storageVars, delivered, cable>>
\* The bubbles, and with them their retry buttons, are drawn once loaded.
RetrySend(b) ==
    LET call == [text |-> b.text, id |-> b.id, retry |-> TRUE, of |-> visit, at |-> "post", answer |-> {}]
    IN /\ MayPress /\ screen = "ready" /\ b \in Failed(lists[visit])
       /\ Press(call) /\ Show(call, "sending")
       /\ UNCHANGED <<screenVars, composerVars, storageVars, delivered, cable>>
FilesUploaded(c) ==
    /\ c.at = "upload"
    /\ sendCalls' = (sendCalls \ {c}) \cup {[c EXCEPT !.at = "post"]}
    /\ IF OfThisVisit(c)
       THEN Show(c, "sending") /\ draft' = 0 /\ HoldDraft(screen, 0)
       ELSE UNCHANGED <<lists, draft, pendingText>>
    /\ UNCHANGED <<screenVars, typed, storageVars, sending, sendPresses, delivered, cable>>
SendSettles(c) == sendCalls' = sendCalls \ {c} /\ sending' = (sending /\ ~OfThisVisit(c))
FilesRefused(c) ==
    /\ c.at = "upload"
    /\ SendSettles(c)
    /\ UNCHANGED <<screenVars, lists, composerVars, storageVars, sendPresses, delivered, cable>>

\* The server stores the message and tells the subscribed sockets.
PostServed(c) ==
    LET message == [text |-> c.text, id |-> Cardinality(delivered) + 1, status |-> "sent"]
    IN /\ c.at = "post"
       /\ sendCalls' = (sendCalls \ {c}) \cup {[c EXCEPT !.at = "saved", !.answer = {message}]}
       /\ delivered' = delivered \cup {message}
       /\ cable' = IF screen = "ready" THEN cable \cup {message} ELSE cable
       /\ UNCHANGED <<screenVars, lists, composerVars, storageVars, sending, sendPresses>>

(***************************************************************************)
(* persistFailed is called inside the updater of setMessages, with the     *)
(* list as that mount of the screen has it.  For a mount that is gone the  *)
(* updater may run on its last list or not at all: React promises neither. *)
(***************************************************************************)
PersistFailed(c, next) ==
    \/ /\ lists' = [lists EXCEPT ![c.of] = next]
       /\ storedFailed' = Failed(next)
    \/ ~OfThisVisit(c) /\ UNCHANGED <<lists, storedFailed>>
\* reconcileOptimistic; the draft in storage is cleared for a retry too.
PostAnswered(c) ==
    /\ c.at = "saved"
    /\ SendSettles(c)
    /\ \E message \in c.answer :
          PersistFailed(c, Placed(lists[c.of] \ AnyOf(lists[c.of], c.id), message))
    /\ savedDraft' = 0
    /\ pendingText' = IF OfThisVisit(c) THEN {} ELSE pendingText
    /\ UNCHANGED <<screenVars, draft, typed, sendPresses, delivered, cable>>
\* The request was refused, never arrived, or its answer was lost.
PostFails(c) ==
    /\ c.at \in {"post", "saved"}
    /\ SendSettles(c)
    /\ PersistFailed(c, Placed(lists[c.of], BubbleOf(c, "failed")))
    /\ UNCHANGED <<screenVars, composerVars, savedDraft, sendPresses, delivered, cable>>

\* mergeMessageEvent, for "created".
EventArrives(b) ==
    /\ cable' = cable \ {b}
    /\ lists' = IF screen = "ready" THEN [lists EXCEPT ![visit] = Placed(@, b)] ELSE lists
    /\ UNCHANGED <<screenVars, composerVars, storageVars, sendVars, delivered>>

\* Leaving flushes the text the timer still holds; the calls go on.
Forget == draft' = 0 /\ pendingText' = {} /\ sending' = FALSE /\ snapshot' = {}
LeaveScreen ==
    /\ screen # "closed" /\ screen' = "closed"
    /\ savedDraft' \in IF pendingText = {} THEN {savedDraft} ELSE pendingText
    /\ Forget
    /\ UNCHANGED <<visit, lists, typed, storedFailed, sendCalls, sendPresses, delivered, cable>>
\* The system kills the app: nothing is flushed and no call goes on.
KillApp ==
    /\ screen # "closed" /\ screen' = "closed"
    /\ Forget /\ sendCalls' = {} /\ cable' = {} /\ lists' = [v \in Mounts |-> {}]
    /\ UNCHANGED <<visit, typed, storageVars, sendPresses, delivered>>

LoadingStep == LoadDraft \/ ConversationServed \/ ConversationShown \/ ConversationRead \/ ConversationLoadFails
PostStep(c) == FilesUploaded(c) \/ FilesRefused(c) \/ PostServed(c) \/ PostAnswered(c) \/ PostFails(c)
MobileNext ==
    \/ OpenScreen \/ RetryLoad \/ LoadingStep
    \/ Write \/ SaveDraft \/ SendWithFiles \/ SendMessage
    \/ \E v \in Mounts : \E b \in lists[v] : v = visit /\ RetrySend(b)
    \/ \E c \in sendCalls : PostStep(c)
    \/ \E b \in cable : EventArrives(b)
    \/ LeaveScreen \/ KillApp
\* Every request is answered or times out, and timers fire.
MobileFairness ==
    /\ WF_mobileVars(LoadingStep) /\ WF_mobileVars(SaveDraft)
    /\ WF_mobileVars(\E c \in sendCalls : PostStep(c))
MobileSpec == MobileInit /\ [][MobileNext]_mobileVars /\ MobileFairness

(***************************************************************************)
(* The variables stay in their types.  In particular the server never has  *)
(* more messages than send and retry were pressed, and a failed copy is    *)
(* kept under the id of its own press.                                     *)
(***************************************************************************)
MobileTypeOK ==
    /\ screen \in {"closed", "draft", "fetch", "fetched", "mark", "ready", "error"}
    /\ visit \in 0 .. MaxVisits /\ lists \in [Mounts -> SUBSET Bubble]
    /\ draft \in 0 .. typed /\ pendingText \subseteq 0 .. typed /\ savedDraft \in 0 .. typed
    /\ storedFailed \subseteq Failed(Bubble) /\ Cardinality({b.id : b \in storedFailed}) = Cardinality(storedFailed)
    /\ typed \in 0 .. MaxTexts /\ sendPresses \in 0 .. MaxPresses
    /\ sending \in BOOLEAN /\ sendCalls \subseteq SendCall
    /\ snapshot \subseteq delivered /\ cable \subseteq delivered /\ delivered \subseteq Bubble
    /\ Cardinality(delivered) <= sendPresses

\* The failed copies in storage: the bubbles marked "Not sent", and the ones
\* being retried, which keep their copy until the server has them.
Retrying == {c.id : c \in {x \in sendCalls : x.retry /\ x.of = visit}}
InSync == \A b \in Failed(Bubble) :
             /\ b \in lists[visit] => b \in storedFailed
             /\ b \in storedFailed => b \in lists[visit] \/ b.id \in Retrying
NoStrays == \A c \in sendCalls : c.of = visit

(***************************************************************************)
(* A conversation that is shown and what the storage keeps for it stay the *)
(* same: from a screen in step with the storage, as every load leaves it,  *)
(* no send, retry, failure, event or draft makes a bubble say "Not sent"   *)
(* that a restart would lose, nor keeps the copy of one that is not shown. *)
(* A call of an earlier mount that is still under way may.                 *)
(***************************************************************************)
FailedKeptInStep ==
    [][(NoStrays /\ screen' = "ready" /\ (screen = "mark" => InSync) /\ (screen = "ready" => InSync))
         => InSync']_mobileVars

(***************************************************************************)
(* The send button comes back: a send or a retry ends, whichever request   *)
(* fails, or the user leaves.                                              *)
(***************************************************************************)
SendingEnds == []<>~sending
=============================================================================
