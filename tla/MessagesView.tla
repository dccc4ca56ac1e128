---------------------------- MODULE MessagesView ----------------------------
(***************************************************************************)
(* What the web messages page (web/src/pages/shared/Messages.tsx) draws    *)
(* and where its clicks lead: the panes on a wide and on a narrow window,  *)
(* the thread, the pins, the dialogs over them, and the image viewer,      *)
(* while conversations load late, loads fail and messages disappear.       *)
(* MessagesPage has the requests behind the list; here a list is just the  *)
(* messages it draws.                                                      *)
(*                                                                         *)
(* <<c, n>> is message n of conversation c: 1 and 2 open threads, 3 is a   *)
(* reply to 1; 1 and 3 are the user's own; 2 and 3 are pinned.  Message 1  *)
(* has Images pictures.  A dialog covers the page, so one is open at most. *)
(***************************************************************************)
EXTENDS Naturals, FiniteSets

CONSTANTS Convs,       \* conversations in the sidebar: a set of positive numbers
          Images,      \* pictures of a message
          MaxDeleted   \* bound on the deleted messages
ASSUME ViewAssumption == Convs \subseteq Nat \ {0} /\ Images \in Nat \ {0} /\ MaxDeleted \in Nat

VARIABLES wide,        \* isDesktop
          pane,        \* mobilePane
          open,        \* selectedTarget, 0 for null
          going,       \* {} or the navigation a transition has yet to commit
          fetching,    \* 0 or the conversation the newest load is for
          existing,    \* the server's messages
          shown,       \* messages
          thread,      \* activeThreadRootId
          editing, view, dialog,
          collapsed    \* sidebarCollapsed
viewVars == <<wide, pane, open, going, fetching, existing, shown, thread, editing, view, dialog, collapsed>>

AllMessages == Convs \X (1 .. 3)
NoMessage == <<0, 0>>
MayBe(S) == S \cup {NoMessage}
Mine(m) == m[2] # 2
PinnedOnes == {m \in AllMessages : m[2] # 1}
DialogKind == {"none", "actions", "delete", "lightbox"}
Dialog == [kind : DialogKind, of : MayBe(AllMessages), index : 0 .. Images - 1]
NoDialog == [kind |-> "none", of |-> NoMessage, index |-> 0]

\* rootMessageIdFor: a reply whose root is not in the list is its own root.
RootMessageIdFor(m) == IF m[2] = 3 /\ <<m[1], 1>> \in shown THEN <<m[1], 1>> ELSE m
RootMessages == {m \in shown : m[2] # 3}
ThreadMessages == {m \in shown : m = thread \/ (m[2] = 3 /\ RootMessageIdFor(m) = thread)}

(***************************************************************************)
(* What is drawn.                                                          *)
(***************************************************************************)
ShowListPane == (wide \/ pane = "list") /\ ~collapsed
ShowCollapsedRail == wide /\ collapsed
ShowConversationPane == wide \/ pane \in {"conversation", "thread"}
ShowThreadPanel == wide /\ thread # NoMessage
DisplayedMessages ==
    IF view = "pins" /\ thread = NoMessage THEN PinnedOnes \cap shown
    ELSE IF thread # NoMessage /\ ~ShowThreadPanel THEN ThreadMessages ELSE RootMessages
\* The header with its back button is drawn for a conversation that is open.
ShowBackButton == ShowConversationPane /\ open # 0 /\ ~wide
\* A row offers its actions in the list, and in the thread beside it.
Offered == IF ~ShowConversationPane \/ open = 0 THEN {}
           ELSE DisplayedMessages \cup (IF ShowThreadPanel THEN ThreadMessages ELSE {})
Undisturbed == dialog = NoDialog

(***************************************************************************)
(* The effects that follow a change: a thread or an action sheet whose     *)
(* message is gone closes, and a narrow window shows the pane that belongs *)
(* to the thread or the conversation.                                      *)
(***************************************************************************)
ThreadStays(m, list) == m
IfThere(m, list) == IF m \in list THEN m ELSE NoMessage
DialogAfter(list) ==
    IF dialog.kind = "actions" /\ dialog.of \notin list THEN NoDialog ELSE dialog
PaneAfter(isWide, conv, root, changed, current) ==
    IF isWide THEN current
    ELSE IF root # NoMessage THEN "thread"
    ELSE IF conv # 0 THEN "conversation"
    ELSE IF changed THEN "list" ELSE current

ViewInit ==
    /\ wide \in BOOLEAN
    /\ open \in Convs \cup {0}
    /\ pane = IF open = 0 THEN "list" ELSE "conversation"
    /\ going = {} /\ fetching = open
    /\ existing = AllMessages /\ shown = {}
    /\ thread = NoMessage /\ editing = NoMessage /\ view = "messages"
    /\ dialog = NoDialog /\ collapsed = FALSE

\* selectTarget, from the sidebar or from the rail it collapses to.
SelectConversation(c) ==
    /\ Undisturbed /\ (ShowListPane \/ ShowCollapsedRail)
    /\ going' = {c}
    /\ UNCHANGED <<wide, pane, open, fetching, existing, shown, thread, editing, view, dialog, collapsed>>
\* selectWorkspace, for a workspace that has no conversations.
SelectBareWorkspace ==
    /\ Undisturbed /\ ShowListPane
    /\ going' = {0}
    /\ UNCHANGED <<wide, pane, open, fetching, existing, shown, thread, editing, view, dialog, collapsed>>
CommitNavigation ==
    \E c \in going :
       /\ going' = {} /\ open' = c
       /\ thread' = NoMessage /\ editing' = NoMessage /\ view' = "messages"
       /\ pane' = PaneAfter(wide, c, NoMessage, TRUE, pane)
       /\ fetching' = c
       /\ shown' = IF c = 0 THEN {} ELSE shown
       /\ dialog' = DialogAfter(shown')
       /\ UNCHANGED <<wide, existing, collapsed>>
ConversationLoaded ==
    /\ fetching # 0 /\ fetching' = 0
    /\ shown' = {m \in existing : m[1] = fetching}
    /\ thread' = IfThere(thread, shown')
    /\ dialog' = DialogAfter(shown')
    /\ pane' = IF thread' # thread THEN PaneAfter(wide, open, thread', FALSE, pane) ELSE pane
    /\ UNCHANGED <<wide, open, going, existing, editing, view, collapsed>>
ConversationLoadFailed ==
    /\ fetching # 0 /\ fetching' = 0
    /\ UNCHANGED <<wide, pane, open, going, existing, shown, thread, editing, view, dialog, collapsed>>

OpenThread(m) ==
    /\ m \in Offered /\ dialog.kind \in {"none", "actions"} /\ (dialog.kind = "actions" => dialog.of = m)
    /\ thread' = RootMessageIdFor(m)
    /\ pane' = PaneAfter(wide, open, thread', FALSE, pane)
    /\ dialog' = NoDialog
    /\ UNCHANGED <<wide, open, going, fetching, existing, shown, editing, view, collapsed>>
\* The composer's and the panel's close button, and "Back to channel".
CloseThread ==
    /\ Undisturbed /\ ShowConversationPane /\ thread # NoMessage
    /\ thread' = NoMessage
    /\ pane' = PaneAfter(wide, open, NoMessage, FALSE, pane)
    /\ UNCHANGED <<wide, open, going, fetching, existing, shown, editing, view, dialog, collapsed>>
BackToConversations ==
    /\ Undisturbed /\ ShowBackButton
    /\ pane' = "list"
    /\ UNCHANGED <<wide, open, going, fetching, existing, shown, thread, editing, view, dialog, collapsed>>
SwitchView(v) ==
    /\ Undisturbed /\ ShowConversationPane /\ open # 0 /\ thread = NoMessage /\ view # v
    /\ view' = v
    /\ UNCHANGED <<wide, pane, open, going, fetching, existing, shown, thread, editing, dialog, collapsed>>
CollapseSidebar ==
    /\ Undisturbed /\ wide /\ collapsed' = ~collapsed
    /\ UNCHANGED <<wide, pane, open, going, fetching, existing, shown, thread, editing, view, dialog>>

StartEdit(m) ==
    /\ m \in Offered /\ Mine(m)
    /\ dialog.kind \in {"none", "actions"} /\ (dialog.kind = "actions" => dialog.of = m)
    /\ editing' = m /\ dialog' = NoDialog
    /\ UNCHANGED <<wide, pane, open, going, fetching, existing, shown, thread, view, collapsed>>
\* Cancelled, or saved.
EndEdit ==
    /\ Undisturbed /\ editing \in Offered /\ editing' = NoMessage
    /\ UNCHANGED <<wide, pane, open, going, fetching, existing, shown, thread, view, dialog, collapsed>>

OpenActions(m) ==
    /\ Undisturbed /\ m \in Offered
    /\ dialog' = [kind |-> "actions", of |-> m, index |-> 0]
    /\ UNCHANGED <<wide, pane, open, going, fetching, existing, shown, thread, editing, view, collapsed>>
AskDelete(m) ==
    /\ m \in Offered /\ Mine(m)
    /\ dialog.kind \in {"none", "actions"} /\ (dialog.kind = "actions" => dialog.of = m)
    /\ dialog' = [kind |-> "delete", of |-> m, index |-> 0]
    /\ UNCHANGED <<wide, pane, open, going, fetching, existing, shown, thread, editing, view, collapsed>>
OpenImage(m) ==
    /\ Undisturbed /\ m \in Offered /\ m[2] = 1
    /\ \E i \in 0 .. Images - 1 : dialog' = [kind |-> "lightbox", of |-> m, index |-> i]
    /\ UNCHANGED <<wide, pane, open, going, fetching, existing, shown, thread, editing, view, collapsed>>
ShowNextImage ==
    /\ dialog.kind = "lightbox"
    /\ dialog' = [dialog EXCEPT !.index = IF @ + 1 < Images - 1 THEN @ + 1 ELSE Images - 1]
    /\ UNCHANGED <<wide, pane, open, going, fetching, existing, shown, thread, editing, view, collapsed>>
ShowPreviousImage ==
    /\ dialog.kind = "lightbox"
    /\ dialog' = [dialog EXCEPT !.index = IF @ > 0 THEN @ - 1 ELSE 0]
    /\ UNCHANGED <<wide, pane, open, going, fetching, existing, shown, thread, editing, view, collapsed>>
CloseDialog ==
    /\ dialog # NoDialog /\ dialog' = NoDialog
    /\ UNCHANGED <<wide, pane, open, going, fetching, existing, shown, thread, editing, view, collapsed>>

\* Confirming closes the dialog and sends the request.
ConfirmDelete ==
    /\ dialog.kind = "delete" /\ dialog' = NoDialog
    /\ Cardinality(AllMessages \ existing) < MaxDeleted
    /\ existing' = existing \ {dialog.of}
    /\ UNCHANGED <<wide, pane, open, going, fetching, shown, thread, editing, view, collapsed>>
DeletedElsewhere(m) ==
    /\ Cardinality(AllMessages \ existing) < MaxDeleted
    /\ m \in existing /\ existing' = existing \ {m}
    /\ UNCHANGED <<wide, pane, open, going, fetching, shown, thread, editing, view, dialog, collapsed>>
\* The deletion is answered, or its event arrives.
MessageDeleted(m) ==
    /\ m \in shown \ existing /\ shown' = shown \ {m}
    /\ thread' = IfThere(thread, shown')
    /\ pane' = IF thread' # thread THEN PaneAfter(wide, open, thread', FALSE, pane) ELSE pane
    /\ dialog' = DialogAfter(shown')
    /\ UNCHANGED <<wide, open, going, fetching, existing, editing, view, collapsed>>

Resize ==
    /\ wide' = ~wide
    /\ collapsed' = (collapsed /\ wide')
    /\ pane' = PaneAfter(wide', open, thread, TRUE, pane)
    /\ UNCHANGED <<open, going, fetching, existing, shown, thread, editing, view, dialog>>

Click ==
    \/ \E c \in Convs : SelectConversation(c)
    \/ SelectBareWorkspace \/ CloseThread \/ BackToConversations \/ CollapseSidebar
    \/ \E v \in {"messages", "pins"} : SwitchView(v)
    \/ \E m \in AllMessages :
          OpenThread(m) \/ StartEdit(m) \/ OpenActions(m) \/ AskDelete(m) \/ OpenImage(m)
    \/ EndEdit \/ ShowNextImage \/ ShowPreviousImage \/ CloseDialog \/ ConfirmDelete
ViewNext ==
    \/ Click \/ CommitNavigation \/ ConversationLoaded \/ ConversationLoadFailed \/ Resize
    \/ \E m \in AllMessages : DeletedElsewhere(m) \/ MessageDeleted(m)
ViewSpec == ViewInit /\ [][ViewNext]_viewVars

(***************************************************************************)
(* The variables stay in their types; in particular next and previous      *)
(* never leave the pictures of the message whose image was opened.         *)
(***************************************************************************)
ViewTypeOK ==
    /\ wide \in BOOLEAN /\ collapsed \in BOOLEAN /\ pane \in {"list", "conversation", "thread"}
    /\ open \in Convs \cup {0} /\ going \subseteq Convs \cup {0} /\ fetching \in Convs \cup {0}
    /\ existing \subseteq AllMessages /\ shown \subseteq AllMessages
    /\ thread \in MayBe(AllMessages) /\ editing \in MayBe(AllMessages)
    /\ view \in {"messages", "pins"} /\ dialog \in Dialog

(***************************************************************************)
(* The thread and the action sheet are about messages of the list that is  *)
(* drawn, whatever was deleted or loaded since they were opened, and a     *)
(* narrow window with a conversation shows the thread pane only for a      *)
(* thread: a reply is never written to a message that is not there.        *)
(***************************************************************************)
ViewCoherent ==
    /\ thread # NoMessage => thread \in shown
    /\ dialog.kind = "actions" => dialog.of \in shown
    /\ (~wide /\ pane = "thread") => thread # NoMessage

(***************************************************************************)
(* No dead end: whatever the window's width was when the conversation was  *)
(* chosen, the list, the rail beside it, or a way back to it is on screen. *)
(***************************************************************************)
WayBack == ShowListPane \/ ShowCollapsedRail \/ ShowBackButton

\* Panes, thread and dialogs always fit what is shown, and the reader can always
\* leave them (the effects on mobilePane and on the message list).
ViewSound == ViewTypeOK /\ ViewCoherent /\ WayBack
=============================================================================
