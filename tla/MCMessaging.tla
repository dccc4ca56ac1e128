----------------------------- MODULE MCMessaging -----------------------------
(* The messages pages and the live connection, for TLC.  The components here *)
(* share no state: one runs in a behaviour (which, chosen at the start) and  *)
(* the others keep their first state.  The page opens before its live        *)
(* connection is up.  Fairness is that of each component.                    *)
EXTENDS LiveSocket, MessagesPage, MessagesView, MessagesWorkspace,
        MessageText, MessageMentions

VARIABLE which

Frozen(run) ==
    /\ UNCHANGED which
    /\ run # "socket" => UNCHANGED socketVars
    /\ run # "page" => UNCHANGED messagesVars
    /\ run # "view" => UNCHANGED viewVars
    /\ run # "workspaces" => UNCHANGED spaceVars
    /\ run # "text" => UNCHANGED textVars
    /\ run # "mentions" => UNCHANGED mentionVars

MessagingInit ==
    /\ which \in {"socket", "page", "view", "workspaces", "text", "mentions"}
    /\ SocketInit /\ (which # "socket" => platform = "web")
    /\ PageInit /\ ~feed
    /\ ViewInit /\ (which # "view" => wide /\ open = 0)
    /\ WorkspacesInit
    /\ TextInit
    /\ MentionInit /\ (which # "mentions" => channel /\ people = CHOOSE r \in Rosters : TRUE)

MessagingNext ==
    \/ which = "socket"     /\ SocketNext /\ Frozen("socket")
    \/ which = "page"       /\ PageNext /\ Frozen("page")
    \/ which = "view"       /\ ViewNext /\ Frozen("view")
    \/ which = "workspaces" /\ WorkspacesNext /\ Frozen("workspaces")
    \/ which = "text"       /\ TextNext /\ Frozen("text")
    \/ which = "mentions"   /\ MentionNext /\ Frozen("mentions")

MessagingVars == <<which, socketVars, messagesVars, viewVars, spaceVars, textVars, mentionVars>>

MessagingSpec ==
    /\ MessagingInit /\ [][MessagingNext]_MessagingVars
    /\ WF_socketVars(which = "socket" /\ SocketStep)
    /\ WF_messagesVars(which = "page" /\ PollTarget)
    /\ WF_messagesVars(which = "page" /\ CommitTarget)
    /\ WF_messagesVars(which = "page" /\ HandleEvent)
    /\ WF_messagesVars(which = "page" /\ CallStep)
    /\ \A s \in Slots : WF_messagesVars(which = "page" /\ LoadStep(s))
    /\ WF_spaceVars(which = "workspaces" /\ CreationAdvances)

\* As long as the page stays and the failures come to an end, the client is
\* subscribed again, unless the server rejected the subscription, which neither
\* client retries (the close handler, scheduleReconnect).
SocketReconnects ==
    <>[](which = "socket" => ~listening \/ \E s \in SocketIds : sockets[s] \in {"subscribed", "rejected"})

\* Nothing about messages is left in the air: a page that stays is connected again,
\* a page that was left keeps no socket, call or timer, and a creation form is
\* given back (subscribeToMessages, handleCreateChannel, handleCreateWorkspace).
MessagingSettles == SocketReconnects /\ LineReleased /\ SubmitReturns
=============================================================================
