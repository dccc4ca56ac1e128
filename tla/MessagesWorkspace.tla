-------------------------- MODULE MessagesWorkspace --------------------------
(***************************************************************************)
(* The workspaces of the web messages page (web/src/pages/shared/          *)
(* Messages.tsx): which workspace and which conversation are selected, the *)
(* members and the people offered for a direct message that are loaded for *)
(* a workspace, creating workspaces, channels and direct messages, and     *)
(* marking a workspace read.  Several requests are under way at a time and *)
(* their answers come in any order.                                        *)
(*                                                                         *)
(* Conversation <<w, k>> belongs to workspace w.  At first workspace 1 has *)
(* one channel, and workspace 2 none.                                      *)
(***************************************************************************)
EXTENDS Naturals, FiniteSets

CONSTANTS MaxSpaces,   \* workspaces that can exist
          MaxRooms,    \* conversations a workspace can have
          MaxMoves     \* bound on what the user selects, submits and marks read
ASSUME WorkspaceAssumption ==
    /\ {MaxSpaces, MaxRooms, MaxMoves} \subseteq Nat
    /\ MaxSpaces >= 2 /\ MaxRooms >= 1

VARIABLES rooms,       \* the server's conversations
          spaces,      \* the server's workspaces
          roomList,    \* channels and directConversations
          spaceList,   \* workspaces
          space,       \* selectedWorkspaceId, 0 for null
          room,        \* selectedTarget
          moving,      \* {} or the selection a transition has yet to commit
          detail,      \* the workspace of workspaceDetail, 0 for null
          peopleOf,      \* the workspace whose people the direct-message form offers
          detailCalls, peopleCalls,
          form,        \* the form in a dialog
          creating,    \* creatingChannel and creatingWorkspace
          creationCalls,       \* creations under way
          unread,      \* conversations with an unread badge
          readCalls,   \* workspaces being marked read
          moves
spaceVars == <<rooms, spaces, roomList, spaceList, space, room, moving, detail, peopleOf, detailCalls, peopleCalls,
               form, creating, creationCalls, unread, readCalls, moves>>

Spaces == 1 .. MaxSpaces
Rooms == Spaces \X (1 .. MaxRooms)
NoRoom == <<0, 0>>
Forms == {"channel", "workspace", "dm"}
\* A creation is sent, then the lists are read again, then the page goes there.
Calls == [kind : Forms, step : {"sent", "listing"}, in : Spaces \cup {0}, at : Rooms \cup {NoRoom}]

RoomsOf(list, w) == {r \in list : r[1] = w}
FirstRoom(list, w) ==
    IF RoomsOf(list, w) = {} THEN NoRoom
    ELSE CHOOSE r \in RoomsOf(list, w) : \A q \in RoomsOf(list, w) : r[2] <= q[2]
UnreadElsewhere == {w \in spaceList : w # space /\ RoomsOf(unread, w) # {}}

\* The effects on selectedWorkspaceId load its members and its people.
LoadFor(w) ==
    IF w = space THEN UNCHANGED <<detailCalls, peopleCalls, detail>>
    ELSE /\ detailCalls' = IF w = 0 THEN detailCalls ELSE detailCalls \cup {w}
         /\ peopleCalls' = IF w = 0 THEN peopleCalls ELSE peopleCalls \cup {w}
         /\ detail' = IF w = 0 THEN 0 ELSE detail

SpaceStays(target, list, w) == w
\* The workspace follows a selected conversation that is in the lists.
SpaceOf(target, list, w) == IF target # NoRoom /\ target \in list THEN target[1] ELSE w

WorkspacesInit ==
    /\ spaces = {1, 2} /\ rooms = {<<1, 1>>}
    /\ roomList = {} /\ spaceList = {}
    /\ space = 0 /\ room = NoRoom /\ moving = {}
    /\ detail = 0 /\ peopleOf = 0 /\ detailCalls = {} /\ peopleCalls = {}
    /\ form = "none" /\ creating = {} /\ creationCalls = {}
    /\ unread = {} /\ readCalls = {} /\ moves = 0

\* loadLists of a new page.
ListsLoaded ==
    /\ spaceList = {}
    /\ spaceList' = spaces /\ roomList' = rooms /\ unread' \in SUBSET rooms
    /\ room' = IF rooms = {} THEN NoRoom ELSE CHOOSE r \in rooms : \A q \in rooms : r[1] <= q[1]
    /\ space' = SpaceOf(room', rooms, 1)
    /\ LoadFor(space')
    /\ UNCHANGED <<rooms, spaces, moving, peopleOf, form, creating, creationCalls, readCalls, moves>>

\* selectTarget and selectWorkspace: a transition commits the selection later.
SelectRoom(r) ==
    /\ form = "none" /\ r \in roomList /\ moves < MaxMoves
    /\ moves' = moves + 1
    /\ moving' = {[space |-> space, room |-> r]}
    /\ UNCHANGED <<rooms, spaces, roomList, spaceList, space, room, detail, peopleOf, detailCalls, peopleCalls,
                   form, creating, creationCalls, unread, readCalls>>
MoveTo(w, list) == {[space |-> w, room |-> FirstRoom(list, w)]}
SelectWorkspace(w) ==
    /\ form \in {"none", "switcher"} /\ w \in spaceList /\ moves < MaxMoves
    /\ moves' = moves + 1
    /\ moving' = MoveTo(w, roomList)
    /\ form' = "none"
    /\ UNCHANGED <<rooms, spaces, roomList, spaceList, space, room, detail, peopleOf, detailCalls, peopleCalls,
                   creating, creationCalls, unread, readCalls>>
CommitMove ==
    \E m \in moving :
       /\ moving' = {}
       /\ room' = m.room
       /\ space' = SpaceOf(m.room, roomList, m.space)
       /\ LoadFor(space')
       /\ UNCHANGED <<rooms, spaces, roomList, spaceList, peopleOf, form, creating, creationCalls, unread, readCalls, moves>>

\* loadWorkspaceDetail and loadAvailableUsers take whichever answer comes last.
DetailAnswered(w, ok) ==
    /\ w \in detailCalls /\ detailCalls' = detailCalls \ {w}
    /\ detail' = IF ok THEN w ELSE detail
    /\ UNCHANGED <<rooms, spaces, roomList, spaceList, space, room, moving, peopleOf, peopleCalls,
                   form, creating, creationCalls, unread, readCalls, moves>>
PeopleAnswered(w, ok) ==
    /\ w \in peopleCalls /\ peopleCalls' = peopleCalls \ {w}
    /\ peopleOf' = IF ok THEN w ELSE peopleOf
    /\ UNCHANGED <<rooms, spaces, roomList, spaceList, space, room, moving, detail, detailCalls,
                   form, creating, creationCalls, unread, readCalls, moves>>

\* The dialogs: a member can be added once the detail is there.
OpenForm(f) ==
    /\ form = "none" /\ spaceList # {} /\ (f = "members" => detail # 0)
    /\ form' = f
    /\ UNCHANGED <<rooms, spaces, roomList, spaceList, space, room, moving, detail, peopleOf, detailCalls, peopleCalls,
                   creating, creationCalls, unread, readCalls, moves>>
CloseForm ==
    /\ form # "none" /\ form' = "none"
    /\ UNCHANGED <<rooms, spaces, roomList, spaceList, space, room, moving, detail, peopleOf, detailCalls, peopleCalls,
                   creating, creationCalls, unread, readCalls, moves>>
\* The submit button is disabled while a channel or workspace is created; the
\* direct-message form has no such flag.
Submit(kind) ==
    /\ form = kind /\ kind \notin creating /\ moves < MaxMoves
    /\ kind = "dm" => (space # 0 /\ peopleOf # 0)
    /\ moves' = moves + 1
    /\ creating' = creating \cup ({kind} \ {"dm"})
    /\ creationCalls' = creationCalls \cup {[kind |-> kind, step |-> "sent", in |-> IF kind = "workspace" THEN 0 ELSE space, at |-> NoRoom]}
    /\ UNCHANGED <<rooms, spaces, roomList, spaceList, space, room, moving, detail, peopleOf, detailCalls, peopleCalls,
                   form, unread, readCalls>>
\* The new room, and the workspaces, after the server has done what c asks.
NewRoom(c) ==
    LET w == IF c.kind = "workspace" THEN CHOOSE v \in Spaces \ spaces : TRUE ELSE c.in
        free == {k \in 1 .. MaxRooms : <<w, k>> \notin rooms}
    IN  <<w, CHOOSE k \in free : \A j \in free : k <= j>>
MayCreate(c) ==
    IF c.kind = "workspace" THEN Spaces # spaces
    ELSE c.in # 0 /\ Cardinality(RoomsOf(rooms, c.in)) < MaxRooms
CreateAnswered(c) ==
    /\ c \in creationCalls /\ c.step = "sent" /\ MayCreate(c)
    /\ rooms' = rooms \cup {NewRoom(c)} /\ spaces' = spaces \cup {NewRoom(c)[1]}
    /\ creationCalls' = (creationCalls \ {c}) \cup {[c EXCEPT !.step = "listing", !.at = NewRoom(c)]}
    /\ form' = IF c.kind # "dm" /\ form = c.kind THEN "none" ELSE form
    /\ UNCHANGED <<roomList, spaceList, space, room, moving, detail, peopleOf, detailCalls, peopleCalls,
                   creating, unread, readCalls, moves>>
CreateRefused(c) ==
    /\ c \in creationCalls /\ c.step = "sent"
    /\ creationCalls' = creationCalls \ {c} /\ creating' = creating \ {c.kind}
    /\ UNCHANGED <<rooms, spaces, roomList, spaceList, space, room, moving, detail, peopleOf, detailCalls, peopleCalls,
                   form, unread, readCalls, moves>>
\* The lists are read and the page goes to what was created.  selectWorkspace
\* looks for a channel in the lists of the page as it was when the form was
\* sent, so a new workspace is opened without its default channel.
CreationListed(c) ==
    /\ c \in creationCalls /\ c.step = "listing"
    /\ creationCalls' = creationCalls \ {c} /\ creating' = creating \ {c.kind}
    /\ roomList' = rooms /\ spaceList' = spaces
    /\ moving' = IF c.kind = "workspace" THEN MoveTo(c.at[1], {}) ELSE {[space |-> space, room |-> c.at]}
    /\ detail' = IF c.kind = "workspace" THEN c.at[1] ELSE detail
    /\ form' = IF c.kind = "workspace" THEN "members" ELSE IF c.kind = "dm" /\ form = "dm" THEN "none" ELSE form
    /\ UNCHANGED <<rooms, spaces, space, peopleOf, room, detailCalls, peopleCalls, unread, readCalls, moves>>

\* markWorkspaceRead, offered by the workspace switcher.
MarkWorkspaceRead(w) ==
    /\ form = "switcher" /\ w \in spaceList \ readCalls /\ RoomsOf(unread, w) # {} /\ moves < MaxMoves
    /\ readCalls' = readCalls \cup {w} /\ moves' = moves + 1
    /\ UNCHANGED <<rooms, spaces, roomList, spaceList, space, room, moving, detail, peopleOf, detailCalls, peopleCalls,
                   form, creating, creationCalls, unread>>
WorkspaceMarked(w) ==
    /\ w \in readCalls /\ readCalls' = readCalls \ {w}
    /\ unread' = unread \ RoomsOf(unread, w)
    /\ UNCHANGED <<rooms, spaces, roomList, spaceList, space, room, moving, detail, peopleOf, detailCalls, peopleCalls,
                   form, creating, creationCalls, moves>>

\* updateLatestForTarget: a message came to a conversation that is not open.
MessageUnread(r) ==
    /\ r \in roomList \ {room} /\ unread' = unread \cup {r}
    /\ UNCHANGED <<rooms, spaces, roomList, spaceList, space, room, moving, detail, peopleOf, detailCalls, peopleCalls,
                   form, creating, creationCalls, readCalls, moves>>

CreationAdvances == \E c \in creationCalls : CreateAnswered(c) \/ CreateRefused(c) \/ CreationListed(c)
WorkspacesNext ==
    \/ ListsLoaded \/ CommitMove \/ CreationAdvances
    \/ \E w \in Spaces, ok \in BOOLEAN : DetailAnswered(w, ok) \/ PeopleAnswered(w, ok)
    \/ \E w \in Spaces : WorkspaceMarked(w)
    \/ \E r \in Rooms : SelectRoom(r) \/ MessageUnread(r)
    \/ \E w \in Spaces : SelectWorkspace(w) \/ MarkWorkspaceRead(w)
    \/ \E f \in Forms \cup {"members", "switcher"} : OpenForm(f)
    \/ CloseForm \/ \E k \in Forms : Submit(k)
\* fetchApi answers every request: it gives up after its timeout.
WorkspacesFairness == WF_spaceVars(CreationAdvances)
WorkspacesSpec == WorkspacesInit /\ [][WorkspacesNext]_spaceVars /\ WorkspacesFairness

(***************************************************************************)
(* The variables stay in their types, and a badge, a call and a selection  *)
(* are always about a conversation or workspace that exists.               *)
(***************************************************************************)
WorkspacesTypeOK ==
    /\ spaces \subseteq Spaces /\ rooms \subseteq Rooms /\ \A r \in rooms : r[1] \in spaces
    /\ roomList \subseteq rooms /\ spaceList \subseteq spaces /\ unread \subseteq rooms
    /\ space \in spaces \cup {0} /\ room \in rooms \cup {NoRoom} /\ detail \in spaces \cup {0}
    /\ peopleOf \in spaces \cup {0} /\ detailCalls \subseteq spaces /\ peopleCalls \subseteq spaces
    /\ form \in Forms \cup {"none", "members", "switcher"} /\ creating \subseteq {"channel", "workspace"}
    /\ creationCalls \subseteq Calls /\ readCalls \subseteq spaces
    /\ moves \in 0 .. MaxMoves

(***************************************************************************)
(* The sidebar lists the workspace of the conversation on screen, whether  *)
(* it was chosen there, created from a form or reached from another        *)
(* workspace: the open conversation is never missing from the list.        *)
(***************************************************************************)
WorkspaceFollowsTarget == (room # NoRoom /\ room \in roomList) => space = room[1]

\* The selected workspace exists and is that of the open conversation, whatever
\* lists arrive late and whatever is created meanwhile (selectTarget, loadBootstrap).
WorkspacesSound == WorkspacesTypeOK /\ WorkspaceFollowsTarget

(***************************************************************************)
(* A form's submit button works again: every creation, answered, refused   *)
(* or followed by a new reading of the lists, ends by clearing its flag.   *)
(***************************************************************************)
SubmitReturns == \A k \in {"channel", "workspace"} : []<>(k \notin creating)
=============================================================================
