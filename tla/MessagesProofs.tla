--------------------------- MODULE MessagesProofs ---------------------------
(***************************************************************************)
(* Proofs about the messages page.  The panes and the selected workspace   *)
(* belong to what is open; the open conversation shows each message once,  *)
(* and no bubble or loader that nothing under way settles.  For any number *)
(* of workspaces, conversations, loads and inputs.                         *)
(***************************************************************************)
EXTENDS MessagesView, MessagesWorkspace, MessagesPage, FiniteSetTheorems, TLAPS

\* A set of numbers that is not empty has a least one.
LEMMA LeastOf == ASSUME NEW T, T \subseteq Nat, T # {} PROVE \E m \in T : \A k \in T : m <= k
<1> DEFINE less == OpToRel(<, Nat)
<1>1. less = {ss \in Nat \X Nat : ss[1] < ss[2]}
  BY Zenon DEF OpToRel
<1>2. IsWellFoundedOn(less, Nat)
  BY NatLessThanWellFounded, Zenon
<1> HIDE DEF less
<1>3. PICK m \in T : \A k \in T : ~ (<<k, m>> \in less)
  BY Zenon, <1>2, WFMin
<1>4. ASSUME NEW k \in T PROVE m <= k
  <2>1. k \in Nat /\ m \in Nat /\ <<k, m>> \notin less
    BY <1>3
  <2> QED
    BY <1>1, <2>1
<1> QED
  BY <1>4

-----------------------------------------------------------------------------
(***************************************************************************)
(* The panes of the messages page (Messages.tsx).                          *)
(***************************************************************************)
\* A thread and a pane other than the list belong to an open conversation, and only
\* a wide window has its sidebar collapsed.
PanesFit ==
    /\ thread # NoMessage => open # 0
    /\ ~wide /\ pane # "list" => open # 0
    /\ collapsed => wide
ViewIInv == ViewTypeOK /\ ViewCoherent /\ PanesFit

LEMMA OfferedIsShown ==
    ASSUME NEW m \in Offered
    PROVE  m \in shown /\ RootMessageIdFor(m) \in shown /\ open # 0
BY DEF Offered, DisplayedMessages, ThreadMessages, RootMessages, RootMessageIdFor

LEMMA NoDialogType == NoDialog \in Dialog /\ NoDialog.kind = "none"
BY ViewAssumption DEF NoDialog, Dialog, DialogKind, MayBe

LEMMA DialogAfterFits ==
    ASSUME dialog \in Dialog, NEW rows
    PROVE  /\ DialogAfter(rows) \in Dialog
           /\ DialogAfter(rows).kind = "actions" => DialogAfter(rows).of \in rows
BY NoDialogType DEF DialogAfter

LEMMA ViewStarts == ViewInit => ViewIInv
<1> SUFFICES ASSUME ViewInit PROVE ViewIInv
  OBVIOUS
<1>1. ViewTypeOK
  BY Zenon, NoDialogType DEF ViewInit, ViewTypeOK, MayBe
<1> QED
  BY <1>1, NoDialogType DEF ViewInit, ViewIInv, ViewCoherent, PanesFit

\* What only opens, turns or closes a dialog.
LEMMA DialogSteps ==
    ASSUME ViewIInv,
           UNCHANGED <<wide, pane, open, shown, thread, collapsed>>,
           going' \subseteq Convs \cup {0}, fetching' \in Convs \cup {0},
           existing' \subseteq AllMessages, editing' \in MayBe(AllMessages),
           view' \in {"messages", "pins"}, dialog' \in Dialog,
           dialog'.kind = "actions" => dialog'.of \in shown
    PROVE  ViewIInv'
<1>1. ViewTypeOK'
  BY DEF ViewIInv, ViewTypeOK
<1> QED
  BY <1>1 DEF ViewIInv, ViewCoherent, PanesFit

LEMMA ClickStep ==
    ASSUME ViewIInv, Click
    PROVE  ViewIInv'
<1>1. /\ ViewTypeOK /\ ViewCoherent /\ PanesFit /\ dialog \in Dialog /\ shown \subseteq AllMessages
      /\ going \subseteq Convs \cup {0} /\ existing \subseteq AllMessages
  BY DEF ViewIInv, ViewTypeOK
<1>2. ASSUME NEW c \in Convs, SelectConversation(c) PROVE ViewIInv'
  BY <1>1, <1>2, DialogSteps DEF SelectConversation, ViewTypeOK, ViewCoherent
<1>3. CASE SelectBareWorkspace
  BY <1>1, <1>3, DialogSteps DEF SelectBareWorkspace, ViewTypeOK, ViewCoherent
<1>4. CASE CloseThread
  <2>1. /\ thread' = NoMessage /\ pane' = PaneAfter(wide, open, NoMessage, FALSE, pane) /\ open # 0
        /\ UNCHANGED <<wide, open, going, fetching, existing, shown, editing, view, dialog, collapsed>>
    BY <1>1, <1>4 DEF CloseThread, PanesFit
  <2>2. pane' \in {"list", "conversation", "thread"}
    BY <1>1, <2>1 DEF ViewTypeOK, PaneAfter
  <2>3. ~wide => pane' = "conversation"
    BY <2>1 DEF PaneAfter
  <2> QED
    BY Zenon, <1>1, <2>1, <2>2, <2>3 DEF ViewIInv, ViewTypeOK, ViewCoherent, PanesFit, MayBe
<1>5. CASE BackToConversations
  BY <1>1, <1>5 DEF BackToConversations, ViewIInv, ViewTypeOK, ViewCoherent, PanesFit
<1>6. CASE CollapseSidebar
  BY <1>1, <1>6 DEF CollapseSidebar, ViewIInv, ViewTypeOK, ViewCoherent, PanesFit
<1>7. ASSUME NEW v \in {"messages", "pins"}, SwitchView(v) PROVE ViewIInv'
  BY <1>1, <1>7, DialogSteps DEF SwitchView, ViewTypeOK, ViewCoherent
<1>8. ASSUME NEW m \in AllMessages, OpenThread(m) PROVE ViewIInv'
  <2>1. /\ thread' = RootMessageIdFor(m) /\ pane' = PaneAfter(wide, open, thread', FALSE, pane)
        /\ dialog' = NoDialog /\ m \in Offered
        /\ UNCHANGED <<wide, open, going, fetching, existing, shown, editing, view, collapsed>>
    BY <1>8 DEF OpenThread
  <2>2. thread' \in shown /\ open # 0
    BY <2>1, OfferedIsShown
  <2>3. pane' \in {"list", "conversation", "thread"}
    BY <1>1, <2>1 DEF ViewTypeOK, PaneAfter
  <2>4. ~wide /\ pane' = "thread" => thread' # NoMessage
    BY <2>1, <2>2 DEF PaneAfter
  <2> QED
    BY Zenon, <1>1, <2>1, <2>2, <2>3, <2>4, NoDialogType
    DEF ViewIInv, ViewTypeOK, ViewCoherent, PanesFit, MayBe
<1>9. ASSUME NEW m \in AllMessages, StartEdit(m) PROVE ViewIInv'
  BY <1>1, <1>9, DialogSteps, NoDialogType DEF StartEdit, ViewTypeOK, MayBe
<1>10. ASSUME NEW m \in AllMessages, OpenActions(m) \/ AskDelete(m) \/ OpenImage(m)
       PROVE  ViewIInv'
  <2>1. PICK k \in {"actions", "delete", "lightbox"}, i \in 0 .. Images - 1 :
              dialog' = [kind |-> k, of |-> m, index |-> i]
    BY <1>10, ViewAssumption DEF OpenActions, AskDelete, OpenImage
  <2>2. m \in shown
    BY <1>10, OfferedIsShown DEF OpenActions, AskDelete, OpenImage
  <2>3. dialog' \in Dialog /\ dialog'.of = m
    BY <2>1 DEF Dialog, DialogKind, MayBe
  <2>4. UNCHANGED <<wide, pane, open, going, fetching, existing, shown, thread, editing, view, collapsed>>
    BY <1>10 DEF OpenActions, AskDelete, OpenImage
  <2> QED
    BY <1>1, <2>2, <2>3, <2>4, DialogSteps DEF ViewTypeOK
<1>11. CASE EndEdit
  BY <1>1, <1>11, DialogSteps DEF EndEdit, ViewTypeOK, ViewCoherent, MayBe
<1>12. CASE ShowNextImage \/ ShowPreviousImage
  <2>1. UNCHANGED <<wide, pane, open, going, fetching, existing, shown, thread, editing, view, collapsed>>
        /\ dialog.kind = "lightbox"
    BY <1>12 DEF ShowNextImage, ShowPreviousImage
  <2>2. Images \in Nat \ {0} /\ dialog.index \in 0 .. Images - 1
    BY <1>1, ViewAssumption DEF Dialog
  <2>3. PICK i \in 0 .. Images - 1 : dialog' = [dialog EXCEPT !.index = i]
    <3>1. CASE ShowNextImage
      <4> DEFINE i == IF dialog.index + 1 < Images - 1 THEN dialog.index + 1 ELSE Images - 1
      <4>1. i \in 0 .. Images - 1
        BY <2>2
      <4>2. dialog' = [dialog EXCEPT !.index = i]
        BY <3>1 DEF ShowNextImage
      <4> QED
        BY <4>1, <4>2
    <3>2. CASE ShowPreviousImage
      <4> DEFINE i == IF dialog.index > 0 THEN dialog.index - 1 ELSE 0
      <4>1. i \in 0 .. Images - 1
        BY <2>2
      <4>2. dialog' = [dialog EXCEPT !.index = i]
        BY <3>2 DEF ShowPreviousImage
      <4> QED
        BY <4>1, <4>2
    <3> QED
      BY <1>12, <3>1, <3>2
  <2>4. dialog' \in Dialog /\ dialog'.kind = "lightbox"
    BY <1>1, <2>1, <2>3 DEF Dialog
  <2> QED
    BY <1>1, <2>1, <2>4, DialogSteps DEF ViewTypeOK
<1>13. CASE CloseDialog
  BY <1>1, <1>13, DialogSteps, NoDialogType DEF CloseDialog, ViewTypeOK
<1>14. CASE ConfirmDelete
  BY <1>1, <1>14, DialogSteps, NoDialogType DEF ConfirmDelete, ViewTypeOK
<1> QED
  BY <1>2, <1>3, <1>4, <1>5, <1>6, <1>7, <1>8, <1>9, <1>10, <1>11, <1>12, <1>13, <1>14 DEF Click

LEMMA ViewKeeps == ViewIInv /\ [ViewNext]_viewVars => ViewIInv'
<1> SUFFICES ASSUME ViewIInv, [ViewNext]_viewVars PROVE ViewIInv'
  OBVIOUS
<1>1. /\ ViewTypeOK /\ ViewCoherent /\ PanesFit /\ dialog \in Dialog /\ shown \subseteq AllMessages
      /\ going \subseteq Convs \cup {0} /\ existing \subseteq AllMessages
  BY DEF ViewIInv, ViewTypeOK
<1>2. CASE UNCHANGED viewVars
  BY <1>2 DEF viewVars, ViewIInv, ViewTypeOK, ViewCoherent, PanesFit
<1>3. CASE CommitNavigation
  <2>1. PICK c \in going :
           /\ going' = {} /\ open' = c
           /\ thread' = NoMessage /\ editing' = NoMessage /\ view' = "messages"
           /\ pane' = PaneAfter(wide, c, NoMessage, TRUE, pane)
           /\ fetching' = c
           /\ shown' = (IF c = 0 THEN {} ELSE shown)
           /\ dialog' = DialogAfter(shown')
           /\ UNCHANGED <<wide, existing, collapsed>>
    BY Zenon, <1>3 DEF CommitNavigation
  <2>2. dialog' \in Dialog /\ (dialog'.kind = "actions" => dialog'.of \in shown')
    BY <1>1, <2>1, DialogAfterFits
  <2>3. pane' \in {"list", "conversation", "thread"}
    BY <1>1, <2>1 DEF ViewTypeOK, PaneAfter
  <2>4. ~wide => pane' = (IF c # 0 THEN "conversation" ELSE "list")
    BY <2>1 DEF PaneAfter
  <2>5. ViewTypeOK'
    BY Zenon, <1>1, <2>1, <2>2, <2>3 DEF ViewTypeOK, MayBe
  <2> QED
    BY Zenon, <1>1, <2>1, <2>2, <2>4, <2>5 DEF ViewIInv, ViewCoherent, PanesFit
<1>4. ASSUME shown' \subseteq AllMessages, thread' = IfThere(thread, shown'),
             dialog' = DialogAfter(shown'), fetching' \in {fetching, 0},
             pane' = (IF thread' # thread THEN PaneAfter(wide, open, thread', FALSE, pane) ELSE pane),
             UNCHANGED <<wide, open, going, existing, editing, view, collapsed>>
      PROVE  ViewIInv'
  <2>1. dialog' \in Dialog /\ (dialog'.kind = "actions" => dialog'.of \in shown')
    BY <1>1, <1>4, DialogAfterFits
  <2>2. thread' \in MayBe(AllMessages) /\ (thread' # NoMessage => thread' \in shown' /\ thread' = thread)
    BY <1>1, <1>4 DEF IfThere, MayBe, ViewTypeOK
  <2>3. pane' \in {"list", "conversation", "thread"}
    BY <1>1, <1>4 DEF ViewTypeOK, PaneAfter
  <2>4. thread' # thread /\ ~wide => pane' = "conversation"
    BY <1>1, <1>4, <2>2 DEF PaneAfter, PanesFit
  <2>5. ViewTypeOK'
    BY Zenon, <1>1, <1>4, <2>1, <2>2, <2>3 DEF ViewTypeOK
  <2>6. thread' = thread => pane' = pane
    BY <1>4
  <2> QED
    BY Zenon, <1>1, <1>4, <2>1, <2>2, <2>4, <2>5, <2>6 DEF ViewIInv, ViewCoherent, PanesFit
<1>5. CASE ConversationLoaded
  BY <1>1, <1>4, <1>5 DEF ConversationLoaded
<1>6. CASE ConversationLoadFailed
  BY <1>1, <1>6, DialogSteps DEF ConversationLoadFailed, ViewTypeOK, ViewCoherent
<1>7. CASE Resize
  <2>1. /\ wide' = ~wide /\ collapsed' = (collapsed /\ wide')
        /\ pane' = PaneAfter(wide', open, thread, TRUE, pane)
        /\ UNCHANGED <<open, going, fetching, existing, shown, thread, editing, view, dialog>>
    BY <1>7 DEF Resize
  <2>2. wide' \in BOOLEAN /\ collapsed' \in BOOLEAN /\ (collapsed' => wide')
    BY <1>1, <2>1, Zenon DEF ViewTypeOK
  <2>3. pane' \in {"list", "conversation", "thread"}
    BY <1>1, <2>1 DEF ViewTypeOK, PaneAfter
  <2>4. ~wide' => /\ pane' = "thread" => thread # NoMessage
                  /\ pane' # "list" => open # 0
    BY <1>1, <2>1 DEF PaneAfter, PanesFit
  <2>5. ViewTypeOK'
    BY Zenon, <1>1, <2>1, <2>2, <2>3 DEF ViewTypeOK
  <2> QED
    BY Zenon, <1>1, <2>1, <2>2, <2>4, <2>5 DEF ViewIInv, ViewCoherent, PanesFit
<1>8. ASSUME NEW m \in AllMessages, DeletedElsewhere(m) PROVE ViewIInv'
  BY <1>1, <1>8, DialogSteps DEF DeletedElsewhere, ViewTypeOK, ViewCoherent
<1>9. ASSUME NEW m \in AllMessages, MessageDeleted(m) PROVE ViewIInv'
  BY <1>1, <1>4, <1>9 DEF MessageDeleted
<1> QED
  BY <1>2, <1>3, <1>5, <1>6, <1>7, <1>8, <1>9, ClickStep DEF ViewNext

\* For any conversations and pictures: the thread and the action sheet are about
\* messages that are drawn, and the reader can always get back to the list, however
\* loads, deletions, clicks and changes of the window's width interleave.
THEOREM PanesAreSound == ViewSpec => []ViewSound
<1>1. ViewIInv => ViewSound
  BY DEF ViewIInv, ViewSound, WayBack, ShowListPane, ShowCollapsedRail, ShowBackButton,
         ShowConversationPane, ViewTypeOK, PanesFit
<1> QED
  BY <1>1, ViewStarts, ViewKeeps, PTL DEF ViewSpec

-----------------------------------------------------------------------------
(***************************************************************************)
(* The workspaces of the messages page (Messages.tsx).                     *)
(***************************************************************************)

\* A conversation waiting to be opened is in the lists, and a creation that is
\* done names a conversation that exists.
MovesFit ==
    \A m \in moving : m.space \in spaces \cup {0} /\ m.room \in roomList \cup {NoRoom}
CreationsFit ==
    \A c \in creationCalls :
        c.in \in spaces \cup {0} /\ (c.step = "listing" => c.at \in rooms)
\* The open conversation belongs to the selected workspace, listed or not.
RoomInSpace == room # NoRoom => space = room[1]
\* The first workspace is never deleted: a new page starts in it.
HasFirst == 1 \in spaces
WorkspacesInv == WorkspacesTypeOK /\ MovesFit /\ CreationsFit /\ RoomInSpace /\ HasFirst

\* selectWorkspace finds a conversation of the workspace, or none.
LEMMA FirstRoomFits ==
    ASSUME NEW rows, rows \subseteq Rooms, NEW w
    PROVE  FirstRoom(rows, w) \in rows \cup {NoRoom}
           /\ (FirstRoom(rows, w) # NoRoom => FirstRoom(rows, w)[1] = w)
<1> DEFINE own == RoomsOf(rows, w)
<1>1. CASE own = {}
  BY <1>1 DEF FirstRoom
<1>2. CASE own # {}
  <2> DEFINE T == {r[2] : r \in own}
  <2>1. T \subseteq Nat /\ T # {}
    BY <1>2 DEF RoomsOf, Rooms
  <2>2. PICK m \in T : \A k \in T : m <= k
    BY Zenon, <2>1, LeastOf
  <2>3. \E r \in own : \A q \in own : r[2] <= q[2]
    BY <2>2
  <2>4. FirstRoom(rows, w) \in own
    BY <1>2, <2>3 DEF FirstRoom
  <2> QED
    BY <2>4 DEF RoomsOf
<1> QED
  BY <1>1, <1>2

\* The list a new page opens has a first conversation if it has any.
LEMMA FirstOfAll ==
    ASSUME NEW rows, rows \subseteq Rooms, rows # {}
    PROVE  (CHOOSE r \in rows : \A q \in rows : r[1] <= q[1]) \in rows
<1> DEFINE T == {r[1] : r \in rows}
<1>1. T \subseteq Nat /\ T # {}
  BY WorkspaceAssumption DEF Rooms, Spaces
<1>2. PICK m \in T : \A k \in T : m <= k
  BY Zenon, <1>1, LeastOf
<1>3. \E r \in rows : \A q \in rows : r[1] <= q[1]
  BY <1>2
<1> QED
  BY <1>3

\* A creation the server accepts makes a conversation of a known number, in
\* the workspace that was asked for or in a new one.
LEMMA NewRoomFits ==
    ASSUME WorkspacesTypeOK, CreationsFit, NEW c \in creationCalls, MayCreate(c)
    PROVE  NewRoom(c) \in Rooms
<1> DEFINE w == IF c.kind = "workspace" THEN CHOOSE v \in Spaces \ spaces : TRUE ELSE c.in
           free == {k \in 1 .. MaxRooms : <<w, k>> \notin rooms}
<1>1. NewRoom(c) = <<w, CHOOSE k \in free : \A j \in free : k <= j>>
  BY DEF NewRoom
<1>2. w \in Spaces /\ free # {}
  <2>1. CASE c.kind = "workspace"
    <3>1. Spaces \ spaces # {}
      BY <2>1 DEF MayCreate, WorkspacesTypeOK
    <3>2. w \in Spaces \ spaces
      BY <2>1, <3>1
    <3>3. <<w, 1>> \notin rooms
      BY <3>2 DEF WorkspacesTypeOK
    <3>4. 1 \in 1 .. MaxRooms
      BY WorkspaceAssumption
    <3> QED
      BY Zenon, <3>2, <3>3, <3>4
  <2>2. CASE c.kind # "workspace"
    <3>1. w = c.in /\ c.in # 0 /\ Cardinality(RoomsOf(rooms, c.in)) < MaxRooms
      BY <2>2 DEF MayCreate
    <3>2. w \in Spaces
      BY <3>1 DEF CreationsFit, WorkspacesTypeOK
    <3> HIDE DEF w
    <3>3. ASSUME free = {} PROVE FALSE
      <4> DEFINE own == RoomsOf(rooms, w)
                 f == [k \in 1 .. MaxRooms |-> <<w, k>>]
      <4>1. MaxRooms \in Nat /\ IsFiniteSet(1 .. MaxRooms) /\ Cardinality(1 .. MaxRooms) = MaxRooms
        BY WorkspaceAssumption, FS_Interval
      <4>2. f \in [1 .. MaxRooms -> own]
        BY <3>3 DEF RoomsOf
      <4>3. \A a, b \in 1 .. MaxRooms : f[a] = f[b] => a = b
        OBVIOUS
      <4>4. \A r \in own : \E k \in 1 .. MaxRooms : f[k] = r
        BY <3>2 DEF RoomsOf, WorkspacesTypeOK, Rooms
      <4> HIDE DEF f
      <4>5. f \in Bijection(1 .. MaxRooms, own)
        BY <4>2, <4>3, <4>4 DEF Bijection, Injection, Surjection, IsInjective
      <4>6. Cardinality(own) = MaxRooms
        BY <4>1, <4>5, FS_Bijection DEF ExistsBijection
      <4> QED
        BY <3>1, <4>1, <4>6
    <3> QED
      BY <3>2, <3>3
  <2> QED
    BY <2>1, <2>2
<1> HIDE DEF w
<1>3. free \subseteq Nat
  OBVIOUS
<1>4. \E k \in free : \A j \in free : k <= j
  BY Zenon, <1>2, <1>3, LeastOf
<1>5. (CHOOSE k \in free : \A j \in free : k <= j) \in free
  BY <1>4
<1> DEFINE n == CHOOSE k \in free : \A j \in free : k <= j
<1>6. n \in 1 .. MaxRooms
  BY <1>5
<1>7. NewRoom(c) = <<w, n>>
  BY <1>1
<1> HIDE DEF n
<1> QED
  BY <1>2, <1>6, <1>7 DEF Rooms

\* What the effects on the selected workspace load is about a workspace.
LEMMA ArrivalFits ==
    ASSUME WorkspacesTypeOK, NEW w \in spaces \cup {0}, LoadFor(w)
    PROVE  detailCalls' \subseteq spaces /\ peopleCalls' \subseteq spaces /\ detail' \in spaces \cup {0}
  BY DEF WorkspacesTypeOK, LoadFor

LEMMA WorkspacesStart == WorkspacesInit => WorkspacesInv
<1> SUFFICES ASSUME WorkspacesInit PROVE WorkspacesInv
  OBVIOUS
<1>1. {1, 2} \subseteq Spaces /\ <<1, 1>> \in Rooms /\ 0 \in 0 .. MaxMoves
  BY WorkspaceAssumption DEF Spaces, Rooms
<1> QED
  BY <1>1 DEF WorkspacesInit, WorkspacesInv, WorkspacesTypeOK, MovesFit, CreationsFit, RoomInSpace, HasFirst, Forms, Calls, NoRoom

LEMMA WorkspacesKeep == WorkspacesInv /\ [WorkspacesNext]_spaceVars => WorkspacesInv'
<1> SUFFICES ASSUME WorkspacesInv, [WorkspacesNext]_spaceVars PROVE WorkspacesInv'
  OBVIOUS
<1> USE DEF WorkspacesInv
<1>0. /\ spaces \subseteq Spaces /\ rooms \subseteq Rooms /\ roomList \subseteq rooms /\ spaceList \subseteq spaces
      /\ \A r \in rooms : r[1] \in spaces
      /\ NoRoom \notin Rooms /\ moves \in 0 .. MaxMoves /\ MaxMoves \in Nat
  BY WorkspaceAssumption DEF WorkspacesTypeOK, Rooms, Spaces, NoRoom
<1>1. CASE ListsLoaded
  <2> DEFINE first == CHOOSE r \in rooms : \A q \in rooms : r[1] <= q[1]
  <2>1. /\ spaceList' = spaces /\ roomList' = rooms /\ unread' \subseteq rooms
        /\ room' = (IF rooms = {} THEN NoRoom ELSE first)
        /\ space' = SpaceOf(room', rooms, 1) /\ LoadFor(space')
        /\ UNCHANGED <<rooms, spaces, moving, peopleOf, form, creating, creationCalls, readCalls, moves>>
    BY <1>1 DEF ListsLoaded
  <2>2. room' \in rooms \cup {NoRoom}
    BY <1>0, <2>1, FirstOfAll
  <2> HIDE DEF first
  <2>3. 1 \in spaces
    BY DEF HasFirst
  <2>4. space' \in spaces \cup {0} /\ (room' # NoRoom => space' = room'[1])
    BY <1>0, <2>1, <2>2, <2>3 DEF SpaceOf
  <2>5. WorkspacesTypeOK'
    BY <2>1, <2>2, <2>4, ArrivalFits DEF WorkspacesTypeOK
  <2>6. (MovesFit /\ CreationsFit /\ RoomInSpace)'
    BY <1>0, <2>1, <2>4 DEF MovesFit, CreationsFit, RoomInSpace
  <2> QED
    BY <2>1, <2>3, <2>5, <2>6 DEF HasFirst
<1>2. ASSUME NEW r \in Rooms, SelectRoom(r) PROVE WorkspacesInv'
  <2>1. moving' = {[space |-> space, room |-> r]} /\ r \in roomList /\ moves < MaxMoves /\ moves' = moves + 1
        /\ UNCHANGED <<rooms, spaces, roomList, spaceList, space, room, detail, peopleOf, detailCalls, peopleCalls,
                       form, creating, creationCalls, unread, readCalls>>
    BY <1>2 DEF SelectRoom
  <2>2. WorkspacesTypeOK'
    BY <1>0, <2>1 DEF WorkspacesTypeOK
  <2>3. MovesFit'
    BY <2>1 DEF MovesFit, WorkspacesTypeOK
  <2> QED
    BY <2>1, <2>2, <2>3 DEF CreationsFit, RoomInSpace, HasFirst
<1>3. ASSUME NEW w \in Spaces, SelectWorkspace(w) PROVE WorkspacesInv'
  <2>1. moving' = {[space |-> w, room |-> FirstRoom(roomList, w)]} /\ w \in spaceList /\ moves < MaxMoves
        /\ moves' = moves + 1 /\ form' = "none"
        /\ UNCHANGED <<rooms, spaces, roomList, spaceList, space, room, detail, peopleOf, detailCalls, peopleCalls,
                       creating, creationCalls, unread, readCalls>>
    BY <1>3 DEF SelectWorkspace, MoveTo
  <2>2. WorkspacesTypeOK'
    BY <1>0, <2>1 DEF WorkspacesTypeOK
  <2>3. FirstRoom(roomList, w) \in roomList \cup {NoRoom}
    BY Zenon, <1>0, FirstRoomFits
  <2>4. MovesFit'
    <3>1. \A m \in moving' : m.space = w /\ m.room = FirstRoom(roomList, w)
      <4>1. \A m \in moving' : m = [space |-> w, room |-> FirstRoom(roomList, w)]
        BY Zenon, <2>1
      <4> QED
        BY <4>1
    <3>2. w \in spaces
      BY Zenon, <1>0, <2>1 DEF WorkspacesTypeOK
    <3> QED
      BY Zenon, <2>1, <2>3, <3>1, <3>2 DEF MovesFit
  <2> QED
    BY <2>1, <2>2, <2>4 DEF CreationsFit, RoomInSpace, HasFirst
<1>4. CASE CommitMove
  <2>1. PICK m \in moving : moving' = {} /\ room' = m.room /\ space' = SpaceOf(m.room, roomList, m.space)
           /\ LoadFor(space')
           /\ UNCHANGED <<rooms, spaces, roomList, spaceList, peopleOf, form, creating, creationCalls, unread,
                          readCalls, moves>>
    BY <1>4 DEF CommitMove
  <2>2. m.space \in spaces \cup {0} /\ m.room \in roomList \cup {NoRoom}
    BY DEF MovesFit
  <2>3. space' \in spaces \cup {0} /\ (room' # NoRoom => space' = room'[1])
    BY <1>0, <2>1, <2>2 DEF SpaceOf
  <2>4. WorkspacesTypeOK'
    BY Zenon, <1>0, <2>1, <2>2, <2>3, ArrivalFits DEF WorkspacesTypeOK
  <2> QED
    BY <2>1, <2>3, <2>4 DEF MovesFit, CreationsFit, RoomInSpace, HasFirst
<1>5. ASSUME NEW w \in Spaces, NEW ok \in BOOLEAN, DetailAnswered(w, ok) \/ PeopleAnswered(w, ok) PROVE WorkspacesInv'
  <2>1. WorkspacesTypeOK'
    BY Zenon, <1>5 DEF DetailAnswered, PeopleAnswered, WorkspacesTypeOK
  <2> QED
    BY <1>5, <2>1 DEF DetailAnswered, PeopleAnswered, MovesFit, CreationsFit, RoomInSpace, HasFirst
<1>6. ASSUME NEW w \in Spaces, WorkspaceMarked(w) \/ MarkWorkspaceRead(w) PROVE WorkspacesInv'
  <2>1. WorkspacesTypeOK'
    <3>1. CASE WorkspaceMarked(w)
      BY <3>1 DEF WorkspaceMarked, WorkspacesTypeOK
    <3>2. CASE MarkWorkspaceRead(w)
      <4>1. readCalls' = readCalls \cup {w} /\ w \in spaceList /\ moves' \in 0 .. MaxMoves
        BY <1>0, <3>2 DEF MarkWorkspaceRead
      <4> QED
        BY <3>2, <4>1 DEF MarkWorkspaceRead, WorkspacesTypeOK
    <3> QED
      BY <1>6, <3>1, <3>2
  <2> QED
    BY <1>6, <2>1 DEF WorkspaceMarked, MarkWorkspaceRead, MovesFit, CreationsFit, RoomInSpace, HasFirst
<1>7. ASSUME NEW r \in Rooms, MessageUnread(r) PROVE WorkspacesInv'
  <2>1. WorkspacesTypeOK'
    BY Zenon, <1>0, <1>7 DEF MessageUnread, WorkspacesTypeOK
  <2> QED
    BY <1>7, <2>1 DEF MessageUnread, MovesFit, CreationsFit, RoomInSpace, HasFirst
<1>8. ASSUME \/ \E f \in Forms \cup {"members", "switcher"} : OpenForm(f)
             \/ CloseForm
      PROVE  WorkspacesInv'
  <2>1. form' \in Forms \cup {"none", "members", "switcher"}
        /\ UNCHANGED <<rooms, spaces, roomList, spaceList, space, room, moving, detail, peopleOf, detailCalls,
                       peopleCalls, creating, creationCalls, unread, readCalls, moves>>
    BY <1>8 DEF OpenForm, CloseForm
  <2>2. WorkspacesTypeOK'
    BY Zenon, <2>1 DEF WorkspacesTypeOK
  <2> QED
    BY <2>1, <2>2 DEF MovesFit, CreationsFit, RoomInSpace, HasFirst
<1>9. ASSUME NEW k \in Forms, Submit(k) PROVE WorkspacesInv'
  <2> DEFINE d == [kind |-> k, step |-> "sent", in |-> IF k = "workspace" THEN 0 ELSE space, at |-> NoRoom]
  <2>1. creationCalls' = creationCalls \cup {d} /\ moves < MaxMoves /\ moves' = moves + 1
        /\ creating' = creating \cup ({k} \ {"dm"})
        /\ UNCHANGED <<rooms, spaces, roomList, spaceList, space, room, moving, detail, peopleOf, detailCalls,
                       peopleCalls, form, unread, readCalls>>
    BY <1>9 DEF Submit
  <2>2. d \in Calls /\ d.in \in spaces \cup {0} /\ d.step # "listing"
    BY <1>0 DEF Calls, WorkspacesTypeOK
  <2> HIDE DEF d
  <2>3. WorkspacesTypeOK'
    BY <1>0, <2>1, <2>2 DEF WorkspacesTypeOK, Forms
  <2>4. CreationsFit'
    BY <2>1, <2>2 DEF CreationsFit
  <2> QED
    BY Zenon, <2>1, <2>3, <2>4 DEF MovesFit, RoomInSpace, HasFirst
<1>10. ASSUME NEW c \in creationCalls, CreateAnswered(c) PROVE WorkspacesInv'
  <2> DEFINE n == NewRoom(c)
             d == [c EXCEPT !.step = "listing", !.at = n]
  <2>1. /\ rooms' = rooms \cup {n} /\ spaces' = spaces \cup {n[1]}
        /\ creationCalls' = (creationCalls \ {c}) \cup {d}
        /\ form' = IF c.kind # "dm" /\ form = c.kind THEN "none" ELSE form
        /\ UNCHANGED <<roomList, spaceList, space, room, moving, detail, peopleOf, detailCalls, peopleCalls,
                       creating, unread, readCalls, moves>>
    BY <1>10 DEF CreateAnswered
  <2>2. n \in Rooms
    BY <1>10, NewRoomFits DEF CreateAnswered
  <2>3. n[1] \in Spaces
    BY <2>2 DEF Rooms
  <2> HIDE DEF n
  <2>4. c \in Calls /\ c.in \in spaces \cup {0}
    BY DEF WorkspacesTypeOK, CreationsFit
  <2>5. d \in Calls /\ d.in = c.in /\ d.at = n
    BY Zenon, <2>2, <2>4 DEF Calls
  <2> HIDE DEF d
  <2>6. WorkspacesTypeOK'
    <3>1. spaces' \subseteq Spaces /\ rooms' \subseteq Rooms /\ \A r \in rooms' : r[1] \in spaces'
      BY <1>0, <2>1, <2>2, <2>3
    <3>2. creationCalls' \subseteq Calls /\ form' \in Forms \cup {"none", "members", "switcher"}
      BY <2>1, <2>5 DEF WorkspacesTypeOK
    <3> QED
      BY <2>1, <3>1, <3>2 DEF WorkspacesTypeOK
  <2>7. CreationsFit'
    BY <2>1, <2>4, <2>5 DEF CreationsFit
  <2> QED
    BY <2>1, <2>6, <2>7 DEF MovesFit, RoomInSpace, HasFirst
<1>11. ASSUME NEW c \in creationCalls, CreateRefused(c) PROVE WorkspacesInv'
  <2>1. WorkspacesTypeOK'
    BY ZenonT(40), <1>11 DEF CreateRefused, WorkspacesTypeOK
  <2> QED
    BY <1>11, <2>1 DEF CreateRefused, MovesFit, CreationsFit, RoomInSpace, HasFirst
<1>12. ASSUME NEW c \in creationCalls, CreationListed(c) PROVE WorkspacesInv'
  <2>1. /\ c.step = "listing" /\ creationCalls' = creationCalls \ {c} /\ creating' = creating \ {c.kind}
        /\ roomList' = rooms /\ spaceList' = spaces
        /\ moving' = IF c.kind = "workspace" THEN MoveTo(c.at[1], {}) ELSE {[space |-> space, room |-> c.at]}
        /\ detail' = IF c.kind = "workspace" THEN c.at[1] ELSE detail
        /\ form' \in {"members", "none", form}
        /\ UNCHANGED <<rooms, spaces, space, peopleOf, room, detailCalls, peopleCalls, unread, readCalls, moves>>
    BY Zenon, <1>12 DEF CreationListed
  <2>2. c.at \in rooms /\ c.at[1] \in spaces
    BY <1>0, <2>1 DEF CreationsFit
  <2>3. WorkspacesTypeOK'
    BY Zenon, <2>1, <2>2 DEF WorkspacesTypeOK
  <2>4. MovesFit'
    <3>1. FirstRoom({}, c.at[1]) = NoRoom
      BY DEF FirstRoom, RoomsOf
    <3> QED
      BY <2>1, <2>2, <3>1 DEF MovesFit, MoveTo, WorkspacesTypeOK
  <2> QED
    BY <2>1, <2>3, <2>4 DEF CreationsFit, RoomInSpace, HasFirst
<1>13. CASE UNCHANGED spaceVars
  BY <1>13 DEF spaceVars, WorkspacesTypeOK, MovesFit, CreationsFit, RoomInSpace, HasFirst
<1> QED
  BY <1>1, <1>2, <1>3, <1>4, <1>5, <1>6, <1>7, <1>8, <1>9, <1>10, <1>11, <1>12, <1>13
  DEF WorkspacesNext, CreationAdvances

\* The selected workspace exists and is that of the open conversation, whatever
\* lists arrive late and whatever is created meanwhile (selectTarget,
\* loadBootstrap of Messages.tsx).
THEOREM WorkspacesAreSound == WorkspacesSpec => []WorkspacesSound
<1>1. WorkspacesInv => WorkspacesSound
  BY DEF WorkspacesInv, WorkspacesSound, WorkspaceFollowsTarget, RoomInSpace
<1> QED
  BY <1>1, WorkspacesStart, WorkspacesKeep, PTL DEF WorkspacesSpec

-----------------------------------------------------------------------------
(***************************************************************************)
(* The open conversation (Messages.tsx).                                   *)
(***************************************************************************)

\* A message as the server sends it, and a live event about one.
Saved == {m \in Message : m.state = "sent" /\ m.id > 0}
SavedEvent == {e \in MessageEvent : e.message \in Saved}

\* No two messages of a set have one id.
Distinct(S) == \A m, n \in S : m.id = n.id => m = n

\* What the server holds has its own ids, none newer than lastId, and the live
\* events were read from the server.
ServerFits ==
    /\ posted \subseteq Saved /\ IsFiniteSet(posted) /\ Distinct(posted)
    /\ lastId \in Nat /\ \A m \in posted : m.id <= lastId
    /\ unseen \subseteq Ids /\ feed \in BOOLEAN /\ wire \in Seq(SavedEvent)

\* The loads under way are well formed, and hold what the server had.
LoadsFit ==
    /\ loads \in [Slots -> TargetLoad] /\ {loader, refreshing} \subseteq BOOLEAN
    /\ \A s \in Slots : loads[s].data \subseteq Saved /\ Distinct(loads[s].data)

\* So are the sends and the changes; and every id was paid for by an input: a
\* post by the input itself, the message of a send by the input that sent it.
Unsaved == {c \in sends : c.saved = 0}
CallsFit ==
    /\ sends \subseteq SendCall /\ changes \subseteq ChangeCall /\ marks \subseteq Targets
    /\ \A c \in changes : c.answer \subseteq Saved
    /\ sent \in Nat /\ inputs \in Nat /\ sent <= inputs /\ inputs <= MaxInputs
    /\ IsFiniteSet(Unsaved) /\ lastId \in Nat
    /\ lastId + Cardinality(Unsaved) <= inputs + 1

\* The bubbles: one of each id, and none from a send yet to come.
BubblesFit ==
    /\ list \subseteq Message /\ pins \subseteq Message /\ badge \in [Targets -> Nat]
    /\ Distinct(list) /\ Distinct(pins) /\ \A m \in list : m.id >= -sent
    /\ PendingHasSend

\* The target and the loader over it.
OpenFits ==
    /\ selected \in Targets \cup {NoTarget} /\ wanted \in Targets \cup {NoTarget}
    /\ reading \in {"hidden", "thread", "scrolled", "bottom"}
    /\ LoaderHasLoad

PageInv == ServerFits /\ LoadsFit /\ CallsFit /\ BubblesFit /\ OpenFits

\* A pin or a reaction changes neither a message's id nor its state (Applied).
LEMMA IdsAreInts == \A m \in Message : m.id \in Int
  BY DEF Message, Ids, TempIds

LEMMA AppliedFits ==
    ASSUME NEW m \in Saved, NEW kind \in {"pin", "like"}, NEW on \in BOOLEAN, NEW who \in {"me", "others"}
    PROVE  Applied(m, kind, on, who) \in Saved /\ Applied(m, kind, on, who).id = m.id
           /\ Applied(m, kind, on, who).conv = m.conv
<1>1. m.likes \in SUBSET {"me", "others"} /\ m.pinned \in BOOLEAN
  BY DEF Saved, Message
<1> DEFINE p == [m EXCEPT !.pinned = on]
           l(x) == [m EXCEPT !.likes = x]
<1>2. p \in Saved /\ p.id = m.id /\ p.conv = m.conv
  BY DEF Saved, Message
<1>3. ASSUME NEW x \in SUBSET {"me", "others"} PROVE l(x) \in Saved /\ l(x).id = m.id /\ l(x).conv = m.conv
  BY DEF Saved, Message
<1>4. Applied(m, kind, on, who) = p \/ \E x \in SUBSET {"me", "others"} : Applied(m, kind, on, who) = l(x)
  <2>1. CASE kind = "pin"
    BY <2>1 DEF Applied
  <2>2. CASE kind = "like"
    <3> DEFINE x == IF on THEN m.likes \cup {who} ELSE m.likes \ {who}
    <3>1. x \in SUBSET {"me", "others"}
      BY <1>1
    <3>2. Applied(m, kind, on, who) = l(x)
      BY <2>2 DEF Applied
    <3> QED
      BY Zenon, <3>1, <3>2
  <2> QED
    BY <2>1, <2>2
<1> HIDE DEF p, l
<1> QED
  BY <1>2, <1>3, <1>4

\* Adding a message whose id is not there keeps the ids apart (Added).
LEMMA AddedFits ==
    ASSUME NEW S, S \subseteq Message, Distinct(S), NEW m \in Message, ById(S, m.id) = {}
    PROVE  /\ Added(S, m) \subseteq Message /\ Distinct(Added(S, m))
           /\ \A x \in Added(S, m) : x \in S \/ (x.id = m.id /\ x.state = m.state)
<1> DEFINE a == [m EXCEPT !.copy = 0]
<1>1. Added(S, m) = S \cup {a}
  BY FS_EmptySet DEF Added
<1>2. a \in Message /\ a.id = m.id /\ a.state = m.state
  BY DEF Message
<1> HIDE DEF a
<1> QED
  BY <1>1, <1>2 DEF Distinct, ById

\* An event about a message shown already changes its bubble (Merged).
LEMMA MergedFits ==
    ASSUME NEW S, S \subseteq Message, Distinct(S), NEW m \in Saved
    PROVE  /\ Merged(S, m) \subseteq Message /\ Distinct(Merged(S, m))
           /\ \A x \in Merged(S, m) : x \in S \/ (x.id = m.id /\ x.state = "sent")
<1>1. m \in Message /\ m.state = "sent"
  BY DEF Saved
<1>2. CASE ById(S, m.id) = {}
  BY <1>1, <1>2, AddedFits DEF Merged
<1>3. CASE ById(S, m.id) # {}
  <2>1. ASSUME NEW x \in S
        PROVE  LET y == MergeIncomingMessage(x, m) IN y \in Message /\ y.id = m.id /\ y.state = "sent"
    <3> DEFINE k == IF "me" \in x.likes /\ m.likes # {} THEN m.likes \cup {"me"} ELSE m.likes
    <3>1. MergeIncomingMessage(x, m) = [m EXCEPT !.likes = k]
      BY DEF MergeIncomingMessage
    <3>2. k \in SUBSET {"me", "others"}
      BY <1>1 DEF Message
    <3> HIDE DEF k
    <3> QED
      BY <1>1, <3>1, <3>2 DEF Message
  <2>2. Merged(S, m) = {IF x.id = m.id THEN MergeIncomingMessage(x, m) ELSE x : x \in S}
    BY <1>3 DEF Merged
  <2> QED
    BY <2>1, <2>2 DEF Distinct
<1> QED
  BY <1>2, <1>3

\* The same of a bubble replaced by the answer to a change (ReplaceById).
LEMMA ReplacedFits ==
    ASSUME NEW S, S \subseteq Message, Distinct(S), NEW m \in Saved
    PROVE  /\ ReplaceById(S, m) \subseteq Message /\ Distinct(ReplaceById(S, m))
           /\ \A x \in ReplaceById(S, m) : x \in S \/ (x.id = m.id /\ x.state = "sent")
  BY DEF ReplaceById, Distinct, Saved

LEMMA WithoutFits ==
    ASSUME NEW S, Distinct(S), NEW i
    PROVE  WithoutId(S, i) \subseteq S /\ Distinct(WithoutId(S, i)) /\ \A x \in WithoutId(S, i) : x.id # i
  BY DEF WithoutId, Distinct

LEMMA UpsertFits ==
    ASSUME NEW S, S \subseteq Message, Distinct(S), NEW m \in Saved
    PROVE  UpsertPinnedMessage(S, m) \subseteq Message /\ Distinct(UpsertPinnedMessage(S, m))
  BY MergedFits, WithoutFits DEF UpsertPinnedMessage
Foreground(s) == loads[s].phase \notin {"idle", "stale"} /\ ~ loads[s].background

LEMMA IdleLoadFits == IdleLoad \in TargetLoad /\ IdleLoad.data = {} /\ IdleLoad.phase = "idle"
  BY DEF IdleLoad, TargetLoad, Phase

\* A new load takes a free slot; the older ones are superseded (LoadTarget).
LEMMA LoadStarts ==
    ASSUME LoadsFit, NEW t \in Targets, NEW mark \in BOOLEAN, NEW background \in BOOLEAN,
           LoadTarget(t, mark, background)
    PROVE  LoadsFit' /\ (~ background => \E s \in Slots : Foreground(s)') /\ (background => loader' = loader)
<1> DEFINE new == Min(FreeSlots)
           d == [IdleLoad EXCEPT !.phase = "get", !.target = t, !.background = background, !.markRead = mark]
<1>1. new \in Slots
  <2>1. FreeSlots \subseteq Nat /\ FreeSlots # {}
    BY PageAssumption DEF FreeSlots, LoadTarget
  <2>2. \E x \in FreeSlots : \A y \in FreeSlots : x <= y
    BY Zenon, <2>1, LeastOf
  <2>3. Min(FreeSlots) \in FreeSlots
    BY <2>2 DEF Min
  <2> QED
    BY <2>3 DEF FreeSlots
<1>2. loads' = [s \in Slots |-> IF s = new THEN d ELSE Superseded(loads[s])]
      /\ loader' = (loader \/ ~ background) /\ refreshing' = (refreshing \/ background)
  BY DEF LoadTarget
<1> HIDE DEF new
<1>3. d \in TargetLoad /\ d.data = {} /\ d.phase = "get" /\ d.background = background
  BY Zenon DEF IdleLoad, TargetLoad, Phase
<1> HIDE DEF d
<1>4. ASSUME NEW l \in TargetLoad
      PROVE  Superseded(l) \in TargetLoad /\ Superseded(l).data \in {{}, l.data}
  <2> DEFINE e == [l EXCEPT !.phase = "stale", !.data = {}, !.unread = 0]
  <2>1. e \in TargetLoad /\ e.data = {}
    BY Zenon DEF TargetLoad, Phase
  <2>2. Superseded(l) \in {e, l}
    BY DEF Superseded
  <2> HIDE DEF e
  <2> QED
    BY <2>1, <2>2
<1>5. \A s \in Slots : loads'[s] \in TargetLoad /\ loads'[s].data \in {{}, loads[s].data}
  BY <1>2, <1>3, <1>4 DEF LoadsFit
<1>6. LoadsFit'
  <2>1. loads' \in [Slots -> TargetLoad]
    BY <1>2, <1>5
  <2>2. \A s \in Slots : loads'[s].data \subseteq Saved /\ Distinct(loads'[s].data)
    BY <1>5 DEF LoadsFit, Distinct
  <2>3. loader' \in BOOLEAN /\ refreshing' \in BOOLEAN
    BY <1>2, Zenon
  <2> QED
    BY <2>1, <2>2, <2>3 DEF LoadsFit
<1>7. ASSUME ~ background, NEW k \in Slots, k = new PROVE Foreground(k)'
  <2>1. loads'[k] = d
    BY <1>2, <1>7
  <2> QED
    BY <1>3, <1>7, <2>1 DEF Foreground
<1>8. background => loader' = loader
  BY <1>2 DEF LoadsFit
<1> QED
  BY <1>1, <1>6, <1>7, <1>8

\* A load that ends takes its own indicator with it (the end of loadTarget).
LEMMA LoadEnds ==
    ASSUME LoadsFit, NEW s \in Slots, LoadDone(s)
    PROVE  /\ LoadsFit'
           /\ loader' => loader /\ loads[s].background
           /\ \A q \in Slots : q # s => loads'[q] = loads[q]
<1>1. loads' = [loads EXCEPT ![s] = IdleLoad] /\ loader' = (loader /\ loads[s].background)
      /\ refreshing' = (refreshing /\ ~ loads[s].background)
  BY DEF LoadDone
<1>2. loader' \in BOOLEAN /\ refreshing' \in BOOLEAN
  BY <1>1, Zenon
<1>3. LoadsFit'
  BY <1>1, <1>2, IdleLoadFits DEF LoadsFit, Distinct
<1> QED
  BY Zenon, <1>1, <1>3 DEF LoadsFit

\* A count of unread messages is a number.
LEMMA CountFits ==
    ASSUME NEW S, IsFiniteSet(S), NEW T, T \subseteq S
    PROVE  IsFiniteSet(T) /\ Cardinality(T) \in Nat
  BY FS_Subset, FS_CardinalityType

LEMMA BroadcastFits ==
    ASSUME wire \in Seq(SavedEvent), IsFiniteSet(posted'), NEW m \in Saved,
           NEW event \in {"created", "updated", "deleted"}, Broadcast(event, m)
    PROVE  wire' \in Seq(SavedEvent)
<1> DEFINE n == Cardinality({x \in posted' : x.conv = m.conv /\ x.id \in unseen'})
           e == [event |-> event, message |-> m, unread |-> n]
<1>1. n \in Nat
  BY CountFits
<1>2. wire' \in {Append(wire, e), wire}
  BY DEF Broadcast
<1> HIDE DEF n
<1>3. e \in SavedEvent
  BY <1>1 DEF SavedEvent, MessageEvent, Saved
<1> HIDE DEF e
<1> QED
  BY <1>2, <1>3

LEMMA SuccPositive == \A n \in Nat : n + 1 > 0
OBVIOUS

\* A message that is created gets the next id and is broadcast.
LEMMA CreateFits ==
    ASSUME ServerFits, lastId + 1 \in Ids, NEW conv \in Targets, NEW mine \in BOOLEAN,
           CreateMessage(conv, mine)
    PROVE  lastId' = lastId + 1 /\ (feed' = feed => ServerFits')
<1> DEFINE m == [id |-> lastId + 1, conv |-> conv, mine |-> mine, pinned |-> FALSE,
                 likes |-> {}, state |-> "sent", copy |-> 0]
<1>1. /\ lastId' = lastId + 1 /\ posted' = posted \cup {m}
      /\ unseen' = IF mine THEN unseen \ {x.id : x \in In(conv)} ELSE unseen \cup {m.id}
      /\ Broadcast("created", m)
  BY DEF CreateMessage
<1>2. m \in Saved /\ m.id = lastId + 1
  <2>0. lastId \in Nat
    BY Zenon DEF ServerFits
  <2>1. lastId + 1 > 0
    BY Zenon, <2>0, SuccPositive
  <2> QED
    BY Zenon, <2>1 DEF Saved, Message
<1> HIDE DEF m
<1>3. posted' \subseteq Saved /\ IsFiniteSet(posted') /\ Distinct(posted') /\ \A x \in posted' : x.id <= lastId'
  <2>1. IsFiniteSet(posted')
    BY Zenon, <1>1, FS_AddElement DEF ServerFits
  <2>2. \A x \in posted : x.id \in Int /\ x.id <= lastId
    BY Zenon, IdsAreInts DEF ServerFits, Saved
  <2>3. Distinct(posted')
    BY <1>1, <1>2, <2>2 DEF ServerFits, Distinct
  <2> QED
    BY <1>1, <1>2, <2>1, <2>2, <2>3 DEF ServerFits
<1>4. unseen' \subseteq Ids
  BY Zenon, <1>1, <1>2 DEF ServerFits
<1>5. wire' \in Seq(SavedEvent)
  BY Zenon, <1>1, <1>2, <1>3, BroadcastFits DEF ServerFits
<1>6. lastId \in Nat
  BY Zenon DEF ServerFits
<1>7. lastId' \in Nat
  BY <1>1, <1>6
<1> QED
  BY Zenon, <1>1, <1>3, <1>4, <1>5, <1>7 DEF ServerFits

\* A change of a message is saved and broadcast (Alter).
LEMMA AlterFits ==
    ASSUME ServerFits, NEW m \in posted, NEW kind \in Kind, NEW on \in BOOLEAN,
           NEW who \in {"me", "others"}, Alter(m, kind, on, who)
    PROVE  lastId' = lastId /\ (feed' = feed => ServerFits')
<1>0. m \in Saved /\ lastId' = lastId /\ posted \subseteq Message
  BY DEF ServerFits, Alter, Saved
<1>1. CASE kind = "delete"
  <2>1. posted' = posted \ {m} /\ unseen' = unseen \ {m.id} /\ Broadcast("deleted", m)
    BY <1>1 DEF Alter
  <2>2. IsFiniteSet(posted')
    BY <2>1, CountFits DEF ServerFits
  <2>3. wire' \in Seq(SavedEvent)
    BY <1>0, <2>1, <2>2, BroadcastFits DEF ServerFits
  <2> QED
    BY Zenon, <1>0, <2>1, <2>2, <2>3 DEF ServerFits, Distinct
<1>2. CASE kind # "delete"
  <2> DEFINE a == Applied(m, kind, on, who)
  <2>1. posted' = ReplaceById(posted, a) /\ unseen' = unseen /\ Broadcast("updated", a)
    BY <1>2 DEF Alter
  <2>2. a \in Saved /\ a.id = m.id
    BY Zenon, <1>0, <1>2, AppliedFits DEF Kind
  <2> HIDE DEF a
  <2>3. posted' \subseteq Saved /\ Distinct(posted') /\ \A x \in posted' : x.id <= lastId
    BY <2>1, <2>2 DEF ServerFits, ReplaceById, Distinct
  <2>4. IsFiniteSet(posted')
    <3>1. posted' \subseteq posted \cup {a}
      BY <2>1 DEF ReplaceById
    <3>2. IsFiniteSet(posted \cup {a})
      BY FS_AddElement DEF ServerFits
    <3> QED
      BY <3>1, <3>2, CountFits
  <2>5. wire' \in Seq(SavedEvent)
    BY <2>1, <2>2, <2>4, BroadcastFits DEF ServerFits
  <2> QED
    BY Zenon, <1>0, <2>1, <2>3, <2>4, <2>5 DEF ServerFits
<1> QED
  BY <1>1, <1>2

LEMMA EventsFit == wire \in Seq(SavedEvent) => wire \in Seq(MessageEvent)
  BY DEF SavedEvent

LEMMA PageStarts == PageInit => PageInv
<1> SUFFICES ASSUME PageInit PROVE PageInv
  OBVIOUS
<1> DEFINE t == CHOOSE u \in Targets : TRUE
           m == [id |-> 1, conv |-> t, mine |-> FALSE, pinned |-> FALSE, likes |-> {}, state |-> "sent", copy |-> 0]
<1>1. t \in Targets /\ MaxInputs \in Nat /\ 1 \in Ids
  BY PageAssumption DEF Ids
<1>2. posted = {m} /\ lastId = 1 /\ unseen = {1} /\ feed \in BOOLEAN /\ wire = <<>>
  BY Zenon DEF PageInit
<1> HIDE DEF t
<1>3. m \in Saved /\ m.id = 1
  BY <1>1 DEF Saved, Message
<1> HIDE DEF m
<1>4. IsFiniteSet(posted)
  BY Zenon, <1>2, FS_Singleton
<1>5. ServerFits
  BY <1>1, <1>2, <1>3, <1>4 DEF ServerFits, Distinct
<1>6. LoadsFit
  BY Zenon, IdleLoadFits DEF PageInit, LoadsFit, Distinct
<1>7. CallsFit
  <2>1. Unsaved = {} /\ IsFiniteSet({}) /\ Cardinality({}) = 0
    BY FS_EmptySet DEF PageInit, Unsaved
  <2> QED
    BY <1>1, <1>2, <2>1 DEF PageInit, CallsFit
<1>8. BubblesFit
  <2>1. \A u \in Targets : Cardinality({x \in posted : x.conv = u}) \in Nat
    BY Zenon, <1>4, CountFits
  <2> QED
    BY <2>1 DEF PageInit, BubblesFit, Distinct, PendingHasSend
<1>9. OpenFits
  BY DEF PageInit, OpenFits, LoaderHasLoad
<1> QED
  BY <1>5, <1>6, <1>7, <1>8, <1>9 DEF PageInv

\* What a step leaves alone keeps its part of the invariant.
LEMMA ServerRests == ASSUME ServerFits, UNCHANGED <<serverVars, feed, wire>> PROVE ServerFits'
  BY DEF ServerFits, serverVars
LEMMA LoadsRest == ASSUME LoadsFit, UNCHANGED loadVars PROVE LoadsFit'
  BY DEF LoadsFit, loadVars
LEMMA CallsRest ==
    ASSUME CallsFit, UNCHANGED callVars, UNCHANGED lastId, Input \/ UNCHANGED inputs
    PROVE  CallsFit'
<1>1. inputs' \in Nat /\ inputs' >= inputs /\ inputs' <= MaxInputs /\ UNCHANGED Unsaved
  BY PageAssumption DEF CallsFit, Input, callVars, Unsaved
<1>2. lastId + Cardinality(Unsaved) <= inputs' + 1
  <2>1. Cardinality(Unsaved) \in Nat
    BY FS_CardinalityType DEF CallsFit
  <2> QED
    BY <1>1, <2>1 DEF CallsFit
<1> QED
  BY <1>1, <1>2 DEF CallsFit, callVars
LEMMA BubblesRest == ASSUME BubblesFit, UNCHANGED <<listVars, sends, sent>> PROVE BubblesFit'
  BY DEF BubblesFit, listVars, PendingHasSend
LEMMA OpenRests == ASSUME OpenFits, UNCHANGED <<openVars, loadVars, reading>> PROVE OpenFits'
  BY DEF OpenFits, openVars, loadVars, LoaderHasLoad

-----------------------------------------------------------------------------
(* One step per action of the page.                                        *)

LEMMA OtherPostsKeeps == ASSUME PageInv, OtherPosts PROVE PageInv'
<1> USE DEF PageInv
<1>1. PICK t \in Targets : CreateMessage(t, FALSE)
  BY Zenon DEF OtherPosts
<1>2. Input /\ UNCHANGED <<listVars, loadVars, openVars, callVars, reading, feed>>
  BY DEF OtherPosts
<1>3. Cardinality(Unsaved) \in Nat /\ lastId \in Nat /\ inputs \in Nat /\ MaxInputs \in Nat
      /\ lastId + Cardinality(Unsaved) <= inputs + 1
  BY PageAssumption, FS_CardinalityType DEF CallsFit
<1>4. lastId + 1 \in Ids /\ inputs' = inputs + 1 /\ inputs' <= MaxInputs
  BY <1>2, <1>3 DEF Ids, Input
<1>5. ServerFits' /\ lastId' = lastId + 1
  BY Zenon, <1>1, <1>2, <1>4, CreateFits
<1>6. CallsFit'
  <2>1. Unsaved' = Unsaved
    BY <1>2 DEF Unsaved, callVars
  <2>2. lastId' + Cardinality(Unsaved) <= inputs' + 1 /\ lastId' \in Nat /\ inputs' \in Nat /\ inputs' >= inputs
    BY <1>3, <1>4, <1>5
  <2> QED
    BY <1>2, <1>4, <2>1, <2>2 DEF CallsFit, callVars
<1>7. LoadsFit' /\ BubblesFit' /\ OpenFits'
  BY <1>2, LoadsRest, BubblesRest, OpenRests DEF callVars
<1> QED
  BY <1>5, <1>6, <1>7

LEMMA OtherAltersKeeps == ASSUME PageInv, OtherAlters PROVE PageInv'
<1> USE DEF PageInv
<1>1. PICK m \in posted, kind \in Kind, who \in {"me", "others"} :
        Alter(m, kind, IF kind = "pin" THEN ~ m.pinned ELSE who \notin m.likes, who)
  BY DEF OtherAlters
<1>2. Input /\ UNCHANGED <<listVars, loadVars, openVars, callVars, reading, feed>>
  BY DEF OtherAlters
<1> DEFINE on == IF kind = "pin" THEN ~ m.pinned ELSE who \notin m.likes
<1>3. on \in BOOLEAN
  BY Zenon
<1>4. ServerFits' /\ lastId' = lastId
  BY <1>1, <1>2, <1>3, AlterFits
<1>5. LoadsFit' /\ CallsFit' /\ BubblesFit' /\ OpenFits'
  BY <1>2, <1>4, LoadsRest, CallsRest, BubblesRest, OpenRests DEF callVars
<1> QED
  BY Zenon, <1>4, <1>5

\* A step of a load that keeps an active load active.
LEMMA LoadServedKeeps == ASSUME PageInv, NEW s \in Slots, LoadServed(s) PROVE PageInv'
<1> USE DEF PageInv
<1> DEFINE t == loads[s].target
           d == [loads[s] EXCEPT !.phase = "got", !.data = In(t), !.unread = UnreadCount(t)]
<1>1. UNCHANGED <<serverVars, listVars, loader, refreshing, openVars, callVars, reading, feed, wire, inputs>>
      /\ loads[s].phase = "get"
  BY DEF LoadServed
<1>2. loads[s] \in TargetLoad
  BY DEF LoadsFit
<1>3. loads' = [loads EXCEPT ![s] = d]
  BY Zenon DEF LoadServed, LoadsFit
<1>4. In(t) \subseteq Saved /\ Distinct(In(t)) /\ In(t) \subseteq Message
  BY Zenon DEF In, ServerFits, Distinct, Saved
<1>5. UnreadCount(t) \in Nat
  BY CountFits DEF UnreadCount, In, ServerFits
<1>6. d \in TargetLoad /\ d.data = In(t) /\ d.phase = "got" /\ d.background = loads[s].background
  BY ZenonT(40), <1>2, <1>4, <1>5 DEF TargetLoad, Phase
<1> HIDE DEF d
<1>7. LoadsFit'
  <2>1. loads' \in [Slots -> TargetLoad]
    BY Zenon, <1>3, <1>6 DEF LoadsFit
  <2> QED
    BY Zenon, <1>1, <1>3, <1>4, <1>6, <2>1 DEF LoadsFit
<1>8. OpenFits'
  BY Zenon, <1>1, <1>3, <1>6 DEF OpenFits, openVars, LoaderHasLoad, LoadsFit
<1>9. ServerFits' /\ CallsFit' /\ BubblesFit'
  BY Zenon, <1>1, ServerRests, CallsRest, BubblesRest DEF callVars, serverVars
<1> QED
  BY <1>7, <1>8, <1>9

LEMMA MarkServedKeeps == ASSUME PageInv, NEW s \in Slots, MarkServed(s) PROVE PageInv'
<1> USE DEF PageInv
<1> DEFINE d == [loads[s] EXCEPT !.phase = "marked"]
<1>1. UNCHANGED <<posted, lastId, listVars, loader, refreshing, openVars, callVars, reading, feed, wire>>
      /\ loads[s].phase = "mark" /\ unseen' \subseteq unseen /\ (Input \/ UNCHANGED inputs)
  BY DEF MarkServed
<1>2. loads[s] \in TargetLoad
  BY DEF LoadsFit
<1>3. loads' = [loads EXCEPT ![s] = d]
  BY DEF MarkServed, LoadsFit
<1>4. d \in TargetLoad /\ d.data = loads[s].data /\ d.phase = "marked" /\ d.background = loads[s].background
  BY Zenon, <1>2 DEF TargetLoad, Phase
<1> HIDE DEF d
<1>5. LoadsFit'
  <2>1. loads' \in [Slots -> TargetLoad]
    BY Zenon, <1>3, <1>4 DEF LoadsFit
  <2> QED
    BY Zenon, <1>1, <1>3, <1>4, <2>1 DEF LoadsFit
<1>6. OpenFits'
  BY Zenon, <1>1, <1>3, <1>4 DEF OpenFits, openVars, LoaderHasLoad, LoadsFit
<1>7. ServerFits'
  BY Zenon, <1>1 DEF ServerFits
<1>8. CallsFit' /\ BubblesFit'
  BY Zenon, <1>1, CallsRest, BubblesRest DEF callVars
<1> QED
  BY <1>5, <1>6, <1>7, <1>8

LEMMA LoadFailedKeeps == ASSUME PageInv, NEW s \in Slots, LoadFailed(s) PROVE PageInv'
<1> USE DEF PageInv
<1>1. LoadDone(s) /\ Input
      /\ UNCHANGED <<serverVars, listVars, openVars, callVars, reading, feed, wire>>
  BY Zenon DEF LoadFailed
<1>2. LoadsFit' /\ OpenFits'
  BY Zenon, <1>1, LoadEnds DEF OpenFits, openVars, LoaderHasLoad
<1>3. ServerFits' /\ CallsFit' /\ BubblesFit'
  BY <1>1, ServerRests, CallsRest, BubblesRest DEF callVars, serverVars
<1> QED
  BY <1>2, <1>3

LEMMA LoadIgnoredKeeps == ASSUME PageInv, NEW s \in Slots, LoadIgnored(s) PROVE PageInv'
<1> USE DEF PageInv
<1>1. /\ loads[s].phase = "stale" /\ loads' = [loads EXCEPT ![s] = IdleLoad]
      /\ refreshing' = (refreshing /\ ~ loads[s].background)
      /\ UNCHANGED <<serverVars, listVars, loader, openVars, callVars, reading, feed, wire, inputs>>
  BY DEF LoadIgnored
<1>2. refreshing' \in BOOLEAN
  BY <1>1, Zenon
<1>3. LoadsFit'
  BY Zenon, <1>1, <1>2, IdleLoadFits DEF LoadsFit, Distinct
<1>4. OpenFits'
  BY <1>1 DEF OpenFits, openVars, LoaderHasLoad, LoadsFit
<1>5. ServerFits' /\ CallsFit' /\ BubblesFit'
  BY <1>1, ServerRests, CallsRest, BubblesRest DEF callVars, serverVars
<1> QED
  BY <1>3, <1>4, <1>5

LEMMA MarkAnsweredKeeps == ASSUME PageInv, NEW s \in Slots, MarkAnswered(s) PROVE PageInv'
<1> USE DEF PageInv
<1>1. LoadDone(s) /\ badge' = [badge EXCEPT ![loads[s].target] = 0]
      /\ UNCHANGED <<serverVars, list, pins, openVars, callVars, reading, feed, wire, inputs>>
  BY ZenonT(40) DEF MarkAnswered
<1>2. LoadsFit' /\ OpenFits'
  BY Zenon, <1>1, LoadEnds DEF OpenFits, openVars, LoaderHasLoad
<1>3. BubblesFit'
  BY Zenon, <1>1 DEF BubblesFit, PendingHasSend, callVars
<1>4. ServerFits' /\ CallsFit'
  BY <1>1, ServerRests, CallsRest DEF callVars, serverVars
<1> QED
  BY <1>2, <1>3, <1>4

LEMMA LoadAnsweredKeeps == ASSUME PageInv, NEW s \in Slots, LoadAnswered(s) PROVE PageInv'
<1> USE DEF PageInv
<1> DEFINE d == [loads[s] EXCEPT !.phase = "mark", !.data = {}]
<1>1. /\ loads[s].phase = "got" /\ list' = loads[s].data /\ pins' = Pinned(loads[s].data)
      /\ badge' = [badge EXCEPT ![loads[s].target] = loads[s].unread]
      /\ UNCHANGED <<serverVars, openVars, callVars, reading, feed, wire, inputs>>
  BY DEF LoadAnswered
<1>2. loads[s] \in TargetLoad /\ loads[s].unread \in Nat
  BY DEF LoadsFit, TargetLoad
<1>3. LoadDone(s) \/ (loads' = [loads EXCEPT ![s] = d] /\ UNCHANGED <<loader, refreshing>>)
  BY Zenon DEF LoadAnswered, LoadsFit
<1>4. d \in TargetLoad /\ d.data = {} /\ d.phase = "mark" /\ d.background = loads[s].background
  BY Zenon, <1>2 DEF TargetLoad, Phase
<1> HIDE DEF d
<1>5. LoadsFit'
  <2>1. CASE LoadDone(s)
    BY Zenon, <2>1, LoadEnds
  <2>2. CASE loads' = [loads EXCEPT ![s] = d] /\ UNCHANGED <<loader, refreshing>>
    BY <1>4, <2>2 DEF LoadsFit, Distinct
  <2> QED
    BY <1>3, <2>1, <2>2
<1>6. OpenFits'
  <2>1. CASE LoadDone(s)
    BY Zenon, <1>1, <2>1, LoadEnds DEF OpenFits, openVars, LoaderHasLoad
  <2>2. CASE loads' = [loads EXCEPT ![s] = d] /\ UNCHANGED <<loader, refreshing>>
    BY <1>1, <1>4, <2>2 DEF OpenFits, openVars, LoaderHasLoad, LoadsFit
  <2> QED
    BY Zenon, <1>3, <2>1, <2>2
<1>7. BubblesFit'
  <2>1. \A m \in list' : m \in Message /\ m.id > 0 /\ m.state = "sent"
    <3>1. list' \subseteq Saved
      BY Zenon, <1>1 DEF LoadsFit
    <3> QED
      BY Zenon, <3>1 DEF Saved
  <2>2. Distinct(list') /\ pins' \subseteq list'
    BY <1>1 DEF LoadsFit, Pinned
  <2>3. Distinct(pins')
    BY Zenon, <2>2 DEF Distinct
  <2>4. \A m \in list' : m.id >= -sent
    BY <2>1 DEF Message, Ids, TempIds, CallsFit
  <2>5. badge' \in [Targets -> Nat]
    BY Zenon, <1>1, <1>2 DEF BubblesFit
  <2> QED
    BY Zenon, <1>1, <2>1, <2>2, <2>3, <2>4, <2>5 DEF BubblesFit, PendingHasSend, callVars
<1>8. ServerFits' /\ CallsFit'
  BY Zenon, <1>1, ServerRests, CallsRest DEF callVars, serverVars
<1> QED
  BY <1>5, <1>6, <1>7, <1>8

\* The actions that open a conversation or read it again: a new load in the
\* background starts only where there is no loader (MayRefresh).
LEMMA RefreshKeeps ==
    ASSUME PageInv, MayRefresh, NEW mark \in BOOLEAN, LoadTarget(selected, mark, TRUE), Input \/ UNCHANGED inputs,
           reading' \in {"hidden", "thread", "scrolled", "bottom"},
           UNCHANGED <<serverVars, listVars, openVars, callVars, feed, wire>>
    PROVE  PageInv'
<1> USE DEF PageInv
<1>1. selected \in Targets /\ ~ loader
  BY DEF MayRefresh, OpenFits
<1>2. LoadsFit' /\ loader' = loader
  BY Zenon, <1>1, LoadStarts
<1>3. OpenFits'
  BY Zenon, <1>1, <1>2 DEF OpenFits, openVars, LoaderHasLoad
<1>4. ServerFits' /\ CallsFit' /\ BubblesFit'
  BY ServerRests, CallsRest, BubblesRest DEF callVars, serverVars
<1> QED
  BY <1>2, <1>3, <1>4

LEMMA RefreshesKeep == ASSUME PageInv, PollTarget \/ FocusPage \/ ShowPage PROVE PageInv'
<1> USE DEF PageInv
<1>1. CanAutoMarkRead(FALSE) \in BOOLEAN
  BY Zenon DEF CanAutoMarkRead
<1>2. reading \in {"hidden", "thread", "scrolled", "bottom"}
  BY DEF OpenFits
<1>3. CASE PollTarget
  BY Zenon, <1>1, <1>2, <1>3, RefreshKeeps DEF PollTarget
<1>4. CASE FocusPage
  BY Zenon, <1>1, <1>2, <1>4, RefreshKeeps DEF FocusPage
<1>5. CASE ShowPage
  <2>1. PICK r \in {"scrolled", "bottom"} :
          reading' = r /\ IF MayRefresh THEN LoadTarget(selected, r = "bottom", TRUE) ELSE UNCHANGED loadVars
    BY Zenon, <1>5 DEF ShowPage
  <2>2. Input /\ UNCHANGED <<serverVars, listVars, openVars, callVars, feed, wire>>
    BY <1>5 DEF ShowPage
  <2>3. (r = "bottom") \in BOOLEAN /\ reading' \in {"hidden", "thread", "scrolled", "bottom"}
    BY <2>1
  <2>4. CASE MayRefresh
    BY Zenon, <2>1, <2>2, <2>3, <2>4, RefreshKeeps
  <2>5. CASE ~ MayRefresh
    <3>1. OpenFits'
      BY <2>1, <2>2, <2>3, <2>5 DEF OpenFits, openVars, loadVars, LoaderHasLoad
    <3>2. ServerFits' /\ LoadsFit' /\ CallsFit' /\ BubblesFit'
      BY <2>1, <2>2, <2>5, ServerRests, LoadsRest, CallsRest, BubblesRest DEF callVars, serverVars
    <3> QED
      BY Zenon, <3>1, <3>2
  <2> QED
    BY <2>4, <2>5
<1> QED
  BY <1>3, <1>4, <1>5

LEMMA SelectTargetKeeps == ASSUME PageInv, NEW t \in Targets, SelectTarget(t) PROVE PageInv'
<1> USE DEF PageInv
<1>1. Input /\ wanted' = t /\ UNCHANGED <<serverVars, listVars, selected, callVars, reading, feed, wire>>
  BY DEF SelectTarget
<1>2. ServerFits' /\ CallsFit' /\ BubblesFit'
  BY <1>1, ServerRests, CallsRest, BubblesRest DEF callVars, serverVars
<1>3. CASE t = selected
  <2>1. LoadTarget(t, CanAutoMarkRead(TRUE), FALSE)
    BY Zenon, <1>3 DEF SelectTarget
  <2>2. CanAutoMarkRead(TRUE) \in BOOLEAN
    BY Zenon DEF CanAutoMarkRead
  <2>3. LoadsFit' /\ \E s \in Slots : Foreground(s)'
    BY Zenon, <2>1, <2>2, LoadStarts
  <2>4. OpenFits'
    BY Zenon, <1>1, <2>3 DEF OpenFits, LoaderHasLoad, Foreground
  <2> QED
    BY <1>2, <2>3, <2>4
<1>4. CASE t # selected
  <2>1. loader' = TRUE /\ UNCHANGED <<refreshing, loads>>
    BY Zenon, <1>4 DEF SelectTarget
  <2>2. LoadsFit'
    BY Zenon, <2>1 DEF LoadsFit
  <2>3. OpenFits'
    BY <1>1, <1>4 DEF OpenFits, LoaderHasLoad
  <2> QED
    BY <1>2, <2>2, <2>3
<1> QED
  BY <1>3, <1>4

LEMMA CommitTargetKeeps == ASSUME PageInv, CommitTarget PROVE PageInv'
<1> USE DEF PageInv
<1>1. /\ wanted # selected /\ selected' = wanted
      /\ reading' = IF reading = "thread" THEN "bottom" ELSE reading
      /\ UNCHANGED <<serverVars, listVars, wanted, callVars, feed, wire, inputs>>
  BY DEF CommitTarget
<1>2. ServerFits' /\ CallsFit' /\ BubblesFit'
  BY <1>1, ServerRests, CallsRest, BubblesRest DEF callVars, serverVars
<1>3. CASE wanted = NoTarget
  <2>1. UNCHANGED loadVars
    BY <1>3 DEF CommitTarget
  <2>2. OpenFits'
    BY <1>1, <1>3 DEF OpenFits, LoaderHasLoad
  <2> QED
    BY <1>2, <2>1, <2>2, LoadsRest
<1>4. CASE wanted # NoTarget
  <2>1. LoadTarget(wanted, reading # "hidden", FALSE)
    BY Zenon, <1>4 DEF CommitTarget
  <2>2. wanted \in Targets /\ (reading # "hidden") \in BOOLEAN
    BY <1>4 DEF OpenFits
  <2>3. LoadsFit' /\ \E s \in Slots : Foreground(s)'
    BY Zenon, <2>1, <2>2, LoadStarts
  <2>4. OpenFits'
    BY <1>1, <2>3 DEF OpenFits, LoaderHasLoad, Foreground
  <2> QED
    BY <1>2, <2>3, <2>4
<1> QED
  BY <1>3, <1>4

LEMMA OpeningKeeps ==
    ASSUME PageInv, SelectEmptyWorkspace \/ MoveAttention \/ FeedUp \/ \E t \in Targets : InitialMessageTarget(t)
    PROVE  PageInv'
<1> USE DEF PageInv
<1>1. CASE SelectEmptyWorkspace
  <2>1. /\ Input /\ wanted # NoTarget /\ wanted' = NoTarget /\ list' = {} /\ pins' = {}
        /\ UNCHANGED <<serverVars, badge, loadVars, selected, callVars, reading, feed, wire>>
    BY <1>1 DEF SelectEmptyWorkspace
  <2>2. BubblesFit'
    BY <2>1 DEF BubblesFit, Distinct, PendingHasSend
  <2>3. OpenFits'
    BY <2>1 DEF OpenFits, LoaderHasLoad
  <2> QED
    BY <2>1, <2>2, <2>3, ServerRests, LoadsRest, CallsRest DEF serverVars
<1>2. CASE MoveAttention
  <2>1. /\ Input /\ reading' \in {"hidden", "thread", "scrolled", "bottom"}
        /\ UNCHANGED <<serverVars, listVars, loadVars, openVars, callVars, feed, wire>>
    BY Zenon, <1>2 DEF MoveAttention
  <2>2. OpenFits'
    BY Zenon, <2>1 DEF OpenFits, openVars, loadVars, LoaderHasLoad
  <2> QED
    BY <2>1, <2>2, ServerRests, LoadsRest, CallsRest, BubblesRest DEF callVars, serverVars
<1>3. CASE FeedUp
  <2>1. /\ Input /\ feed' = TRUE
        /\ UNCHANGED <<serverVars, listVars, loadVars, openVars, callVars, reading, wire>>
    BY <1>3 DEF FeedUp
  <2>2. ServerFits'
    BY <2>1 DEF ServerFits, serverVars
  <2> QED
    BY <2>1, <2>2, LoadsRest, CallsRest, BubblesRest, OpenRests DEF callVars, serverVars
<1>4. ASSUME NEW t \in Targets, InitialMessageTarget(t) PROVE PageInv'
  <2>1. /\ selected = NoTarget /\ wanted' = t
        /\ UNCHANGED <<serverVars, listVars, loadVars, selected, callVars, reading, feed, wire, inputs>>
    BY Zenon, <1>4 DEF InitialMessageTarget
  <2>2. OpenFits'
    BY <2>1 DEF OpenFits, LoaderHasLoad
  <2> QED
    BY <2>1, <2>2, ServerRests, LoadsRest, CallsRest, BubblesRest DEF callVars, serverVars
<1> QED
  BY <1>1, <1>2, <1>3, <1>4

LEMMA FeedDownKeeps == ASSUME PageInv, FeedDown PROVE PageInv'
<1> USE DEF PageInv
<1>1. Input /\ feed' = FALSE /\ wire' = <<>> /\ UNCHANGED <<serverVars, listVars, loadVars, openVars, callVars, reading>>
  BY DEF FeedDown
<1>2. wire' \in Seq(SavedEvent)
  BY <1>1
<1>3. ServerFits'
  BY Zenon, <1>1, <1>2 DEF ServerFits, serverVars
<1> QED
  BY <1>1, <1>3, LoadsRest, CallsRest, BubblesRest, OpenRests DEF callVars, serverVars

LEMMA MarksKeep ==
    ASSUME PageInv, ScrollToLatestMessage \/ \E t \in Targets : MarkedReadElsewhere(t)
    PROVE  PageInv'
<1> USE DEF PageInv
<1>1. CASE ScrollToLatestMessage
  <2>1. /\ selected # NoTarget /\ reading' = "bottom" /\ marks' = marks \cup {selected}
        /\ UNCHANGED <<serverVars, listVars, loadVars, openVars, sends, sent, changes, feed, wire, inputs>>
    BY <1>1 DEF ScrollToLatestMessage
  <2>2. OpenFits'
    BY Zenon, <2>1 DEF OpenFits, openVars, loadVars, LoaderHasLoad
  <2>3. CallsFit'
    BY <2>1 DEF CallsFit, OpenFits, Unsaved, serverVars
  <2> QED
    BY Zenon, <2>1, <2>2, <2>3, ServerRests, LoadsRest, BubblesRest DEF serverVars
<1>2. ASSUME NEW t \in Targets, MarkedReadElsewhere(t) PROVE PageInv'
  <2>1. /\ marks' \subseteq marks /\ unseen' \subseteq unseen /\ (Input \/ UNCHANGED inputs)
        /\ UNCHANGED <<posted, lastId, listVars, loadVars, openVars, sends, sent, changes, reading, feed, wire>>
    BY Zenon, <1>2 DEF MarkedReadElsewhere
  <2>2. ServerFits'
    BY <2>1 DEF ServerFits
  <2>3. CallsFit'
    <3>1. inputs' \in Nat /\ inputs' >= inputs /\ inputs' <= MaxInputs /\ UNCHANGED Unsaved
      BY <2>1, PageAssumption DEF CallsFit, Input, Unsaved
    <3>2. Cardinality(Unsaved) \in Nat
      BY Zenon, FS_CardinalityType DEF CallsFit
    <3>3. lastId + Cardinality(Unsaved) <= inputs' + 1 /\ sent <= inputs'
      BY <3>1, <3>2 DEF CallsFit
    <3> QED
      BY Zenon, <2>1, <3>1, <3>3 DEF CallsFit
  <2> QED
    BY Zenon, <2>1, <2>2, <2>3, LoadsRest, BubblesRest, OpenRests
<1> QED
  BY <1>1, <1>2

\* Bubbles that are kept, or come from the server, leave the sends alone.
LEMMA BubblesChange ==
    ASSUME BubblesFit, CallsFit, UNCHANGED <<sends, sent>>,
           list' \subseteq Message, Distinct(list'), pins' \subseteq Message, Distinct(pins'),
           badge' \in [Targets -> Nat],
           \A x \in list' : x \in list \/ (x.id > 0 /\ x.state = "sent")
    PROVE  BubblesFit'
<1>1. ASSUME NEW x \in list' PROVE x.id >= -sent
  <2>1. x.id \in Int
    BY Zenon, IdsAreInts
  <2>2. sent \in Nat
    BY Zenon DEF CallsFit
  <2>3. CASE x \in list
    BY Zenon, <2>3 DEF BubblesFit
  <2>4. CASE x.id > 0
    BY <2>1, <2>2, <2>4
  <2> QED
    BY Zenon, <2>3, <2>4
<1>2. PendingHasSend'
  BY DEF BubblesFit, PendingHasSend
<1> QED
  BY Zenon, <1>1, <1>2 DEF BubblesFit

LEMMA HandleEventKeeps == ASSUME PageInv, HandleEvent PROVE PageInv'
<1> USE DEF PageInv
<1> DEFINE e == Head(wire)
           m == e.message
           here == m.conv = selected
<1>1. wire # <<>> /\ wire' = Tail(wire)
      /\ UNCHANGED <<serverVars, loadVars, openVars, sends, sent, changes, reading, feed, inputs>>
  BY Zenon DEF HandleEvent
<1>2. e \in SavedEvent /\ wire' \in Seq(SavedEvent)
  BY <1>1 DEF ServerFits
<1>3. /\ list' = IF ~ here THEN list ELSE IF e.event = "deleted" THEN WithoutId(list, m.id) ELSE Merged(list, m)
      /\ pins' = IF ~ here THEN pins
                 ELSE IF e.event = "deleted" THEN WithoutId(pins, m.id) ELSE UpsertPinnedMessage(pins, m)
      /\ marks' \in {marks, marks \cup {selected}} /\ (marks' # marks => here)
      /\ \E n \in {0, e.unread} : badge' = [badge EXCEPT ![m.conv] = n]
  BY Zenon DEF HandleEvent
<1> HIDE DEF e
<1>4. m \in Saved /\ e.unread \in Nat /\ m.conv \in Targets
  BY <1>2 DEF SavedEvent, MessageEvent, Saved, Message
<1> HIDE DEF m
<1>5. m.id > 0 /\ list \subseteq Message /\ pins \subseteq Message /\ Distinct(list) /\ Distinct(pins)
  BY Zenon, <1>4 DEF Saved, BubblesFit
<1>6. list' \subseteq Message /\ Distinct(list') /\ \A x \in list' : x \in list \/ (x.id > 0 /\ x.state = "sent")
  <2>1. CASE ~ here
    BY Zenon, <1>3, <1>5, <2>1
  <2>2. CASE here /\ e.event = "deleted"
    BY Zenon, <1>3, <1>5, <2>2, WithoutFits
  <2>3. CASE here /\ e.event # "deleted"
    <3>1. list' = Merged(list, m)
      BY Zenon, <1>3, <2>3
    <3>2. \A x \in list' : x \in list \/ (x.id = m.id /\ x.state = "sent")
      BY Zenon, <1>4, <1>5, <3>1, MergedFits
    <3>3. list' \subseteq Message /\ Distinct(list')
      BY Zenon, <1>4, <1>5, <3>1, MergedFits
    <3> QED
      BY Zenon, <1>5, <3>2, <3>3
  <2> QED
    BY Zenon, <2>1, <2>2, <2>3
<1>7. pins' \subseteq Message /\ Distinct(pins')
  BY Zenon, <1>3, <1>4, <1>5, UpsertFits, WithoutFits
<1>8. badge' \in [Targets -> Nat]
  <2>1. PICK n \in {0, e.unread} : badge' = [badge EXCEPT ![m.conv] = n]
    BY Zenon, <1>3
  <2>2. n \in Nat
    BY <1>4
  <2> QED
    BY Zenon, <1>4, <2>1, <2>2 DEF BubblesFit
<1>9. BubblesFit'
  BY Zenon, <1>1, <1>6, <1>7, <1>8, BubblesChange
<1>10. CallsFit'
  <2>1. marks' \subseteq Targets
    BY <1>3, <1>4 DEF CallsFit
  <2> QED
    BY Zenon, <1>1, <2>1 DEF CallsFit, Unsaved, serverVars
<1>11. ServerFits'
  BY Zenon, <1>1, <1>2 DEF ServerFits, serverVars
<1> QED
  BY Zenon, <1>1, <1>9, <1>10, <1>11, LoadsRest, OpenRests

LEMMA HandleSendKeeps == ASSUME PageInv, HandleSend PROVE PageInv'
<1> USE DEF PageInv
<1> DEFINE n == sent + 1
           c == [temp |-> -n, target |-> selected, saved |-> 0]
           b == [id |-> -n, conv |-> selected, mine |-> TRUE, pinned |-> FALSE,
                 likes |-> {}, state |-> "pending", copy |-> 0]
<1>1. /\ selected # NoTarget /\ Input /\ sent' = n /\ sends' = sends \cup {c} /\ list' = Added(list, b)
      /\ badge' = [badge EXCEPT ![selected] = 0]
      /\ UNCHANGED <<serverVars, pins, loadVars, openVars, changes, marks, reading, feed, wire>>
  BY ZenonT(40) DEF HandleSend
<1>2. /\ sent \in Nat /\ inputs \in Nat /\ MaxInputs \in Nat /\ inputs' = inputs + 1 /\ inputs < MaxInputs
      /\ sent <= inputs /\ selected \in Targets
  BY Zenon, <1>1, PageAssumption DEF CallsFit, Input, OpenFits
<1>3. n \in Nat /\ n \in 1 .. MaxInputs /\ -n \in TempIds /\ n <= inputs' /\ inputs' <= MaxInputs /\ inputs' \in Nat
  BY <1>2 DEF TempIds
<1> HIDE DEF n
<1>4. c \in SendCall /\ c.temp = -n /\ c.saved = 0
  BY Zenon, <1>2, <1>3 DEF SendCall
<1>5. b \in Message /\ b.id = -n /\ b.state = "pending"
  BY <1>2, <1>3 DEF Message
<1> HIDE DEF c, b
<1>6. \A x \in list : x.id \in Int /\ x.id >= -sent /\ x.id # -n
  <2>1. \A x \in list : x.id \in Int /\ x.id >= -sent
    BY Zenon, IdsAreInts DEF BubblesFit
  <2> QED
    BY <1>2, <2>1 DEF n
<1>7. BubblesFit'
  <2>1. ById(list, b.id) = {}
    BY <1>5, <1>6 DEF ById
  <2>2. /\ list' \subseteq Message /\ Distinct(list')
        /\ \A x \in list' : x \in list \/ (x.id = -n /\ x.state = "pending")
    BY <1>1, <1>5, <2>1, AddedFits DEF BubblesFit
  <2>3. \A x \in list' : x.id >= -sent'
    BY <1>1, <1>2, <1>3, <1>6, <2>2 DEF n
  <2>4. PendingHasSend'
    BY <1>1, <1>4, <2>2 DEF PendingHasSend, BubblesFit
  <2>5. badge' \in [Targets -> Nat]
    BY Zenon, <1>1 DEF BubblesFit
  <2> QED
    BY <1>1, <2>2, <2>3, <2>4, <2>5 DEF BubblesFit
<1>8. CallsFit'
  <2>1. Unsaved' = Unsaved \cup {c}
    BY Zenon, <1>1, <1>4 DEF Unsaved
  <2>2. IsFiniteSet(Unsaved') /\ Cardinality(Unsaved') <= Cardinality(Unsaved) + 1 /\ Cardinality(Unsaved') \in Nat
        /\ Cardinality(Unsaved) \in Nat
    BY <2>1, FS_AddElement, FS_CardinalityType DEF CallsFit
  <2>3. lastId' = lastId /\ lastId \in Nat /\ lastId + Cardinality(Unsaved) <= inputs + 1
    BY <1>1 DEF serverVars, CallsFit
  <2>4. lastId' + Cardinality(Unsaved') <= inputs' + 1
    BY <1>2, <2>2, <2>3
  <2> QED
    BY <1>1, <1>3, <1>4, <2>2, <2>3, <2>4 DEF CallsFit
<1> QED
  BY <1>1, <1>7, <1>8, ServerRests, LoadsRest, OpenRests

LEMMA SendServedKeeps == ASSUME PageInv, NEW c \in sends, SendServed(c) PROVE PageInv'
<1> USE DEF PageInv
<1> DEFINE d == [c EXCEPT !.saved = lastId + 1]
<1>1. /\ c.saved = 0 /\ CreateMessage(c.target, TRUE) /\ sends' = (sends \ {c}) \cup {d}
      /\ UNCHANGED <<listVars, loadVars, openVars, sent, changes, marks, reading, feed, inputs>>
  BY Zenon DEF SendServed
<1>2. c \in SendCall /\ c.target \in Targets
  BY DEF CallsFit, SendCall
<1>3. /\ c \in Unsaved /\ IsFiniteSet(Unsaved) /\ lastId \in Nat /\ inputs \in Nat /\ MaxInputs \in Nat
      /\ inputs <= MaxInputs /\ lastId + Cardinality(Unsaved) <= inputs + 1
  BY <1>1, PageAssumption DEF CallsFit, Unsaved
<1>4. IsFiniteSet(Unsaved \ {c}) /\ Cardinality(Unsaved \ {c}) = Cardinality(Unsaved) - 1
      /\ Cardinality(Unsaved \ {c}) \in Nat /\ Cardinality(Unsaved) \in Nat
  BY <1>3, FS_RemoveElement, FS_CardinalityType
<1>5. lastId + 1 \in Ids
  BY <1>3, <1>4 DEF Ids
<1>6. ServerFits' /\ lastId' = lastId + 1
  BY Zenon, <1>1, <1>2, <1>5, CreateFits
<1>7. d \in SendCall /\ d.saved # 0 /\ d.temp = c.temp
  <2>1. lastId + 1 # 0
    BY <1>3
  <2> QED
    BY Zenon, <1>2, <1>5, <2>1 DEF SendCall
<1> HIDE DEF d
<1>8. CallsFit'
  <2>1. Unsaved' = Unsaved \ {c}
    BY <1>1, <1>7 DEF Unsaved
  <2>2. lastId' + Cardinality(Unsaved') <= inputs + 1 /\ lastId' \in Nat
    BY <1>3, <1>4, <1>6, <2>1
  <2> QED
    BY <1>1, <1>4, <1>7, <2>1, <2>2 DEF CallsFit
<1>9. BubblesFit'
  BY Zenon, <1>1, <1>7 DEF BubblesFit, listVars, PendingHasSend
<1> QED
  BY <1>1, <1>6, <1>8, <1>9, LoadsRest, OpenRests

\* A send that ends, answered or not, takes what was unsaved of it away.
LEMMA SendEnds ==
    ASSUME CallsFit, NEW c \in sends, sends' = sends \ {c}, UNCHANGED <<lastId, sent, changes, marks>>,
           Input \/ UNCHANGED inputs
    PROVE  CallsFit'
<1>1. inputs' \in Nat /\ inputs' >= inputs /\ inputs' <= MaxInputs
  BY PageAssumption DEF CallsFit, Input
<1>2. Unsaved' \subseteq Unsaved
  BY Zenon DEF Unsaved
<1>3. IsFiniteSet(Unsaved') /\ Cardinality(Unsaved') <= Cardinality(Unsaved)
      /\ Cardinality(Unsaved') \in Nat /\ Cardinality(Unsaved) \in Nat
  BY Zenon, <1>2, FS_Subset, FS_CardinalityType DEF CallsFit
<1>4. lastId + Cardinality(Unsaved') <= inputs' + 1 /\ sent <= inputs'
  BY <1>1, <1>3 DEF CallsFit
<1> QED
  BY Zenon, <1>1, <1>3, <1>4 DEF CallsFit

LEMMA SendAnsweredKeeps == ASSUME PageInv, NEW c \in sends, SendAnswered(c) PROVE PageInv'
<1> USE DEF PageInv
<1> DEFINE b == [id |-> c.saved, conv |-> c.target, mine |-> TRUE, pinned |-> FALSE,
                 likes |-> {}, state |-> "sent", copy |-> 0]
           rest == WithoutId(WithoutId(list, c.temp), c.saved)
<1>1. /\ c.saved # 0 /\ sends' = sends \ {c} /\ list' = Added(rest, b)
      /\ badge' = [badge EXCEPT ![c.target] = 0]
      /\ UNCHANGED <<serverVars, pins, loadVars, openVars, sent, changes, marks, reading, feed, wire, inputs>>
  BY ZenonT(40) DEF SendAnswered
<1>2. c.saved \in Ids /\ c.saved > 0 /\ c.target \in Targets /\ c.temp \in TempIds
  <2>1. c \in SendCall /\ c.saved # 0
    BY Zenon, <1>1 DEF CallsFit
  <2> QED
    BY <2>1, PageAssumption DEF SendCall, Ids
<1>3. b \in Message /\ b.id = c.saved /\ b.state = "sent"
  BY ZenonT(40), <1>2 DEF Message
<1> HIDE DEF b
<1>4. rest \subseteq list /\ Distinct(rest) /\ ById(rest, c.saved) = {} /\ \A x \in rest : x.id # c.temp
  <2>1. Distinct(list)
    BY Zenon DEF BubblesFit
  <2>2. WithoutId(list, c.temp) \subseteq list /\ Distinct(WithoutId(list, c.temp))
        /\ \A x \in WithoutId(list, c.temp) : x.id # c.temp
    BY Zenon, <2>1, WithoutFits
  <2>3. rest \subseteq WithoutId(list, c.temp) /\ Distinct(rest) /\ \A x \in rest : x.id # c.saved
    BY Zenon, <2>2, WithoutFits
  <2> HIDE DEF rest
  <2> QED
    BY Zenon, <2>2, <2>3 DEF ById
<1> HIDE DEF rest
<1>5. /\ list' \subseteq Message /\ Distinct(list')
      /\ \A x \in list' : x \in rest \/ (x.id = c.saved /\ x.state = "sent")
  <2>1. rest \subseteq Message
    BY <1>4 DEF BubblesFit
  <2> QED
    BY <1>1, <1>3, <1>4, <2>1, AddedFits
<1>6. BubblesFit'
  <2>1. \A x \in list' : x.id >= -sent
    BY <1>2, <1>4, <1>5 DEF BubblesFit, CallsFit, Ids
  <2>2. PendingHasSend'
    BY <1>1, <1>4, <1>5 DEF PendingHasSend, BubblesFit
  <2>3. badge' \in [Targets -> Nat]
    BY Zenon, <1>1 DEF BubblesFit
  <2> QED
    BY Zenon, <1>1, <1>5, <2>1, <2>2, <2>3 DEF BubblesFit
<1>7. CallsFit'
  BY <1>1, SendEnds DEF serverVars
<1> QED
  BY <1>1, <1>6, <1>7, ServerRests, LoadsRest, OpenRests

LEMMA SendFailedKeeps == ASSUME PageInv, NEW c \in sends, SendFailed(c) PROVE PageInv'
<1> USE DEF PageInv
<1>1. /\ Input /\ sends' = sends \ {c}
      /\ list' = {IF m.id = c.temp THEN [m EXCEPT !.state = "failed"] ELSE m : m \in list}
      /\ UNCHANGED <<serverVars, pins, badge, loadVars, openVars, sent, changes, marks, reading, feed, wire>>
  BY DEF SendFailed
<1>2. ASSUME NEW m \in list
      PROVE  LET f == [m EXCEPT !.state = "failed"] IN f \in Message /\ f.id = m.id /\ f.state = "failed"
  BY DEF BubblesFit, Message
<1>3. \A x \in list' : \E m \in list : x.id = m.id /\ x \in Message
                          /\ (IF m.id = c.temp THEN x = [m EXCEPT !.state = "failed"] /\ x.state = "failed" ELSE x = m)
  BY Zenon, <1>1, <1>2 DEF BubblesFit
<1>4. Distinct(list')
  BY <1>3 DEF Distinct, BubblesFit
<1>5. PendingHasSend'
  BY <1>1, <1>3 DEF PendingHasSend, BubblesFit
<1>6. BubblesFit'
  BY <1>1, <1>3, <1>4, <1>5 DEF BubblesFit
<1>7. CallsFit'
  BY <1>1, SendEnds DEF serverVars
<1> QED
  BY <1>1, <1>6, <1>7, ServerRests, LoadsRest, OpenRests

\* The changes under way are about messages of the server (togglePin,
\* toggleReaction, deleteMessage); a changed set of them keeps the rest.
LEMMA ChangesFit ==
    ASSUME CallsFit, changes' \subseteq ChangeCall, \A c \in changes' : c.answer \subseteq Saved,
           UNCHANGED <<lastId, sends, sent, marks>>, Input \/ UNCHANGED inputs
    PROVE  CallsFit'
<1>1. inputs' \in Nat /\ inputs' >= inputs /\ inputs' <= MaxInputs /\ UNCHANGED Unsaved
  BY PageAssumption DEF CallsFit, Input, Unsaved
<1>2. Cardinality(Unsaved) \in Nat
  BY FS_CardinalityType DEF CallsFit
<1>3. lastId + Cardinality(Unsaved) <= inputs' + 1 /\ sent <= inputs'
  BY <1>1, <1>2 DEF CallsFit
<1> QED
  BY Zenon, <1>1, <1>3 DEF CallsFit

LEMMA ChangeMessageKeeps ==
    ASSUME PageInv, NEW m \in list, NEW kind \in Kind, ChangeMessage(m, kind)
    PROVE  PageInv'
<1> USE DEF PageInv
<1> DEFINE on == IF kind = "pin" THEN ~ m.pinned ELSE "me" \notin m.likes
           d == [kind |-> kind, id |-> m.id, answer |-> {}, served |-> FALSE, on |-> on]
<1>1. /\ m.id > 0 /\ Input /\ changes' = changes \cup {d}
      /\ UNCHANGED <<serverVars, listVars, loadVars, openVars, sends, sent, marks, reading, feed, wire>>
  BY Zenon DEF ChangeMessage
<1>2. on \in BOOLEAN
  BY ZenonT(40)
<1> HIDE DEF on
<1>3. m.id \in Ids
  <2>1. m \in Message /\ m.id > 0
    BY Zenon, <1>1 DEF BubblesFit
  <2> QED
    BY <2>1, PageAssumption DEF Message, Ids, TempIds
<1>4. d \in ChangeCall /\ d.answer = {}
  BY Zenon, <1>2, <1>3 DEF ChangeCall
<1> HIDE DEF d
<1>5. CallsFit'
  <2>1. changes' \subseteq ChangeCall /\ \A c \in changes' : c.answer \subseteq Saved
    BY <1>1, <1>4 DEF CallsFit
  <2> QED
    BY Zenon, <1>1, <2>1, ChangesFit DEF serverVars
<1> QED
  BY <1>1, <1>5, ServerRests, LoadsRest, BubblesRest, OpenRests

LEMMA ChangeServedKeeps == ASSUME PageInv, NEW c \in changes, ChangeServed(c) PROVE PageInv'
<1> USE DEF PageInv
<1>1. PICK m \in ById(posted, c.id) :
        /\ Alter(m, c.kind, c.on, "me")
        /\ changes' = (changes \ {c}) \cup
               {[c EXCEPT !.served = TRUE,
                          !.answer = IF c.kind = "delete" THEN {} ELSE {Applied(m, c.kind, c.on, "me")}]}
  BY Zenon DEF ChangeServed
<1>2. UNCHANGED <<listVars, loadVars, openVars, sends, sent, marks, reading, feed, inputs>>
  BY DEF ChangeServed
<1>3. c \in ChangeCall /\ c.kind \in Kind /\ c.on \in BOOLEAN /\ m \in posted /\ m \in Saved
  BY <1>1 DEF CallsFit, ChangeCall, ById, ServerFits
<1>4. ServerFits' /\ lastId' = lastId
  BY <1>1, <1>2, <1>3, AlterFits
<1> DEFINE a == IF c.kind = "delete" THEN {} ELSE {Applied(m, c.kind, c.on, "me")}
           d == [c EXCEPT !.served = TRUE, !.answer = a]
<1>5. a \subseteq Saved
  <2>1. CASE c.kind = "delete"
    BY Zenon, <2>1
  <2>2. CASE c.kind # "delete"
    <3>1. c.kind \in {"pin", "like"}
      BY Zenon, <1>3, <2>2 DEF Kind
    <3>2. Applied(m, c.kind, c.on, "me") \in Saved
      BY Zenon, <1>3, <3>1, AppliedFits
    <3> QED
      BY Zenon, <2>2, <3>2
  <2> QED
    BY Zenon, <2>1, <2>2
<1>6. changes' = (changes \ {c}) \cup {d}
  BY <1>1
<1> HIDE DEF a
<1>7. d \in ChangeCall /\ d.answer = a
  BY ZenonT(40), <1>3, <1>5 DEF ChangeCall, Saved
<1> HIDE DEF d
<1>8. CallsFit'
  <2>1. changes' \subseteq ChangeCall /\ \A x \in changes' : x.answer \subseteq Saved
    BY Zenon, <1>5, <1>6, <1>7 DEF CallsFit
  <2> QED
    BY Zenon, <1>2, <1>4, <2>1, ChangesFit
<1> QED
  BY <1>2, <1>4, <1>8, LoadsRest, BubblesRest, OpenRests

LEMMA ChangeAnsweredKeeps == ASSUME PageInv, NEW c \in changes, ChangeAnswered(c) PROVE PageInv'
<1> USE DEF PageInv
<1>1. /\ changes' = changes \ {c}
      /\ UNCHANGED <<serverVars, badge, loadVars, openVars, sends, sent, marks, reading, feed, wire, inputs>>
  BY Zenon DEF ChangeAnswered
<1>2. list \subseteq Message /\ pins \subseteq Message /\ Distinct(list) /\ Distinct(pins)
      /\ badge \in [Targets -> Nat] /\ c.answer \subseteq Saved
  BY Zenon DEF BubblesFit, CallsFit
<1>3. /\ list' \subseteq Message /\ Distinct(list') /\ pins' \subseteq Message /\ Distinct(pins')
      /\ \A x \in list' : x \in list \/ (x.id > 0 /\ x.state = "sent")
  <2>1. CASE c.kind = "delete"
    <3>1. list' = WithoutId(list, c.id) /\ pins' = WithoutId(pins, c.id)
      BY ZenonT(40), <2>1 DEF ChangeAnswered
    <3> QED
      BY <1>2, <3>1, WithoutFits
  <2>2. CASE c.kind # "delete"
    <3>1. PICK m \in c.answer : list' = ReplaceById(list, m) /\ pins' = UpsertPinnedMessage(pins, m)
      BY <2>2 DEF ChangeAnswered
    <3>2. m \in Saved /\ m.id > 0
      BY Zenon, <1>2 DEF Saved
    <3> QED
      BY Zenon, <1>2, <3>1, <3>2, ReplacedFits, UpsertFits
  <2> QED
    BY Zenon, <2>1, <2>2
<1>4. BubblesFit'
  BY <1>1, <1>2, <1>3, BubblesChange
<1>5. CallsFit'
  <2>1. changes' \subseteq ChangeCall /\ \A x \in changes' : x.answer \subseteq Saved
    BY <1>1 DEF CallsFit
  <2> QED
    BY Zenon, <1>1, <2>1, ChangesFit DEF serverVars
<1> QED
  BY Zenon, <1>1, <1>4, <1>5, ServerRests, LoadsRest, OpenRests

LEMMA ChangeFailedKeeps == ASSUME PageInv, NEW c \in changes, ChangeFailed(c) PROVE PageInv'
<1> USE DEF PageInv
<1>1. /\ changes' = changes \ {c} /\ (Input \/ UNCHANGED inputs)
      /\ UNCHANGED <<serverVars, listVars, loadVars, openVars, sends, sent, marks, reading, feed, wire>>
  BY DEF ChangeFailed
<1>2. CallsFit'
  <2>1. changes' \subseteq ChangeCall /\ \A x \in changes' : x.answer \subseteq Saved
    BY <1>1 DEF CallsFit
  <2> QED
    BY Zenon, <1>1, <2>1, ChangesFit DEF serverVars
<1> QED
  BY <1>1, <1>2, ServerRests, LoadsRest, BubblesRest, OpenRests

LEMMA PageKeeps == PageInv /\ [PageNext]_messagesVars => PageInv'
<1> SUFFICES ASSUME PageInv, [PageNext]_messagesVars PROVE PageInv'
  OBVIOUS
<1>1. CASE UNCHANGED messagesVars
  <2>1. UNCHANGED <<serverVars, feed, wire>> /\ UNCHANGED loadVars /\ UNCHANGED callVars /\ UNCHANGED lastId
        /\ UNCHANGED <<listVars, sends, sent>> /\ UNCHANGED <<openVars, loadVars, reading>> /\ UNCHANGED inputs
    BY <1>1 DEF messagesVars, serverVars, loadVars, callVars, listVars, openVars
  <2> QED
    BY Zenon, <2>1, ServerRests, LoadsRest, CallsRest, BubblesRest, OpenRests DEF PageInv
<1>2. ASSUME \/ OtherPosts \/ OtherAlters \/ SelectEmptyWorkspace \/ CommitTarget \/ PollTarget \/ FocusPage \/ ShowPage
             \/ MoveAttention \/ ScrollToLatestMessage \/ HandleEvent \/ FeedUp \/ FeedDown \/ HandleSend
             \/ \E t \in Targets : InitialMessageTarget(t) \/ SelectTarget(t) \/ MarkedReadElsewhere(t)
      PROVE  PageInv'
  BY Zenon, <1>2, OtherPostsKeeps, OtherAltersKeeps, OpeningKeeps, CommitTargetKeeps, RefreshesKeep, MarksKeep,
     HandleEventKeeps, FeedDownKeeps, HandleSendKeeps, SelectTargetKeeps
<1>3. ASSUME NEW s \in Slots, LoadStep(s) PROVE PageInv'
  BY <1>3, LoadServedKeeps, LoadAnsweredKeeps, LoadFailedKeeps, LoadIgnoredKeeps, MarkServedKeeps, MarkAnsweredKeeps
  DEF LoadStep
<1>4. ASSUME NEW c \in sends, SendServed(c) \/ SendAnswered(c) \/ SendFailed(c) PROVE PageInv'
  BY <1>4, SendServedKeeps, SendAnsweredKeeps, SendFailedKeeps
<1>5. ASSUME NEW c \in changes, ChangeServed(c) \/ ChangeAnswered(c) \/ ChangeFailed(c) PROVE PageInv'
  BY <1>5, ChangeServedKeeps, ChangeAnsweredKeeps, ChangeFailedKeeps
<1> QED
  BY <1>1, <1>2, <1>3, <1>4, <1>5, ChangeMessageKeeps DEF PageNext, CallStep

\* The open conversation never shows a message twice, nor a bubble or a loader
\* that nothing under way will settle, whatever order sends, live events, loads
\* and changes come in (handleSend, loadTarget, the live callback).
THEOREM PageIsSound == PageSpec => []PageSound
<1>1. PageInv => PageSound
  <2> SUFFICES ASSUME PageInv PROVE PageSound
    OBVIOUS
  <2>1. posted \subseteq Message
    BY DEF PageInv, ServerFits, Saved
  <2>2. wire \in Seq(MessageEvent)
    BY Zenon, EventsFit DEF PageInv, ServerFits
  <2>3. PageTypeOK
    BY <2>1, <2>2 DEF PageInv, ServerFits, LoadsFit, CallsFit, BubblesFit, OpenFits, PageTypeOK
  <2>4. NoDuplicateBubble
    BY DEF PageInv, BubblesFit, Distinct, NoDuplicateBubble
  <2> QED
    BY <2>3, <2>4 DEF PageInv, BubblesFit, OpenFits, PageSound
<1> QED
  BY <1>1, PageStarts, PageKeeps, PTL DEF PageSpec
=============================================================================
