----------------------------- MODULE VideoPages -----------------------------
(***************************************************************************)
(* The pages that start, attach and cancel video uploads, composed with    *)
(* VideoUploads: the lesson editor (LessonEditor.tsx), the exercise modal  *)
(* of the content page (ContentManagement.tsx, NewExerciseModal.tsx) and   *)
(* the recording manager (RecordingUploadManager.tsx).  The first two hold *)
(* a VideoUploadField.tsx.  One page is mounted at a time; going from one  *)
(* lesson's editor to another's keeps the mounted editor and its state.    *)
(***************************************************************************)
EXTENDS VideoUploads

CONSTANTS Existing,     \* the lessons there are at first
          MaxVisits     \* bound: route changes

ASSUME ExistingAssumption == Existing \subseteq Lessons /\ MaxVisits \in Nat

VARIABLES page,     \* "content", "cohort", or the lesson being edited
          visits,   \* route changes so far
          lessons,  \* lessons that exist
          draft,    \* the lesson editor's video state
          loads,    \* lessons the editor has asked for
          save,     \* the editor save under way
          modal,    \* the exercise modal's video state
          create    \* the createExercise request under way

pageVars == <<page, visits, lessons, draft, loads, save, modal, create>>
vars == <<uploadVars, pageVars>>

OrNone(S) == S \cup {None}
Draft == [mode : {"edit", "preview"}, lesson : OrNone(Lessons), row : BOOLEAN,
          key : OrNone(Uploads), block : OrNone(Lessons),
          pending : OrNone(Uploads), field : OrNone(Uploads)]
Save == [lesson : Lessons, key : OrNone(Uploads), omit : BOOLEAN, url : BOOLEAN,
         active : OrNone(Uploads), mounted : BOOLEAN]
Modal == [open : BOOLEAN, key : OrNone(Uploads), up : OrNone(Uploads)]
Create == [key : OrNone(Uploads), up : OrNone(Uploads), video : BOOLEAN]

NoDraft == [mode |-> "edit", lesson |-> None, row |-> FALSE, key |-> None,
            block |-> None, pending |-> None, field |-> None]
NoModal == [open |-> FALSE, key |-> None, up |-> None]

(***************************************************************************)
(* VideoUploadField: the upload it follows, and the effect that reports    *)
(* that upload's key to the page as soon as the key is known.              *)
(***************************************************************************)
ActiveIn(list, field, existing) ==
    IF field # None /\ Listed(list, field) THEN field ELSE First(existing)

\* The upload under way for the block, or for the lesson while it has no block.
ExistingUploads(list, d) ==
    {u \in Uploads : /\ list[u].status \in ActiveStatus
                     /\ IF d.block # None THEN list[u].block = d.block
                        ELSE opts[u].defer /\ list[u].link = d.lesson}

EditorUpload(list, d) == ActiveIn(list, d.field, ExistingUploads(list, d))
ModalUpload(list, m) == ActiveIn(list, m.up, {})

IsUploading(list, a) == a # None /\ list[a].status \in ActiveStatus

ReportedKey(list, a, key) ==
    IF a # None /\ list[a].key /\ list[a].status # "error" THEN a ELSE key

SyncDraft(list, d) ==
    LET a == EditorUpload(list, d)
    IN  IF d.mode = "preview" \/ d.lesson = None \/ a = None THEN d
        ELSE [d EXCEPT !.field = a, !.key = ReportedKey(list, a, @)]

SyncModal(list, m) ==
    IF m.open THEN [m EXCEPT !.key = ReportedKey(list, ModalUpload(list, m), @)] ELSE m

\* What the field offers: choosing a file while there is neither a key nor an
\* upload, dropping the upload while there is one of them.
CanChooseFile(list, a, key) == key = None /\ ~IsUploading(list, a)
CanStopUsing(list, a, key) == key # None \/ IsUploading(list, a)

PageInit ==
    /\ page \in {"content", "cohort"} \cup Existing /\ visits = 0
    /\ lessons = Existing
    /\ draft = NoDraft /\ loads = {page} \cap Lessons /\ save = None
    /\ modal = NoModal /\ create = None

\* React renders the queued list; the mounted field's effect runs after it.
Render ==
    /\ shown # uploads
    /\ shown' = uploads
    /\ draft' = SyncDraft(uploads, draft)
    /\ modal' = SyncModal(uploads, modal)
    /\ UNCHANGED <<uploads, opts, aborted, task, transfer, writes, abandons, objects,
                   blocks, recordings, faults, lost, acked,
                   page, visits, lessons, loads, save, create>>

(***************************************************************************)
(* Routes.                                                                 *)
(***************************************************************************)
GoTo(p) == visits < MaxVisits /\ visits' = visits + 1 /\ page' = p

Visit(p) ==
    /\ page # p
    /\ GoTo(p)
    /\ draft' = NoDraft /\ loads' = {} /\ modal' = NoModal
    /\ save' = IF save = None THEN None ELSE [save EXCEPT !.mounted = FALSE]
    /\ UNCHANGED <<uploadVars, lessons, create>>

\* The edit buttons of the content page, and the indicator's link to the
\* lesson an upload belongs to.
OpenEditor(l) ==
    /\ page # l /\ l \in lessons
    /\ page = "content" \/ \E u \in Uploads : Listed(shown, u) /\ shown[u].link = l
    /\ GoTo(l)
    /\ loads' = loads \cup {l}
    /\ modal' = NoModal
    /\ UNCHANGED <<uploadVars, lessons, draft, save, create>>

(***************************************************************************)
(* LessonEditor.                                                           *)
(***************************************************************************)
\* resolveS3Key: a deferred upload's key before the row's.
ResolveS3Key(l, fetched) ==
    LET live == {u \in Uploads : /\ shown[u].status \notin {"none", "error"}
                                 /\ shown[u].block = l /\ opts[u].defer /\ shown[u].key}
    IN  IF live # {} THEN First(live) ELSE fetched

\* What a lesson from the server leaves in the editor: the video state is set
\* only when the lesson has a video block.
Loaded(d, l, row) ==
    IF row.there
    THEN [d EXCEPT !.lesson = l, !.row = TRUE, !.block = l,
                   !.key = ResolveS3Key(l, row.key)]
    ELSE [d EXCEPT !.lesson = l, !.row = FALSE]

LoadAnswered(l) ==
    /\ l \in loads
    /\ loads' = loads \ {l}
    /\ draft' = SyncDraft(shown, Loaded(draft, l, blocks[l]))
    /\ UNCHANGED <<uploadVars, page, visits, lessons, save, modal, create>>

\* Edit and Student Preview: the field is unmounted in the preview.
ToggleMode ==
    /\ draft.lesson # None
    /\ draft' = IF draft.mode = "edit" THEN [draft EXCEPT !.mode = "preview", !.field = None]
                ELSE SyncDraft(shown, [draft EXCEPT !.mode = "edit"])
    /\ UNCHANGED <<uploadVars, page, visits, lessons, loads, save, modal, create>>

InField == page \in Lessons /\ draft.lesson # None /\ draft.mode = "edit"

EditorStart(u) ==
    /\ InField
    /\ CanChooseFile(shown, EditorUpload(shown, draft), draft.key)
    /\ StartVideoUpload(u, [NoOpts EXCEPT !.block = draft.block, !.defer = TRUE], draft.lesson)
    /\ draft' = [draft EXCEPT !.field = u, !.pending = u]
    /\ UNCHANGED <<shown, page, visits, lessons, loads, save, modal, create>>

\* handleRemoveS3Video, from "Stop using upload", "Switch to link" or the link
\* tab.
EditorRemove ==
    LET a == EditorUpload(shown, draft)
    IN  /\ InField
        /\ CanStopUsing(shown, a, draft.key)
        /\ IF IsUploading(shown, a) THEN CancelUpload(a)
           ELSE UNCHANGED <<aborted, abandons, uploads, task, transfer, objects, faults, lost>>
        /\ draft' = [draft EXCEPT !.field = None, !.key = None, !.pending = None]
        /\ UNCHANGED <<shown, opts, writes, blocks, recordings, acked,
                       page, visits, lessons, loads, save, modal, create>>

\* handleSave's first look at the list: the upload this lesson waits for.
ActiveVideoUpload(d) ==
    First({u \in Uploads :
              /\ shown[u].status \notin {"none", "error"}
              /\ \/ u = d.pending
                 \/ opts[u].defer /\ \/ d.block # None /\ shown[u].block = d.block
                                     \/ shown[u].link = d.lesson})

\* The guard of handleSave: an upload that is neither stored nor done stops it.
MaySave(d) ==
    LET a == ActiveVideoUpload(d)
    IN  a # None => shown[a].status \in {"waiting", "done"}

InFlightVideo(d) ==
    d.row /\ \E u \in Uploads : /\ shown[u].block = d.lesson
                                /\ shown[u].status \in {"presigning", "uploading", "saving"}

EditorSave(url) ==
    /\ page \in Lessons /\ draft.lesson # None /\ save = None
    /\ url => draft.key = None
    /\ MaySave(draft)
    /\ save' = [lesson |-> draft.lesson, key |-> draft.key, omit |-> InFlightVideo(draft),
                url |-> url, active |-> ActiveVideoUpload(draft), mounted |-> TRUE]
    /\ UNCHANGED <<uploadVars, page, visits, lessons, draft, loads, modal, create>>

\* update_editor_video!: no block is made for an empty payload; a key that is
\* not sent stays; a replaced object is deleted after the commit.
EditorWrites(s) ==
    LET old == blocks[s.lesson]
        key == IF s.omit THEN old.key ELSE s.key
        there == old.there \/ s.url \/ s.key # None
    IN  /\ blocks' = [blocks EXCEPT ![s.lesson] = [there |-> there, key |-> key]]
        /\ objects' = IF key # old.key THEN objects \ {old.key} ELSE objects

EditorSaveAnswered ==
    /\ save # None
    /\ EditorWrites(save)
    /\ acked' = IF blocks'[save.lesson].key = None THEN acked
                ELSE acked \cup {blocks'[save.lesson].key}
    /\ uploads' = IF save.active = None THEN uploads ELSE CompleteUpload(uploads, save.active)
    /\ draft' = IF save.mounted
                THEN SyncDraft(shown, [Loaded(draft, save.lesson, blocks'[save.lesson])
                                         EXCEPT !.pending = IF save.active = None THEN @ ELSE None])
                ELSE draft
    /\ save' = None
    /\ UNCHANGED <<shown, opts, aborted, task, transfer, writes, abandons, recordings,
                   faults, lost, page, visits, lessons, loads, modal, create>>

\* Refused, or saved and the answer was lost.
EditorSaveFailed ==
    /\ save # None /\ Fault
    /\ UNCHANGED <<blocks, objects>> \/ EditorWrites(save)
    /\ save' = None
    /\ UNCHANGED <<uploads, shown, opts, aborted, task, transfer, writes, abandons,
                   recordings, lost, acked, page, visits, lessons, draft, loads, modal, create>>

(***************************************************************************)
(* ContentManagement and its NewExerciseModal.                             *)
(***************************************************************************)
OpenModal ==
    /\ page = "content" /\ ~modal.open
    /\ modal' = [NoModal EXCEPT !.open = TRUE]
    /\ UNCHANGED <<uploadVars, page, visits, lessons, draft, loads, save, create>>

\* Cancel, Escape or the backdrop; the upload goes on.
CloseModal ==
    /\ modal.open
    /\ modal' = NoModal
    /\ UNCHANGED <<uploadVars, page, visits, lessons, draft, loads, save, create>>

ModalStart(u) ==
    /\ modal.open
    /\ CanChooseFile(shown, ModalUpload(shown, modal), modal.key)
    /\ StartVideoUpload(u, NoOpts, None)
    /\ modal' = [modal EXCEPT !.up = u]
    /\ UNCHANGED <<shown, page, visits, lessons, draft, loads, save, create>>

ModalRemove ==
    LET a == ModalUpload(shown, modal)
    IN  /\ modal.open
        /\ CanStopUsing(shown, a, modal.key)
        /\ IF IsUploading(shown, a) THEN CancelUpload(a)
           ELSE UNCHANGED <<aborted, abandons, uploads, task, transfer, objects, faults, lost>>
        /\ modal' = [modal EXCEPT !.key = None, !.up = None]
        /\ UNCHANGED <<shown, opts, writes, blocks, recordings, acked,
                       page, visits, lessons, draft, loads, save, create>>

\* handleSubmit: with a key, a link, or only instructions.
CreateExercise(url) ==
    /\ modal.open /\ create = None
    /\ url => modal.key = None
    /\ create' = [key |-> modal.key, up |-> modal.up, video |-> url \/ modal.key # None]
    /\ UNCHANGED <<uploadVars, page, visits, lessons, draft, loads, save, modal>>

\* create_exercise: the lesson, with a video block when a link or a key came.
ExerciseCreated(l) ==
    /\ lessons' = lessons \cup {l}
    /\ blocks' = [blocks EXCEPT ![l] = [there |-> create.video, key |-> create.key]]

\* The answer attaches the upload the modal had started, closes the modal and
\* reloads the content page.
CreateAnswered(l) ==
    /\ create # None /\ l \in Lessons \ lessons
    /\ ExerciseCreated(l)
    /\ IF create.up = None THEN UNCHANGED <<uploads, writes>>
       ELSE AttachUpload(create.up, IF create.video THEN l ELSE None, l)
    /\ modal' = NoModal
    /\ create' = None
    /\ UNCHANGED <<shown, opts, aborted, task, transfer, abandons, objects, recordings,
                   faults, lost, acked, page, visits, draft, loads, save>>

CreateFailed ==
    /\ create # None /\ Fault
    /\ \/ UNCHANGED <<lessons, blocks>>
       \/ \E l \in Lessons \ lessons : ExerciseCreated(l)
    /\ create' = None
    /\ UNCHANGED <<uploads, shown, opts, aborted, task, transfer, writes, abandons,
                   objects, recordings, lost, acked, page, visits, draft, loads, save, modal>>

(***************************************************************************)
(* RecordingUploadManager.                                                 *)
(***************************************************************************)
LaunchDraftUpload(u) ==
    /\ page = "cohort"
    /\ StartVideoUpload(u, [NoOpts EXCEPT !.rec = TRUE], None)
    /\ UNCHANGED <<shown, pageVars>>

HandleDelete(k) ==
    /\ page = "cohort"
    /\ DeleteRecording(k)
    /\ UNCHANGED pageVars

Init == /\ UploadInit /\ PageInit
        /\ \A l \in Lessons \ Existing : ~blocks[l].there

UserStep ==
    \/ \E p \in {"content", "cohort"} : Visit(p)
    \/ \E l \in Lessons : OpenEditor(l)
    \/ \E u \in Uploads : \/ EditorStart(u) \/ ModalStart(u) \/ LaunchDraftUpload(u)
                          \/ HandleDelete(u)
                          \/ IndicatorCancel(u) /\ UNCHANGED pageVars
    \/ \E url \in BOOLEAN : EditorSave(url) \/ CreateExercise(url)
    \/ ToggleMode \/ EditorRemove \/ OpenModal \/ CloseModal \/ ModalRemove

\* The list is on the screen again before the user acts on it; answers and
\* timers may come before the render.
Next ==
    \/ shown = uploads /\ UserStep
    \/ UploadStep /\ UNCHANGED pageVars
    \/ Render
    \/ \E l \in Lessons : LoadAnswered(l) \/ CreateAnswered(l)
    \/ EditorSaveAnswered \/ EditorSaveFailed \/ CreateFailed

Spec == Init /\ [][Next]_vars

\* A browser, a server and a bucket that answer: requests, transfers and timers
\* end, one way or the other.
Fairness == WF_vars(UploadStep /\ UNCHANGED pageVars)

LiveSpec == Spec /\ Fairness

\* The pages, the upload and the store keep their shape.
TypeOK ==
    /\ UploadTypeOK
    /\ page \in {"content", "cohort"} \cup Lessons
    /\ visits \in 0 .. MaxVisits
    /\ lessons \subseteq Lessons /\ loads \subseteq Lessons
    /\ draft \in Draft /\ modal \in Modal
    /\ save \in OrNone(Save) /\ create \in OrNone(Create)

(***************************************************************************)
(* Properties.                                                             *)
(***************************************************************************)
\* An upload's key is being written by one request at a time: startVideoUpload
\* and attachUpload (UploadContext) never both have its row write under way.
OneWriter == \A v, w \in writes : v.key = w.key => v = w

\* An upload the context persists itself is called done only after a row write
\* with its key was acknowledged.  (A deferred upload is called done by the editor
\* that saved its lesson, with or without the key: see the README.)
DoneWasSaved ==
    \A u \in Uploads : uploads[u].status = "done" /\ ~opts[u].defer => u \in acked

\* uploadMultipartToS3 asks for the object to be assembled only when every part
\* of the file has an etag, whatever order the workers and their retries ran in.
WholeFile == \A u \in Uploads : task[u] = "complete" => transfer[u].etags = 1 .. Parts

\* An upload is written once, whole, and called done only when its row was saved
\* (startVideoUpload, claimUpload and attachUpload, uploadMultipartToS3).
UploadsSound == TypeOK /\ OneWriter /\ DoneWasSaved /\ WholeFile

\* The stored object of a recording upload is never left behind unnoticed: it
\* has its row, or its row is being written, or an abandon is under way for it,
\* unless a lost answer hid the object from the client.
RecordingAccounted ==
    \A u \in objects : opts[u].rec =>
        u \in recordings \/ task[u] = "save" \/ u \in abandons \/ u \in lost

\* The store a cohort sees: its recordings and the files uploaded for them.
Store == INSTANCE RecordingStore
         WITH Keys <- Uploads, rows <- recordings,
              stored <- {u \in objects : opts[u].rec}

\* Recording uploads implement RecordingStore: seen from the cohort, the whole
\* machinery of presigned and multipart transfers, cancellations, lost answers and
\* abandoned keys only puts, publishes, withdraws and destroys recordings.
StoreSpec == Store!Spec

\* Every started upload leaves its transfer and its row write behind: it ends
\* stored, failed or cancelled, and is not left presigning, uploading or saving in
\* the list, whatever fails or is cancelled on the way.
UploadSettles ==
    \A u \in Uploads :
        []<>(task[u] = "none" \/ (task[u] = "over" /\ uploads[u].status \notin {"presigning", "uploading", "saving"}))
=============================================================================
