--------------------------- MODULE VideoPagesProofs ---------------------------
(***************************************************************************)
(* The rest of the proofs about VideoPages: the pages that start uploads,  *)
(* show them and write their keys to the database.                         *)
(***************************************************************************)
EXTENDS VideoUploadsProofs

-----------------------------------------------------------------------------
(***************************************************************************)
(* The pages.                                                              *)
(***************************************************************************)
GoodDraft(d) == d \in Draft /\ Plain(d.key) /\ Plain(d.field) /\ Deferred(d.pending)
GoodSave(s) == s \in OrNone(Save) /\ (s # None => Plain(s.key) /\ Deferred(s.active))
GoodModal(m) == m \in Modal /\ Plain(m.key) /\ Plain(m.up)
GoodCreate(c) == c \in OrNone(Create) /\ (c # None => Plain(c.key) /\ Plain(c.up))
NotAttached(x) == \A w \in writes : w.by = "attach" => w.key # x

LEMMA PagesGood ==
    ASSUME UploadInv
    PROVE  /\ GoodDraft(draft) /\ GoodSave(save) /\ GoodModal(modal) /\ GoodCreate(create)
           /\ NotAttached(modal.up) /\ (create # None => NotAttached(create.up))
           /\ \A l \in Lessons : Plain(blocks[l].key)
<1>1. GoodDraft(draft) /\ GoodSave(save) /\ GoodModal(modal) /\ GoodCreate(create)
  BY DEF UploadInv, TypeOK, KeysPlain, GoodDraft, GoodSave, GoodModal, GoodCreate
<1>2. NotAttached(modal.up) /\ (create # None => NotAttached(create.up))
  BY DEF UploadInv, WritesFit, NotAttached
<1>3. \A l \in Lessons : Plain(blocks[l].key)
  BY DEF UploadInv, KeysPlain
<1> QED
  BY <1>1, <1>2, <1>3

LEMMA EmptyPages == GoodDraft(NoDraft) /\ GoodModal(NoModal) /\ Plain(None) /\ Deferred(None)
<1>1. NoDraft \in Draft /\ NoDraft.key = None /\ NoDraft.field = None /\ NoDraft.pending = None
  BY DEF NoDraft, Draft, OrNone
<1>2. NoModal \in Modal /\ NoModal.key = None /\ NoModal.up = None
  BY DEF NoModal, Modal, OrNone
<1> QED
  BY <1>1, <1>2 DEF GoodDraft, GoodModal, Plain, Deferred

LEMMA NoneNotAttached ==
    ASSUME UploadInv
    PROVE  NotAttached(None)
BY WriteTask, UploadsAssumption DEF NotAttached

\* Good pages keep the keys plain.
LEMMA PageKeys ==
    ASSUME UploadInv, Stays, UploadTypeOK',
           page' \in {"content", "cohort"} \cup Lessons, visits' \in 0 .. MaxVisits,
           lessons' \subseteq Lessons, loads' \subseteq Lessons,
           GoodDraft(draft'), GoodSave(save'), GoodModal(modal'), GoodCreate(create'),
           \A l \in Lessons : Plain(blocks'[l].key)
    PROVE  TypeOK' /\ KeysPlain'
<1>1. TypeOK'
  BY DEF TypeOK, GoodDraft, GoodSave, GoodModal, GoodCreate
<1>2. \A l \in Lessons : Plain(blocks[l].key)'
  BY PlainStays DEF Plain
<1>3. Plain(draft.key)' /\ Plain(draft.field)' /\ Deferred(draft.pending)'
  BY PlainStays DEF Plain, Deferred, GoodDraft
<1>4. (save # None => Plain(save.key) /\ Deferred(save.active))'
  BY PlainStays DEF Plain, Deferred, GoodSave
<1>5. Plain(modal.key)' /\ Plain(modal.up)'
  BY PlainStays DEF Plain, GoodModal
<1>6. (create # None => Plain(create.key) /\ Plain(create.up))'
  BY PlainStays DEF Plain, GoodCreate
<1> QED
  BY <1>1, <1>2, <1>3, <1>4, <1>5, <1>6 DEF KeysPlain

\* A step of the pages alone.
LEMMA PageStep ==
    ASSUME UploadInv, UNCHANGED uploadVars,
           page' \in {"content", "cohort"} \cup Lessons, visits' \in 0 .. MaxVisits,
           lessons' \subseteq Lessons, loads' \subseteq Lessons,
           GoodDraft(draft'), GoodSave(save'), GoodModal(modal'), GoodCreate(create'),
           NotAttached(modal'.up), create' # None => NotAttached(create'.up)
    PROVE  UploadInv' /\ StoreStep
<1>1. UNCHANGED <<uploads, shown, opts, aborted, task, transfer, writes,
                  abandons, objects, blocks, recordings, faults, lost, acked>>
  BY DEF uploadVars
<1>2. UploadTypeOK'
  BY <1>1 DEF UploadInv, TypeOK, UploadTypeOK
<1>3. TypeOK' /\ KeysPlain'
  <2>1. Stays /\ \A l \in Lessons : Plain(blocks'[l].key)
    BY <1>1, PagesGood DEF Stays
  <2> QED
    BY <1>2, <2>1, PageKeys
<1>4. WritesFit' /\ OneWriter'
  <2>1. \A w \in writes' : w.by = "attach" => w.key # modal'.up /\ (create' # None => w.key # create'.up)
    BY <1>1 DEF NotAttached
  <2> QED
    BY <1>1, <2>1, WritesStay
<1>5. PartsCovered' /\ WholeFile'
  BY <1>1, TransferStays
<1>6. Unstarted' /\ RecApart' /\ WaitIsOver' /\ DoneWasSaved' /\ RecordingAccounted'
  BY <1>1 DEF UploadInv, Unstarted, RecApart, WaitIsOver, DoneWasSaved, RecordingAccounted
<1> QED
  BY <1>1, <1>3, <1>4, <1>5, <1>6, SameFiles DEF UploadInv

\* VideoUploadField follows no recording.
LEMMA FollowedPlain ==
    ASSUME UploadInv, NEW list \in {uploads, shown}, NEW d, GoodDraft(d)
    PROVE  Plain(EditorUpload(list, d))
<1>1. CASE d.field # None /\ Listed(list, d.field)
  BY <1>1 DEF EditorUpload, ActiveIn, GoodDraft
<1>2. CASE ~(d.field # None /\ Listed(list, d.field))
  <2>1. EditorUpload(list, d) = First(ExistingUploads(list, d))
    BY <1>2 DEF EditorUpload, ActiveIn
  <2>2. ExistingUploads(list, d) \in SUBSET Uploads
    BY DEF ExistingUploads
  <2>3. ASSUME NEW u \in ExistingUploads(list, d)
        PROVE  Plain(u)
    <3>1. u \in Uploads /\ list[u].status \in ActiveStatus
      BY DEF ExistingUploads
    <3>2. task[u] # "none"
      BY <3>1, ListedStarted DEF ActiveStatus
    <3>3. (d.block # None /\ list[u].block = d.block) \/ opts[u].defer
      BY DEF ExistingUploads
    <3>4. ~opts[u].rec
      BY <3>1, <3>3 DEF UploadInv, RecApart
    <3> QED
      BY <3>1, <3>2, <3>4 DEF Plain
  <2> QED
    BY <2>1, <2>2, <2>3, FirstIn, EmptyPages
<1> QED
  BY <1>1, <1>2

\* Nor does it report a recording's key.
LEMMA SyncGood ==
    ASSUME UploadInv, NEW list \in {uploads, shown}, NEW d, GoodDraft(d)
    PROVE  GoodDraft(SyncDraft(list, d))
<1> DEFINE a == EditorUpload(list, d)
<1>1. d \in Draft
  BY DEF GoodDraft
<1>2. Plain(a)
  BY FollowedPlain
<1> HIDE DEF a
<1>3. CASE d.mode = "preview" \/ d.lesson = None \/ a = None
  BY <1>3 DEF SyncDraft, a
<1>4. CASE ~(d.mode = "preview" \/ d.lesson = None \/ a = None)
  <2> DEFINE k == ReportedKey(list, a, d.key)
  <2>1. k \in {a, d.key}
    BY DEF ReportedKey
  <2>2. SyncDraft(list, d) = [d EXCEPT !.field = a, !.key = k]
    BY <1>4 DEF SyncDraft, a
  <2> HIDE DEF k
  <2>3. Plain(k) /\ a \in OrNone(Uploads) /\ k \in OrNone(Uploads)
    BY <1>2, <2>1 DEF GoodDraft, Plain, OrNone
  <2> DEFINE e == [d EXCEPT !.field = a, !.key = k]
  <2>4. e \in Draft /\ e.key = k /\ e.field = a /\ e.pending = d.pending
    BY Zenon, <1>1, <2>3 DEF Draft
  <2> HIDE DEF e
  <2>5. GoodDraft(e)
    BY <1>2, <2>3, <2>4 DEF GoodDraft
  <2> QED
    BY <2>2, <2>5 DEF e
<1> QED
  BY <1>3, <1>4

LEMMA SyncModalGood ==
    ASSUME UploadInv, NEW list \in {uploads, shown}, NEW m, GoodModal(m)
    PROVE  GoodModal(SyncModal(list, m)) /\ SyncModal(list, m).up = m.up
<1>1. CASE ~m.open
  BY <1>1 DEF SyncModal
<1>2. CASE m.open
  <2> DEFINE a == ModalUpload(list, m)
             k == ReportedKey(list, a, m.key)
             e == [m EXCEPT !.key = k]
  <2>1. a \in {None, m.up}
    BY DEF ModalUpload, ActiveIn, First
  <2>2. k \in {a, m.key}
    BY DEF ReportedKey
  <2>3. SyncModal(list, m) = e
    BY <1>2 DEF SyncModal
  <2> HIDE DEF a, k
  <2>4. Plain(k) /\ k \in OrNone(Uploads)
    BY <2>1, <2>2 DEF GoodModal, Plain, OrNone
  <2>5. e \in Modal /\ e.key = k /\ e.up = m.up
    BY <2>4 DEF Modal, GoodModal
  <2> HIDE DEF e
  <2> QED
    BY <2>3, <2>4, <2>5 DEF GoodModal
<1> QED
  BY <1>1, <1>2

\* A lesson from the server brings no recording's key into the editor.
LEMMA LoadGood ==
    ASSUME UploadInv, NEW d, GoodDraft(d), NEW l \in Lessons, NEW row \in VideoRow, Plain(row.key)
    PROVE  GoodDraft(Loaded(d, l, row))
<1> DEFINE k == ResolveS3Key(l, row.key)
<1>1. Plain(k)
  <2> DEFINE live == {u \in Uploads : /\ shown[u].status \notin {"none", "error"}
                                      /\ shown[u].block = l /\ opts[u].defer /\ shown[u].key}
  <2>1. ASSUME NEW u \in live
        PROVE  Plain(u)
    <3>1. task[u] # "none"
      BY ListedStarted
    <3>2. ~opts[u].rec
      BY DEF UploadInv, RecApart
    <3> QED
      BY <3>1, <3>2 DEF Plain
  <2>2. live \in SUBSET Uploads
    OBVIOUS
  <2>3. k = IF live # {} THEN First(live) ELSE row.key
    BY DEF ResolveS3Key
  <2> HIDE DEF live, k
  <2> QED
    BY <2>1, <2>2, <2>3, FirstIn, EmptyPages
<1> HIDE DEF k
<1>2. k \in OrNone(Uploads) /\ d \in Draft /\ l \in OrNone(Lessons)
  BY <1>1 DEF Plain, OrNone, GoodDraft
<1>3. CASE row.there
  <2> DEFINE e == [d EXCEPT !.lesson = l, !.row = TRUE, !.block = l, !.key = k]
  <2>1. e \in Draft /\ e.key = k /\ e.field = d.field /\ e.pending = d.pending
    BY Zenon, <1>2 DEF Draft
  <2>2. Loaded(d, l, row) = e
    BY <1>3 DEF Loaded, k
  <2> HIDE DEF e
  <2> QED
    BY <1>1, <2>1, <2>2 DEF GoodDraft
<1>4. CASE ~row.there
  <2> DEFINE e == [d EXCEPT !.lesson = l, !.row = FALSE]
  <2>1. e \in Draft /\ e.key = d.key /\ e.field = d.field /\ e.pending = d.pending
    BY Zenon, <1>2 DEF Draft
  <2>2. Loaded(d, l, row) = e
    BY <1>4 DEF Loaded
  <2> HIDE DEF e
  <2> QED
    BY <2>1, <2>2 DEF GoodDraft
<1> QED
  BY <1>3, <1>4

\* The upload a save waits for is a deferred one.
LEMMA ActiveDeferred ==
    ASSUME UploadInv
    PROVE  Deferred(ActiveVideoUpload(draft))
<1> DEFINE S == {u \in Uploads :
              /\ shown[u].status \notin {"none", "error"}
              /\ \/ u = draft.pending
                 \/ opts[u].defer /\ \/ draft.block # None /\ shown[u].block = draft.block
                                     \/ shown[u].link = draft.lesson}
<1>1. ASSUME NEW u \in S
      PROVE  Deferred(u)
  <2>1. task[u] # "none"
    BY ListedStarted
  <2>2. u = draft.pending \/ opts[u].defer
    OBVIOUS
  <2>3. Deferred(draft.pending)
    BY PagesGood DEF GoodDraft
  <2> QED
    BY <2>1, <2>2, <2>3 DEF Deferred
<1>2. S \in SUBSET Uploads /\ ActiveVideoUpload(draft) = First(S)
  BY DEF ActiveVideoUpload
<1> HIDE DEF S
<1> QED
  BY <1>1, <1>2, FirstIn, EmptyPages

\* The steps that change the pages alone.
LEMMA QuietPages ==
    ASSUME UploadInv,
           \/ \E p \in {"content", "cohort"} : Visit(p)
           \/ \E l \in Lessons : OpenEditor(l) \/ LoadAnswered(l)
           \/ ToggleMode \/ OpenModal \/ CloseModal
           \/ \E url \in BOOLEAN : EditorSave(url) \/ CreateExercise(url)
    PROVE  UploadInv' /\ StoreStep
<1>1. /\ GoodDraft(draft) /\ GoodSave(save) /\ GoodModal(modal) /\ GoodCreate(create)
      /\ NotAttached(modal.up) /\ (create # None => NotAttached(create.up))
      /\ \A l \in Lessons : Plain(blocks[l].key)
  BY PagesGood
<1>2. /\ GoodDraft(NoDraft) /\ GoodModal(NoModal) /\ NoModal.up = None /\ NotAttached(NoModal.up)
      /\ Plain(None) /\ Deferred(None)
  BY EmptyPages, NoneNotAttached DEF NoModal
<1>3. /\ page \in {"content", "cohort"} \cup Lessons /\ visits \in 0 .. MaxVisits /\ MaxVisits \in Nat
      /\ lessons \subseteq Lessons /\ loads \subseteq Lessons /\ blocks \in [Lessons -> VideoRow]
  BY ExistingAssumption DEF UploadInv, TypeOK, UploadTypeOK
<1>4. ASSUME NEW p \in {"content", "cohort"}, Visit(p)
      PROVE  UploadInv' /\ StoreStep
  <2>1. /\ visits < MaxVisits /\ visits' = visits + 1 /\ page' = p
        /\ draft' = NoDraft /\ loads' = {} /\ modal' = NoModal
        /\ save' = IF save = None THEN None ELSE [save EXCEPT !.mounted = FALSE]
        /\ UNCHANGED <<uploadVars, lessons, create>>
    BY <1>4 DEF Visit, GoTo
  <2>2. visits' \in 0 .. MaxVisits
    BY <1>3, <2>1
  <2>3. GoodSave(save')
    <3>1. CASE save = None
      BY <1>1, <2>1, <3>1
    <3>2. CASE save # None
      <4> DEFINE s == [save EXCEPT !.mounted = FALSE]
      <4>1. save \in Save /\ Plain(save.key) /\ Deferred(save.active)
        BY <1>1, <3>2 DEF GoodSave, OrNone
      <4>2. s \in Save /\ s.key = save.key /\ s.active = save.active
        BY Zenon, <4>1 DEF Save
      <4>3. save' = s
        BY <2>1, <3>2
      <4> HIDE DEF s
      <4> QED
        BY <4>1, <4>2, <4>3 DEF GoodSave, OrNone
    <3> QED
      BY <3>1, <3>2
  <2> QED
    BY <1>1, <1>2, <1>3, <2>1, <2>2, <2>3, PageStep
<1>5. ASSUME NEW l \in Lessons, OpenEditor(l)
      PROVE  UploadInv' /\ StoreStep
  <2>1. /\ visits < MaxVisits /\ visits' = visits + 1 /\ page' = l
        /\ loads' = loads \cup {l} /\ modal' = NoModal
        /\ UNCHANGED <<uploadVars, lessons, draft, save, create>>
    BY <1>5 DEF OpenEditor, GoTo
  <2>2. visits' \in 0 .. MaxVisits
    BY <1>3, <2>1
  <2>3. loads' \subseteq Lessons /\ page' \in {"content", "cohort"} \cup Lessons
    BY <1>3, <2>1
  <2> QED
    BY <1>1, <1>2, <1>3, <2>1, <2>2, <2>3, PageStep
<1>6. ASSUME NEW l \in Lessons, LoadAnswered(l)
      PROVE  UploadInv' /\ StoreStep
  <2>1. /\ loads' = loads \ {l} /\ draft' = SyncDraft(shown, Loaded(draft, l, blocks[l]))
        /\ UNCHANGED <<uploadVars, page, visits, lessons, save, modal, create>>
    BY <1>6 DEF LoadAnswered
  <2>2. blocks[l] \in VideoRow /\ Plain(blocks[l].key)
    BY <1>1, <1>3
  <2>3. GoodDraft(Loaded(draft, l, blocks[l]))
    BY <1>1, <2>2, LoadGood
  <2>4. GoodDraft(draft')
    BY <2>1, <2>3, SyncGood
  <2>5. loads' \subseteq Lessons
    BY <1>3, <2>1
  <2> QED
    BY <1>1, <1>3, <2>1, <2>4, <2>5, PageStep
<1>7. CASE ToggleMode
  <2>1. /\ draft' = IF draft.mode = "edit" THEN [draft EXCEPT !.mode = "preview", !.field = None]
                    ELSE SyncDraft(shown, [draft EXCEPT !.mode = "edit"])
        /\ UNCHANGED <<uploadVars, page, visits, lessons, loads, save, modal, create>>
    BY <1>7 DEF ToggleMode
  <2> DEFINE d == [draft EXCEPT !.mode = "preview", !.field = None]
             e == [draft EXCEPT !.mode = "edit"]
  <2>2. /\ d \in Draft /\ d.key = draft.key /\ d.field = None /\ d.pending = draft.pending
        /\ e \in Draft /\ e.key = draft.key /\ e.field = draft.field /\ e.pending = draft.pending
    BY Zenon, <1>1 DEF GoodDraft, Draft, OrNone
  <2>3. draft' = d \/ draft' = SyncDraft(shown, e)
    BY <2>1
  <2> HIDE DEF d, e
  <2>4. GoodDraft(d) /\ GoodDraft(e)
    BY <1>1, <1>2, <2>2 DEF GoodDraft
  <2>5. GoodDraft(draft')
    BY <2>3, <2>4, SyncGood
  <2> QED
    BY <1>1, <1>3, <2>1, <2>5, PageStep
<1>8. CASE OpenModal \/ CloseModal
  <2> DEFINE m == [NoModal EXCEPT !.open = TRUE]
  <2>1. /\ modal' = m \/ modal' = NoModal
        /\ UNCHANGED <<uploadVars, page, visits, lessons, draft, loads, save, create>>
    BY <1>8 DEF OpenModal, CloseModal
  <2>2. m \in Modal /\ m.key = None /\ m.up = None
    BY Zenon DEF NoModal, Modal, OrNone
  <2> HIDE DEF m
  <2>3. GoodModal(m) /\ NotAttached(m.up)
    BY <1>2, <2>2 DEF GoodModal
  <2>4. GoodModal(modal') /\ NotAttached(modal'.up)
    BY <1>2, <2>1, <2>3
  <2> QED
    BY <1>1, <1>3, <2>1, <2>4, PageStep
<1>9. ASSUME NEW url \in BOOLEAN, EditorSave(url)
      PROVE  UploadInv' /\ StoreStep
  <2> DEFINE a == ActiveVideoUpload(draft)
             s == [lesson |-> draft.lesson, key |-> draft.key, omit |-> InFlightVideo(draft),
                   url |-> url, active |-> a, mounted |-> TRUE]
  <2>1. /\ draft.lesson # None /\ save' = s
        /\ UNCHANGED <<uploadVars, page, visits, lessons, draft, loads, modal, create>>
    BY <1>9 DEF EditorSave
  <2>2. Deferred(a)
    BY ActiveDeferred
  <2> HIDE DEF a
  <2>3. InFlightVideo(draft) \in BOOLEAN
    BY DEF InFlightVideo
  <2>4. draft.lesson \in Lessons /\ draft.key \in OrNone(Uploads) /\ a \in OrNone(Uploads)
    BY <1>1, <2>1, <2>2 DEF GoodDraft, Draft, OrNone, Deferred
  <2>5. s \in Save /\ s.key = draft.key /\ s.active = a
    BY <2>3, <2>4 DEF Save
  <2> HIDE DEF s
  <2>6. GoodSave(save')
    BY <1>1, <2>1, <2>2, <2>5 DEF GoodSave, GoodDraft, OrNone
  <2> QED
    BY <1>1, <1>3, <2>1, <2>6, PageStep
<1>10. ASSUME NEW url \in BOOLEAN, CreateExercise(url)
       PROVE  UploadInv' /\ StoreStep
  <2> DEFINE c == [key |-> modal.key, up |-> modal.up, video |-> url \/ modal.key # None]
  <2>1. create' = c /\ UNCHANGED <<uploadVars, page, visits, lessons, draft, loads, save, modal>>
    BY <1>10 DEF CreateExercise
  <2>2. modal.key \in OrNone(Uploads) /\ modal.up \in OrNone(Uploads) /\ (url \/ modal.key # None) \in BOOLEAN
    BY <1>1 DEF GoodModal, Modal
  <2>3. c \in Create /\ c.key = modal.key /\ c.up = modal.up
    BY <2>2 DEF Create
  <2> HIDE DEF c
  <2>4. GoodCreate(create') /\ NotAttached(create'.up)
    BY <1>1, <2>1, <2>3 DEF GoodCreate, GoodModal, OrNone
  <2> QED
    BY <1>1, <1>3, <2>1, <2>4, PageStep
<1> QED
  BY <1>4, <1>5, <1>6, <1>7, <1>8, <1>9, <1>10

\* The list is rendered.
LEMMA RenderStep ==
    ASSUME UploadInv, Render
    PROVE  UploadInv' /\ StoreStep
<1>1. /\ shown' = uploads /\ draft' = SyncDraft(uploads, draft) /\ modal' = SyncModal(uploads, modal)
      /\ UNCHANGED <<uploads, opts, aborted, task, transfer, writes, abandons, objects,
                     blocks, recordings, faults, lost, acked,
                     page, visits, lessons, loads, save, create>>
  BY DEF Render
<1>2. /\ GoodDraft(draft) /\ GoodSave(save) /\ GoodModal(modal) /\ GoodCreate(create)
      /\ NotAttached(modal.up) /\ (create # None => NotAttached(create.up))
      /\ \A l \in Lessons : Plain(blocks[l].key)
  BY PagesGood
<1>3. GoodDraft(draft') /\ GoodModal(modal') /\ modal'.up = modal.up
  BY <1>1, <1>2, SyncGood, SyncModalGood
<1>4. UploadTypeOK'
  BY Zenon, <1>1 DEF UploadInv, TypeOK, UploadTypeOK
<1>5. TypeOK' /\ KeysPlain'
  <2>1. /\ page' \in {"content", "cohort"} \cup Lessons /\ visits' \in 0 .. MaxVisits
        /\ lessons' \subseteq Lessons /\ loads' \subseteq Lessons
    BY <1>1 DEF UploadInv, TypeOK
  <2>2. Stays
    BY <1>1 DEF Stays
  <2> QED
    BY <1>1, <1>2, <1>3, <1>4, <2>1, <2>2, PageKeys
<1>6. WritesFit' /\ OneWriter'
  <2>1. \A w \in writes' : w.by = "attach" => w.key # modal'.up /\ (create' # None => w.key # create'.up)
    BY <1>1, <1>2, <1>3 DEF NotAttached
  <2> QED
    BY <1>1, <2>1, WritesStay
<1>7. PartsCovered' /\ WholeFile'
  BY <1>1, TransferStays
<1>8. Unstarted' /\ RecApart' /\ WaitIsOver'
  BY <1>1 DEF UploadInv, Unstarted, RecApart, WaitIsOver
<1>9. DoneWasSaved' /\ RecordingAccounted'
  BY <1>1 DEF UploadInv, DoneWasSaved, RecordingAccounted
<1> QED
  BY <1>1, <1>5, <1>6, <1>7, <1>8, <1>9, SameFiles DEF UploadInv

\* What startVideoUpload does up to its first await.
LEMMA StartFacts ==
    ASSUME UploadInv, NEW u \in Uploads, NEW o \in UploadStartOpts,
           o.rec => ~o.defer /\ o.block = None,
           NEW link \in Lessons \cup {None}, StartVideoUpload(u, o, link), shown' = shown
    PROVE  /\ UploadTypeOK' /\ Stays
           /\ Unstarted' /\ RecApart' /\ WaitIsOver' /\ DoneWasSaved'
           /\ PartsCovered' /\ WholeFile' /\ RecordingAccounted' /\ StoreStep
           /\ task'[u] = "presign" /\ opts'[u].rec = o.rec /\ opts'[u].defer = o.defer
           /\ blocks' = blocks /\ writes' = writes
           /\ \A w \in writes' : w.key # u /\ task'[w.key] = task[w.key] /\ opts'[w.key] = opts[w.key]
<1> DEFINE row == [status |-> "presigning", key |-> FALSE, block |-> o.block, link |-> link]
<1>1. UploadTypeOK /\ task[u] = "none"
  BY DEF UploadInv, TypeOK, StartVideoUpload
<1>2. PICK big \in BOOLEAN : opts' = [opts EXCEPT ![u] = [o EXCEPT !.big = big]]
  BY Zenon DEF StartVideoUpload
<1> DEFINE p == [o EXCEPT !.big = big]
<1>3. /\ uploads' = [uploads EXCEPT ![u] = row] /\ opts' = [opts EXCEPT ![u] = p]
      /\ task' = [task EXCEPT ![u] = "presign"]
      /\ UNCHANGED <<shown, aborted, transfer, writes, abandons, objects, blocks,
                     recordings, faults, lost, acked>>
  BY Zenon, <1>2 DEF StartVideoUpload
<1>4. /\ p \in UploadStartOpts /\ p.rec = o.rec /\ p.defer = o.defer /\ p.block = o.block
  BY DEF UploadStartOpts
<1>5. row \in ActiveUpload /\ row.status = "presigning" /\ row.block = o.block
  BY DEF ActiveUpload, Status, ActiveStatus, UploadStartOpts
<1> HIDE DEF row, p
<1>6. /\ uploads' \in [Uploads -> ActiveUpload] /\ uploads'[u] = row
      /\ opts' \in [Uploads -> UploadStartOpts] /\ opts'[u] = p
      /\ task' \in [Uploads -> {"none", "presign", "send", "complete", "save", "over"}]
      /\ task'[u] = "presign"
      /\ \A v \in Uploads : v # u => uploads'[v] = uploads[v] /\ opts'[v] = opts[v] /\ task'[v] = task[v]
  BY <1>1, <1>3, <1>4, <1>5 DEF UploadTypeOK
<1>7. UploadTypeOK'
  BY <1>1, <1>3, <1>6 DEF UploadTypeOK
<1>8. Stays
  BY <1>1, <1>6 DEF Stays
<1>9. u \notin objects /\ shown[u] = Absent
  BY <1>1 DEF UploadInv, Unstarted
<1>10. Unstarted'
  BY <1>3, <1>6 DEF UploadInv, Unstarted
<1>11. RecApart'
  <2> SUFFICES ASSUME NEW v \in Uploads, opts'[v].rec
               PROVE  /\ ~opts'[v].defer /\ opts'[v].block = None /\ uploads'[v].block = None
                      /\ shown'[v].block = None
    BY Zenon DEF RecApart
  <2>1. CASE v = u
    BY <1>3, <1>4, <1>5, <1>6, <1>9, <2>1, AbsentType
  <2>2. CASE v # u
    BY <1>3, <1>6, <2>2 DEF UploadInv, RecApart
  <2> QED
    BY <2>1, <2>2
<1>12. WaitIsOver'
  <2> SUFFICES ASSUME NEW v \in Uploads, uploads'[v].status = "waiting" \/ shown'[v].status = "waiting"
               PROVE  task'[v] = "over"
    BY DEF WaitIsOver
  <2>1. v # u
    BY <1>3, <1>5, <1>6, <1>9, AbsentType
  <2> QED
    BY <1>3, <1>6, <2>1 DEF UploadInv, WaitIsOver
<1>13. DoneWasSaved'
  <2> SUFFICES ASSUME NEW v \in Uploads, uploads'[v].status = "done", ~opts'[v].defer
               PROVE  v \in acked'
    BY DEF DoneWasSaved
  <2>1. v # u
    BY <1>5, <1>6
  <2> QED
    BY <1>3, <1>6, <2>1 DEF UploadInv, DoneWasSaved
<1>14. PartsCovered' /\ WholeFile'
  <2>1. WholeFile'
    BY <1>3, <1>6 DEF UploadInv, WholeFile
  <2>2. ASSUME NEW v \in Uploads
        PROVE  /\ task'[v] \in {"none", "presign"} => transfer'[v].busy = {}
               /\ task'[v] = "send" /\ transfer'[v].busy # {} =>
                     \A q \in 1 .. Parts : q < transfer'[v].next => q \in transfer'[v].etags
                        \/ \E n \in 1 .. MaxAttempts : <<q, n>> \in transfer'[v].busy
    <3>1. CASE v = u
      BY Zenon, <1>1, <1>3, <1>6, <3>1 DEF UploadInv, PartsCovered
    <3>2. CASE v # u
      BY <1>3, <1>6, <3>2 DEF UploadInv, PartsCovered
    <3> QED
      BY <3>1, <3>2
  <2> QED
    BY <2>1, <2>2 DEF PartsCovered
<1>15. RecordingAccounted'
  <2> SUFFICES ASSUME NEW v \in objects', opts'[v].rec
               PROVE  v \in recordings' \/ task'[v] = "save" \/ v \in abandons' \/ v \in lost'
    BY DEF RecordingAccounted
  <2>1. v \in Uploads /\ v # u /\ v \in objects
    BY <1>1, <1>3, <1>9 DEF UploadTypeOK
  <2> QED
    BY <1>3, <1>6, <2>1 DEF UploadInv, RecordingAccounted
<1>16. StoreStep
  <2>1. objects \subseteq Uploads
    BY Zenon, <1>1 DEF UploadTypeOK
  <2>2. Files' = Files
    BY Zenon, <1>3, <1>6, <1>9, <2>1 DEF Files
  <2> QED
    BY <1>3, <2>2 DEF StoreStep
<1>17. \A w \in writes' : w.key # u /\ task'[w.key] = task[w.key] /\ opts'[w.key] = opts[w.key]
  BY <1>1, <1>3, <1>6, WriteTask
<1>18. opts'[u].rec = o.rec /\ opts'[u].defer = o.defer
  BY <1>4, <1>6
<1> QED
  BY <1>3, <1>6, <1>7, <1>8, <1>10, <1>11, <1>12, <1>13, <1>14, <1>15, <1>16, <1>17, <1>18

\* A page starts an upload; the page's own keys are the new upload's or the old ones.
LEMMA StartKeys ==
    ASSUME UploadInv, Stays, UploadTypeOK', NEW u \in Uploads, task'[u] # "none",
           blocks' = blocks,
           UNCHANGED <<page, visits, lessons, loads, save, create>>,
           draft' \in Draft, draft'.key = draft.key,
           \/ draft'.field = draft.field /\ draft'.pending = draft.pending
           \/ draft'.field = u /\ draft'.pending = u /\ opts'[u].defer /\ ~opts'[u].rec,
           modal' \in Modal, modal'.key = modal.key,
           modal'.up = modal.up \/ (modal'.up = u /\ ~opts'[u].rec)
    PROVE  TypeOK' /\ KeysPlain'
<1>1. /\ GoodDraft(draft) /\ GoodSave(save) /\ GoodModal(modal) /\ GoodCreate(create)
      /\ \A l \in Lessons : Plain(blocks[l].key)
  BY PagesGood
<1>2. TypeOK'
  BY DEF UploadInv, TypeOK
<1>3. \A l \in Lessons : Plain(blocks[l].key)'
  BY Zenon, <1>1, PlainStays DEF Plain
<1>4. Plain(draft.key)' /\ Plain(draft.field)' /\ Deferred(draft.pending)'
  <2>1. Plain(draft.key)'
    BY <1>1, PlainStays DEF Plain, GoodDraft
  <2>2. Plain(draft.field)'
    BY Zenon, <1>1, PlainStays DEF Plain, GoodDraft
  <2>3. Deferred(draft.pending)'
    BY Zenon, <1>1, PlainStays DEF Deferred, GoodDraft
  <2> QED
    BY <2>1, <2>2, <2>3
<1>5. (save # None => Plain(save.key) /\ Deferred(save.active))'
  BY Zenon, <1>1, PlainStays DEF Plain, Deferred, GoodSave
<1>6. Plain(modal.key)' /\ Plain(modal.up)'
  BY Zenon, <1>1, PlainStays DEF Plain, GoodModal
<1>7. (create # None => Plain(create.key) /\ Plain(create.up))'
  BY <1>1, PlainStays DEF Plain, GoodCreate
<1> QED
  BY Zenon, <1>2, <1>3, <1>4, <1>5, <1>6, <1>7 DEF KeysPlain

\* The three pages that start uploads.
LEMMA StartSteps ==
    ASSUME UploadInv, NEW u \in Uploads, EditorStart(u) \/ ModalStart(u) \/ LaunchDraftUpload(u)
    PROVE  UploadInv' /\ StoreStep
<1>1. /\ draft \in Draft /\ modal \in Modal /\ NotAttached(modal.up) /\ (create # None => NotAttached(create.up))
  BY PagesGood DEF GoodDraft, GoodModal
<1>2. /\ NoOpts \in UploadStartOpts /\ ~NoOpts.rec /\ ~NoOpts.defer /\ NoOpts.block = None
      /\ None \in Lessons \cup {None}
  BY DEF NoOpts, UploadStartOpts
<1>3. CASE EditorStart(u)
  <2> DEFINE o == [NoOpts EXCEPT !.block = draft.block, !.defer = TRUE]
             d == [draft EXCEPT !.field = u, !.pending = u]
  <2>1. /\ StartVideoUpload(u, o, draft.lesson) /\ draft' = d
        /\ UNCHANGED <<shown, page, visits, lessons, loads, save, modal, create>>
    BY <1>3 DEF EditorStart
  <2>2. draft.block \in Lessons \cup {None} /\ draft.lesson \in Lessons \cup {None}
    BY <1>1 DEF Draft, OrNone
  <2>3. o \in UploadStartOpts /\ ~o.rec /\ o.defer
    BY Zenon, <2>2 DEF NoOpts, UploadStartOpts
  <2>4. d \in Draft /\ d.key = draft.key /\ d.field = u /\ d.pending = u
    BY Zenon, <1>1 DEF Draft, OrNone
  <2> HIDE DEF o, d
  <2>5. /\ UploadTypeOK' /\ Stays
        /\ Unstarted' /\ RecApart' /\ WaitIsOver' /\ DoneWasSaved'
        /\ PartsCovered' /\ WholeFile' /\ RecordingAccounted' /\ StoreStep
        /\ task'[u] = "presign" /\ opts'[u].rec = o.rec /\ opts'[u].defer = o.defer
        /\ blocks' = blocks /\ writes' = writes
        /\ \A w \in writes' : w.key # u /\ task'[w.key] = task[w.key] /\ opts'[w.key] = opts[w.key]
    BY Zenon, <2>1, <2>2, <2>3, StartFacts
  <2>6. TypeOK' /\ KeysPlain'
    BY Zenon, <1>1, <2>1, <2>3, <2>4, <2>5, StartKeys
  <2>7. WritesFit' /\ OneWriter'
    <3>1. \A w \in writes' : w.by = "attach" => w.key # modal'.up /\ (create' # None => w.key # create'.up)
      BY Zenon, <1>1, <2>1, <2>5 DEF NotAttached
    <3> QED
      BY <2>5, <3>1, WritesStay
  <2> QED
    BY <2>5, <2>6, <2>7 DEF UploadInv
<1>4. CASE ModalStart(u)
  <2> DEFINE m == [modal EXCEPT !.up = u]
  <2>1. /\ StartVideoUpload(u, NoOpts, None) /\ modal' = m
        /\ UNCHANGED <<shown, page, visits, lessons, draft, loads, save, create>>
    BY <1>4 DEF ModalStart
  <2>2. m \in Modal /\ m.key = modal.key /\ m.up = u
    BY <1>1 DEF Modal, OrNone
  <2> HIDE DEF m
  <2>3. /\ UploadTypeOK' /\ Stays
        /\ Unstarted' /\ RecApart' /\ WaitIsOver' /\ DoneWasSaved'
        /\ PartsCovered' /\ WholeFile' /\ RecordingAccounted' /\ StoreStep
        /\ task'[u] = "presign" /\ opts'[u].rec = NoOpts.rec
        /\ blocks' = blocks /\ writes' = writes
        /\ \A w \in writes' : w.key # u /\ task'[w.key] = task[w.key] /\ opts'[w.key] = opts[w.key]
    BY Zenon, <1>2, <2>1, StartFacts
  <2>4. TypeOK' /\ KeysPlain'
    BY Zenon, <1>1, <1>2, <2>1, <2>2, <2>3, StartKeys
  <2>5. WritesFit' /\ OneWriter'
    <3>1. \A w \in writes' : w.by = "attach" => w.key # modal'.up /\ (create' # None => w.key # create'.up)
      BY Zenon, <1>1, <2>1, <2>2, <2>3 DEF NotAttached
    <3> QED
      BY <2>3, <3>1, WritesStay
  <2> QED
    BY Zenon, <2>3, <2>4, <2>5 DEF UploadInv
<1>5. CASE LaunchDraftUpload(u)
  <2> DEFINE o == [NoOpts EXCEPT !.rec = TRUE]
  <2>1. StartVideoUpload(u, o, None) /\ UNCHANGED <<shown, pageVars>>
    BY <1>5 DEF LaunchDraftUpload
  <2>2. o \in UploadStartOpts /\ ~o.defer /\ o.block = None
    BY ZenonT(40) DEF NoOpts, UploadStartOpts
  <2> HIDE DEF o
  <2>3. /\ UploadTypeOK' /\ Stays
        /\ Unstarted' /\ RecApart' /\ WaitIsOver' /\ DoneWasSaved'
        /\ PartsCovered' /\ WholeFile' /\ RecordingAccounted' /\ StoreStep
        /\ task'[u] = "presign" /\ blocks' = blocks /\ writes' = writes
        /\ \A w \in writes' : w.key # u /\ task'[w.key] = task[w.key] /\ opts'[w.key] = opts[w.key]
    BY Zenon, <1>2, <2>1, <2>2, StartFacts
  <2>4. UNCHANGED <<page, visits, lessons, draft, loads, save, modal, create>>
    BY Zenon, <2>1 DEF pageVars
  <2>5. TypeOK' /\ KeysPlain'
    BY <1>1, <2>3, <2>4, StartKeys
  <2>6. WritesFit' /\ OneWriter'
    <3>1. \A w \in writes' : w.by = "attach" => w.key # modal'.up /\ (create' # None => w.key # create'.up)
      BY Zenon, <1>1, <2>3, <2>4 DEF NotAttached
    <3> QED
      BY <2>3, <3>1, WritesStay
  <2> QED
    BY Zenon, <2>3, <2>5, <2>6 DEF UploadInv
<1> QED
  BY <1>3, <1>4, <1>5

\* "Stop using upload" in the editor and in the modal.
LEMMA RemoveStep ==
    ASSUME UploadInv, NEW a, Plain(a),
           IF IsUploading(shown, a) THEN CancelUpload(a)
           ELSE UNCHANGED <<aborted, abandons, uploads, task, transfer, objects, faults, lost>>,
           UNCHANGED <<shown, opts, writes, blocks, recordings, acked, page, visits, lessons, loads, save, create>>,
           GoodDraft(draft'), GoodModal(modal'), NotAttached(modal'.up)
    PROVE  UploadInv' /\ StoreStep
<1>1. /\ GoodSave(save) /\ GoodCreate(create) /\ (create # None => NotAttached(create.up))
      /\ \A l \in Lessons : Plain(blocks[l].key)
  BY Zenon, PagesGood
<1>2. /\ UploadTypeOK' /\ Stays /\ Unstarted' /\ RecApart' /\ WaitIsOver' /\ DoneWasSaved'
      /\ PartsCovered' /\ WholeFile' /\ RecordingAccounted' /\ StoreStep
      /\ \A w \in writes' : task'[w.key] = task[w.key]
  <2>1. CASE IsUploading(shown, a)
    <3>1. a \in Uploads /\ task[a] # "none" /\ CancelUpload(a)
      BY Zenon, <2>1 DEF Plain, IsUploading
    <3>2. /\ UploadTypeOK' /\ Local(a) /\ PartsCovered' /\ WholeFile' /\ RecordingAccounted' /\ StoreStep
          /\ \A w \in writes' : task'[w.key] = task[w.key]
      BY Zenon, <3>1, CancelFacts
    <3> QED
      BY Zenon, <3>1, <3>2, LocalStays, LocalStep
  <2>2. CASE ~IsUploading(shown, a)
    <3>1. UNCHANGED <<aborted, abandons, uploads, task, transfer, objects, faults, lost>>
      BY <2>2
    <3>2. UploadTypeOK'
      BY <3>1 DEF UploadInv, TypeOK, UploadTypeOK
    <3>3. Unstarted' /\ RecApart' /\ WaitIsOver'
      BY Zenon, <3>1 DEF UploadInv, Unstarted, RecApart, WaitIsOver
    <3>4. DoneWasSaved' /\ RecordingAccounted'
      BY <3>1 DEF UploadInv, DoneWasSaved, RecordingAccounted
    <3>5. Stays /\ StoreStep /\ PartsCovered' /\ WholeFile'
      BY Zenon, <3>1, SameFiles, TransferStays DEF Stays
    <3> QED
      BY <3>1, <3>2, <3>3, <3>4, <3>5
  <2> QED
    BY Zenon, <2>1, <2>2
<1>3. TypeOK' /\ KeysPlain'
  <2>1. /\ page' \in {"content", "cohort"} \cup Lessons /\ visits' \in 0 .. MaxVisits
        /\ lessons' \subseteq Lessons /\ loads' \subseteq Lessons
    BY DEF UploadInv, TypeOK
  <2> QED
    BY <1>1, <1>2, <2>1, PageKeys
<1>4. WritesFit' /\ OneWriter'
  <2>1. \A w \in writes' : w.by = "attach" => w.key # modal'.up /\ (create' # None => w.key # create'.up)
    BY <1>1 DEF NotAttached
  <2> QED
    BY <1>2, <2>1, WritesStay
<1> QED
  BY Zenon, <1>2, <1>3, <1>4 DEF UploadInv

LEMMA RemoveSteps ==
    ASSUME UploadInv, EditorRemove \/ ModalRemove
    PROVE  UploadInv' /\ StoreStep
<1>1. GoodDraft(draft) /\ GoodModal(modal) /\ NotAttached(modal.up) /\ NotAttached(None)
  BY PagesGood, NoneNotAttached
<1>2. CASE EditorRemove
  <2> DEFINE a == EditorUpload(shown, draft)
             d == [draft EXCEPT !.field = None, !.key = None, !.pending = None]
  <2>1. /\ IF IsUploading(shown, a) THEN CancelUpload(a)
           ELSE UNCHANGED <<aborted, abandons, uploads, task, transfer, objects, faults, lost>>
        /\ draft' = d
        /\ UNCHANGED <<shown, opts, writes, blocks, recordings, acked,
                       page, visits, lessons, loads, save, modal, create>>
    BY <1>2 DEF EditorRemove
  <2>2. Plain(a)
    BY <1>1, FollowedPlain
  <2>3. d \in Draft /\ d.key = None /\ d.field = None /\ d.pending = None
    BY Zenon, <1>1 DEF GoodDraft, Draft, OrNone
  <2> HIDE DEF a, d
  <2>4. GoodDraft(draft')
    BY <2>1, <2>3, EmptyPages DEF GoodDraft
  <2> QED
    BY <1>1, <2>1, <2>2, <2>4, RemoveStep
<1>3. CASE ModalRemove
  <2> DEFINE a == ModalUpload(shown, modal)
             m == [modal EXCEPT !.key = None, !.up = None]
  <2>1. /\ IF IsUploading(shown, a) THEN CancelUpload(a)
           ELSE UNCHANGED <<aborted, abandons, uploads, task, transfer, objects, faults, lost>>
        /\ modal' = m
        /\ UNCHANGED <<shown, opts, writes, blocks, recordings, acked,
                       page, visits, lessons, draft, loads, save, create>>
    BY <1>3 DEF ModalRemove
  <2>2. a \in {None, modal.up}
    BY DEF ModalUpload, ActiveIn, First
  <2>3. m \in Modal /\ m.key = None /\ m.up = None
    BY Zenon, <1>1 DEF GoodModal, Modal, OrNone
  <2> HIDE DEF a, m
  <2>4. Plain(a) /\ GoodModal(modal') /\ NotAttached(modal'.up)
    BY <1>1, <2>1, <2>2, <2>3, EmptyPages DEF GoodModal
  <2> QED
    BY <1>1, <2>1, <2>4, RemoveStep
<1> QED
  BY <1>2, <1>3

\* The server's side of the editor's save.
LEMMA EditorWritesFacts ==
    ASSUME UploadInv, save # None, EditorWrites(save), opts' = opts, recordings' = recordings
    PROVE  /\ blocks' \in [Lessons -> VideoRow] /\ \A l \in Lessons : Plain(blocks'[l].key)
           /\ objects' \subseteq objects /\ StoreStep
<1> DEFINE old == blocks[save.lesson]
           key == IF save.omit THEN old.key ELSE save.key
           there == old.there \/ save.url \/ save.key # None
           row == [there |-> there, key |-> key]
<1>1. /\ blocks' = [blocks EXCEPT ![save.lesson] = row]
      /\ objects' = IF key # old.key THEN objects \ {old.key} ELSE objects
  BY Zenon DEF EditorWrites
<1>2. /\ save \in Save /\ Plain(save.key) /\ blocks \in [Lessons -> VideoRow]
      /\ \A l \in Lessons : Plain(blocks[l].key)
  BY Zenon, PagesGood DEF GoodSave, OrNone, UploadInv, TypeOK, UploadTypeOK
<1>3. save.lesson \in Lessons
  BY <1>2 DEF Save
<1>4. there \in BOOLEAN /\ Plain(key) /\ Plain(old.key)
  BY <1>2, <1>3
<1> HIDE DEF there, key
<1>5. key \in Uploads \cup {None}
  BY <1>4 DEF Plain
<1>6. row \in VideoRow /\ row.key = key
  BY <1>4, <1>5 DEF VideoRow
<1> HIDE DEF row
<1>7. blocks' \in [Lessons -> VideoRow]
  BY <1>1, <1>2, <1>3, <1>6
<1>8. ASSUME NEW l \in Lessons
      PROVE  Plain(blocks'[l].key)
  <2>1. CASE l = save.lesson
    BY Zenon, <1>1, <1>2, <1>3, <1>4, <1>6, <2>1
  <2>2. CASE l # save.lesson
    BY <1>1, <1>2, <1>3, <2>2
  <2> QED
    BY <2>1, <2>2
<1>9. StoreStep
  <2>1. CASE key # old.key
    BY <1>1, <1>4, <2>1, DropPlain
  <2>2. CASE key = old.key
    BY <1>1, <2>2, SameFiles
  <2> QED
    BY <2>1, <2>2
<1>10. objects' \subseteq objects
  BY <1>1
<1> QED
  BY <1>7, <1>8, <1>9, <1>10

\* The editor's save was answered.
LEMMA EditorSavedStep ==
    ASSUME UploadInv, EditorSaveAnswered
    PROVE  UploadInv' /\ StoreStep
<1> DEFINE u == save.active
           l == save.lesson
           k == blocks'[l].key
           p == IF u = None THEN Loaded(draft, l, blocks'[l]).pending ELSE None
           d == [Loaded(draft, l, blocks'[l]) EXCEPT !.pending = p]
<1>1. /\ save # None /\ EditorWrites(save)
      /\ acked' = IF k = None THEN acked ELSE acked \cup {k}
      /\ uploads' = IF u = None THEN uploads ELSE UpdateStatus(uploads, u, "done")
      /\ draft' = IF save.mounted THEN SyncDraft(shown, d) ELSE draft
      /\ save' = None
      /\ UNCHANGED <<shown, opts, aborted, task, transfer, writes, abandons, recordings,
                     faults, lost, page, visits, lessons, loads, modal, create>>
  BY DEF EditorSaveAnswered, CompleteUpload
<1>2. /\ GoodDraft(draft) /\ GoodModal(modal) /\ GoodCreate(create) /\ Deferred(u)
      /\ NotAttached(modal.up) /\ (create # None => NotAttached(create.up))
  BY <1>1, PagesGood DEF GoodSave
<1>3. /\ blocks' \in [Lessons -> VideoRow] /\ \A x \in Lessons : Plain(blocks'[x].key)
      /\ objects' \subseteq objects /\ StoreStep
  BY <1>1, EditorWritesFacts
<1>4. l \in Lessons
  BY <1>1, PagesGood DEF GoodSave, OrNone, Save
<1>5. UploadTypeOK
  BY DEF UploadInv, TypeOK
<1>6. acked \subseteq acked' /\ acked' \subseteq Uploads
  <2>1. k \in Uploads \cup {None}
    BY Zenon, <1>3, <1>4 DEF Plain
  <2> HIDE DEF k
  <2> QED
    BY <1>1, <1>5, <2>1 DEF UploadTypeOK
<1>7. GoodDraft(draft')
  <2> DEFINE e == Loaded(draft, l, blocks'[l])
  <2>1. GoodDraft(e)
    BY <1>2, <1>3, <1>4, LoadGood
  <2>2. d = [e EXCEPT !.pending = p]
    OBVIOUS
  <2>3. p = IF u = None THEN e.pending ELSE None
    OBVIOUS
  <2> HIDE DEF e, p, d
  <2>4. Deferred(p)
    BY <2>1, <2>3, EmptyPages DEF GoodDraft
  <2>5. p \in OrNone(Uploads)
    BY <2>4 DEF Deferred, OrNone
  <2>6. d \in Draft /\ d.key = e.key /\ d.field = e.field /\ d.pending = p
    BY <2>1, <2>2, <2>5 DEF GoodDraft, Draft
  <2>7. GoodDraft(d)
    BY <2>1, <2>4, <2>6 DEF GoodDraft
  <2> QED
    BY Zenon, <1>1, <1>2, <2>7, SyncGood
<1> HIDE DEF k, p, d
<1>8. /\ uploads' \in [Uploads -> ActiveUpload]
      /\ Unstarted' /\ RecApart' /\ WaitIsOver' /\ DoneWasSaved'
  <2>1. CASE u = None
    <3>1. uploads' = uploads
      BY Zenon, <1>1, <2>1
    <3>2. Unstarted' /\ RecApart' /\ WaitIsOver'
      BY Zenon, <1>1, <1>3, <3>1 DEF UploadInv, Unstarted, RecApart, WaitIsOver
    <3>3. DoneWasSaved'
      BY <1>1, <1>6, <3>1 DEF UploadInv, DoneWasSaved
    <3> QED
      BY <1>5, <3>1, <3>2, <3>3 DEF UploadTypeOK
  <2>2. CASE u # None
    <3>1. u \in Uploads /\ task[u] # "none" /\ opts[u].defer /\ "done" \in Status
      BY <1>2, <2>2 DEF Deferred, Status
    <3>2. uploads' = UpdateStatus(uploads, u, "done")
      BY <1>1, <2>2
    <3> HIDE DEF u
    <3>3. /\ uploads' \in [Uploads -> ActiveUpload]
          /\ \A v \in Uploads : v # u => uploads'[v] = uploads[v]
          /\ uploads'[u].status \in {"none", "done"}
      BY <1>5, <3>1, <3>2, UpdateFacts DEF UploadTypeOK
    <3>4. ~opts[u].rec
      BY <3>1 DEF UploadInv, RecApart
    <3>5. shown[u].status = "waiting" => task[u] = "over"
      BY Zenon, <3>1 DEF UploadInv, WaitIsOver
    <3>6. Local(u)
      BY <1>1, <1>3, <1>6, <3>1, <3>3, <3>4, <3>5 DEF Local
    <3> QED
      BY <3>1, <3>3, <3>6, LocalStep
  <2> QED
    BY <2>1, <2>2
<1>9. UploadTypeOK'
  BY Zenon, <1>1, <1>3, <1>5, <1>6, <1>8 DEF UploadTypeOK
<1>10. TypeOK' /\ KeysPlain'
  <2>1. /\ page' \in {"content", "cohort"} \cup Lessons /\ visits' \in 0 .. MaxVisits
        /\ lessons' \subseteq Lessons /\ loads' \subseteq Lessons
    BY Zenon, <1>1 DEF UploadInv, TypeOK
  <2>2. Stays
    BY Zenon, <1>1 DEF Stays
  <2>3. GoodSave(save')
    BY Zenon, <1>1 DEF GoodSave, OrNone
  <2> QED
    BY ZenonT(40), <1>1, <1>2, <1>3, <1>7, <1>9, <2>1, <2>2, <2>3, PageKeys
<1>11. WritesFit' /\ OneWriter'
  <2>1. \A w \in writes' : w.by = "attach" => w.key # modal'.up /\ (create' # None => w.key # create'.up)
    BY Zenon, <1>1, <1>2 DEF NotAttached
  <2> QED
    BY Zenon, <1>1, <2>1, WritesStay
<1>12. PartsCovered' /\ WholeFile'
  BY Zenon, <1>1, TransferStays
<1>13. RecordingAccounted'
  BY Zenon, <1>1, <1>3 DEF UploadInv, RecordingAccounted
<1> QED
  BY <1>3, <1>8, <1>10, <1>11, <1>12, <1>13 DEF UploadInv

\* The lesson create_exercise stores.
LEMMA CreatedFacts ==
    ASSUME UploadInv, create # None, NEW l \in Lessons, ExerciseCreated(l)
    PROVE  /\ blocks' \in [Lessons -> VideoRow] /\ \A x \in Lessons : Plain(blocks'[x].key)
           /\ lessons' \subseteq Lessons
<1> DEFINE row == [there |-> create.video, key |-> create.key]
<1>1. /\ blocks' = [blocks EXCEPT ![l] = row] /\ lessons' = lessons \cup {l}
      /\ blocks \in [Lessons -> VideoRow] /\ lessons \subseteq Lessons
  BY Zenon DEF ExerciseCreated, UploadInv, TypeOK, UploadTypeOK
<1>2. create \in Create /\ Plain(create.key) /\ \A x \in Lessons : Plain(blocks[x].key)
  BY PagesGood DEF GoodCreate, OrNone
<1>3. row \in VideoRow /\ row.key = create.key
  BY <1>2 DEF VideoRow, Create, OrNone
<1> HIDE DEF row
<1>4. blocks' \in [Lessons -> VideoRow]
  BY <1>1, <1>3
<1>5. ASSUME NEW x \in Lessons
      PROVE  Plain(blocks'[x].key)
  <2>1. CASE x = l
    BY <1>1, <1>2, <1>3, <2>1
  <2>2. CASE x # l
    BY <1>1, <1>2, <2>2
  <2> QED
    BY <2>1, <2>2
<1> QED
  BY <1>1, <1>4, <1>5

\* The save, or the exercise being created, failed; the server may have stored it.
LEMMA FailedPages ==
    ASSUME UploadInv, EditorSaveFailed \/ CreateFailed
    PROVE  UploadInv' /\ StoreStep
<1>1. /\ Fault
      /\ UNCHANGED <<uploads, shown, opts, aborted, task, transfer, writes, abandons, recordings, lost, acked,
                     page, visits, draft, loads, modal>>
      /\ save' \in {save, None} /\ create' \in {create, None}
  BY DEF EditorSaveFailed, CreateFailed
<1>2. /\ GoodDraft(draft) /\ GoodSave(save) /\ GoodModal(modal) /\ GoodCreate(create)
      /\ NotAttached(modal.up) /\ (create # None => NotAttached(create.up))
      /\ \A l \in Lessons : Plain(blocks[l].key)
  BY PagesGood
<1>3. UploadTypeOK /\ lessons \subseteq Lessons
  BY DEF UploadInv, TypeOK
<1>4. /\ blocks' \in [Lessons -> VideoRow] /\ \A l \in Lessons : Plain(blocks'[l].key)
      /\ objects' \subseteq objects /\ StoreStep /\ lessons' \subseteq Lessons
  <2>1. CASE EditorSaveFailed
    <3>1. save # None /\ lessons' = lessons /\ (UNCHANGED <<blocks, objects>> \/ EditorWrites(save))
      BY Zenon, <2>1 DEF EditorSaveFailed
    <3>2. CASE UNCHANGED <<blocks, objects>>
      BY <1>1, <1>2, <1>3, <3>1, <3>2, SameFiles DEF UploadTypeOK
    <3>3. CASE EditorWrites(save)
      BY <1>1, <1>3, <3>1, <3>3, EditorWritesFacts
    <3> QED
      BY <3>1, <3>2, <3>3
  <2>2. CASE CreateFailed
    <3>1. /\ create # None /\ objects' = objects
          /\ \/ UNCHANGED <<lessons, blocks>>
             \/ \E l \in Lessons \ lessons : ExerciseCreated(l)
      BY <2>2 DEF CreateFailed
    <3>2. StoreStep
      BY Zenon, <1>1, <3>1, SameFiles
    <3>3. CASE UNCHANGED <<lessons, blocks>>
      BY <1>2, <1>3, <3>1, <3>2, <3>3 DEF UploadTypeOK
    <3>4. ASSUME NEW l \in Lessons, ExerciseCreated(l)
          PROVE  /\ blocks' \in [Lessons -> VideoRow] /\ \A x \in Lessons : Plain(blocks'[x].key)
                 /\ lessons' \subseteq Lessons
      BY <1>2, <1>3, <3>1, <3>4, CreatedFacts
    <3> QED
      BY <3>1, <3>2, <3>3, <3>4
  <2> QED
    BY <2>1, <2>2
<1>5. faults' \in 0 .. MaxFaults
  BY <1>1, FaultType
<1>6. UploadTypeOK'
  BY <1>1, <1>3, <1>4, <1>5 DEF UploadTypeOK
<1>7. GoodSave(save') /\ GoodCreate(create') /\ (create' # None => NotAttached(create'.up))
  BY Zenon, <1>1, <1>2 DEF GoodSave, GoodCreate, OrNone
<1>8. TypeOK' /\ KeysPlain'
  <2>1. /\ page' \in {"content", "cohort"} \cup Lessons /\ visits' \in 0 .. MaxVisits /\ loads' \subseteq Lessons
    BY <1>1 DEF UploadInv, TypeOK
  <2>2. Stays
    BY ZenonT(40), <1>1 DEF Stays
  <2> QED
    BY Zenon, <1>1, <1>2, <1>4, <1>6, <1>7, <2>1, <2>2, PageKeys
<1>9. WritesFit' /\ OneWriter'
  <2>1. \A w \in writes' : w.by = "attach" => w.key # modal'.up /\ (create' # None => w.key # create'.up)
    BY Zenon, <1>1, <1>2, <1>7 DEF NotAttached
  <2> QED
    BY Zenon, <1>1, <2>1, WritesStay
<1>10. PartsCovered' /\ WholeFile'
  BY <1>1, TransferStays
<1>11. Unstarted' /\ RecApart' /\ WaitIsOver'
  BY Zenon, <1>1, <1>4 DEF UploadInv, Unstarted, RecApart, WaitIsOver
<1>12. DoneWasSaved' /\ RecordingAccounted'
  BY Zenon, <1>1, <1>4 DEF UploadInv, DoneWasSaved, RecordingAccounted
<1> QED
  BY <1>4, <1>8, <1>9, <1>10, <1>11, <1>12 DEF UploadInv

\* The exercise was created and the modal's upload is attached to it.
LEMMA CreatedStep ==
    ASSUME UploadInv, NEW l \in Lessons, CreateAnswered(l)
    PROVE  UploadInv' /\ StoreStep
<1> DEFINE u == create.up
           b == IF create.video THEN l ELSE None
           to == PersistTarget(u, b)
           n == [key |-> u, by |-> "attach", to |-> to]
           next == [uploads EXCEPT ![u].block = b, ![u].link = l]
           ready == /\ Listed(shown, u) /\ b # None /\ shown[u].key
                    /\ shown[u].status = "waiting" /\ to # None
<1>1. /\ create # None /\ ExerciseCreated(l)
      /\ u = None => UNCHANGED <<uploads, writes>>
      /\ u # None => AttachUpload(u, b, l)
      /\ modal' = NoModal /\ create' = None
      /\ UNCHANGED <<shown, opts, aborted, task, transfer, abandons, objects, recordings,
                     faults, lost, acked, page, visits, draft, loads, save>>
  BY Zenon DEF CreateAnswered
<1>2. /\ GoodDraft(draft) /\ GoodSave(save) /\ Plain(u) /\ NotAttached(u)
  BY ZenonT(40), <1>1, PagesGood DEF GoodCreate
<1>3. /\ blocks' \in [Lessons -> VideoRow] /\ \A x \in Lessons : Plain(blocks'[x].key)
      /\ lessons' \subseteq Lessons
  BY <1>1, CreatedFacts
<1>4. UploadTypeOK /\ b \in Lessons \cup {None}
  BY DEF UploadInv, TypeOK
<1>5. u # None => u \in Uploads /\ task[u] # "none" /\ ~opts[u].rec
  BY <1>2 DEF Plain
<1>6. u # None => to \in Target \cup {None} /\ to # "recording"
  <2> SUFFICES ASSUME u # None
               PROVE  to \in Target \cup {None} /\ to # "recording"
    OBVIOUS
  <2> HIDE DEF u, b
  <2> QED
    BY <1>4, <1>5, TargetFits
<1>7. u # None => /\ uploads' = IF ~Listed(uploads, u) THEN uploads
                                ELSE IF ready THEN [next EXCEPT ![u].status = "saving"] ELSE next
                  /\ writes' = IF ready THEN writes \cup {n} ELSE writes
  BY <1>1 DEF AttachUpload
<1>8. ready /\ u # None => task[u] = "over"
  BY <1>5 DEF UploadInv, WaitIsOver
<1>9. n.key = u /\ n.by = "attach" /\ n.to = to
  OBVIOUS
<1>10. u # None /\ to # None => n \in Write
  BY <1>5, <1>6 DEF Write
<1>11. u # None => /\ uploads' \in [Uploads -> ActiveUpload]
                   /\ \A v \in Uploads : v # u => uploads'[v] = uploads[v]
                   /\ uploads'[u].status \in {uploads[u].status, "saving"}
  <2> SUFFICES ASSUME u # None
               PROVE  /\ uploads' \in [Uploads -> ActiveUpload]
                      /\ \A v \in Uploads : v # u => uploads'[v] = uploads[v]
                      /\ uploads'[u].status \in {uploads[u].status, "saving"}
    OBVIOUS
  <2> DEFINE r1 == [uploads[u] EXCEPT !.block = b, !.link = l]
             r2 == [uploads[u] EXCEPT !.block = b, !.link = l, !.status = "saving"]
  <2>1. u \in Uploads /\ uploads \in [Uploads -> ActiveUpload] /\ uploads[u] \in ActiveUpload
    BY <1>4, <1>5 DEF UploadTypeOK
  <2>2. uploads' \in {uploads, next, [next EXCEPT ![u].status = "saving"]}
    BY <1>7
  <2> HIDE DEF u, b, ready, n, to
  <2>3. /\ r1 \in ActiveUpload /\ r1.status = uploads[u].status
        /\ r2 \in ActiveUpload /\ r2.status = "saving"
    BY Zenon, <1>4, <2>1 DEF ActiveUpload, Status, ActiveStatus
  <2>4. next = [uploads EXCEPT ![u] = r1]
    BY Zenon, <2>1
  <2>5. [next EXCEPT ![u].status = "saving"] = [uploads EXCEPT ![u] = r2]
    BY Zenon, <2>1
  <2> HIDE DEF r1, r2, next
  <2> QED
    BY <2>1, <2>2, <2>3, <2>4, <2>5
<1> HIDE DEF next, b, to, n
<1>12. writes' \subseteq Write
  BY <1>1, <1>4, <1>7, <1>10 DEF UploadTypeOK
<1>13. uploads' \in [Uploads -> ActiveUpload] /\ Unstarted' /\ RecApart' /\ WaitIsOver' /\ DoneWasSaved'
  <2>1. CASE u = None
    <3>1. uploads' = uploads
      BY Zenon, <1>1, <2>1
    <3>2. Unstarted' /\ RecApart' /\ WaitIsOver' /\ DoneWasSaved'
      BY Zenon, <1>1, <3>1 DEF UploadInv, Unstarted, RecApart, WaitIsOver, DoneWasSaved
    <3> QED
      BY Zenon, <1>4, <3>1, <3>2 DEF UploadTypeOK
  <2>2. CASE u # None
    <3>1. /\ u \in Uploads /\ task[u] # "none" /\ ~opts[u].rec
          /\ uploads' \in [Uploads -> ActiveUpload]
          /\ \A v \in Uploads : v # u => uploads'[v] = uploads[v]
          /\ uploads'[u].status \in {uploads[u].status, "saving"}
      BY Zenon, <1>5, <1>11, <2>2
    <3> HIDE DEF u
    <3>2. uploads'[u].status = "waiting" \/ shown[u].status = "waiting" => task[u] = "over"
      BY <3>1 DEF UploadInv, WaitIsOver
    <3>3. uploads'[u].status = "done" /\ ~opts[u].defer => u \in acked
      BY Zenon, <3>1 DEF UploadInv, DoneWasSaved
    <3>4. Local(u)
      BY Zenon, <1>1, <3>1, <3>2, <3>3 DEF Local
    <3> QED
      BY Zenon, <3>1, <3>4, LocalStep
  <2> QED
    BY <2>1, <2>2
<1>14. UploadTypeOK'
  BY ZenonT(40), <1>1, <1>3, <1>4, <1>12, <1>13 DEF UploadTypeOK
<1>15. TypeOK' /\ KeysPlain'
  <2>1. /\ page' \in {"content", "cohort"} \cup Lessons /\ visits' \in 0 .. MaxVisits /\ loads' \subseteq Lessons
    BY Zenon, <1>1 DEF UploadInv, TypeOK
  <2>2. Stays
    BY Zenon, <1>1 DEF Stays
  <2>3. GoodModal(modal') /\ GoodCreate(create')
    BY Zenon, <1>1, EmptyPages DEF GoodCreate, OrNone
  <2> QED
    BY Zenon, <1>1, <1>2, <1>3, <1>14, <2>1, <2>2, <2>3, PageKeys
<1>16. WritesFit' /\ OneWriter'
  <2>1. \A w \in writes : w.key \in Uploads /\ w.key # None /\ w.by \in {"start", "attach"}
    BY Zenon, WriteTask, UploadsAssumption
  <2>2. modal'.up = None /\ create' = None
    BY Zenon, <1>1 DEF NoModal
  <2>3. ASSUME NEW w \in writes', w \notin writes
        PROVE  w = n /\ u # None /\ ready
    BY <1>1, <1>7, <2>3
  <2> HIDE DEF ready
  <2>4. WritesFit'
    <3> SUFFICES ASSUME NEW w \in writes'
                 PROVE  /\ w.by = "start" => task'[w.key] = "save"
                        /\ w.by = "attach" => task'[w.key] = "over"
                        /\ w.to = "recording" => opts'[w.key].rec
                        /\ opts'[w.key].rec => w.to = "recording"
                        /\ w.by = "attach" => w.key # modal'.up /\ (create' # None => w.key # create'.up)
      BY Zenon DEF WritesFit
    <3>1. CASE w \in writes
      BY Zenon, <1>1, <2>1, <2>2, <3>1 DEF UploadInv, WritesFit
    <3>2. CASE w \notin writes
      <4>1. w.key = u /\ w.by = "attach" /\ w.to = to /\ u # None /\ task[u] = "over"
        BY <1>8, <1>9, <2>3, <3>2
      <4> QED
        BY Zenon, <1>1, <1>5, <1>6, <2>2, <4>1
    <3> QED
      BY Zenon, <3>1, <3>2
  <2>5. \A w \in writes : ready /\ u # None => w.key # u
    <3> SUFFICES ASSUME NEW w \in writes, ready, u # None, w.key = u
                 PROVE  FALSE
      OBVIOUS
    <3>1. task[w.key] = "over"
      BY <1>8
    <3>2. w.by # "start"
      BY <3>1 DEF UploadInv, WritesFit
    <3>3. w.by # "attach"
      BY <1>2 DEF NotAttached
    <3> QED
      BY <2>1, <3>2, <3>3
  <2>6. OneWriter'
    <3> SUFFICES ASSUME NEW v \in writes', NEW w \in writes', v.key = w.key
                 PROVE  v = w
      BY DEF OneWriter
    <3>1. CASE v \in writes /\ w \in writes
      BY <3>1 DEF UploadInv, OneWriter
    <3>2. CASE v \notin writes /\ w \notin writes
      BY <2>3, <3>2
    <3>3. CASE v \notin writes /\ w \in writes
      BY <1>9, <2>3, <2>5, <3>3
    <3>4. CASE v \in writes /\ w \notin writes
      BY Zenon, <1>9, <2>3, <2>5, <3>4
    <3> QED
      BY <3>1, <3>2, <3>3, <3>4
  <2> QED
    BY <2>4, <2>6
<1>17. PartsCovered' /\ WholeFile'
  BY Zenon, <1>1, TransferStays
<1>18. RecordingAccounted'
  BY <1>1 DEF UploadInv, RecordingAccounted
<1> QED
  BY Zenon, <1>1, <1>13, <1>15, <1>16, <1>17, <1>18, SameFiles DEF UploadInv

-----------------------------------------------------------------------------

LEMMA UploadsStart == Init => UploadInv /\ Files = {} /\ recordings = {}
<1> SUFFICES ASSUME Init
             PROVE  UploadInv /\ Files = {} /\ recordings = {}
  BY Zenon
<1>1. /\ uploads = [v \in Uploads |-> Absent] /\ shown = uploads /\ opts = [v \in Uploads |-> NoOpts]
      /\ aborted = {} /\ writes = {} /\ abandons = {} /\ task = [v \in Uploads |-> "none"]
      /\ transfer = [v \in Uploads |-> [next |-> 1, busy |-> {}, etags |-> {}]]
      /\ objects = {} /\ recordings = {} /\ blocks \in [Lessons -> [there : BOOLEAN, key : {None}]]
      /\ faults = 0 /\ lost = {} /\ acked = {}
  BY DEF Init, UploadInit
<1>2. /\ page \in {"content", "cohort"} \cup Existing /\ visits = 0 /\ lessons = Existing
      /\ draft = NoDraft /\ loads = {page} \cap Lessons /\ save = None /\ modal = NoModal /\ create = None
  BY DEF Init, PageInit
<1>3. NoOpts \in UploadStartOpts /\ ~NoOpts.rec
  BY Zenon DEF NoOpts, UploadStartOpts
<1>4. [next |-> 1, busy |-> {}, etags |-> {}] \in Transfer
  BY DEF Transfer
<1>5. \A l \in Lessons : blocks[l].key = None /\ blocks[l] \in VideoRow
  BY Zenon, <1>1 DEF VideoRow
<1>6. UploadTypeOK
  <2>1. blocks \in [Lessons -> VideoRow]
    BY <1>1, <1>5
  <2>2. faults \in 0 .. MaxFaults
    BY <1>1, UploadsAssumption
  <2> QED
    BY <1>1, <1>3, <1>4, <2>1, <2>2, AbsentType DEF UploadTypeOK
<1>7. TypeOK
  <2>1. /\ page \in {"content", "cohort"} \cup Lessons /\ visits \in 0 .. MaxVisits
        /\ lessons \subseteq Lessons /\ loads \subseteq Lessons
    BY <1>2, ExistingAssumption
  <2> QED
    BY <1>2, <1>6, <2>1, EmptyPages DEF TypeOK, GoodDraft, GoodModal, OrNone
<1>8. Unstarted /\ RecApart /\ WaitIsOver /\ DoneWasSaved /\ RecordingAccounted
  BY Zenon, <1>1, <1>3, AbsentType
  DEF Unstarted, RecApart, WaitIsOver, DoneWasSaved, RecordingAccounted
<1>9. WritesFit /\ OneWriter /\ WholeFile
  BY <1>1 DEF WritesFit, OneWriter, WholeFile
<1>10. PartsCovered
  BY Zenon, <1>1 DEF PartsCovered
<1>11. KeysPlain
  BY <1>2, <1>5, EmptyPages DEF KeysPlain, GoodDraft, GoodModal
<1> QED
  BY <1>1, <1>7, <1>8, <1>9, <1>10, <1>11 DEF UploadInv, Files

LEMMA UploadsKeep ==
    ASSUME UploadInv, [Next]_vars
    PROVE  UploadInv' /\ StoreStep
<1>1. CASE UNCHANGED vars
  <2>1. UNCHANGED uploadVars /\ UNCHANGED pageVars
    BY <1>1 DEF vars
  <2>2. UNCHANGED <<page, visits, lessons, draft, loads, save, modal, create>>
    BY <2>1 DEF pageVars
  <2>3. /\ page' \in {"content", "cohort"} \cup Lessons /\ visits' \in 0 .. MaxVisits
        /\ lessons' \subseteq Lessons /\ loads' \subseteq Lessons
    BY <2>2 DEF UploadInv, TypeOK
  <2> QED
    BY <2>1, <2>2, <2>3, PagesGood, PageStep
<1>2. CASE UserStep
  <2>1. ASSUME NEW u \in Uploads, HandleDelete(u)
        PROVE  UploadInv' /\ StoreStep
    BY <2>1, DeleteStep DEF HandleDelete
  <2>2. ASSUME NEW u \in Uploads, IndicatorCancel(u), UNCHANGED pageVars
        PROVE  UploadInv' /\ StoreStep
    BY <2>2, IndicatorSteps
  <2> QED
    BY <1>2, <2>1, <2>2, QuietPages, StartSteps, RemoveSteps DEF UserStep
<1>3. CASE UploadStep /\ UNCHANGED pageVars
  BY <1>3, UploadStepStep
<1>4. CASE Render
  BY <1>4, RenderStep
<1>5. ASSUME NEW l \in Lessons, LoadAnswered(l) \/ CreateAnswered(l)
      PROVE  UploadInv' /\ StoreStep
  BY <1>5, QuietPages, CreatedStep
<1>6. CASE EditorSaveAnswered \/ EditorSaveFailed \/ CreateFailed
  BY <1>6, EditorSavedStep, FailedPages
<1> QED
  BY Zenon, <1>1, <1>2, <1>3, <1>4, <1>5, <1>6 DEF Next

\* An upload is written once, whole, and called done only when its row was saved
\* (startVideoUpload, attachUpload, uploadMultipartToS3), for any number of uploads,
\* parts, workers, attempts and failures.
THEOREM UploadsAreSound == Spec => []UploadsSound
<1>1. UploadInv => UploadsSound
  BY DEF UploadInv, UploadsSound
<1> QED
  BY <1>1, UploadsStart, UploadsKeep, PTL DEF Spec

\* The stored object of a recording upload has its row, or somebody is still
\* answerable for it.
THEOREM RecordingsAreAccountedFor == Spec => []RecordingAccounted
<1>1. UploadInv => RecordingAccounted
  BY DEF UploadInv
<1> QED
  BY <1>1, UploadsStart, UploadsKeep, PTL DEF Spec

\* The pages, the transfers and the endpoints implement RecordingStore: a recording
\* is published only when its file is stored, and keeps its file until it is destroyed.
THEOREM StoreIsImplemented == Spec => StoreSpec
<1>1. Init => Store!Init
  BY Zenon, UploadsStart DEF Store!Init, Files
<1>2. StoreStep => [Store!Next]_<<{u \in objects : opts[u].rec}, recordings>>
  BY DEF StoreStep, Files, Store!Next, Store!Put, Store!Publish, Store!Withdraw, Store!Destroy
<1> QED
  BY <1>1, <1>2, UploadsStart, UploadsKeep, PTL DEF Spec, StoreSpec, Store!Spec
=============================================================================
