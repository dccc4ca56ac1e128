-------------------------- MODULE VideoUploadsProofs --------------------------
(***************************************************************************)
(* Proofs about VideoPages, for any number of uploads, lessons, parts,     *)
(* attempts, failures and route changes.                                   *)
(***************************************************************************)
EXTENDS VideoPages, WellFoundedInduction, TLAPS

(***************************************************************************)
(* The inductive invariant.                                                *)
(***************************************************************************)
\* A key no recording uses; a key of an upload whose target a page writes.
Plain(x) == x = None \/ (x \in Uploads /\ task[x] # "none" /\ ~opts[x].rec)
Deferred(x) == x = None \/ (x \in Uploads /\ task[x] # "none" /\ opts[x].defer)

\* startVideoUpload gives an upload its first row, and its object comes later.
Unstarted == \A u \in Uploads : task[u] = "none" =>
    uploads[u] = Absent /\ shown[u] = Absent /\ u \notin objects

\* An upload for a recording has no other target, and no page gives it one.
RecApart == \A u \in Uploads : opts[u].rec =>
    ~opts[u].defer /\ opts[u].block = None /\ uploads[u].block = None /\ shown[u].block = None

\* "Waiting for a page" is said after startVideoUpload has returned.
WaitIsOver == \A u \in Uploads :
    uploads[u].status = "waiting" \/ shown[u].status = "waiting" => task[u] = "over"

\* The row writes under way belong to the upload that waits for them, write the row
\* it asked for, and are not asked for again by the exercise being created.
WritesFit == \A w \in writes :
    /\ w.by = "start" => task[w.key] = "save"
    /\ w.by = "attach" => task[w.key] = "over"
    /\ w.to = "recording" => opts[w.key].rec
    /\ opts[w.key].rec => w.to = "recording"
    /\ w.by = "attach" => w.key # modal.up /\ (create # None => w.key # create.up)

\* Neither the pages nor the video blocks hold the key of a recording.
KeysPlain ==
    /\ \A l \in Lessons : Plain(blocks[l].key)
    /\ Plain(draft.key) /\ Plain(draft.field) /\ Deferred(draft.pending)
    /\ save # None => Plain(save.key) /\ Deferred(save.active)
    /\ Plain(modal.key) /\ Plain(modal.up)
    /\ create # None => Plain(create.key) /\ Plain(create.up)

\* Every part the cursor has passed is stored or under way.
PartsCovered == \A u \in Uploads :
    /\ task[u] \in {"none", "presign"} => transfer[u].busy = {}
    /\ task[u] = "send" /\ transfer[u].busy # {} =>
          \A p \in 1 .. Parts : p < transfer[u].next =>
              p \in transfer[u].etags \/ \E n \in 1 .. MaxAttempts : <<p, n>> \in transfer[u].busy

UploadInv == /\ TypeOK /\ Unstarted /\ RecApart /\ WaitIsOver /\ WritesFit /\ OneWriter
             /\ DoneWasSaved /\ KeysPlain /\ PartsCovered /\ WholeFile /\ RecordingAccounted

-----------------------------------------------------------------------------

\* A set of naturals has a least member.
LEMMA LeastIn ==
    ASSUME NEW S \in SUBSET Nat, S # {}
    PROVE  \E x \in S : \A y \in S : x <= y
<1> DEFINE R == {ss \in Nat \X Nat : ss[1] < ss[2]}
<1>1. OpToRel(<, Nat) = R
  BY Zenon DEF OpToRel
<1>2. IsWellFoundedOn(R, Nat)
  BY <1>1, NatLessThanWellFounded, Zenon
<1> HIDE DEF R
<1>3. PICK x \in S : \A y \in S : ~(<<y, x>> \in R)
  BY Zenon, <1>2, WFMin
<1>4. ASSUME NEW y \in S
      PROVE  x <= y
  <2>1. x \in Nat /\ y \in Nat
    OBVIOUS
  <2>2. ~(y < x)
    BY Zenon, <1>3, <2>1 DEF R
  <2> QED
    BY <2>1, <2>2
<1> QED
  BY <1>4

\* First picks an upload of the set.
LEMMA FirstIn ==
    ASSUME NEW S \in SUBSET Uploads
    PROVE  First(S) = None \/ First(S) \in S
<1>1. CASE S = {}
  BY <1>1 DEF First
<1>2. CASE S # {}
  <2>1. S \subseteq Nat
    BY UploadsAssumption
  <2>2. \E x \in S : \A y \in S : x <= y
    BY <1>2, <2>1, LeastIn
  <2>3. Min(S) \in S
    BY <2>2 DEF Min
  <2> QED
    BY <1>2, <2>3 DEF First
<1> QED
  BY <1>1, <1>2

LEMMA AbsentType == Absent \in ActiveUpload /\ Absent.status = "none" /\ Absent.block = None
BY DEF Absent, ActiveUpload, Status

\* What updateUpload does to a list.
LEMMA UpdateFacts ==
    ASSUME NEW list \in [Uploads -> ActiveUpload], NEW u \in Uploads, NEW s \in Status
    PROVE  /\ UpdateStatus(list, u, s) \in [Uploads -> ActiveUpload]
           /\ \A v \in Uploads : v # u => UpdateStatus(list, u, s)[v] = list[v]
           /\ UpdateStatus(list, u, s)[u].block = list[u].block
           /\ UpdateStatus(list, u, s)[u].status \in {"none", s}
           /\ list[u] = Absent => UpdateStatus(list, u, s)[u] = Absent
<1> DEFINE row == [list[u] EXCEPT !.status = s]
<1>1. list[u] \in ActiveUpload
  OBVIOUS
<1>2. row \in ActiveUpload /\ row.status = s /\ row.block = list[u].block
  BY <1>1 DEF ActiveUpload
<1>3. [list EXCEPT ![u].status = s] = [list EXCEPT ![u] = row]
  OBVIOUS
<1> HIDE DEF row
<1>4. CASE Listed(list, u)
  <2>1. UpdateStatus(list, u, s) = [list EXCEPT ![u] = row]
    BY <1>3, <1>4 DEF UpdateStatus
  <2>2. list[u] # Absent
    BY <1>4, AbsentType DEF Listed
  <2> QED
    BY <1>2, <2>1, <2>2
<1>5. CASE ~Listed(list, u)
  BY <1>5 DEF UpdateStatus, Listed
<1> QED
  BY <1>4, <1>5

LEMMA RemoveFacts ==
    ASSUME NEW list \in [Uploads -> ActiveUpload], NEW u \in Uploads
    PROVE  /\ RemoveUpload(list, u) \in [Uploads -> ActiveUpload]
           /\ \A v \in Uploads : v # u => RemoveUpload(list, u)[v] = list[v]
           /\ RemoveUpload(list, u)[u] = Absent
BY AbsentType DEF RemoveUpload

-----------------------------------------------------------------------------
(***************************************************************************)
(* What most steps have in common.                                         *)
(***************************************************************************)
\* The step changes the row and the task of a started upload only.
Local(u) ==
    /\ task[u] # "none" /\ task'[u] # "none"
    /\ opts' = opts /\ shown' = shown
    /\ \A v \in Uploads : v # u => uploads'[v] = uploads[v] /\ task'[v] = task[v]
    /\ opts[u].rec => uploads'[u].block = None
    /\ uploads'[u].status = "waiting" \/ shown[u].status = "waiting" => task'[u] = "over"
    /\ uploads'[u].status = "done" /\ ~opts[u].defer => u \in acked'
    /\ acked \subseteq acked' /\ objects' \subseteq objects \cup {u}

LEMMA LocalStep ==
    ASSUME UploadInv, NEW u \in Uploads, Local(u)
    PROVE  Unstarted' /\ RecApart' /\ WaitIsOver' /\ DoneWasSaved'
<1>1. Unstarted'
  <2> SUFFICES ASSUME NEW v \in Uploads, task'[v] = "none"
               PROVE  uploads'[v] = Absent /\ shown'[v] = Absent /\ v \notin objects'
    BY DEF Unstarted
  <2> QED
    BY DEF Local, UploadInv, Unstarted
<1>2. RecApart'
  <2> SUFFICES ASSUME NEW v \in Uploads, opts'[v].rec
               PROVE  /\ ~opts'[v].defer /\ opts'[v].block = None /\ uploads'[v].block = None
                      /\ shown'[v].block = None
    BY DEF RecApart
  <2> QED
    BY DEF Local, UploadInv, RecApart
<1>3. WaitIsOver'
  <2> SUFFICES ASSUME NEW v \in Uploads, uploads'[v].status = "waiting" \/ shown'[v].status = "waiting"
               PROVE  task'[v] = "over"
    BY DEF WaitIsOver
  <2> QED
    BY DEF Local, UploadInv, WaitIsOver
<1>4. DoneWasSaved'
  <2> SUFFICES ASSUME NEW v \in Uploads, uploads'[v].status = "done", ~opts'[v].defer
               PROVE  v \in acked'
    BY DEF DoneWasSaved
  <2> QED
    BY DEF Local, UploadInv, DoneWasSaved
<1> QED
  BY <1>1, <1>2, <1>3, <1>4

\* A started upload stays started, with its options.
Stays == \A u \in Uploads : task[u] # "none" => task'[u] # "none" /\ opts'[u] = opts[u]

LEMMA LocalStays ==
    ASSUME NEW u \in Uploads, Local(u)
    PROVE  Stays
BY DEF Local, Stays

LEMMA PlainStays ==
    ASSUME Stays
    PROVE  /\ \A x : Plain(x) => x = None \/ (x \in Uploads /\ task'[x] # "none" /\ ~opts'[x].rec)
           /\ \A x : Deferred(x) => x = None \/ (x \in Uploads /\ task'[x] # "none" /\ opts'[x].defer)
BY DEF Stays, Plain, Deferred

\* The pages keep their keys while they stand still.
LEMMA KeysStay ==
    ASSUME UploadInv, Stays, UNCHANGED pageVars,
           \A l \in Lessons : Plain(blocks'[l].key)
    PROVE  KeysPlain'
<1>1. /\ \A l \in Lessons : Plain(blocks[l].key)'
  BY PlainStays DEF Plain
<1>2. Plain(draft.key)' /\ Plain(draft.field)' /\ Deferred(draft.pending)'
  BY PlainStays DEF Plain, Deferred, pageVars, UploadInv, KeysPlain
<1>3. (save # None => Plain(save.key) /\ Deferred(save.active))'
  BY PlainStays DEF Plain, Deferred, pageVars, UploadInv, KeysPlain
<1>4. Plain(modal.key)' /\ Plain(modal.up)'
  BY PlainStays DEF Plain, pageVars, UploadInv, KeysPlain
<1>5. (create # None => Plain(create.key) /\ Plain(create.up))'
  BY PlainStays DEF Plain, pageVars, UploadInv, KeysPlain
<1> QED
  BY <1>1, <1>2, <1>3, <1>4, <1>5 DEF KeysPlain

\* Row writes fit as long as none is added and their uploads stand still.
LEMMA WritesStay ==
    ASSUME UploadInv, writes' \subseteq writes,
           \A w \in writes' : task'[w.key] = task[w.key] /\ opts'[w.key] = opts[w.key],
           \A w \in writes' : w.by = "attach" =>
               w.key # modal'.up /\ (create' # None => w.key # create'.up)
    PROVE  WritesFit' /\ OneWriter'
BY DEF UploadInv, WritesFit, OneWriter

\* A transfer that does not move covers its parts.
LEMMA TransferStays ==
    ASSUME UploadInv, transfer' = transfer,
           \A u \in Uploads : task'[u] \in {task[u], "save", "over"}
    PROVE  PartsCovered' /\ WholeFile'
<1>1. WholeFile'
  BY DEF UploadInv, WholeFile
<1>2. PartsCovered'
  <2> SUFFICES ASSUME NEW u \in Uploads
               PROVE  /\ task'[u] \in {"none", "presign"} => transfer[u].busy = {}
                      /\ task'[u] = "send" /\ transfer[u].busy # {} =>
                           \A p \in 1 .. Parts : p < transfer[u].next => p \in transfer[u].etags
                              \/ \E n \in 1 .. MaxAttempts : <<p, n>> \in transfer[u].busy
    BY DEF PartsCovered
  <2>1. task'[u] \in {"none", "presign", "send"} => task'[u] = task[u]
    OBVIOUS
  <2> QED
    BY <2>1 DEF UploadInv, PartsCovered
<1> QED
  BY <1>1, <1>2

\* Nor does one that is given up.
LEMMA TransferStops ==
    ASSUME UploadInv, NEW u \in Uploads,
           transfer' = transfer \/ (transfer' = [transfer EXCEPT ![u].busy = {}] /\ task'[u] = "over"),
           \A v \in Uploads : task'[v] \in {task[v], "save", "over"}
    PROVE  transfer' \in [Uploads -> Transfer] /\ PartsCovered' /\ WholeFile'
<1>1. transfer \in [Uploads -> Transfer]
  BY DEF UploadInv, TypeOK, UploadTypeOK
<1>2. CASE transfer' = transfer
  BY <1>1, <1>2, TransferStays
<1>3. CASE transfer' = [transfer EXCEPT ![u].busy = {}] /\ task'[u] = "over"
  <2> DEFINE t == [transfer[u] EXCEPT !.busy = {}]
  <2>1. t \in Transfer
    BY <1>1 DEF Transfer
  <2>2. transfer' = [transfer EXCEPT ![u] = t]
    BY <1>1, <1>3
  <2> HIDE DEF t
  <2>3. transfer' \in [Uploads -> Transfer] /\ \A v \in Uploads : v # u => transfer'[v] = transfer[v]
    BY <1>1, <2>1, <2>2
  <2>4. WholeFile'
    <3> SUFFICES ASSUME NEW v \in Uploads, task'[v] = "complete"
                 PROVE  transfer'[v].etags = 1 .. Parts
      BY DEF WholeFile
    <3>1. v # u /\ task[v] = "complete"
      BY <1>3
    <3> QED
      BY <2>3, <3>1 DEF UploadInv, WholeFile
  <2>5. PartsCovered'
    <3> SUFFICES ASSUME NEW v \in Uploads
                 PROVE  /\ task'[v] \in {"none", "presign"} => transfer'[v].busy = {}
                        /\ task'[v] = "send" /\ transfer'[v].busy # {} =>
                             \A p \in 1 .. Parts : p < transfer'[v].next => p \in transfer'[v].etags
                                \/ \E n \in 1 .. MaxAttempts : <<p, n>> \in transfer'[v].busy
      BY DEF PartsCovered
    <3>1. CASE v = u
      BY <1>3, <3>1
    <3>2. CASE v # u
      <4>1. task'[v] \in {"none", "presign", "send"} => task'[v] = task[v]
        OBVIOUS
      <4> QED
        BY <2>3, <3>2, <4>1 DEF UploadInv, PartsCovered
    <3> QED
      BY <3>1, <3>2
  <2> QED
    BY <2>3, <2>4, <2>5
<1> QED
  BY <1>2, <1>3

\* The files of recordings, and what a step of RecordingStore does to them.
Files == {u \in objects : opts[u].rec}
StoreStep ==
    \/ Files' = Files /\ recordings' = recordings
    \/ \E k \in Uploads :
          \/ Files' = Files \cup {k} /\ recordings' = recordings
          \/ k \in Files /\ recordings' = recordings \cup {k} /\ Files' = Files
          \/ k \notin recordings /\ Files' = Files \ {k} /\ recordings' = recordings
          \/ k \in recordings /\ recordings' = recordings \ {k} /\ Files' = Files \ {k}

LEMMA SameFiles ==
    ASSUME opts' = opts, objects' = objects, recordings' = recordings
    PROVE  StoreStep
BY DEF StoreStep, Files

LEMMA AddFile ==
    ASSUME NEW u \in Uploads, opts' = opts, objects' = objects \cup {u}, recordings' = recordings
    PROVE  StoreStep
<1>1. CASE opts[u].rec
  BY <1>1 DEF StoreStep, Files
<1>2. CASE ~opts[u].rec
  BY <1>2 DEF StoreStep, Files
<1> QED
  BY <1>1, <1>2

\* Dropping the object of a key that is no recording's.
LEMMA DropPlain ==
    ASSUME UploadInv, NEW x, Plain(x), opts' = opts, objects' = objects \ {x}, recordings' = recordings
    PROVE  StoreStep
<1>1. objects \subseteq Uploads /\ None \notin Uploads
  BY UploadsAssumption DEF UploadInv, TypeOK, UploadTypeOK
<1>2. Files' = Files
  BY <1>1 DEF Files, Plain
<1> QED
  BY <1>2 DEF StoreStep

\* Objects stay accounted for when only one upload moves and it accounts for itself.
LEMMA AccountedStays ==
    ASSUME UploadInv, NEW u \in Uploads, opts' = opts,
           recordings \subseteq recordings', abandons \subseteq abandons', lost \subseteq lost',
           objects' \subseteq objects \cup {u},
           \A v \in Uploads : v # u => task'[v] = task[v],
           u \in objects' /\ opts[u].rec =>
               u \in recordings' \/ task'[u] = "save" \/ u \in abandons' \/ u \in lost'
    PROVE  RecordingAccounted'
<1> SUFFICES ASSUME NEW v \in objects', opts'[v].rec
             PROVE  v \in recordings' \/ task'[v] = "save" \/ v \in abandons' \/ v \in lost'
  BY DEF RecordingAccounted
<1>1. v \in Uploads
  BY DEF UploadInv, TypeOK, UploadTypeOK
<1>2. CASE v = u
  BY <1>2
<1>3. CASE v # u
  <2>1. v \in objects /\ opts[v].rec
    BY <1>3
  <2>2. v \in recordings \/ task[v] = "save" \/ v \in abandons \/ v \in lost
    BY <2>1 DEF UploadInv, RecordingAccounted
  <2> QED
    BY <1>1, <1>3, <2>2
<1> QED
  BY <1>2, <1>3

LEMMA WriteTask ==
    ASSUME UploadInv, NEW w \in writes
    PROVE  /\ w \in Write /\ w.key \in Uploads /\ w.by \in {"start", "attach"} /\ w.to \in Target
           /\ task[w.key] \in {"save", "over"}
<1>1. w \in Write
  BY DEF UploadInv, TypeOK, UploadTypeOK
<1>2. w.key \in Uploads /\ w.by \in {"start", "attach"} /\ w.to \in Target
  BY <1>1 DEF Write
<1> QED
  BY <1>1, <1>2 DEF UploadInv, WritesFit

\* An answer that moves one upload, adds no write and leaves the pages alone.
LEMMA AnswerStep ==
    ASSUME UploadInv, NEW u \in Uploads, Local(u), UploadTypeOK', RecordingAccounted',
           PartsCovered', WholeFile', UNCHANGED pageVars, writes' \subseteq writes,
           \A w \in writes' : task'[w.key] = task[w.key],
           \A l \in Lessons : Plain(blocks'[l].key)
    PROVE  UploadInv'
<1>1. Unstarted' /\ RecApart' /\ WaitIsOver' /\ DoneWasSaved'
  BY LocalStep
<1>2. KeysPlain'
  BY LocalStays, KeysStay DEF pageVars
<1>3. WritesFit' /\ OneWriter'
  <2>1. \A w \in writes' : task'[w.key] = task[w.key] /\ opts'[w.key] = opts[w.key]
    BY DEF Local
  <2>2. modal' = modal /\ create' = create
    BY DEF pageVars
  <2>3. \A w \in writes' : w.by = "attach" => w.key # modal'.up /\ (create' # None => w.key # create'.up)
    BY <2>2 DEF UploadInv, WritesFit
  <2> QED
    BY <2>1, <2>3, WritesStay
<1>4. TypeOK'
  BY DEF UploadInv, TypeOK, pageVars
<1> QED
  BY <1>1, <1>2, <1>3, <1>4 DEF UploadInv

\* What the catch of startVideoUpload leaves.
LEMMA CatchFacts ==
    ASSUME UploadInv, NEW u \in Uploads, task[u] # "none", NEW stored \in BOOLEAN, Catch(u, stored),
           UNCHANGED <<shown, opts, acked>>, objects' \subseteq objects \cup {u}
    PROVE  /\ uploads' \in [Uploads -> ActiveUpload]
           /\ task' = [task EXCEPT ![u] = "over"] /\ task'[u] = "over"
           /\ task' \in [Uploads -> {"none", "presign", "send", "complete", "save", "over"}]
           /\ \A v \in Uploads : v # u => task'[v] = task[v]
           /\ Local(u)
           /\ abandons \subseteq abandons' /\ abandons' \subseteq Uploads
           /\ stored => u \in abandons'
<1>1. uploads \in [Uploads -> ActiveUpload] /\ abandons \subseteq Uploads
      /\ task \in [Uploads -> {"none", "presign", "send", "complete", "save", "over"}]
  BY DEF UploadInv, TypeOK, UploadTypeOK
<1>2. task' = [task EXCEPT ![u] = "over"]
  BY DEF Catch
<1>3. /\ uploads' \in [Uploads -> ActiveUpload]
      /\ \A v \in Uploads : v # u => uploads'[v] = uploads[v]
      /\ uploads'[u].block \in {None, uploads[u].block} /\ uploads'[u].status \in {"none", "error"}
  <2>1. CASE u \in aborted
    <3>1. uploads' = RemoveUpload(uploads, u)
      BY <2>1 DEF Catch
    <3> QED
      BY <1>1, <3>1, RemoveFacts, AbsentType
  <2>2. CASE u \notin aborted
    <3>1. uploads' = UpdateStatus(uploads, u, "error") /\ "error" \in Status
      BY <2>2 DEF Catch, Status
    <3> QED
      BY <1>1, <3>1, UpdateFacts
  <2> QED
    BY <2>1, <2>2
<1>4. abandons \subseteq abandons' /\ abandons' \subseteq Uploads /\ (stored => u \in abandons')
  BY <1>1 DEF Catch
<1>5. opts[u].rec => uploads'[u].block = None
  BY <1>3 DEF UploadInv, RecApart
<1>6. Local(u)
  BY <1>1, <1>2, <1>3, <1>5 DEF Local
<1> QED
  BY Zenon, <1>1, <1>2, <1>3, <1>4, <1>6

-----------------------------------------------------------------------------
(***************************************************************************)
(* The steps of the network, the server and the timers.                    *)
(***************************************************************************)
\* Both answers of the presign request.
LEMMA PresignStep ==
    ASSUME UploadInv, NEW u \in Uploads, PresignAnswered(u), UNCHANGED pageVars
    PROVE  UploadInv' /\ StoreStep
<1>1. /\ task[u] = "presign" /\ task' = [task EXCEPT ![u] = "send"]
      /\ UNCHANGED <<shown, opts, aborted, writes, abandons, objects, blocks,
                     recordings, faults, lost, acked>>
  BY DEF PresignAnswered
<1>2. UploadTypeOK
  BY DEF UploadInv, TypeOK
<1>3. /\ uploads' \in [Uploads -> ActiveUpload]
      /\ \A v \in Uploads : v # u => uploads'[v] = uploads[v]
      /\ uploads'[u].block = uploads[u].block /\ uploads'[u].status \in {"none", "uploading"}
  <2>1. CASE Listed(uploads, u)
    <3> DEFINE row == [uploads[u] EXCEPT !.status = "uploading", !.key = TRUE]
    <3>1. uploads[u] \in ActiveUpload
      BY <1>2 DEF UploadTypeOK
    <3>2. row \in ActiveUpload /\ row.block = uploads[u].block /\ row.status = "uploading"
      BY Zenon, <3>1 DEF ActiveUpload, Status, ActiveStatus
    <3>3. uploads' = [uploads EXCEPT ![u] = row]
      BY Zenon, <2>1, <1>2 DEF PresignAnswered, UploadTypeOK
    <3> HIDE DEF row
    <3> QED
      BY <1>2, <3>2, <3>3 DEF UploadTypeOK
  <2>2. CASE ~Listed(uploads, u)
    BY <1>2, <2>2 DEF PresignAnswered, Listed, UploadTypeOK
  <2> QED
    BY <2>1, <2>2
<1>4. /\ task' \in [Uploads -> {"none", "presign", "send", "complete", "save", "over"}]
      /\ task'[u] = "send" /\ \A v \in Uploads : v # u => task'[v] = task[v]
  BY <1>1, <1>2 DEF UploadTypeOK
<1>5. Local(u)
  <2>1. opts[u].rec => uploads'[u].block = None
    BY <1>3 DEF UploadInv, RecApart
  <2>2. shown[u].status # "waiting"
    BY <1>1 DEF UploadInv, WaitIsOver
  <2> QED
    BY <1>1, <1>3, <1>4, <2>1, <2>2 DEF Local
<1>6. /\ transfer' \in [Uploads -> Transfer]
      /\ \A v \in Uploads : v # u => transfer'[v] = transfer[v]
      /\ transfer'[u].busy # {} => \A p \in 1 .. Parts : p < transfer'[u].next =>
            \E n \in 1 .. MaxAttempts : <<p, n>> \in transfer'[u].busy
  <2>1. transfer[u] \in Transfer /\ transfer[u].busy = {}
    BY <1>1, <1>2 DEF UploadTypeOK, UploadInv, PartsCovered
  <2>2. CASE ~opts[u].big
    <3>1. transfer' = transfer
      BY <2>2 DEF PresignAnswered
    <3> QED
      BY <1>2, <2>1, <3>1 DEF UploadTypeOK
  <2>3. CASE opts[u].big
    <3> DEFINE m == Workers
    <3>1. m \in Nat \ {0} /\ m <= Parts /\ Parts \in Nat /\ 1 \in 1 .. MaxAttempts
      BY UploadsAssumption DEF Workers
    <3>2. FirstParts = 1 .. m
      BY DEF FirstParts
    <3> DEFINE t == [transfer[u] EXCEPT !.busy = FirstParts \X {1}, !.next = Workers + 1]
    <3>4. t.next = m + 1 /\ t.busy = FirstParts \X {1}
      BY <2>1 DEF Transfer
    <3>5. transfer' = [transfer EXCEPT ![u] = t]
      BY Zenon, <2>3, <1>2 DEF PresignAnswered, UploadTypeOK
    <3>6. FirstParts \X {1} \subseteq (1 .. Parts) \X (1 .. MaxAttempts)
      BY <3>1, <3>2
    <3>7. t \in Transfer
      <4>1. Workers + 1 \in Nat \ {0}
        BY <3>1
      <4> QED
        BY Zenon, <2>1, <3>6, <4>1 DEF Transfer
    <3> HIDE DEF t
    <3>8. ASSUME NEW p \in 1 .. Parts, p < t.next
          PROVE  \E n \in 1 .. MaxAttempts : <<p, n>> \in t.busy
      <4>1. p \in 1 .. m
        BY <3>1, <3>4, <3>8
      <4>2. <<p, 1>> \in t.busy
        BY <3>2, <3>4, <4>1
      <4> QED
        BY <3>1, <4>2
    <3>9. transfer'[u] = t /\ \A v \in Uploads : v # u => transfer'[v] = transfer[v]
      BY <3>5, <1>2 DEF UploadTypeOK
    <3>10. transfer' \in [Uploads -> Transfer]
      BY <3>5, <3>7, <1>2 DEF UploadTypeOK
    <3> QED
      BY <3>8, <3>9, <3>10
  <2> QED
    BY <2>2, <2>3
<1>7. PartsCovered' /\ WholeFile'
  <2>1. WholeFile'
    BY <1>4, <1>6 DEF UploadInv, WholeFile
  <2>2. ASSUME NEW v \in Uploads
        PROVE  /\ task'[v] \in {"none", "presign"} => transfer'[v].busy = {}
               /\ task'[v] = "send" /\ transfer'[v].busy # {} =>
                     \A p \in 1 .. Parts : p < transfer'[v].next => p \in transfer'[v].etags
                        \/ \E n \in 1 .. MaxAttempts : <<p, n>> \in transfer'[v].busy
    <3>1. CASE v = u
      BY <1>4, <1>6, <3>1
    <3>2. CASE v # u
      BY <1>4, <1>6, <3>2 DEF UploadInv, PartsCovered
    <3> QED
      BY <3>1, <3>2
  <2> QED
    BY <2>1, <2>2 DEF PartsCovered
<1>8. UploadTypeOK'
  BY <1>1, <1>2, <1>3, <1>4, <1>6 DEF UploadTypeOK
<1>9. TypeOK'
  BY <1>8 DEF UploadInv, TypeOK, pageVars
<1>10. WritesFit' /\ OneWriter'
  <2>1. \A w \in writes : w.key # u /\ w.key \in Uploads
    BY <1>1, WriteTask
  <2>2. \A w \in writes' : task'[w.key] = task[w.key] /\ opts'[w.key] = opts[w.key]
    BY <1>1, <1>4, <2>1
  <2>3. modal' = modal /\ create' = create
    BY Zenon DEF pageVars
  <2>4. \A w \in writes' : w.by = "attach" => w.key # modal'.up /\ (create' # None => w.key # create'.up)
    BY <1>1, <2>3 DEF UploadInv, WritesFit
  <2> QED
    BY <1>1, <2>2, <2>4, WritesStay
<1>11. KeysPlain'
  <2>1. \A l \in Lessons : Plain(blocks'[l].key)
    BY <1>1 DEF UploadInv, KeysPlain
  <2> QED
    BY <1>5, <2>1, LocalStays, KeysStay
<1>12. RecordingAccounted'
  <2>1. u \in objects' /\ opts[u].rec => u \in recordings' \/ u \in abandons' \/ u \in lost'
    BY <1>1 DEF UploadInv, RecordingAccounted
  <2> QED
    BY <1>1, <1>4, <2>1, AccountedStays
<1>13. Unstarted' /\ RecApart' /\ WaitIsOver' /\ DoneWasSaved'
  BY <1>5, LocalStep
<1> QED
  BY <1>1, <1>7, <1>9, <1>10, <1>11, <1>12, <1>13, SameFiles DEF UploadInv

\* A request or a transfer fails before a row write was asked for; the bucket may
\* have kept the object.
LEMMA FailStep ==
    ASSUME UploadInv, NEW u \in Uploads, task[u] \in {"presign", "send", "complete"},
           Catch(u, FALSE), faults' \in 0 .. MaxFaults,
           UNCHANGED <<shown, opts, aborted, writes, blocks, recordings, acked, pageVars>>,
           transfer' = transfer \/ transfer' = [transfer EXCEPT ![u].busy = {}],
           \/ UNCHANGED <<objects, lost>>
           \/ objects' = objects \cup {u} /\ lost' = lost \cup {u}
    PROVE  UploadInv' /\ StoreStep
<1>1. UploadTypeOK /\ task[u] # "none" /\ objects' \subseteq objects \cup {u}
  BY DEF UploadInv, TypeOK
<1>2. /\ uploads' \in [Uploads -> ActiveUpload] /\ task'[u] = "over"
      /\ task' \in [Uploads -> {"none", "presign", "send", "complete", "save", "over"}]
      /\ \A v \in Uploads : v # u => task'[v] = task[v]
      /\ Local(u) /\ abandons \subseteq abandons' /\ abandons' \subseteq Uploads
  BY Zenon, <1>1, CatchFacts
<1>3. transfer' \in [Uploads -> Transfer] /\ PartsCovered' /\ WholeFile'
  BY <1>2, TransferStops
<1>4. UploadTypeOK'
  BY <1>1, <1>2, <1>3 DEF UploadTypeOK
<1>5. RecordingAccounted'
  <2>1. u \in objects' /\ opts[u].rec => u \in recordings' \/ u \in abandons' \/ u \in lost'
    BY <1>2 DEF UploadInv, RecordingAccounted
  <2>2. lost \subseteq lost' /\ recordings \subseteq recordings'
    OBVIOUS
  <2> QED
    BY <1>1, <1>2, <2>1, <2>2, AccountedStays
<1>6. \A w \in writes' : task'[w.key] = task[w.key]
  BY <1>2, WriteTask
<1>7. \A l \in Lessons : Plain(blocks'[l].key)
  BY DEF UploadInv, KeysPlain
<1>8. UploadInv'
  BY <1>2, <1>4, <1>5, <1>6, <1>7, <1>3, AnswerStep
<1>9. StoreStep
  BY SameFiles, AddFile
<1> QED
  BY <1>8, <1>9

LEMMA FaultType ==
    ASSUME UploadInv, Fault
    PROVE  faults' \in 0 .. MaxFaults
BY UploadsAssumption DEF UploadInv, TypeOK, UploadTypeOK, Fault

LEMMA FailedSteps ==
    ASSUME UploadInv, NEW u \in Uploads, UNCHANGED pageVars,
           PresignFailed(u) \/ PutFailed(u) \/ CompleteFailed(u)
    PROVE  UploadInv' /\ StoreStep
<1>1. CASE PresignFailed(u)
  <2>1. faults' \in 0 .. MaxFaults
    BY <1>1, FaultType DEF PresignFailed, UploadInv, TypeOK, UploadTypeOK
  <2> QED
    BY Zenon, <1>1, <2>1, FailStep DEF PresignFailed
<1>2. CASE PutFailed(u)
  <2>1. faults' \in 0 .. MaxFaults
    BY <1>2, FaultType DEF PutFailed
  <2> QED
    BY Zenon, <1>2, <2>1, FailStep DEF PutFailed
<1>3. CASE CompleteFailed(u)
  <2>1. faults' \in 0 .. MaxFaults
    BY <1>3, FaultType DEF CompleteFailed
  <2> QED
    BY Zenon, <1>3, <2>1, FailStep DEF CompleteFailed
<1> QED
  BY <1>1, <1>2, <1>3

\* Where persistUploadTarget sends a key: a recording's to its row, no other there.
LEMMA TargetFits ==
    ASSUME UploadInv, NEW u \in Uploads, NEW b \in Lessons \cup {None}, opts[u].rec => b = None
    PROVE  /\ PersistTarget(u, b) \in Target \cup {None}
           /\ opts[u].rec => PersistTarget(u, b) = "recording"
           /\ PersistTarget(u, b) = "recording" => opts[u].rec
<1>1. shown[u] \in ActiveUpload /\ opts[u] \in UploadStartOpts
  BY DEF UploadInv, TypeOK, UploadTypeOK
<1>2. shown[u].block \in Lessons \cup {None}
  BY <1>1 DEF ActiveUpload
<1>3. opts[u].rec => shown[u].block = None /\ ~opts[u].defer
  BY DEF UploadInv, RecApart
<1> QED
  BY <1>2, <1>3, UploadsAssumption DEF PersistTarget, Target

\* The object of an upload is in the bucket.
LEMMA StoredStep ==
    ASSUME UploadInv, NEW u \in Uploads, task[u] \in {"send", "complete"}, Stored(u),
           UNCHANGED <<shown, opts, aborted, transfer, abandons, blocks, recordings, faults, lost,
                       acked, pageVars>>
    PROVE  UploadInv' /\ StoreStep
<1> DEFINE to == PersistTarget(u, opts[u].block)
<1>1. UploadTypeOK
  BY DEF UploadInv, TypeOK
<1>2. /\ to \in Target \cup {None} /\ (opts[u].rec => to = "recording")
      /\ (to = "recording" => opts[u].rec)
  <2>1. opts[u].block \in Lessons \cup {None}
    BY <1>1 DEF UploadTypeOK, UploadStartOpts
  <2>2. opts[u].rec => opts[u].block = None
    BY DEF UploadInv, RecApart
  <2> QED
    BY <2>1, <2>2, TargetFits
<1>3. /\ objects' = objects \cup {u}
      /\ to = None => /\ uploads' = UpdateStatus(uploads, u, "waiting")
                      /\ task' = [task EXCEPT ![u] = "over"] /\ writes' = writes
      /\ to # None => /\ uploads' = UpdateStatus(uploads, u, "saving")
                      /\ task' = [task EXCEPT ![u] = "save"]
                      /\ writes' = writes \cup {[key |-> u, by |-> "start", to |-> to]}
  BY DEF Stored
<1> HIDE DEF to
<1>4. /\ uploads' \in [Uploads -> ActiveUpload]
      /\ \A v \in Uploads : v # u => uploads'[v] = uploads[v]
      /\ uploads'[u].block = uploads[u].block
      /\ uploads'[u].status \in {"none", "waiting", "saving"}
      /\ uploads'[u].status = "waiting" => to = None
  <2>1. "waiting" \in Status /\ "saving" \in Status /\ uploads \in [Uploads -> ActiveUpload]
    BY <1>1 DEF Status, ActiveStatus, UploadTypeOK
  <2>2. CASE to = None
    BY <1>3, <2>1, <2>2, UpdateFacts
  <2>3. CASE to # None
    BY <1>3, <2>1, <2>3, UpdateFacts
  <2> QED
    BY <2>2, <2>3
<1>5. /\ task' \in [Uploads -> {"none", "presign", "send", "complete", "save", "over"}]
      /\ \A v \in Uploads : v # u => task'[v] = task[v]
      /\ to = None => task'[u] = "over"
      /\ to # None => task'[u] = "save"
  BY <1>1, <1>3 DEF UploadTypeOK
<1>6. Local(u)
  <2>1. opts[u].rec => uploads'[u].block = None
    BY <1>4 DEF UploadInv, RecApart
  <2>2. shown[u].status # "waiting"
    BY DEF UploadInv, WaitIsOver
  <2>3. task[u] # "none" /\ task'[u] # "none"
    BY <1>5
  <2> QED
    BY Zenon, <1>3, <1>4, <1>5, <2>1, <2>2, <2>3 DEF Local
<1>7. writes' \subseteq Write
  <2>1. to # None => [key |-> u, by |-> "start", to |-> to] \in Write
    BY <1>2 DEF Write
  <2> QED
    BY <1>1, <1>3, <2>1 DEF UploadTypeOK
<1>8. UploadTypeOK'
  BY <1>1, <1>3, <1>4, <1>5, <1>7 DEF UploadTypeOK
<1>9. TypeOK'
  BY <1>8 DEF UploadInv, TypeOK, pageVars
<1>10. WritesFit' /\ OneWriter'
  <2>1. \A w \in writes : w.key # u /\ w.key \in Uploads
    BY WriteTask
  <2>2. modal' = modal /\ create' = create
    BY DEF pageVars
  <2> DEFINE n == [key |-> u, by |-> "start", to |-> to]
  <2>3. n.key = u /\ n.by = "start" /\ n.to = to
    OBVIOUS
  <2>4. ASSUME NEW w \in writes', w \notin writes
        PROVE  w = n /\ to # None
    BY Zenon, <1>3, <2>4
  <2> HIDE DEF n
  <2>5. WritesFit'
    <3> SUFFICES ASSUME NEW w \in writes'
                 PROVE  /\ w.by = "start" => task'[w.key] = "save"
                        /\ w.by = "attach" => task'[w.key] = "over"
                        /\ w.to = "recording" => opts'[w.key].rec
                        /\ opts'[w.key].rec => w.to = "recording"
                        /\ w.by = "attach" => w.key # modal'.up /\ (create' # None => w.key # create'.up)
      BY DEF WritesFit
    <3>1. CASE w \in writes
      BY Zenon, <1>5, <2>1, <2>2, <3>1 DEF UploadInv, WritesFit
    <3>2. CASE w \notin writes
      BY <1>2, <1>5, <2>3, <2>4, <3>2
    <3> QED
      BY <3>1, <3>2
  <2>6. OneWriter'
    <3> SUFFICES ASSUME NEW v \in writes', NEW w \in writes', v.key = w.key
                 PROVE  v = w
      BY DEF OneWriter
    <3> QED
      BY <2>1, <2>3, <2>4 DEF UploadInv, OneWriter
  <2> QED
    BY <2>5, <2>6
<1>11. KeysPlain'
  <2>1. \A l \in Lessons : Plain(blocks'[l].key)
    BY DEF UploadInv, KeysPlain
  <2> QED
    BY <1>6, <2>1, LocalStays, KeysStay
<1>12. RecordingAccounted'
  <2>1. opts[u].rec => task'[u] = "save"
    BY <1>2, <1>5, UploadsAssumption
  <2>2. objects' \subseteq objects \cup {u} /\ recordings \subseteq recordings'
        /\ abandons \subseteq abandons' /\ lost \subseteq lost'
    BY <1>3
  <2> QED
    BY <1>5, <2>1, <2>2, AccountedStays
<1>13. PartsCovered' /\ WholeFile'
  <2>1. \A v \in Uploads : task'[v] \in {task[v], "save", "over"}
    BY <1>5
  <2> QED
    BY <2>1, TransferStays
<1>14. Unstarted' /\ RecApart' /\ WaitIsOver' /\ DoneWasSaved'
  BY <1>6, LocalStep
<1>15. StoreStep
  BY Zenon, <1>3, AddFile
<1> QED
  BY <1>9, <1>10, <1>11, <1>12, <1>13, <1>14, <1>15 DEF UploadInv

\* The pages and the row writes while only a transfer moves.
LEMMA TransferStep ==
    ASSUME UploadInv, NEW u \in Uploads, task[u] = "send", task'[u] \in {"send", "complete"},
           \A v \in Uploads : v # u => task'[v] = task[v],
           UploadTypeOK', PartsCovered', WholeFile',
           UNCHANGED <<uploads, shown, opts, aborted, writes, abandons, objects, blocks, recordings,
                       lost, acked, pageVars>>
    PROVE  UploadInv' /\ StoreStep
<1>1. Local(u)
  <2>1. opts[u].rec => uploads'[u].block = None
    BY DEF UploadInv, RecApart
  <2>2. shown[u].status # "waiting" /\ uploads'[u].status # "waiting"
    BY DEF UploadInv, WaitIsOver
  <2>3. uploads'[u].status = "done" /\ ~opts[u].defer => u \in acked'
    BY DEF UploadInv, DoneWasSaved
  <2>4. task[u] # "none" /\ task'[u] # "none"
    OBVIOUS
  <2> QED
    BY Zenon, <2>1, <2>2, <2>3, <2>4 DEF Local
<1>2. TypeOK'
  BY DEF UploadInv, TypeOK, pageVars
<1>3. WritesFit' /\ OneWriter'
  <2>1. \A w \in writes : w.key # u /\ w.key \in Uploads
    BY WriteTask
  <2>2. \A w \in writes' : task'[w.key] = task[w.key] /\ opts'[w.key] = opts[w.key]
    BY <2>1
  <2>3. modal' = modal /\ create' = create
    BY DEF pageVars
  <2>4. \A w \in writes' : w.by = "attach" => w.key # modal'.up /\ (create' # None => w.key # create'.up)
    BY <2>3 DEF UploadInv, WritesFit
  <2> QED
    BY <2>2, <2>4, WritesStay
<1>4. KeysPlain'
  <2>1. \A l \in Lessons : Plain(blocks'[l].key)
    BY DEF UploadInv, KeysPlain
  <2> QED
    BY <1>1, <2>1, LocalStays, KeysStay
<1>5. RecordingAccounted'
  <2>1. u \in objects' /\ opts[u].rec => u \in recordings' \/ u \in abandons' \/ u \in lost'
    BY DEF UploadInv, RecordingAccounted
  <2> QED
    BY <2>1, AccountedStays
<1>6. Unstarted' /\ RecApart' /\ WaitIsOver' /\ DoneWasSaved'
  BY <1>1, LocalStep
<1> QED
  BY <1>2, <1>3, <1>4, <1>5, <1>6, SameFiles DEF UploadInv

\* A part is stored and its worker takes the next one.
LEMMA PartStoredStep ==
    ASSUME UploadInv, NEW u \in Uploads, NEW p \in 1 .. Parts, NEW n \in 1 .. MaxAttempts,
           PartStored(u, p, n), UNCHANGED pageVars
    PROVE  UploadInv' /\ StoreStep
<1> DEFINE t == transfer[u]
           taken == IF t.next <= Parts THEN {<<t.next, 1>>} ELSE {}
           after == [next |-> IF taken = {} THEN t.next ELSE t.next + 1,
                     busy |-> (t.busy \ {<<p, n>>}) \cup taken,
                     etags |-> t.etags \cup {p}]
<1>1. /\ task[u] = "send" /\ <<p, n>> \in t.busy
      /\ transfer' = [transfer EXCEPT ![u] = after]
      /\ task' = IF after.busy = {} THEN [task EXCEPT ![u] = "complete"] ELSE task
      /\ UNCHANGED <<uploads, shown, opts, aborted, writes, abandons, objects,
                     blocks, recordings, faults, lost, acked>>
  BY DEF PartStored
<1>2. UploadTypeOK /\ Parts \in Nat /\ MaxAttempts \in Nat \ {0}
  BY UploadsAssumption DEF UploadInv, TypeOK
<1>3. t \in Transfer
  BY <1>2 DEF UploadTypeOK
<1>4. t.next \in Nat \ {0} /\ t.busy \subseteq (1 .. Parts) \X (1 .. MaxAttempts) /\ t.etags \subseteq 1 .. Parts
  BY Zenon, <1>3 DEF Transfer
<1>5. /\ t.next <= Parts => taken = {<<t.next, 1>>} /\ taken # {}
      /\ ~(t.next <= Parts) => taken = {}
  BY Zenon
<1>6. /\ after.next = IF taken = {} THEN t.next ELSE t.next + 1
      /\ after.busy = (t.busy \ {<<p, n>>}) \cup taken
      /\ after.etags = t.etags \cup {p}
  OBVIOUS
<1>7. after \in Transfer
  <2>1. taken \subseteq (1 .. Parts) \X (1 .. MaxAttempts)
    BY <1>2, <1>4, <1>5
  <2>2. (IF taken = {} THEN t.next ELSE t.next + 1) \in Nat \ {0}
    BY <1>4, <1>5
  <2>3. (t.busy \ {<<p, n>>}) \cup taken \subseteq (1 .. Parts) \X (1 .. MaxAttempts)
    BY <1>4, <2>1
  <2>4. t.etags \cup {p} \subseteq 1 .. Parts
    BY <1>4
  <2> QED
    BY <2>2, <2>3, <2>4 DEF Transfer
<1>8. ASSUME NEW q \in 1 .. Parts, q < t.next
      PROVE  q \in t.etags \/ \E m \in 1 .. MaxAttempts : <<q, m>> \in t.busy
  BY <1>1, <1>8 DEF UploadInv, PartsCovered
<1> HIDE DEF taken, after, t
<1>9. ASSUME NEW q \in 1 .. Parts, q < after.next
      PROVE  q \in after.etags \/ \E m \in 1 .. MaxAttempts : <<q, m>> \in after.busy
  <2>1. CASE q < t.next
    <3>1. CASE q \in t.etags
      BY <1>6, <3>1
    <3>2. CASE \E m \in 1 .. MaxAttempts : <<q, m>> \in t.busy
      <4>1. PICK m \in 1 .. MaxAttempts : <<q, m>> \in t.busy
        BY <3>2
      <4>2. CASE q = p
        BY <1>6, <4>2
      <4>3. CASE q # p
        BY <1>6, <4>1, <4>3
      <4> QED
        BY <4>2, <4>3
    <3> QED
      BY <1>8, <2>1, <3>1, <3>2
  <2>2. CASE ~(q < t.next)
    <3>1. q = t.next /\ t.next <= Parts
      BY <1>2, <1>4, <1>5, <1>6, <1>9, <2>2
    <3>2. <<q, 1>> \in after.busy /\ 1 \in 1 .. MaxAttempts
      BY <1>2, <1>5, <1>6, <3>1
    <3> QED
      BY <3>2
  <2> QED
    BY <2>1, <2>2
<1>10. after.busy = {} => after.etags = 1 .. Parts
  <2> SUFFICES ASSUME after.busy = {}
               PROVE  after.etags = 1 .. Parts
    OBVIOUS
  <2>1. ~(t.next <= Parts)
    BY Zenon, <1>5, <1>6
  <2>2. \A q \in 1 .. Parts : q < after.next
    BY <1>2, <1>4, <1>5, <1>6, <2>1
  <2>3. \A q \in 1 .. Parts : q \in after.etags
    BY <1>9, <2>2
  <2> QED
    BY Zenon, <1>7, <2>3 DEF Transfer
<1>11. /\ transfer' \in [Uploads -> Transfer] /\ transfer'[u] = after
       /\ \A v \in Uploads : v # u => transfer'[v] = transfer[v]
  BY <1>1, <1>2, <1>7 DEF UploadTypeOK
<1>12. /\ task' \in [Uploads -> {"none", "presign", "send", "complete", "save", "over"}]
       /\ \A v \in Uploads : v # u => task'[v] = task[v]
       /\ after.busy = {} => task'[u] = "complete"
       /\ after.busy # {} => task'[u] = "send"
  BY <1>1, <1>2 DEF UploadTypeOK
<1>13. UploadTypeOK'
  BY Zenon, <1>1, <1>2, <1>11, <1>12 DEF UploadTypeOK
<1>14. WholeFile'
  BY <1>10, <1>11, <1>12 DEF UploadInv, WholeFile
<1>15. PartsCovered'
  <2> SUFFICES ASSUME NEW v \in Uploads
               PROVE  /\ task'[v] \in {"none", "presign"} => transfer'[v].busy = {}
                      /\ task'[v] = "send" /\ transfer'[v].busy # {} =>
                           \A q \in 1 .. Parts : q < transfer'[v].next => q \in transfer'[v].etags
                              \/ \E m \in 1 .. MaxAttempts : <<q, m>> \in transfer'[v].busy
    BY Zenon DEF PartsCovered
  <2>1. CASE v = u
    BY Zenon, <1>9, <1>11, <1>12, <2>1
  <2>2. CASE v # u
    BY <1>11, <1>12, <2>2 DEF UploadInv, PartsCovered
  <2> QED
    BY ZenonT(40), <2>1, <2>2
<1>16. task'[u] \in {"send", "complete"}
  BY <1>12
<1> QED
  BY Zenon, <1>1, <1>12, <1>13, <1>14, <1>15, <1>16, TransferStep

\* A part fails: another attempt, or the transfer is given up.
LEMMA PartFailedStep ==
    ASSUME UploadInv, NEW u \in Uploads, NEW p \in 1 .. Parts, NEW n \in 1 .. MaxAttempts,
           PartFailed(u, p, n), UNCHANGED pageVars
    PROVE  UploadInv' /\ StoreStep
<1>1. /\ task[u] = "send" /\ <<p, n>> \in transfer[u].busy /\ Fault
      /\ UNCHANGED <<shown, opts, aborted, writes, objects, blocks, recordings, lost, acked>>
  BY Zenon DEF PartFailed
<1>2. faults' \in 0 .. MaxFaults
  BY <1>1, FaultType
<1>3. CASE ~(n < MaxAttempts)
  <2>1. transfer' = [transfer EXCEPT ![u].busy = {}] /\ Catch(u, FALSE)
    BY Zenon, <1>3 DEF PartFailed
  <2> QED
    BY Zenon, <1>1, <1>2, <2>1, FailStep
<1>4. CASE n < MaxAttempts
  <2>1. UploadTypeOK /\ Parts \in Nat /\ MaxAttempts \in Nat
    BY UploadsAssumption DEF UploadInv, TypeOK
  <2>2. transfer[u] \in Transfer
    BY <2>1 DEF UploadTypeOK
  <2> DEFINE busy == (transfer[u].busy \ {<<p, n>>}) \cup {<<p, n + 1>>}
             t == [transfer[u] EXCEPT !.busy = busy]
  <2>3. transfer' = [transfer EXCEPT ![u] = t] /\ UNCHANGED <<uploads, abandons, task>>
    BY <1>4, <2>1 DEF PartFailed, UploadTypeOK
  <2>4. n + 1 \in 1 .. MaxAttempts
    BY <1>4, <2>1
  <2>5. busy \in SUBSET ((1 .. Parts) \X (1 .. MaxAttempts))
    <3>1. transfer[u].busy \in SUBSET ((1 .. Parts) \X (1 .. MaxAttempts))
      BY Zenon, <2>2 DEF Transfer
    <3>2. <<p, n + 1>> \in (1 .. Parts) \X (1 .. MaxAttempts)
      BY <2>4
    <3> QED
      BY ZenonT(40), <3>1, <3>2
  <2>6. \A q, m : q # p /\ <<q, m>> \in transfer[u].busy => <<q, m>> \in busy
    BY ZenonT(40)
  <2>7. <<p, n + 1>> \in busy
    BY Zenon
  <2> HIDE DEF busy
  <2>8. t \in Transfer /\ t.busy = busy /\ t.next = transfer[u].next /\ t.etags = transfer[u].etags
    BY <2>2, <2>5 DEF Transfer
  <2> HIDE DEF t
  <2>9. /\ transfer' \in [Uploads -> Transfer] /\ transfer'[u] = t
        /\ \A v \in Uploads : v # u => transfer'[v] = transfer[v]
    BY Zenon, <2>1, <2>3, <2>8 DEF UploadTypeOK
  <2>10. UploadTypeOK'
    BY Zenon, <1>1, <1>2, <2>1, <2>3, <2>9 DEF UploadTypeOK
  <2>11. WholeFile'
    BY Zenon, <1>1, <2>3, <2>9 DEF UploadInv, WholeFile
  <2>12. ASSUME NEW q \in 1 .. Parts, q < t.next
         PROVE  q \in t.etags \/ \E m \in 1 .. MaxAttempts : <<q, m>> \in t.busy
    <3>1. q \in transfer[u].etags \/ \E m \in 1 .. MaxAttempts : <<q, m>> \in transfer[u].busy
      BY <1>1, <2>8, <2>12 DEF UploadInv, PartsCovered
    <3>2. CASE q = p
      BY <2>4, <2>7, <2>8, <3>2
    <3>3. CASE q # p
      BY Zenon, <2>6, <2>8, <3>1, <3>3
    <3> QED
      BY Zenon, <3>2, <3>3
  <2>13. PartsCovered'
    <3> SUFFICES ASSUME NEW v \in Uploads
                 PROVE  /\ task'[v] \in {"none", "presign"} => transfer'[v].busy = {}
                        /\ task'[v] = "send" /\ transfer'[v].busy # {} =>
                             \A q \in 1 .. Parts : q < transfer'[v].next => q \in transfer'[v].etags
                                \/ \E m \in 1 .. MaxAttempts : <<q, m>> \in transfer'[v].busy
      BY Zenon DEF PartsCovered
    <3>1. CASE v = u
      BY Zenon, <1>1, <2>3, <2>9, <2>12, <3>1
    <3>2. CASE v # u
      BY Zenon, <2>3, <2>9, <3>2 DEF UploadInv, PartsCovered
    <3> QED
      BY Zenon, <3>1, <3>2
  <2> QED
    BY Zenon, <1>1, <2>3, <2>10, <2>11, <2>13, TransferStep
<1> QED
  BY <1>3, <1>4

\* What the server's row write does to the rows and the bucket.
LEMMA ApplyFacts ==
    ASSUME UploadInv, NEW w \in writes, w.to = "recording" => CanCreate(w.key), ApplyWrite(w), opts' = opts
    PROVE  /\ blocks' \in [Lessons -> VideoRow] /\ \A l \in Lessons : Plain(blocks'[l].key)
           /\ objects' \subseteq objects
           /\ recordings \subseteq recordings' /\ recordings' \subseteq Uploads
           /\ opts[w.key].rec => w.key \in recordings'
           /\ StoreStep
<1>1. UploadTypeOK
  BY DEF UploadInv, TypeOK
<1>2. w.key \in Uploads /\ w.to \in Target /\ task[w.key] # "none"
  BY Zenon, WriteTask
<1>3. (w.to = "recording" => opts[w.key].rec) /\ (opts[w.key].rec => w.to = "recording")
  BY Zenon DEF UploadInv, WritesFit
<1>4. blocks \in [Lessons -> VideoRow] /\ \A l \in Lessons : Plain(blocks[l].key)
  BY <1>1 DEF UploadTypeOK, UploadInv, KeysPlain
<1>5. CASE w.to = "recording"
  <2>1. recordings' = recordings \cup {w.key} /\ blocks' = blocks /\ objects' = objects /\ w.key \in objects
    BY <1>5 DEF ApplyWrite, CreateRecording, CanCreate
  <2>2. w.key \in Files /\ Files' = Files
    BY <1>3, <1>5, <2>1 DEF Files
  <2>3. StoreStep
    BY Zenon, <1>2, <2>1, <2>2 DEF StoreStep
  <2> QED
    BY <1>1, <1>2, <1>4, <2>1, <2>3 DEF UploadTypeOK
<1>6. CASE w.to # "recording"
  <2>1. w.to \in Lessons
    BY <1>2, <1>6 DEF Target
  <2> DEFINE row == [there |-> TRUE, key |-> w.key]
  <2>2. /\ blocks' = [blocks EXCEPT ![w.to] = row] /\ recordings' = recordings
        /\ objects' = IF blocks[w.to].key # w.key THEN objects \ {blocks[w.to].key} ELSE objects
    BY Zenon, <1>6 DEF ApplyWrite, WriteBlock
  <2>3. row \in VideoRow /\ row.key = w.key
    BY Zenon, <1>2 DEF VideoRow
  <2> HIDE DEF row
  <2>4. Plain(w.key)
    BY <1>2, <1>3, <1>6 DEF Plain
  <2>5. blocks' \in [Lessons -> VideoRow] /\ \A l \in Lessons : Plain(blocks'[l].key)
    <3>1. blocks' \in [Lessons -> VideoRow]
      BY Zenon, <1>4, <2>1, <2>2, <2>3
    <3>2. ASSUME NEW l \in Lessons
          PROVE  Plain(blocks'[l].key)
      <4>1. CASE l = w.to
        BY <1>4, <2>2, <2>3, <2>4, <4>1
      <4>2. CASE l # w.to
        BY <1>4, <2>2, <4>2
      <4> QED
        BY <4>1, <4>2
    <3> QED
      BY Zenon, <3>1, <3>2
  <2>6. StoreStep
    <3>1. CASE blocks[w.to].key # w.key
      <4>1. Plain(blocks[w.to].key) /\ objects' = objects \ {blocks[w.to].key}
        BY <1>4, <2>1, <2>2, <3>1
      <4> QED
        BY <2>2, <4>1, DropPlain
    <3>2. CASE blocks[w.to].key = w.key
      BY <2>2, <3>2, SameFiles
    <3> QED
      BY <3>1, <3>2
  <2> QED
    BY <1>1, <1>3, <1>6, <2>2, <2>5, <2>6 DEF UploadTypeOK
<1> QED
  BY <1>5, <1>6

\* The other writes under way are of other uploads.
LEMMA OtherWrites ==
    ASSUME UploadInv, NEW w \in writes, writes' = writes \ {w},
           \A v \in Uploads : v # w.key => task'[v] = task[v]
    PROVE  writes' \subseteq writes /\ \A x \in writes' : task'[x.key] = task[x.key]
<1>1. \A x \in writes' : x.key # w.key /\ x.key \in Uploads
  BY WriteTask DEF UploadInv, OneWriter
<1> QED
  BY <1>1

\* The row write was acknowledged.
LEMMA SaveAnsweredStep ==
    ASSUME UploadInv, NEW w \in writes, SaveAnswered(w), UNCHANGED pageVars
    PROVE  UploadInv' /\ StoreStep
<1> DEFINE u == w.key
<1>1. /\ w.to = "recording" => CanCreate(w.key)
      /\ ApplyWrite(w) /\ acked' = acked \cup {u} /\ uploads' = UpdateStatus(uploads, u, "done")
      /\ task' = [task EXCEPT ![u] = "over"] /\ writes' = writes \ {w}
      /\ UNCHANGED <<shown, opts, aborted, transfer, abandons, faults, lost>>
  BY DEF SaveAnswered, CompleteUpload
<1>2. u \in Uploads /\ task[u] # "none" /\ UploadTypeOK /\ "done" \in Status
  BY Zenon, WriteTask DEF UploadInv, TypeOK, Status
<1>3. /\ blocks' \in [Lessons -> VideoRow] /\ \A l \in Lessons : Plain(blocks'[l].key)
      /\ objects' \subseteq objects
      /\ recordings \subseteq recordings' /\ recordings' \subseteq Uploads
      /\ opts[u].rec => u \in recordings'
      /\ StoreStep
  BY <1>1, ApplyFacts
<1> HIDE DEF u
<1>4. /\ uploads' \in [Uploads -> ActiveUpload]
      /\ \A v \in Uploads : v # u => uploads'[v] = uploads[v]
      /\ uploads'[u].block = uploads[u].block /\ uploads'[u].status \in {"none", "done"}
  <2>1. uploads \in [Uploads -> ActiveUpload]
    BY Zenon, <1>2 DEF UploadTypeOK
  <2>2. uploads' = UpdateStatus(uploads, u, "done")
    BY Zenon, <1>1
  <2> DEFINE new == UpdateStatus(uploads, u, "done")
  <2>3. new \in [Uploads -> ActiveUpload] /\ \A v \in Uploads : v # u => new[v] = uploads[v]
    BY Zenon, <1>2, <2>1, UpdateFacts
  <2>4. new[u].block = uploads[u].block /\ new[u].status \in {"none", "done"}
    BY Zenon, <1>2, <2>1, UpdateFacts
  <2> HIDE DEF new
  <2> QED
    BY Zenon, <2>2, <2>3, <2>4 DEF new
<1>5. /\ task' \in [Uploads -> {"none", "presign", "send", "complete", "save", "over"}]
      /\ task'[u] = "over" /\ \A v \in Uploads : v # u => task'[v] = task[v]
  BY <1>1, <1>2 DEF UploadTypeOK
<1>6. Local(u)
  <2>1. opts[u].rec => uploads'[u].block = None
    BY <1>2, <1>4 DEF UploadInv, RecApart
  <2> QED
    BY Zenon, <1>1, <1>2, <1>3, <1>4, <1>5, <2>1 DEF Local
<1>7. UploadTypeOK'
  BY <1>1, <1>2, <1>3, <1>4, <1>5 DEF UploadTypeOK
<1>8. RecordingAccounted'
  BY <1>1, <1>2, <1>3, <1>5, AccountedStays
<1>9. PartsCovered' /\ WholeFile'
  BY <1>1, <1>5, TransferStays
<1>10. writes' \subseteq writes /\ \A x \in writes' : task'[x.key] = task[x.key]
  BY <1>1, <1>5, OtherWrites DEF u
<1> QED
  BY <1>2, <1>3, <1>6, <1>7, <1>8, <1>9, <1>10, AnswerStep

\* The row write failed, or its answer was lost: the object is abandoned.
LEMMA SaveFailedStep ==
    ASSUME UploadInv, NEW w \in writes, SaveFailed(w), UNCHANGED pageVars
    PROVE  UploadInv' /\ StoreStep
<1> DEFINE u == w.key
<1>1. /\ WriteFailed(w) /\ writes' = writes \ {w}
      /\ UNCHANGED <<shown, opts, aborted, transfer, lost, acked>>
      /\ faults' = faults \/ Fault
      /\ \/ UNCHANGED <<blocks, objects, recordings>>
         \/ (w.to = "recording" => CanCreate(w.key)) /\ ApplyWrite(w)
  BY DEF SaveFailed
<1>2. /\ u \in Uploads /\ task[u] # "none" /\ UploadTypeOK /\ "error" \in Status
      /\ w.by \in {"start", "attach"} /\ FALSE \in BOOLEAN /\ TRUE \in BOOLEAN
  BY WriteTask DEF UploadInv, TypeOK, Status
<1>3. /\ blocks' \in [Lessons -> VideoRow] /\ \A l \in Lessons : Plain(blocks'[l].key)
      /\ objects' \subseteq objects
      /\ recordings \subseteq recordings' /\ recordings' \subseteq Uploads
      /\ StoreStep
  <2>1. CASE UNCHANGED <<blocks, objects, recordings>>
    BY <1>1, <1>2, <2>1, SameFiles DEF UploadTypeOK, UploadInv, KeysPlain
  <2>2. CASE (w.to = "recording" => CanCreate(w.key)) /\ ApplyWrite(w)
    BY <1>1, <2>2, ApplyFacts
  <2> QED
    BY Zenon, <1>1, <2>1, <2>2
<1>4. faults' \in 0 .. MaxFaults
  BY <1>1, <1>2, FaultType DEF UploadTypeOK
<1>5. /\ uploads' \in [Uploads -> ActiveUpload] /\ Local(u)
      /\ task' \in [Uploads -> {"none", "presign", "send", "complete", "save", "over"}]
      /\ task'[u] = "over" /\ \A v \in Uploads : v # u => task'[v] = task[v]
      /\ abandons \subseteq abandons' /\ abandons' \subseteq Uploads /\ u \in abandons'
  <2>1. CASE w.by = "start"
    <3>1. Catch(u, TRUE)
      BY Zenon, <1>1, <2>1 DEF WriteFailed
    <3> QED
      BY Zenon, <1>1, <1>2, <1>3, <3>1, CatchFacts
  <2>2. CASE w.by = "attach"
    <3>1. /\ uploads' = UpdateStatus(uploads, u, "error") /\ abandons' = abandons \cup {u} /\ task' = task
          /\ task[u] = "over"
      BY Zenon, <1>1, <2>2 DEF WriteFailed, UploadInv, WritesFit
    <3> HIDE DEF u
    <3>2. /\ uploads' \in [Uploads -> ActiveUpload]
          /\ \A v \in Uploads : v # u => uploads'[v] = uploads[v]
          /\ uploads'[u].block = uploads[u].block /\ uploads'[u].status \in {"none", "error"}
      BY <1>2, <3>1, UpdateFacts DEF UploadTypeOK
    <3>3. opts[u].rec => uploads'[u].block = None
      BY <1>2, <3>2 DEF UploadInv, RecApart
    <3>4. Local(u)
      BY Zenon, <1>1, <1>2, <1>3, <3>1, <3>2, <3>3 DEF Local
    <3> QED
      BY Zenon, <1>2, <3>1, <3>2, <3>4 DEF UploadTypeOK
  <2> QED
    BY <1>2, <2>1, <2>2
<1> HIDE DEF u
<1>6. UploadTypeOK'
  <2>1. writes' \subseteq Write
    BY Zenon, <1>1, <1>2 DEF UploadTypeOK
  <2> QED
    BY <1>1, <1>2, <1>3, <1>4, <1>5, <2>1 DEF UploadTypeOK
<1>7. RecordingAccounted'
  BY Zenon, <1>1, <1>2, <1>3, <1>5, AccountedStays
<1>8. PartsCovered' /\ WholeFile'
  BY Zenon, <1>1, <1>5, TransferStays
<1>9. writes' \subseteq writes /\ \A x \in writes' : task'[x.key] = task[x.key]
  BY Zenon, <1>1, <1>5, OtherWrites DEF u
<1> QED
  BY Zenon, <1>2, <1>3, <1>5, <1>6, <1>7, <1>8, <1>9, AnswerStep

\* The server drops or keeps an object, and nothing else moves.
LEMMA BucketStep ==
    ASSUME UploadInv, UploadTypeOK', RecordingAccounted', objects' \subseteq objects,
           UNCHANGED <<uploads, shown, opts, task, transfer, writes, acked, blocks, pageVars>>
    PROVE  UploadInv'
<1>1. TypeOK'
  BY DEF UploadInv, TypeOK, pageVars
<1>2. Unstarted' /\ RecApart' /\ WaitIsOver' /\ DoneWasSaved'
  <2>1. Unstarted'
    BY Zenon DEF UploadInv, Unstarted
  <2>2. RecApart' /\ WaitIsOver' /\ DoneWasSaved'
    BY Zenon DEF UploadInv, RecApart, WaitIsOver, DoneWasSaved
  <2> QED
    BY Zenon, <2>1, <2>2
<1>3. KeysPlain'
  <2>1. Stays
    BY Zenon DEF Stays
  <2>2. \A l \in Lessons : Plain(blocks'[l].key)
    BY Zenon DEF UploadInv, KeysPlain
  <2> QED
    BY Zenon, <2>1, <2>2, KeysStay
<1>4. WritesFit' /\ OneWriter'
  <2>1. modal' = modal /\ create' = create
    BY DEF pageVars
  <2> QED
    BY <2>1 DEF UploadInv, WritesFit, OneWriter
<1>5. PartsCovered' /\ WholeFile'
  BY TransferStays
<1> QED
  BY <1>1, <1>2, <1>3, <1>4, <1>5 DEF UploadInv

LEMMA AbandonSteps ==
    ASSUME UploadInv, NEW k \in Uploads, Abandon(k) \/ AbandonFailed(k), UNCHANGED pageVars
    PROVE  UploadInv' /\ StoreStep
<1>1. UploadTypeOK
  BY DEF UploadInv, TypeOK
<1>2. CASE Abandon(k)
  <2>1. /\ abandons' = abandons \ {k}
        /\ objects' = IF Referenced(k) THEN objects ELSE objects \ {k}
        /\ UNCHANGED <<uploads, shown, opts, aborted, task, transfer, writes, blocks,
                       recordings, faults, lost, acked>>
    BY <1>2 DEF Abandon
  <2>2. UploadTypeOK'
    BY <1>1, <2>1 DEF UploadTypeOK
  <2>3. CASE Referenced(k)
    <3>1. opts[k].rec => k \in recordings
      <4>1. ASSUME NEW l \in Lessons, blocks[l].key = k
            PROVE  ~opts[k].rec
        BY Zenon, <4>1, UploadsAssumption DEF UploadInv, KeysPlain, Plain
      <4> QED
        BY Zenon, <2>3, <4>1 DEF Referenced
    <3>2. RecordingAccounted'
      BY Zenon, <2>1, <2>3, <3>1 DEF UploadInv, RecordingAccounted
    <3> QED
      BY Zenon, <2>1, <2>2, <2>3, <3>2, BucketStep, SameFiles
  <2>4. CASE ~Referenced(k)
    <3>1. objects' = objects \ {k} /\ k \notin recordings
      BY <2>1, <2>4 DEF Referenced
    <3>2. RecordingAccounted'
      BY <2>1, <3>1 DEF UploadInv, RecordingAccounted
    <3>3. Files' = Files \ {k}
      BY <2>1, <3>1 DEF Files
    <3>4. StoreStep
      BY <2>1, <3>1, <3>3 DEF StoreStep
    <3> QED
      BY <2>1, <2>2, <3>1, <3>2, <3>4, BucketStep
  <2> QED
    BY <2>3, <2>4
<1>3. CASE AbandonFailed(k)
  <2>1. /\ Fault /\ lost' = lost \cup {k} /\ abandons' = abandons \ {k}
        /\ UNCHANGED <<uploads, shown, opts, aborted, task, transfer, writes, objects,
                       blocks, recordings, acked>>
    BY <1>3 DEF AbandonFailed
  <2>2. faults' \in 0 .. MaxFaults
    BY <2>1, FaultType
  <2>3. UploadTypeOK'
    BY <1>1, <2>1, <2>2 DEF UploadTypeOK
  <2>4. RecordingAccounted'
    BY Zenon, <2>1 DEF UploadInv, RecordingAccounted
  <2> QED
    BY <2>1, <2>3, <2>4, BucketStep, SameFiles
<1> QED
  BY <1>2, <1>3

LEMMA DeleteStep ==
    ASSUME UploadInv, NEW k \in Uploads, DeleteRecording(k), UNCHANGED pageVars
    PROVE  UploadInv' /\ StoreStep
<1>1. /\ k \in recordings /\ recordings' = recordings \ {k} /\ objects' = objects \ {k}
      /\ UNCHANGED <<uploads, shown, opts, aborted, task, transfer, writes, abandons,
                     blocks, faults, lost, acked>>
  BY DEF DeleteRecording
<1>2. UploadTypeOK'
  BY Zenon, <1>1 DEF UploadInv, TypeOK, UploadTypeOK
<1>3. RecordingAccounted'
  BY <1>1 DEF UploadInv, RecordingAccounted
<1>4. Files' = Files \ {k}
  BY <1>1 DEF Files
<1>5. StoreStep
  BY Zenon, <1>1, <1>4 DEF StoreStep
<1> QED
  BY <1>1, <1>2, <1>3, <1>5, BucketStep

\* cancelUpload of a started upload.
LEMMA CancelFacts ==
    ASSUME UploadInv, NEW u \in Uploads, task[u] # "none", CancelUpload(u),
           UNCHANGED <<shown, opts, writes, blocks, recordings, acked>>
    PROVE  /\ UploadTypeOK' /\ Local(u) /\ PartsCovered' /\ WholeFile' /\ RecordingAccounted' /\ StoreStep
           /\ \A w \in writes' : task'[w.key] = task[w.key]
<1>1. UploadTypeOK
  BY DEF UploadInv, TypeOK
<1>2. /\ uploads' = RemoveUpload(uploads, u)
      /\ aborted' \subseteq aborted \cup {u} /\ abandons \subseteq abandons' /\ abandons' \subseteq abandons \cup {u}
      /\ task[u] = "send" => /\ task' = [task EXCEPT ![u] = "over"]
                             /\ transfer' = [transfer EXCEPT ![u].busy = {}]
      /\ task[u] # "send" => task' = task /\ transfer' = transfer
      /\ \/ UNCHANGED <<objects, faults, lost>>
         \/ task[u] = "send" /\ Fault /\ objects' = objects \cup {u} /\ lost' = lost \cup {u}
  BY DEF CancelUpload
<1>3. /\ uploads' \in [Uploads -> ActiveUpload] /\ uploads'[u] = Absent
      /\ \A v \in Uploads : v # u => uploads'[v] = uploads[v]
  <2>1. uploads' = RemoveUpload(uploads, u) /\ uploads \in [Uploads -> ActiveUpload]
    BY <1>1, <1>2 DEF UploadTypeOK
  <2> QED
    BY <2>1, RemoveFacts
<1>4. /\ task' \in [Uploads -> {"none", "presign", "send", "complete", "save", "over"}]
      /\ \A v \in Uploads : v # u => task'[v] = task[v]
      /\ task[u] = "send" => task'[u] = "over"
      /\ task[u] # "send" => task'[u] = task[u]
  BY <1>1, <1>2 DEF UploadTypeOK
<1>5. faults' \in 0 .. MaxFaults
  BY <1>1, <1>2, FaultType DEF UploadTypeOK
<1>6. transfer' \in [Uploads -> Transfer] /\ PartsCovered' /\ WholeFile'
  <2>1. transfer' = transfer \/ (transfer' = [transfer EXCEPT ![u].busy = {}] /\ task'[u] = "over")
    BY <1>2, <1>4
  <2>2. \A v \in Uploads : task'[v] \in {task[v], "save", "over"}
    BY <1>4
  <2> QED
    BY <2>1, <2>2, TransferStops
<1>7. UploadTypeOK'
  BY <1>1, <1>2, <1>3, <1>4, <1>5, <1>6 DEF UploadTypeOK
<1>8. Local(u)
  <2>1. shown[u].status = "waiting" => task'[u] = "over"
    BY <1>4 DEF UploadInv, WaitIsOver
  <2>2. task'[u] # "none"
    BY <1>4
  <2>3. uploads'[u].status = "none" /\ uploads'[u].block = None
    BY <1>3, AbsentType
  <2> QED
    BY Zenon, <1>2, <1>3, <1>4, <2>1, <2>2, <2>3 DEF Local
<1>9. RecordingAccounted'
  <2>1. u \in objects' /\ opts[u].rec =>
            u \in recordings' \/ task'[u] = "save" \/ u \in abandons' \/ u \in lost'
    BY <1>2, <1>4 DEF UploadInv, RecordingAccounted
  <2>2. objects' \subseteq objects \cup {u} /\ lost \subseteq lost' /\ recordings \subseteq recordings'
    BY <1>2
  <2> QED
    BY <1>2, <1>4, <2>1, <2>2, AccountedStays
<1>10. StoreStep
  BY <1>2, SameFiles, AddFile
<1>11. \A w \in writes' : task'[w.key] = task[w.key]
  BY <1>4, WriteTask
<1> QED
  BY <1>6, <1>7, <1>8, <1>9, <1>10, <1>11

\* What the list or the last render shows has been started.
LEMMA ListedStarted ==
    ASSUME UploadInv, NEW u \in Uploads, uploads[u].status # "none" \/ shown[u].status # "none"
    PROVE  task[u] # "none"
BY Zenon, AbsentType DEF UploadInv, Unstarted

\* The indicator: cancelling, dismissing, and the timer that forgets a done upload.
LEMMA IndicatorSteps ==
    ASSUME UploadInv, NEW u \in Uploads, IndicatorCancel(u) \/ Forget(u), UNCHANGED pageVars
    PROVE  UploadInv' /\ StoreStep
<1>1. task[u] # "none"
  BY ListedStarted DEF IndicatorCancel, Forget, CanCancel, CanDismiss, ActiveStatus
<1>2. \A l \in Lessons : Plain(blocks[l].key)
  BY DEF UploadInv, KeysPlain
<1>3. CASE IndicatorCancel(u)
  <2>1. CancelUpload(u) /\ UNCHANGED <<shown, opts, writes, blocks, recordings, acked>>
    BY <1>3 DEF IndicatorCancel
  <2>2. /\ UploadTypeOK' /\ Local(u) /\ PartsCovered' /\ WholeFile' /\ RecordingAccounted' /\ StoreStep
        /\ \A w \in writes' : task'[w.key] = task[w.key]
    BY Zenon, <1>1, <2>1, CancelFacts
  <2> QED
    BY <1>2, <2>1, <2>2, AnswerStep
<1>4. CASE Forget(u)
  <2>1. /\ uploads' = RemoveUpload(uploads, u)
        /\ UNCHANGED <<shown, opts, aborted, task, transfer, writes, abandons, objects,
                       blocks, recordings, faults, lost, acked>>
    BY <1>4 DEF Forget
  <2>2. UploadTypeOK
    BY DEF UploadInv, TypeOK
  <2>3. /\ uploads' \in [Uploads -> ActiveUpload] /\ uploads'[u] = Absent
        /\ \A v \in Uploads : v # u => uploads'[v] = uploads[v]
    BY Zenon, <2>1, <2>2, RemoveFacts DEF UploadTypeOK
  <2>4. Local(u)
    <3>1. shown[u].status = "waiting" => task[u] = "over"
      BY DEF UploadInv, WaitIsOver
    <3> QED
      BY <1>1, <2>1, <2>3, <3>1, AbsentType DEF Local
  <2>5. UploadTypeOK'
    BY <2>1, <2>2, <2>3 DEF UploadTypeOK
  <2>6. RecordingAccounted'
    BY Zenon, <2>1 DEF UploadInv, RecordingAccounted
  <2>7. PartsCovered' /\ WholeFile'
    BY <2>1, TransferStays
  <2> QED
    BY Zenon, <1>2, <2>1, <2>4, <2>5, <2>6, <2>7, AnswerStep, SameFiles
<1> QED
  BY <1>3, <1>4

\* Every step of the network, the server and the timers.
LEMMA UploadStepStep ==
    ASSUME UploadInv, UploadStep, UNCHANGED pageVars
    PROVE  UploadInv' /\ StoreStep
<1>1. ASSUME NEW u \in Uploads,
             \/ PresignAnswered(u) \/ PresignFailed(u) \/ PutDone(u) \/ PutFailed(u)
             \/ CompleteAnswered(u) \/ CompleteFailed(u)
             \/ Abandon(u) \/ AbandonFailed(u) \/ Forget(u)
      PROVE  UploadInv' /\ StoreStep
  <2>1. CASE PutDone(u) \/ CompleteAnswered(u)
    <3>1. /\ task[u] \in {"send", "complete"} /\ Stored(u)
          /\ UNCHANGED <<shown, opts, aborted, transfer, abandons, blocks, recordings, faults, lost, acked>>
      BY <2>1 DEF PutDone, CompleteAnswered
    <3> QED
      BY <3>1, StoredStep
  <2> QED
    BY <1>1, <2>1, PresignStep, FailedSteps, AbandonSteps, IndicatorSteps
<1>2. ASSUME NEW u \in Uploads, NEW p \in 1 .. Parts, NEW n \in 1 .. MaxAttempts,
             PartStored(u, p, n) \/ PartFailed(u, p, n)
      PROVE  UploadInv' /\ StoreStep
  BY <1>2, PartStoredStep, PartFailedStep
<1>3. ASSUME NEW w \in writes, SaveAnswered(w) \/ SaveFailed(w)
      PROVE  UploadInv' /\ StoreStep
  BY <1>3, SaveAnsweredStep, SaveFailedStep
<1> QED
  BY <1>1, <1>2, <1>3 DEF UploadStep
=============================================================================
