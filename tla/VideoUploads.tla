---------------------------- MODULE VideoUploads ----------------------------
(***************************************************************************)
(* Video uploads of the web client: the upload list every page shares      *)
(* (web/src/contexts/UploadContext.tsx), the transfer of one file          *)
(* (web/src/lib/uploadToS3.ts), and what the endpoints they call do to the *)
(* bucket and to the rows (uploads, recordings and content blocks).        *)
(*                                                                         *)
(* An upload is named by its number, which is also its place in the list   *)
(* and its S3 key.  React applies setUploads when it renders, so the code  *)
(* has two lists: uploads, which updates are queued on, and shown, the     *)
(* list of the last render that uploadsRef.current gives the handlers.     *)
(***************************************************************************)
EXTENDS Naturals, FiniteSets, FiniteSetsExt

CONSTANTS Uploads,      \* upload numbers, 1..n
          Lessons,      \* lessons; each has at most one video block
          Parts,        \* number of parts of a big file
          Concurrency,  \* MULTIPART_CONCURRENCY
          MaxAttempts,  \* MULTIPART_MAX_ATTEMPTS
          MaxFaults,    \* bound: requests and transfers that fail
          None

ASSUME UploadsAssumption ==
    /\ Uploads \subseteq Nat \ {0}
    /\ Parts \in Nat \ {0} /\ Concurrency \in Nat \ {0}
    /\ MaxAttempts \in Nat \ {0} /\ MaxFaults \in Nat
    /\ None \notin Uploads /\ None \notin Lessons /\ None # "recording"
    /\ "recording" \notin Lessons

VARIABLES uploads,     \* [Uploads -> ActiveUpload]; status "none": not in the list
          shown,       \* uploadsRef.current: the list as last rendered
          opts,        \* [Uploads -> UploadStartOpts]
          aborted,     \* uploads whose abortController was aborted
          task,        \* where the async function of startVideoUpload stands
          transfer,    \* uploadMultipartToS3's cursor, parts under way, etags
          writes,      \* row writes under way: [key, by, to]
          abandons,    \* keys of the abandonUpload requests under way
          objects,     \* keys that have an object in the bucket
          blocks,      \* [Lessons -> VideoRow] each lesson's video block
          recordings,  \* keys of the cohort's recording rows
          faults,      \* failures so far
          lost,        \* keys whose object was stored, or kept, unknown to the client
          acked        \* keys a row write was acknowledged for

uploadVars == <<uploads, shown, opts, aborted, task, transfer, writes,
                abandons, objects, blocks, recordings, faults, lost, acked>>

ActiveStatus == {"presigning", "uploading", "saving", "waiting"}
Status == ActiveStatus \cup {"none", "done", "error"}
ActiveUpload == [status : Status, key : BOOLEAN, block : Lessons \cup {None},
                 link : Lessons \cup {None}]
UploadStartOpts == [block : Lessons \cup {None}, defer : BOOLEAN, rec : BOOLEAN,
                    big : BOOLEAN]
Transfer == [next : Nat \ {0}, busy : SUBSET ((1 .. Parts) \X (1 .. MaxAttempts)),
             etags : SUBSET (1 .. Parts)]
VideoRow == [there : BOOLEAN, key : Uploads \cup {None}]
Target == Lessons \cup {"recording"}
Write == [key : Uploads, by : {"start", "attach"}, to : Target]

Absent == [status |-> "none", key |-> FALSE, block |-> None, link |-> None]
NoOpts == [block |-> None, defer |-> FALSE, rec |-> FALSE, big |-> FALSE]

Listed(list, u) == list[u].status # "none"
First(S) == IF S = {} THEN None ELSE Min(S)
Referenced(k) == k \in recordings \/ \E l \in Lessons : blocks[l].key = k

(***************************************************************************)
(* The list: updateUpload and removeUpload touch a listed upload only.     *)
(***************************************************************************)
UpdateStatus(list, u, status) ==
    IF Listed(list, u) THEN [list EXCEPT ![u].status = status] ELSE list
RemoveUpload(list, u) == [list EXCEPT ![u] = Absent]
CompleteUpload(list, u) == UpdateStatus(list, u, "done")

UploadInit ==
    /\ uploads = [u \in Uploads |-> Absent] /\ shown = uploads
    /\ opts = [u \in Uploads |-> NoOpts]
    /\ aborted = {} /\ writes = {} /\ abandons = {}
    /\ task = [u \in Uploads |-> "none"]
    /\ transfer = [u \in Uploads |-> [next |-> 1, busy |-> {}, etags |-> {}]]
    /\ objects = {} /\ recordings = {}
    /\ blocks \in [Lessons -> [there : BOOLEAN, key : {None}]]
    /\ faults = 0 /\ lost = {} /\ acked = {}

(***************************************************************************)
(* startVideoUpload up to its first await: the row joins the list and the  *)
(* presign request is sent, or for a file at or above                      *)
(* MULTIPART_UPLOAD_THRESHOLD (big) the multipart initiate request.        *)
(***************************************************************************)
StartVideoUpload(u, o, link) ==
    /\ task[u] = "none"
    /\ \A v \in Uploads : v < u => task[v] # "none"
    /\ uploads' = [uploads EXCEPT ![u] = [status |-> "presigning", key |-> FALSE,
                                          block |-> o.block, link |-> link]]
    /\ \E big \in BOOLEAN : opts' = [opts EXCEPT ![u] = [o EXCEPT !.big = big]]
    /\ task' = [task EXCEPT ![u] = "presign"]
    /\ UNCHANGED <<aborted, transfer, writes, abandons, objects, blocks,
                   recordings, faults, lost, acked>>

(***************************************************************************)
(* The catch of startVideoUpload: the row leaves the list when it was      *)
(* cancelled and shows the error otherwise; an object that is known to be  *)
(* stored is abandoned.                                                    *)
(***************************************************************************)
CatchLeavingFile(u, stored) ==
    /\ uploads' = IF u \in aborted THEN RemoveUpload(uploads, u)
                  ELSE UpdateStatus(uploads, u, "error")
    /\ abandons' = abandons
    /\ task' = [task EXCEPT ![u] = "over"]
CatchInSilence(u, stored) ==
    /\ uploads' = IF u \in aborted THEN RemoveUpload(uploads, u) ELSE uploads
    /\ abandons' = IF stored THEN abandons \cup {u} ELSE abandons
    /\ task' = [task EXCEPT ![u] = "over"]
Catch(u, stored) ==
    /\ uploads' = IF u \in aborted THEN RemoveUpload(uploads, u)
                  ELSE UpdateStatus(uploads, u, "error")
    /\ abandons' = IF stored THEN abandons \cup {u} ELSE abandons
    /\ task' = [task EXCEPT ![u] = "over"]

Fault == faults < MaxFaults /\ faults' = faults + 1

\* The parts the concurrent workers of uploadMultipartToS3 take first.
Workers == IF Concurrency < Parts THEN Concurrency ELSE Parts
FirstParts == 1 .. Workers

\* The presign or initiate request answered with a key.  The single presign
\* ignores the abort signal; initiate is aborted with it.
PresignAnswered(u) ==
    /\ task[u] = "presign"
    /\ ~(u \in aborted /\ opts[u].big)
    /\ task' = [task EXCEPT ![u] = "send"]
    /\ uploads' = IF Listed(uploads, u)
                  THEN [uploads EXCEPT ![u].status = "uploading", ![u].key = TRUE]
                  ELSE uploads
    /\ transfer' = IF opts[u].big
                   THEN [transfer EXCEPT ![u].busy = FirstParts \X {1},
                                         ![u].next = Workers + 1]
                   ELSE transfer
    /\ UNCHANGED <<shown, opts, aborted, writes, abandons, objects, blocks,
                   recordings, faults, lost, acked>>

\* The request failed, or the abort reached initiate.
PresignFailed(u) ==
    /\ task[u] = "presign"
    /\ IF u \in aborted /\ opts[u].big THEN faults' = faults ELSE Fault
    /\ Catch(u, FALSE)
    /\ UNCHANGED <<shown, opts, aborted, transfer, writes, objects, blocks,
                   recordings, lost, acked>>

(***************************************************************************)
(* persistUploadTarget: the target is read from the rendered list, then    *)
(* from the options.  A deferred block, or no target, is not written.      *)
(***************************************************************************)
PersistTarget(u, fallback) ==
    LET b == IF shown[u].block # None THEN shown[u].block ELSE fallback
    IN  IF b # None THEN IF opts[u].defer THEN None ELSE b
        ELSE IF opts[u].rec THEN "recording" ELSE None

\* The object is in the bucket: startVideoUpload writes its row, or leaves it
\* waiting for a page to attach it.
Stored(u) ==
    LET to == PersistTarget(u, opts[u].block)
    IN  /\ objects' = objects \cup {u}
        /\ IF to = None
           THEN /\ uploads' = UpdateStatus(uploads, u, "waiting")
                /\ task' = [task EXCEPT ![u] = "over"]
                /\ writes' = writes
           ELSE /\ uploads' = UpdateStatus(uploads, u, "saving")
                /\ task' = [task EXCEPT ![u] = "save"]
                /\ writes' = writes \cup {[key |-> u, by |-> "start", to |-> to]}

\* A single PUT succeeds.  uploadToS3 listens for a later abort only, so an
\* upload cancelled while it was presigning is sent all the same.
PutDone(u) ==
    /\ task[u] = "send" /\ ~opts[u].big
    /\ Stored(u)
    /\ UNCHANGED <<shown, opts, aborted, transfer, abandons, blocks, recordings,
                   faults, lost, acked>>

\* A single PUT fails; S3 may have kept the object all the same.
PutFailed(u) ==
    /\ task[u] = "send" /\ ~opts[u].big
    /\ Fault
    /\ \E kept \in BOOLEAN :
          /\ objects' = IF kept THEN objects \cup {u} ELSE objects
          /\ lost' = IF kept THEN lost \cup {u} ELSE lost
    /\ Catch(u, FALSE)
    /\ UNCHANGED <<shown, opts, aborted, transfer, writes, blocks, recordings, acked>>

(***************************************************************************)
(* uploadMultipartToS3: a worker whose part is stored takes the part at    *)
(* the shared cursor, a failed part is tried again up to MaxAttempts       *)
(* times, and when no part is left complete names the parts that have an   *)
(* etag.                                                                   *)
(***************************************************************************)
PartStored(u, p, n) ==
    LET t == transfer[u]
        taken == IF t.next <= Parts THEN {<<t.next, 1>>} ELSE {}
        after == [next |-> IF taken = {} THEN t.next ELSE t.next + 1,
                  busy |-> (t.busy \ {<<p, n>>}) \cup taken,
                  etags |-> t.etags \cup {p}]
    IN  /\ task[u] = "send" /\ u \notin aborted /\ <<p, n>> \in t.busy
        /\ transfer' = [transfer EXCEPT ![u] = after]
        /\ task' = IF after.busy = {} THEN [task EXCEPT ![u] = "complete"] ELSE task
        /\ UNCHANGED <<uploads, shown, opts, aborted, writes, abandons, objects,
                       blocks, recordings, faults, lost, acked>>

\* uploadPartWithRetry: another attempt, or the whole transfer fails and the
\* multipart upload is aborted.
PartFailed(u, p, n) ==
    /\ task[u] = "send" /\ u \notin aborted /\ <<p, n>> \in transfer[u].busy
    /\ Fault
    /\ IF n < MaxAttempts
       THEN /\ transfer' = [transfer EXCEPT ![u].busy = (@ \ {<<p, n>>}) \cup {<<p, n + 1>>}]
            /\ UNCHANGED <<uploads, abandons, task>>
       ELSE /\ transfer' = [transfer EXCEPT ![u].busy = {}]
            /\ Catch(u, FALSE)
    /\ UNCHANGED <<shown, opts, aborted, writes, objects, blocks, recordings, lost, acked>>

\* multipart_complete answered; it is not abortable.
CompleteAnswered(u) ==
    /\ task[u] = "complete"
    /\ Stored(u)
    /\ UNCHANGED <<shown, opts, aborted, transfer, abandons, blocks, recordings,
                   faults, lost, acked>>

\* complete failed: abort is sent, which does nothing once S3 had assembled the
\* object.
CompleteFailed(u) ==
    /\ task[u] = "complete"
    /\ Fault
    /\ \E kept \in BOOLEAN :
          /\ objects' = IF kept THEN objects \cup {u} ELSE objects
          /\ lost' = IF kept THEN lost \cup {u} ELSE lost
    /\ Catch(u, FALSE)
    /\ UNCHANGED <<shown, opts, aborted, transfer, writes, blocks, recordings, acked>>

(***************************************************************************)
(* The server's row writes.  Replacing a block's key deletes the old       *)
(* object after the commit; a recording needs its object to be there.      *)
(***************************************************************************)
WriteBlock(l, k) ==
    /\ blocks' = [blocks EXCEPT ![l] = [there |-> TRUE, key |-> k]]
    /\ objects' = IF blocks[l].key # k THEN objects \ {blocks[l].key} ELSE objects
    /\ recordings' = recordings

CreateRecording(k) ==
    /\ recordings' = recordings \cup {k}
    /\ UNCHANGED <<blocks, objects>>

CanCreate(k) == k \in objects

ApplyWrite(w) == IF w.to = "recording" THEN CreateRecording(w.key)
                 ELSE WriteBlock(w.to, w.key)

\* The client's continuation after its row write failed: startVideoUpload's
\* catch, or attachUpload's, which shows the error whether or not it was
\* cancelled.
WriteFailed(w) ==
    IF w.by = "start" THEN Catch(w.key, TRUE)
    ELSE /\ uploads' = UpdateStatus(uploads, w.key, "error")
         /\ abandons' = abandons \cup {w.key}
         /\ task' = task

SaveAnswered(w) ==
    /\ w \in writes
    /\ w.to = "recording" => CanCreate(w.key)
    /\ ApplyWrite(w)
    /\ acked' = acked \cup {w.key}
    /\ uploads' = CompleteUpload(uploads, w.key)
    /\ task' = [task EXCEPT ![w.key] = "over"]
    /\ writes' = writes \ {w}
    /\ UNCHANGED <<shown, opts, aborted, transfer, abandons, faults, lost>>

\* The server refused the write, or applied it and the answer was lost or late.
SaveFailed(w) ==
    /\ w \in writes
    /\ \/ /\ w.to = "recording" /\ ~CanCreate(w.key)
          /\ UNCHANGED <<blocks, objects, recordings, faults>>
       \/ Fault /\ UNCHANGED <<blocks, objects, recordings>>
       \/ Fault /\ (w.to = "recording" => CanCreate(w.key)) /\ ApplyWrite(w)
    /\ WriteFailed(w)
    /\ writes' = writes \ {w}
    /\ UNCHANGED <<shown, opts, aborted, transfer, lost, acked>>

\* uploads#abandon: refused while a row has the key.
AbandonUnchecked(k) ==
    /\ k \in abandons
    /\ objects' = objects \ {k}
    /\ abandons' = abandons \ {k}
    /\ UNCHANGED <<uploads, shown, opts, aborted, task, transfer, writes, blocks,
                   recordings, faults, lost, acked>>
Abandon(k) ==
    /\ k \in abandons
    /\ objects' = IF Referenced(k) THEN objects ELSE objects \ {k}
    /\ abandons' = abandons \ {k}
    /\ UNCHANGED <<uploads, shown, opts, aborted, task, transfer, writes, blocks,
                   recordings, faults, lost, acked>>

\* abandonUpload is fire and forget: a failed one leaves the object.
AbandonFailed(k) ==
    /\ k \in abandons /\ Fault
    /\ lost' = lost \cup {k}
    /\ abandons' = abandons \ {k}
    /\ UNCHANGED <<uploads, shown, opts, aborted, task, transfer, writes, objects,
                   blocks, recordings, acked>>

(***************************************************************************)
(* What a page or the indicator may do with an upload.                     *)
(***************************************************************************)
\* cancelUpload: abort, abandon a stored and waiting object, leave the list.
\* The running PUT and the running parts stop with the abort; the task is over
\* at once (the catch), except where no await listens to the signal.  S3 may
\* have had the whole file when the PUT was aborted.
CancelUpload(u) ==
    LET stops == task[u] = "send"
    IN  /\ aborted' = IF Listed(shown, u) THEN aborted \cup {u} ELSE aborted
        /\ abandons' = IF shown[u].status = "waiting" /\ shown[u].key
                       THEN abandons \cup {u} ELSE abandons
        /\ uploads' = RemoveUpload(uploads, u)
        /\ task' = IF stops THEN [task EXCEPT ![u] = "over"] ELSE task
        /\ transfer' = IF stops THEN [transfer EXCEPT ![u].busy = {}] ELSE transfer
        /\ \/ UNCHANGED <<objects, faults, lost>>
           \/ /\ stops /\ ~opts[u].big /\ Fault
              /\ objects' = objects \cup {u} /\ lost' = lost \cup {u}

\* attachUpload: the new lesson's video block (None when it has none) becomes
\* the target; a row write starts when the upload was already waiting.
AttachUploadEarly(u, b, link) ==
    LET to == PersistTarget(u, b)
        next == [uploads EXCEPT ![u].block = b, ![u].link = link]
        ready == Listed(shown, u) /\ b # None /\ shown[u].key /\ to # None
    IN  /\ uploads' = IF ~Listed(uploads, u) THEN uploads
                      ELSE IF ready THEN [next EXCEPT ![u].status = "saving"] ELSE next
        /\ writes' = IF ready THEN writes \cup {[key |-> u, by |-> "attach", to |-> to]}
                     ELSE writes
AttachUpload(u, b, link) ==
    LET to == PersistTarget(u, b)
        next == [uploads EXCEPT ![u].block = b, ![u].link = link]
        ready == Listed(shown, u) /\ b # None /\ shown[u].key
                 /\ shown[u].status = "waiting" /\ to # None
    IN  /\ uploads' = IF ~Listed(uploads, u) THEN uploads
                      ELSE IF ready THEN [next EXCEPT ![u].status = "saving"] ELSE next
        /\ writes' = IF ready THEN writes \cup {[key |-> u, by |-> "attach", to |-> to]}
                     ELSE writes

\* What UploadIndicator offers for a listed upload.
CanCancel(u) == shown[u].status \in ActiveStatus
CanDismiss(u) == shown[u].status \in {"done", "error"}

\* The indicator's Cancel.
IndicatorCancel(u) ==
    /\ CanCancel(u)
    /\ CancelUpload(u)
    /\ UNCHANGED <<shown, opts, writes, blocks, recordings, acked>>

\* Dismiss, or completeUpload's five second timer.
Forget(u) ==
    /\ CanDismiss(u) \/ uploads[u].status = "done"
    /\ uploads' = RemoveUpload(uploads, u)
    /\ UNCHANGED <<shown, opts, aborted, task, transfer, writes, abandons, objects,
                   blocks, recordings, faults, lost, acked>>

DeleteRecording(k) ==
    /\ k \in recordings
    /\ recordings' = recordings \ {k}
    /\ objects' = objects \ {k}
    /\ UNCHANGED <<uploads, shown, opts, aborted, task, transfer, writes, abandons,
                   blocks, faults, lost, acked>>

\* The steps of the network, the server and the timers.
UploadStep ==
    \/ \E u \in Uploads :
          \/ PresignAnswered(u) \/ PresignFailed(u) \/ PutDone(u) \/ PutFailed(u)
          \/ CompleteAnswered(u) \/ CompleteFailed(u)
          \/ Abandon(u) \/ AbandonFailed(u) \/ Forget(u)
          \/ \E p \in 1 .. Parts, n \in 1 .. MaxAttempts :
                PartStored(u, p, n) \/ PartFailed(u, p, n)
    \/ \E w \in writes : SaveAnswered(w) \/ SaveFailed(w)

UploadTypeOK ==
    /\ uploads \in [Uploads -> ActiveUpload] /\ shown \in [Uploads -> ActiveUpload]
    /\ opts \in [Uploads -> UploadStartOpts]
    /\ aborted \subseteq Uploads /\ abandons \subseteq Uploads
    /\ task \in [Uploads -> {"none", "presign", "send", "complete", "save", "over"}]
    /\ transfer \in [Uploads -> Transfer]
    /\ writes \subseteq Write
    /\ objects \subseteq Uploads /\ recordings \subseteq Uploads
    /\ blocks \in [Lessons -> VideoRow]
    /\ faults \in 0 .. MaxFaults /\ lost \subseteq Uploads /\ acked \subseteq Uploads
=============================================================================
