-------------------------- MODULE RecordingLibrary --------------------------
(***************************************************************************)
(* The recordings section of a cohort                                      *)
(* (web/src/components/admin/RecordingUploadManager.tsx): the queue of     *)
(* files waiting for a title, the uploads it starts, and the list of the   *)
(* recordings with its editor, its preview and its delete button.  The     *)
(* upload itself is VideoUploads; here it ends well or not.                *)
(*                                                                         *)
(* A file keeps its number when it becomes a recording; recording 1 was    *)
(* there before.  The section is mounted with the recordings dialog.       *)
(***************************************************************************)
EXTENDS Integers, FiniteSets

CONSTANTS MaxFiles,       \* bound on the files chosen
          MaxLibraryActs  \* bound on what the staff do and on what fails
ASSUME LibraryAssumption == MaxFiles \in Nat /\ MaxLibraryActs \in Nat

VARIABLES section,        \* which mounting of the section is on screen, 0 for none
          queue,          \* uploadDrafts: the files waiting, with a title or not
          flagged,        \* drafts that show "Title is required"
          formOpen, libraryError,
          listed, listLoading, listSeen,   \* recordings; loading; what this mounting has shown
          editId, savingEdit, previewId, toDelete,
          uploading,      \* uploads under way: [file, by]
          launches,       \* how often a file was handed to startVideoUpload
          libraryCalls, stored, files, mountings, libraryActs
libraryForm == <<queue, flagged, formOpen>>
libraryList == <<listed, listLoading, listSeen>>
libraryEdit == <<editId, savingEdit, previewId, toDelete>>
libraryVars == <<section, libraryForm, libraryError, libraryList, libraryEdit, uploading, launches, libraryCalls, stored, files, mountings, libraryActs>>

Files == 2 .. MaxFiles + 1
LibraryInit ==
    /\ section = 0 /\ queue = {} /\ flagged = {} /\ formOpen = FALSE /\ libraryError = FALSE
    /\ listed = {} /\ listLoading = TRUE /\ listSeen = {} /\ editId = 0 /\ savingEdit = FALSE /\ previewId = 0 /\ toDelete = 0
    /\ uploading = {} /\ launches = [f \in Files |-> 0]
    /\ libraryCalls = {} /\ stored = {1} /\ files = 1 /\ mountings = 0 /\ libraryActs = 0

LibrarySpend == libraryActs < MaxLibraryActs /\ libraryActs' = libraryActs + 1
FreeNumber == CHOOSE n \in 1 .. Cardinality(libraryCalls) + 1 : \A c \in libraryCalls : c.n # n
LibraryCall(op, on, by) == [n |-> FreeNumber, op |-> op, on |-> on, by |-> by, step |-> "sent", got |-> {}]
\* fetchRecordings of one mounting of the section.
Fetch(by) == LibraryCall("list", 0, by)

(***************************************************************************)
(* Opening and closing the dialog.  A mounting starts from nothing, and    *)
(* the answers to the calls of an earlier one change nothing it shows.     *)
(***************************************************************************)
OpenSection ==
    /\ section = 0 /\ LibrarySpend
    /\ mountings' = mountings + 1 /\ section' = mountings'
    /\ queue' = {} /\ flagged' = {} /\ formOpen' = FALSE /\ libraryError' = FALSE
    /\ listed' = {} /\ listLoading' = TRUE /\ listSeen' = {} /\ editId' = 0 /\ savingEdit' = FALSE /\ previewId' = 0 /\ toDelete' = 0
    /\ libraryCalls' = libraryCalls \cup {Fetch(section')}
    /\ UNCHANGED <<uploading, launches, stored, files>>
CloseSection ==
    /\ section # 0 /\ toDelete = 0 /\ LibrarySpend /\ section' = 0
    /\ UNCHANGED <<libraryForm, libraryError, libraryList, libraryEdit, uploading, launches, libraryCalls, stored, files, mountings>>
\* The question before a delete covers the section.
OnScreen == section # 0 /\ ~listLoading /\ toDelete = 0

(***************************************************************************)
(* The queue of files.  A file's name gives it a title; the staff may      *)
(* clear it.                                                               *)
(***************************************************************************)
AppendFiles ==
    /\ OnScreen /\ files <= MaxFiles /\ LibrarySpend
    /\ files' = files + 1 /\ queue' = queue \cup {[file |-> files', titled |-> TRUE]}
    /\ formOpen' = TRUE /\ libraryError' = FALSE
    /\ UNCHANGED <<section, flagged, libraryList, libraryEdit, uploading, launches, libraryCalls, stored, mountings>>
\* Files that are no video, or too large, are named in the error and left out.
RefuseFiles ==
    /\ OnScreen /\ LibrarySpend /\ libraryError' = TRUE
    /\ UNCHANGED <<section, libraryForm, libraryList, libraryEdit, uploading, launches, libraryCalls, stored, files, mountings>>
QueueShown == OnScreen /\ formOpen
UpdateDraft(d) ==
    /\ QueueShown /\ LibrarySpend
    /\ queue' = (queue \ {d}) \cup {[d EXCEPT !.titled = ~@]} /\ flagged' = flagged \ {d.file}
    /\ UNCHANGED <<section, formOpen, libraryError, libraryList, libraryEdit, uploading, launches, libraryCalls, stored, files, mountings>>
RemoveDraft(d) ==
    /\ QueueShown /\ LibrarySpend /\ queue' = queue \ {d}
    /\ UNCHANGED <<section, flagged, formOpen, libraryError, libraryList, libraryEdit, uploading, launches, libraryCalls, stored, files, mountings>>
ClearDrafts ==
    /\ QueueShown /\ LibrarySpend /\ queue' = {} /\ formOpen' = FALSE /\ libraryError' = FALSE
    /\ UNCHANGED <<section, flagged, libraryList, libraryEdit, uploading, launches, libraryCalls, stored, files, mountings>>
Launch(ds) ==
    /\ uploading' = uploading \cup {[file |-> d.file, by |-> section] : d \in ds}
    /\ launches' = [f \in Files |-> IF \E d \in ds : d.file = f THEN launches[f] + 1 ELSE launches[f]]
    /\ queue' = queue \ ds
StartDraft(d) ==
    /\ QueueShown /\ LibrarySpend
    /\ IF d.titled THEN Launch({d}) /\ libraryError' = FALSE /\ UNCHANGED flagged
       ELSE flagged' = flagged \cup {d.file} /\ UNCHANGED <<uploading, launches, queue, libraryError>>
    /\ UNCHANGED <<section, formOpen, libraryList, libraryEdit, libraryCalls, stored, files, mountings>>
\* Those with a title start; the others are flagged and stay.
StartAllUploads ==
    /\ QueueShown /\ queue # {} /\ LibrarySpend
    /\ Launch({d \in queue : d.titled})
    /\ flagged' = flagged \cup {d.file : d \in {q \in queue : ~q.titled}}
    /\ libraryError' = (\A d \in queue : ~d.titled)
    /\ UNCHANGED <<section, formOpen, libraryList, libraryEdit, libraryCalls, stored, files, mountings>>

(***************************************************************************)
(* An upload ends.  The mounting that started it, if it is still on        *)
(* screen, asks for the list again.                                        *)
(***************************************************************************)
UploadEnds(u, ok) ==
    /\ uploading' = uploading \ {u}
    /\ stored' = IF ok THEN stored \cup {u.file} ELSE stored
    /\ libraryCalls' = IF ok /\ u.by = section THEN libraryCalls \cup {Fetch(section)} ELSE libraryCalls
    /\ UNCHANGED <<section, libraryForm, libraryError, libraryList, libraryEdit, launches, files, mountings, libraryActs>>
CancelFile(u) ==
    /\ OnScreen /\ LibrarySpend /\ uploading' = uploading \ {u}
    /\ UNCHANGED <<section, libraryForm, libraryError, libraryList, libraryEdit, launches, libraryCalls, stored, files, mountings>>

(***************************************************************************)
(* The list: preview, edit and delete.                                     *)
(***************************************************************************)
Preview(r) ==
    /\ OnScreen /\ r \in listed \cup {0} /\ r # previewId /\ LibrarySpend /\ previewId' = r
    /\ UNCHANGED <<section, libraryForm, libraryError, libraryList, editId, savingEdit, toDelete, uploading, launches, libraryCalls, stored, files, mountings>>
RowButtons(r) == OnScreen /\ r \in listed /\ r # editId
StartEdit(r) ==
    /\ RowButtons(r) /\ LibrarySpend /\ editId' = r
    /\ UNCHANGED <<section, libraryForm, libraryError, libraryList, savingEdit, previewId, toDelete, uploading, launches, libraryCalls, stored, files, mountings>>
CancelRowEdit ==
    /\ OnScreen /\ editId # 0 /\ ~savingEdit /\ LibrarySpend /\ editId' = 0
    /\ UNCHANGED <<section, libraryForm, libraryError, libraryList, savingEdit, previewId, toDelete, uploading, launches, libraryCalls, stored, files, mountings>>
SaveEdit ==
    /\ OnScreen /\ editId # 0 /\ editId \in listed /\ ~savingEdit /\ LibrarySpend
    /\ savingEdit' = TRUE /\ libraryCalls' = libraryCalls \cup {LibraryCall("edit", editId, section)}
    /\ UNCHANGED <<section, libraryForm, libraryError, libraryList, editId, previewId, toDelete, uploading, launches, stored, files, mountings>>
DeleteRow(r) ==
    /\ RowButtons(r) /\ LibrarySpend /\ toDelete' = r
    /\ UNCHANGED <<section, libraryForm, libraryError, libraryList, editId, savingEdit, previewId, uploading, launches, libraryCalls, stored, files, mountings>>
AnswerDelete(yes) ==
    /\ section # 0 /\ toDelete # 0 /\ LibrarySpend /\ toDelete' = 0
    /\ libraryCalls' = IF yes THEN libraryCalls \cup {LibraryCall("delete", toDelete, section)} ELSE libraryCalls
    /\ UNCHANGED <<section, libraryForm, libraryError, libraryList, editId, savingEdit, previewId, uploading, launches, stored, files, mountings>>

(***************************************************************************)
(* The server, and what the section does with its answers.                 *)
(***************************************************************************)
LibraryServed(c) ==
    /\ c.step = "sent"
    /\ stored' = IF c.op = "delete" THEN stored \ {c.on} ELSE stored
    /\ libraryCalls' = (libraryCalls \ {c})
                       \cup {[c EXCEPT !.step = IF c.op # "list" /\ c.on \notin stored THEN "failed" ELSE "done",
                                       !.got = IF c.op = "list" THEN stored ELSE {}]}
    /\ UNCHANGED <<section, libraryForm, libraryError, libraryList, libraryEdit, uploading, launches, files, mountings, libraryActs>>
LibraryFails(c) ==
    /\ c.step \in {"sent", "done"} /\ LibrarySpend
    /\ libraryCalls' = (libraryCalls \ {c}) \cup {[c EXCEPT !.step = "failed", !.got = {}]}
    /\ UNCHANGED <<section, libraryForm, libraryError, libraryList, libraryEdit, uploading, launches, stored, files, mountings>>
ListAnswered(c) ==
    /\ c.op = "list" /\ c.step # "sent" /\ c.by = section /\ libraryCalls' = libraryCalls \ {c}
    /\ listLoading' = FALSE
    /\ IF c.step = "failed" THEN libraryError' = TRUE /\ UNCHANGED <<listed, listSeen>>
       ELSE listed' = c.got /\ listSeen' = listSeen \cup c.got /\ libraryError' = FALSE
    /\ UNCHANGED <<section, libraryForm, libraryEdit, uploading, launches, stored, files, mountings, libraryActs>>
EditAnswered(c) ==
    /\ c.op = "edit" /\ c.step # "sent" /\ c.by = section /\ savingEdit' = FALSE
    /\ IF c.step = "failed" THEN libraryError' = TRUE /\ libraryCalls' = libraryCalls \ {c} /\ UNCHANGED editId
       ELSE editId' = 0 /\ libraryCalls' = (libraryCalls \ {c}) \cup {Fetch(section)} /\ UNCHANGED libraryError
    /\ UNCHANGED <<section, libraryForm, libraryList, previewId, toDelete, uploading, launches, stored, files, mountings, libraryActs>>
DeleteAnswered(c) ==
    /\ c.op = "delete" /\ c.step # "sent" /\ c.by = section
    /\ IF c.step = "failed" THEN libraryError' = TRUE /\ libraryCalls' = libraryCalls \ {c}
       ELSE libraryCalls' = (libraryCalls \ {c}) \cup {Fetch(section)} /\ UNCHANGED libraryError
    /\ UNCHANGED <<section, libraryForm, libraryList, libraryEdit, uploading, launches, stored, files, mountings, libraryActs>>
\* mountedRef: an answer for a mounting that is gone.
LibraryIgnored(c) ==
    /\ c.step # "sent" /\ c.by # section /\ libraryCalls' = libraryCalls \ {c}
    /\ UNCHANGED <<section, libraryForm, libraryError, libraryList, libraryEdit, uploading, launches, stored, files, mountings, libraryActs>>

LibraryStep ==
    \/ \E u \in uploading : \E ok \in BOOLEAN : UploadEnds(u, ok)
    \/ \E c \in libraryCalls : LibraryServed(c) \/ ListAnswered(c) \/ EditAnswered(c) \/ DeleteAnswered(c) \/ LibraryIgnored(c)
LibraryNext ==
    \/ OpenSection \/ CloseSection \/ AppendFiles \/ RefuseFiles \/ ClearDrafts \/ StartAllUploads \/ CancelRowEdit \/ SaveEdit
    \/ \E d \in queue : UpdateDraft(d) \/ RemoveDraft(d) \/ StartDraft(d)
    \/ \E u \in uploading : CancelFile(u)
    \/ \E r \in listed \cup {0} : Preview(r) \/ StartEdit(r) \/ DeleteRow(r)
    \/ \E yes \in BOOLEAN : AnswerDelete(yes)
    \/ \E c \in libraryCalls : LibraryFails(c)
    \/ LibraryStep
\* Uploads end (UploadSettles of VideoPages) and requests have a time limit.
LibraryFairness == WF_libraryVars(LibraryStep)
LibrarySpec == LibraryInit /\ [][LibraryNext]_libraryVars /\ LibraryFairness

\* A file of the queue is handed to the uploader at most once, however "Start
\* upload", "Start all uploads" and new titles follow one another.
UploadedOnce == \A f \in Files : launches[f] <= 1

\* A recording that the open section has asked for, by a list request that is still to be
\* answered or whose answer names it, and has not shown yet.
Awaited(f) ==
    /\ f \in stored \ listSeen /\ section # 0 /\ ~libraryError
    /\ \E c \in libraryCalls : c.by = section /\ c.op = "list" /\ (c.step \in {"sent", "failed"} \/ f \in c.got)

\* A stored recording that the open section has asked for is listed there in the end,
\* unless the section is closed, the recording deleted, or an error shown: the wait ends,
\* and in no other way.
NewRecordingAppears ==
    /\ \A f \in Files : []<>~Awaited(f)
    /\ [][\A f \in Files : Awaited(f) =>
            (Awaited(f) \/ f \in listSeen \/ section = 0 \/ f \notin stored \/ libraryError)']_libraryVars

\* The editor's "Saving…" ends, whatever becomes of the save.
EditEnds == []<>(~savingEdit \/ section = 0)
=============================================================================
