-------------------------- MODULE SubmissionDraft --------------------------
(***************************************************************************)
(* The text response of an exercise in the mobile lesson: the response     *)
(* card (lesson-content-block.tsx), its draft on the device                *)
(* (submission-storage.ts) and the submission on the server, which another *)
(* device of the student or a grade may change meanwhile.                  *)
(*                                                                         *)
(* A version is the pair of submission id and updated_at, numbered; 0 is   *)
(* "not submitted yet".  A text is a number, 0 the empty one.  AsyncStorage*)
(* works its calls off in order, and the callback of a call runs with it.  *)
(* The lesson keys the card by the submission's id, so the first           *)
(* submission mounts a new card.  Not modelled: the repository forms, and  *)
(* the form's disappearance once the work has passed.                      *)
(***************************************************************************)
EXTENDS Naturals, Sequences

CONSTANTS Answers,          \* the texts a student may write, without 0
          MaxVersions,    \* bound on the changes of the submission
          MaxCardActs     \* bound on the student's actions

ASSUME CardAssumption ==
    Answers \subseteq Nat \ {0} /\ MaxVersions \in Nat /\ MaxCardActs \in Nat

VARIABLES
    submission,   \* on the server: its version and text
    latest,       \* what the lesson query holds
    card,         \* the card is mounted
    answerText,   \* text
    answerOver,   \* the version the text was begun on (history variable)
    edited,       \* studentEditedRef
    hydrated,     \* draftHydrated
    olderDraft,   \* offered for restoring
    pendingDraft, \* pendingDraftRef
    draftTimer,   \* the 300 ms timer runs
    draftNotice,  \* what the card says about the draft
    deviceDraft,  \* AsyncStorage, under the block's key
    storage,      \* calls to AsyncStorage not yet worked off
    posting,      \* the text of the card's submission mutation, 0 for none
    orphans,      \* mutations whose card is gone, with that card's last draft
    cardActs      \* actions so far

draftVars == <<answerText, answerOver, edited, hydrated, olderDraft,
               pendingDraft, draftTimer, draftNotice>>
cardVars == <<submission, latest, card, draftVars, deviceDraft, storage,
              posting, orphans, cardActs>>

NoDraft == [text |-> 0, base |-> 0, over |-> 0]
NoPending == [draft |-> NoDraft, changed |-> FALSE, set |-> FALSE]

\* A call to AsyncStorage: what it does, for whom its callback runs, and
\* whether that callback still counts.
StorageCall(does, by, draft, current) ==
    [does |-> does, by |-> by, draft |-> draft, current |-> current]

\* loadSubmissionDraft by the effect, which disowns the load before it.
Disowned(pending, who) ==
    [i \in DOMAIN pending |->
        IF pending[i].by \in who THEN [pending[i] EXCEPT !.current = FALSE]
        ELSE pending[i]]
LoadsDraft(pending) ==
    Append(Disowned(pending, {"load"}),
           StorageCall("get", "load", NoDraft, TRUE))

\* saveSubmissionDraft removes the key for a blank text.
Saves(by, draft) ==
    StorageCall(IF draft.text = 0 THEN "remove" ELSE "set", by, draft, TRUE)

\* persistSubmissionDraft.
Persists(by, pending) ==
    IF pending.changed THEN Saves(by, pending.draft)
    ELSE StorageCall("remove", by, NoDraft, TRUE)

CardAct == cardActs < MaxCardActs /\ cardActs' = cardActs + 1

\* The state of a card just mounted on the submission seen.
Mounted(seen) ==
    /\ card' = TRUE
    /\ answerText' = seen.text /\ answerOver' = seen.ver
    /\ edited' = FALSE /\ hydrated' = FALSE /\ olderDraft' = NoDraft
    /\ pendingDraft' = NoPending /\ draftTimer' = FALSE
    /\ draftNotice' = "none"

\* The lesson is opened on work not yet submitted; an earlier visit may have
\* left a draft.
CardInit ==
    /\ submission = [ver |-> 0, text |-> 0] /\ latest = submission
    /\ card = TRUE /\ answerText = 0 /\ answerOver = 0
    /\ edited = FALSE /\ hydrated = FALSE /\ olderDraft = NoDraft
    /\ pendingDraft = NoPending /\ draftTimer = FALSE /\ draftNotice = "none"
    /\ deviceDraft \in {[NoDraft EXCEPT !.text = t] : t \in Answers \cup {0}}
    /\ storage = LoadsDraft(<<>>)
    /\ posting = 0 /\ orphans = {} /\ cardActs = 0

\* The effect that watches the text and the submission: a new pending draft
\* and a new timer.
Pends(text, over, seen) ==
    /\ pendingDraft' = [draft |-> [text |-> text, base |-> seen.ver,
                                   over |-> over],
                        changed |-> text # seen.text, set |-> TRUE]
    /\ draftTimer' = TRUE

-----------------------------------------------------------------------------
(* The student.                                                            *)

WriteAnswer(t) ==
    /\ CardAct /\ card /\ t # answerText
    /\ answerText' = t /\ edited' = TRUE /\ draftNotice' = "saving"
    /\ IF hydrated
       THEN /\ Pends(t, answerOver, latest)
            /\ storage' = Disowned(storage, {"timer"})
       ELSE UNCHANGED <<pendingDraft, draftTimer, storage>>
    /\ UNCHANGED <<submission, latest, card, answerOver, hydrated, olderDraft,
                   deviceDraft, posting, orphans>>

\* "Restore older device draft": the student chooses it over what is there.
RestoreOlder ==
    /\ CardAct /\ card /\ olderDraft # NoDraft
    /\ answerText' = olderDraft.text /\ answerOver' = latest.ver
    /\ olderDraft' = NoDraft /\ draftNotice' = "restored"
    /\ IF hydrated /\ olderDraft.text # answerText
       THEN /\ Pends(olderDraft.text, latest.ver, latest)
            /\ storage' = Disowned(storage, {"timer"})
       ELSE UNCHANGED <<pendingDraft, draftTimer, storage>>
    /\ UNCHANGED <<submission, latest, card, edited, hydrated, deviceDraft,
                   posting, orphans>>

SubmitAnswer ==
    /\ CardAct /\ card /\ posting = 0 /\ answerText # 0
    /\ posting' = answerText
    /\ UNCHANGED <<submission, latest, card, draftVars, deviceDraft, storage,
                   orphans>>

\* What unmounting does: the timer goes, a pending draft is written at once.
Unmounts(pending) ==
    Disowned(pending, {"load", "timer"}) \o
        (IF pendingDraft.set THEN <<Persists("leave", pendingDraft)>> ELSE <<>>)

\* A mutation outlives its card and keeps what the card last rendered.
StillShown == [text |-> answerText, base |-> latest.ver, over |-> answerOver]
Orphans ==
    /\ posting' = 0
    /\ orphans' = IF posting = 0 THEN orphans
                  ELSE orphans \cup {[text |-> posting, draft |-> StillShown]}

LeaveLesson ==
    /\ CardAct /\ card /\ card' = FALSE
    /\ storage' = Unmounts(storage) /\ Orphans
    /\ draftTimer' = FALSE /\ pendingDraft' = NoPending
    /\ UNCHANGED <<submission, latest, answerText, answerOver, edited,
                   hydrated, olderDraft, draftNotice, deviceDraft>>

\* The lesson is shown from the query cache first.
OpenLesson ==
    /\ CardAct /\ ~ card /\ Mounted(latest)
    /\ storage' = LoadsDraft(storage)
    /\ UNCHANGED <<submission, latest, deviceDraft, posting, orphans>>

-----------------------------------------------------------------------------
(* The device.                                                             *)

DebounceFires ==
    /\ draftTimer /\ draftTimer' = FALSE
    /\ storage' = Append(storage, Persists("timer", pendingDraft))
    /\ UNCHANGED <<submission, latest, card, answerText, answerOver, edited,
                   hydrated, olderDraft, pendingDraft, draftNotice,
                   deviceDraft, posting, orphans, cardActs>>

\* The callback of the load: the four cases of the effect.
Mismatch == deviceDraft.base # latest.ver
\* Mutant: a loaded draft goes over what was typed.
RestoresOverTyping ==
    deviceDraft # NoDraft /\ ~ Mismatch /\ deviceDraft.text # latest.text

Restores ==
    deviceDraft # NoDraft /\ ~ edited /\ ~ Mismatch
        /\ deviceDraft.text # latest.text
Offers == deviceDraft # NoDraft /\ (edited \/ Mismatch)
Cleans == deviceDraft # NoDraft /\ ~ Restores /\ ~ Offers

DraftLoaded(rest) ==
    LET text == IF Restores THEN deviceDraft.text ELSE answerText
        over == IF Restores THEN deviceDraft.over ELSE answerOver
    IN  /\ answerText' = text /\ answerOver' = over
        /\ olderDraft' = IF Offers THEN deviceDraft ELSE olderDraft
        /\ draftNotice' = IF Restores THEN "restored"
                          ELSE IF Offers THEN "older" ELSE draftNotice
        /\ hydrated' = TRUE
        /\ IF ~ hydrated \/ text # answerText THEN Pends(text, over, latest)
           ELSE UNCHANGED <<pendingDraft, draftTimer>>
        /\ storage' = (IF ~ hydrated \/ text # answerText
                       THEN Disowned(rest, {"timer"}) ELSE rest) \o
                      (IF Cleans THEN <<StorageCall("remove", "clean",
                                                    NoDraft, TRUE)>>
                       ELSE <<>>)
        /\ UNCHANGED <<edited, deviceDraft>>

\* The callbacks of the writes.
DraftWritten(call, rest) ==
    /\ storage' = rest
    /\ deviceDraft' = IF call.does = "set" THEN call.draft ELSE NoDraft
    /\ CASE call.by = "timer" /\ call.current ->
              /\ pendingDraft' = NoPending
              /\ draftNotice' = IF call.draft # NoDraft THEN "saved" ELSE "none"
              /\ UNCHANGED olderDraft
         [] call.by = "failed" /\ card ->
              draftNotice' = "saved" /\ UNCHANGED <<pendingDraft, olderDraft>>
         [] call.by = "submitted" /\ card ->
              /\ draftNotice' = "none" /\ olderDraft' = NoDraft
              /\ UNCHANGED pendingDraft
         [] OTHER -> UNCHANGED <<pendingDraft, draftNotice, olderDraft>>
    /\ UNCHANGED <<answerText, answerOver, edited, hydrated, draftTimer>>

StorageAnswers ==
    /\ storage # <<>>
    /\ LET call == Head(storage)
           rest == Tail(storage)
       IN  IF call.does # "get" THEN DraftWritten(call, rest)
           ELSE IF call.current THEN DraftLoaded(rest)
           ELSE storage' = rest /\ UNCHANGED <<draftVars, deviceDraft>>
    /\ UNCHANGED <<submission, latest, card, posting, orphans, cardActs>>

\* A call that throws: the notice says so, a load still hydrates.
StorageThrows ==
    /\ storage # <<>>
    /\ LET call == Head(storage) IN
       /\ draftNotice' = IF card /\ call.current
                            /\ call.by \in {"load", "timer", "failed"}
                         THEN "unsaved" ELSE
                         IF call.by = "submitted" THEN "none" ELSE draftNotice
       /\ olderDraft' = IF call.by = "submitted" THEN NoDraft ELSE olderDraft
       /\ IF call.by = "load" /\ call.current
          THEN /\ hydrated' = TRUE
               /\ IF hydrated THEN UNCHANGED <<pendingDraft, draftTimer>>
                  ELSE Pends(answerText, answerOver, latest)
          ELSE UNCHANGED <<hydrated, pendingDraft, draftTimer>>
    /\ storage' = Tail(storage)
    /\ UNCHANGED <<submission, latest, card, answerText, answerOver, edited,
                   deviceDraft, posting, orphans, cardActs>>

-----------------------------------------------------------------------------
(* The server and the lesson query.                                        *)

\* The submission is updated elsewhere, or graded, which touches it.
ChangedElsewhere(t) ==
    /\ submission.ver \in 1..(MaxVersions - 1)
    /\ submission' = [ver |-> submission.ver + 1, text |-> t]
    /\ UNCHANGED <<latest, card, draftVars, deviceDraft, storage, posting, orphans,
                   cardActs>>

\* The query is answered: a card keyed by another id is mounted anew.
LessonRefetched ==
    /\ latest # submission /\ latest' = submission
    /\ IF ~ card THEN UNCHANGED <<card, draftVars, storage, posting, orphans>>
       ELSE IF latest.ver = 0
       THEN /\ Mounted(submission) /\ Orphans
            /\ storage' = LoadsDraft(Unmounts(storage))
       ELSE /\ IF hydrated
               THEN /\ Pends(answerText, answerOver, submission)
                    /\ storage' = LoadsDraft(Disowned(storage, {"timer"}))
               ELSE /\ storage' = LoadsDraft(storage)
                    /\ UNCHANGED <<pendingDraft, draftTimer>>
            /\ UNCHANGED <<card, answerText, answerOver, edited, hydrated,
                           olderDraft, draftNotice, posting, orphans>>
    /\ UNCHANGED <<submission, deviceDraft, cardActs>>

Submitted(text) ==
    /\ submission.ver < MaxVersions
    /\ submission' = [ver |-> submission.ver + 1, text |-> text]

\* The mutation succeeds, and the student's text is the new version.
AnswerAccepted ==
    /\ posting # 0 /\ posting' = 0 /\ Submitted(posting)
    /\ answerOver' = submission'.ver
    /\ draftTimer' = FALSE /\ pendingDraft' = NoPending
    /\ storage' = Append(Disowned(storage, {"timer"}),
                         StorageCall("remove", "submitted", NoDraft, TRUE))
    /\ UNCHANGED <<latest, card, answerText, edited, hydrated, olderDraft,
                   draftNotice, deviceDraft, orphans, cardActs>>

\* It fails, perhaps after the server took it: the text is saved at once.
AnswerFails(taken) ==
    /\ posting # 0 /\ posting' = 0
    /\ IF taken THEN Submitted(posting) ELSE UNCHANGED submission
    /\ storage' = Append(storage, Saves("failed", StillShown))
    /\ UNCHANGED <<latest, card, draftVars, deviceDraft, orphans, cardActs>>

\* The same for a mutation whose card is gone.
OrphanEnds(o, accepted_, taken) ==
    /\ orphans' = orphans \ {o}
    /\ IF accepted_ \/ taken THEN Submitted(o.text) ELSE UNCHANGED submission
    /\ storage' = Append(storage,
            IF accepted_ THEN StorageCall("remove", "orphan", NoDraft, TRUE)
            ELSE Saves("orphan", o.draft))
    /\ UNCHANGED <<latest, card, draftVars, deviceDraft, posting, cardActs>>

-----------------------------------------------------------------------------
CardReplies ==
    \/ DebounceFires \/ StorageAnswers \/ StorageThrows \/ LessonRefetched
    \/ AnswerAccepted \/ \E taken \in BOOLEAN : AnswerFails(taken)
    \/ \E o \in orphans, accepted_, taken \in BOOLEAN :
           OrphanEnds(o, accepted_, taken)

CardStep ==
    \/ CardReplies
    \/ \E t \in Answers \cup {0} : WriteAnswer(t)
    \/ \E t \in Answers : ChangedElsewhere(t)
    \/ RestoreOlder \/ SubmitAnswer \/ LeaveLesson \/ OpenLesson

\* The timer fires, the device and the server answer, the query refetches.
CardFairness ==
    /\ WF_cardVars(DebounceFires)
    /\ WF_cardVars((StorageAnswers \/ StorageThrows))
    /\ WF_cardVars((AnswerAccepted \/ AnswerFails(FALSE)))

CardSpec == CardInit /\ [][CardStep]_cardVars /\ CardFairness

-----------------------------------------------------------------------------
(* Properties.                                                             *)

\* A draft on the device never claims a newer version of the submission than
\* the one its text was begun on, so that a submission changed elsewhere is
\* not replaced without the student being asked (submissionDraftMatches).
DraftOnItsVersion ==
    deviceDraft # NoDraft => deviceDraft.base <= deviceDraft.over

\* Once the student has typed, only the student changes the text: neither a
\* loaded draft nor a refetched lesson does, as long as the card stays.
OnlyStudentEdits ==
    [][card /\ card' /\ edited /\ edited' /\ answerText' # answerText
          => cardActs' # cardActs]_cardVars
\* "Saving draft on this device..." gives way: the draft is saved, cannot be
\* saved, is submitted, or the card is left.
DraftSettles == []<>(~ card \/ draftNotice # "saving")
=============================================================================
