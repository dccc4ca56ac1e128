------------------------------ MODULE MCClients ------------------------------
(* The API client, the lesson page and the mobile app, for TLC.  One runs    *)
(* in a behaviour (which, chosen at the start) and the others keep their     *)
(* first state.  Fairness is that of each component.                         *)
EXTENDS ApiClient, CodeRunner, LessonBlocks, PushSwitch, MobileSession,
        NativePlayer, VoiceDraft, SubmissionDraft, MobileConversation

VARIABLE which

Frozen(run) ==
    /\ UNCHANGED which
    /\ run # "api" => UNCHANGED apiVars
    /\ run # "runner" => UNCHANGED runnerVars
    /\ run # "lesson" => UNCHANGED lessonVars
    /\ run # "push" => UNCHANGED pushVars
    /\ run # "session" => UNCHANGED sessionVars
    /\ run # "player" => UNCHANGED playerStateVars
    /\ run # "voice" => UNCHANGED voiceVars
    /\ run # "card" => UNCHANGED cardVars
    /\ run # "chat" => UNCHANGED mobileVars

ClientInit ==
    /\ which \in {"api", "runner", "lesson", "push", "session", "player", "voice", "card", "chat"}
    /\ ApiInit /\ (which # "api" => cache = {} /\ ~invited /\ ~accepted)
    /\ RunnerInit
    /\ LessonInit /\ (which # "lesson" => kind = CHOOSE k \in Kinds : TRUE)
    /\ PushInit /\ (which # "push" => <<pref, pushRows, permission, pushPage>> = <<FALSE, {}, "default", "updates">>)
    /\ SessionInit
    /\ PlayerInit
    /\ VoiceInit
    /\ CardInit /\ deviceDraft.text \in (IF which = "card" THEN {0, 1} ELSE {0})
    /\ MobileInit

ClientNext ==
    \/ which = "api"     /\ ApiNext /\ Frozen("api")
    \/ which = "runner"  /\ RunnerNext /\ Frozen("runner")
    \/ which = "lesson"  /\ LessonNext /\ Frozen("lesson")
    \/ which = "push"    /\ PushNext /\ Frozen("push")
    \/ which = "session" /\ SessionNext /\ Frozen("session")
    \/ which = "player"  /\ PlayerNext /\ Frozen("player")
    \/ which = "voice"   /\ VoiceNext /\ Frozen("voice")
    \/ which = "card"    /\ CardStep /\ Frozen("card")
    \/ which = "chat"    /\ MobileNext /\ Frozen("chat")

ClientVars == <<which, apiVars, runnerVars, lessonVars, pushVars, sessionVars, playerStateVars,
               voiceVars, cardVars, mobileVars>>

ClientSpec ==
    /\ ClientInit /\ [][ClientNext]_ClientVars
    /\ WF_apiVars(which = "api" /\ \E c \in apiCalls : ApiStep(c))
    /\ WF_runnerVars(which = "runner" /\ TimerFires)
    /\ WF_runnerVars(which = "runner" /\ OnMessage)
    /\ WF_lessonVars(which = "lesson" /\ LessonStep)
    /\ WF_pushVars(which = "push" /\ \E f \in flows: PushReplies(f))
    /\ WF_sessionVars(which = "session" /\ \E t \in tasks: SessionReplies(t))
    /\ WF_playerStateVars(which = "player" /\ \E ok \in BOOLEAN: SaveEnds(ok))
    /\ WF_voiceVars(which = "voice" /\ VoiceInternal)
    /\ WF_voiceVars(which = "voice" /\ \E s \in Surfaces : mic = 0 /\ StopVoice(s))
    /\ WF_cardVars(which = "card" /\ DebounceFires)
    /\ WF_cardVars(which = "card" /\ (StorageAnswers \/ StorageThrows))
    /\ WF_cardVars(which = "card" /\ (AnswerAccepted \/ AnswerFails(FALSE)))
    /\ WF_mobileVars(which = "chat" /\ LoadingStep)
    /\ WF_mobileVars(which = "chat" /\ SaveDraft)
    /\ WF_mobileVars(which = "chat" /\ \E c \in sendCalls : PostStep(c))

\* Every call returns to its caller, the loading screen goes away and the
\* community standards screen stops saving, whatever is lost or refused: the
\* attempts are bounded and each ends at its time limit.
ApiCallsSettle ==
    /\ []<>(which = "api" => ~isLoading)
    /\ []<>~gateSaving
    /\ \A i \in 0 .. MaxCalls - 1 : []<>(which = "api" => \A c \in apiCalls : c.id # i)

\* Every lesson address the student goes to ends its spinner.
LessonPageOpens == []<>(which = "lesson" => ~loading)

\* Every press of a notifications switch is answered: in the end the profile's
\* switch is loaded and free and the other pages say what became of the last
\* press, whichever call failed or was refused.
NotificationsSettle ==
    <>[](which = "push" => /\ ~savingPref /\ loaded # "loading"
                           /\ (presses > 0 /\ pushPage # "profile" => pushNote # ""))

\* What a screen says is so: a busy lesson block has its request, a check shown as
\* answered right is recorded, and the account of the open app is the one kept on
\* the device (ContentBlockRenderer.tsx, session-provider.tsx).
ScreensTrue == BusyHasRequest /\ CorrectIsRecorded /\ AccountIsCached

\* What a student wrote is not lost to a late answer: neither the text of a lesson
\* block, nor a draft on the phone, nor a message that could not be sent
\* (ContentBlockRenderer.tsx, lesson-content-block.tsx, conversation/[id].tsx).
WorkKept == []MobileTypeOK /\ DraftSafe /\ OnlyStudentEdits /\ FailedKeptInStep

\* No client waits for ever: calls, runs, loads, presses, dictations, drafts and
\* sends all come to rest.
ClientsSettle ==
    /\ ApiCallsSettle /\ RunEnds /\ LessonPageOpens /\ NotificationsSettle
    /\ SessionSettles /\ VoiceSettles /\ DraftSettles /\ SendingEnds
=============================================================================
