----------------------------- MODULE VoiceDraft -----------------------------
(***************************************************************************)
(* Dictation in the mobile app: useVoiceDraft (mobile/src/hooks), used by  *)
(* every composer that can be on the screen stack, and the one recorder of *)
(* the app they share (voice-recorder-provider).                           *)
(*                                                                         *)
(* A Surface is one mounted composer.  A take is one recording; takes are  *)
(* numbered, and audio holds the takes whose file exists on the device.    *)
(* The transcript itself is not modelled, nor is the first-use             *)
(* explanation, which only delays startRecording.  The recorder (expo-     *)
(* audio) is modelled from its use: its uri stays that of the last take,   *)
(* the file of a take exists from record() on, recording ends by itself    *)
(* after five minutes, and a stop that fails leaves it not recording.      *)
(* Calls that change the audio session finish in the order they were made. *)
(***************************************************************************)
EXTENDS Naturals, FiniteSets, Sequences

CONSTANTS Surfaces,       \* the mounted composers
          NoSurface,      \* nobody owns the recorder
          MaxVoiceActs    \* bound on the person's actions

ASSUME VoiceAssumption ==
    NoSurface \notin Surfaces /\ MaxVoiceActs \in Nat

VARIABLES
    recorderOwner,  \* ownerRef of the provider
    mic,            \* the take being recorded, 0 when the recorder is still
    lastTake,       \* recorder.uri: the last take, 0 before the first one
    audioMode,      \* the audio session allows recording
    sessionCalls,   \* setAudioModeAsync calls not finished, oldest first
    audio,          \* the takes whose file is on the device
    voiceUi,        \* state of each surface
    keptTake,       \* recordingUri of each surface, 0 for none
    starting,       \* startRecording of each surface: where it waits, and
                    \* whether its attempt is still the current one
    finalizing,        \* finalizeRef of each surface: where it waits, who waits
    transcripts,    \* transcribeVoice calls not answered and not aborted
    inView,         \* mountedRef of each surface
    voiceActs       \* the person's actions so far

audioVars == <<audioMode, sessionCalls>>
recorderVars == <<recorderOwner, mic, lastTake, audioVars>>
hookVars == <<starting, finalizing, transcripts, inView>>
voiceVars == <<recorderVars, audio, voiceUi, keptTake, hookVars, voiceActs>>

Takes == 1..MaxVoiceActs
NotStarting == [at |-> "none", current |-> FALSE]
NotClosing == [at |-> "none", joined |-> {}, uri |-> 0]

VoiceInit ==
    /\ recorderOwner = NoSurface /\ mic = 0 /\ lastTake = 0
    /\ audioMode = FALSE /\ sessionCalls = <<>> /\ audio = {}
    /\ voiceUi = [s \in Surfaces |-> "idle"]
    /\ keptTake = [s \in Surfaces |-> 0]
    /\ starting = [s \in Surfaces |-> NotStarting]
    /\ finalizing = [s \in Surfaces |-> NotClosing]
    /\ transcripts = {} /\ inView = [s \in Surfaces |-> TRUE]
    /\ voiceActs = 0

\* The buttons of VoiceDraftButton and VoiceDraftPanel in each state.
Offered(state) ==
    CASE state = "idle" -> {"start"}
      [] state = "preparing" -> {"cancel"}
      [] state = "recording" -> {"cancel", "stop"}
      [] state = "transcribing" -> {"cancel"}
      [] state = "error" -> {"start", "retry", "again", "cancel"}
      [] state = "review" -> {"start", "dismiss"}

VoicePressed(s, button) == inView[s] /\ button \in Offered(voiceUi[s])

VoiceAct == voiceActs < MaxVoiceActs /\ voiceActs' = voiceActs + 1

\* Mutant: release without asking who owns the recorder.
ReleaseAnyones(s) == recorderOwner' = NoSurface

\* claim and release of the provider.
MayClaim(s) == recorderOwner \in {NoSurface, s}
Release(s) ==
    recorderOwner' = IF recorderOwner = s THEN NoSurface ELSE recorderOwner

StillStarting(s) ==
    inView[s] /\ starting[s].current /\ recorderOwner = s

StartsAt(s, at) ==
    starting' = [starting EXCEPT ![s] =
                    IF at = "none" THEN NotStarting ELSE [@ EXCEPT !.at = at]]

\* A call to the audio session by a start or a shutdown of s, and its end.
SessionCall(s, by) == sessionCalls' = Append(sessionCalls, <<s, by>>)
SessionAnswers(s, by, allows) ==
    /\ sessionCalls # <<>> /\ Head(sessionCalls) = <<s, by>>
    /\ audioMode' = allows

ShowVoice(s, state) == voiceUi' = [voiceUi EXCEPT ![s] = state]

-----------------------------------------------------------------------------
(* startRecording: claim, permission, audio session, recorder.             *)

ClaimRecorder(s) ==
    /\ starting[s].at = "none" /\ MayClaim(s)
    /\ recorderOwner' = s
    /\ starting' = [starting EXCEPT ![s] = [at |-> "permission",
                                            current |-> TRUE]]
    /\ ShowVoice(s, "preparing")

StartVoice(s) ==
    /\ VoiceAct /\ VoicePressed(s, "start")
    /\ ClaimRecorder(s)
    /\ UNCHANGED <<mic, lastTake, audioVars, audio, keptTake, finalizing,
                   transcripts, inView>>

PermissionDenied(s) ==
    /\ starting[s].at = "permission"
    /\ Release(s) /\ ShowVoice(s, "error") /\ StartsAt(s, "none")
    /\ UNCHANGED <<mic, lastTake, audioVars, audio, keptTake, finalizing,
                   transcripts, inView, voiceActs>>

\* The recording kept for a retry is given up only now.
PermissionGranted(s) ==
    /\ starting[s].at = "permission"
    /\ IF StillStarting(s)
       THEN /\ audio' = audio \ {keptTake[s]}
            /\ keptTake' = [keptTake EXCEPT ![s] = 0]
            /\ StartsAt(s, "session") /\ SessionCall(s, "start")
       ELSE StartsAt(s, "none") /\ UNCHANGED <<audio, keptTake, sessionCalls>>
    /\ UNCHANGED <<recorderOwner, mic, lastTake, audioMode, voiceUi, finalizing,
                   transcripts, inView,
                   voiceActs>>

SessionOpened(s) ==
    /\ starting[s].at = "session"
    /\ SessionAnswers(s, "start", TRUE)
    /\ StartsAt(s, IF StillStarting(s) THEN "recorder" ELSE "undo")
    /\ sessionCalls' = Tail(sessionCalls) \o
                       (IF StillStarting(s) THEN <<>> ELSE <<<<s, "start">>>>)
    /\ UNCHANGED <<recorderOwner, mic, lastTake, audio, voiceUi, keptTake,
                   finalizing, transcripts, inView, voiceActs>>

NewTake == lastTake + 1

RecorderReady(s) ==
    /\ starting[s].at = "recorder"
    /\ IF StillStarting(s)
       THEN /\ mic' = NewTake /\ lastTake' = NewTake
            /\ audio' = audio \cup {NewTake}
            /\ ShowVoice(s, "recording") /\ StartsAt(s, "none")
            /\ UNCHANGED sessionCalls
       ELSE /\ StartsAt(s, "undo") /\ SessionCall(s, "start")
            /\ UNCHANGED <<mic, lastTake, audio, voiceUi>>
    /\ UNCHANGED <<recorderOwner, audioMode, keptTake, finalizing, transcripts,
                   inView, voiceActs>>

StartFails(s) ==
    /\ starting[s].at \in {"permission", "session", "recorder"}
    /\ Release(s) /\ StartsAt(s, "failing")
    /\ sessionCalls' = Append(IF starting[s].at = "session"
                              THEN SelectSeq(sessionCalls, LAMBDA c :
                                                 c # <<s, "start">>)
                              ELSE sessionCalls, <<s, "start">>)
    /\ UNCHANGED <<mic, lastTake, audioMode, audio, voiceUi, keptTake,
                   finalizing, transcripts, inView, voiceActs>>

\* resetAudioMode at the end of a start that failed or was overtaken.
StartUndone(s) ==
    /\ starting[s].at \in {"failing", "undo"}
    /\ SessionAnswers(s, "start", FALSE)
    /\ sessionCalls' = Tail(sessionCalls)
    /\ voiceUi' = IF starting[s].at = "failing"
                  THEN [voiceUi EXCEPT ![s] = "error"] ELSE voiceUi
    /\ StartsAt(s, "none")
    /\ UNCHANGED <<recorderOwner, mic, lastTake, audio, keptTake, finalizing,
                   transcripts, inView, voiceActs>>

-----------------------------------------------------------------------------
(* transcribe.                                                             *)

\* A call reads its file after the token arrived; held is abortRef.
Transcribes(calls_, s, take) ==
    {[c EXCEPT !.held = IF c.surface = s THEN FALSE ELSE @] : c \in calls_}
        \cup {[surface |-> s, take |-> take, at |-> "token", held |-> TRUE]}

Aborted(calls_, s) == {c \in calls_ : ~ (c.surface = s /\ c.held)}

SendAudio(c) ==
    /\ c.at = "token"
    /\ transcripts' = (transcripts \ {c}) \cup
            {[c EXCEPT !.at = IF c.take \in audio THEN "sent" ELSE "lost"]}
    /\ UNCHANGED <<recorderVars, audio, voiceUi, keptTake, starting, finalizing,
                   inView, voiceActs>>

DraftInserted(c) ==
    /\ c.at = "sent"
    /\ transcripts' = transcripts \ {c}
    /\ ShowVoice(c.surface, "review")
    /\ audio' = audio \ {c.take}
    /\ keptTake' = [keptTake EXCEPT ![c.surface] = 0]
    /\ UNCHANGED <<recorderVars, starting, finalizing, inView, voiceActs>>

\* No speech, a refusal, a timeout, or no connection.
TranscriptFails(c) ==
    /\ transcripts' = transcripts \ {c}
    /\ ShowVoice(c.surface, "error")
    /\ UNCHANGED <<recorderVars, audio, keptTake, starting, finalizing, inView,
                   voiceActs>>

-----------------------------------------------------------------------------
(* finalizeRecording, shared by stop, cancel, leaving and backgrounding.   *)

\* The uri of the take, read before the audio session is reset.
TakeUri(s) == IF lastTake # 0 THEN lastTake ELSE keptTake[s]

Joined(s, who) ==
    LET found == finalizing[s].at # "none" IN
    /\ finalizing' = [finalizing EXCEPT ![s] =
          IF found THEN [finalizing[s] EXCEPT !.joined = finalizing[s].joined \cup {who}]
          ELSE IF mic # 0 THEN [at |-> "stop", joined |-> {who}, uri |-> 0]
          ELSE [at |-> "session", joined |-> {who}, uri |-> TakeUri(s)]]
    /\ IF found \/ mic # 0 THEN UNCHANGED sessionCalls
       ELSE SessionCall(s, "shutdown")

\* Pressed, or by the effect that notices the five-minute limit.
StopVoice(s) ==
    /\ VoicePressed(s, "stop") /\ recorderOwner = s
    /\ (mic = 0 /\ UNCHANGED voiceActs) \/ VoiceAct
    /\ ShowVoice(s, "transcribing") /\ Joined(s, "stop")
    /\ UNCHANGED <<recorderOwner, mic, lastTake, audioMode, audio, keptTake,
                   starting, transcripts,
                   inView>>

\* What cancel does at once, and when nothing has to be shut down.
Discard(s, who) ==
    /\ starting' = [starting EXCEPT ![s].current = FALSE]
    /\ transcripts' = Aborted(transcripts, s)
    /\ IF recorderOwner = s
       THEN Joined(s, who) /\ UNCHANGED <<audio, keptTake, voiceUi>>
       ELSE /\ audio' = audio \ {keptTake[s]}
            /\ keptTake' = [keptTake EXCEPT ![s] = 0]
            /\ ShowVoice(s, IF who = "cancel" THEN "idle" ELSE "error")
            /\ UNCHANGED <<finalizing, sessionCalls>>
    /\ UNCHANGED <<recorderOwner, mic, lastTake, audioMode, inView>>

CancelVoice(s) ==
    /\ VoiceAct /\ VoicePressed(s, "cancel")
    /\ Discard(s, "cancel")

Backgrounded(s) ==
    /\ VoiceAct /\ inView[s] /\ voiceUi[s] = "recording"
    /\ Discard(s, "background")

LeaveSurface(s) ==
    /\ VoiceAct /\ inView[s]
    /\ inView' = [inView EXCEPT ![s] = FALSE]
    /\ starting' = [starting EXCEPT ![s].current = FALSE]
    /\ transcripts' = {c \in transcripts : c.surface # s}
    /\ IF recorderOwner = s
       THEN Joined(s, "leave") /\ UNCHANGED audio
       ELSE /\ audio' = audio \ {keptTake[s]}
            /\ UNCHANGED <<finalizing, sessionCalls>>
    /\ UNCHANGED <<recorderOwner, mic, lastTake, audioMode, voiceUi, keptTake>>

RecorderStopped(s) ==
    /\ finalizing[s].at = "stop"
    /\ mic' = 0
    /\ finalizing' = [finalizing EXCEPT ![s].at = "session", ![s].uri = TakeUri(s)]
    /\ SessionCall(s, "shutdown")
    /\ UNCHANGED <<recorderOwner, lastTake, audioMode, audio, voiceUi,
                   keptTake, starting, transcripts, inView, voiceActs>>

\* The shutdown is over: the waiting callers go on, stop before the others.
ShutDown(s, short) ==
    LET joined == finalizing[s].joined
        uri == finalizing[s].uri
        dropped == joined \ {"stop"} # {}
        sends == "stop" \in joined /\ inView[s] /\ uri # 0 /\ ~ short
    IN  /\ transcripts' = IF sends THEN Transcribes(transcripts, s, uri)
                          ELSE transcripts
        /\ audio' = IF sends /\ ~ dropped THEN audio ELSE audio \ {uri}
        /\ keptTake' = [keptTake EXCEPT ![s] =
                IF dropped THEN 0 ELSE IF sends THEN uri ELSE @]
        /\ voiceUi' = [voiceUi EXCEPT ![s] =
                CASE "background" \in joined -> "error"
                  [] "cancel" \in joined /\ "background" \notin joined -> "idle"
                  [] joined = {"stop"} -> IF sends THEN "transcribing"
                                          ELSE "error"
                  [] OTHER -> @]

SessionClosed(s, short) ==
    /\ finalizing[s].at = "session"
    /\ SessionAnswers(s, "shutdown", FALSE)
    /\ sessionCalls' = Tail(sessionCalls) /\ Release(s)
    /\ finalizing' = [finalizing EXCEPT ![s] = NotClosing]
    /\ ShutDown(s, short)
    /\ UNCHANGED <<mic, lastTake, starting, inView, voiceActs>>

\* What the panel of s shows after a failed shutdown.
AfterFailure(s, joined) ==
    CASE "background" \in joined -> "error"
      [] "cancel" \in joined /\ "background" \notin joined -> "idle"
      [] joined \cap {"cancel", "background"} = {} /\ "stop" \in joined
           -> "error"
      [] OTHER -> voiceUi[s]

\* recorder.stop() throws: only stop's own catch releases the recorder.
StopFails(s) ==
    LET joined == finalizing[s].joined IN
    /\ finalizing[s].at = "stop"
    /\ mic' = 0 /\ finalizing' = [finalizing EXCEPT ![s] = NotClosing]
    /\ IF "stop" \in joined /\ inView[s]
       THEN Release(s) /\ audioMode' = FALSE
       ELSE UNCHANGED <<recorderOwner, audioMode>>
    /\ IF joined \cap {"cancel", "background"} # {}
       THEN /\ audio' = audio \ {keptTake[s]}
            /\ keptTake' = [keptTake EXCEPT ![s] = 0]
       ELSE UNCHANGED <<audio, keptTake>>
    /\ ShowVoice(s, AfterFailure(s, joined))
    /\ UNCHANGED <<lastTake, sessionCalls, starting, transcripts, inView,
                   voiceActs>>

\* forDuration: the recorder stops by itself.
TimeUp ==
    /\ mic # 0 /\ mic' = 0
    /\ UNCHANGED <<recorderOwner, lastTake, audioVars, audio, voiceUi,
                   keptTake, hookVars, voiceActs>>

-----------------------------------------------------------------------------
(* The panel's other buttons.                                              *)

RetryVoice(s) ==
    /\ VoiceAct /\ VoicePressed(s, "retry") /\ keptTake[s] # 0
    /\ transcripts' = Transcribes(transcripts, s, keptTake[s])
    /\ ShowVoice(s, "transcribing")
    /\ UNCHANGED <<recorderVars, audio, keptTake, starting, finalizing, inView>>

RecordAgain(s) ==
    /\ VoiceAct /\ VoicePressed(s, "again")
    /\ transcripts' = Aborted(transcripts, s)
    /\ audio' = audio \ {keptTake[s]}
    /\ keptTake' = [keptTake EXCEPT ![s] = 0]
    /\ IF starting[s].at = "none" /\ MayClaim(s) THEN ClaimRecorder(s)
       ELSE ShowVoice(s, "idle") /\ UNCHANGED <<recorderOwner, starting>>
    /\ UNCHANGED <<mic, lastTake, audioVars, finalizing, inView>>

\* dismissReview, and markSent when the composer sends the text.
ReviewDone(s) ==
    /\ VoiceAct /\ VoicePressed(s, "dismiss")
    /\ ShowVoice(s, "idle")
    /\ UNCHANGED <<recorderVars, audio, keptTake, hookVars>>

-----------------------------------------------------------------------------
VoiceInternal ==
    \/ TimeUp
    \/ \E s \in Surfaces : \/ PermissionDenied(s) \/ PermissionGranted(s)
                           \/ SessionOpened(s) \/ RecorderReady(s)
                           \/ StartFails(s) \/ StartUndone(s)
                           \/ RecorderStopped(s) \/ StopFails(s)
                           \/ \E short \in BOOLEAN : SessionClosed(s, short)
    \/ \E c \in transcripts : SendAudio(c) \/ DraftInserted(c)
                              \/ TranscriptFails(c)

VoiceStep ==
    \/ VoiceInternal
    \/ \E s \in Surfaces : \/ StartVoice(s) \/ StopVoice(s) \/ CancelVoice(s)
                           \/ Backgrounded(s) \/ LeaveSurface(s)
                           \/ RetryVoice(s) \/ RecordAgain(s) \/ ReviewDone(s)

VoiceNext == VoiceStep

\* Promises of the device and the request all end; the effect runs.
VoiceFairness ==
    /\ WF_voiceVars(VoiceInternal)
    /\ WF_voiceVars(\E s \in Surfaces : mic = 0 /\ StopVoice(s))

VoiceSpec == VoiceInit /\ [][VoiceNext]_voiceVars /\ VoiceFairness

-----------------------------------------------------------------------------
(* Properties.                                                             *)

\* A composer that shows "Listening" owns the shared recorder, so two never
\* do at once (use-voice-draft.ts, claim / owns / release).
ListenerOwns ==
    \A s \in Surfaces :
        inView[s] /\ voiceUi[s] = "recording" => recorderOwner = s

\* The file under the running recorder is never deleted: the shutdown comes
\* before the deletion, whoever asked for it (finalizeRecording).
TakeSafe == mic # 0 => mic \in audio

\* A composer that shows a recording holds the recorder, and the file under the
\* recorder is never deleted (use-voice-draft.ts, voice-recorder-provider.tsx).
TakesSound == ListenerOwns /\ TakeSafe

\* A spinner of the panel always ends.
VoiceSettles ==
    \A s \in Surfaces :
        []<>(~ inView[s] \/ voiceUi[s] \notin {"preparing", "transcribing"})
=============================================================================
