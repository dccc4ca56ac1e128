----------------------------- MODULE MCVideoPages -----------------------------
(* Uploading a video and watching it, for TLC.  The two share no state: one  *)
(* runs in a behaviour (which, chosen at the start) and the other keeps its  *)
(* first state.  Fairness is that of the uploads.                            *)
EXTENDS VideoPages, VideoWatch

VARIABLE which

Frozen(run) ==
    /\ UNCHANGED which
    /\ run # "uploads" => UNCHANGED vars
    /\ run # "watch" => UNCHANGED watchVars

VideoInit ==
    /\ which \in {"uploads", "watch"}
    /\ Init /\ (which # "uploads" => page = "cohort" /\ \A l \in Lessons : ~blocks[l].there)
    /\ WatchInit

VideoNext ==
    \/ which = "uploads" /\ Next /\ Frozen("uploads")
    \/ which = "watch"   /\ WatchNext /\ Frozen("watch")

VideoVars == <<which, vars, watchVars>>

VideoSpec ==
    /\ VideoInit /\ [][VideoNext]_VideoVars
    /\ WF_vars(which = "uploads" /\ UploadStep /\ UNCHANGED pageVars)
=============================================================================
