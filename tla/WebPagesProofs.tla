--------------------------- MODULE WebPagesProofs ---------------------------
(***************************************************************************)
(* The pages together: what PagesProofs shows of each page holds in the    *)
(* composition, where one page runs and the others rest.                   *)
(***************************************************************************)
EXTENDS MCWebPages, PagesProofs, TLAPS

-----------------------------------------------------------------------------
(***************************************************************************)
(* The pages together, as MCWebPages runs them.                            *)
(***************************************************************************)

\* The steps of the composition are steps of each page, or leave it alone.
LEMMA WebMoves ==
    ASSUME [WebNext]_WebVars
    PROVE  /\ [CohortNext]_cohortVars /\ [GradingNext]_gradingVars /\ [AccessNext]_accessVars
           /\ [FeedNext]_feedVars /\ [LibraryNext]_libraryVars /\ [ShelfNext]_shelfVars
  BY DEF WebNext, Frozen, WebVars

(***************************************************************************)
(* A spinner or a busy button always has a call behind it, on each of the  *)
(* four pages and for every value of their constants: an answer, a refusal *)
(* or a failure of that call is what ends it, so no order of clicks and    *)
(* answers leaves a page busy with nothing under way.                      *)
(***************************************************************************)
THEOREM FlagsAlwaysHaveCalls == WebSpec => []FlagsHaveCalls
  <1> DEFINE IInv == CohortIInv /\ GradingIInv /\ AccessIInv /\ FeedIInv
  <1>1. WebInit => IInv
    BY Zenon, CohortStart, GradingStarts, AccessStarts, FeedStart DEF WebInit
  <1>2. IInv /\ [WebNext]_WebVars => IInv'
    BY Zenon, WebMoves, CohortStep, GradingNextStep, AccessNextStep, FeedStep
  <1>3. IInv => FlagsHaveCalls
    BY Zenon DEF CohortIInv, GradingIInv, AccessIInv, FeedIInv, FlagsHaveCalls
  <1> HIDE DEF IInv
  <1> QED
    BY <1>1, <1>2, <1>3, PTL DEF WebSpec

(***************************************************************************)
(* A file of the upload queue is started once, an open tab has items, and  *)
(* a row shows no more progress than the server holds for that recording.  *)
(***************************************************************************)
THEOREM RecordingPagesAreSound == WebSpec => []RecordingsSound
  <1> DEFINE IInv == LibraryIInv /\ ShelfIInv
  <1>1. WebInit => IInv
    BY LibraryStart, ShelfStart DEF WebInit
  <1>2. IInv /\ [WebNext]_WebVars => IInv'
    BY Zenon, WebMoves, LibraryInductive, ShelfInductive
  <1>3. IInv => RecordingsSound
    BY DEF LibraryIInv, QueueInv, UploadedOnce, ShelfIInv, TabInv, TabHasItems, ShelfView, RecordingsSound
  <1> HIDE DEF IInv
  <1> QED
    BY <1>1, <1>2, <1>3, PTL DEF WebSpec
=============================================================================
