---------------------------- MODULE MCLearningScenes ----------------------------
(* An instance of LearningState for TLC that explores sub-instances, chosen by   *)
(* scene at the start: two enrollments of a student who is restarted, or graded; *)
(* one enrollment under the writes of submitted work, those of the roster's      *)
(* sync, of videos and of overrides; two requests at one checkpoint, of which    *)
(* the second answers the check; a checkpoint that takes submissions as well;    *)
(* and, for the liveness run, one enrollment under each kind of write.  Every    *)
(* step is one of Next.  A scene only limits what begins, so no request is held  *)
(* up by its scene.                                                              *)
EXTENDS LearningState

CONSTANT Scenes   \* the scenes of a run

VARIABLE scene

One(S) == {CHOOSE x \in S : TRUE}
PlainBlocks == WorkBlocks \ CheckBlocks

Answering(blocks, rows, kinds) ==
  [enrollments |-> One(Enrollments), requests |-> One(Requests), blocks |-> blocks, rows |-> rows, clock |-> 2,
   kinds |-> kinds, operations |-> {"restart", "status"}]

Scene ==
  [restart    |-> [enrollments |-> Enrollments, requests |-> One(Requests), blocks |-> PlainBlocks, rows |-> 1, clock |-> 3,
                   kinds |-> {"submit", "watch"}, operations |-> {"restart"}],
   regrade    |-> [enrollments |-> Enrollments, requests |-> One(Requests), blocks |-> PlainBlocks, rows |-> 1, clock |-> 2,
                   kinds |-> {"submit", "grade"}, operations |-> {"restart"}],
   work       |-> [enrollments |-> One(Enrollments), requests |-> One(Requests), blocks |-> PlainBlocks, rows |-> 1, clock |-> 2,
                   kinds |-> {"submit", "update", "sync", "watch"}, operations |-> {"restart", "status"}],
   sync       |-> [enrollments |-> One(Enrollments), requests |-> One(Requests), blocks |-> PlainBlocks, rows |-> 2, clock |-> 2,
                   kinds |-> {"sync", "grade"}, operations |-> {"restart"}],
   video      |-> [enrollments |-> One(Enrollments), requests |-> One(Requests), blocks |-> PlainBlocks, rows |-> 1, clock |-> 2,
                   kinds |-> {"submit", "update", "video"}, operations |-> {"restart", "status"}],
   override   |-> [enrollments |-> One(Enrollments), requests |-> One(Requests), blocks |-> PlainBlocks, rows |-> 1, clock |-> 2,
                   kinds |-> {"watch", "override"}, operations |-> {"restart", "status"}],
   checkpoint |-> [enrollments |-> One(Enrollments), requests |-> Requests, blocks |-> CheckBlocks \ WorkBlocks, rows |-> 1, clock |-> 2,
                   kinds |-> {"progress", "attempt"}, operations |-> {"restart"}],
   both       |-> [enrollments |-> One(Enrollments), requests |-> One(Requests), blocks |-> WorkBlocks \cap CheckBlocks, rows |-> 1,
                   clock |-> 2, kinds |-> {"submit", "progress", "attempt"}, operations |-> {"restart"}],
   answer_submit |-> Answering(PlainBlocks, 1, {"submit", "progress"}),
   answer_update |-> Answering(PlainBlocks, 1, {"submit", "update"}),
   answer_grade |-> [Answering(PlainBlocks, 1, {"submit", "grade"}) EXCEPT !.operations = {"restart"}],
   answer_sync |-> Answering(PlainBlocks, 2, {"sync", "video"}),
   answer_check |-> Answering(CheckBlocks, 1, {"attempt"}),
   answer_watch |-> Answering(PlainBlocks, 1, {"watch"}),
   answer_access |-> Answering(PlainBlocks, 1, {"override"})]

\* The state is one of the sub-instance s.
Within(s) ==
  /\ clock <= s.clock
  /\ lastId + Cardinality(Inserting) <= s.rows
  /\ \A e \in Enrollments \ s.enrollments : enrollment[e].state = "none"
  /\ \A q \in Requests : pc[q] # "idle" => /\ q \in s.requests
                                           /\ req[q].kind \in IF q \in One(Requests) THEN s.kinds ELSE {"attempt"}
                                           /\ req[q].block \in s.blocks \cup {NoOne}
  /\ \A r \in Admins : apc[r] # "idle" => adm[r].op \in s.operations

SceneInit == scene \in Scenes /\ Init /\ Within(Scene[scene])
SceneNext == UNCHANGED scene /\ Next /\ Within(Scene[scene])'
SceneSpec == SceneInit /\ [][SceneNext]_<<vars, scene>>
LiveSceneSpec == SceneSpec /\ Fairness
=============================================================================
