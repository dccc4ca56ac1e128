CONSTANTS
  Enrollments = {e1, e2}
  WorkBlocks = {w1, c2}
  CheckBlocks = {c1, c2}
  Requests = {q1, q2}
  Admins = {r1}
  Kinds = {"submit", "update", "progress", "attempt", "video", "watch", "grade", "sync", "override"}
  Operations = {"restart", "status"}
  NoOne = NoOne
  NoRow = NoRow
  NoOverride = NoOverride
  MaxClock = 3
  MaxSubmissions = 2
  Scenes = {"restart", "regrade", "work", "sync", "video", "override", "checkpoint", "both"}
SPECIFICATION SceneSpec
INVARIANTS NoStaleEvidence SnapshotComplete CheckpointEvidence
