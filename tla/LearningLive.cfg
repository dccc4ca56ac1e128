CONSTANTS
  Enrollments = {e1}
  WorkBlocks = {w1}
  CheckBlocks = {c1}
  Requests = {q1}
  Admins = {r1}
  Kinds = {"submit", "update", "progress", "attempt", "video", "watch", "grade", "sync", "override"}
  Operations = {"restart", "status"}
  NoOne = NoOne
  NoRow = NoRow
  NoOverride = NoOverride
  MaxClock = 2
  MaxSubmissions = 2
  Scenes = {"answer_submit", "answer_update", "answer_grade", "answer_sync", "answer_check", "answer_watch", "answer_access"}
SPECIFICATION LiveSceneSpec
PROPERTY EveryoneAnswered
