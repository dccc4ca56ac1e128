CONSTANTS
  Enrollments = {e1}
  WorkBlocks = {w1}
  CheckBlocks = {}
  Requests = {q1}
  Admins = {r1}
  Kinds = {"submit", "grade"}
  Operations = {"restart"}
  NoOne = NoOne
  NoRow = NoRow
  NoOverride = NoOverride
  MaxClock = 2
  MaxSubmissions = 1
SPECIFICATION Spec
PROPERTIES GradeOnlyExisting
