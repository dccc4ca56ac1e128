SPECIFICATION SupportSpec
CONSTANTS
  Staff = {s1, s2}
  Demotable = {s2}
  NumCases = 1
  Triggers = {"redo"}
  UpdateStatuses = {"contacted", "resolved"}
  Dates = {1, 2}
  Updaters = {u1, u2}
  Jobs = {j1, j2}
  Free = free
  MaxClock = 2
  NumRequests = 2
  Helpers = {s1, s2}
  Student = student
  NoOwner = nobody
  Handlers = {h1, h2}
INVARIANTS OneNoticePerClaim StudentIsTold
PROPERTIES FollowUpOnlyDue ImplementsLifecycle
