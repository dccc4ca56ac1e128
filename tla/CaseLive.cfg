SPECIFICATION CaseLiveSpec
CONSTANTS
    Staff = {s1, s2}
    Demotable = {s2}
    NumCases = 2
    Triggers = {"redo", "restart"}
    UpdateStatuses = {"resolved"}
    Dates = {1, 2}
    Updaters = {u1}
    Jobs = {j1}
    Free = free
    MaxClock = 2
    NumRequests = 1
    Helpers = {s1}
    Student = student
    NoOwner = nobody
    Handlers = {h1}
PROPERTY DueIsClaimed
PROPERTY RestartEnds
