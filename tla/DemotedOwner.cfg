SPECIFICATION FairSpec
CONSTANTS
    Staff = {s1, s2}
    Demotable = {s2}
    NumCases = 2
    Triggers = {"redo", "manual"}
    UpdateStatuses = {}
    Dates = {1}
    Updaters = {u1}
    Jobs = {j1}
    Free = free
    MaxClock = 1
PROPERTY StaffedCaseIsClaimed
