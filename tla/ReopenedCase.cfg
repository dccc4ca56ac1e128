SPECIFICATION Spec
CONSTANTS
    Staff = {s1, s2}
    Demotable = {}
    NumCases = 1
    Triggers = {"redo"}
    UpdateStatuses = {"contacted", "resolved"}
    Dates = {1}
    Updaters = {u1, u2}
    Jobs = {j1}
    Free = free
    MaxClock = 1
PROPERTY TerminalIsFinal
