SPECIFICATION MessagingSpec
CONSTANTS
  MaxSockets = 6
  MaxRefusals = 5
  Targets = {t1, t2}
  MaxInputs = 3
  Slots = {1, 2}
  NoTarget = NoTarget
  Convs = {1, 2}
  Images = 2
  MaxDeleted = 1
  MaxSpaces = 3
  MaxRooms = 2
  MaxMoves = 2
  MaxLines = 3
  MaxResaves = 1
  Alphabet = {"@", "a", "b", "s", "_", "c"}
  MaxChars = 4
INVARIANTS OneLine PageSound ViewSound WorkspacesSound TextKept 
PROPERTIES PollingCatchesUp MessagingSettles
CHECK_DEADLOCK FALSE
