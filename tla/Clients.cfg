SPECIFICATION ClientSpec
CONSTANTS
  MaxCalls = 2
  MaxChanges = 2
  MaxRuns = 3
  MaxLessonActs = 4
  MaxSwitchActs = 2
  People = {1, 2}
  MaxSessionActs = 3
  Length = 3
  SaveInterval = 2
  MaxClock = 4
  MaxTouches = 3
  Surfaces = {1, 2}
  NoSurface = 0
  MaxVoiceActs = 4
  Answers = {1, 2}
  MaxVersions = 2
  MaxCardActs = 3
  MaxTexts = 2
  MaxVisits = 2
  MaxPresses = 2
INVARIANTS CallsSound RunnerSound  TakesSound 
PROPERTIES  ClientsSettle
CHECK_DEADLOCK FALSE
