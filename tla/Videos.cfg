SPECIFICATION VideoSpec
CONSTANTS
  Uploads = {1}
  Lessons = {l1, l2}
  Existing = {l1}
  Parts = 3
  Concurrency = 2
  MaxAttempts = 2
  MaxFaults = 2
  MaxVisits = 1
  None = None
  Duration = 2
  SaveEvery = 2
  Slack = 1
  MaxActs = 2
  MaxPings = 2
  MaxRefresh = 1
INVARIANTS UploadsSound RecordingAccounted UnsavedBounded
PROPERTIES  UploadSettles 
CHECK_DEADLOCK FALSE
