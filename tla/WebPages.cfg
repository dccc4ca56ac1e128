SPECIFICATION WebSpec
CONSTANTS
  Modules = {1}
  MaxActs = 3
  Submissions = {1, 2}
  StudentSubs = {1}
  MaxKeys = 4
  Patterns = {"weekdays", "mwf", "tth", "daily"}
  MaxWeeks = 1
  MaxLessons = 2
  MaxWriters = 1
  MaxClicks = 2
  Assignable = {1, 2}
  MaxAccessActs = 3
  Emails = {1, 2}
  MaxRosterActs = 5
  MaxFiles = 2
  MaxLibraryActs = 6
  MaxDeskActs = 3
  PerPage = 1
  MaxPosts = 3
  MaxFeedActs = 3
  Uploaded = {1, 2}
  YouTube = {3}
  External = {4}
  SearchAbove = 1
  Watchable = 2
  MaxShelfActs = 3
INVARIANTS FlagsHaveCalls FeedbackBelongs  RosterSound RecordingsSound
PROPERTIES AttemptedCheckImmutable RemovedStaysRemoved PagesSettle
CHECK_DEADLOCK FALSE
