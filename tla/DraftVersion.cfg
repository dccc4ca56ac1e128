CONSTANTS Answers = {1,2}
 MaxVersions = 3
 MaxCardActs = 4
SPECIFICATION CardSpec
CHECK_DEADLOCK FALSE
INVARIANTS DraftOnItsVersion
