CONSTANTS
  t1 = t1  t2 = t2  NoTask = NoTask
  Tasks = {t1, t2}
  Unknown = {t2}
  Roles <- AllRoles
  MaxTroubles = 3
SPECIFICATION FairSpec
CHECK_DEADLOCK FALSE
INVARIANTS ReducerAccepts OnlyRunningHolds NothingLeftBehind NoMissedWork
PROPERTIES StopObeyed WorkTaken
