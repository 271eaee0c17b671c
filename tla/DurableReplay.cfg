CONSTANTS
  MaxChildren = 4
  MaxFailures = 2
  MaxTroubles = 3
  PerMilli = 2
  Lapses = {1}
  Programs <- Mixed
SPECIFICATION FairSpec
CHECK_DEADLOCK FALSE
INVARIANTS TypeOK ResultIsPlain DatabaseTroubleNeverRejects OnlyForgottenTimersConflict OutcomeCommittable
PROPERTIES NoChildAfterOutcome ChildrenComeWithOutcome TaskSettles
