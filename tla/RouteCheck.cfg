SPECIFICATION FairSpec
CONSTANTS
  Setups <- MCSetups
INVARIANTS RoutesExercised OneRoundApart
PROPERTY EndsUnlessOvertaken
CHECK_DEADLOCK FALSE
