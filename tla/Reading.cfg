SPECIFICATION ReadingSpec
CONSTANTS
  MaxForeign = 2
  RowIds = {1, 2, 3}
  FirstRows <- First
  PageSize = 1
  MaxListEdits = 2
  LastDay = 3
  MonthLengths <- Months
  LastSecond = 5
  PlannedSeconds = 3
  MinuteLength = 2
INVARIANTS RefreshedIsNotStale NewerReadIsNotForgotten ReadToTheEndIsWhole AnswersAreTaken OffersAreHonoured AnswersAreBelieved
PROPERTIES ShownCatchesUp PageComesBack
CHECK_DEADLOCK FALSE
