SPECIFICATION SendingSpec
CONSTANTS
  Surfaces <- AllForms
  MaxVersion = 3
  MaxKeys = 2
  Paths = {p1}
  Snaps = {1, 2, 3}
  SnapCap = 2
  Ops = {1, 2}
  ReminderCap = 1
  MaxEdits = 1
  MaxMoves = 1
  Runs = {r1, r2}
  MaxCalls = 2
  MaxCrashes = 1
  MaxPicks = 2
INVARIANTS AppliedOnce BaselinesAreHeld ShownOutcomeIsTrue UnseenOutcomeIsListed
PROPERTIES
  NothingIsOverwrittenUnseen ConflictIsNotADeadEnd WritesReviewedBytesOnce LaunchesAreAgreed
CHECK_DEADLOCK FALSE
