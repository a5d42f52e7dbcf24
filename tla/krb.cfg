SPECIFICATION LibSpec
CONSTANTS
  Absent = Absent
  Fns <- Every
  Caches <- MCCaches
  Inputs <- WithInput
  MaxLife = 1
  Sides <- EverySide
  Attempts = 4
INVARIANTS FirstIsTgt Balanced
PROPERTY NothingHeldAtExit ReleasesWhatItHolds StoredWhole SurvivesStore
