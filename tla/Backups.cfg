SPECIFICATION Spec
CONSTANTS
  Starts <- MCStarts
  Offers <- MCOffers
  Selections <- MCSelections
  Schedules <- MCSchedules
  Interval = 2
  Versions = {1, 2}
  Budgets <- MCBudgets
INVARIANTS StoredCoherent RollbackKept
PROPERTIES RestoreExact
CHECK_DEADLOCK FALSE
