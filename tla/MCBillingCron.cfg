\* Two overlapping runs and a renewal through a whole reminder cycle.
SPECIFICATION CronFairSpec
CONSTANTS
  j1 = j1
  j2 = j2
  Jobs = {j1, j2}
  NoticeDays = 1
  Schedule <- ShortSchedule
  PeriodDays = 2
  MaxDay = 8
  MaxGrants = 1
INVARIANTS
  OneMailPerCount
PROPERTIES
  CycleCompletes
CHECK_DEADLOCK FALSE
