\* One run a day, but none in the days before the period ended.
SPECIFICATION CronFairSpec
CONSTANTS
  j1 = j1
  j2 = j2
  Jobs = {j1}
  NoticeDays = 3
  Schedule <- MCSchedule
  PeriodDays = 30
  MaxDay = 20
  MaxGrants = 0
INVARIANTS
  StageOnce
CHECK_DEADLOCK FALSE
