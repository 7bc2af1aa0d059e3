SPECIFICATION Spec
CONSTANTS
  Dom <- MCDom
  Month <- MCMonth
  MonthsPerYear = 2
  DaysPerWeek = 3
  HoursPerDay = 2
  MinutesPerHour = 2
  SecondsPerMinute = 2
  SearchDays = 5
  Width = 3
  Schedules <- MCSchedules
  Starts <- MCStarts
  Duration = 1
  MaxAttempts = 2
  FirstDelay = 1
  MaxDelay = 1
  DialTime = 1
  MaxTicks = 5
  MaxFlips = 2
  Requests = 1
INVARIANTS NextIsEarliest RecoveredInTime
CHECK_DEADLOCK FALSE
