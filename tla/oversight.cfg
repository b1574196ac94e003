\* Four days, a window of two, one day a run; two processes that raise alarms;
\* one open page and two requests; one receipt, two places for its jobs; PV that
\* lasts two days with one day of warning.
SPECIFICATION Spec
CONSTANTS
  Runners = {r1, r2}
  LastDay = 4
  Lookback = 2
  PerRun = 1
  Askers = {p1, p2}
  Nobody = Nobody
  FullCredit = 1
  Threshold = 2
  Tabs = {t1}
  Movers = {m1, m2}
  NoTab = NoTab
  MaxFigure = 2
  Receipts = {o1}
  Jobs = {j1, j2}
  Sweepers = {s1, s2}
  NoJob = NoJob
  SendRetries = 1
  MaxSweeps = 2
  Cycles = {c1}
  LastNightfall = 5
  ExpiryDays = 2
  WarningDays = 1
  MaxEvents <- Budget
\* A part that nothing happens to any more comes to rest.
CHECK_DEADLOCK FALSE
INVARIANTS AlarmsAreTrue ScreensAreRight
PROPERTIES EveryDayIsReported ReceiptComesOnce ExpiryIsAnnounced
