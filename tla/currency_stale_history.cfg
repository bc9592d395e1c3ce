\* The part_001 updater alone, no failures, no holidays: Run starts at
\* 15:00 of day 1, an hour before the ECB publishes that day's rates, and
\* the clock runs to midnight.
CONSTANTS
  eur = eur
  usd = usd
  gbp = gbp
  r1 = r1
  Unparsable = Unparsable
  Absent = Absent
  Eur <- eur
  Usd <- usd
  Others = {gbp}
  Published = {usd, gbp}
  Readers = {}
  Version = "part_001"
  Failures = FALSE
  SlowCalls = FALSE
  Holidays = {}
  StartHour = 39
  MaxHour = 48
  MaxRestarts = 0
SPECIFICATION Spec
INVARIANT HistoryHoldsRatesOfDay
CHECK_DEADLOCK FALSE
