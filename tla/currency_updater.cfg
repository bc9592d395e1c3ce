\* The updater alone (no readers), with failing store and HTTP calls; the
\* clock runs from 20:00 of day 0 past midnight to 05:00, so the second
\* refresh at 05:00 follows a first one more than 8 hours before.  Run
\* returns once the ctx is done: a state with nothing left to do is not a
\* deadlock.
CONSTANTS
  eur = eur
  usd = usd
  gbp = gbp
  r1 = r1
  Unparsable = Unparsable
  Absent = Absent
  Eur <- eur
  Usd <- usd
  Others = {gbp}
  Published = {usd, gbp}
  Readers = {}
  Version = "part_001"
  Failures = TRUE
  SlowCalls = TRUE
  Holidays = {}
  StartHour = 20
  MaxHour = 29
  MaxRestarts = 1
SPECIFICATION Spec
INVARIANT RefreshDateVouchesRates
CHECK_DEADLOCK FALSE
VIEW NoHistoryView
