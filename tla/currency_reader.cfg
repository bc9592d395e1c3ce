\* One reader calling every operation of the part_001 service while the
\* updater runs its first refresh and the import; the store and HTTP calls
\* may fail.  Day 1 is a holiday and the run starts at 16:00 of day 2, so
\* the 90-day file lists days 0 and 2 and the import fills day 1.  The
\* reader can always call again, so nothing deadlocks.
\* FairSpec makes the Run goroutine fair, for the liveness of its shutdown.
CONSTANTS
  eur = eur
  usd = usd
  gbp = gbp
  r1 = r1
  Unparsable = Unparsable
  Absent = Absent
  Eur <- eur
  Usd <- usd
  Others = {gbp}
  Published = {usd}
  Readers = {r1}
  Version = "part_001"
  Failures = TRUE
  SlowCalls = TRUE
  Holidays = {1}
  StartHour = 64
  MaxHour = 64
  MaxRestarts = 0
SPECIFICATION FairSpec
INVARIANT ImportRepairsHistory
PROPERTY RunStopsWhenCancelled
