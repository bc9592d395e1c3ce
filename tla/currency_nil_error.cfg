\* The service.go version: one reader, the updater, no failures at all.
CONSTANTS
  eur = eur
  usd = usd
  gbp = gbp
  r1 = r1
  Unparsable = Unparsable
  Absent = Absent
  Eur <- eur
  Usd <- usd
  Others = {gbp}
  Published = {usd, gbp}
  Readers = {r1}
  Version = "service_go"
  Failures = FALSE
  SlowCalls = TRUE
  Holidays = {}
  StartHour = 20
  MaxHour = 20
  MaxRestarts = 0
SPECIFICATION Spec
INVARIANT ErrorWhenRateMissing
