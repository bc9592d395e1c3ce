\* fillInGapDays over responses of up to 3 entries whose dates span up to
\* 181 days, and cwWriter.Write over batches around multiples of 20.
CONSTANTS
  DayUniverse = {0, 2, 3, 180, 181}
  RateValues = {1, 2}
  MaxEntries = 3
  Unparsable = Unparsable
  Zero = Zero
  BatchSizes = {0, 1, 19, 20, 21, 40, 41}
  OddPositions = {0, 1, 20, 21, 41}
  MaxCalls = 3
SPECIFICATION Spec
INVARIANTS FillMatchesReference WriteMatchesReference IdIdentifies
CHECK_DEADLOCK FALSE
