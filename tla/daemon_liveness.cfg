\* Fair scheduling of the daemon's goroutines; two writers, one outputLoop
\* (so the sink order is Write order); fold errors.
CONSTANTS
  Writers = {w1, w2}
  RunnerCount = 1
  BatchSize = 2
  AggregationSize = 2
  BufferSize = 1
  MaxWrite = 3
  MaxMsgs = 5
  FoldCanFail = TRUE
  MaxPanics = 0
SPECIFICATION FairSpec
INVARIANT SinkOrder
PROPERTY RunReturns
PROPERTY Dispatched
