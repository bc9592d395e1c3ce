\* The only outputLoop panics while a writer is blocked on a full channel.
\* The system stops there, so deadlock is not reported: the liveness
\* property is what fails.
CONSTANTS
  Writers = {w1}
  RunnerCount = 1
  BatchSize = 1
  AggregationSize = 1
  BufferSize = 1
  MaxWrite = 1
  MaxMsgs = 3
  FoldCanFail = FALSE
  MaxPanics = 1
SPECIFICATION FairSpec
PROPERTY RunReturns
CHECK_DEADLOCK FALSE
