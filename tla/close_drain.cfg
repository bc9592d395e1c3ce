\* One Write of BatchSize+2 messages leaves two batches' worth in d.batch.
CONSTANTS
  Writers = {w1}
  RunnerCount = 1
  BatchSize = 1
  AggregationSize = 1
  BufferSize = 1
  MaxWrite = 3
  MaxMsgs = 3
  FoldCanFail = FALSE
  MaxPanics = 0
SPECIFICATION Spec
PROPERTY DrainedOnClose
