\* Aggregation on, two writers, two outputLoops (one may panic), fold errors.
CONSTANTS
  Writers = {w1, w2}
  RunnerCount = 2
  BatchSize = 2
  AggregationSize = 2
  BufferSize = 1
  MaxWrite = 3
  MaxMsgs = 5
  FoldCanFail = TRUE
  MaxPanics = 1
SPECIFICATION Spec
SYMMETRY WriterSymmetry
INVARIANT TypeOK
INVARIANT Conservation
INVARIANT FormationOrder
INVARIANT WellFormedDispatch
PROPERTY QueueRefinement
