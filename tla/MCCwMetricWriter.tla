-------------------------- MODULE MCCwMetricWriter --------------------------
(***************************************************************************)
(* Checks cwWriter.Write against a reference over batches of BatchSizes    *)
(* ordinary data with at most one unusual datum (each kind of OddData) at  *)
(* a position of OddPositions, any PutMetricData calls failing, and the    *)
(* writer enabled or not.                                                  *)
(***************************************************************************)
EXTENDS CwMetricWriter, FiniteSets, TLC

CONSTANTS
  BatchSizes,     \* lengths of the batches tried (around multiples of 20)
  OddPositions,   \* where in the batch the unusual datum may be (0: none)
  MaxCalls        \* calls that may fail are among 1..MaxCalls

VARIABLES enabled, batch, failed, output

Plain == [priority |-> PriorityHigh, ts |-> Zero, dimsOk |-> TRUE, named |-> TRUE]

(* The unusual data: low and zero priority, timestamps either side of the *)
(* window's two edges, an invalid dimension, no metric name.            *)
OddData ==
  { [Plain EXCEPT !.priority = 1], [Plain EXCEPT !.priority = 0],
    [Plain EXCEPT !.ts = minusOneWeek - 1], [Plain EXCEPT !.ts = minusOneWeek],
    [Plain EXCEPT !.ts = plusOneHour], [Plain EXCEPT !.ts = plusOneHour + 1],
    [Plain EXCEPT !.dimsOk = FALSE], [Plain EXCEPT !.named = FALSE] }

NotRun == [calls |-> <<"not run">>, delivered |-> <<>>]

Batches ==
  LET datum(i, kind) == [id |-> i, priority |-> kind.priority, ts |-> kind.ts,
                         dimsOk |-> kind.dimsOk, named |-> kind.named]
  IN UNION { { [i \in 1..n |-> datum(i, IF i = p THEN odd ELSE Plain)]
               : p \in OddPositions \cap 0..n, odd \in OddData }
             : n \in BatchSizes }

Init ==
  /\ enabled \in BOOLEAN
  /\ batch \in Batches
  /\ failed \in SUBSET (1..MaxCalls)
  /\ output = NotRun

Run ==
  /\ output = NotRun
  /\ output' = Write(enabled, batch, failed)
  /\ UNCHANGED <<enabled, batch, failed>>

Spec == Init /\ [][Run]_<<enabled, batch, failed, output>>

-----------------------------------------------------------------------------
(* The reference: the data buildMetricData keeps, split into consecutive *)
(* calls of chunkSizeCloudWatch data (the last one shorter), so that the *)
(* k-th kept datum travels in call (k - 1) \div 20 + 1.                  *)
RefCalls(data) ==
  [k \in 1..((Len(data) + chunkSizeCloudWatch - 1) \div chunkSizeCloudWatch) |->
     SubSeq(data, (k - 1) * chunkSizeCloudWatch + 1,
            IF k * chunkSizeCloudWatch > Len(data) THEN Len(data)
            ELSE k * chunkSizeCloudWatch)]

(* The data CloudWatch is meant to get: high priority, a timestamp (now  *)
(* for a zero one) within the closed window from one week ago to one     *)
(* hour ahead, valid dimensions and a name.                              *)
Eligible(d) ==
  /\ d.priority = PriorityHigh
  /\ d.ts = Zero \/ d.ts \in minusOneWeek..plusOneHour
  /\ d.dimsOk /\ d.named

(* Write sends every eligible datum exactly once, in batch order, in the *)
(* fewest calls of at most 20 data, never an empty call; a failed call   *)
(* loses exactly its own data and the calls after it are still made.     *)
WriteMatchesReference ==
  output # NotRun =>
    LET data == IF enabled THEN SelectSeq(batch, Eligible) ELSE <<>>
    IN /\ output.calls = RefCalls(data)
       /\ output.delivered =
            SelectSeq(data, LAMBDA d :
              \E j \in DOMAIN data : data[j] = d
                 /\ (j - 1) \div chunkSizeCloudWatch + 1 \notin failed)

-----------------------------------------------------------------------------
(* Data for Id: a metric name and a dimension map over small names and   *)
(* values without the separators, with every iteration order.            *)
IdNames  == {<<97>>, <<98>>}                       \* "a", "b"
DimNames == {<<97>>, <<98>>, <<97, 98>>}           \* "a", "b", "ab"
DimVals  == {<<>>, <<97>>, <<98, 97>>}             \* "", "a", "ba"

IdData ==
  UNION { { [name |-> n, dims |-> dims, order |-> o] : o \in SetToSeqs(DOMAIN dims) }
          : n \in IdNames, dims \in UNION { [D -> DimVals] : D \in SUBSET DimNames } }

IdOf(d) == Id(d.name, d.dims, d.order)

=============================================================================
