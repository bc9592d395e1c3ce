---------------------------- MODULE CwMetricWriter ----------------------------
(***************************************************************************)
(* The CloudWatch metric writer, cwWriter (src/pkg/mon/metric_writer_cw.go *)
(* lines 111-213).  Write filters a batch in buildMetricData and sends the *)
(* rest in PutMetricData calls of at most chunkSizeCloudWatch data; a      *)
(* failed call is logged and the loop goes on.  A datum is a record        *)
(* [id, priority, ts, dimsOk, named]: ts is its Timestamp in hours         *)
(* relative to clock.Now(), or Zero; dimsOk says no dimension has an empty *)
(* name or value; named says MetricName is not empty.  Namespace, values,  *)
(* units and logging are left out.                                         *)
(***************************************************************************)
EXTENDS Integers, Sequences, SequencesExt

CONSTANT Zero   \* the zero time.Time (a model value)

PriorityHigh == 2
chunkSizeCloudWatch == 20
minusOneWeek == -7 * 24     \* hours
plusOneHour == 1            \* hours

GetPriority == PriorityHigh

(* buildMetricData, per datum: below the writer's priority, outside       *)
(* [now - 1 week, now + 1 hour] after a zero Timestamp is set to now, or  *)
(* with an invalid dimension, it is skipped; datum.Validate (the AWS SDK) *)
(* then rejects an empty MetricName.                                      *)
Kept(data) ==
  LET ts == IF data.ts = Zero THEN 0 ELSE data.ts
  IN /\ data.priority >= GetPriority
     /\ ~(ts < minusOneWeek \/ ts > plusOneHour)
     /\ data.dimsOk
     /\ data.named

(* buildMetricData: the kept data in batch order; it never returns an     *)
(* error, so Write's error branch is never taken.                         *)
BuildMetricData(batch) == SelectSeq(batch, Kept)

(* Mutant: a failed PutMetricData ends the loop (break, not continue). *)
RECURSIVE ChunkLoopBreaks(_, _, _, _)
ChunkLoopBreaks(metricData, i, failed, acc) ==
  IF i >= Len(metricData) THEN acc
  ELSE LET end   == IF i + chunkSizeCloudWatch > Len(metricData)
                    THEN Len(metricData) ELSE i + chunkSizeCloudWatch
           input == SubSeq(metricData, i + 1, end)
           ok    == Len(acc.calls) + 1 \notin failed
           acc2  == [calls     |-> Append(acc.calls, input),
                     delivered |-> IF ok THEN acc.delivered \o input
                                   ELSE acc.delivered]
       IN IF ok THEN ChunkLoopBreaks(metricData, i + chunkSizeCloudWatch, failed, acc2)
          ELSE acc2

(* `for i := 0; i < len(metricData); i += chunkSizeCloudWatch`: the call  *)
(* sends metricData[i:end] with end capped at the length; the n-th call   *)
(* fails when n \in failed, and its data are lost.                        *)
RECURSIVE ChunkLoop(_, _, _, _)
ChunkLoop(metricData, i, failed, acc) ==
  IF i >= Len(metricData) THEN acc
  ELSE LET end   == IF i + chunkSizeCloudWatch > Len(metricData)
                    THEN Len(metricData) ELSE i + chunkSizeCloudWatch
           input == SubSeq(metricData, i + 1, end)
           ok    == Len(acc.calls) + 1 \notin failed
       IN ChunkLoop(metricData, i + chunkSizeCloudWatch, failed,
                    [calls     |-> Append(acc.calls, input),
                     delivered |-> IF ok THEN acc.delivered \o input
                                   ELSE acc.delivered])

NoCalls == [calls |-> <<>>, delivered |-> <<>>]

(* Write: nothing when disabled or for an empty batch; otherwise the     *)
(* PutMetricData calls made and the data CloudWatch accepted.            *)
Write(enabled, batch, failed) ==
  IF ~enabled \/ batch = <<>> THEN NoCalls
  ELSE ChunkLoop(BuildMetricData(batch), 0, failed, NoCalls)

-----------------------------------------------------------------------------
(* MetricDatum.Id and DimensionKey (lines 43-59).  A string is a sequence *)
(* of byte values; Colon and Dash are the two separators the helpers use. *)
(* Dimensions is a map from name to value; `order` lists its names in the *)
(* order Go's randomised map iteration visits them.                       *)
Colon == 58
Dash  == 45

(* sort.Strings: byte-wise lexicographic order. *)
RECURSIVE StrLess(_, _)
StrLess(s, t) ==
  CASE t = <<>>          -> FALSE
    [] s = <<>>          -> TRUE
    [] Head(s) # Head(t) -> Head(s) < Head(t)
    [] OTHER             -> StrLess(Tail(s), Tail(t))

(* strings.Join(elems, "-"). *)
Join(elems) ==
  IF elems = <<>> THEN <<>>
  ELSE FoldLeft(LAMBDA acc, e : acc \o <<Dash>> \o e, Head(elems), Tail(elems))

Flat(dims, order) ==
  [i \in DOMAIN order |-> order[i] \o <<Colon>> \o dims[order[i]]]

(* Mutant: the flattened dimensions are joined unsorted. *)
DimensionKeyUnsorted(dims, order) == Join(Flat(dims, order))

(* DimensionKey: "name:value" per dimension in iteration order,          *)
(* sort.Strings, joined with "-".                                        *)
DimensionKey(dims, order) == Join(SortSeq(Flat(dims, order), StrLess))

(* Id: fmt.Sprintf("%s:%s", MetricName, DimensionKey()). *)
Id(name, dims, order) == name \o <<Colon>> \o DimensionKey(dims, order)

=============================================================================
