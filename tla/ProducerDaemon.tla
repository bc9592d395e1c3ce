--------------------------- MODULE ProducerDaemon ---------------------------
(***************************************************************************)
(* The stream.ProducerDaemon of src/unnamed/part_006: callers Write        *)
(* messages under d.lck; applyAggregation folds AggregationSize raw        *)
(* messages into one carrier, flushBatch cuts BatchSize carriers from the  *)
(* front of d.batch and pushes them onto the bounded OutputChannel; the    *)
(* tickerLoop forces flushAll on every tick; RunnerCount outputLoops drain *)
(* the channel into the sink; Run closes the daemon (flushAll, then        *)
(* outCh.Close) on kernel cancellation or when a task dies.                *)
(*                                                                         *)
(* Messages are the numbers 1..MaxMsgs in the order callers hand them to   *)
(* the daemon; a carrier is the sequence of raw messages it carries (a     *)
(* single message when aggregation is off), a batch a sequence of         *)
(* carriers.  Time is not modelled: a tick may come whenever the ticker    *)
(* loop is free, so ticker.Reset in Write has no effect on the state.      *)
(***************************************************************************)
EXTENDS Naturals, Sequences, SequencesExt

CONSTANTS
  Writers,          \* goroutines calling Write
  RunnerCount,      \* settings.RunnerCount: number of outputLoops
  BatchSize,        \* settings.BatchSize
  AggregationSize,  \* settings.AggregationSize (1 = aggregation off)
  BufferSize,       \* settings.BufferSize: capacity of the OutputChannel
  MaxWrite,         \* most messages handed to one Write call
  MaxMsgs,          \* bound: messages written over the whole behaviour
  FoldCanFail,      \* whether the AggregateMarshaller may return an error
  MaxPanics         \* bound: outputLoops that may panic inside output.Write

ASSUME /\ Writers # {}
       /\ RunnerCount \in Nat \ {0}
       /\ BatchSize \in Nat \ {0}
       /\ AggregationSize \in Nat \ {0}
       /\ BufferSize \in Nat \ {0}
       /\ MaxWrite \in Nat /\ MaxMsgs \in Nat
       /\ FoldCanFail \in BOOLEAN
       /\ MaxPanics \in 0..RunnerCount

Runners == 1..RunnerCount
Msgs    == 1..MaxMsgs
Free    == "free"              \* d.lck not held
Ticker  == "ticker"            \* the tickerLoop goroutine
Closer  == "run"               \* Run executing d.close()
FoldOutcomes == IF FoldCanFail THEN BOOLEAN ELSE {TRUE}

VARIABLES
  nextMsg,    \* the next message a caller hands to Write
  aggregate,  \* d.aggregate: raw messages not yet folded
  batch,      \* d.batch: carriers not yet dispatched
  lck,        \* holder of d.lck
  ready,      \* readyBatch the lock holder is pushing into outCh
  wpc,        \* per writer: "idle" or blocked in outCh.Write ("push")
  tpc,        \* tickerLoop: "loop", "push" (in flushBatch) or "done"
  rpc,        \* Run: "select", "push" (in close), "wait" (cfn.Wait), "done"
  cancelled,  \* kernelCtx is done
  dying,      \* the coffin is dying: some task returned an error
  outCh,      \* OutputChannel: buffered ready batches
  outClosed,  \* OutputChannel closed
  opc,        \* per outputLoop: "read", "write" (in output.Write) or "done"
  inflight,   \* per outputLoop: the batch it hands to output.Write
  sunk,       \* messages the sink accepted, in the order it accepted them
  lost,       \* messages dropped: fold error, sink error, closed channel
  panics      \* outputLoops that panicked

vars == <<nextMsg, aggregate, batch, lck, ready, wpc, tpc, rpc, cancelled,
          dying, outCh, outClosed, opc, inflight, sunk, lost, panics>>

daemon  == <<aggregate, batch>>
workers == <<opc, inflight, sunk, panics>>

(* The raw messages inside a batch, and inside a sequence of batches. *)
Ids(b)  == FlattenSeq(b)
Ids2(q) == FlattenSeq(FlattenSeq(q))

(* The context every task of the coffin runs with: cancelled with the    *)
(* kernel context or when the coffin starts dying.                       *)
TaskCtxDone == cancelled \/ dying

-----------------------------------------------------------------------------
(* flushAggregate: cut up to AggregationSize messages from the front of  *)
(* the aggregate buffer and fold them into one carrier.  On a marshaller *)
(* error the cut messages are gone and no carrier is produced.           *)
(* Mutant: the threshold comparison off by one, cutting one message too *)
(* many once the buffer is past AggregationSize.                         *)
AggSizeOffByOne(agg) ==
  IF Len(agg) <= AggregationSize THEN Len(agg) ELSE AggregationSize + 1

AggSize(agg) == IF Len(agg) < AggregationSize THEN Len(agg) ELSE AggregationSize

(* Mutant: the remainder re-slices from the last folded message, as in *)
(* d.aggregate[size-1:].                                              *)
FlushAggregateKeepsLast(agg, foldOk) ==
  LET readyAggregate == SubSeq(agg, 1, AggSize(agg))
      failed         == agg # <<>> /\ ~foldOk
  IN [carriers  |-> IF agg = <<>> \/ failed THEN <<>> ELSE <<readyAggregate>>,
      aggregate |-> SubSeq(agg, AggSize(agg), Len(agg)),
      dropped   |-> IF failed THEN readyAggregate ELSE <<>>,
      failed    |-> failed]

FlushAggregate(agg, foldOk) ==
  LET readyAggregate == SubSeq(agg, 1, AggSize(agg))
      failed         == agg # <<>> /\ ~foldOk
  IN [carriers  |-> IF agg = <<>> \/ failed THEN <<>> ELSE <<readyAggregate>>,
      aggregate |-> SubSeq(agg, AggSize(agg) + 1, Len(agg)),
      dropped   |-> IF failed THEN readyAggregate ELSE <<>>,
      failed    |-> failed]

(* applyAggregation: a pass-through when aggregation is off; otherwise   *)
(* append, and fold once the buffer reaches AggregationSize.             *)
(* Mutant: the below-threshold return happens before the append. *)
ApplyAggregationNoAppend(in, foldOk) ==
  IF AggregationSize <= 1
  THEN [carriers |-> [i \in DOMAIN in |-> <<in[i]>>], aggregate |-> aggregate,
        dropped |-> <<>>, failed |-> FALSE]
  ELSE IF Len(aggregate \o in) < AggregationSize
  THEN [carriers |-> <<>>, aggregate |-> aggregate,
        dropped |-> <<>>, failed |-> FALSE]
  ELSE FlushAggregate(aggregate \o in, foldOk)

ApplyAggregation(in, foldOk) ==
  IF AggregationSize <= 1
  THEN [carriers |-> [i \in DOMAIN in |-> <<in[i]>>], aggregate |-> aggregate,
        dropped |-> <<>>, failed |-> FALSE]
  ELSE IF Len(aggregate \o in) < AggregationSize
  THEN [carriers |-> <<>>, aggregate |-> aggregate \o in,
        dropped |-> <<>>, failed |-> FALSE]
  ELSE FlushAggregate(aggregate \o in, foldOk)

(* flushBatch: the front min(BatchSize, Len) carriers, and the rest. *)
BatchCut(b)   == IF Len(b) < BatchSize THEN Len(b) ELSE BatchSize
ReadyBatch(b) == SubSeq(b, 1, BatchCut(b))
RestBatch(b)  == SubSeq(b, BatchCut(b) + 1, Len(b))

(* flushAll: flushAggregate, append its carrier, flushBatch; a fold      *)
(* error returns before flushBatch.                                      *)
(* Mutant: flushAll returns after folding, never calling flushBatch. *)
FlushAllNoBatch(foldOk) ==
  LET fa == FlushAggregate(aggregate, foldOk)
  IN [failed |-> fa.failed, aggregate |-> fa.aggregate, dropped |-> fa.dropped,
      batch |-> IF fa.failed THEN batch ELSE batch \o fa.carriers,
      ready |-> <<>>]

FlushAll(foldOk) ==
  LET fa == FlushAggregate(aggregate, foldOk)
      b  == batch \o fa.carriers
  IN [failed    |-> fa.failed,
      aggregate |-> fa.aggregate,
      dropped   |-> fa.dropped,
      batch     |-> IF fa.failed THEN batch ELSE RestBatch(b),
      ready     |-> IF fa.failed THEN <<>> ELSE ReadyBatch(b)]

(* OutputChannel.Write of the lock holder's ready batch: dropped when    *)
(* the channel is closed, otherwise enqueued once there is room.         *)
(* Mutant: a send that never waits for room in the channel. *)
OutChWriteUnbounded ==
  /\ ready # <<>>
  /\ outCh' = IF outClosed THEN outCh ELSE Append(outCh, ready)
  /\ lost'  = IF outClosed THEN lost \o Ids(ready) ELSE lost
  /\ ready' = <<>>

OutChWrite ==
  /\ ready # <<>>
  /\ outClosed \/ Len(outCh) < BufferSize
  /\ outCh' = IF outClosed THEN outCh ELSE Append(outCh, ready)
  /\ lost'  = IF outClosed THEN lost \o Ids(ready) ELSE lost
  /\ ready' = <<>>

-----------------------------------------------------------------------------
Init ==
  /\ nextMsg = 1
  /\ aggregate = <<>>
  /\ batch = <<>>
  /\ lck = Free
  /\ ready = <<>>
  /\ wpc = [w \in Writers |-> "idle"]
  /\ tpc = "loop"
  /\ rpc = "select"
  /\ cancelled = FALSE
  /\ dying = FALSE
  /\ outCh = <<>>
  /\ outClosed = FALSE
  /\ opc = [r \in Runners |-> "read"]
  /\ inflight = [r \in Runners |-> <<>>]
  /\ sunk = <<>>
  /\ lost = <<>>
  /\ panics = 0

(* Write(batch): k fresh messages, under d.lck. *)
Incoming(k) == [i \in 1..k |-> nextMsg + i - 1]
Aggregated(k, foldOk) == ApplyAggregation(Incoming(k), foldOk)
(* Mutant: the new carriers are put in front of d.batch. *)
AppendedInFront(k, foldOk) == Aggregated(k, foldOk).carriers \o batch

Appended(k, foldOk) == batch \o Aggregated(k, foldOk).carriers

WriteLocked(w, k, foldOk) ==
  /\ lck = Free
  /\ wpc[w] = "idle"
  /\ nextMsg + k <= MaxMsgs + 1
  /\ nextMsg' = nextMsg + k
  /\ aggregate' = Aggregated(k, foldOk).aggregate
  /\ UNCHANGED <<tpc, rpc, cancelled, dying, outClosed, outCh>>
  /\ UNCHANGED workers

(* applyAggregation failed: Write returns the error, batch untouched. *)
WriteFailed(w, k, foldOk) ==
  /\ WriteLocked(w, k, foldOk)
  /\ Aggregated(k, foldOk).failed
  /\ lost' = lost \o Aggregated(k, foldOk).dropped
  /\ UNCHANGED <<batch, lck, ready, wpc>>

(* Below BatchSize: append and return nil. *)
WriteBuffered(w, k, foldOk) ==
  /\ WriteLocked(w, k, foldOk)
  /\ ~Aggregated(k, foldOk).failed
  /\ Len(Appended(k, foldOk)) < BatchSize
  /\ batch' = Appended(k, foldOk)
  /\ UNCHANGED <<lck, ready, wpc, lost>>

(* At BatchSize: ticker.Reset, flushBatch; the push keeps d.lck held. *)
WriteFlush(w, k, foldOk) ==
  /\ WriteLocked(w, k, foldOk)
  /\ ~Aggregated(k, foldOk).failed
  /\ Len(Appended(k, foldOk)) >= BatchSize
  /\ batch' = RestBatch(Appended(k, foldOk))
  /\ ready' = ReadyBatch(Appended(k, foldOk))
  /\ lck' = w
  /\ wpc' = [wpc EXCEPT ![w] = "push"]
  /\ UNCHANGED lost

Write(w) ==
  \E k \in 0..MaxWrite, foldOk \in FoldOutcomes :
    \/ WriteFailed(w, k, foldOk)
    \/ WriteBuffered(w, k, foldOk)
    \/ WriteFlush(w, k, foldOk)

(* The writer's outCh.Write completes; Write returns nil, d.lck released. *)
WritePush(w) ==
  /\ lck = w
  /\ wpc[w] = "push"
  /\ OutChWrite
  /\ lck' = Free
  /\ wpc' = [wpc EXCEPT ![w] = "idle"]
  /\ UNCHANGED <<nextMsg, tpc, rpc, cancelled, dying, outClosed>>
  /\ UNCHANGED <<daemon, workers>>

(* A tick: flushAll under d.lck; a fold error is only logged. *)
Tick ==
  /\ tpc = "loop"
  /\ lck = Free
  /\ \E foldOk \in FoldOutcomes :
       LET fl == FlushAll(foldOk) IN
       /\ aggregate' = fl.aggregate
       /\ batch' = fl.batch
       /\ ready' = fl.ready
       /\ lost' = lost \o fl.dropped
       /\ lck' = IF fl.ready # <<>> THEN Ticker ELSE Free
       /\ tpc' = IF fl.ready # <<>> THEN "push" ELSE "loop"
  /\ UNCHANGED <<nextMsg, wpc, rpc, cancelled, dying, outCh, outClosed>>
  /\ UNCHANGED workers

TickPush ==
  /\ lck = Ticker
  /\ tpc = "push"
  /\ OutChWrite
  /\ lck' = Free
  /\ tpc' = "loop"
  /\ UNCHANGED <<nextMsg, wpc, rpc, cancelled, dying, outClosed>>
  /\ UNCHANGED <<daemon, workers>>

(* ctx.Done in the ticker loop's select: ticker.Stop and return. *)
TickerStop ==
  /\ tpc = "loop"
  /\ TaskCtxDone
  /\ tpc' = "done"
  /\ UNCHANGED <<nextMsg, lck, ready, wpc, rpc, cancelled, dying, outCh,
                 outClosed, lost>>
  /\ UNCHANGED <<daemon, workers>>

(* The kernel context is cancelled. *)
Cancel ==
  /\ ~cancelled
  /\ cancelled' = TRUE
  /\ UNCHANGED <<nextMsg, lck, ready, wpc, tpc, rpc, dying, outCh, outClosed,
                 lost>>
  /\ UNCHANGED <<daemon, workers>>

(* Run leaves its select on cfn.Dying or kernelCtx.Done and calls        *)
(* d.close(): flushAll under d.lck, then the deferred outCh.Close.  When *)
(* flushAll fails, Run returns the error at once, without cfn.Wait.      *)
RunClose ==
  /\ rpc = "select"
  /\ TaskCtxDone
  /\ lck = Free
  /\ \E foldOk \in FoldOutcomes :
       LET fl == FlushAll(foldOk) IN
       /\ aggregate' = fl.aggregate
       /\ batch' = fl.batch
       /\ ready' = fl.ready
       /\ lost' = lost \o fl.dropped
       /\ lck' = IF fl.ready # <<>> THEN Closer ELSE Free
       /\ outClosed' = (fl.ready = <<>>)
       /\ rpc' = CASE fl.failed        -> "done"
                   [] fl.ready # <<>>  -> "push"
                   [] OTHER            -> "wait"
  /\ UNCHANGED <<nextMsg, wpc, tpc, cancelled, dying, outCh>>
  /\ UNCHANGED workers

ClosePush ==
  /\ lck = Closer
  /\ rpc = "push"
  /\ OutChWrite
  /\ outClosed' = TRUE
  /\ lck' = Free
  /\ rpc' = "wait"
  /\ UNCHANGED <<nextMsg, wpc, tpc, cancelled, dying>>
  /\ UNCHANGED <<daemon, workers>>

(* cfn.Wait returns once every task has returned. *)
RunWait ==
  /\ rpc = "wait"
  /\ tpc = "done"
  /\ \A r \in Runners : opc[r] = "done"
  /\ rpc' = "done"
  /\ UNCHANGED <<nextMsg, lck, ready, wpc, tpc, cancelled, dying, outCh,
                 outClosed, lost>>
  /\ UNCHANGED <<daemon, workers>>

(* outputLoop: outCh.Read; a closed and drained channel ends the loop. *)
(* Mutant: the loop ignores the channel's closed flag and never returns. *)
ReadIgnoresClose(r) ==
  /\ opc[r] = "read"
  /\ outCh # <<>>
  /\ inflight' = [inflight EXCEPT ![r] = Head(outCh)]
  /\ outCh' = Tail(outCh)
  /\ opc' = [opc EXCEPT ![r] = "write"]
  /\ UNCHANGED <<nextMsg, lck, ready, wpc, tpc, rpc, cancelled, dying,
                 outClosed, sunk, lost, panics>>
  /\ UNCHANGED daemon

Read(r) ==
  /\ opc[r] = "read"
  /\ \/ /\ outCh # <<>>
        /\ inflight' = [inflight EXCEPT ![r] = Head(outCh)]
        /\ outCh' = Tail(outCh)
        /\ opc' = [opc EXCEPT ![r] = "write"]
     \/ /\ outCh = <<>>
        /\ outClosed
        /\ opc' = [opc EXCEPT ![r] = "done"]
        /\ UNCHANGED <<inflight, outCh>>
  /\ UNCHANGED <<nextMsg, lck, ready, wpc, tpc, rpc, cancelled, dying,
                 outClosed, sunk, lost, panics>>
  /\ UNCHANGED daemon

(* output.Write: accepted, or an error (cancelled or other) that is     *)
(* only logged; either way the loop reads again.                        *)
SinkWrite(r) ==
  /\ opc[r] = "write"
  /\ \/ /\ sunk' = sunk \o Ids(inflight[r])
        /\ UNCHANGED lost
     \/ /\ lost' = lost \o Ids(inflight[r])
        /\ UNCHANGED sunk
  /\ inflight' = [inflight EXCEPT ![r] = <<>>]
  /\ opc' = [opc EXCEPT ![r] = "read"]
  /\ UNCHANGED <<nextMsg, lck, ready, wpc, tpc, rpc, cancelled, dying,
                 outCh, outClosed, panics>>
  /\ UNCHANGED daemon

(* A panic inside output.Write: the coffin turns it into the task's     *)
(* error, the loop ends and the coffin starts dying.                    *)
WorkerPanic(r) ==
  /\ opc[r] = "write"
  /\ panics < MaxPanics
  /\ lost' = lost \o Ids(inflight[r])
  /\ inflight' = [inflight EXCEPT ![r] = <<>>]
  /\ opc' = [opc EXCEPT ![r] = "done"]
  /\ panics' = panics + 1
  /\ dying' = TRUE
  /\ UNCHANGED <<nextMsg, lck, ready, wpc, tpc, rpc, cancelled, outCh,
                 outClosed, sunk>>
  /\ UNCHANGED daemon

Next ==
  \/ \E w \in Writers : Write(w) \/ WritePush(w)
  \/ Tick \/ TickPush \/ TickerStop
  \/ Cancel
  \/ RunClose \/ ClosePush \/ RunWait
  \/ \E r \in Runners : Read(r) \/ SinkWrite(r) \/ WorkerPanic(r)

Spec == Init /\ [][Next]_vars

(* Callers are not fair, nor is cancellation.  A goroutine blocked in a *)
(* channel send or read proceeds once it can (weak fairness).  Ticks,   *)
(* close and the ticker's ctx.Done branch need d.lck or win a random    *)
(* select, so they are only intermittently enabled: sync.Mutex's        *)
(* starvation mode and select's uniform choice give strong fairness.    *)
FairSpec ==
  /\ Spec
  /\ \A w \in Writers : WF_vars(WritePush(w))
  /\ SF_vars(Tick) /\ WF_vars(TickPush) /\ SF_vars(TickerStop)
  /\ SF_vars(RunClose) /\ WF_vars(ClosePush) /\ WF_vars(RunWait)
  /\ \A r \in Runners : WF_vars(Read(r)) /\ WF_vars(SinkWrite(r))

-----------------------------------------------------------------------------
Carriers == Seq(Msgs)
Batches  == Seq(Carriers)

TypeOK ==
  /\ nextMsg \in 1..MaxMsgs + 1
  /\ aggregate \in Seq(Msgs)
  /\ batch \in Batches
  /\ lck \in {Free, Ticker, Closer} \cup Writers
  /\ ready \in Batches
  /\ wpc \in [Writers -> {"idle", "push"}]
  /\ tpc \in {"loop", "push", "done"}
  /\ rpc \in {"select", "push", "wait", "done"}
  /\ cancelled \in BOOLEAN /\ dying \in BOOLEAN /\ outClosed \in BOOLEAN
  /\ outCh \in Seq(Batches) /\ Len(outCh) <= BufferSize
  /\ opc \in [Runners -> {"read", "write", "done"}]
  /\ inflight \in [Runners -> Batches]
  /\ sunk \in Seq(Msgs) /\ lost \in Seq(Msgs)
  /\ panics \in 0..MaxPanics

(* Every raw message a caller handed over, wherever it is now. *)
Live ==
  aggregate \o Ids(batch) \o Ids(ready) \o Ids2(outCh)
    \o FlattenSeq([r \in Runners |-> Ids(inflight[r])]) \o sunk \o lost

(* Message accounting across Write, the ticker, close and the            *)
(* outputLoops: every message handed to Write is in exactly one place -- *)
(* a buffer, the channel, a worker, the sink or the dropped ones -- so   *)
(* no cut in flushAggregate/flushBatch loses or duplicates a message.    *)
Conservation ==
  /\ Len(Live) = nextMsg - 1
  /\ \A m \in 1..nextMsg - 1 : \E i \in DOMAIN Live : Live[i] = m

(* Batches are formed in arrival order: what is queued in the channel,   *)
(* then the batch being pushed, then d.batch, then d.aggregate, read     *)
(* front to back, is strictly increasing, whichever of the writers, the  *)
(* ticker and close cut them.                                            *)
FormationOrder ==
  IsSorted(Ids2(outCh) \o Ids(ready) \o Ids(batch) \o aggregate, <)

(* Every carrier folds 1..AggregationSize consecutive messages and every *)
(* dispatched batch holds 1..BatchSize carriers, for the threshold cuts  *)
(* in Write and the forced cuts of flushAll alike.                       *)
IsCarrier(c) ==
  /\ 1 <= Len(c) /\ Len(c) <= AggregationSize
  /\ \A i \in 1..Len(c) - 1 : c[i + 1] = c[i] + 1
IsDispatched(b) ==
  /\ 1 <= Len(b) /\ Len(b) <= BatchSize
  /\ \A i \in DOMAIN b : IsCarrier(b[i])
WellFormedDispatch ==
  /\ \A i \in DOMAIN batch : IsCarrier(batch[i])
  /\ \A i \in DOMAIN outCh : IsDispatched(outCh[i])
  /\ ready # <<>> => IsDispatched(ready)
  /\ \A r \in Runners : opc[r] = "write" => IsDispatched(inflight[r])

(* With a single outputLoop the sink receives messages in the order      *)
(* Write was called (the spec's first testable property, aggregation     *)
(* aside).                                                               *)
SinkOrder == IsSorted(sunk, <)

(* Spec, data model: outside a flush, d.aggregate holds fewer than       *)
(* AggregationSize and d.batch fewer than BatchSize entries.             *)
BuffersBelowThreshold ==
  lck = Free =>
    /\ AggregationSize > 1 => Len(aggregate) < AggregationSize
    /\ Len(batch) < BatchSize

(* Spec, lifecycle: shutdown flushes all buffers, then closes the        *)
(* channel -- the step of close() that closes outCh leaves both buffers  *)
(* empty.                                                                *)
DrainedOnClose ==
  [][~outClosed /\ outClosed' => aggregate' = <<>> /\ batch' = <<>>]_vars

(* Spec, lifecycle: after shutdown no Write call succeeds -- no Write    *)
(* returns nil once the channel is closed.                               *)
WriteReturnsNil(w) ==
  \/ \E k \in 0..MaxWrite, foldOk \in FoldOutcomes : WriteBuffered(w, k, foldOk)
  \/ WritePush(w)
NoWriteAfterClose ==
  [][outClosed => \A w \in Writers : ~WriteReturnsNil(w)]_vars

(* While the daemon is not shutting down, the ticker's forced flush      *)
(* eventually moves every buffered message out of d.aggregate/d.batch.   *)
InDaemon(m) == m \in ToSet(aggregate \o Ids(batch))
Dispatched == \A m \in Msgs : InDaemon(m) ~> (~InDaemon(m) \/ TaskCtxDone)

(* Once the kernel context is cancelled or a task dies, Run returns:     *)
(* close() gets d.lck, every outputLoop drains the closed channel and    *)
(* the ticker loop stops.                                                *)
RunReturns == TaskCtxDone ~> rpc = "done"

(* Refinement: the daemon implements ProducerDaemonQueue.  The abstract *)
(* FIFO is the channel, the batch being pushed, d.batch and d.aggregate *)
(* read front to back; a worker holds its in-flight batch.  Every step  *)
(* of Write, the ticker, close and the outputLoops is a step of the     *)
(* queue or leaves it unchanged: messages join only at the back, leave  *)
(* only from the front to a worker, and vanish only into lost.          *)
Queue == INSTANCE ProducerDaemonQueue WITH
  Workers <- Runners,
  next    <- nextMsg,
  pending <- Ids2(outCh) \o Ids(ready) \o Ids(batch) \o aggregate,
  held    <- [r \in Runners |-> Ids(inflight[r])]
QueueRefinement == Queue!QSpec

=============================================================================
