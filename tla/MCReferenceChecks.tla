------------------------- MODULE MCReferenceChecks -------------------------
(***************************************************************************)
(* The pure functions checked against reference definitions, in one     *)
(* model: fillInGapDays (MCCurrencyGapFill) and cwWriter.Write             *)
(* with MetricDatum.Id (MCCwMetricWriter).  An initial state picks one    *)
(* computation and its input; the other computations' variables keep a    *)
(* fixed value, so the state space is the sum of theirs, not the product.  *)
(***************************************************************************)
EXTENDS Naturals

CONSTANTS
  DayUniverse, RateValues, MaxEntries, Unparsable,   \* MCCurrencyGapFill
  BatchSizes, OddPositions, MaxCalls, Zero           \* MCCwMetricWriter

VARIABLES
  check,                      \* "gapfill", "cw" or "id": what is checked
  input, loop, output,        \* MCCurrencyGapFill
  enabled, batch, failed,     \* MCCwMetricWriter
  written,                    \* MCCwMetricWriter's output
  idPair                      \* two data whose Ids are compared

Gap == INSTANCE MCCurrencyGapFill
Cw  == INSTANCE MCCwMetricWriter WITH output <- written

gapVars == <<input, loop, output>>
cwVars  == <<enabled, batch, failed, written>>
vars    == <<check, gapVars, cwVars, idPair>>

GapIdle == input = <<>> /\ loop = Gap!NoLoop /\ output = Gap!NotRun
CwIdle  == enabled = FALSE /\ batch = <<>> /\ failed = {} /\ written = Cw!NotRun
NoPair  == <<>>

Init ==
  \/ check = "gapfill" /\ Gap!Init /\ CwIdle /\ idPair = NoPair
  \/ check = "cw" /\ Cw!Init /\ GapIdle /\ idPair = NoPair
  \/ check = "id" /\ idPair \in Cw!IdData \X Cw!IdData /\ GapIdle /\ CwIdle

Next ==
  \/ check = "gapfill" /\ Gap!Next /\ UNCHANGED <<check, cwVars, idPair>>
  \/ check = "cw" /\ Cw!Run /\ UNCHANGED <<check, gapVars, idPair>>

Spec == Init /\ [][Next]_vars

-----------------------------------------------------------------------------
(* fillInGapDays returns the reference for every response spanning at   *)
(* most 180 days: every missing day filled once, from the most recent    *)
(* earlier day; an unparsable date fails the call (service.go 306-349).  *)
FillMatchesReference == Gap!FillMatchesReference

(* cwWriter.Write sends every eligible datum exactly once, in order, in  *)
(* the fewest calls of at most 20 data; a failed PutMetricData loses     *)
(* only its own data (metric_writer_cw.go 119-213).                      *)
WriteMatchesReference == Cw!WriteMatchesReference

(* MetricDatum.Id identifies a datum by its name and dimensions: whatever *)
(* order Go's map iteration visits the dimensions in, two data have the   *)
(* same Id exactly when they have the same name and the same dimension    *)
(* map (for names and values free of ':' and '-'); metric_writer_cw.go    *)
(* 43-59.                                                                 *)
IdIdentifies ==
  idPair # NoPair =>
    (Cw!IdOf(idPair[1]) = Cw!IdOf(idPair[2])
       <=> idPair[1].name = idPair[2].name /\ idPair[1].dims = idPair[2].dims)

=============================================================================
