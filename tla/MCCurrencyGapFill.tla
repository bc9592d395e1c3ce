-------------------------- MODULE MCCurrencyGapFill --------------------------
(***************************************************************************)
(* Checks fillInGapDays against a reference definition over every ECB     *)
(* response of up to MaxEntries entries drawn from DayUniverse, including  *)
(* spans at the loop's 180-iteration bound.  The `for` loop runs one       *)
(* iteration (FillStep) per step, as FillLoop would; the invariant         *)
(* compares the result with the reference.                                 *)
(***************************************************************************)
EXTENDS CurrencyGapFill, FiniteSets, TLC

CONSTANTS
  DayUniverse,   \* dates an entry may carry
  RateValues,    \* distinguishable rate payloads
  MaxEntries     \* bound: entries in one response

VARIABLES input, loop, output

vars == <<input, loop, output>>

NotRun == [ok |-> FALSE, content |-> <<"not run">>]
NoLoop == [done |-> FALSE, counter |-> -1]

Entries == [time : DayUniverse \cup {Unparsable}, rates : RateValues]

Init ==
  /\ input \in BoundedSeq(Entries, MaxEntries)
  /\ loop = NoLoop
  /\ output = NotRun

(* An unparsable or empty response returns before the loop. *)
Return ==
  /\ output = NotRun /\ loop = NoLoop
  /\ Unparsable \in Times(input) \/ input = <<>>
  /\ output' = FillInGapDays(input)
  /\ UNCHANGED <<input, loop>>

Start ==
  /\ output = NotRun /\ loop = NoLoop
  /\ Unparsable \notin Times(input) /\ input # <<>>
  /\ loop' = FillStart(input)
  /\ UNCHANGED <<input, output>>

Iterate ==
  /\ loop # NoLoop /\ ~loop.done
  /\ loop' = FillStep(DailyRates(input), Max(Times(input)), loop)
  /\ UNCHANGED <<input, output>>

Finish ==
  /\ loop # NoLoop /\ loop.done /\ output = NotRun
  /\ output' = [ok |-> TRUE, content |-> loop.acc]
  /\ UNCHANGED <<input, loop>>

Next == Return \/ Start \/ Iterate \/ Finish

Spec == Init /\ [][Next]_vars

-----------------------------------------------------------------------------
(* The reference: the input followed, in ascending order, by one entry   *)
(* per day between the first and the last date that no entry has, each   *)
(* a copy of the latest earlier date's (last-seen) content.              *)
Reference(content) ==
  IF Unparsable \in Times(content) THEN [ok |-> FALSE, content |-> <<>>]
  ELSE IF content = <<>> THEN [ok |-> TRUE, content |-> <<>>]
  ELSE
    LET D     == Times(content)
        gaps  == SelectSeq([i \in 1..(Max(D) - Min(D)) |-> Min(D) + i - 1],
                           LAMBDA d : d \notin D)
        prev(d) == Max({x \in D : x < d})
    IN [ok |-> TRUE,
        content |-> content \o
          [i \in DOMAIN gaps |->
             [DailyRates(content)[prev(gaps[i])] EXCEPT !.time = gaps[i]]]]

Span(content) ==
  IF Unparsable \in Times(content) \/ content = <<>> THEN 0
  ELSE Max(Times(content)) - Min(Times(content))

(* For every response whose dates span at most 180 days (the 90-day      *)
(* import always does), fillInGapDays returns exactly the reference: its *)
(* 180-iteration bound cuts off no gap day, every missing day is filled  *)
(* once and from the most recent earlier day, and an unparsable date     *)
(* fails the call.                                                       *)
FillMatchesReference ==
  output # NotRun /\ Span(input) <= GapLimit => output = Reference(input)

=============================================================================
