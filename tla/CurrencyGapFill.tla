--------------------------- MODULE CurrencyGapFill ---------------------------
(***************************************************************************)
(* fillInGapDays (src/pkg/currency/service.go, lines 306-349).  The ECB    *)
(* 90-day history has no entries for weekends and holidays; the function   *)
(* appends, for every missing day between the first and the last day of    *)
(* the response, a copy of the most recent earlier day's content with its  *)
(* time replaced.  A day is a natural number (days since an epoch): the    *)
(* YMDLayout formatting and parsing is a bijection on the dates the ECB    *)
(* returns, and Unparsable stands for a Time field GetTime rejects.  A     *)
(* Content is a record [time, rates]; rates is opaque.                     *)
(***************************************************************************)
EXTENDS Naturals, Sequences, SequencesExt

CONSTANT Unparsable   \* a Time field GetTime cannot parse (a model value)

(* The loop's iteration bound, `if counter > 180 { break }`. *)
GapLimit == 180

Times(content) == {content[i].time : i \in DOMAIN content}

(* dailyRates: date -> the content last seen for it (a later entry with   *)
(* the same date overwrites the map entry).                               *)
DailyRates(content) ==
  [d \in Times(content) |->
     content[Max({i \in DOMAIN content : content[i].time = d})]]

(* Mutant: the bound is checked with >= instead of >. *)
FillStepOffByOne(daily, endDate, st) ==
  IF st.counter + 1 >= GapLimit \/ st.date >= endDate
  THEN [st EXCEPT !.done = TRUE]
  ELSE [date    |-> st.date + 1,
        lastDay |-> IF st.date \in DOMAIN daily THEN st.date ELSE st.lastDay,
        counter |-> st.counter + 1,
        acc     |-> IF st.date \in DOMAIN daily THEN st.acc
                    ELSE Append(st.acc,
                                [daily[st.lastDay] EXCEPT !.time = st.date]),
        done    |-> FALSE]

(* Mutant: the gap copy keeps the Time of the day it was copied from. *)
FillStepKeepsTime(daily, endDate, st) ==
  IF st.counter + 1 > GapLimit \/ st.date >= endDate
  THEN [st EXCEPT !.done = TRUE]
  ELSE [date    |-> st.date + 1,
        lastDay |-> IF st.date \in DOMAIN daily THEN st.date ELSE st.lastDay,
        counter |-> st.counter + 1,
        acc     |-> IF st.date \in DOMAIN daily THEN st.acc
                    ELSE Append(st.acc, daily[st.lastDay]),
        done    |-> FALSE]

(* One iteration of the `for` loop on the loop state [date, lastDay,      *)
(* counter, acc, done]: counter is incremented first, then the bound is   *)
(* checked, then date >= endDate returns the content; a missing date gets *)
(* dailyRates[lastDay] with its Time replaced, a present one becomes      *)
(* lastDay; date advances by one day.                                     *)
FillStep(daily, endDate, st) ==
  IF st.counter + 1 > GapLimit \/ st.date >= endDate
  THEN [st EXCEPT !.done = TRUE]
  ELSE [date    |-> st.date + 1,
        lastDay |-> IF st.date \in DOMAIN daily THEN st.date ELSE st.lastDay,
        counter |-> st.counter + 1,
        acc     |-> IF st.date \in DOMAIN daily THEN st.acc
                    ELSE Append(st.acc,
                                [daily[st.lastDay] EXCEPT !.time = st.date]),
        done    |-> FALSE]

(* The loop, run until it returns or breaks. *)
RECURSIVE FillLoop(_, _, _)
FillLoop(daily, endDate, st) ==
  IF st.done THEN st.acc
  ELSE FillLoop(daily, endDate, FillStep(daily, endDate, st))

(* The loop state before the first iteration: date and lastDay start at  *)
(* the earliest date (startDate), the result at the input itself.         *)
FillStart(content) ==
  [date |-> Min(Times(content)), lastDay |-> Min(Times(content)),
   counter |-> 0, acc |-> content, done |-> FALSE]

(* fillInGapDays: a GetTime error on any entry fails the whole call.  The *)
(* zero startDate/endDate of an empty input make the loop return at once. *)
FillInGapDays(content) ==
  IF Unparsable \in Times(content)
  THEN [ok |-> FALSE, content |-> <<>>]
  ELSE IF content = <<>>
  THEN [ok |-> TRUE, content |-> content]
  ELSE [ok |-> TRUE,
        content |-> FillLoop(DailyRates(content), Max(Times(content)),
                             FillStart(content))]

=============================================================================
