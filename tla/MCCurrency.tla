----------------------------- MODULE MCCurrency -----------------------------
(***************************************************************************)
(* Instantiates Currency for TLC: EUR, USD and one further currency, the   *)
(* ECB listing USD and that one, a clock that crosses midnight and spans   *)
(* more than one ExchangeRateRefresh, and one reader.                      *)
(***************************************************************************)
EXTENDS Currency, TLC

CONSTANTS eur, usd, gbp, r1

(* The state without the importedDays history, for runs whose properties *)
(* do not read it: it never enables or changes any other variable.       *)
NoHistoryView ==
  <<now, tick, cancelled, restarts, rate, hist, refreshDate, updaterVars,
    readerVars>>

=============================================================================
