------------------------------- MODULE Currency -------------------------------
(***************************************************************************)
(* The currency package: the conversion service (src/pkg/currency/         *)
(* service.go lines 1-104, and its later version src/unnamed/part_001 with *)
(* the AtDate variants), the updater (service.go lines 105-349) and the    *)
(* background module that drives it (src/unnamed/part_000 lines 84-145).   *)
(* They share one key-value store: the updater's goroutine writes it while *)
(* Readers convert amounts by reading it.                                  *)
(*                                                                         *)
(* Data is abstracted to what the properties tell apart.  A current rate   *)
(* is the hour it was fetched; a historical rate is the ECB day it was     *)
(* published for; the refresh-date key holds the hour it was written and, *)
(* as a history field, the hour of the fetch it closes.  Amounts are left  *)
(* out: a conversion's outcome is whether it erred and whether it used a   *)
(* rate the store did not have.                                            *)
(***************************************************************************)
EXTENDS Naturals, FiniteSets, CurrencyGapFill

CONSTANTS
  Eur, Usd,       \* the Eur and Usd constants of the package
  Others,         \* further currency codes callers may pass
  Published,      \* the currencies the ECB responses list (never EUR)
  Readers,        \* goroutines calling the conversion service
  Version,        \* "service_go" or "part_001": which service.go is run
  Failures,       \* whether store and HTTP calls may fail
  SlowCalls,      \* whether a refresh or import may take over an hour
  Holidays,       \* days the ECB publishes no rates (weekends, holidays)
  StartHour,      \* the hour Run starts (hours since the epoch)
  MaxHour,        \* bound: the last hour the model reaches
  MaxRestarts     \* bound: restarts of the application

Currencies == {Eur, Usd} \cup Others
ASSUME Published \subseteq Currencies \ {Eur}
ASSUME Version \in {"service_go", "part_001"}

CONSTANT Absent                          \* no entry for the key (a model value)
ExchangeRateRefresh == 8                 \* hours
Day(h) == h \div 24                      \* the date historicalRateKey formats
Hours == StartHour..MaxHour
Days == 0..Day(MaxHour)
Outcomes == IF Failures THEN {TRUE, FALSE} ELSE {TRUE}   \* TRUE: success
Faults == IF Failures THEN {TRUE, FALSE} ELSE {FALSE}    \* TRUE: a fault

(* The environment: the ECB publishes a working day's reference rates at *)
(* about 16:00.  PublishedDays(h) are the days whose rates are out at    *)
(* hour h; the daily file holds the latest of them, the 90-day file all. *)
ECBPublishHour == 16
PublishedDays(h) == {d \in Days \ Holidays : d * 24 + ECBPublishHour <= h}
ASSUME PublishedDays(StartHour) # {} /\ 0 \notin Holidays

(* The rates in force on day d: that day's publication, or on a holiday  *)
(* the last one before it.                                                *)
RatesOfDay(d) == Max((0..d) \ Holidays)

VARIABLES
  now,           \* the wall clock, in hours
  rate,          \* store: currency code -> fetch hour or Absent
  hist,          \* store: <<day, currency>> -> ECB day or Absent
  refreshDate,   \* store: ExchangeRateDateKey
  importedDays,  \* history: the days a complete import has stored
  upc,           \* the Run goroutine: where it is
  todo,          \* EnsureRecentExchangeRates: rates not yet put
  cur,           \* the rate whose historical key is put next
  fetched,       \* the hour the rates were fetched (`now`, line 172)
  ecbDay,        \* the ECB day of the fetched rates
  imported,      \* importExchangeRates has run
  tick,          \* a tick is waiting in ticker.C (buffer of one)
  cancelled,     \* the module's ctx is done
  restarts,      \* restarts of the application so far
  call,          \* per reader: the call in progress
  out            \* per reader: the outcome of its last call

updaterVars == <<upc, todo, cur, fetched, ecbDay, imported>>
storeVars == <<rate, hist, refreshDate, importedDays>>
readerVars == <<call, out>>
vars == <<now, tick, cancelled, restarts, storeVars, updaterVars, readerVars>>

NoCall == [pc |-> "idle", op |-> "none", to |-> Eur, from |-> Eur, day |-> 0,
           atDate |-> FALSE, unfounded |-> FALSE, foundTo |-> TRUE]
NoOut == [op |-> "none", to |-> Eur, from |-> Eur, err |-> FALSE,
          storeErr |-> FALSE, unfounded |-> FALSE, foundTo |-> TRUE,
          foundFrom |-> TRUE]

Init ==
  /\ now = StartHour
  /\ rate = [c \in Currencies |-> Absent]
  /\ hist = [k \in Days \X Currencies |-> Absent]
  /\ refreshDate = Absent
  /\ importedDays = {}
  /\ upc = "check"                        \* Run: module.refresh(ctx)
  /\ todo = {}
  /\ cur = Eur
  /\ fetched = StartHour
  /\ ecbDay = 0
  /\ imported = FALSE
  /\ tick = FALSE
  /\ cancelled = FALSE
  /\ restarts = 0
  /\ call = [r \in Readers |-> NoCall]
  /\ out = [r \in Readers |-> NoOut]

-----------------------------------------------------------------------------
(* The updater goroutine (Module.Run and updaterService).                 *)

(* EnsureRecentExchangeRates returns, with or without an error; Run goes  *)
(* on to importExchangeRates after its first refresh, else back to the    *)
(* select.                                                                *)
RefreshReturns ==
  /\ upc' = IF imported THEN "idle" ELSE "import"
  /\ UNCHANGED <<todo, cur, fetched, ecbDay, imported>>

(* needsRefresh: a failed or missing read of the date refreshes, as does  *)
(* a date before now - ExchangeRateRefresh; otherwise return nil.         *)
CheckRefresh ==
  /\ upc = "check"
  /\ \E ok \in Outcomes :
       IF ~ok \/ refreshDate = Absent
          \/ refreshDate.at < now - ExchangeRateRefresh
       THEN upc' = "fetch" /\ UNCHANGED <<todo, cur, fetched, ecbDay, imported>>
       ELSE RefreshReturns
  /\ UNCHANGED <<now, tick, cancelled, restarts, storeVars, readerVars>>

(* getCurrencyRates: the HTTP GET or the XML unmarshalling may fail; the  *)
(* daily file holds the latest ECB publication, which before 16:00 (and   *)
(* on a holiday) is an earlier day's.                                     *)
Fetch ==
  /\ upc = "fetch"
  /\ \E ok \in Outcomes :
       IF ~ok THEN RefreshReturns
       ELSE /\ ecbDay' = Max(PublishedDays(now))
            /\ fetched' = now
            /\ todo' = Published
            /\ upc' = "putRate"
            /\ UNCHANGED <<cur, imported>>
  /\ UNCHANGED <<now, tick, cancelled, restarts, storeVars, readerVars>>

(* Mutant: a failed Put of a rate is skipped instead of returned. *)
PutRateIgnoresError ==
  /\ upc = "putRate"
  /\ \E c \in todo, ok \in Outcomes :
       IF ~ok
       THEN /\ todo' = todo \ {c}
            /\ UNCHANGED <<rate, upc, cur, fetched, ecbDay, imported>>
       ELSE /\ rate' = [rate EXCEPT ![c] = fetched]
            /\ cur' = c
            /\ upc' = "putHist"
            /\ UNCHANGED <<todo, fetched, ecbDay, imported>>
  /\ UNCHANGED <<now, tick, cancelled, restarts, hist, refreshDate, importedDays,
                 readerVars>>

(* The loop over the rates, in response order: store.Put(currency, rate), *)
(* returning on error.                                                    *)
PutRate ==
  /\ upc = "putRate"
  /\ \E c \in todo, ok \in Outcomes :
       IF ~ok THEN RefreshReturns /\ UNCHANGED rate
       ELSE /\ rate' = [rate EXCEPT ![c] = fetched]
            /\ cur' = c
            /\ upc' = "putHist"
            /\ UNCHANGED <<todo, fetched, ecbDay, imported>>
  /\ UNCHANGED <<now, tick, cancelled, restarts, hist, refreshDate, importedDays,
                 readerVars>>

(* store.Put(historicalRateKey(now, currency), rate), returning on error. *)
PutHist ==
  /\ upc = "putHist"
  /\ \E ok \in Outcomes :
       IF ~ok THEN RefreshReturns /\ UNCHANGED hist
       ELSE /\ hist' = [hist EXCEPT ![<<Day(fetched), cur>>] = ecbDay]
            /\ todo' = todo \ {cur}
            /\ upc' = "putRate"
            /\ UNCHANGED <<cur, fetched, ecbDay, imported>>
  /\ UNCHANGED <<now, tick, cancelled, restarts, rate, refreshDate, importedDays,
                 readerVars>>

(* After the loop: store.Put(ExchangeRateDateKey, time.Now()). *)
PutDate ==
  /\ upc = "putRate"
  /\ todo = {}
  /\ \E ok \in Outcomes :
       /\ refreshDate' = IF ok THEN [at |-> now, fetched |-> fetched]
                         ELSE refreshDate
       /\ RefreshReturns
  /\ UNCHANGED <<now, tick, cancelled, restarts, rate, hist, importedDays, readerVars>>

(* The ECB 90-day history as getCurrencyRatesForLast3Months returns it:  *)
(* the published days S, newest first, each with that day's rates; bad  *)
(* adds an entry whose Time does not parse.                              *)
HistoryResponse(S, bad) ==
  LET newestFirst == SelectSeq([i \in 1..Cardinality(Days) |-> Cardinality(Days) - i],
                               LAMBDA d : d \in S)
  IN [i \in DOMAIN newestFirst |-> [time |-> newestFirst[i], rates |-> newestFirst[i]]]
     \o (IF bad THEN <<[time |-> Unparsable, rates |-> 0]>> ELSE <<>>)

(* The days the 90-day file spans, weekends and holidays included. *)
ThreeMonths == Min(PublishedDays(now))..Max(PublishedDays(now))

(* keyValues: date -> rates of the last entry with that date. *)
KeyValues(content) == [d \in Times(content) |-> DailyRates(content)[d].rates]

(* Mutant: Run repeats its first refresh and the import until the      *)
(* import has stored the whole batch.                                     *)
ImportUntilStored ==
  /\ upc = "import"
  /\ \/ /\ \E ok \in Outcomes : ~ok
        /\ UNCHANGED <<hist, importedDays>>
        /\ upc' = "check" /\ imported' = FALSE
     \/ \E bad \in Faults :
          LET filled == FillInGapDays(HistoryResponse(PublishedDays(now), bad))
              kv     == KeyValues(filled.content)
              batch  == (DOMAIN kv) \X Published
          IN IF ~filled.ok
             THEN UNCHANGED <<hist, importedDays>> /\ upc' = "check" /\ imported' = FALSE
             ELSE \E written \in SUBSET batch, ok \in Outcomes :
                    /\ ok => written = batch
                    /\ hist' = [k \in DOMAIN hist |->
                                  IF k \in written THEN kv[k[1]] ELSE hist[k]]
                    /\ importedDays' = IF ok THEN importedDays \cup ThreeMonths
                                       ELSE importedDays
                    /\ upc' = IF ok THEN "idle" ELSE "check"
                    /\ imported' = ok
  /\ UNCHANGED <<now, tick, cancelled, restarts, rate, refreshDate, todo, cur, fetched,
                 ecbDay, readerVars>>

(* ImportHistoricalExchangeRates: fetch, fillInGapDays, build keyValues, *)
(* store.PutBatch.  A failing PutBatch may have written any part of the  *)
(* batch.  Run goes on to its select loop whatever the outcome.          *)
Import ==
  /\ upc = "import"
  /\ \/ /\ \E ok \in Outcomes : ~ok          \* the request fails
        /\ UNCHANGED <<hist, importedDays>>
     \/ \E bad \in Faults :
          LET filled == FillInGapDays(HistoryResponse(PublishedDays(now), bad))
              kv     == KeyValues(filled.content)
              batch  == (DOMAIN kv) \X Published
          IN IF ~filled.ok THEN UNCHANGED <<hist, importedDays>>
             ELSE \E written \in SUBSET batch, ok \in Outcomes :
                    /\ ok => written = batch
                    /\ hist' = [k \in DOMAIN hist |->
                                  IF k \in written THEN kv[k[1]] ELSE hist[k]]
                    /\ importedDays' = IF ok THEN importedDays \cup ThreeMonths
                                       ELSE importedDays
  /\ imported' = TRUE
  /\ upc' = "idle"
  /\ UNCHANGED <<now, tick, cancelled, restarts, rate, refreshDate, todo, cur, fetched,
                 ecbDay, readerVars>>

(* Run's select: a tick refreshes, a done ctx returns nil. *)
OnTick ==
  /\ upc = "idle"
  /\ tick
  /\ tick' = FALSE
  /\ upc' = "check"
  /\ UNCHANGED <<now, cancelled, restarts, storeVars, todo, cur, fetched, ecbDay,
                 imported, readerVars>>

OnDone ==
  /\ upc = "idle"
  /\ cancelled
  /\ upc' = "stopped"
  /\ UNCHANGED <<now, tick, cancelled, restarts, storeVars, todo, cur, fetched, ecbDay,
                 imported, readerVars>>

(* An hour passes; time.Ticker drops the tick if ticker.C is full.      *)
(* Unless SlowCalls, the calls finish within the hour: the clock moves  *)
(* on only while Run waits in its select with the last tick taken.      *)
Clock ==
  /\ now < MaxHour
  /\ SlowCalls \/ upc \in {"stopped", "down"} \/ (upc = "idle" /\ ~tick)
  /\ now' = now + 1
  /\ tick' = TRUE
  /\ UNCHANGED <<cancelled, restarts, storeVars, updaterVars, readerVars>>

Cancel ==
  /\ ~cancelled
  /\ cancelled' = TRUE
  /\ UNCHANGED <<now, tick, restarts, storeVars, updaterVars, readerVars>>

(* The process dies at any point of Run, between any two store or HTTP   *)
(* calls; the key-value store outlives it.                                *)
Crash ==
  /\ restarts < MaxRestarts
  /\ upc \notin {"down", "stopped"}
  /\ upc' = "down"
  /\ UNCHANGED <<now, tick, cancelled, restarts, storeVars, todo, cur, fetched, ecbDay,
                 imported, readerVars>>

(* The application starts again after a crash or a shutdown: a new Run   *)
(* with a new ctx and ticker, its first refresh and then the import.     *)
Restart ==
  /\ restarts < MaxRestarts
  /\ upc \in {"down", "stopped"}
  /\ restarts' = restarts + 1
  /\ upc' = "check"
  /\ imported' = FALSE
  /\ todo' = {}
  /\ tick' = FALSE
  /\ cancelled' = FALSE
  /\ UNCHANGED <<now, storeVars, cur, fetched, ecbDay, readerVars>>

-----------------------------------------------------------------------------
(* The conversion service, called by each reader.                          *)

(* The key getExchangeRate reads: the currency code, or in the AtDate     *)
(* variants historicalRateKey(date, currency).                            *)
Stored(c, c_call) ==
  IF c_call.atDate THEN hist[<<c_call.day, c>>] ELSE rate[c]

(* getExchangeRate: a store error is an error; a missing key is wrapped  *)
(* with errors.WithMessage(err, ...) in service.go, which is nil when    *)
(* err is nil, so the call returns rate 0 and no error; part_001 wraps   *)
(* it with fmt.Errorf, which is never nil.                               *)
GetRate(v, ok) ==
  IF ~ok THEN "error"
  ELSE IF v = Absent
       THEN IF Version = "service_go" THEN "zero" ELSE "error"
       ELSE "found"

(* A call returns.  foundFrom is what the read of `from` found; when the *)
(* call returns before reading it, it observes whether the store holds   *)
(* that rate at the moment the call returns (the caller could have had   *)
(* it converted).                                                         *)
Finish(r, c, err, storeErr, foundFrom) ==
  /\ out' = [out EXCEPT ![r] =
               [op |-> c.op, to |-> c.to, from |-> c.from, err |-> err,
                storeErr |-> storeErr, unfounded |-> c.unfounded,
                foundTo |-> c.foundTo, foundFrom |-> foundFrom]]
  /\ call' = [call EXCEPT ![r] = NoCall]

Ops == {"HasCurrency", "ToEur", "ToUsd", "ToCurrency"}
AtDate == IF Version = "part_001" THEN BOOLEAN ELSE {FALSE}

(* ToEur(value, from): no `to` rate is read. *)
ContinueToEur(r, c) ==
  IF c.from = Eur THEN Finish(r, c, FALSE, FALSE, TRUE)
  ELSE call' = [call EXCEPT ![r] = [c EXCEPT !.pc = "getFrom"]]
       /\ UNCHANGED out

(* A call of HasCurrency, ToEur, ToUsd or ToCurrency, or of its AtDate    *)
(* variant; the early returns for EUR, USD and from == to need no read.   *)
(* HasCurrency is one store.Contains.                                      *)
Call(r) ==
  /\ call[r].pc = "idle"
  /\ \E op \in Ops, to \in Currencies, from \in Currencies, d \in Days,
        atDate \in AtDate :
       LET c == [NoCall EXCEPT !.op = op, !.from = from, !.day = d,
                               !.atDate = atDate,
                               !.to = CASE op = "ToUsd" -> Usd
                                        [] op = "ToEur" -> Eur
                                        [] OTHER        -> to]
       IN CASE op = "HasCurrency" ->
                 \E ok \in Outcomes :
                   Finish(r, c, from # Eur /\ ~ok, from # Eur /\ ~ok, TRUE)
            [] op = "ToEur" -> ContinueToEur(r, c)
            [] OTHER ->
                 IF c.from = c.to THEN Finish(r, c, FALSE, FALSE, TRUE)
                 ELSE /\ call' = [call EXCEPT ![r] = [c EXCEPT !.pc = "getTo"]]
                      /\ UNCHANGED out
  /\ UNCHANGED <<now, tick, cancelled, restarts, storeVars, updaterVars>>

(* ToCurrency: getExchangeRate(to), then ToEur(from). *)
GetTo(r) ==
  /\ call[r].pc = "getTo"
  /\ \E ok \in Outcomes :
       LET c  == call[r]
           v  == Stored(c.to, c)
           c2 == [c EXCEPT !.foundTo = (v # Absent),
                           !.unfounded = (v = Absent /\ GetRate(v, ok) # "error")]
       IN IF GetRate(v, ok) = "error"
          THEN Finish(r, c2, TRUE, ~ok, Stored(c.from, c) # Absent)
          ELSE ContinueToEur(r, c2)
  /\ UNCHANGED <<now, tick, cancelled, restarts, storeVars, updaterVars>>

(* ToEur: getExchangeRate(from), then value / rate. *)
GetFrom(r) ==
  /\ call[r].pc = "getFrom"
  /\ \E ok \in Outcomes :
       LET c  == call[r]
           v  == Stored(c.from, c)
           c2 == [c EXCEPT !.unfounded = @ \/ (v = Absent /\ GetRate(v, ok) # "error")]
       IN Finish(r, c2, GetRate(v, ok) = "error", ~ok, v # Absent)
  /\ UNCHANGED <<now, tick, cancelled, restarts, storeVars, updaterVars>>

Next ==
  \/ CheckRefresh \/ Fetch \/ PutRate \/ PutHist \/ PutDate \/ Import
  \/ OnTick \/ OnDone \/ Clock \/ Cancel \/ Crash \/ Restart
  \/ \E r \in Readers : Call(r) \/ GetTo(r) \/ GetFrom(r)

Spec == Init /\ [][Next]_vars

(* Only the Run goroutine is fair.  Each store and HTTP call returns,    *)
(* with or without an error, so every step of a refresh or of the import *)
(* is taken once enabled (weak fairness); which outcome it has is not    *)
(* constrained.  In the select, ctx.Done competes with ticker.C and Go   *)
(* picks among ready cases at random, so OnDone is strongly fair.        *)
(* Readers, the clock, cancellation, crashes and restarts are the        *)
(* environment and are not fair.                                         *)
UpdaterStep ==
  CheckRefresh \/ Fetch \/ PutRate \/ PutHist \/ PutDate \/ Import \/ OnTick
FairSpec == Spec /\ WF_vars(UpdaterStep) /\ SF_vars(OnDone)

-----------------------------------------------------------------------------
TypeOK ==
  /\ now \in Hours
  /\ rate \in [Currencies -> Hours \cup {Absent}]
  /\ hist \in [Days \X Currencies -> Days \cup {Absent}]
  /\ refreshDate \in [at : Hours, fetched : Hours] \cup {Absent}
  /\ importedDays \subseteq Days
  /\ upc \in {"check", "fetch", "putRate", "putHist", "import", "idle",
              "stopped", "down"}
  /\ todo \subseteq Published
  /\ imported \in BOOLEAN

(* The refresh date vouches only for rates written after the fetch it    *)
(* closes: while ExchangeRateDateKey is set, every published currency    *)
(* has a current rate from that fetch or a later one, and a historical   *)
(* rate for that fetch's day -- however Puts fail part way through a     *)
(* refresh and however later refreshes and the import interleave.        *)
(* needsRefresh trusts the date for this.                                *)
RefreshDateVouchesRates ==
  refreshDate # Absent =>
    \A c \in Published :
      /\ rate[c] # Absent
      /\ rate[c] >= refreshDate.fetched
      /\ hist[<<Day(refreshDate.fetched), c>>] # Absent

(* The service's doc comments: a conversion returns nil only with a      *)
(* value computed from rates it found -- "returns 0 and an error object  *)
(* otherwise" -- never one computed from a rate the store lacks.         *)
ErrorWhenRateMissing ==
  \A r \in Readers : out[r].op # "none" /\ ~out[r].err => ~out[r].unfounded

(* ToCurrency(to, from) converts between any two currencies the service  *)
(* supports (HasCurrency: EUR always, any other when the store has its   *)
(* rate): when the store does not fail and has the rates, the call       *)
(* succeeds.                                                             *)
SupportedPairConverts ==
  \A r \in Readers :
    /\ out[r].op \in {"ToUsd", "ToCurrency"}
    /\ ~out[r].storeErr
    /\ out[r].to = Eur \/ out[r].foundTo
    /\ out[r].from = Eur \/ out[r].foundFrom
    => ~out[r].err

(* part_001's AtDate conversions return a value "at the given time": the *)
(* historical key of a day is meant to hold the rates in force on it,    *)
(* the ECB's publication for that day or, on a holiday, the last one     *)
(* before.  Once a day is over, its key holds exactly those -- whichever *)
(* refresh (keyed by the hour it ran, service.go 172-184) or import last *)
(* wrote it, and however the hourly refreshes fall around 16:00.  It is *)
(* claimed while the module runs and its import is done: a stopped or    *)
(* crashed process fixes nothing, and a restart's import rewrites days.  *)
HistoryHoldsRatesOfDay ==
  \A d \in Days, c \in Published :
    ~cancelled /\ upc # "down" /\ imported
      /\ d < Day(now) /\ hist[<<d, c>>] # Absent
      => hist[<<d, c>>] = RatesOfDay(d)

(* ImportHistoricalExchangeRates fills "the missing values using values  *)
(* from previously available days": once an import has stored its whole  *)
(* batch, every day of the three months it covered, weekends and         *)
(* holidays included, holds the rates in force on that day: the gap      *)
(* copies of fillInGapDays carry the missing day's Time and keyValues   *)
(* keys them by it.  An import whose PutBatch fails part way vouches for *)
(* nothing.                                                               *)
ImportRepairsHistory ==
  \A d \in importedDays, c \in Published : hist[<<d, c>>] = RatesOfDay(d)

(* Module.Run returns nil once its ctx is done: every refresh and the     *)
(* import end, with or without an error, and give control back to the    *)
(* select, which then takes the ctx.Done case, however the calls fail.    *)
RunStopsWhenCancelled == cancelled ~> upc \in {"stopped", "down"}

=============================================================================
