----------------------------- MODULE PlanAnswer -----------------------------
(***************************************************************************)
(* What becomes of the weather and the flights of a plan: gemini-service   *)
(* normalises the JSON of the model and unpacks the offers of Amadeus; the *)
(* timeline normalises the weather once more and sorts the flights; a trip *)
(* that is saved keeps the weather and loses the flights, and is           *)
(* normalised again by its page and by the view of a share.                *)
(***************************************************************************)
EXTENDS Naturals, Sequences, Lists

CONSTANTS
  RawDays,    \* days as the model may write them
  MaxDays,    \* bound: days of a forecast
  OfferLists  \* what Amadeus may answer

VARIABLES raw, offers, held, place, option, flights

answerVars == <<raw, offers, held, place, option, flights>>

\* A day that the model writes has one temperature, or an object with a range;
\* celsius and low are the fields of WeatherDay.  The words stand for numbers,
\* "-" for a field that is not there.
RawDay(date, alone, max, min) ==
  [date |-> date, alone |-> alone, max |-> max, min |-> min,
   celsius |-> "-", low |-> "-"]

\* The duration of a leg, as Amadeus writes it: PT34H10M, or with the days in
\* front.  A flight without a return has a leg of no minutes.
Legs   == [days : Nat, minutes : Nat]
Offers == [price : Nat, outbound : Legs, return : Legs, stops : Nat, whole : BOOLEAN]

ASSUME AnswerAssumption ==
  /\ \A day \in RawDays : day = RawDay(day.date, day.alone, day.max, day.min)
  /\ MaxDays \in Nat
  /\ OfferLists \subseteq Seq(Offers)

Containers == {"days", "wrapper", "wrappers", "other"}
Forecasts  == [shape : Containers, days : UNION {[1..n -> RawDays] : n \in 0..MaxDays}]
Options    == {"price-asc", "price-desc", "duration-asc", "duration-desc", "stops-asc"}
Places     == {"model", "timeline", "table", "tripPage", "share"}

AnswerTypeOK ==
  /\ raw \in Forecasts /\ offers \in OfferLists
  /\ held.shape \in Containers /\ Len(held.days) <= Len(raw.days)
  /\ place \in Places /\ option \in Options /\ Len(flights) <= Len(offers)

-----------------------------------------------------------------------------
\* Mutant: only the spelling of the model is known, not that of WeatherDay.
TemperaturesOfTheModel(day) ==
  IF day.alone # "-" THEN <<day.alone, "-">> ELSE <<day.max, day.min>>

\* weatherTemperatures: one temperature, in either spelling, wins over a range.
\* In WeatherDay the high of a range is such a temperature.
Temperatures(day) ==
  LET scalar == IF day.alone # "-" THEN day.alone ELSE day.celsius
  IN  IF scalar # "-" THEN <<scalar, "-">> ELSE <<day.max, day.min>>

Canonical(day) ==
  [RawDay(day.date, "-", "-", "-") EXCEPT !.celsius = Temperatures(day)[1],
                                          !.low = Temperatures(day)[2]]

\* normalizeWeatherForecast: the days of any of the containers, without those
\* that have no date or no condition; null when there are none.
Normalized(forecast) ==
  LET days == IF forecast.shape = "other" THEN <<>>
              ELSE Filter(forecast.days, LAMBDA day : day.date # "-")
  IN  [shape |-> IF days = <<>> THEN "other" ELSE "days",
       days  |-> [i \in DOMAIN days |-> Canonical(days[i])]]

\* transformFlightResponse: one offer without its fare details fails them all.
Unpacked(list) ==
  IF \E i \in DOMAIN list : ~list[i].whole THEN <<>> ELSE list

\* The regular expression finds nothing in a duration that is written with days.
Parsed(leg) == IF leg.days > 0 THEN 0 ELSE leg.minutes

\* getDurationMinutes parses each leg for itself.
Minutes(flight) == Parsed(flight.outbound) + Parsed(flight.return)

Before(by, a, b) ==
  \/ by = "price-asc" /\ a.price < b.price
  \/ by = "price-desc" /\ a.price > b.price
  \/ by = "duration-asc" /\ Minutes(a) < Minutes(b)
  \/ by = "duration-desc" /\ Minutes(a) > Minutes(b)
  \/ by = "stops-asc" /\ a.stops < b.stops

\* A stable sort of a copy: offers that are equal stay in the order of Amadeus.
SortedFlights == StableSort(flights, LAMBDA a, b : Before(option, a, b))

-----------------------------------------------------------------------------
AnswerInit ==
  /\ raw \in Forecasts
  /\ offers \in OfferLists
  /\ held = raw
  /\ place = "model"
  /\ option = "price-asc"
  /\ flights = <<>>

\* The facade, and the page that shows its answer.
PlanAnswered ==
  /\ place = "model"
  /\ place' = "timeline"
  /\ held' = Normalized(held)
  /\ flights' = Unpacked(offers)
  /\ UNCHANGED <<raw, offers, option>>

\* What the older releases stored went to the table as the model had written it.
StoredVerbatim ==
  /\ place = "model"
  /\ place' = "table"
  /\ UNCHANGED <<raw, offers, held, option, flights>>

ChooseOption(by) ==
  /\ place = "timeline"
  /\ option' = by
  /\ UNCHANGED <<raw, offers, held, place, flights>>

\* SaveItinerary and UpdateItinerary send the weather that the page holds.
SaveWeather ==
  /\ place \in {"timeline", "tripPage"}
  /\ place' = "table"
  /\ flights' = <<>>
  /\ option' = "price-asc"
  /\ UNCHANGED <<raw, offers, held>>

\* The page of a saved trip normalises what it reads; the view of a share only
\* when it renders.
OpenStored ==
  /\ place \in {"table", "share"}
  /\ \/ place = "table" /\ place' = "tripPage" /\ held' = Normalized(held)
     \/ place = "table" /\ place' = "share" /\ UNCHANGED held
     \/ place = "share" /\ place' = "table" /\ UNCHANGED held
  /\ UNCHANGED <<raw, offers, option, flights>>

AnswerStep ==
  \/ PlanAnswered \/ StoredVerbatim \/ SaveWeather \/ OpenStored
  \/ \E by \in Options : ChooseOption(by)

AnswerSpec == AnswerInit /\ [][AnswerStep]_answerVars

-----------------------------------------------------------------------------
\* The timeline and the view of a share normalise once more when they render.
Shown == Normalized(held)

Dated == Filter(raw.days, LAMBDA day : day.date # "-")
High(day) == IF day.alone # "-" THEN day.alone ELSE day.max

InHours(flight) == flight.outbound.days = 0 /\ flight.return.days = 0
Length(flight)  == flight.outbound.minutes + flight.return.minutes

\* However often a forecast is normalised, saved and read again, the days that
\* are shown are those of the model, in its order, each with its temperature or
\* the high of its range; and of two flights whose legs are all written in hours
\* and minutes the shorter one is listed first when the reader asks for it.
AnswerShownWhole ==
  /\ place # "model" /\ raw.shape # "other" =>
       /\ Len(Shown.days) = Len(Dated)
       /\ \A i \in DOMAIN Dated :
            /\ Shown.days[i].date = Dated[i].date
            /\ Shown.days[i].celsius = High(Dated[i])
  /\ \A i, j \in DOMAIN SortedFlights :
       LET a == SortedFlights[i]
           b == SortedFlights[j]
       IN  option = "duration-asc" /\ i < j /\ InHours(a) /\ InHours(b) => Length(a) <= Length(b)

\* "Range days show high / low" (DailyWeatherItem.tsx:23): a day to which the
\* model gave a range is shown with its low.
RangesShowTheirLow ==
  place # "model" /\ raw.shape # "other" =>
    \A i \in DOMAIN Dated : Dated[i].alone = "-" => Shown.days[i].low = Dated[i].min

=============================================================================
