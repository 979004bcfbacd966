---------------------------- MODULE GeminiService ----------------------------
(***************************************************************************)
(* gemini-service: generations by the model, each with its audit row, the  *)
(* plan facade, hotel and flight search, and the reference data.           *)
(***************************************************************************)
EXTENDS Gateway

VARIABLES
  keys,          \* the API keys that the process was started with
  generated,     \* what the model answered, per request
  generations,   \* the rows of table generations, per request
  unaudited      \* INSERTs that failed, per request

auditVars  == <<generations, unaudited>>
geminiVars == <<keys, generated, generations, unaudited>>

\* What a generation yields: JSON, or nothing that parseGeminiJson can use,
\* because the call failed (null) or the text was cut off.
Texts == {"json", "noJson"}

Generative == {"plan", "itinerary", "weather", "hotels"}

GeminiTypeOK ==
  /\ keys \subseteq {"gemini", "amadeus"}
  /\ generated \in [Requests -> Seq(Texts)]
  /\ generations \in [Requests -> Seq(Texts)]
  /\ unaudited \in [Requests -> Nat]

GeminiInit ==
  /\ keys \in SUBSET {"gemini", "amadeus"}
  /\ generated = [r \in Requests |-> <<>>]
  /\ generations = [r \in Requests |-> <<>>]
  /\ unaudited = [r \in Requests |-> 0]

-----------------------------------------------------------------------------
\* requireAuth, the body, requireGemini or the test of flightsService.
KeyMissing(r) ==
  \/ kind[r] \in Generative /\ "gemini" \notin keys
  \/ kind[r] = "flights" /\ "amadeus" \notin keys

Accept(r) ==
  /\ At(r, "accept")
  /\ ServiceOf(r) = "gemini-service"
  /\ \/ session = "expired" /\ Fail(r, "401")
     \/ session = "valid" /\ KeyMissing(r) /\ Fail(r, "503")
     \/ session = "valid" /\ ~KeyMissing(r) /\ Continue(r)
  /\ UNCHANGED <<geminiVars, troubles>>

\* generateContent: an error of the model is null, never an exception.
ModelAnswers(r) ==
  /\ At(r, "model")
  /\ \E text \in Texts : generated' = [generated EXCEPT ![r] = Append(@, text)]
  /\ Continue(r)
  /\ UNCHANGED <<keys, auditVars, troubles>>

\* Mutant: a generation without a usable text leaves no row.
RecordOnlyJson(r) ==
  IF generated[r][Len(generated[r])] = "json"
  THEN generations' = [generations EXCEPT ![r] = Append(@, "json")]
       /\ UNCHANGED <<unaudited, troubles>>
  ELSE UNCHANGED <<auditVars, troubles>>

\* recordGeneration: a failed INSERT is logged and forgotten.
Record(r) ==
  \/ /\ generations' = [generations EXCEPT ![r] = Append(@, generated[r][Len(generated[r])])]
     /\ UNCHANGED <<unaudited, troubles>>
  \/ /\ Trouble
     /\ unaudited' = [unaudited EXCEPT ![r] = @ + 1]
     /\ UNCHANGED generations

AuditGeneration(r) ==
  /\ At(r, "audit")
  /\ Record(r)
  /\ Continue(r)
  /\ UNCHANGED <<keys, generated>>

\* Mutant: the facade lets the flight search throw.
FlightsFailThrows(r) == Fail(r, "502")

\* searchFlights, which the facade skips without a key and whose failure it
\* catches; the endpoint of its own answers 502.
FlightsFail(r) == IF kind[r] = "plan" THEN Continue(r) ELSE Fail(r, "502")

SearchFlights(r) ==
  /\ At(r, "flights")
  /\ Continue(r) \/ ("amadeus" \in keys /\ FlightsFail(r))
  /\ UNCHANGED <<geminiVars, troubles>>

\* recordHotelSearch, which never throws either; and a reference table.
RecordHotelSearch(r) ==
  /\ At(r, "searched")
  /\ Continue(r)
  /\ UNCHANGED <<geminiVars, troubles>>

FetchReference(r) ==
  /\ At(r, "read")
  /\ (Continue(r) /\ UNCHANGED troubles) \/ (Trouble /\ Fail(r, "502"))
  /\ UNCHANGED geminiVars

\* The body of the 200 of /plan: the itinerary of the first generation, or
\* null; and of a hotel search, in which whatever is not JSON is no hotels.
HasItinerary(r) == generated[r] # <<>> /\ generated[r][1] = "json"

GeminiHandler(r) ==
  \/ Accept(r) \/ ModelAnswers(r) \/ AuditGeneration(r) \/ SearchFlights(r)
  \/ RecordHotelSearch(r) \/ FetchReference(r)

=============================================================================
