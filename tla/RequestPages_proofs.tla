------------------------- MODULE RequestPages_proofs -------------------------
(***************************************************************************)
(* Proofs about the slow endpoints and the pages that wait for them, for   *)
(* any number of requests, whatever they call, and any number of troubles. *)
(***************************************************************************)
EXTENDS RequestPages, SequenceTheorems, TLAPS

USE GatewayAssumption, ExportAssumption, PagesAssumption

-----------------------------------------------------------------------------
(* The steps of the handlers.                                              *)

(* The positions at which a handler generates, and those at which it       *)
(* writes the audit row, and the steps that only an export has.            *)
Places(w, models, audits) ==
  \A i \in 1..Len(w) : /\ w[i] = "model" <=> i \in models
                       /\ w[i] = "audit" <=> i \in audits
                       /\ w[i] \notin {"fetch", "render", "put", "record"}

(* The work of a plan, step by step.                                       *)
LEMMA PlanWork ==
  /\ Work["plan"] \in Seq(Steps) /\ Len(Work["plan"]) = 6
  /\ Places(Work["plan"], {2, 4}, {3, 5})
  /\ \A i \in 1..6 : /\ Work["plan"][i] = "accept" <=> i = 1
                     /\ Work["plan"][i] \in {"accept", "model", "audit", "flights"}
BY DEF Work, Steps, Plan, Places

(* The other endpoints that ask the model ask it once.                     *)
LEMMA GeneratingWork ==
  ASSUME NEW e \in {"itinerary", "weather", "hotels"}
  PROVE  /\ Work[e] \in Seq(Steps) /\ Len(Work[e]) \in Nat /\ Len(Work[e]) >= 3
         /\ Places(Work[e], {2}, {3})
<1>1. Work["itinerary"] \in Seq(Steps) /\ Len(Work["itinerary"]) = 3
      /\ Places(Work["itinerary"], {2}, {3})
  BY DEF Work, Steps, Places
<1>2. Work["weather"] \in Seq(Steps) /\ Len(Work["weather"]) = 3
      /\ Places(Work["weather"], {2}, {3})
  BY DEF Work, Steps, Places
<1>3. Work["hotels"] \in Seq(Steps) /\ Len(Work["hotels"]) = 4
      /\ Places(Work["hotels"], {2}, {3})
  BY DEF Work, Steps, Places
<1> QED
  BY <1>1, <1>2, <1>3

(* The endpoints that do not ask the model.                                *)
LEMMA ReadingWork ==
  ASSUME NEW e \in {"flights", "countries", "travelTypes"}
  PROVE  /\ Work[e] \in Seq(Steps) /\ Len(Work[e]) = 2
         /\ Places(Work[e], {}, {})
<1>1. Work["flights"] \in Seq(Steps) /\ Len(Work["flights"]) = 2 /\ Places(Work["flights"], {}, {})
  BY DEF Work, Steps, Places
<1>2. Work["countries"] \in Seq(Steps) /\ Len(Work["countries"]) = 2 /\ Places(Work["countries"], {}, {})
  BY DEF Work, Steps, Places
<1>3. Work["travelTypes"] \in Seq(Steps) /\ Len(Work["travelTypes"]) = 2
      /\ Places(Work["travelTypes"], {}, {})
  BY DEF Work, Steps, Places
<1> QED
  BY <1>1, <1>2, <1>3

(* The work of an export, step by step.                                    *)
LEMMA ExportWork ==
  /\ Work["exportPdf"] \in Seq(Steps) /\ Len(Work["exportPdf"]) = 5
  /\ \A i \in 1..5 : /\ Work["exportPdf"][i] = "accept" <=> i = 1
                     /\ Work["exportPdf"][i] = "fetch"  <=> i = 2
                     /\ Work["exportPdf"][i] = "render" <=> i = 3
                     /\ Work["exportPdf"][i] = "put"    <=> i = 4
                     /\ Work["exportPdf"][i] = "record" <=> i = 5
                     /\ Work["exportPdf"][i] \notin {"model", "audit"}
BY DEF Work, Steps

(* A generation is followed by its audit, and an audit follows nothing     *)
(* else.                                                                   *)
Paired(w) ==
  /\ \A i \in 1..Len(w) : w[i] = "model" => i < Len(w) /\ w[i + 1] = "audit"
  /\ \A i \in 1..Len(w) : w[i] = "audit" => i > 1 /\ w[i - 1] = "model"

(* Work whose audits come right after its generations is paired.           *)
LEMMA PlacesPair ==
  ASSUME NEW w, NEW models, NEW audits, Len(w) \in Nat, Places(w, models, audits),
         models \subseteq 1..(Len(w) - 1),
         \A i \in models : i + 1 \in audits, \A i \in audits : i \in Nat /\ i - 1 \in models
  PROVE  Paired(w)
<1>1. ASSUME NEW i \in 1..Len(w), w[i] = "model"
      PROVE  i < Len(w) /\ w[i + 1] = "audit"
  <2>1. i \in models /\ i + 1 \in audits /\ i + 1 \in 1..Len(w)
    BY <1>1 DEF Places
  <2> QED
    BY <2>1 DEF Places
<1>2. ASSUME NEW i \in 1..Len(w), w[i] = "audit"
      PROVE  i > 1 /\ w[i - 1] = "model"
  <2>1. i - 1 \in models /\ i - 1 \in 1..Len(w)
    BY <1>2 DEF Places
  <2> QED
    BY <2>1 DEF Places
<1> QED
  BY <1>1, <1>2 DEF Paired

(* The endpoints that the gateway knows.                                   *)
LEMMA EndpointsAre ==
  Endpoints = {"plan", "itinerary", "weather", "hotels", "flights", "countries",
               "travelTypes", "exportPdf"}
BY DEF Endpoints, Work

(* Every handler has at least two steps, and its audits are in place.      *)
LEMMA WorkFacts ==
  ASSUME NEW e \in Endpoints
  PROVE  /\ Work[e] \in Seq(Steps)
         /\ Len(Work[e]) \in Nat /\ Len(Work[e]) >= 2
         /\ Paired(Work[e])
<1>1. CASE e = "plan"
  <2>1. Paired(Work["plan"])
    BY PlanWork, PlacesPair
  <2> QED
    BY <1>1, <2>1, PlanWork
<1>2. CASE e \in {"itinerary", "weather", "hotels"}
  <2>1. Work[e] \in Seq(Steps) /\ Len(Work[e]) \in Nat /\ Len(Work[e]) >= 3 /\ Places(Work[e], {2}, {3})
    BY <1>2, GeneratingWork
  <2>2. Paired(Work[e])
    BY <2>1, PlacesPair
  <2> QED
    BY <2>1, <2>2
<1>3. CASE e \in {"flights", "countries", "travelTypes"}
  <2>1. Work[e] \in Seq(Steps) /\ Len(Work[e]) = 2 /\ Places(Work[e], {}, {})
    BY <1>3, ReadingWork
  <2>2. Paired(Work[e])
    BY <2>1, PlacesPair
  <2> QED
    BY <2>1, <2>2
<1>4. CASE e = "exportPdf"
  BY <1>4, ExportWork DEF Paired
<1> QED
  BY <1>1, <1>2, <1>3, <1>4, EndpointsAre

(* The steps of an export belong to no other endpoint.                     *)
LEMMA OnlyExports ==
  ASSUME NEW e \in Endpoints, NEW i \in 1..Len(Work[e]),
         Work[e][i] \in {"fetch", "render", "put", "record"}
  PROVE  e = "exportPdf"
<1>1. e # "plan"
  BY PlanWork DEF Places
<1>2. e \notin {"itinerary", "weather", "hotels"}
  BY GeneratingWork DEF Places
<1>3. e \notin {"flights", "countries", "travelTypes"}
  BY ReadingWork DEF Places
<1> QED
  BY <1>1, <1>2, <1>3, EndpointsAre

-----------------------------------------------------------------------------
(* The inductive invariants.                                               *)

(* What a handler still has to do is the end of its work.                  *)
OnTrack ==
  \A r \in Requests :
    \A i \in 1..Len(todo[r]) :
      todo[r][i] = Work[kind[r]][Len(Work[kind[r]]) - Len(todo[r]) + i]

(* The search bar asks for hotels only, and for something.                 *)
SearchOK ==
  /\ search.query \in Of("hotels") \cup {None}
  /\ search.armed => search.query # None

(* A form that is not open has asked for nothing.                          *)
FormOK == form = "closed" => \A r \in References : leg[r] = "idle"

(* A handler that nobody has reached has done nothing, and one that        *)
(* answered 200 has done everything.                                       *)
Reached ==
  \A r \in Requests :
    /\ leg[r] \in {"idle", "sent"} => handler[r] = "none"
    /\ leg[r] = "forwarded" => handler[r] # "none"
    /\ handler[r] \in {"none", "queued"} => generated[r] = <<>>
    /\ handler[r] = "200" => todo[r] = <<>>
    /\ todo[r] = <<>> => handler[r] = "200"

(* The audit rows and what they are rows of.                               *)
Due(r) == IF todo[r] # <<>> /\ Head(todo[r]) = "audit" THEN 1 ELSE 0

Audited ==
  \A r \in Requests :
    /\ Len(generations[r]) + unaudited[r] + Due(r) = Len(generated[r])
    /\ unaudited[r] = 0 =>
         \A i \in 1..Len(generations[r]) : generations[r][i] = generated[r][i]
    /\ Due(r) = 1 => handler[r] \in {"working", "dead"}

(* Which mount sent a plan.                                                *)
Sent ==
  /\ \A r \in Requests : sender[r] # 0 => page[sender[r]].started
  /\ \A q, r \in Requests : sender[q] = sender[r] /\ sender[q] # 0 => q = r
  /\ \A r \in Of("plan") : leg[r] # "idle" => sender[r] # 0

(* How far a plan is, and what its handler's reply says of it.             *)
PlanCount(n) == IF n >= 5 THEN 0 ELSE IF n >= 3 THEN 1 ELSE 2

PlanReplies ==
  \A r \in Of("plan") :
    /\ Len(generated[r]) = PlanCount(Len(todo[r]))
    /\ handler[r] \in {"none", "queued", "working", "dead", "200", "401", "503"}
    /\ handler[r] \in {"401", "503"} => generated[r] = <<>>
    /\ handler[r] = "503" => "gemini" \notin keys

(* What the browser was told of a plan, and what the page shows of it.     *)
Failed(r) == handler[r] \in {"none", "401", "dead"}

PlanAnswers ==
  \A r \in Of("plan") : leg[r] = "answered" =>
    /\ outcome[r] = "200" => handler[r] = "200"
    /\ outcome[r] = "503" => handler[r] = "503"
    /\ outcome[r] \notin {"200", "503", "504", "dropped"} => Failed(r)

PlanShown ==
  \A r \in Of("plan") : leg[r] = "heard" =>
    LET shows == page[sender[r]].shows
    IN  /\ shows = "plan" => HasItinerary(r) /\ handler[r] = "200"
        /\ shows = "noPlan" => ~HasItinerary(r) /\ handler[r] = "200"
        /\ shows = "notConfigured" => handler[r] = "503"
        /\ shows = "generic" => Failed(r)

(* How far an export is: the key comes with the rendered PDF, the object   *)
(* before the row.                                                         *)
KeyHolds(r) ==
  /\ storageKey[r] # 0
  /\ objects[storageKey[r]] # 0
  /\ \/ objects[storageKey[r]] = rendered[r]
     \/ \E q \in Of("exportPdf") \ {r} : storageKey[q] = storageKey[r]

Exported ==
  \A r \in Of("exportPdf") :
    /\ Len(todo[r]) <= 3 => rendered[r] # 0
    /\ Len(todo[r]) >= 3 => storageKey[r] = 0
    /\ Len(todo[r]) <= 2 => storageKey[r] # 0
    /\ Len(todo[r]) <= 1 => KeyHolds(r)
    /\ r \in pdfExports => Len(todo[r]) <= 1
    /\ todo[r] = <<>> => r \in pdfExports

-----------------------------------------------------------------------------
(* A step of a handler that goes on is taken off its list.                 *)
LEMMA ContinueTodo ==
  ASSUME GatewayTypeOK, NEW r \in Requests, todo[r] # <<>>, Continue(r)
  PROVE  /\ todo' \in [Requests -> Seq(Steps)]
         /\ \A q \in Requests \ {r} : todo'[q] = todo[q]
         /\ Len(todo[r]) \in Nat /\ Len(todo[r]) >= 1
         /\ Len(todo'[r]) = Len(todo[r]) - 1
         /\ \A i \in 1..Len(todo'[r]) : todo'[r][i] = todo[r][i + 1]
<1>1. todo \in [Requests -> Seq(Steps)] /\ todo' = [todo EXCEPT ![r] = Tail(@)]
  BY DEF GatewayTypeOK, Continue
<1>2. todo[r] \in Seq(Steps) /\ Len(todo[r]) \in Nat /\ Len(todo[r]) >= 1
  BY <1>1, EmptySeq
<1>3. Tail(todo[r]) \in Seq(Steps) /\ Len(Tail(todo[r])) = Len(todo[r]) - 1
      /\ \A i \in 1..Len(Tail(todo[r])) : Tail(todo[r])[i] = todo[r][i + 1]
  BY <1>2, HeadTailProperties
<1> QED
  BY <1>1, <1>2, <1>3

-----------------------------------------------------------------------------
(* Typing, tier by tier.                                                   *)

(* Neither the gateway nor the environment touches what a handler has to   *)
(* do or what a request calls.                                             *)
Exchanges(r) ==
  \/ Sending(r) \/ Hears(r) \/ GatewayStep(r) \/ Drops(r) \/ TakenUp(r)

Surroundings ==
  \/ WindowResets \/ SessionExpires
  \/ \E s \in {"gemini-service", "tools-service"} : Crashes(s)

(* Every request calls an endpoint that has work.                          *)
LEMMA KindsWork ==
  ASSUME GatewayTypeOK, NEW r \in Requests
  PROVE  kind[r] \in Endpoints
BY DEF GatewayTypeOK

(* A step of the gateway or of the browser keeps the types of the          *)
(* exchange.                                                               *)
LEMMA ExchangeTyped ==
  ASSUME GatewayTypeOK, NEW r \in Requests, Exchanges(r)
  PROVE  GatewayTypeOK'
<1> USE DEF GatewayTypeOK, Answering, Counted, Trouble, ServiceStatus, Replies
<1>1. CASE Sending(r) \/ Hears(r)
  BY <1>1 DEF Sending, Hears
<1>2. CASE TooMany(r)
  BY <1>2 DEF TooMany
<1>3. CASE Unauthorized(r)
  BY <1>3 DEF Unauthorized
<1>4. CASE ServiceDown(r)
  BY <1>4 DEF ServiceDown
<1>5. CASE Forward(r)
  BY <1>5 DEF Forward
<1>6. CASE Relay(r)
  BY <1>6 DEF Relay
<1>7. CASE TimesOut(r)
  BY <1>7 DEF TimesOut
<1>8. CASE ConnectionReset(r)
  BY <1>8 DEF ConnectionReset
<1>9. CASE Drops(r)
  BY <1>9 DEF Drops
<1>10. CASE TakenUp(r)
  BY <1>10 DEF TakenUp
<1>11. CASE ConnectFails(r)
  BY <1>11 DEF ConnectFails
<1> QED
  BY <1>1, <1>2, <1>3, <1>4, <1>5, <1>6, <1>7, <1>8, <1>9, <1>10, <1>11
     DEF Exchanges, GatewayStep

(* So do the limiter's clock, the session and a crash.                     *)
LEMMA SurroundingsTyped ==
  ASSUME GatewayTypeOK, Surroundings
  PROVE  GatewayTypeOK'
<1> USE DEF GatewayTypeOK, Trouble, Replies
<1>1. CASE WindowResets
  BY <1>1 DEF WindowResets
<1>2. CASE SessionExpires
  BY <1>2 DEF SessionExpires
<1>3. CASE \E s \in {"gemini-service", "tools-service"} : Crashes(s)
  BY <1>3 DEF Crashes, Pending
<1> QED
  BY <1>1, <1>2, <1>3 DEF Surroundings

(* What a step of a handler does to the exchange: it goes on, or it        *)
(* replies with an error.                                                  *)
Handled(r) ==
  /\ handler[r] = "working"
  /\ todo[r] # <<>>
  /\ Continue(r) \/ (\E status \in Replies \ {"200"} : Fail(r, status))
  /\ troubles' = troubles \/ Trouble

(* And so does a step of a handler, whose list only shrinks.               *)
LEMMA HandledTyped ==
  ASSUME GatewayTypeOK, NEW r \in Requests, Handled(r)
  PROVE  GatewayTypeOK'
<1> USE DEF GatewayTypeOK, hopVars
<1>1. troubles' \in 0..MaxTroubles
  BY DEF Handled, Trouble
<1>2. CASE Continue(r)
  <2>1. todo' \in [Requests -> Seq(Steps)]
    BY <1>2, ContinueTodo DEF Handled
  <2>2. \A q \in Requests : Len(todo'[q]) <= Len(Work[kind'[q]])
    <3>1. ASSUME NEW q \in Requests PROVE Len(todo'[q]) <= Len(Work[kind[q]])
      <4>1. Len(todo[q]) <= Len(Work[kind[q]])
        OBVIOUS
      <4>2. Len(Work[kind[q]]) \in Nat
        BY KindsWork, WorkFacts
      <4>3. CASE q = r
        BY <1>2, <4>1, <4>2, <4>3, ContinueTodo DEF Handled
      <4>4. CASE q # r
        BY <1>2, <4>1, <4>4, ContinueTodo DEF Handled
      <4> QED
        BY <4>3, <4>4
    <3> QED
      BY <1>2, <3>1 DEF Continue
  <2> QED
    BY <1>1, <1>2, <2>1, <2>2 DEF Continue, Replies
<1>3. ASSUME NEW status \in Replies \ {"200"}, Fail(r, status)
      PROVE  GatewayTypeOK'
  BY <1>1, <1>3 DEF Fail
<1> QED
  BY <1>2, <1>3 DEF Handled

(* The handlers of the two services.                                       *)
LEMMA HandlersHandle ==
  ASSUME NEW r \in Requests, GeminiHandler(r) \/ ExportHandler(r)
  PROVE  Handled(r)
<1> USE DEF Handled, At, Replies, Trouble
<1>1. CASE GeminiHandler(r)
  BY <1>1 DEF GeminiHandler, Accept, ModelAnswers, AuditGeneration, Record, SearchFlights,
       FlightsFail, RecordHotelSearch, FetchReference
<1>2. CASE ExportHandler(r)
  BY <1>2 DEF ExportHandler, AcceptExport, FetchItinerary, RenderPdf, PutObject,
       RecordPdfExport, Throws, Goes
<1> QED
  BY <1>1, <1>2

(* Every step is of one of these kinds.                                    *)
Serves(r) ==
  \/ GeminiHandler(r) /\ UNCHANGED <<exportVars, pageVars>>
  \/ ExportHandler(r) /\ UNCHANGED <<geminiVars, pageVars>>

Exchanged(r) == Exchanges(r) /\ UNCHANGED Serving

Elsewhere ==
  /\ UNCHANGED <<gatewayVars, geminiVars>>
  /\ ItineraryEdited \/ Tick \/ UNCHANGED exportVars

(* Whatever happens is a step of an exchange, of the surroundings, of the  *)
(* form page, of a handler, or elsewhere.                                  *)
LEMMA NextCases ==
  ASSUME TypeOK, SearchOK, [Next]_vars
  PROVE  \/ \E r \in Requests : Exchanged(r)
         \/ Surroundings /\ UNCHANGED Serving
         \/ OpenForm
         \/ \E r \in Requests : Serves(r)
         \/ Elsewhere
<1>1. ASSUME Users
      PROVE  \/ \E r \in Requests : Exchanged(r)
             \/ OpenForm
             \/ Elsewhere
  <2>1. ASSUME Debounced PROVE \E r \in Requests : Exchanged(r)
    BY <2>1 DEF Debounced, SearchOK, Of, Exchanged, Exchanges
  <2>2. ASSUME NEW m \in Mounts, EffectStarts(m) PROVE \E r \in Requests : Exchanged(r)
    BY <2>2 DEF EffectStarts, Of, Exchanged, Exchanges
  <2>3. ASSUME NEW r \in Requests, Export(r) \/ CallDirectly(r)
        PROVE  Exchanged(r)
    BY <2>3 DEF Export, CallDirectly, Exchanged, Exchanges
  <2>4. ASSUME (\E m \in Mounts : EffectReturns(m)) \/ (\E r \in Requests : Type(r))
        PROVE  Elsewhere
    BY <2>4 DEF EffectReturns, Type, Serving, Elsewhere
  <2> QED
    BY <1>1, <2>1, <2>2, <2>3, <2>4 DEF Users
<1>2. ASSUME Environment
      PROVE  \/ \E r \in Requests : Exchanged(r)
             \/ Surroundings /\ UNCHANGED Serving
             \/ Elsewhere
  BY <1>2 DEF Environment, Exchanged, Exchanges, Surroundings, ItineraryEdited, Tick, Elsewhere,
       Serving
<1>3. ASSUME NEW r \in Requests, Gatewaying(r) \/ Hearing(r)
      PROVE  Exchanged(r)
  BY <1>3 DEF Gatewaying, Hearing, Exchanged, Exchanges, Hears, PlanArrives, FormHears,
       ResultsArrive, ExportArrives, DirectHears
<1>4. ASSUME NEW r \in Requests, Handling(r)
      PROVE  Serves(r)
  BY <1>4 DEF Handling, Serves
<1>5. ASSUME UNCHANGED vars
      PROVE  Elsewhere
  BY <1>5 DEF vars, Elsewhere
<1> QED
  BY <1>1, <1>2, <1>3, <1>4, <1>5 DEF Next

(* The gateway's part of the type invariant.                               *)
LEMMA GatewayTyped ==
  ASSUME TypeOK, SearchOK, [Next]_vars
  PROVE  GatewayTypeOK'
<1>1. GatewayTypeOK
  BY DEF TypeOK
<1>2. ASSUME OpenForm PROVE GatewayTypeOK'
  BY <1>1, <1>2 DEF OpenForm, GatewayTypeOK
<1>3. ASSUME NEW r \in Requests, Serves(r) PROVE GatewayTypeOK'
  BY <1>1, <1>3, HandlersHandle, HandledTyped DEF Serves
<1>4. ASSUME UNCHANGED gatewayVars PROVE GatewayTypeOK'
  BY <1>1, <1>4 DEF GatewayTypeOK, gatewayVars
<1> QED
  BY <1>1, <1>2, <1>3, <1>4, NextCases, ExchangeTyped, SurroundingsTyped DEF Exchanged, Elsewhere

(* The rest of gemini-service changes with its handlers only.  An audit    *)
(* that is due has something to write.                                     *)
LEMMA DueHasText ==
  ASSUME TypeOK, Audited, NEW r \in Requests, At(r, "audit")
  PROVE  /\ Due(r) = 1
         /\ Len(generated[r]) \in Nat /\ Len(generated[r]) >= 1
         /\ Len(generations[r]) \in Nat /\ unaudited[r] \in Nat
         /\ Len(generations[r]) + unaudited[r] + 1 = Len(generated[r])
         /\ generated[r][Len(generated[r])] \in Texts
<1>1. generated[r] \in Seq(Texts) /\ generations[r] \in Seq(Texts) /\ unaudited[r] \in Nat
  BY DEF TypeOK, GeminiTypeOK
<1>2. Due(r) = 1
  BY DEF At, Due
<1>3. Len(generated[r]) \in Nat /\ Len(generations[r]) \in Nat
  BY <1>1
<1>4. Len(generations[r]) + unaudited[r] + 1 = Len(generated[r])
  BY <1>2 DEF Audited
<1>5. Len(generated[r]) \in 1..Len(generated[r])
  BY <1>1, <1>3, <1>4
<1> QED
  BY <1>1, <1>2, <1>3, <1>4, <1>5

(* The part of gemini-service: only texts are appended.                    *)
LEMMA GeminiTyped ==
  ASSUME TypeOK, SearchOK, Audited, [Next]_vars
  PROVE  GeminiTypeOK'
<1> USE DEF GeminiTypeOK, geminiVars, auditVars
<1>1. GeminiTypeOK
  BY DEF TypeOK
<1>2. ASSUME NEW r \in Requests, ModelAnswers(r) PROVE GeminiTypeOK'
  BY <1>1, <1>2 DEF ModelAnswers
<1>3. ASSUME NEW r \in Requests, AuditGeneration(r) PROVE GeminiTypeOK'
  <2>1. generated[r][Len(generated[r])] \in Texts
    BY <1>3, DueHasText DEF AuditGeneration
  <2>2. CASE generations' = [generations EXCEPT ![r] = Append(@, generated[r][Len(generated[r])])]
             /\ UNCHANGED unaudited
    <3>1. generations' \in [Requests -> Seq(Texts)]
      BY <1>1, <2>1, <2>2
    <3> QED
      BY <1>1, <1>3, <2>2, <3>1 DEF AuditGeneration
  <2>3. CASE unaudited' = [unaudited EXCEPT ![r] = @ + 1] /\ UNCHANGED generations
    BY <1>1, <1>3, <2>3 DEF AuditGeneration
  <2> QED
    BY <1>3, <2>2, <2>3 DEF AuditGeneration, Record
<1>4. ASSUME UNCHANGED geminiVars PROVE GeminiTypeOK'
  BY <1>1, <1>4
<1>5. ASSUME NEW r \in Requests, Serves(r) PROVE GeminiTypeOK'
  BY <1>2, <1>3, <1>4, <1>5 DEF Serves, GeminiHandler, Accept, SearchFlights,
       RecordHotelSearch, FetchReference
<1>6. ASSUME OpenForm PROVE GeminiTypeOK'
  BY <1>4, <1>6 DEF OpenForm, Serving
<1> QED
  BY <1>4, <1>5, <1>6, NextCases DEF Exchanged, Serving, Elsewhere

(* The export's variables change with its handlers, with edits of the      *)
(* itinerary and with time.                                                *)
LEMMA ExportTyped ==
  ASSUME TypeOK, [Next]_vars
  PROVE  ExportTypeOK'
<1> USE DEF ExportTypeOK, exportVars
<1>1. ExportTypeOK
  BY DEF TypeOK
<1>2. ASSUME NEW r \in Requests, ExportHandler(r) PROVE ExportTypeOK'
  <2>1. CASE AcceptExport(r)
    BY <1>1, <2>1 DEF AcceptExport
  <2>2. CASE FetchItinerary(r)
    <3>1. UNCHANGED <<saved, clock, storageKey, objects, pdfExports>>
      BY <2>2 DEF FetchItinerary
    <3>2. rendered' = [rendered EXCEPT ![r] = saved] \/ UNCHANGED rendered
      BY <2>2 DEF FetchItinerary
    <3>3. rendered' \in [Requests -> 0..(1 + MaxEdits)]
      BY <1>1, <3>2
    <3> QED
      BY <1>1, <3>1, <3>3
  <2>3. CASE RenderPdf(r)
    <3>1. UNCHANGED <<saved, clock, rendered, objects, pdfExports>>
      BY <2>3 DEF RenderPdf
    <3>2. storageKey' = [storageKey EXCEPT ![r] = clock] \/ UNCHANGED storageKey
      BY <2>3 DEF RenderPdf
    <3>3. storageKey' \in [Requests -> 0..MaxClock]
      BY <1>1, <3>2
    <3> QED
      BY <1>1, <3>1, <3>3
  <2>4. CASE PutObject(r)
    BY <1>1, <2>4 DEF PutObject
  <2>5. CASE RecordPdfExport(r)
    BY <1>1, <2>5 DEF RecordPdfExport
  <2> QED
    BY <1>2, <2>1, <2>2, <2>3, <2>4, <2>5 DEF ExportHandler
<1>3. ASSUME ItineraryEdited \/ Tick PROVE ExportTypeOK'
  BY <1>1, <1>3 DEF ItineraryEdited, Tick
<1>4. ASSUME UNCHANGED exportVars PROVE ExportTypeOK'
  BY <1>1, <1>4
<1>5. ASSUME Users PROVE UNCHANGED exportVars
  BY <1>5 DEF Users, EffectStarts, EffectReturns, OpenForm, Debounced, Type, Export,
       CallDirectly, Serving
<1>6. ASSUME Environment, ~(ItineraryEdited \/ Tick) PROVE UNCHANGED exportVars
  BY <1>6 DEF Environment, Serving
<1>7. ASSUME NEW r \in Requests, Gatewaying(r) \/ Hearing(r) PROVE UNCHANGED exportVars
  BY <1>7 DEF Gatewaying, Hearing, Hears, PlanArrives, FormHears, ResultsArrive,
       ExportArrives, DirectHears, Serving
<1>8. ASSUME NEW r \in Requests, Handling(r) PROVE ExportTypeOK'
  BY <1>2, <1>4, <1>8 DEF Handling
<1> QED
  BY <1>3, <1>4, <1>5, <1>6, <1>7, <1>8 DEF Next, vars

(* The pages.                                                              *)
PagesOK ==
  /\ sender \in [Requests -> {0} \cup Mounts]
  /\ page \in [Mounts -> [effects : 0..2, started : BOOLEAN, loading : BOOLEAN,
                          shows : Messages \cup {"nothing"}]]
  /\ form \in {"closed", "spinner", "form", "error"}
  /\ search \in [query : Requests \cup {None}, armed : BOOLEAN, loading : BOOLEAN,
                 results : Requests \cup {None}]
  /\ exporting \subseteq Requests

(* The part of the pages.                                                  *)
LEMMA PagesTyped ==
  ASSUME PagesOK, [Next]_vars
  PROVE  PagesOK'
<1> USE DEF PagesOK, pageVars
<1>1. ASSUME NEW m \in Mounts, EffectStarts(m) PROVE PagesOK'
  BY <1>1 DEF EffectStarts, Of, Opened, AlreadyStarted
<1>2. ASSUME NEW m \in Mounts, EffectReturns(m) PROVE PagesOK'
  BY <1>2 DEF EffectReturns, Opened
<1>3. ASSUME OpenForm PROVE PagesOK'
  BY <1>3 DEF OpenForm
<1>4. ASSUME Debounced PROVE PagesOK'
  BY <1>4 DEF Debounced
<1>5. ASSUME NEW r \in Requests, Type(r) PROVE PagesOK'
  BY <1>5 DEF Type
<1>6. ASSUME NEW r \in Requests, Export(r) PROVE PagesOK'
  BY <1>6 DEF Export
<1>7. ASSUME NEW r \in Requests, PlanArrives(r) PROVE PagesOK'
  <2> DEFINE told == Told(r)
  <2>1. told \in Messages
    BY DEF Told, Messages
  <2> HIDE DEF told
  <2>2. page' = [page EXCEPT ![sender[r]] =
                   [@ EXCEPT !.effects = 2, !.loading = FALSE, !.shows = told]]
    BY <1>7 DEF PlanArrives, told
  <2>3. ASSUME NEW m \in Mounts
        PROVE  page'[m] \in [effects : 0..2, started : BOOLEAN, loading : BOOLEAN,
                             shows : Messages \cup {"nothing"}]
    <3>1. CASE m = sender[r]
      <4>1. page'[m] = [page[m] EXCEPT !.effects = 2, !.loading = FALSE, !.shows = told]
        BY <2>2, <3>1
      <4>2. page[m] \in [effects : 0..2, started : BOOLEAN, loading : BOOLEAN,
                         shows : Messages \cup {"nothing"}]
        OBVIOUS
      <4>3. page'[m] = [effects |-> 2, started |-> page[m].started, loading |-> FALSE,
                        shows |-> told]
        BY <4>1, <4>2
      <4> QED
        BY <2>1, <4>2, <4>3
    <3>2. CASE m # sender[r]
      <4>1. page'[m] = page[m]
        BY <2>2, <3>2
      <4> QED
        BY <4>1
    <3> QED
      BY <3>1, <3>2
  <2>4. DOMAIN page' = Mounts /\ page' = [m \in Mounts |-> page'[m]]
    BY <2>2
  <2>5. page' \in [Mounts -> [effects : 0..2, started : BOOLEAN, loading : BOOLEAN,
                             shows : Messages \cup {"nothing"}]]
    BY <2>3, <2>4
  <2> QED
    BY <1>7, <2>5 DEF PlanArrives
<1>8. ASSUME NEW r \in Requests, FormHears(r) PROVE PagesOK'
  BY <1>8 DEF FormHears
<1>9. ASSUME NEW r \in Requests, ResultsArrive(r) PROVE PagesOK'
  BY <1>9 DEF ResultsArrive
<1>10. ASSUME NEW r \in Requests, ExportArrives(r) PROVE PagesOK'
  BY <1>10 DEF ExportArrives
<1>11. ASSUME UNCHANGED pageVars PROVE PagesOK'
  BY <1>11
<1> QED
  BY <1>1, <1>2, <1>3, <1>4, <1>5, <1>6, <1>7, <1>8, <1>9, <1>10, <1>11
     DEF Next, Users, Environment, Gatewaying, Handling, Hearing, CallDirectly, DirectHears, vars

-----------------------------------------------------------------------------
(* The search bar.                                                         *)
LEMMA SearchStep ==
  ASSUME TypeOK, SearchOK, [Next]_vars
  PROVE  SearchOK'
<1> USE DEF SearchOK, Of
<1>1. search \in [query : Requests \cup {None}, armed : BOOLEAN, loading : BOOLEAN,
                  results : Requests \cup {None}]
  BY DEF TypeOK
<1>2. kind' = kind
  BY DEF Next, vars, Users, Environment, Gatewaying, Handling, Hearing, EffectStarts,
       EffectReturns, OpenForm, Debounced, Type, Export, CallDirectly, Sending, Drops,
       TakenUp, WindowResets, SessionExpires, Crashes, ItineraryEdited, Tick, GatewayStep,
       TooMany, Unauthorized, ServiceDown, Forward, ConnectFails, Relay, TimesOut,
       ConnectionReset, gatewayVars,
       hopVars, Continue, Fail, GeminiHandler, Accept, ModelAnswers, AuditGeneration, SearchFlights,
       FlightsFail, RecordHotelSearch, FetchReference, ExportHandler, AcceptExport,
       FetchItinerary, RenderPdf, PutObject, RecordPdfExport, Throws, Goes, Hears,
       PlanArrives, FormHears, ResultsArrive, ExportArrives, DirectHears
<1>3. ASSUME NEW r \in Requests, Type(r) PROVE SearchOK'
  BY <1>1, <1>2, <1>3 DEF Type
<1>4. ASSUME Debounced PROVE SearchOK'
  BY <1>1, <1>2, <1>4 DEF Debounced
<1>5. ASSUME NEW r \in Requests, ResultsArrive(r) PROVE SearchOK'
  BY <1>1, <1>2, <1>5 DEF ResultsArrive
<1>6. ASSUME UNCHANGED search PROVE SearchOK'
  BY <1>2, <1>6
<1> QED
  BY <1>3, <1>4, <1>5, <1>6
     DEF Next, Users, Environment, Gatewaying, Handling, Hearing, EffectStarts, EffectReturns,
       OpenForm, Export, CallDirectly, PlanArrives, FormHears, ExportArrives, DirectHears,
       pageVars, vars

-----------------------------------------------------------------------------
(* A handler's list is the end of its work, and Tail takes its first step. *)
LEMMA OnTrackStep ==
  ASSUME TypeOK, SearchOK, OnTrack, [Next]_vars
  PROVE  OnTrack'
<1>1. GatewayTypeOK
  BY DEF TypeOK
<1>2. ASSUME UNCHANGED <<kind, todo>> PROVE OnTrack'
  BY <1>2 DEF OnTrack
<1>3. ASSUME NEW r \in Requests, Handled(r), Continue(r) PROVE OnTrack'
  <2>1. ASSUME NEW q \in Requests, NEW i \in 1..Len(todo'[q])
        PROVE  todo'[q][i] = Work[kind[q]][Len(Work[kind[q]]) - Len(todo'[q]) + i]
    <3>1. Len(Work[kind[q]]) \in Nat
      BY <1>1, KindsWork, WorkFacts
    <3>2. CASE q = r
      <4>1. /\ Len(todo[r]) \in Nat /\ Len(todo[r]) >= 1 /\ Len(todo'[r]) = Len(todo[r]) - 1
            /\ todo'[r][i] = todo[r][i + 1]
        BY <1>1, <1>3, <2>1, <3>2, ContinueTodo DEF Handled
      <4>2. \A j \in 1..Len(todo[r]) :
               todo[r][j] = Work[kind[r]][Len(Work[kind[r]]) - Len(todo[r]) + j]
        BY DEF OnTrack
      <4>3. \A j \in 1..Len(todo'[r]) : todo'[r][j] = todo[r][j + 1]
        BY <1>1, <1>3, ContinueTodo DEF Handled
      <4>4. \A j \in 1..Len(todo'[r]) :
               todo'[r][j] = Work[kind[r]][Len(Work[kind[r]]) - Len(todo'[r]) + j]
        <5> DEFINE n == Len(Work[kind[r]])
                   m == Len(todo[r])
        <5>1. n \in Nat /\ m \in Nat /\ Len(todo'[r]) = m - 1
          BY <3>1, <3>2, <4>1
        <5>2. ASSUME NEW j \in 1..(m - 1)
              PROVE  todo'[r][j] = Work[kind[r]][n - (m - 1) + j]
          <6>1. todo'[r][j] = todo[r][j + 1] /\ j + 1 \in 1..m
            BY <4>3, <5>1, <5>2
          <6>2. todo[r][j + 1] = Work[kind[r]][n - m + (j + 1)]
            BY <4>2, <5>1, <6>1
          <6> HIDE DEF n, m
          <6>3. n - m + (j + 1) = n - (m - 1) + j
            BY <5>1, <5>2
          <6> QED
            BY <6>1, <6>2, <6>3
        <5> QED
          BY <5>1, <5>2
      <4> QED
        BY <2>1, <3>2, <4>4
    <3>3. CASE q # r
      <4>1. todo'[q] = todo[q]
        BY <1>1, <1>3, <3>3, ContinueTodo DEF Handled
      <4>2. \A j \in 1..Len(todo[q]) :
               todo[q][j] = Work[kind[q]][Len(Work[kind[q]]) - Len(todo[q]) + j]
        BY DEF OnTrack
      <4> QED
        BY <2>1, <4>1, <4>2
    <3> QED
      BY <3>2, <3>3
  <2>2. kind' = kind
    BY <1>3 DEF Continue, hopVars
  <2> QED
    BY <2>1, <2>2 DEF OnTrack
<1>4. ASSUME NEW r \in Requests, Serves(r) PROVE OnTrack'
  <2>1. Handled(r)
    BY <1>4, HandlersHandle DEF Serves
  <2>2. CASE Continue(r)
    BY <1>3, <2>1, <2>2
  <2>3. CASE \E status \in Replies : Fail(r, status)
    BY <1>2, <2>3 DEF Fail, hopVars
  <2> QED
    BY <2>1, <2>2, <2>3 DEF Handled
<1>5. ASSUME NEW r \in Requests, Exchanged(r) PROVE OnTrack'
  BY <1>2, <1>5 DEF Exchanged, Exchanges, Sending, Hears, GatewayStep, TooMany, Unauthorized,
       ServiceDown, Forward, ConnectFails, Relay, TimesOut, ConnectionReset, Drops, TakenUp
<1>6. ASSUME Surroundings \/ OpenForm \/ UNCHANGED gatewayVars PROVE OnTrack'
  BY <1>2, <1>6 DEF Surroundings, WindowResets, SessionExpires, Crashes, Pending, OpenForm,
       gatewayVars
<1> QED
  BY <1>4, <1>5, <1>6, NextCases DEF Elsewhere

(* Where a handler is in its work, and what comes after.                   *)
LEMMA AtPlace ==
  ASSUME TypeOK, OnTrack, NEW r \in Requests, NEW s, At(r, s)
  PROVE  LET w == Work[kind[r]]
             n == Len(todo[r])
         IN  /\ n \in Nat /\ n >= 1 /\ Len(w) \in Nat /\ n <= Len(w)
             /\ w[Len(w) - n + 1] = s
             /\ \A i \in 1..n : todo[r][i] = w[Len(w) - n + i]
<1>1. kind[r] \in Endpoints /\ todo[r] \in Seq(Steps) /\ Len(todo[r]) <= Len(Work[kind[r]])
  BY KindsWork DEF TypeOK, GatewayTypeOK
<1>2. Len(todo[r]) \in Nat /\ Len(todo[r]) >= 1 /\ Len(Work[kind[r]]) \in Nat
  <2>1. Len(Work[kind[r]]) \in Nat
    BY <1>1, WorkFacts
  <2> QED
    BY <1>1, <2>1, EmptySeq DEF At
<1>3. todo[r][1] = s
  BY <1>1 DEF At
<1> DEFINE w == Work[kind[r]]
           n == Len(todo[r])
<1>4. \A i \in 1..n : todo[r][i] = w[Len(w) - n + i]
  BY DEF OnTrack
<1>5. n \in Nat /\ n >= 1 /\ Len(w) \in Nat /\ n <= Len(w)
  BY <1>1, <1>2
<1> HIDE DEF w, n
<1>6. todo[r][1] = w[Len(w) - n + 1]
  BY <1>4, <1>5
<1>7. w[Len(w) - n + 1] = s
  BY <1>3, <1>6
<1> QED
  BY <1>4, <1>5, <1>7 DEF w, n

(* After a generation an audit is due, and after nothing else.             *)
LEMMA DueAfter ==
  ASSUME TypeOK, OnTrack, NEW r \in Requests, NEW s, At(r, s), Continue(r)
  PROVE  /\ Due(r)' = (IF s = "model" THEN 1 ELSE 0)
         /\ Due(r) = (IF s = "audit" THEN 1 ELSE 0)
         /\ s = "model" => Len(todo[r]) # 1
         /\ \A q \in Requests \ {r} : Due(q)' = Due(q)
<1> DEFINE w == Work[kind[r]]
           n == Len(todo[r])
           i == Len(w) - n + 1
<1>1. /\ n \in Nat /\ n >= 1 /\ Len(w) \in Nat /\ n <= Len(w) /\ w[i] = s
      /\ \A j \in 1..n : todo[r][j] = w[Len(w) - n + j]
  BY AtPlace
<1>2. Paired(w)
  BY KindsWork, WorkFacts DEF TypeOK
<1>3. /\ todo' \in [Requests -> Seq(Steps)]
      /\ Len(todo'[r]) = n - 1
      /\ \A j \in 1..(n - 1) : todo'[r][j] = todo[r][j + 1]
      /\ \A q \in Requests \ {r} : todo'[q] = todo[q]
  BY ContinueTodo DEF TypeOK, At
<1>4. \A q \in Requests \ {r} : Due(q)' = Due(q)
  BY <1>3 DEF Due
<1>5. Due(r) = (IF s = "audit" THEN 1 ELSE 0)
  BY DEF Due, At
<1> HIDE DEF w, n
<1>6. i \in 1..Len(w)
  BY <1>1
<1>7. CASE n = 1
  <2>1. i = Len(w)
    BY <1>1, <1>7
  <2>2. s # "model"
    BY <1>1, <1>2, <1>6, <2>1 DEF Paired
  <2>3. todo'[r] = <<>>
    BY <1>3, <1>7, EmptySeq
  <2>4. Due(r)' = 0
    BY <2>3 DEF Due
  <2> QED
    BY <1>4, <1>5, <2>2, <2>4 DEF n
<1>8. CASE n > 1
  <2>1. i + 1 \in 1..Len(w) /\ i < Len(w) /\ i + 1 > 1 /\ (i + 1) - 1 = i
    BY <1>1, <1>8
  <2>2. w[i] = "model" <=> w[i + 1] = "audit"
    BY <1>2, <1>6, <2>1 DEF Paired
  <2>3. todo'[r][1] = todo[r][2] /\ todo[r][2] = w[Len(w) - n + 2]
    <3>1. 1 \in 1..(n - 1) /\ 2 \in 1..n /\ 1 + 1 = 2
      BY <1>1, <1>8
    <3>2. todo'[r][1] = todo[r][1 + 1]
      BY <1>3, <3>1
    <3> QED
      BY <1>1, <3>1, <3>2
  <2>4. Len(w) - n + 2 = i + 1
    BY <1>1
  <2>5. todo'[r][1] = w[i + 1]
    BY <2>3, <2>4
  <2>6. todo'[r] # <<>> /\ Head(todo'[r]) = todo'[r][1]
    BY <1>1, <1>3, <1>8, EmptySeq
  <2>7. Due(r)' = (IF w[i + 1] = "audit" THEN 1 ELSE 0)
    BY <2>5, <2>6 DEF Due
  <2> HIDE DEF i
  <2>8. Due(r)' = (IF s = "model" THEN 1 ELSE 0)
    <3>1. w[i] = s
      BY <1>1
    <3>2. CASE s = "model"
      BY <2>2, <2>7, <3>1, <3>2
    <3>3. CASE s # "model"
      BY <2>2, <2>7, <3>1, <3>3
    <3> QED
      BY <3>2, <3>3
  <2>9. Len(todo[r]) # 1
    <3>1. n # 1
      BY <1>1, <1>8
    <3> QED
      BY <3>1 DEF n
  <2> QED
    BY <1>4, <1>5, <2>8, <2>9
<1> QED
  BY <1>1, <1>7, <1>8

-----------------------------------------------------------------------------
(* The audit trail.                                                        *)

(* A step of a handler that neither generates nor writes an audit row.     *)
Plain(r) ==
  \E s \in Steps \ {"model", "audit"} :
    /\ At(r, s)
    /\ Continue(r) \/ (\E status \in Replies \ {"200"} : Fail(r, status))
    /\ UNCHANGED geminiVars

(* Only the model and the audit touch what gemini-service has generated    *)
(* and recorded.                                                           *)
LEMMA ServesCases ==
  ASSUME NEW r \in Requests, Serves(r)
  PROVE  ModelAnswers(r) \/ AuditGeneration(r) \/ Plain(r)
<1> USE DEF Steps, Replies
<1>1. ASSUME NEW s \in Steps \ {"model", "audit"}, At(r, s), UNCHANGED geminiVars,
             Continue(r) \/ (\E status \in Replies \ {"200"} : Fail(r, status))
      PROVE  Plain(r)
  BY <1>1 DEF Plain
<1>2. CASE GeminiHandler(r)
  <2>1. CASE Accept(r)
    BY <1>1, <2>1 DEF Accept
  <2>2. CASE SearchFlights(r)
    BY <1>1, <2>2 DEF SearchFlights, FlightsFail
  <2>3. CASE RecordHotelSearch(r)
    BY <1>1, <2>3 DEF RecordHotelSearch
  <2>4. CASE FetchReference(r)
    BY <1>1, <2>4 DEF FetchReference
  <2> QED
    BY <1>2, <2>1, <2>2, <2>3, <2>4 DEF GeminiHandler
<1>3. CASE ExportHandler(r) /\ UNCHANGED geminiVars
  <2>1. CASE AcceptExport(r)
    BY <1>1, <1>3, <2>1 DEF AcceptExport
  <2>2. CASE FetchItinerary(r)
    BY <1>1, <1>3, <2>2 DEF FetchItinerary
  <2>3. CASE RenderPdf(r)
    BY <1>1, <1>3, <2>3 DEF RenderPdf, Throws, Goes
  <2>4. CASE PutObject(r)
    BY <1>1, <1>3, <2>4 DEF PutObject, Throws, Goes
  <2>5. CASE RecordPdfExport(r)
    BY <1>1, <1>3, <2>5 DEF RecordPdfExport, Throws, Goes
  <2> QED
    BY <1>3, <2>1, <2>2, <2>3, <2>4, <2>5 DEF ExportHandler
<1> QED
  BY <1>2, <1>3 DEF Serves, geminiVars

(* A handler that has not replied is begun, given up or killed.            *)
Shifts(q) ==
  \/ handler'[q] = handler[q]
  \/ /\ handler'[q] \in {"none", "queued", "working", "dead"}
     /\ handler'[q] \in {"none", "queued"} => handler[q] \in {"none", "queued"}

(* Outside the handlers nothing is generated, recorded or taken off a      *)
(* list, and handlers only shift.                                          *)
LEMMA OutsideHandlers ==
  ASSUME TypeOK, SearchOK, Reached, [Next]_vars
  PROVE  \/ \E r \in Requests : Serves(r)
         \/ /\ UNCHANGED <<geminiVars, todo>>
            /\ \A q \in Requests : Shifts(q)
<1> DEFINE Kept == /\ UNCHANGED <<geminiVars, todo>>
                   /\ \A q \in Requests : Shifts(q)
<1>1. ASSUME NEW r \in Requests, Exchanged(r) PROVE Kept
  <2>1. UNCHANGED <<geminiVars, todo>>
    BY <1>1 DEF Exchanged, Serving, Exchanges, Sending, Hears, GatewayStep, TooMany, Unauthorized,
         ServiceDown, Forward, ConnectFails, Relay, TimesOut, ConnectionReset, Drops, TakenUp
  <2>2. ASSUME Forward(r) PROVE \A q \in Requests : Shifts(q)
    BY <1>1, <2>2 DEF Forward, Shifts, Reached, TypeOK, GatewayTypeOK
  <2>3. ASSUME ConnectFails(r) PROVE \A q \in Requests : Shifts(q)
    BY <2>3 DEF ConnectFails, Shifts, TypeOK, GatewayTypeOK
  <2>4. ASSUME TakenUp(r) PROVE \A q \in Requests : Shifts(q)
    BY <2>4 DEF TakenUp, Shifts, TypeOK, GatewayTypeOK
  <2>5. ASSUME ~Forward(r) /\ ~ConnectFails(r) /\ ~TakenUp(r) PROVE \A q \in Requests : Shifts(q)
    BY <1>1, <2>5 DEF Exchanged, Exchanges, Sending, Hears, GatewayStep, TooMany, Unauthorized,
         ServiceDown, Relay, TimesOut, ConnectionReset, Drops, Shifts
  <2> QED
    BY <2>1, <2>2, <2>3, <2>4, <2>5
<1>2. ASSUME Surroundings, UNCHANGED Serving PROVE Kept
  BY <1>2 DEF Serving, Surroundings, WindowResets, SessionExpires, Crashes, Pending, Shifts
<1>3. ASSUME OpenForm \/ UNCHANGED <<gatewayVars, geminiVars>> PROVE Kept
  BY <1>3 DEF OpenForm, Serving, gatewayVars, Shifts
<1> QED
  BY <1>1, <1>2, <1>3, NextCases DEF Elsewhere

(* Audited, request by request.                                            *)
AuditedAt(r) ==
  /\ Len(generations[r]) + unaudited[r] + Due(r) = Len(generated[r])
  /\ unaudited[r] = 0 =>
       \A i \in 1..Len(generations[r]) : generations[r][i] = generated[r][i]
  /\ Due(r) = 1 => handler[r] \in {"working", "dead"}

(* The audit of a request that nothing touches is as it was.               *)
LEMMA AuditedAtKept ==
  ASSUME NEW q \in Requests, AuditedAt(q), Due(q)' = Due(q),
         generations'[q] = generations[q], unaudited'[q] = unaudited[q],
         generated'[q] = generated[q],
         Shifts(q) \/ Due(q) = 0
  PROVE  AuditedAt(q)'
BY DEF AuditedAt, Shifts

(* A generation makes an audit due, an audit settles it, and nothing else  *)
(* moves the count.                                                        *)
LEMMA AuditedStep ==
  ASSUME TypeOK, SearchOK, OnTrack, Reached, Audited, [Next]_vars
  PROVE  Audited'
<1>1. \A q \in Requests : AuditedAt(q)
  BY DEF Audited, AuditedAt
<1>2. ASSUME \A q \in Requests : AuditedAt(q)'
      PROVE  Audited'
  BY <1>2 DEF Audited, AuditedAt
<1> USE DEF geminiVars, auditVars
<1>3. ASSUME UNCHANGED <<geminiVars, todo>>,
             \A q \in Requests : Shifts(q)
      PROVE  Audited'
  <2>1. \A q \in Requests : Due(q)' = Due(q)
    BY <1>3 DEF Due
  <2> QED
    BY <1>1, <1>2, <1>3, <2>1, AuditedAtKept DEF Shifts
<1>7. ASSUME NEW r \in Requests, Plain(r) PROVE Audited'
  <2>1. PICK s \in Steps \ {"model", "audit"} :
          /\ At(r, s)
          /\ Continue(r) \/ (\E status \in Replies \ {"200"} : Fail(r, status))
          /\ UNCHANGED geminiVars
    BY <1>7 DEF Plain
  <2>2. Due(r) = 0
    BY <2>1 DEF Due, At
  <2>3. \A q \in Requests : Due(q)' = Due(q)
    <3>1. CASE Continue(r)
      BY <2>1, <2>2, <3>1, DueAfter
    <3>2. CASE \E status \in Replies : Fail(r, status)
      BY <3>2 DEF Fail, Due
    <3> QED
      BY <2>1, <3>1, <3>2
  <2>4. \A q \in Requests \ {r} : handler'[q] = handler[q]
    BY <2>1 DEF Continue, Fail, TypeOK, GatewayTypeOK
  <2> QED
    BY <1>1, <1>2, <2>1, <2>2, <2>3, <2>4, AuditedAtKept DEF Shifts
<1>8. ASSUME NEW r \in Requests, ModelAnswers(r) PROVE Audited'
  <2>1. At(r, "model") /\ Continue(r) /\ UNCHANGED <<generations, unaudited>>
    BY <1>8 DEF ModelAnswers
  <2>2. PICK text \in Texts : generated' = [generated EXCEPT ![r] = Append(@, text)]
    BY <1>8 DEF ModelAnswers
  <2>3. /\ Due(r)' = 1 /\ Due(r) = 0 /\ Len(todo[r]) # 1
        /\ \A q \in Requests \ {r} : Due(q)' = Due(q)
    BY <2>1, DueAfter
  <2>4. /\ generated[r] \in Seq(Texts) /\ generations[r] \in Seq(Texts) /\ unaudited[r] \in Nat
        /\ generated'[r] = Append(generated[r], text)
        /\ \A q \in Requests \ {r} : generated'[q] = generated[q]
    BY <2>2 DEF TypeOK, GeminiTypeOK
  <2>5. handler' = handler /\ handler[r] = "working"
    <3>1. handler' = [handler EXCEPT ![r] = handler[r]]
      BY <2>1, <2>3 DEF Continue
    <3> QED
      BY <2>1, <3>1 DEF At, TypeOK, GatewayTypeOK
  <2>6. AuditedAt(r)'
    <3>1. Len(generated'[r]) = Len(generated[r]) + 1
          /\ \A i \in 1..Len(generated[r]) : generated'[r][i] = generated[r][i]
      BY <2>4, AppendProperties
    <3>2. Len(generations[r]) + unaudited[r] = Len(generated[r])
          /\ Len(generations[r]) \in Nat /\ Len(generated[r]) \in Nat
      BY <1>1, <2>3, <2>4 DEF AuditedAt
    <3>3. 1..Len(generations[r]) \subseteq 1..Len(generated[r])
      BY <2>4, <3>2
    <3>4. Len(generations'[r]) + unaudited'[r] + Due(r)' = Len(generated'[r])
      BY <2>1, <2>3, <2>4, <3>1, <3>2
    <3>5. unaudited'[r] = 0 =>
            \A i \in 1..Len(generations'[r]) : generations'[r][i] = generated'[r][i]
      BY <1>1, <2>1, <3>1, <3>3 DEF AuditedAt
    <3> QED
      BY <2>5, <3>4, <3>5 DEF AuditedAt
  <2>7. \A q \in Requests \ {r} : AuditedAt(q)'
    BY <1>1, <2>1, <2>3, <2>4, <2>5, AuditedAtKept DEF Shifts
  <2> QED
    BY <1>2, <2>6, <2>7
<1>9. ASSUME NEW r \in Requests, AuditGeneration(r) PROVE Audited'
  <2>1. At(r, "audit") /\ Continue(r) /\ UNCHANGED generated
    BY <1>9 DEF AuditGeneration
  <2>2. /\ Due(r)' = 0 /\ Due(r) = 1
        /\ \A q \in Requests \ {r} : Due(q)' = Due(q)
    BY <2>1, DueAfter
  <2>3. /\ Len(generated[r]) \in Nat /\ Len(generations[r]) \in Nat /\ unaudited[r] \in Nat
        /\ Len(generations[r]) + unaudited[r] + 1 = Len(generated[r])
    BY <2>1, DueHasText
  <2>4. generations[r] \in Seq(Texts)
    BY DEF TypeOK, GeminiTypeOK
  <2>5. \A q \in Requests \ {r} : handler'[q] = handler[q]
    BY <2>1 DEF Continue, TypeOK, GatewayTypeOK
  <2> DEFINE row == generated[r][Len(generated[r])]
  <2>6. CASE generations' = [generations EXCEPT ![r] = Append(@, row)] /\ UNCHANGED unaudited
    <3>1. /\ generations'[r] = Append(generations[r], row)
          /\ \A q \in Requests \ {r} : generations'[q] = generations[q]
      BY <2>6 DEF TypeOK, GeminiTypeOK
    <3>2. row \in Texts
      BY <2>1, DueHasText
    <3> HIDE DEF row
    <3>3. /\ Len(generations'[r]) = Len(generations[r]) + 1
          /\ generations'[r][Len(generations[r]) + 1] = row
          /\ \A i \in 1..Len(generations[r]) : generations'[r][i] = generations[r][i]
      BY <2>4, <3>1, <3>2, AppendProperties
    <3>4. Len(generations'[r]) + unaudited'[r] + Due(r)' = Len(generated'[r])
      BY <2>1, <2>2, <2>3, <2>6, <3>3
    <3>5. ASSUME unaudited[r] = 0, NEW i \in 1..(Len(generations[r]) + 1)
          PROVE  generations'[r][i] = generated[r][i]
      <4>1. CASE i = Len(generations[r]) + 1
        <5>1. i = Len(generated[r])
          BY <2>3, <3>5, <4>1
        <5> QED
          BY <3>3, <4>1, <5>1 DEF row
      <4>2. CASE i \in 1..Len(generations[r])
        BY <1>1, <3>3, <3>5, <4>2 DEF AuditedAt
      <4> QED
        BY <2>3, <3>5, <4>1, <4>2
    <3>6. AuditedAt(r)'
      BY <2>1, <2>2, <2>6, <3>3, <3>4, <3>5 DEF AuditedAt
    <3>7. \A q \in Requests \ {r} : AuditedAt(q)'
      BY <1>1, <2>1, <2>2, <2>5, <2>6, <3>1, AuditedAtKept DEF Shifts
    <3> QED
      BY <1>2, <3>6, <3>7
  <2>7. CASE unaudited' = [unaudited EXCEPT ![r] = @ + 1] /\ UNCHANGED generations
    <3>1. /\ unaudited'[r] = unaudited[r] + 1
          /\ \A q \in Requests \ {r} : unaudited'[q] = unaudited[q]
      BY <2>7 DEF TypeOK, GeminiTypeOK
    <3>2. AuditedAt(r)'
      BY <2>1, <2>2, <2>3, <2>7, <3>1 DEF AuditedAt
    <3>3. \A q \in Requests \ {r} : AuditedAt(q)'
      BY <1>1, <2>1, <2>2, <2>5, <2>7, <3>1, AuditedAtKept DEF Shifts
    <3> QED
      BY <1>2, <3>2, <3>3
  <2> QED
    BY <1>9, <2>6, <2>7 DEF AuditGeneration, Record
<1> QED
  BY <1>3, <1>7, <1>8, <1>9, OutsideHandlers, ServesCases

-----------------------------------------------------------------------------
(* Who sends what.                                                         *)

(* No request changes the endpoint that it calls.                          *)
LEMMA KindStep ==
  ASSUME TypeOK, SearchOK, [Next]_vars
  PROVE  kind' = kind
<1>1. ASSUME NEW r \in Requests, Serves(r) PROVE kind' = kind
  BY <1>1, HandlersHandle DEF Serves, Handled, Continue, Fail, hopVars
<1>2. ASSUME NEW r \in Requests, Exchanged(r) PROVE kind' = kind
  BY <1>2 DEF Exchanged, Exchanges, Sending, Hears, GatewayStep, TooMany, Unauthorized,
       ServiceDown, Forward, ConnectFails, Relay, TimesOut, ConnectionReset, Drops, TakenUp
<1>3. ASSUME Surroundings \/ OpenForm \/ UNCHANGED gatewayVars PROVE kind' = kind
  BY <1>3 DEF Surroundings, WindowResets, SessionExpires, Crashes, Pending, OpenForm, gatewayVars
<1> QED
  BY <1>1, <1>2, <1>3, NextCases DEF Elsewhere

(* An exchange begins with the page that its endpoint belongs to, and      *)
(* afterwards only the gateway and the browser move it.                    *)
LEMMA LegStep ==
  ASSUME TypeOK, SearchOK, [Next]_vars, NEW q \in Requests, leg[q] = "idle", leg'[q] # "idle"
  PROVE  \/ kind[q] = "plan" /\ \E m \in Mounts : EffectStarts(m) /\ sender'[q] = m
         \/ kind[q] # "plan" /\ (q \notin References \/ OpenForm)
<1> USE DEF TypeOK, GatewayTypeOK, Of, References
<1>1. ASSUME NEW m \in Mounts, EffectStarts(m) PROVE kind[q] = "plan" /\ sender'[q] = m
  <2>1. PICK r \in Of("plan") : Sending(r) /\ sender' = [sender EXCEPT ![r] = m]
    BY <1>1 DEF EffectStarts
  <2>2. r = q
    BY <2>1 DEF Sending
  <2> QED
    BY <2>1, <2>2
<1>2. ASSUME Debounced PROVE kind[q] = "hotels"
  BY <1>2 DEF Debounced, Sending, SearchOK
<1>3. ASSUME OpenForm PROVE kind[q] # "plan"
  BY <1>3 DEF OpenForm
<1>4. ASSUME NEW r \in Requests, Export(r) \/ CallDirectly(r)
      PROVE  kind[q] # "plan" /\ q \notin References
  BY <1>4 DEF Export, CallDirectly, Sending
<1>5. ASSUME NEW r \in Requests, GatewayStep(r) \/ Drops(r) \/ TakenUp(r) \/ Hears(r) PROVE FALSE
  BY <1>5 DEF GatewayStep, TooMany, Unauthorized, ServiceDown, Forward, ConnectFails, Relay,
       TimesOut,
       ConnectionReset, Answering, Drops, TakenUp, Hears
<1>6. ASSUME UNCHANGED leg PROVE FALSE
  BY <1>6
<1>7. ASSUME NEW r \in Requests, Handling(r) PROVE FALSE
  BY <1>6, <1>7, HandlersHandle DEF Handling, Handled, Continue, Fail, hopVars
<1> QED
  BY <1>1, <1>2, <1>3, <1>4, <1>5, <1>6, <1>7
     DEF Next, vars, gatewayVars, Users, Environment, Gatewaying, Hearing, PlanArrives, FormHears,
       ResultsArrive, ExportArrives, DirectHears, EffectReturns, Type, WindowResets,
       SessionExpires, Crashes, Pending, ItineraryEdited, Tick

(* The form sends its two requests when it opens and never before.         *)
LEMMA FormStep ==
  ASSUME TypeOK, SearchOK, FormOK, [Next]_vars
  PROVE  FormOK'
<1>1. ASSUME form' = "closed" PROVE form = "closed" /\ ~OpenForm
  BY <1>1 DEF Next, vars, pageVars, Users, Environment, Gatewaying, Handling, Hearing, EffectStarts,
       EffectReturns, OpenForm, Debounced, Type, Export, CallDirectly, PlanArrives, FormHears,
       ResultsArrive, ExportArrives, DirectHears
<1>2. ASSUME NEW q \in References, form' = "closed" PROVE leg'[q] = "idle"
  <2>1. leg[q] = "idle" /\ q \in Requests /\ kind[q] # "plan"
    BY <1>1, <1>2 DEF FormOK, References, Of
  <2> QED
    BY <1>1, <1>2, <2>1, LegStep
<1>3. References' = References
  BY KindStep DEF References, Of
<1> QED
  BY <1>2, <1>3 DEF FormOK

(* A mount sends one plan.                                                 *)
LEMMA SentStep ==
  ASSUME TypeOK, SearchOK, Sent, [Next]_vars
  PROVE  Sent'
<1>1. /\ sender \in [Requests -> {0} \cup Mounts]
      /\ page \in [Mounts -> [effects : 0..2, started : BOOLEAN, loading : BOOLEAN,
                              shows : Messages \cup {"nothing"}]]
      /\ Mounts \subseteq Nat \ {0}
  BY DEF TypeOK, Mounts
<1>2. \A m \in Mounts : page[m].started => page'[m].started
  <2>1. ASSUME NEW m \in Mounts, EffectStarts(m) \/ EffectReturns(m)
        PROVE  \A n \in Mounts : page[n].started => page'[n].started
    BY <1>1, <2>1 DEF EffectStarts, EffectReturns
  <2>2. ASSUME NEW r \in Requests, PlanArrives(r)
        PROVE  \A n \in Mounts : page[n].started => page'[n].started
    BY <1>1, <2>2 DEF PlanArrives
  <2> QED
    BY <2>1, <2>2 DEF Next, vars, pageVars, Users, Environment, Gatewaying, Handling, Hearing,
         OpenForm, Debounced, Type, Export, CallDirectly, FormHears, ResultsArrive,
         ExportArrives, DirectHears
<1>3. ASSUME NEW m \in Mounts, EffectStarts(m)
      PROVE  /\ \A r \in Requests : sender'[r] # 0 => page'[sender'[r]].started
             /\ \A q, r \in Requests : sender'[q] = sender'[r] /\ sender'[q] # 0 => q = r
             /\ \A r \in Requests : sender[r] # 0 => sender'[r] # 0
  <2>1. PICK s \in Requests : sender' = [sender EXCEPT ![s] = m]
    BY <1>3 DEF EffectStarts, Of
  <2>2. \A r \in Requests : sender[r] # m
    BY <1>1, <1>3 DEF EffectStarts, AlreadyStarted, Sent
  <2>3. page'[m].started
    BY <1>1, <1>3 DEF EffectStarts
  <2>4. \A r \in Requests : sender[r] # 0 => sender[r] \in Mounts /\ page[sender[r]].started
    BY <1>1 DEF Sent
  <2>5. \A r \in Requests : sender'[r] = IF r = s THEN m ELSE sender[r]
    BY <1>1, <2>1
  <2>6. \A r \in Requests : sender'[r] # 0 => page'[sender'[r]].started
    BY <1>2, <2>3, <2>4, <2>5
  <2>7. \A q, r \in Requests : sender'[q] = sender'[r] /\ sender'[q] # 0 => q = r
    BY <2>2, <2>5 DEF Sent
  <2> QED
    BY <1>1, <2>5, <2>6, <2>7
<1>4. ASSUME UNCHANGED sender
      PROVE  /\ \A r \in Requests : sender'[r] # 0 => page'[sender'[r]].started
             /\ \A q, r \in Requests : sender'[q] = sender'[r] /\ sender'[q] # 0 => q = r
             /\ \A r \in Requests : sender[r] # 0 => sender'[r] # 0
  BY <1>1, <1>2, <1>4 DEF Sent
<1>5. (\E m \in Mounts : EffectStarts(m)) \/ UNCHANGED sender
  BY DEF Next, vars, pageVars, Users, Environment, Gatewaying, Handling, Hearing, EffectReturns,
       OpenForm, Debounced, Type, Export, CallDirectly, PlanArrives, FormHears, ResultsArrive,
       ExportArrives, DirectHears
<1>6. ASSUME NEW r \in Of("plan"), leg'[r] # "idle" PROVE sender'[r] # 0
  <2>1. CASE leg[r] = "idle"
    BY <1>1, <1>6, <2>1, LegStep DEF Of
  <2>2. CASE leg[r] # "idle"
    BY <1>3, <1>4, <1>5, <2>2 DEF Sent, Of
  <2> QED
    BY <2>1, <2>2
<1>7. Of("plan")' = Of("plan")
  BY KindStep DEF Of
<1> QED
  BY <1>3, <1>4, <1>5, <1>6, <1>7 DEF Sent

-----------------------------------------------------------------------------
(* A handler concerns its own request only ...                             *)
LEMMA ServesFrame ==
  ASSUME TypeOK, NEW r \in Requests, Serves(r)
  PROVE  /\ UNCHANGED <<leg, outcome, kind, keys>>
         /\ \A q \in Requests \ {r} :
              handler'[q] = handler[q] /\ todo'[q] = todo[q] /\ generated'[q] = generated[q]
<1>1. Handled(r)
  BY HandlersHandle DEF Serves
<1>2. /\ UNCHANGED <<leg, outcome, kind>>
      /\ \A q \in Requests \ {r} : handler'[q] = handler[q] /\ todo'[q] = todo[q]
  BY <1>1 DEF Handled, Continue, Fail, hopVars, TypeOK, GatewayTypeOK
<1>3. keys' = keys /\ \A q \in Requests \ {r} : generated'[q] = generated[q]
  BY ServesCases DEF ModelAnswers, AuditGeneration, Plain, geminiVars, TypeOK, GeminiTypeOK
<1> QED
  BY <1>2, <1>3

(* ... and either goes on, up to the 200, or replies with an error.        *)
LEMMA ServesEffect ==
  ASSUME TypeOK, NEW r \in Requests, Serves(r)
  PROVE  /\ handler[r] = "working" /\ todo[r] # <<>>
         /\ \/ /\ Continue(r)
               /\ Len(todo'[r]) = Len(todo[r]) - 1
               /\ handler'[r] \in {"working", "200"}
            \/ /\ \E status \in Replies \ {"200"} : Fail(r, status) /\ handler'[r] = status
               /\ Plain(r)
               /\ todo' = todo
         /\ handler'[r] \notin {"none", "queued"}
         /\ handler'[r] = "200" <=> todo'[r] = <<>>
<1>1. Handled(r)
  BY HandlersHandle DEF Serves
<1>2. handler \in [Requests -> Replies \cup {"none", "queued", "working", "dead"}] /\ GatewayTypeOK
      /\ handler[r] = "working" /\ todo[r] # <<>>
  BY <1>1 DEF TypeOK, GatewayTypeOK, Handled
<1>3. CASE Continue(r)
  <2>1. /\ todo' \in [Requests -> Seq(Steps)]
        /\ Len(todo[r]) \in Nat /\ Len(todo[r]) >= 1
        /\ Len(todo'[r]) = Len(todo[r]) - 1
    BY <1>2, <1>3, ContinueTodo
  <2>2. todo'[r] = <<>> <=> Len(todo[r]) = 1
    <3>1. todo'[r] \in Seq(Steps)
      BY <2>1
    <3>2. todo'[r] = <<>> <=> Len(todo'[r]) = 0
      BY <3>1, EmptySeq
    <3> QED
      BY <2>1, <3>2
  <2>3. handler'[r] = IF Len(todo[r]) = 1 THEN "200" ELSE "working"
    BY <1>2, <1>3 DEF Continue
  <2> QED
    BY <1>2, <1>3, <2>1, <2>2, <2>3
<1>4. CASE ~Continue(r)
  <2>1. PICK status \in Replies \ {"200"} : Fail(r, status)
    BY <1>1, <1>4 DEF Handled
  <2>2. handler'[r] = status /\ todo' = todo /\ status \notin {"none", "queued"}
    BY <1>2, <2>1 DEF Fail, Replies
  <2>3. Plain(r)
    BY <1>4, ServesCases DEF ModelAnswers, AuditGeneration
  <2> QED
    BY <1>2, <2>1, <2>2, <2>3
<1> QED
  BY <1>3, <1>4

(* What has reached a handler.                                             *)
ReachedAt(r) ==
  /\ leg[r] \in {"idle", "sent"} => handler[r] = "none"
  /\ leg[r] = "forwarded" => handler[r] # "none"
  /\ handler[r] \in {"none", "queued"} => generated[r] = <<>>
  /\ handler[r] = "200" => todo[r] = <<>>
  /\ todo[r] = <<>> => handler[r] = "200"

(* Only a forwarded request waits for a handler, and only the end of its   *)
(* list makes that answer 200.                                             *)
LEMMA ReachedStep ==
  ASSUME TypeOK, SearchOK, FormOK, Reached, [Next]_vars
  PROVE  Reached'
<1>1. \A q \in Requests : ReachedAt(q)
  BY DEF Reached, ReachedAt
<1>2. ASSUME \A q \in Requests : ReachedAt(q)'
      PROVE  Reached'
  BY <1>2 DEF Reached, ReachedAt
<1>3. GatewayTypeOK /\ GeminiTypeOK
  BY DEF TypeOK
<1> USE DEF geminiVars
<1>4. ASSUME NEW r \in Requests, Exchanges(r), UNCHANGED geminiVars PROVE Reached'
  <2>1. ASSUME NEW q \in Requests PROVE ReachedAt(q)'
    <3>1. ReachedAt(q)
      BY <1>1
    <3>2. CASE ~Forward(r) /\ ~ConnectFails(r) /\ ~TakenUp(r)
      BY <1>3, <1>4, <3>1, <3>2 DEF ReachedAt, GatewayTypeOK, Exchanges, Sending, Hears,
           GatewayStep, TooMany, Unauthorized, ServiceDown, Relay, TimesOut, ConnectionReset,
           Drops, Answering
    <3>3. CASE Forward(r)
      BY <1>3, <1>4, <3>1, <3>3 DEF ReachedAt, GatewayTypeOK, Forward
    <3>4. CASE ConnectFails(r)
      BY <1>3, <1>4, <3>1, <3>4 DEF ReachedAt, GatewayTypeOK, ConnectFails, Answering
    <3>5. CASE TakenUp(r)
      BY <1>3, <1>4, <3>1, <3>5 DEF ReachedAt, GatewayTypeOK, TakenUp
    <3> QED
      BY <3>2, <3>3, <3>4, <3>5
  <2> QED
    BY <1>2, <2>1
<1>5. ASSUME Surroundings, UNCHANGED geminiVars PROVE Reached'
  BY <1>1, <1>2, <1>3, <1>5 DEF ReachedAt, GatewayTypeOK, Surroundings, WindowResets,
       SessionExpires, Crashes, Pending
<1>6. ASSUME OpenForm PROVE Reached'
  BY <1>1, <1>2, <1>3, <1>6 DEF ReachedAt, GatewayTypeOK, OpenForm, Serving, FormOK
<1>7. ASSUME UNCHANGED <<gatewayVars, geminiVars>> PROVE Reached'
  BY <1>1, <1>2, <1>7 DEF ReachedAt, gatewayVars
<1>8. ASSUME NEW r \in Requests, Serves(r) PROVE Reached'
  <2>1. Handled(r)
    BY <1>8, HandlersHandle DEF Serves
  <2>2. /\ leg' = leg
        /\ \A q \in Requests \ {r} :
             handler'[q] = handler[q] /\ todo'[q] = todo[q] /\ generated'[q] = generated[q]
    BY <1>8, ServesFrame
  <2>3. leg[r] \notin {"idle", "sent"}
    BY <1>1, <2>1 DEF ReachedAt, Handled
  <2>4. handler'[r] \notin {"none", "queued"} /\ (handler'[r] = "200" <=> todo'[r] = <<>>)
    BY <1>8, ServesEffect
  <2>5. ReachedAt(r)'
    BY <2>2, <2>3, <2>4 DEF ReachedAt
  <2> QED
    BY <1>1, <1>2, <2>2, <2>5 DEF ReachedAt
<1> QED
  BY <1>4, <1>5, <1>6, <1>7, <1>8, NextCases DEF Exchanged, Serving, Elsewhere

-----------------------------------------------------------------------------
(* How far a plan is.                                                      *)
LEMMA PlanPlace ==
  ASSUME TypeOK, OnTrack, NEW r \in Of("plan"), NEW s, At(r, s)
  PROVE  /\ Len(todo[r]) \in 1..6
         /\ s = "model" <=> Len(todo[r]) \in {3, 5}
         /\ s = "audit" <=> Len(todo[r]) \in {2, 4}
         /\ s = "accept" <=> Len(todo[r]) = 6
         /\ s \in {"accept", "model", "audit", "flights"}
<1> DEFINE w == Work["plan"]
           n == Len(todo[r])
<1>1. kind[r] = "plan" /\ r \in Requests
  BY DEF Of
<1>2. n \in Nat /\ n >= 1 /\ n <= Len(w) /\ w[Len(w) - n + 1] = s
  BY <1>1, AtPlace
<1>3. Len(w) = 6 /\ Places(w, {2, 4}, {3, 5})
      /\ \A i \in 1..6 : (w[i] = "accept" <=> i = 1) /\ w[i] \in {"accept", "model", "audit", "flights"}
  BY PlanWork
<1> HIDE DEF w, n
<1>4. PICK i \in 1..6 : i = 7 - n /\ w[i] = s
  BY <1>2, <1>3
<1>5. /\ s = "model" <=> i \in {2, 4}
      /\ s = "audit" <=> i \in {3, 5}
      /\ s = "accept" <=> i = 1
      /\ s \in {"accept", "model", "audit", "flights"}
  BY <1>3, <1>4 DEF Places
<1>6. n \in 1..6 /\ n = 7 - i
  BY <1>2, <1>3, <1>4
<1>7. (i \in {2, 4} <=> n \in {3, 5}) /\ (i \in {3, 5} <=> n \in {2, 4}) /\ (i = 1 <=> n = 6)
  BY <1>6
<1> QED
  BY <1>5, <1>6, <1>7 DEF n

(* A plan is refused before it generates anything, or not at all.          *)
LEMMA PlanRefusals ==
  ASSUME TypeOK, OnTrack, NEW r \in Of("plan"), Serves(r), ~Continue(r)
  PROVE  /\ At(r, "accept")
         /\ handler'[r] \in {"401", "503"}
         /\ handler'[r] = "503" => "gemini" \notin keys
<1>1. r \in Requests /\ kind[r] = "plan"
  BY DEF Of
<1>2. \A s : At(r, s) => s \in {"accept", "model", "audit", "flights"}
  BY PlanPlace
<1>3. Accept(r)
  BY <1>1, <1>2 DEF Serves, GeminiHandler, ModelAnswers, AuditGeneration, SearchFlights,
       FlightsFail,
       RecordHotelSearch, FetchReference, ExportHandler, AcceptExport, FetchItinerary, RenderPdf,
       PutObject, RecordPdfExport
<1>4. handler \in [Requests -> Replies \cup {"none", "queued", "working", "dead"}]
  BY DEF TypeOK, GatewayTypeOK
<1> QED
  BY <1>1, <1>3, <1>4 DEF Accept, KeyMissing, Fail

PlanAt(r) ==
  /\ Len(generated[r]) = PlanCount(Len(todo[r]))
  /\ handler[r] \in {"none", "queued", "working", "dead", "200", "401", "503"}
  /\ handler[r] \in {"401", "503"} => generated[r] = <<>>
  /\ handler[r] = "503" => "gemini" \notin keys

(* A step of a plan's handler keeps the count of its generations and the   *)
(* reasons of its replies.                                                 *)
LEMMA PlanServed ==
  ASSUME TypeOK, OnTrack, NEW r \in Of("plan"), PlanAt(r), Serves(r)
  PROVE  PlanAt(r)'
<1>1. r \in Requests /\ keys' = keys
  BY ServesFrame DEF Of
<1>2. generated[r] \in Seq(Texts)
  BY <1>1 DEF TypeOK, GeminiTypeOK
<1>3. CASE Continue(r)
  <2>1. handler'[r] \in {"working", "200"} /\ Len(todo'[r]) = Len(todo[r]) - 1
    BY <1>1, <1>3, ServesEffect, ContinueTodo DEF TypeOK
  <2>2. CASE ModelAnswers(r)
    <3>1. Len(todo[r]) \in {3, 5}
      BY <2>2, PlanPlace DEF ModelAnswers
    <3>2. Len(generated'[r]) = Len(generated[r]) + 1
      <4>1. PICK text \in Texts : generated' = [generated EXCEPT ![r] = Append(@, text)]
        BY <2>2 DEF ModelAnswers
      <4>2. generated'[r] = Append(generated[r], text)
        BY <1>1, <4>1 DEF TypeOK, GeminiTypeOK
      <4> QED
        BY <1>2, <4>2, AppendProperties
    <3>3. Len(generated'[r]) = PlanCount(Len(todo'[r]))
      <4>1. CASE Len(todo[r]) = 5
        BY <2>1, <3>2, <4>1 DEF PlanAt, PlanCount
      <4>2. CASE Len(todo[r]) = 3
        BY <2>1, <3>2, <4>2 DEF PlanAt, PlanCount
      <4> QED
        BY <3>1, <4>1, <4>2
    <3> QED
      BY <2>1, <3>3 DEF PlanAt
  <2>3. CASE ~ModelAnswers(r)
    <3>1. generated' = generated
      BY <1>1, <2>3, ServesCases DEF AuditGeneration, Plain, geminiVars
    <3>2. PICK s : At(r, s) /\ s # "model"
      BY <1>1, <2>3, ServesCases DEF AuditGeneration, Plain
    <3>3. Len(todo[r]) \in {1, 2, 4, 6}
      BY <3>2, PlanPlace
    <3>4. Len(generated'[r]) = PlanCount(Len(todo'[r]))
      <4>1. CASE Len(todo[r]) = 6
        BY <2>1, <3>1, <4>1 DEF PlanAt, PlanCount
      <4>2. CASE Len(todo[r]) = 4
        BY <2>1, <3>1, <4>2 DEF PlanAt, PlanCount
      <4>3. CASE Len(todo[r]) = 2
        BY <2>1, <3>1, <4>3 DEF PlanAt, PlanCount
      <4>4. CASE Len(todo[r]) = 1
        BY <2>1, <3>1, <4>4 DEF PlanAt, PlanCount
      <4> QED
        BY <3>3, <4>1, <4>2, <4>3, <4>4
    <3> QED
      BY <2>1, <3>4 DEF PlanAt
  <2> QED
    BY <2>2, <2>3
<1>4. CASE ~Continue(r)
  <2>1. At(r, "accept") /\ handler'[r] \in {"401", "503"} /\ (handler'[r] = "503" => "gemini" \notin keys)
    BY <1>4, PlanRefusals
  <2>2. todo' = todo /\ generated' = generated
    BY <1>1, <1>4, ServesEffect DEF Plain, geminiVars
  <2>3. Len(generated[r]) = 0
    <3>1. Len(todo[r]) = 6
      BY <2>1, PlanPlace
    <3> QED
      BY <3>1 DEF PlanAt, PlanCount
  <2>4. generated[r] = <<>>
    BY <1>2, <2>3, EmptySeq
  <2> QED
    BY <1>1, <2>1, <2>2, <2>4 DEF PlanAt
<1> QED
  BY <1>3, <1>4

(* So does every other step, which leaves that handler alone or kills it.  *)
LEMMA PlanRepliesStep ==
  ASSUME TypeOK, SearchOK, OnTrack, Reached, PlanReplies, [Next]_vars
  PROVE  PlanReplies'
<1>1. \A q \in Of("plan") : PlanAt(q)
  BY DEF PlanReplies, PlanAt
<1>2. Of("plan")' = Of("plan")
  BY KindStep DEF Of
<1>3. ASSUME \A q \in Of("plan") : PlanAt(q)'
      PROVE  PlanReplies'
  BY <1>2, <1>3 DEF PlanReplies, PlanAt
<1>4. ASSUME UNCHANGED <<geminiVars, todo>>,
             \A q \in Requests : Shifts(q)
      PROVE  PlanReplies'
  BY <1>1, <1>3, <1>4 DEF PlanAt, Of, geminiVars, Shifts
<1>5. ASSUME NEW r \in Requests, Serves(r) PROVE PlanReplies'
  <2>1. \A q \in Of("plan") \ {r} : PlanAt(q)'
    BY <1>1, <1>5, ServesFrame DEF PlanAt, Of
  <2>2. r \in Of("plan") => PlanAt(r)'
    BY <1>1, <1>5, PlanServed
  <2> QED
    BY <1>3, <2>1, <2>2
<1>6. (\E r \in Requests : Serves(r))
      \/ ( /\ UNCHANGED <<geminiVars, todo>>
           /\ \A q \in Requests : Shifts(q) )
  BY OutsideHandlers
<1> QED
  BY <1>4, <1>5, <1>6

-----------------------------------------------------------------------------
(* What the page is told.                                                  *)

(* Once the browser has an answer, only a handler that still works or has  *)
(* still to begin can change.                                              *)
LEMMA SettledHandler ==
  ASSUME TypeOK, SearchOK, [Next]_vars, NEW q \in Requests, leg[q] \in {"answered", "heard"}
  PROVE  handler[q] \notin {"queued", "working"} =>
           handler'[q] = handler[q] /\ generated'[q] = generated[q]
<1> USE DEF geminiVars
<1>1. GatewayTypeOK
  BY DEF TypeOK
<1>2. ASSUME NEW r \in Requests, Serves(r)
      PROVE  handler[q] \notin {"queued", "working"} =>
           handler'[q] = handler[q] /\ generated'[q] = generated[q]
  BY <1>2, ServesFrame, ServesEffect
<1>3. ASSUME NEW r \in Requests, Exchanged(r)
      PROVE  UNCHANGED generated /\ (handler'[q] = handler[q] \/ handler[q] = "queued")
  <2>1. CASE Forward(r) \/ ConnectFails(r)
    BY <1>1, <1>3, <2>1 DEF Exchanged, Serving, Forward, ConnectFails, GatewayTypeOK
  <2>2. CASE TakenUp(r)
    BY <1>1, <1>3, <2>2 DEF Exchanged, Serving, TakenUp, GatewayTypeOK
  <2>3. CASE ~Forward(r) /\ ~ConnectFails(r) /\ ~TakenUp(r)
    BY <1>1, <1>3, <2>3 DEF Exchanged, Serving, Exchanges, Sending, Hears, GatewayStep, TooMany,
         Unauthorized, ServiceDown, Relay, TimesOut, ConnectionReset, Drops
  <2> QED
    BY <2>1, <2>2, <2>3
<1>4. ASSUME Surroundings, UNCHANGED Serving
      PROVE  /\ UNCHANGED generated
             /\ handler'[q] = handler[q] \/ handler[q] \in {"queued", "working"}
  BY <1>1, <1>4 DEF Serving, Surroundings, WindowResets, SessionExpires, Crashes, Pending,
       GatewayTypeOK
<1>5. ASSUME OpenForm \/ UNCHANGED <<gatewayVars, geminiVars>>
      PROVE  UNCHANGED <<generated, handler>>
  BY <1>5 DEF OpenForm, Serving, gatewayVars
<1> QED
  BY <1>2, <1>3, <1>4, <1>5, NextCases DEF Elsewhere

AnswerAt(r) ==
  leg[r] = "answered" =>
    /\ outcome[r] = "200" => handler[r] = "200"
    /\ outcome[r] = "503" => handler[r] = "503"
    /\ outcome[r] \notin {"200", "503", "504", "dropped"} => Failed(r)

(* An answer stays true: a handler that has replied replies no more.       *)
LEMMA AnswerKept ==
  ASSUME TypeOK, SearchOK, [Next]_vars, NEW q \in Requests, AnswerAt(q),
         leg'[q] = leg[q], outcome'[q] = outcome[q]
  PROVE  AnswerAt(q)'
BY SettledHandler DEF AnswerAt, Failed

(* The gateway answers with what the handler replied, or for reasons of    *)
(* its own.                                                                *)
LEMMA AnswerGiven ==
  ASSUME TypeOK, Reached, PlanReplies, NEW r \in Of("plan"), GatewayStep(r) \/ Drops(r)
  PROVE  AnswerAt(r)'
<1>1. GatewayTypeOK /\ r \in Requests
  BY DEF TypeOK, Of
<1>2. /\ leg[r] = "sent" => handler[r] = "none"
      /\ leg[r] = "forwarded" => handler[r] # "none"
      /\ handler[r] \in {"none", "queued", "working", "dead", "200", "401", "503"}
  BY <1>1 DEF Reached, PlanReplies
<1> USE DEF AnswerAt, Failed, Answering, GatewayTypeOK, ServiceStatus
<1>3. CASE TooMany(r)
  BY <1>1, <1>2, <1>3 DEF TooMany
<1>4. CASE Unauthorized(r)
  BY <1>1, <1>2, <1>4 DEF Unauthorized
<1>5. CASE ServiceDown(r)
  BY <1>1, <1>2, <1>5 DEF ServiceDown
<1>6. CASE Forward(r)
  BY <1>1, <1>6 DEF Forward
<1>7. CASE Relay(r)
  BY <1>1, <1>2, <1>7 DEF Relay, Replies
<1>8. CASE TimesOut(r)
  BY <1>1, <1>2, <1>8 DEF TimesOut
<1>9. CASE ConnectionReset(r)
  BY <1>1, <1>9 DEF ConnectionReset
<1>10. CASE Drops(r)
  BY <1>1, <1>10 DEF Drops
<1>11. CASE ConnectFails(r)
  BY <1>1, <1>11 DEF ConnectFails
<1> QED
  BY <1>3, <1>4, <1>5, <1>6, <1>7, <1>8, <1>9, <1>10, <1>11 DEF GatewayStep

(* Together: what a browser was told of a plan was so and stays so.        *)
LEMMA PlanAnswersStep ==
  ASSUME TypeOK, SearchOK, Reached, PlanReplies, PlanAnswers, [Next]_vars
  PROVE  PlanAnswers'
<1>1. \A q \in Of("plan") : AnswerAt(q)
  BY DEF PlanAnswers, AnswerAt
<1>2. Of("plan")' = Of("plan")
  BY KindStep DEF Of
<1>3. GatewayTypeOK
  BY DEF TypeOK
<1>4. ASSUME NEW q \in Of("plan") PROVE AnswerAt(q)'
  <2>1. q \in Requests /\ AnswerAt(q)
    BY <1>1 DEF Of
  <2>2. ASSUME NEW r \in Requests, Exchanged(r) PROVE AnswerAt(q)'
    <3>1. CASE r # q
      <4>1. leg'[q] = leg[q] /\ outcome'[q] = outcome[q]
        BY <1>3, <2>1, <2>2, <3>1 DEF GatewayTypeOK, Exchanged, Exchanges, Sending, Hears,
             GatewayStep, TooMany, Unauthorized, ServiceDown, Forward, ConnectFails, Relay,
             TimesOut, ConnectionReset, Drops, TakenUp, Answering
      <4> QED
        BY <2>1, <4>1, AnswerKept
    <3>2. CASE r = q /\ (Sending(r) \/ Hears(r))
      BY <1>3, <2>1, <3>2 DEF Sending, Hears, AnswerAt, GatewayTypeOK
    <3>3. CASE r = q /\ (GatewayStep(r) \/ Drops(r))
      BY <3>3, AnswerGiven
    <3>4. CASE TakenUp(r)
      BY <2>1, <3>4, AnswerKept DEF TakenUp
    <3> QED
      BY <2>2, <3>1, <3>2, <3>3, <3>4 DEF Exchanged, Exchanges
  <2>3. ASSUME Surroundings \/ (\E r \in Requests : Serves(r)) \/ UNCHANGED gatewayVars
        PROVE  leg'[q] = leg[q] /\ outcome'[q] = outcome[q]
    BY <2>3, ServesFrame DEF Surroundings, WindowResets, SessionExpires, Crashes, Pending,
         gatewayVars
  <2>4. ASSUME OpenForm
        PROVE  leg'[q] = leg[q] /\ outcome'[q] = outcome[q]
    BY <1>3, <2>1, <2>4 DEF OpenForm, References, Of, GatewayTypeOK
  <2> QED
    BY <2>1, <2>2, <2>3, <2>4, AnswerKept, NextCases DEF Elsewhere
<1> QED
  BY <1>2, <1>4 DEF PlanAnswers, AnswerAt

-----------------------------------------------------------------------------
(* What the page shows.                                                    *)
ShownAt(r) ==
  leg[r] = "heard" =>
    LET shows == page[sender[r]].shows
    IN  /\ shows = "plan" => HasItinerary(r) /\ handler[r] = "200"
        /\ shows = "noPlan" => ~HasItinerary(r) /\ handler[r] = "200"
        /\ shows = "notConfigured" => handler[r] = "503"
        /\ shows = "generic" => Failed(r)

(* What a page shows stays true.                                           *)
LEMMA ShownKept ==
  ASSUME TypeOK, SearchOK, [Next]_vars, NEW q \in Requests, ShownAt(q), leg[q] = "heard",
         page'[sender'[q]].shows = page[sender[q]].shows
  PROVE  ShownAt(q)'
<1>1. handler[q] \notin {"queued", "working"} =>
           handler'[q] = handler[q] /\ generated'[q] = generated[q]
  BY SettledHandler
<1>2. handler[q] = "200" => HasItinerary(q)' = HasItinerary(q)
  BY <1>1 DEF HasItinerary
<1> QED
  BY <1>1, <1>2 DEF ShownAt, Failed

(* The last thing a plan's page does with its request is to show what it   *)
(* heard.                                                                  *)
LEMMA PlanHeard ==
  ASSUME TypeOK, Sent, PlanAnswers, NEW r \in Of("plan"), PlanArrives(r)
  PROVE  ShownAt(r)'
<1>1. r \in Requests /\ sender[r] \in Mounts
  BY DEF Of, Sent, TypeOK, PlanArrives, Hears
<1>2. /\ leg[r] = "answered"
      /\ UNCHANGED <<handler, generated, sender>>
  BY DEF PlanArrives, Hears, Serving, geminiVars
<1> DEFINE told == Told(r)
<1>3. page' = [page EXCEPT ![sender[r]] =
                 [@ EXCEPT !.effects = 2, !.loading = FALSE, !.shows = told]]
  BY DEF PlanArrives
<1>4. told = "plan" => HasItinerary(r) /\ outcome[r] = "200"
  BY DEF Told
<1>5. told = "noPlan" => ~HasItinerary(r) /\ outcome[r] = "200"
  BY DEF Told
<1>6. told = "notConfigured" => outcome[r] = "503"
  BY DEF Told
<1>7. told = "generic" => outcome[r] \notin {"200", "503", "504", "dropped"}
  BY DEF Told
<1> HIDE DEF told
<1>9. page'[sender'[r]].shows = told
  BY <1>1, <1>2, <1>3 DEF TypeOK
<1>10. HasItinerary(r)' = HasItinerary(r)
  BY <1>2 DEF HasItinerary
<1>11. /\ outcome[r] = "200" => handler[r] = "200"
       /\ outcome[r] = "503" => handler[r] = "503"
       /\ outcome[r] \notin {"200", "503", "504", "dropped"} => Failed(r)
  BY <1>2 DEF PlanAnswers
<1> QED
  BY <1>2, <1>4, <1>5, <1>6, <1>7, <1>9, <1>10, <1>11 DEF ShownAt, Failed

(* Together: what the page shows of a plan was so and stays so.            *)
LEMMA PlanShownStep ==
  ASSUME TypeOK, SearchOK, Sent, PlanAnswers, PlanShown, [Next]_vars
  PROVE  PlanShown'
<1>1. \A q \in Of("plan") : ShownAt(q)
  BY DEF PlanShown, ShownAt
<1>2. Of("plan")' = Of("plan")
  BY KindStep DEF Of
<1>3. /\ leg \in [Requests -> {"idle", "sent", "forwarded", "answered", "heard"}]
      /\ sender \in [Requests -> {0} \cup Mounts]
      /\ page \in [Mounts -> [effects : 0..2, started : BOOLEAN, loading : BOOLEAN,
                              shows : Messages \cup {"nothing"}]]
  BY DEF TypeOK, GatewayTypeOK
<1>4. ASSUME NEW q \in Of("plan"), leg'[q] = "heard", ~PlanArrives(q)
      PROVE  leg[q] = "heard"
  <2>1. q \in Requests /\ kind[q] = "plan"
    BY DEF Of
  <2>2. ~FormHears(q) /\ ~ResultsArrive(q) /\ ~ExportArrives(q) /\ ~DirectHears(q)
    BY <2>1 DEF FormHears, References, Of, ResultsArrive, ExportArrives, DirectHears
  <2>3. ASSUME NEW r \in Requests, Hearing(r) PROVE leg[q] = "heard"
    <3>1. CASE r = q
      BY <1>4, <2>2, <2>3, <3>1 DEF Hearing
    <3>2. CASE r # q
      BY <1>3, <1>4, <2>1, <2>3, <3>2 DEF Hearing, PlanArrives, FormHears, ResultsArrive,
           ExportArrives, DirectHears, Hears
    <3> QED
      BY <3>1, <3>2
  <2>4. ASSUME NEW r \in Requests, Sending(r) \/ GatewayStep(r) \/ Drops(r) \/ TakenUp(r)
        PROVE  leg[q] = "heard"
    BY <1>3, <1>4, <2>1, <2>4 DEF Sending, GatewayStep, TooMany, Unauthorized, ServiceDown, Forward,
         ConnectFails, Relay, TimesOut, ConnectionReset, Drops, TakenUp, Answering
  <2>5. ASSUME OpenForm PROVE leg[q] = "heard"
    BY <1>3, <1>4, <2>1, <2>5 DEF OpenForm
  <2>6. ASSUME NEW r \in Requests, Handling(r) PROVE leg[q] = "heard"
    BY <1>4, <2>6, HandlersHandle DEF Handling, Handled, Continue, Fail, hopVars
  <2>7. ASSUME UNCHANGED leg PROVE leg[q] = "heard"
    BY <1>4, <2>7
  <2>8. ASSUME Debounced PROVE \E r \in Requests : Sending(r)
    BY <2>8 DEF Debounced, SearchOK, Of
  <2> QED
    BY <2>3, <2>4, <2>5, <2>6, <2>7, <2>8
       DEF Next, vars, gatewayVars, Users, Environment, Gatewaying, EffectStarts, EffectReturns,
         Type, Export, CallDirectly, Of, WindowResets, SessionExpires, Crashes,
         ItineraryEdited, Tick
<1>5. ASSUME NEW q \in Of("plan"), leg[q] = "heard"
      PROVE  page'[sender'[q]].shows = page[sender[q]].shows
  <2>1. q \in Requests /\ kind[q] = "plan" /\ sender[q] \in Mounts
    BY <1>3, <1>5 DEF Of, Sent
  <2>2. ASSUME NEW m \in Mounts, EffectStarts(m)
        PROVE  sender'[q] = sender[q] /\ page'[sender[q]].shows = page[sender[q]].shows
    <3>1. sender'[q] = sender[q]
      BY <1>3, <1>5, <2>1, <2>2 DEF EffectStarts, Sending, Of
    <3>2. page'[sender[q]].shows = page[sender[q]].shows
      BY <1>3, <2>1, <2>2 DEF EffectStarts
    <3> QED
      BY <3>1, <3>2
  <2>3. ASSUME NEW m \in Mounts, EffectReturns(m)
        PROVE  sender'[q] = sender[q] /\ page'[sender[q]].shows = page[sender[q]].shows
    BY <1>3, <2>1, <2>3 DEF EffectReturns
  <2>4. ASSUME NEW r \in Requests, PlanArrives(r)
        PROVE  sender'[q] = sender[q] /\ page'[sender[q]].shows = page[sender[q]].shows
    <3>1. r # q
      BY <1>5, <2>4 DEF PlanArrives, Hears
    <3>2. sender[r] # sender[q]
      BY <1>3, <2>1, <2>4, <3>1 DEF Sent, Mounts
    <3> QED
      BY <1>3, <2>1, <2>4, <3>2 DEF PlanArrives
  <2>5. ASSUME UNCHANGED <<sender, page>>
        PROVE  sender'[q] = sender[q] /\ page'[sender[q]].shows = page[sender[q]].shows
    BY <2>5
  <2> QED
    BY <2>2, <2>3, <2>4, <2>5
       DEF Next, vars, pageVars, Users, Environment, Gatewaying, Handling, Hearing, OpenForm,
         Debounced, Type, Export, CallDirectly, FormHears, ResultsArrive, ExportArrives, DirectHears
<1>6. ASSUME NEW q \in Of("plan") PROVE ShownAt(q)'
  <2>1. CASE PlanArrives(q)
    BY <2>1, PlanHeard
  <2>2. CASE leg'[q] # "heard"
    BY <2>2 DEF ShownAt
  <2>3. CASE ~PlanArrives(q) /\ leg'[q] = "heard"
    BY <1>1, <1>4, <1>5, <2>3, ShownKept DEF Of
  <2> QED
    BY <2>1, <2>2, <2>3
<1> QED
  BY <1>2, <1>6 DEF PlanShown, ShownAt

-----------------------------------------------------------------------------
(* How far an export is.                                                   *)
LEMMA ExportPlace ==
  ASSUME TypeOK, OnTrack, NEW r \in Of("exportPdf"), NEW s, At(r, s)
  PROVE  /\ Len(todo[r]) \in 1..5
         /\ s = "accept" <=> Len(todo[r]) = 5
         /\ s = "fetch"  <=> Len(todo[r]) = 4
         /\ s = "render" <=> Len(todo[r]) = 3
         /\ s = "put"    <=> Len(todo[r]) = 2
         /\ s = "record" <=> Len(todo[r]) = 1
<1> DEFINE w == Work["exportPdf"]
           n == Len(todo[r])
<1>1. kind[r] = "exportPdf" /\ r \in Requests
  BY DEF Of
<1>2. n \in Nat /\ n >= 1 /\ n <= Len(w) /\ w[Len(w) - n + 1] = s
  BY <1>1, AtPlace
<1>3. Len(w) = 5
      /\ \A i \in 1..5 : /\ w[i] = "accept" <=> i = 1
                         /\ w[i] = "fetch"  <=> i = 2
                         /\ w[i] = "render" <=> i = 3
                         /\ w[i] = "put"    <=> i = 4
                         /\ w[i] = "record" <=> i = 5
  BY ExportWork
<1> HIDE DEF w, n
<1>4. PICK i \in 1..5 : i = 6 - n /\ w[i] = s
  BY <1>2, <1>3
<1>5. n \in 1..5 /\ n = 6 - i
  BY <1>2, <1>3, <1>4
<1>6. /\ s = "accept" <=> n = 5
      /\ s = "fetch"  <=> n = 4
      /\ s = "render" <=> n = 3
      /\ s = "put"    <=> n = 2
      /\ s = "record" <=> n = 1
  BY <1>3, <1>4, <1>5
<1> QED
  BY <1>5, <1>6 DEF n

(* The steps of an export are taken by exports.                            *)
LEMMA ExportOnly ==
  ASSUME TypeOK, OnTrack, NEW r \in Requests, NEW s \in {"fetch", "render", "put", "record"}, At(r, s)
  PROVE  r \in Of("exportPdf")
<1> DEFINE w == Work[kind[r]]
           n == Len(todo[r])
<1>1. kind[r] \in Endpoints
  BY KindsWork DEF TypeOK
<1>2. n \in Nat /\ n >= 1 /\ Len(w) \in Nat /\ n <= Len(w) /\ w[Len(w) - n + 1] = s
  BY AtPlace
<1> HIDE DEF n
<1>3. Len(w) - n + 1 \in 1..Len(w)
  BY <1>2
<1>4. kind[r] = "exportPdf"
  BY <1>1, <1>2, <1>3, OnlyExports
<1> QED
  BY <1>4 DEF Of

ExportAt(r) ==
  /\ Len(todo[r]) <= 3 => rendered[r] # 0
  /\ Len(todo[r]) >= 3 => storageKey[r] = 0
  /\ Len(todo[r]) <= 2 => storageKey[r] # 0
  /\ Len(todo[r]) <= 1 => KeyHolds(r)
  /\ r \in pdfExports => Len(todo[r]) <= 1
  /\ todo[r] = <<>> => r \in pdfExports

(* A key that is taken stays taken, so whoever overwrites an object is     *)
(* known by its key.                                                       *)
LEMMA KeyKept ==
  ASSUME TypeOK, NEW q \in Of("exportPdf"), KeyHolds(q), kind' = kind, objects' = objects,
         rendered'[q] = rendered[q],
         \A p \in Requests : storageKey[p] # 0 => storageKey'[p] = storageKey[p]
  PROVE  KeyHolds(q)'
<1>1. q \in Requests /\ storageKey'[q] = storageKey[q] /\ storageKey[q] # 0
  BY DEF Of, KeyHolds
<1>2. CASE objects[storageKey[q]] = rendered[q]
  BY <1>1, <1>2 DEF KeyHolds
<1>3. ASSUME NEW p \in Of("exportPdf") \ {q}, storageKey[p] = storageKey[q]
      PROVE  KeyHolds(q)'
  <2>1. storageKey'[p] = storageKey'[q] /\ p \in Of("exportPdf")' \ {q}
    BY <1>1, <1>3 DEF Of
  <2> QED
    BY <1>1, <2>1 DEF KeyHolds
<1> QED
  BY <1>2, <1>3 DEF KeyHolds

(* An export that nothing touches is as it was.                            *)
LEMMA ExportKept ==
  ASSUME TypeOK, NEW q \in Of("exportPdf"), ExportAt(q), kind' = kind, objects' = objects,
         rendered'[q] = rendered[q], todo'[q] = todo[q], q \in pdfExports' <=> q \in pdfExports,
         Len(todo[q]) >= 3 => storageKey'[q] = storageKey[q],
         \A p \in Requests : storageKey[p] # 0 => storageKey'[p] = storageKey[p]
  PROVE  ExportAt(q)'
<1>1. q \in Requests /\ Len(todo[q]) \in Nat
  BY DEF Of, TypeOK, GatewayTypeOK
<1>2. Len(todo[q]) <= 1 => KeyHolds(q)'
  BY KeyKept DEF ExportAt
<1>3. storageKey'[q] = storageKey[q]
  BY <1>1 DEF ExportAt
<1>4. Len(todo'[q]) = Len(todo[q])
  OBVIOUS
<1>5. /\ Len(todo'[q]) <= 3 => rendered'[q] # 0
      /\ Len(todo'[q]) >= 3 => storageKey'[q] = 0
      /\ Len(todo'[q]) <= 2 => storageKey'[q] # 0
  BY <1>3, <1>4 DEF ExportAt
<1>6. /\ q \in pdfExports' => Len(todo'[q]) <= 1
      /\ todo'[q] = <<>> => q \in pdfExports'
  BY <1>4 DEF ExportAt
<1> QED
  BY <1>2, <1>4, <1>5, <1>6 DEF ExportAt

(* What a step of an export does: each one does its own thing, and an      *)
(* error leaves the list as it is.                                         *)
LEMMA ExportedStep ==
  ASSUME TypeOK, SearchOK, OnTrack, Exported, [Next]_vars
  PROVE  Exported'
<1>1. kind' = kind /\ Of("exportPdf")' = Of("exportPdf")
  BY KindStep DEF Of
<1>2. ASSUME NEW q \in Of("exportPdf") PROVE q \in Requests /\ ExportAt(q)
  BY <1>2 DEF Of, Exported, ExportAt
<1>3. ASSUME UNCHANGED <<rendered, storageKey, objects, pdfExports>>,
             \A q \in Of("exportPdf") : todo'[q] = todo[q]
      PROVE  Exported'
  <2>1. ASSUME NEW q \in Of("exportPdf") PROVE ExportAt(q)'
    BY <1>1, <1>2, <1>3, <2>1, ExportKept
  <2> QED
    BY <1>1, <2>1 DEF Exported, ExportAt
<1>4. ASSUME NEW r \in Requests, GeminiHandler(r), UNCHANGED <<exportVars, pageVars>>
      PROVE  Exported'
  <2>1. r \notin Of("exportPdf")
    <3>1. ASSUME NEW s \in {"model", "audit", "flights", "searched", "read"}, At(r, s)
          PROVE  r \notin Of("exportPdf")
      BY <3>1, ExportPlace
    <3>2. ASSUME Accept(r) PROVE r \notin Of("exportPdf")
      BY <3>2 DEF Accept, ServiceOf, Of
    <3> QED
      BY <1>4, <3>1, <3>2 DEF GeminiHandler, ModelAnswers, AuditGeneration, SearchFlights,
           RecordHotelSearch, FetchReference
  <2>2. \A q \in Requests \ {r} : todo'[q] = todo[q]
    BY <1>4, ServesFrame DEF Serves
  <2> QED
    BY <1>2, <1>3, <1>4, <2>1, <2>2 DEF exportVars
<1>5. ASSUME NEW r \in Requests, ExportHandler(r), UNCHANGED <<geminiVars, pageVars>>
      PROVE  Exported'
  <2>1. r \in Of("exportPdf")
    <3>1. ASSUME AcceptExport(r) PROVE r \in Of("exportPdf")
      BY <3>1 DEF AcceptExport, Of
    <3> QED
      BY <1>5, <3>1, ExportOnly DEF ExportHandler, FetchItinerary, RenderPdf, PutObject,
           RecordPdfExport
  <2>2. \A q \in Requests \ {r} : todo'[q] = todo[q]
    BY <1>5, ServesFrame DEF Serves
  <2>3. /\ ExportAt(r) /\ r \in Requests
        /\ rendered \in [Requests -> 0..(1 + MaxEdits)] /\ storageKey \in [Requests -> 0..MaxClock]
        /\ objects \in [1..MaxClock -> 0..(1 + MaxEdits)] /\ pdfExports \subseteq Requests
        /\ clock \in 1..MaxClock
    BY <1>2, <2>1 DEF TypeOK, ExportTypeOK
  <2>4. ASSUME todo' = todo, UNCHANGED <<rendered, storageKey, objects, pdfExports>>
        PROVE  Exported'
    BY <1>3, <2>4
  <2>5. ASSUME \A q \in Of("exportPdf") \ {r} : ExportAt(q)', ExportAt(r)'
        PROVE  Exported'
    BY <1>1, <2>5 DEF Exported, ExportAt
  <2> DEFINE n == Len(todo[r])
             m == Len(todo'[r])
  <2>6. /\ n \in Nat /\ m \in {n, n - 1}
        /\ m = n => todo' = todo
        /\ m = 0 <=> todo'[r] = <<>>
    <3>1. todo \in [Requests -> Seq(Steps)] /\ todo' \in [Requests -> Seq(Steps)]
      BY GatewayTyped DEF TypeOK, GatewayTypeOK
    <3>2. n \in Nat /\ (m = 0 <=> todo'[r] = <<>>)
      BY <2>3, <3>1, EmptySeq
    <3> QED
      BY <1>5, <2>3, <3>2, ServesEffect DEF Serves
  <2>7. ASSUME UNCHANGED objects, NEW q \in Of("exportPdf") \ {r}, rendered'[q] = rendered[q],
               storageKey'[q] = storageKey[q], q \in pdfExports' <=> q \in pdfExports,
               storageKey[r] # 0 => storageKey'[r] = storageKey[r],
               \A p \in Requests \ {r} : storageKey'[p] = storageKey[p]
        PROVE  ExportAt(q)'
    BY <1>1, <1>2, <2>2, <2>7, ExportKept
  <2>13. Continue(r) => m = n - 1
    BY <2>3, <2>6, ContinueTodo, <1>5, ServesEffect DEF TypeOK, Serves
  <2>14. ASSUME m <= 3 => rendered'[r] # 0, m >= 3 => storageKey'[r] = 0,
                m <= 2 => storageKey'[r] # 0, m <= 1 => KeyHolds(r)',
                r \in pdfExports' => m <= 1, m = 0 => r \in pdfExports'
         PROVE  ExportAt(r)'
    <3>1. Len(todo'[r]) = m /\ m \in Nat
      BY <2>6
    <3> QED
      BY <2>6, <2>14, <3>1 DEF ExportAt
  <2> HIDE DEF n, m
  <2>8. CASE AcceptExport(r)
    <3>1. n = 5 /\ UNCHANGED exportVars
      BY <2>1, <2>8, ExportPlace DEF AcceptExport, n
    <3>2. ExportAt(r)'
      <4>1. m \in {4, 5} /\ r \notin pdfExports' /\ storageKey'[r] = 0
        BY <2>3, <2>6, <3>1 DEF ExportAt, exportVars, n
      <4> QED
        BY <2>14, <4>1
    <3>3. \A q \in Of("exportPdf") \ {r} : ExportAt(q)'
      BY <2>7, <3>1 DEF exportVars
    <3> QED
      BY <2>5, <3>2, <3>3
  <2>9. CASE FetchItinerary(r)
    <3>1. n = 4 /\ UNCHANGED <<storageKey, objects, pdfExports>>
      BY <2>1, <2>9, ExportPlace DEF FetchItinerary, n
    <3>2. CASE UNCHANGED <<todo, rendered>>
      BY <2>4, <3>1, <3>2
    <3>3. CASE saved > 0 /\ rendered' = [rendered EXCEPT ![r] = saved] /\ Continue(r)
      <4>1. m = 3 /\ rendered'[r] # 0 /\ storageKey[r] = 0 /\ r \notin pdfExports
        BY <2>3, <2>6, <2>13, <3>1, <3>3 DEF n, ExportAt, TypeOK, ExportTypeOK
      <4>2. ExportAt(r)'
        BY <2>14, <3>1, <4>1
      <4>3. \A q \in Of("exportPdf") \ {r} : ExportAt(q)'
        BY <1>2, <2>3, <2>7, <3>1, <3>3
      <4> QED
        BY <2>5, <4>2, <4>3
    <3> QED
      BY <2>9, <3>2, <3>3 DEF FetchItinerary, Fail
  <2>10. CASE RenderPdf(r)
    <3>1. n = 3 /\ UNCHANGED <<rendered, objects, pdfExports>>
      BY <2>1, <2>10, ExportPlace DEF RenderPdf, n
    <3>2. CASE UNCHANGED <<todo, storageKey>>
      BY <2>4, <3>1, <3>2
    <3>3. CASE storageKey' = [storageKey EXCEPT ![r] = clock] /\ Continue(r)
      <4>1. m = 2 /\ storageKey'[r] # 0 /\ rendered'[r] # 0 /\ r \notin pdfExports /\ storageKey[r] = 0
        BY <2>3, <2>6, <2>13, <3>1, <3>3 DEF n, ExportAt
      <4>2. ExportAt(r)'
        BY <2>14, <3>1, <4>1
      <4>3. \A q \in Of("exportPdf") \ {r} : ExportAt(q)'
        BY <1>2, <2>3, <2>7, <3>1, <3>3, <4>1
      <4> QED
        BY <2>5, <4>2, <4>3
    <3> QED
      BY <2>10, <3>2, <3>3 DEF RenderPdf, Goes, Throws, Fail
  <2>11. CASE PutObject(r)
    <3>1. n = 2 /\ UNCHANGED <<rendered, storageKey, pdfExports>>
      BY <2>1, <2>11, ExportPlace DEF PutObject, n
    <3>2. CASE UNCHANGED <<todo, objects>>
      BY <2>4, <3>1, <3>2
    <3>3. CASE objects' = [objects EXCEPT ![storageKey[r]] = rendered[r]]
      <4>1. m \in {1, 2} /\ storageKey[r] \in 1..MaxClock /\ rendered[r] # 0 /\ r \notin pdfExports
        BY <2>3, <2>6, <3>1 DEF ExportAt, n
      <4>2. KeyHolds(r)'
        BY <2>3, <3>1, <3>3, <4>1 DEF KeyHolds
      <4>3. ExportAt(r)'
        <5>1. /\ m <= 3 => rendered'[r] # 0
              /\ m >= 3 => storageKey'[r] = 0
              /\ m <= 2 => storageKey'[r] # 0
              /\ r \in pdfExports' => m <= 1
              /\ m = 0 => r \in pdfExports'
          BY <3>1, <4>1
        <5> QED
          BY <2>14, <4>2, <5>1
      <4>4. ASSUME NEW q \in Of("exportPdf") \ {r}, KeyHolds(q) PROVE KeyHolds(q)'
        <5>1. storageKey[q] \in 1..MaxClock /\ storageKey'[q] # 0 /\ objects[storageKey[q]] # 0
          BY <1>2, <2>3, <3>1, <4>4 DEF KeyHolds
        <5>2. CASE storageKey[q] = storageKey[r]
          <6>1. objects'[storageKey'[q]] # 0
            BY <2>3, <3>1, <3>3, <4>1, <5>2
          <6>2. \E p \in Of("exportPdf")' \ {q} : storageKey'[p] = storageKey'[q]
            BY <1>1, <2>1, <3>1, <4>4, <5>2
          <6> QED
            BY <5>1, <6>1, <6>2 DEF KeyHolds
        <5>3. CASE storageKey[q] # storageKey[r]
          <6>1. objects'[storageKey[q]] = objects[storageKey[q]]
            BY <2>3, <3>3, <4>1, <5>1, <5>3
          <6> QED
            BY <1>1, <3>1, <4>4, <5>1, <6>1 DEF KeyHolds
        <5> QED
          BY <5>2, <5>3
      <4>5. ASSUME NEW q \in Of("exportPdf") \ {r} PROVE ExportAt(q)'
        BY <1>2, <2>2, <3>1, <4>4, <4>5 DEF ExportAt
      <4> QED
        BY <2>5, <4>3, <4>5
    <3> QED
      BY <2>11, <3>2, <3>3 DEF PutObject, Throws, Fail
  <2>12. CASE RecordPdfExport(r)
    <3>1. n = 1 /\ UNCHANGED <<rendered, storageKey, objects>>
      BY <2>1, <2>12, ExportPlace DEF RecordPdfExport, n
    <3>2. CASE UNCHANGED <<todo, pdfExports>>
      BY <2>4, <3>1, <3>2
    <3>3. CASE pdfExports' = pdfExports \cup {r}
      <4>1. m \in {0, 1} /\ storageKey[r] # 0 /\ rendered[r] # 0 /\ r \in pdfExports' /\ KeyHolds(r)
        BY <2>3, <2>6, <3>1, <3>3 DEF n, ExportAt
      <4>2. KeyHolds(r)'
        BY <1>1, <2>1, <3>1, <4>1, KeyKept
      <4>3. ExportAt(r)'
        <5>1. /\ m <= 3 => rendered'[r] # 0
              /\ m >= 3 => storageKey'[r] = 0
              /\ m <= 2 => storageKey'[r] # 0
              /\ r \in pdfExports' => m <= 1
              /\ m = 0 => r \in pdfExports'
          BY <3>1, <4>1
        <5> QED
          BY <2>14, <4>2, <5>1
      <4>4. \A q \in Of("exportPdf") \ {r} : ExportAt(q)'
        BY <1>2, <2>3, <2>7, <3>1, <3>3
      <4> QED
        BY <2>5, <4>3, <4>4
    <3> QED
      BY <2>12, <3>2, <3>3 DEF RecordPdfExport, Throws, Fail
  <2> QED
    BY <1>5, <2>8, <2>9, <2>10, <2>11, <2>12 DEF ExportHandler
<1>6. ASSUME NEW r \in Requests, Exchanged(r) PROVE Exported'
  BY <1>2, <1>3, <1>6 DEF Exchanged, Exchanges, Sending, Hears, GatewayStep, TooMany, Unauthorized,
       ServiceDown, Forward, ConnectFails, Relay, TimesOut, ConnectionReset, Drops, TakenUp,
       Serving, exportVars
<1>7. ASSUME OpenForm \/ (Surroundings /\ UNCHANGED Serving) PROVE Exported'
  BY <1>3, <1>7 DEF Surroundings, WindowResets, SessionExpires, Crashes, Pending, OpenForm,
       Serving, exportVars
<1>8. ASSUME ItineraryEdited \/ Tick \/ UNCHANGED <<gatewayVars, exportVars>> PROVE Exported'
  BY <1>3, <1>8 DEF ItineraryEdited, Tick, gatewayVars, exportVars
<1>9. ASSUME NEW r \in Requests, Serves(r) PROVE Exported'
  BY <1>4, <1>5, <1>9 DEF Serves
<1>10. ASSUME Elsewhere PROVE Exported'
  BY <1>8, <1>10 DEF Elsewhere
<1> QED
  BY <1>6, <1>7, <1>9, <1>10, NextCases

-----------------------------------------------------------------------------
(* All of it together is inductive.                                        *)
Inv ==
  /\ TypeOK /\ SearchOK /\ FormOK
  /\ OnTrack /\ Reached
  /\ Audited
  /\ Sent /\ PlanReplies /\ PlanAnswers /\ PlanShown
  /\ Exported

(* It holds before the first request.                                      *)
LEMMA InitInv == Init => Inv
<1> SUFFICES ASSUME Init PROVE Inv
  OBVIOUS
<1> USE DEF Init, GatewayInit, GeminiInit, ExportInit
<1>1. \A r \in Requests : /\ kind[r] \in Endpoints
                          /\ todo[r] = Work[kind[r]] /\ todo[r] \in Seq(Steps)
                          /\ Len(todo[r]) \in Nat /\ Len(todo[r]) >= 2
                          /\ Paired(todo[r])
  BY WorkFacts
<1>2. GatewayTypeOK
  <2>1. todo \in [Requests -> Seq(Steps)]
    BY <1>1
  <2>2. \A r \in Requests : Len(todo[r]) <= Len(Work[kind[r]])
    BY <1>1
  <2> QED
    BY <2>1, <2>2 DEF GatewayTypeOK
<1>3. GeminiTypeOK
  <2>1. generated \in [Requests -> Seq(Texts)] /\ generations \in [Requests -> Seq(Texts)]
    OBVIOUS
  <2> QED
    BY <2>1 DEF GeminiTypeOK
<1>4. ExportTypeOK
  BY DEF ExportTypeOK
<1>5. PagesOK
  BY DEF PagesOK, Messages
<1>6. TypeOK
  BY <1>2, <1>3, <1>4, <1>5 DEF TypeOK, PagesOK
<1>7. SearchOK /\ FormOK
  BY DEF SearchOK, FormOK, References, Of
<1>8. OnTrack
  BY <1>1 DEF OnTrack
<1>9. Reached
  BY <1>1 DEF Reached
<1>10. Audited
  <2>1. ASSUME NEW r \in Requests PROVE Due(r) = 0
    <3>1. Head(todo[r]) # "audit"
      BY <1>1 DEF Paired
    <3> QED
      BY <3>1 DEF Due
  <2> QED
    BY <2>1 DEF Audited
<1>11. Sent
  BY DEF Sent, Of
<1>12. PlanReplies
  <2>1. ASSUME NEW r \in Of("plan") PROVE Len(generated[r]) = PlanCount(Len(todo[r]))
    BY PlanWork DEF Of, PlanCount
  <2> QED
    BY <2>1 DEF PlanReplies, Of
<1>13. PlanAnswers /\ PlanShown
  BY DEF PlanAnswers, PlanShown, Of
<1>14. Exported
  BY <1>1, ExportWork DEF Exported, Of
<1> QED
  BY <1>6, <1>7, <1>8, <1>9, <1>10, <1>11, <1>12, <1>13, <1>14 DEF Inv

(* It is preserved by every step.                                          *)
LEMMA InvStep == Inv /\ [Next]_vars => Inv'
<1> SUFFICES ASSUME Inv, [Next]_vars PROVE Inv'
  OBVIOUS
<1> USE DEF Inv
<1>1. TypeOK'
  <2>1. PagesOK'
    BY PagesTyped DEF PagesOK, TypeOK
  <2> QED
    BY <2>1, GatewayTyped, GeminiTyped, ExportTyped DEF TypeOK, PagesOK
<1> QED
  BY <1>1, SearchStep, FormStep, OnTrackStep, ReachedStep, AuditedStep, SentStep,
     PlanRepliesStep, PlanAnswersStep, PlanShownStep, ExportedStep

(* The rows are the answers, in their order, as far as they go.            *)
LEMMA InvAudit == Inv => AuditTrailTrue
<1> SUFFICES ASSUME Inv, NEW r \in Requests, unaudited[r] = 0
             PROVE  generations[r] = SubSeq(generated[r], 1, Len(generations[r]))
  BY DEF Inv, Audited, AuditTrailTrue, Due
<1>1. /\ generations[r] \in Seq(Texts) /\ generated[r] \in Seq(Texts)
      /\ Len(generations[r]) \in Nat /\ Len(generated[r]) \in Nat
      /\ Due(r) \in {0, 1}
  BY DEF Inv, TypeOK, GeminiTypeOK, Due
<1>2. /\ Len(generations[r]) <= Len(generated[r])
      /\ \A i \in 1..Len(generations[r]) : generations[r][i] = generated[r][i]
  BY <1>1 DEF Inv, Audited
<1> DEFINE n == Len(generations[r])
           t == SubSeq(generated[r], 1, n)
<1>3. t \in Seq(Texts) /\ Len(t) = n /\ \A i \in 1..n : t[i] = generated[r][i]
  <2>1. \A i \in 1..n : generated[r][i] \in Texts
    BY <1>1, <1>2
  <2> QED
    BY <1>1, <2>1, SubSeqProperties
<1> QED
  BY <1>1, <1>2, <1>3

(* What the page shows comes from what the handler replied, and that from  *)
(* how far it had come.                                                    *)
LEMMA InvHonest == Inv => MessageIsHonest
<1> SUFFICES ASSUME Inv PROVE MessageIsHonest
  OBVIOUS
<1>1. ASSUME NEW r \in Of("plan"), handler[r] = "200" PROVE Len(generated[r]) = 2
  <2>1. r \in Requests /\ todo[r] = <<>>
    BY <1>1 DEF Of, Inv, Reached
  <2>2. Len(todo[r]) = 0 /\ PlanCount(0) = 2
    BY <2>1 DEF PlanCount
  <2> QED
    BY <1>1, <2>2 DEF Inv, PlanReplies
<1>2. ASSUME NEW r \in Of("plan"), Failed(r) PROVE generated[r] = <<>> \/ handler[r] = "dead"
  BY <1>2 DEF Failed, Inv, Reached, PlanReplies, Of
<1>3. ASSUME NEW r \in Of("plan"), handler[r] = "503"
      PROVE  "gemini" \notin keys /\ generated[r] = <<>>
  BY <1>3 DEF Inv, PlanReplies
<1>4. \A q, r \in Requests : sender[q] = sender[r] /\ sender[q] # 0 => q = r
  BY DEF Inv, Sent
<1> QED
  BY <1>1, <1>2, <1>3, <1>4 DEF Inv, PlanShown, MessageIsHonest

(* An answered export has done all its steps.                              *)
LEMMA InvExport == Inv => ExportIsRecorded
<1> SUFFICES ASSUME Inv, NEW r \in Of("exportPdf")
             PROVE  /\ handler[r] = "200" => r \in pdfExports
                    /\ r \in pdfExports => KeyHolds(r)
  BY DEF ExportIsRecorded, KeyHolds
<1>1. r \in Requests
  BY DEF Of
<1> QED
  BY <1>1 DEF Inv, Exported, Reached

-----------------------------------------------------------------------------
(* Every tier keeps its type: the steps of a handler run out and never     *)
(* grow, and whatever the model answered is a text.                        *)
THEOREM TypeSafety == Spec => []TypeOK
<1>1. Inv => TypeOK
  BY DEF Inv
<1> QED
  BY <1>1, InitInv, InvStep, PTL DEF Spec

(* recordGeneration: every answer of the model has its row, in order,      *)
(* unless the INSERT itself failed, whatever becomes of the gateway, the   *)
(* browser and the service meanwhile.                                      *)
THEOREM AuditIsTrue == Spec => []AuditTrailTrue
BY InitInv, InvStep, InvAudit, PTL DEF Spec

(* The itinerary page tells of gemini-service, three hops away, only what  *)
(* happened there, and a mount sends one plan at most.                     *)
THEOREM MessagesAreHonest == Spec => []MessageIsHonest
BY InitInv, InvStep, InvHonest, PTL DEF Spec

(* An answered export has its row, a row its object, and the object is the *)
(* PDF of that row or of an export that shares its millisecond.            *)
THEOREM ExportsAreRecorded == Spec => []ExportIsRecorded
BY InitInv, InvStep, InvExport, PTL DEF Spec

=============================================================================
