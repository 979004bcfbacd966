---------------------------- MODULE RequestPages ----------------------------
(***************************************************************************)
(* The pages of the web app that wait for slow endpoints, over the gateway *)
(* and the two services that answer them: the page that generates a trip,  *)
(* the form page with its reference data, the hotel search bar and the     *)
(* export button.  A page sees only what requestJson gives it, and it must *)
(* tell its reader the truth about what happened three hops away.          *)
(***************************************************************************)
EXTENDS GeminiService, ExportPdf, FiniteSets

CONSTANTS
  MaxMounts,  \* bound: how often the itinerary page is opened
  None

ASSUME PagesAssumption == MaxMounts \in Nat /\ None \notin Requests

VARIABLES
  sender,     \* the mount that sent a request, or 0
  page,       \* the itinerary page of each mount
  form,       \* the plan-itinerary page
  search,     \* the hotel search bar
  exporting   \* the export buttons that spin

Mounts == 1..MaxMounts

pageVars == <<sender, page, form, search, exporting>>
vars     == <<gatewayVars, geminiVars, exportVars, pageVars>>

Serving == <<geminiVars, exportVars>>
Of(endpoint) == {r \in Requests : kind[r] = endpoint}

Messages == {"plan", "noPlan", "notConfigured", "tooLong", "dropped", "generic"}

\* The state of every tier.
TypeOK ==
  /\ GatewayTypeOK /\ GeminiTypeOK /\ ExportTypeOK
  /\ sender \in [Requests -> {0} \cup Mounts]
  /\ page \in [Mounts -> [effects : 0..2, started : BOOLEAN, loading : BOOLEAN,
                          shows : Messages \cup {"nothing"}]]
  /\ form \in {"closed", "spinner", "form", "error"}
  /\ search \in [query : Requests \cup {None}, armed : BOOLEAN, loading : BOOLEAN,
                 results : Requests \cup {None}]
  /\ exporting \subseteq Requests

Init ==
  /\ GatewayInit /\ GeminiInit /\ ExportInit
  /\ sender = [r \in Requests |-> 0]
  /\ page = [m \in Mounts |-> [effects |-> 0, started |-> FALSE,
                               loading |-> FALSE, shows |-> "nothing"]]
  /\ form = "closed"
  /\ search = [query |-> None, armed |-> FALSE, loading |-> FALSE, results |-> None]
  /\ exporting = {}

\* The promise of requestJson settles, and the page's continuation runs.
Hears(r) ==
  /\ leg[r] = "answered"
  /\ leg' = [leg EXCEPT ![r] = "heard"]
  /\ outcome' = [outcome EXCEPT ![r] = "none"]
  /\ UNCHANGED <<kind, left, session, handler, todo, troubles, Serving>>

-----------------------------------------------------------------------------
\* The itinerary page.  StrictMode runs the effect of a mount twice; a reader
\* who is not content opens the page again.
AlreadyStarted(m) == page[m].started

Opened(m) ==
  \/ page[m].effects = 1 /\ page[m].loading
  \/ page[m].effects = 0 /\ \A n \in 1..(m - 1) : page[n].shows # "nothing"

\* Which of the model's requests a page uses does not matter.
NextRequest == CHOOSE r \in Requests : leg[r] = "idle"

EffectStarts(m) ==
  /\ Opened(m)
  /\ ~AlreadyStarted(m)
  /\ \E r \in Of("plan") :
       /\ Sending(r)
       /\ r = NextRequest
       /\ sender' = [sender EXCEPT ![r] = m]
  /\ page' = [page EXCEPT ![m].effects = @ + 1, ![m].started = TRUE, ![m].loading = TRUE]
  /\ UNCHANGED <<Serving, form, search, exporting>>

EffectReturns(m) ==
  /\ Opened(m)
  /\ AlreadyStarted(m)
  /\ page' = [page EXCEPT ![m].effects = @ + 1]
  /\ UNCHANGED <<gatewayVars, Serving, sender, form, search, exporting>>

\* What the page makes of the answer: a plan, or the message of its box.
Told(r) ==
  IF outcome[r] = "200" THEN IF HasItinerary(r) THEN "plan" ELSE "noPlan"
  ELSE IF outcome[r] = "503" THEN "notConfigured"
  ELSE IF outcome[r] = "504" THEN "tooLong"
  ELSE IF outcome[r] = "dropped" THEN "dropped"
  ELSE "generic"

PlanArrives(r) ==
  /\ kind[r] = "plan"
  /\ Hears(r)
  /\ page' = [page EXCEPT ![sender[r]] =
                 [@ EXCEPT !.effects = 2, !.loading = FALSE, !.shows = Told(r)]]
  /\ UNCHANGED <<sender, form, search, exporting>>

-----------------------------------------------------------------------------
\* The form page: Promise.all of the two lists, neither of which is empty.
References == Of("countries") \cup Of("travelTypes")

OpenForm ==
  /\ form = "closed"
  /\ References # {}
  /\ form' = "spinner"
  /\ leg' = [r \in Requests |-> IF r \in References THEN "sent" ELSE leg[r]]
  /\ UNCHANGED <<kind, outcome, left, session, handler, todo, troubles, Serving, sender,
                 page, search, exporting>>

FormHears(r) ==
  /\ r \in References
  /\ Hears(r)
  /\ form' = IF form = "error" \/ outcome[r] # "200" THEN "error"
             ELSE IF \A q \in References \ {r} : leg[q] = "heard" THEN "form"
             ELSE form
  /\ UNCHANGED <<sender, page, search, exporting>>

-----------------------------------------------------------------------------
\* The search bar.  Typing moves the debounce timer; nothing stops a request.
Type(r) ==
  /\ r \in Of("hotels")
  /\ leg[r] = "idle"
  /\ search.query # r
  /\ search' = [search EXCEPT !.query = r, !.armed = TRUE]
  /\ UNCHANGED <<gatewayVars, Serving, sender, page, form, exporting>>

Debounced ==
  /\ search.armed
  /\ Sending(search.query)
  /\ search' = [search EXCEPT !.armed = FALSE, !.loading = TRUE]
  /\ UNCHANGED <<Serving, sender, page, form, exporting>>

\* Whichever answer comes is shown, and ends the spinner; a failure is none.
ResultsArrive(r) ==
  /\ kind[r] = "hotels"
  /\ Hears(r)
  /\ search' = [search EXCEPT !.loading = FALSE,
                  !.results = IF outcome[r] = "200" THEN r ELSE None]
  /\ UNCHANGED <<sender, page, form, exporting>>

-----------------------------------------------------------------------------
\* An export button, one per request; it is disabled while it spins.
Export(r) ==
  /\ r \in Of("exportPdf")
  /\ Sending(r)
  /\ r = NextRequest
  /\ exporting' = exporting \cup {r}
  /\ UNCHANGED <<Serving, sender, page, form, search>>

ExportArrives(r) ==
  /\ kind[r] = "exportPdf"
  /\ Hears(r)
  /\ exporting' = exporting \ {r}
  /\ UNCHANGED <<sender, page, form, search>>

\* The endpoints that no page calls, by another client.
CallDirectly(r) ==
  /\ r \in Of("itinerary") \cup Of("weather") \cup Of("flights")
  /\ Sending(r)
  /\ UNCHANGED <<Serving, pageVars>>

DirectHears(r) ==
  /\ kind[r] \in {"itinerary", "weather", "flights"}
  /\ Hears(r)
  /\ UNCHANGED pageVars

-----------------------------------------------------------------------------
Gatewaying(r) == GatewayStep(r) /\ UNCHANGED <<Serving, pageVars>>

Handling(r) ==
  \/ GeminiHandler(r) /\ UNCHANGED <<exportVars, pageVars>>
  \/ ExportHandler(r) /\ UNCHANGED <<geminiVars, pageVars>>

Hearing(r) ==
  \/ PlanArrives(r) \/ FormHears(r) \/ ResultsArrive(r)
  \/ ExportArrives(r) \/ DirectHears(r)

Users ==
  \/ \E m \in Mounts : EffectStarts(m) \/ EffectReturns(m)
  \/ OpenForm
  \/ Debounced
  \/ \E r \in Requests : Type(r) \/ Export(r) \/ CallDirectly(r)

Environment ==
  \/ \E r \in Requests : (Drops(r) \/ TakenUp(r)) /\ UNCHANGED <<Serving, pageVars>>
  \/ (WindowResets \/ SessionExpires) /\ UNCHANGED <<Serving, pageVars>>
  \/ \E s \in {"gemini-service", "tools-service"} :
       Crashes(s) /\ UNCHANGED <<Serving, pageVars>>
  \/ (ItineraryEdited \/ Tick) /\ UNCHANGED <<geminiVars, pageVars>>

Next ==
  \/ Users
  \/ Environment
  \/ \E r \in Requests : Gatewaying(r) \/ Handling(r) \/ Hearing(r)

\* The gateway and the browser run.  Nothing is assumed of the services, of
\* the model, Amadeus and the storage, which may never answer.
Fairness ==
  \A r \in Requests : WF_vars(Gatewaying(r) \/ Hearing(r))

Spec == Init /\ [][Next]_vars /\ Fairness

-----------------------------------------------------------------------------
\* Every answer of the model has its row, in order, unless the INSERT itself
\* failed: also when the gateway has given up, the browser has gone, or the
\* second generation or the flight search never comes back.  What a crash can
\* cost is the one row that was about to be written.
AuditTrailTrue ==
  \A r \in Requests :
    LET due == IF todo[r] # <<>> /\ Head(todo[r]) = "audit" THEN 1 ELSE 0
    IN  /\ Len(generations[r]) + unaudited[r] + due = Len(generated[r])
        /\ unaudited[r] = 0 =>
             generations[r] = SubSeq(generated[r], 1, Len(generations[r]))
        /\ due = 1 => handler[r] \in {"working", "dead"}

\* One mount of the page burns the model's quota for one plan at most, although
\* its effect runs twice and its state is not updated in between; and what the
\* page says is what happened in gemini-service: "not configured" only without
\* the key, "no plan" only when the model gave none, and a plan that was made is
\* never hidden behind the generic box because its weather, its flights or its
\* audit failed.  "Took too long" and "dropped" tell nothing of the handler: it
\* may never have begun, or have made the plan, or begin later.
MessageIsHonest ==
  /\ \A q, r \in Requests : sender[q] = sender[r] /\ sender[q] # 0 => q = r
  /\ \A r \in Of("plan") : leg[r] = "heard" =>
       LET shows == page[sender[r]].shows
       IN  /\ shows = "plan" => HasItinerary(r) /\ Len(generated[r]) = 2
           /\ shows = "noPlan" => ~HasItinerary(r) /\ Len(generated[r]) = 2
           /\ shows = "notConfigured" => "gemini" \notin keys /\ generated[r] = <<>>
           /\ shows = "generic" => generated[r] = <<>> \/ handler[r] = "dead"

\* An export that was answered has its row, and a row has its object; the link
\* opens the version that was rendered for it, unless an export of the same
\* millisecond has the same key.
ExportIsRecorded ==
  \A r \in Of("exportPdf") :
    /\ handler[r] = "200" => r \in pdfExports
    /\ r \in pdfExports =>
         /\ storageKey[r] # 0
         /\ objects[storageKey[r]] # 0
         /\ \/ objects[storageKey[r]] = rendered[r]
            \/ \E q \in Of("exportPdf") \ {r} : storageKey[q] = storageKey[r]

\* The spinner of the page that waits for a request.
Spins(r) ==
  \/ sender[r] # 0 /\ page[sender[r]].loading
  \/ r \in References /\ form = "spinner"
  \/ r \in Of("hotels") /\ search.loading
  \/ r \in exporting

\* Nothing spins for ever: not the pages, the search bar or the export button,
\* although the model, Amadeus and the storage are awaited without a limit.
PagesSettle == \A r \in Requests : Spins(r) ~> ~Spins(r)

=============================================================================
