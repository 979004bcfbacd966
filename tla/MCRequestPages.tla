--------------------------- MODULE MCRequestPages ---------------------------
(* The pages and slow endpoints for TLC: two plans, two searches, two      *)
(* exports, the two reference lists, or the endpoints that no page calls.  *)
EXTENDS RequestPages, TLC

CONSTANTS r1, r2

Pair(a, b) == (r1 :> a) @@ (r2 :> b)
MCVisits ==
  { Pair("plan", "plan"), Pair("hotels", "hotels"), Pair("exportPdf", "exportPdf"),
    Pair("countries", "travelTypes"), Pair("itinerary", "flights"),
    Pair("weather", "flights") }

\* The keys of gemini-service matter to a plan and to a flight search, and the
\* window of the limiter is nearly used up when the form is opened.
MCInit ==
  /\ Init
  /\ keys \in IF Of("plan") \cup Of("flights") # {}
               THEN {{}, {"gemini", "amadeus"}} ELSE {{"gemini"}}
  /\ left = IF Of("countries") # {} THEN 1 ELSE RateLimit
MCSpec == MCInit /\ [][Next]_vars /\ Fairness
=============================================================================
