------------------------------- MODULE Gateway -------------------------------
(***************************************************************************)
(* The gateway and the HTTP exchanges that pass through it: rate limit,    *)
(* JWT check, the proxy with its timeout, and what requestJson makes of    *)
(* the answer in the browser.  The upstream handler is a list of the steps *)
(* it still has to do; the modules of the services say what each step is.  *)
(* A handler knows nothing of the browser: it goes on after the gateway    *)
(* has given up on it.                                                     *)
(***************************************************************************)
EXTENDS Naturals, Sequences, Functions

CONSTANTS
  Requests,    \* the requests that pages may send
  Visits,      \* bound: what a behaviour's requests call, a set of functions
  RateLimit,   \* bound: requests that fit in one window of the limiter
  MaxTroubles  \* bound: lost connections, crashes, failed INSERTs and the like

VARIABLES
  kind,       \* the endpoint that each request calls
  leg,        \* where each exchange is
  outcome,    \* what requestJson resolves or rejects with
  left,       \* what the limiter's window still admits
  session,    \* the token in the session cookie
  handler,    \* "none"; "queued" on a connection that the service has not taken
              \* up; "working"; "dead"; or the status that was replied
  todo,       \* the steps that the handler still has to do
  troubles    \* how much has gone wrong, for the bound

gatewayVars == <<kind, leg, outcome, left, session, handler, todo, troubles>>
hopVars     == <<kind, leg, outcome, left, session>>

\* The endpoints, with the service behind each one and what its handler
\* does, one entry for every await that matters.
Plan == <<"accept", "model", "audit", "model", "audit", "flights">>
Work ==
  [ plan        |-> Plan,
    itinerary   |-> <<"accept", "model", "audit">>,
    weather     |-> <<"accept", "model", "audit">>,
    hotels      |-> <<"accept", "model", "audit", "searched">>,
    flights     |-> <<"accept", "flights">>,
    countries   |-> <<"accept", "read">>,
    travelTypes |-> <<"accept", "read">>,
    exportPdf   |-> <<"accept", "fetch", "render", "put", "record">> ]

Endpoints == DOMAIN Work

Steps == {"accept", "model", "audit", "flights", "searched", "read",
          "fetch", "render", "put", "record"}

ASSUME GatewayAssumption ==
  /\ Visits \subseteq [Requests -> Endpoints]
  /\ RateLimit \in Nat \ {0}
  /\ MaxTroubles \in Nat

Replies == {"200", "401", "404", "500", "502", "503"}

GatewayTypeOK ==
  /\ kind \in Visits
  /\ leg \in [Requests -> {"idle", "sent", "forwarded", "answered", "heard"}]
  /\ outcome \in [Requests -> Replies \cup {"none", "429", "504", "dropped"}]
  /\ left \in 0..RateLimit
  /\ session \in {"valid", "expired"}
  /\ handler \in [Requests -> Replies \cup {"none", "queued", "working", "dead"}]
  /\ todo \in [Requests -> Seq(Steps)]
  /\ \A r \in Requests : Len(todo[r]) <= Len(Work[kind[r]])
  /\ troubles \in 0..MaxTroubles

GatewayInit ==
  /\ kind \in Visits
  /\ leg = [r \in Requests |-> "idle"]
  /\ outcome = [r \in Requests |-> "none"]
  /\ left \in 1..RateLimit
  /\ session = "valid"
  /\ handler = [r \in Requests |-> "none"]
  /\ todo = [r \in Requests |-> Work[kind[r]]]
  /\ troubles = 0

Trouble == troubles < MaxTroubles /\ troubles' = troubles + 1

-----------------------------------------------------------------------------
\* requestJson starts the fetch; the pages decide when.
Sending(r) ==
  /\ leg[r] = "idle"
  /\ leg' = [leg EXCEPT ![r] = "sent"]
  /\ UNCHANGED <<kind, outcome, left, session, handler, todo, troubles>>

Answering(r, status) ==
  /\ leg' = [leg EXCEPT ![r] = "answered"]
  /\ outcome' = [outcome EXCEPT ![r] = status]

Counted == left > 0 /\ left' = left - 1

TooMany(r) ==
  /\ leg[r] = "sent"
  /\ left = 0
  /\ Answering(r, "429")
  /\ UNCHANGED <<kind, left, session, handler, todo, troubles>>

\* The JWT gate: whatever is wrong with the token is a 401.
Unauthorized(r) ==
  /\ leg[r] = "sent"
  /\ Counted
  /\ session = "expired"
  /\ Answering(r, "401")
  /\ UNCHANGED <<kind, session, handler, todo, troubles>>

\* No URL is configured for the service.
ServiceStatus == "502"
ServiceDown(r) ==
  /\ Trouble
  /\ leg[r] = "sent"
  /\ Counted
  /\ session = "valid"
  /\ Answering(r, ServiceStatus)
  /\ UNCHANGED <<kind, session, handler, todo>>

\* The fetch to the service starts, and its timer with it: nothing has taken
\* the connection up yet.
Forward(r) ==
  /\ leg[r] = "sent"
  /\ Counted
  /\ session = "valid"
  /\ leg' = [leg EXCEPT ![r] = "forwarded"]
  /\ handler' = [handler EXCEPT ![r] = "queued"]
  /\ UNCHANGED <<kind, outcome, session, todo, troubles>>

\* The service takes the connection up, soon, late or never: what waits in its
\* backlog may be begun after the gateway has given up on it.
TakenUp(r) ==
  /\ handler[r] = "queued"
  /\ handler' = [handler EXCEPT ![r] = "working"]
  /\ UNCHANGED <<kind, leg, outcome, left, session, todo, troubles>>

\* Nothing listens, or no connection is made in time.
ConnectFails(r) ==
  /\ leg[r] = "forwarded"
  /\ handler[r] = "queued"
  /\ handler' = [handler EXCEPT ![r] = "none"]
  /\ Answering(r, ServiceStatus)
  /\ UNCHANGED <<kind, left, session, todo, troubles>>

Relay(r) ==
  /\ leg[r] = "forwarded"
  /\ handler[r] \in Replies
  /\ Answering(r, handler[r])
  /\ UNCHANGED <<kind, left, session, handler, todo, troubles>>

\* Mutant: a fetch without a signal.
TimesOutNever(r) == FALSE /\ leg[r] = "forwarded" /\ UNCHANGED gatewayVars

\* The signal of UPSTREAM_TIMEOUT_MS aborts the fetch, not the handler; nor does
\* it ask whether there is one.
TimesOut(r) ==
  /\ leg[r] = "forwarded"
  /\ Answering(r, "504")
  /\ UNCHANGED <<kind, left, session, handler, todo, troubles>>

ConnectionReset(r) ==
  /\ leg[r] = "forwarded"
  /\ handler[r] = "dead"
  /\ Answering(r, ServiceStatus)
  /\ UNCHANGED <<kind, left, session, handler, todo, troubles>>

\* The hop between the browser and the gateway breaks: fetch rejects, or the
\* development server answers 500 with no body.
Drops(r) ==
  /\ Trouble
  /\ leg[r] \in {"sent", "forwarded"}
  /\ Answering(r, "dropped")
  /\ UNCHANGED <<kind, left, session, handler, todo>>

\* A reset before the window is used up would only admit more.
WindowResets ==
  /\ left = 0
  /\ left' = RateLimit
  /\ UNCHANGED <<kind, leg, outcome, session, handler, todo, troubles>>

SessionExpires ==
  /\ Trouble
  /\ session = "valid"
  /\ session' = "expired"
  /\ UNCHANGED <<kind, leg, outcome, left, handler, todo>>

\* The process of a service goes away with its backlog and the handlers it was
\* running.
ServiceOf(r) == IF kind[r] = "exportPdf" THEN "tools-service" ELSE "gemini-service"
Pending(r) == handler[r] \in {"queued", "working"}
Crashes(service) ==
  /\ Trouble
  /\ \E r \in Requests : ServiceOf(r) = service /\ Pending(r)
  /\ handler' = [r \in Requests |->
       IF ServiceOf(r) = service /\ Pending(r) THEN "dead" ELSE handler[r]]
  /\ UNCHANGED <<kind, leg, outcome, left, session, todo>>

GatewayStep(r) ==
  \/ TooMany(r) \/ Unauthorized(r) \/ ServiceDown(r) \/ Forward(r)
  \/ ConnectFails(r) \/ Relay(r) \/ TimesOut(r) \/ ConnectionReset(r)

-----------------------------------------------------------------------------
\* For the handlers of the services.
At(r, step) ==
  /\ handler[r] = "working"
  /\ todo[r] # <<>>
  /\ Head(todo[r]) = step

\* A step is done: the next one, or the answer 200.
Continue(r) ==
  /\ todo' = [todo EXCEPT ![r] = Tail(@)]
  /\ handler' = [handler EXCEPT ![r] = IF Len(todo[r]) = 1 THEN "200" ELSE @]
  /\ UNCHANGED hopVars

\* The handler throws, and errorHandler replies with that status.
Fail(r, status) ==
  /\ handler' = [handler EXCEPT ![r] = status]
  /\ UNCHANGED <<hopVars, todo>>

=============================================================================
