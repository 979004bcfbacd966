# Smart Itinerary: a TLA+ verification project

Models, model-checking runs and machine-checked proofs for Smart Itinerary, from
the database to the page: the supervised RabbitMQ connection that every service
uses, the delivery of notifications and reminders on top of it, the publishers
that create that connection lazily, the transactional store of itineraries, the
groups, invitations and shares of tools-service, and the web app with what it
talks to: the gateway with its timeout, the generations of gemini-service, the
PDF export, sign-in in several tabs, accounts, saved trips, and the forms.
`PROJECT.json` holds the same inventory for tools: components, runs, mutants,
the map from definitions to source lines, findings, hazards and theorems.

    tlc -workers 2 -config BrokerSupervision.cfg MCBrokerAdapter.tla    # one run
    tlapm BrokerAdapter_proofs.tla                                      # the proofs of a module

## 1. The system

A Next.js web client talks to a gateway, which verifies the session and forwards
`/api/...` to five services with a PostgreSQL database each (email-service has
none). Events go through one RabbitMQ topic exchange.

    web -> gateway -> auth-service       (auth db)
                   -> itinerary-service  (itinerary db) --itinerary.created--+
                   -> tools-service      (tools db, S3) --group.invited,-----+-> RabbitMQ
                   |        |               itinerary.shared                 |      |
                   |        +-> itinerary-service (HTTP)                     |      v
                   -> gemini-service     (audit db, Gemini, Amadeus)         |  email-service -> SMTP
                                                                             +--- reminders.waiting (TTL)

| Component | State | Operations | Hard part | Correct when |
|---|---|---|---|---|
| broker adapter (`packages/shared/.../broker.ts`) | connection, channel, consumers, establishing, reconnectTimer, shutDown, status | establish, scheduleReconnect, onConnectionGone, publish, consume, close | every await can be cut by a loss or by close() | one reconnect loop, never stranded, status true, consumers replayed once, closed stays closed |
| email-service | broker link, queues, handler runs | four handlers, ack/nack, scheduleReminder, start-up loop | at-least-once delivery, handlers that outlive their connection, TTL queue | nothing leaves a queue unfinished but poison, reminders neither early nor alone, duplicates only by redelivery |
| publishers (itinerary-service, tools-service) | brokerAttempt, connectedBroker | publish, closeBroker | one promise shared by concurrent requests | no cached failure, nobody waits in vain, one connection |
| itinerary store | five tables | POST, PUT, GET, two DELETEs | saves of many statements at READ COMMITTED, failures in between | what is committed is one payload or nothing |
| groups and shares (tools-service) | groups, group_members, itinerary_shares | create, invite, join, share, delete | requests of several statements without a transaction | tokens are spent once, losers get a 4xx and leave nothing, what is mailed works, only the joined hear of a share |
| PDF export (tools-service) | S3 objects, pdf_exports | export | two systems without a transaction, a handler that outlives the gateway's patience | what is recorded is stored, what is answered is recorded |
| auth-service | users, users_demographics | GET /me, profile, demographics | upserts from tokens of any age, rows replaced as a whole | a known name stays, preferences are lost only to a form that never had them |
| gateway | rate-limit window | authenticate, forward | upstream timeout against a handler that goes on | every request is answered, whatever the upstream does |
| gemini-service | generations (audit rows) | plan, generations, hotels, flights, reference data | two generations and a search, each of which may fail or never end | every generation is audited, and the page says what happened |
| web: sign-in | PKCE, state and next cookies | start, callback, signout | several tabs share the cookies | a code meets the verifier of its own start; refusals have a reason |
| web: account pages | AuthContext, loaded preferences | load, edit, save, copy into the planning form | answers in any order, a session switched by another tab | saves keep what was loaded, a checked box has filled the form |
| web: trips | saved aggregates, pages in tabs, local storage | plan, save, drag, add or remove a stay, delete | read-modify-write of aggregates, late answers | a drag survives the reload, a stay is lost only to a write that had not seen it |
| web: groups page | list of groups | load, create, join, invite, delete, share | loads and patches in any order | the list is right once all is quiet |
| web: planning form, plan answer | inputs; weather and flights | type, select, submit; normalise, save, sort | corrections that chase each other; normalisation applied again and again | the plan that is asked for is coherent, the forecast is shown whole |
| other pages, infrastructure | | | | not modelled (section 7) |

## 2. Modules

| Module | Models | Extends / uses |
|---|---|---|
| `BrokerAdapter` | one `createBroker()` instance: attempts, sockets, timers, flags, registry, close() | |
| `ServiceLink` | what a service sees of it: up, recovering, closed; consumers come back one by one | |
| `BrokerImplementsLink` | the refinement mapping from the first to the second | EXTENDS BrokerAdapter, INSTANCE ServiceLink |
| `BrokerAdapter_proofs` | theorems, the refinement included | |
| `EmailDelivery` | RabbitMQ's queues, deliveries, the handlers and reminders, over a link | INSTANCE ServiceLink |
| `LazyPublisher` | brokerAttempt / connectedBroker, publish, shutdown | |
| `MCConnections` | one supervised connection, or the publishers that make such connections, for one run | EXTENDS BrokerImplementsLink, LazyPublisher |
| `ItineraryStore` | requests on the itinerary database, statement by statement | INSTANCE AggregateStore |
| `AggregateStore` | an itinerary saved, replaced and deleted as one thing | |
| `EmailDelivery_proofs`, `LazyPublisher_proofs`, `ItineraryStore_proofs` | theorems | |
| `ToolsGroups` | groups, invitations and shares: requests of several statements without a transaction | |
| `ToolsGroups_proofs` | theorems | |
| `Gateway` | requests between browser, gateway and a handler: limiter, JWT gate, proxy, timeout, reset | |
| `GeminiService` | generations with their audit rows, the plan facade, hotels, flights, reference data | EXTENDS Gateway |
| `ExportPdf` | fetch, render, store, record | EXTENDS Gateway |
| `RequestPages` | the pages that wait for these: itinerary page, form page, hotel search, export button | EXTENDS GeminiService, ExportPdf |
| `RequestPages_proofs` | theorems, about the gateway, gemini-service and the export too | |
| `WebSignIn` | start, callback and signout over the cookies of a browser | |
| `AuthService` | the rows of users and of their preferences | |
| `AccountPages` | AuthContext, profile, edit form, the checkbox of the planning form | EXTENDS WebSignIn, AuthService |
| `AccountPages_proofs` | theorems, about sign-in and auth-service too | |
| `TripPages` | timeline, hotel pages and profile around saved trips, in several tabs | |
| `GroupsPage` | the list of groups and the share panel, against other people | |
| `PlanForm` | the inputs of the planning form | |
| `PlanAnswer` | weather and flights from the model to the page, the table and a share | |
| `Lists` | `filter` and the stable `sort` of JavaScript arrays | used by TripPages, GroupsPage, PlanAnswer |
| `Pages_proofs` | theorems, about lists and about the four modules of pages above | EXTENDS TripPages, GroupsPage, PlanForm, PlanAnswer |
| `MCBrokerAdapter`, `MCEmailDelivery`, `MCItineraryStore`, `MCToolsGroups`, `MCRequestPages`, `MCAccountPages`, `MCPages` | constants, initial cases and symmetry for TLC | |

### BrokerAdapter

A step is the code between two awaits that leave the event loop, since Node runs
one callback at a time. An *attempt* is a call of `establish()` with the
connection it opens; `phase` says at which await it is: `dialing`
(`amqp.connect`), `wiring` (channel, topology, replay), `wired` (the last reply
was received, the continuation has yet to run), `failing` (the catch awaits the
close of the half-open connection), `aborting` (shutDown was seen after the
connect), `done` (published as the channel). `connection` and `channel` are
assigned together everywhere and are one variable. `timers` counts armed
timeouts and `timerRef` is whether `reconnectTimer` refers to one: the code has
a flag where the event loop may have several. The back-off's length is left out:
an armed timer may fire at any later time, which covers every delay.

`registry` is the list that the code keeps, in which a queue may occur twice, and
`consuming` is what runs on each connection. `consume()` waits for the reply of its
channel (`subscribing`) and is registered by it; `granted` remembers the calls that
returned, so that `ConsumersAsGranted` can say that this, no more and no less, is what
each replay starts. Nobody but `MaxConsumers` bounds how often a queue is asked for.

RabbitMQ may go away (`Outage`, bounded by `MaxOutages`), and connections die
then one by one (`WiringLost`, `ConnectionLost`). Two things are worse, and
bounded together by `MaxFaults`: a channel that RabbitMQ closes by itself
(`ChannelFault`, `WiringChannelFault`), and a connection that dies in the instant
between the last awaited reply and the continuation (`WiredLost`). Each counts in
`faults`, and `Undisturbed` is `faults = 0`: most of what the adapter promises
holds only until the first of them, see the findings.

### EmailDelivery

The link is `ServiceLink`, so that everything the adapter was shown to implement
is what the consumers run on. `msg` says in which queue a message is, `count`
how often it was delivered (a second delivery is flagged *redelivered*), `run` at
which step each handler run is. A run is not bound to its connection: it goes on
when the connection is lost, and `Holds` says whether its ack still counts.
SMTP's acceptance of a mail and the continuation are separate steps, and a
failing SMTP may have accepted the mail. A reminder is a message of its own,
parked by `ScheduleReminder` and released from the head of the queue by `Expire`.

### LazyPublisher

An attempt is a promise of `connectBroker()` and later its broker. All
continuations of a settled promise run in the microtask queue before the next
callback, so one action settles an attempt and everything that awaited it: the
owner's event is published or dropped; those who had found the failed promise in
`brokerAttempt` each call `connectBroker()` in turn, the catch clears
`brokerAttempt` whatever it refers to, and the last call's promise stays. Of a
connection that was made it keeps only whether it has a channel (`BrokerLost`,
`BrokerResumed`); `BrokerAdapter` says what is behind that.

### ItineraryStore and AggregateStore

A step is one SQL statement at READ COMMITTED: a statement sees what is committed when
it runs and what its transaction wrote (`View`), and waits for rows that another
transaction has changed (`Locked`). The INSERTs of one loop are one step, as nobody
else can see them before the commit. A payload is named by its request and each row
carries the payload it was written from, so that a mixture is visible. `Rollback`
fails any statement of a transaction, `StatementFails` any other, `CommitUnknown`
loses the reply to COMMIT, `Crash` kills the process. `ClientFree` is the pool: a save
keeps its client from BEGIN to its end, reads take one per statement.

`AggregateStore` is the promise: saving, replacing and deleting an aggregate are
single steps, and an edit revives nothing. `SavesAreAtomic` states that
`ItineraryStore` implements it.

### ToolsGroups

A step is one SQL statement of a request: nothing here runs in a transaction, so
any other request may come between two of them. Statements carry the constraints
of the tables: `InviteInsert` meets UNIQUE (group_id, email), which the route maps
to 409, and the foreign key, which it does not map; `DeleteGroup` takes the
members with it and leaves the shares (`MembersWithout`, `SharesWithout`).
`JoinMember` is the UPDATE whose WHERE clause is the single-use guard. `OpenLookup`
and `OpenFetch` open a link: first the row of the share, then, as POST /shares never
did, the itinerary itself, which may have been deleted at its own service or never
been there (`trip`). Groups and
tokens are named after the request that makes them. `joined` remembers who ever
joined what, for the property about the audience of a share. Publishing never
fails and may lose the event, as `LazyPublisher` has it. `Fail` is a statement
that fails or a lost reply to the one before (the token of a join may be spent
and the client told 500), `Crash` ends all requests that run.

### Gateway, GeminiService, ExportPdf and RequestPages

`leg` is where the exchange of a request is (`sent`, `forwarded`, `answered`, `heard`)
and `outcome` what requestJson makes of it. A request that the proxy has sent on is
`queued` until the service takes it up (`TakenUp`): soon, when the gateway has long
given up, or never, for the timeout covers the connect as well. A handler is the list
of awaits that it still has before it (`Work`, `todo`), and goes on when the gateway
has timed out or the browser is gone: that is what makes the audit and the export
worth checking. `Drops` is the hop between browser and gateway, `Crashes` takes the
handlers of a process with it, `unaudited` counts INSERTs that failed and are logged
only. `RequestPages` adds the readers: a mount of the itinerary page runs its effect
twice (`EffectStarts`, `EffectReturns`, with the ref between them), the form page
waits for two lists at once, the search bar debounces and takes whatever answer comes
last.

### WebSignIn, AuthService and AccountPages

A step is one redirect: the jar of cookies is shared by all tabs, and `carried`
is what a callback took from it. `SignOut` needs no session: it may be that of
another tab, which has signed out already. The code of a start goes with the verifier of
that start, which Cognito checks (`Exchanged`). `lost` remembers why a start's
cookies are no longer in the jar, for the property about refusals.

A field of the preferences is abstracted to whose it is: a user's own stored
value, something typed, or the default, so that a save with the fields of nobody
or of somebody else is visible. The party size goes with the travel type, except for
the users in `Unmatched`, whose stored type is not in the form's list or whose stored
number is not the one that the list has for it: the form puts its own there. A request
is made as whoever the cookie names
when it is sent (`Sent`), while the page remembers the user of its mount (`who`).

### TripPages, GroupsPage, PlanForm and PlanAnswer

`TripPages` has the aggregate of each trip as a day of activities with times and a
set of stays. Every write makes every row anew (`Inserted`), so `row` is the key
that a deletion uses, and `added` names a stay through all of its rows. A full
document load leaves a request under way that nobody hears of (`left`), a
navigation inside the app does not. `remembered` is the trip in the local storage,
and `shown` the stays whose details that storage may have from any tab: a page of a
stay that is reloaded shows one of them (`ReloadStay`), under the address it had.

The requests of `GroupsPage` are those that the page can have under way at once: one
of each form, whose button is disabled meanwhile, and an invitation and a deletion for
each card, which overlap freely. The group to share with is the default or the
reader's choice (`Select`, `Choose`). `doubt` collects the groups about which the page
cannot know better: those that changed while a load was under way, that somebody else
changed, or whose answer was lost. What a load will be in doubt about is fixed when it
is sent (`SentLoad`): the groups that other requests of the page are about to change,
without the join that it follows. `PlanForm` has one action per handler of an input
and the constraints that the browser checks. `PlanAnswer` keeps `raw`, what the model
wrote, next to `held`, what has become of it. A flight has two legs, each with a
duration in minutes that may be written with days in front, which the page cannot read
(`Parsed`): that leg then counts nothing, the other one what it is.

The four modules filter and sort, and `Lists` says what that returns: `Arranged`
puts at place `k` the element that has `k - 1` of those that are kept before it. For
`filter` the order is that of the list; for `sort` it is the comparison, and the
list where that does not decide, since the sort of the language is stable. (`SortSeq`
of the TLC module is undefined for a list with two equal keys.) That this is
an arrangement, each element once and in order, is proved in `Pages_proofs`.

## 3. Runs

Every property of a passing run has a mutant (`PROJECT.json`, "mutants"): the
named definition changed as a plausible bug would change it, and TLC finds the
property violated.
The type invariant of every module is stated and holds in its run's state space;
only that of `BrokerAdapter` stays in a run, the others say too little to be
worth one. All are proved (section 5).

| Run | Question | Bounds |
|---|---|---|
| BrokerSupervision | one loop, no stranded owner, a true "connected", as many consumers as were granted, flags that silence the close handler always backed | 3 attempts, 2 queues, 2 consumers, 3 outages, 2 faults |
| Connections | does the adapter implement the link, do all consumers resume, does a closed adapter rest; concurrent publishes on one promise, outages, shutdown, and do responses end | adapter: 2 attempts, 2 queues, 3 consumers, 3 outages; publishers: 3 of them, 5 attempts, 2 outages |
| EmailNotifications | what leaves the queues, who is mailed how often, order and timing of confirmation and reminder, is every message settled | any 2 of 3 events, 1 loss, 1 SMTP failure, clock 0..2 |
| Store | writers and readers of two itineraries on a pool of two: atomic saves, events, what a GET may mix, are all answered | any 4 of 7 requests, 1 hotel, 2 days, 1 fault or crash |
| Groups | invitations, joins, shares, openings of links and deletions that overlap | any 3 requests, 2 users, 3 addresses, 1 fault or crash |
| SlowRequests | audit, message, export and spinners, whatever happens between the tiers | 2 requests of 6 combinations, 1 trouble, 2 mounts, 2 milliseconds, 1 edit |
| Accounts | sign-ins in two tabs, names, saves and copies of preferences | 2 tabs, 2 users, 2 starts, 1 edit, 1 failed request |
| Pages | stays and drags in two tabs; the list of groups; the planning form; weather and flights | 2 trips, 4 visits, 4 writes, 1 drag, 1 failure; 3 groups, 3 requests, 1 mishap; 2 countries, 2 days, 2 loads; 2 days of forecast, 3 offers of two legs |

Why the bounds are enough. Two attempts are all that `BrokerAdapter` ever needs
without faults (`SingleLoop`: no two are in flight, and a slot is free again when its
connection is gone); three let two loops run beside a live connection. Three outages
hit every phase of an attempt more than once. For deliveries, the first, a redelivery
and a delivery that overlaps a run of an earlier one are the distinct cases, which one
loss and one failure reach; two events are enough for each to be in the other's way in
the queue. A publish that shares a failed promise with two others reaches every way of
overwriting `brokerAttempt`, and five attempts are more than three publishers can have
live, so that no publish waits for a slot of the model. `MCConnections` moves the
adapter or the publishers, never both, because they share no state. A queue that is
consumed twice is the case of two consumers on one queue; the third is one more to be
granted between two losses. For the store, a conflict is between two requests on one
row; four at once, of two edits, a deletion, a hotel deletion, a read, a creation and
an edit of what is being created, cover every pair with a third and a fourth that
change the outcome, and hold more clients than the pool of two has. For groups, the
longest chain is a race of two on one row with a deletion of the group by a third.

Two requests at once are two mounts of one page, two searches, two exports under
one key, or two halves of one Promise.all; the properties of `SlowRequests`
relate one handler to one page, and one trouble in a chain of six awaits meets
every step of it. Two starts are needed for one to overwrite the other's
cookies; two users for a save in another's session. `MCAccountPages` runs three
cases apart, because what one adds to another is only interleaving: sign-ins
without pages, a page while another tab signs in, and two edit forms in one
session. A lost stay needs two writers of one trip, each with a read before its
write; a third trip or tab adds nothing. `MCPages` runs its four visits apart for
the same reason: they share no state. The limiter's window starts at any fill, so
that 429 happens with two requests. Three offers are the least for which a
sort can be wrong in the middle; one of the three has a return that is written with
days.

Distinct states: BrokerSupervision 1.5 million, Connections 124,441 (120,147 of the
publishers), EmailNotifications 144,000, Store 219,561, Groups 608,732, SlowRequests
375,526, Accounts 698,609, Pages 2.2 million (1.83 million of the trips).

Runs that end in a violation state what a comment promises and the code does
not do; section 6 lists them.

## 4. Fairness

- `BrokerAdapter`: callbacks whose event has happened run, armed timers fire,
  RabbitMQ comes back (`Recover`). Outages are bounded, so a stable period
  comes; the code retries for ever, and its promise is about that period.
  Nothing obliges the owner to call anything.
- `EmailDelivery`: weak fairness of "some message is delivered", of "some handler
  goes on", of the clock, of expiry and of the link's own steps. RabbitMQ delivers
  ready messages of live consumers, SMTP accepts or refuses, and the link comes
  back, which `ConsumersResume` checks of the adapter. No fairness is assumed
  between messages: there are finitely many, each delivered finitely often.
- `LazyPublisher` (`PublisherFairness`): `createBroker()` settles. A socket that hangs
  for ever would not; the operating system's connect timeout is assumed.
- `ItineraryStore`: weak fairness of "some request that has arrived goes on". It
  needs no more because requests are finitely many and none can go on for ever;
  what `EveryRequestAnswered` excludes is that all that are left wait for each
  other's rows and clients.
- `RequestPages`: weak fairness, request by request, of the gateway and of the
  browser, and of nobody else: the handlers, and with them the model, Amadeus and
  the storage, may stop for ever. That `PagesSettle` holds is due to
  `UPSTREAM_TIMEOUT_MS`, a timer of the gateway's own.
- `ToolsGroups` and the other page modules: none, their properties are safety
  properties. Readers do what they like.

## 5. Proofs

Each proof module belongs to the modules of one run and proves the safety properties
of that run for every value of the constants. A run's invariant is seldom
inductive; what follows says which invariant is, and why it is needed. Each was
first checked by TLC as an invariant of the run. A theorem `Spec => []Inv` of a
module combines `Init => IInv`, one lemma or step per action for
`IInv /\ [Next]_vars => IInv'`, and `IInv => Inv`.

| Module | Theorem | Establishes |
|---|---|---|
| `BrokerAdapter` | `TypeCorrect` (`TypeOK`) | The state of the adapter is well-formed for every set of attempts and queues and every number of losses and channel faults. |
| `BrokerAdapter` | `OneLoop` (`SingleLoop`) | While connections are only lost as a whole there is never more than one reconnect loop, however losses, failures, consume() and close() interleave. |
| `BrokerAdapter` | `OwnerNotStranded` (`NeverStranded`) | While connections are only lost as a whole an open broker always has a live connection, a connection whose loss is about to be noticed, or a reconnect in progress. |
| `BrokerAdapter` | `ConnectedCorrect` (`ConnectedIsTrue`) | While connections are only lost as a whole, the status "connected" is shown only with a wired channel that carries every registered consumer. |
| `BrokerAdapter` | `ConsumersFollowGrants` (`ConsumersAsGranted`) | While connections are only lost as a whole, a queue carries on a wired connection exactly the consumers that consume() was granted for it, whatever loss falls between a reply and its registration and however often the list is replayed. |
| `BrokerAdapter` | `SilencersCorrect` (`SilencersAreBacked`) | Whatever makes onConnectionGone return early is a reconnect that really is under way, with channel errors and late losses included. |
| `BrokerAdapter` | `AdapterImplementsLink` (`ImplementsLink`) | In every behaviour in which connections are only lost as a whole, the adapter implements the service link: each step of it is a step of ServiceLink or changes nothing that a service sees. |
| `ToolsGroups` | `GroupsTypeCorrect` | Groups, members and shares are well-formed for every number of requests, users and addresses: member rows belong to groups that exist, and an address is in a group once. |
| `ToolsGroups` | `TokensSpentOnce` (`TokenSpentOnce`) | An invite token is redeemed by one join at most, however many requests overlap, fail or are cut off by a crash. |
| `ToolsGroups` | `RacesAreAnswered` (`LosersAreTold`) | However invitations, deletions, failures and crashes overlap, an invitation that is refused leaves no row behind, and a 500 has a failure or a deletion that overtook it. |
| `ToolsGroups` | `InvitesStayAlive` (`NoDeadInvite`) | The token of every invitation that was mailed or answered 201 can be redeemed, or was, or its group is gone, for every number of requests and failures. |
| `ToolsGroups` | `SharesReachTheJoined` (`SharedWithJoinedOnly`) | A share is mailed only to addresses that the sharer listed and to those who had joined its group, whatever changes between its statements. |
| `ToolsGroups` | `LinksSurviveGroups` (`LinksOutliveGroups`) | A request that opens a link that was mailed or answered is told 404 only when its itinerary was deleted or never was: the deletion of the group that it was shared with, at any moment, costs no link. |
| `ItineraryStore` | `TypeSafety` | The tables, the transactions and the requests keep their types, and no more of them hold a client of the pool than it has, for every number of requests, failures and crashes. |
| `ItineraryStore` | `AggregatesAreWhole` (`AggregateIsWhole`) | However saves, deletes, failures and crashes interleave, what is committed of an itinerary is the whole of one payload or nothing. |
| `ItineraryStore` | `FailuresLeaveNothing` (`FailedSaveLeavesNothing`) | No row of a save that was rolled back or answered 404 is ever committed, and an event is published only for a committed itinerary. |
| `ItineraryStore` | `TablesStayApart` (`TablesDoNotMix`) | A GET that overlaps saves never mixes the rows of two of them within one table, nor activities with the days of another. |
| `ItineraryStore` | `TransactionsAreAtomic` (`SavesAreAtomic`) | The transactions implement AggregateStore: each step of theirs saves, replaces or deletes one itinerary as one thing, or changes nothing that is committed. |
| `EmailDelivery` | `TypeSafety` | Messages, runs, mails and the holding queue keep their types, and a message is delivered at most twice and once more per loss or crash. |
| `EmailDelivery` | `MessagesLeaveDone` (`LeavesOnlyDoneOrPoison`) | However runs outlive their connections, a message leaves its queue by the run of its last delivery, and unfinished only as poison. |
| `EmailDelivery` | `DuplicatesAreRedeliveries` (`DuplicatesNeedRedelivery`) | However many runs of a message overlap, nobody is mailed more often than it was delivered. |
| `EmailDelivery` | `RemindersFollow` (`ReminderAfterConfirmation`) | Each reminder has a confirmation of its own to everybody before it, and none leaves the holding queue earlier than Lead before the trip. |
| `LazyPublisher` | `TypeSafety` | The shared connection and every publisher, attempt and outcome of it keep their types. |
| `LazyPublisher` | `PendingStaysOwned` (`PendingIsOwned`) | However many publishes race with failures and a shutdown, whatever is awaited is pending, and each pending attempt has exactly one publish that made it and waits for it: a failure is never cached. |
| `LazyPublisher` | `DropsStayOwn` (`DropsAreOwnFailures`) | A publish that waits for a connection drops its event only for the failure of the attempt that it made itself, never for that of another publish. |
| `RequestPages` | `TypeSafety` | Every tier keeps its type: the steps of a handler run out and never grow, whatever the gateway, the services and the pages do. |
| `RequestPages` | `AuditIsTrue` (`AuditTrailTrue`) | Every answer of the model has its audit row, in order, unless the INSERT itself failed, for every number of requests, endpoints, time-outs and crashes. |
| `RequestPages` | `MessagesAreHonest` (`MessageIsHonest`) | What the itinerary page says of its plan is what happened in gemini-service, though a timed-out plan may never have been begun there, or be begun later; and a mount sends one plan at most. |
| `RequestPages` | `ExportsAreRecorded` (`ExportIsRecorded`) | An answered PDF export has its row, a row its object, and the object is the PDF of that row or of an export that shares its millisecond. |
| `AccountPages` | `TypeSafety` | The cookies, the two tables, the pages and their requests keep their types, the foreign key of the preferences included. |
| `AccountPages` | `ExchangesFit` (`ExchangeFitsItsStart`) | However many tabs sign in at once, a callback that the state admits carries the verifier and the page of its own start. |
| `AccountPages` | `FailuresExplained` (`FailuresAreExplained`) | The callback refuses a sign-in only after the cookies of its start have expired, been completed, signed out or overwritten. |
| `AccountPages` | `FormsAgree` (`FormsAgreeWithTheAccount`) | A save by the user of AuthContext finds the row that the foreign key needs, and a box that stays checked has filled its form. |
| `AccountPages` | `NamesAreKept` (`NameNeverForgotten`) | No sequence of tokens with and without a name claim replaces a name by the placeholder. |
| `AccountPages` | `PreferencesAreKept` (`PreferencesKept`) | A save loses what a user had stored only from a form that had not loaded it, whatever the tabs do to the session meanwhile. |
| `Pages` | `FormTypeSafety` | The inputs of the planning form keep their types, its dates, budgets and codes within their ranges. |
| `Pages` | `PlansAreCoherent` (`PlanIsCoherent`) | Whatever is typed, selected, checked, cleared and answered late before the button is pressed, the plan asked for has codes of its own countries, dates in order and a range or the stored budgets. |
| `Pages` | `TripTypeSafety` | The trips, tabs, requests and dialogs keep their types, however many pages write back what they had read. |
| `Pages` | `StaysStay` (`StaysAreKept`) | With any number of tabs, a stay leaves a trip only when it is the one whose removal was confirmed, or under a write of somebody who had not seen it: a removal never costs the stays next to it. |
| `Pages` | `DragsSurvive` (`DragSurvivesReload`) | However many activities a day has and however often they are dragged, saved, restored and read in any number of tabs, the order in the tables is that of the times, with every activity that was planned: the page of the saved trip shows what was dragged. |
| `Pages` | `GroupsTypeSafety` | The requests of the groups page, its list, its panel and its doubts keep their types for every number of groups, members and requests. |
| `Pages` | `ListsAreTrue` (`ListIsTrue`) | However loads, patches, failures and changes by other people overlap, once nothing is under way the list shows each group that is not in doubt once and as it is, or not at all. |
| `Pages` | `AnswerTypeSafety` | The forecast and the flights, as they were answered and as they are held, keep their types. |
| `Pages` | `AnswersAreWhole` (`AnswerShownWhole`) | For every forecast and list of offers, however often it is normalised: the days that are shown are those of the model, in its order, with its temperature or the high of its range, and of flights whose legs are all written in hours and minutes the shorter comes first. |

### BrokerAdapter_proofs

For every set of attempts and of queues and every number of outages. `TypeCorrect`
and `SilencersCorrect` assume nothing of RabbitMQ; `close()` takes back one timer
if `reconnectTimer` refers to one, so `timers \in Nat` needs `timerRef => timers > 0`
next to the types (`TypeInv`). The other four have the form `Undisturbed => ...`;
without the premise they are false (section 6): it is where the code's guarantee
ends.

None of these four is inductive. `Undisturbed => SupervisionInv` is: `LoopInv` says
that an attempt in flight, an armed timer and a published channel exclude each other
and that the flags mirror them exactly; `ConnectionInv` says which sockets exist in
which phase; `CallerInv` says what the caller of `createBroker()` may rely on.
`LoopStep`, `ConnectionStep`, `ConsumerStep` and `CallerStep` prove that each is kept,
one step per action, and the theorems follow from their conjunction. `ConsumerInv` is
about order: each connection has gone through a first part of the registry, the
published one through all of it, and the registry is what was granted
(`ReplayKeepsOrder`, `ReplyKeepsOrder`); `ConsumersFollowGrants` needs that and
`FullReplay`. `FaultsGrow` says that what was disturbed stays so.

`AdapterImplementsLink` is `Spec /\ []Undisturbed => ImplementsLink`. `LinkStep` shows
that every step of the adapter is a step of `ServiceLink` under the mapping or
leaves its variables unchanged, with `SupervisionInv` before and after the step.

### EmailDelivery_proofs

For any number of events, recipients, losses and SMTP failures. What makes the
counting properties hard is that a run goes on after its connection is lost, so
that several runs of one message mail at the same time. `RowInv` keeps the account
of each message: `Delivered` bounds its deliveries by the losses; `Mailed` says that
a recipient was mailed by every run that went beyond it or parked a reminder, and
that the mails so far with the runs that have yet to mail it are no more than the
deliveries (`Past`, `Pending`, counted as cardinalities of sets of runs); `Row` that
a run which has parked its reminder is over (`Parked`); and `Settled` that a message
which has left its queue is complete or failed after a redelivery.
`QueueInv` says that `reminders.waiting` has each reminder once and none due
earlier than the lead allows. The lemmas about `Past` and `Pending` say what
setting one run's step does to the two cardinalities.

### LazyPublisher_proofs

For any finite sets of publishers and attempts. `PendingIsOwned` counts the owners
of a pending attempt. What is inductive says where an owner is and that there
are not two: `OwnersWait`, `PendingHasOwner`, `OneOwner`, with `ReferenceOK` (what
`brokerAttempt` may refer to) and `AwaitedIsPending`. The hard step is the failure of
a shared promise, where every one that had joined calls `connectBroker()` in turn:
`FailureHandsOut` states what the action hands out, an unused attempt to each
joiner by an injection. That such an injection exists when there are enough
attempts is `InjectionExists`, and is why the sets are finite.

### ItineraryStore_proofs

For any finite set of requests, any payloads and any pool. The invariant is about
row locks: `Progress` says what a transaction has deleted and inserted at each
statement, `Exclusive` that no two transactions have changed the rows of one
itinerary, `Way` what is known of a request by the statement that it is at. From these,
`DbInv`: each committed aggregate is one payload or nothing (`DbWhole`), and every
committed row is from a save that has ended in a commit (`DbSigned`). `ReadInv` says
which tables a GET has read at each statement, and that rows of related tables
are of one save.
`MappingFrame` and `MappingWhole` say what the refinement mapping sees of a step:
nothing unless it commits, and a whole aggregate when it does. With them
`AggregateStep` shows that each step is a step of `AggregateStore` or a stutter, and
`TransactionsAreAtomic` follows. `PoolInv` adds the bound of `TypeOK` on the clients
in use: a client is taken only when one is free and kept to the last statement.

### ToolsGroups_proofs

For any number of requests, users and addresses. `TypeOK` needs that an
invitation on its way has an address (`AddressOK`). `TokenSpentOnce` speaks of joins
that have won only; `TokenInv` adds that a token is the key of one row, that the
token of a winning join is in no row any more, and that nobody can hold the token
of an invitation that was not inserted (`Unissued`), so that no later row can bring
a spent token back. `HistoryInv` says that a group that anybody names has had its
owner, so that no deletion can be followed by a creation of the same id, and that
a request which has not begun has left nothing. `InviteInv` follows an invitation
from its INSERT to its mail: its row is there unless it was redeemed or its group
is gone. `ShareInv` says that whoever is a joined member has joined at some time,
that an audience consists of such, and that the row of a share precedes its mail.
`LinkInv` adds that it precedes the answer too, and that a link which somebody holds
finds its row (`SharesKeepTokens`: deleting the group leaves the token), so that only a
deleted trip is left as the reason for a 404.
The actions that leave the rows alone are reduced to two cases, a request that
goes on and one that arrives; the rest are proved one by one.

### RequestPages_proofs

For any number of requests and mounts, and over the steps of `Gateway`,
`GeminiService`, `ExportPdf` and the pages together. The invariant is one predicate
per request for each tier: how far the handler is in its `Work` (`OnTrack`), what it
has audited by then (`AuditedAt`), what its reply says of a plan (`PlanAt`), what the
browser was told (`AnswerAt`), what a mount shows (`ShownAt`), and how far an export
is (`ExportAt`, `KeyHolds`: the object before the row). `Paired` is a fact about the
constant `Work`: each generation is followed by its audit and nothing else is. Each
step is put into one of few kinds first (`Exchanges`, `Handled`, `Serves`), so that
the tiers that it does not touch are dealt with once. Nothing is claimed of the
handler behind a timeout: it may be queued, working, over or not there at all.

### AccountPages_proofs

For any number of tabs, users and starts, and over the steps of `WebSignIn`,
`AuthService` and the pages together. `ExchangeFitsItsStart` needs that the three
cookies are of one start, the newest (`JarFits`), and that no two tabs have the same
start (`StartsDiffer`); `FailuresAreExplained` that a start whose cookies are not in
the jar has lost them for a recorded reason (`LossesExplained`).
`FormsAgreeWithTheAccount` and `PreferencesKept` need, tab by tab, that a form has what
it was given or what was typed since (`Stems`), for the user for whom it was loaded,
and that the party size goes with the travel type in every row and every request
(`Matched`).

### Pages_proofs

For any number of countries, days and amounts; of tabs, trips, activities and writes;
of groups, members and requests; and for any forecast and offers.

`PlanIsCoherent` is a fact about the moment of the button; what holds all the time is
weaker and says why it will do: a code is always that of the country named
(`CodeFits`), and the budgets are a range, or the stored ones, or about to be
corrected when the focus leaves the maximum (`BudgetsFit`, which needs that nobody
types while the box is checked). The dates are left to what the browser checks.

`StaysAreKept` is an action property and follows from what every reader knows:
whoever has read a trip, page, request or dialog, has each of its stays whose
row is no newer than what it read (`KeptBy`). A write makes every row newer than what
anybody has read, a removal only takes rows away (`Evolved`), and so what a reader
knows stays good (`KeptLasts`); a write therefore loses only stays whose rows are newer
than its own reading and which are not among what it had read (`WriteLoses`). All
stays of one write have the same `row`; it is `row` and `added` together that name one.

`DragSurvivesReload` says that sorting a day of a saved trip by its times changes
nothing, and that its activities are those of a plan, and as many. What is inductive
is `DaysOK`: wherever a day is, in the tables, on a page, in a request under way or in
a dialog (`SavedOK`, `ShownOK`, `SentOK`, `ReadOK`), it has the activities of a plan,
and if it has been saved after a drag, its times ascend; and a page that shows a day
knows the time of each of its places (`SlotsOf`). A drag moves activities and leaves
the times where they are (`DragRetimes`, over `MovedPlaces`: where each activity was
before), so that a timeline that was in order stays so (`SameTimes`), and sorting what
is in order is the identity (`ByTimeSorts`). The drags that a plan sees before it is
saved may leave it unsorted; the page of the saved trip sorts it before the first
drag.

`AnswerShownWhole` needs what a normalised forecast is: for each dated day of the
model one row with its date and its high, and with its low or none (`Renders`).
Normalising such rows drops none and gives such rows again, so that it does not matter
how often it is done, by which page, before or after the table. "Or none" is no
licence: that the low may vanish is the finding of `RangeLosesLow`. That the shorter
flight comes first is the order of `Arrangement`, below.

`ListIsTrue` is about the moment when all is quiet. The inductive `GroupsInv` says
what holds in between. For each group that is not in doubt, `Right` is a case
distinction over what is on its way: the list tells the truth, or the answer to a
creation, an invitation, a deletion or a join of this group is there and the list is
wrong by exactly the patch that this answer will make. It is not required while a load
is under way (`Settled`): then `LoadOK` says that what the load brings is true of all
groups that it does not doubt, and that no request of the page is changing one of
these, so that the list is right when the load is heard. `RequestOK` says what the
page may ask for: groups that exist, its own for an invitation or a deletion, others'
for a join. `UsageOK` keeps the id of a group that is yet to be created off the page.
Nearly every step is about one group, and `OneGroup` reduces it to that group;
`InDoubt` does the same for the steps that put a group in doubt. What the patches do
to the list is in `PrependedCard`, `PatchedCard` and `DroppedCard`: they say of each
group whether the list still shows it once, and leave all other groups alike.

All three rest on the lemmas about lists. `EarlierExact` is the main one: for a strict
order on the kept places, the number of places before a place is a bijection to `0..(n
- 1)`, by comparing cardinalities of sets, so that the `CHOOSE` in `Arranged` has one
witness; `Arrangement` states that each kept element comes once and in order, and
`InPlace` that a list in order is left as it is.

### Assumptions

The only assumptions are the `ASSUME`s of the modules, on the constants; TLC
evaluates them in each run. Most say that a bound is a natural number and that
"none" is not one of the things. The others are facts of the code or of how it is
run: finitely many publishers, attempts and requests (`PublisherAssumption`,
`StoreAssumption`: a process that has run for a finite time has made finitely many
calls); a clock that starts after 0 (`ExportAssumption`, `Date.now()`); a POST creates
its own itinerary and only what a POST creates is a request's name
(`StoreAssumption`: ids are generated, `itineraryRepository.ts`); a reminder is not an
event (`NamesAssumption`: they travel in different queues); recipients are a
sequence (`DeliveryAssumption`); there are at most as many trips as writes
(`TripAssumption`: a trip exists only once it was written), and a plan is a list of
activities whose times can be read (the prompt asks for them in the format that
`parseTime` reads); a group has a first revision, and the page is mounted once
(`GroupsAssumption`: the bounds are not 0); a day of a forecast has the four fields
that the normalisation looks at (`AnswerAssumption`); there is at least one day
to plan for (`FormAssumption`: today).

### Only model-checked

- Liveness: `ConsumersResume`, `ClosedSettles`, `EveryMessageSettles`,
  `EveryPublishSettles`, `EveryRequestAnswered`, `PagesSettle`. Fairness and ENABLED
  are out of the provers' reach.
- The four runs that end in a violation have nothing to prove.

No module uses a RECURSIVE operator.

## 6. Where the code and its comments disagree

Four of these end a run in a violation of the property named; the others were
met while modelling, can be followed in the models, and are quoted in
`PROJECT.json` under "findings".

| Run | What the code does |
|---|---|
| BrokerSilentlyDead | a connection that dies just before it is stored is stored as live and nothing reconnects (broker.ts:24-26, 246) |
| EmailReminderLost | a redelivered itinerary.created that finds no channel is dropped, its reminder lost (broker.ts:293-297) |
| PublisherLeaks | publishes that shared a failed attempt each open a connection, shutdown closes one (itineraryCreatedPublisher.ts:26, 57) |
| RangeLosesLow | the low of a range of temperatures is lost when a forecast is normalised again, which the timeline always does (dto/gemini.ts:68, DailyWeatherItem.tsx:23, ItineraryTimeline.tsx:422-424) |
| | the catch of a background attempt schedules another although shutDown is set (broker.ts:97, 236) |
| | close() while an attempt wires its channel leaves a live connection on a closed broker (broker.ts:193-194, 216) |
| | a channel error while wiring leads to two scheduled reconnects, one without a handle (broker.ts:93, 229) |
| | a createBroker() that throws may leave a background loop behind (broker.ts:178-181, 231) |
| | a message whose first delivery reached no handler is dropped at its first failure (handlers.ts:20-23) |
| | the retry of a batch mails the good addresses again (handlers.ts:80-82) |
| | a PUT of an unknown id commits and answers 404, nothing is rolled back (itineraryRepository.ts:217-219) |
| | a join or an invitation whose group is deleted before it is read again answers 200 or 201 with null (groups.routes.ts:74, 92) |
| | a GET of an itinerary is five statements without a transaction, and may mix two saves (itineraryRepository.ts:408-411, 421) |
| | a hotel may be added to the trip of another tab, or to the last one when the read of this one failed (HotelSearchResultCard.tsx:30) |
| | the end date stays the start date where the clocks go forward (ItineraryForm.tsx:210-217) |
| | the share panel keeps a group that was deleted (ShareItineraryPanel.tsx:61-67) |
| | the two generations of a plan are sequential (proxy.ts:33-34) |
| | "no plan" also appears for an answer that was cut off (itinerary/page.tsx:85-86) |
| | two exports in one millisecond share a key (export.routes.ts:55-57) |
| | a timeout is 504, not 502, and may also be an upstream that never accepted the connection (proxy.ts:11-12, 137-138) |
| | an unselected travel type stores a party of 1, not NULL (EditProfileForm.tsx:56-57, 73) |
| | no page sends PATCH /profile (profile.routes.ts:5-6) |

Met while modelling, and contradicted by no comment, so that the models have them
as behaviours and the properties allow for them:

- The callback that completes clears the cookies of a newer start in another tab.
- A save of the edit form whose load had failed, or was not yet there, stores the
  defaults; after another tab has switched the session it writes to that account.
- The planning form submits stored budgets upside down while the box is checked,
  and a late answer to the checkbox overrides what was typed after clearing it.
- A page of a stay that is reloaded may show the stay that another tab went to, and
  delete that one, of whatever trip.
- The form of the profile replaces a stored party size by the one that its list has for
  the travel type, and drops purposes that are no checkbox of it, such as the seeded
  "leisure" (EditProfileForm.tsx:94-104, 113-120).
- SaveItinerary may save a plan twice: the button is back after a lost answer. So is
  the dialog that adds a hotel. An update that is answered late leads away from
  the page that the reader is on by then.
- An update from a timeline that is old restores the stays that it had read and
  drops those that it had not.
- A group that is joined, created or deleted while a load is under way may be
  shown twice or stale until the next load.
- A leg that Amadeus writes with days sorts as if it took no time, while the other leg
  of the flight counts; one offer without its fare
  details fails the whole search; an older hotel search may overwrite a newer one.

Properties that have such an exception say less than the hazard they were written for.
`PreferencesKept` says nothing of a form that had not loaded, `ListIsTrue` nothing of
a group that is in doubt until the next load, `StaysAreKept` nothing of what the
writer had not read, `TablesDoNotMix` nothing of demographics next to hotels,
`PlanIsCoherent` nothing of stored budgets (in spite of the warning of
ItineraryForm.tsx:341). What they keep is the rest: the round trip of a form, the
patches that overlap, the stays that were seen, and those next to a removed one. Each
exception is something that the code does, as listed above or in the table.

Also known, and not expressible as a property of this code: a parked reminder is
a copy of its event, and editing or deleting the itinerary neither moves nor
cancels it.

## 7. Not modelled

- The text and layout of mails, PDFs and pages, logging, health pages, the
  prompts.
- The length of back-off delays and of the limiter's window, token cryptography,
  the dev token, the copying of headers and bodies by the proxy.
- The mock of the api-client (a test double), the DTO schemas beyond the answers
  that they refuse, generated and vendored code, terraform, compose and CI.
- Of the itinerary store: the list of a user's itineraries, one SELECT; the
  mapping of rows to JSON.
- Of groups and shares: the GETs of tools-service but the one that opens a link, which
  change nothing, and the bodies of answers. One itinerary stands for all that are
  shared.
- A start date that cannot be read (`reminderDelayMs` then sends the reminder at once):
  a trip that starts at 0 has the same delay of 0, and stands for it.
- Reference lists that come back empty: `RequestPages` takes them to have entries, as
  the sources of the two lists do. The form page waits on for an empty one, with no
  further request (plan-itinerary/page.tsx:64), so `PagesSettle` rests on this.
- The purposes of a trip in the preferences, see section 6.
- The time of an activity that `parseTime` cannot read: the page then compares NaN,
  and the language leaves the order open.
- Of the pages: home page, header, carousel and other presentation; the interests
  in the forms; a second deletion of a group while the first is under way, which is
  answered 404; activities of more than one day of a trip, each of which is
  dragged within its own day.
- `TripPages` and `GroupsPage` take a request to be served at once: what is
  between the statements of a service is the subject of `ItineraryStore` and
  `ToolsGroups`, and the composition of both would repeat it.

## 8. Plan

Few runs that ask much are worth more than many; the runs and their properties
are complete unless the code changes.

1. Done: `BrokerAdapter`, `ServiceLink` and the refinement; `EmailDelivery`;
   `LazyPublisher`; `ItineraryStore` and `AggregateStore`; `ToolsGroups`. Every
   safety property that their runs check is proved, and both refinements.
2. Done: the gateway, gemini-service, the export and the pages that wait for them;
   sign-in, accounts and preferences; trips, groups, the planning form and the
   answer to a plan. Every safety property that their runs check is proved, the
   sorted and patched lists of the pages included.
3. Left: liveness, which stays with TLC, and section 7.
