------------------------------ MODULE TripPages ------------------------------
(***************************************************************************)
(* The pages around a saved trip, in several tabs of a signed-in reader:   *)
(* the timeline of a fresh plan or of a saved trip, whose activities can   *)
(* be dragged, the hotel pages that add a stay and remove one, and the     *)
(* profile, which lists and deletes trips.  There is no endpoint to add a  *)
(* stay or to move an activity: the pages write back the whole aggregate   *)
(* that they have read.  itinerary-service answers each request at once    *)
(* here; ItineraryStore shows what lies behind its answers.                *)
(***************************************************************************)
EXTENDS Naturals, SequencesExt, Lists

CONSTANTS
  Tabs,
  MaxTrips,     \* bound: trips that are ever saved
  MaxVisits,    \* bound: pages that are opened
  Hotels,       \* the hotels that can be added
  Plans,        \* days that the model plans: activities with their times
  None,
  MaxWrites,    \* bound: aggregates written
  MaxDrags,     \* bound: drags
  MaxTroubles   \* bound: requests that fail

\* An activity of a day, and the time at which it starts.
Activities == [act : STRING, at : Nat]

ASSUME TripAssumption ==
  /\ MaxTrips \in Nat /\ MaxWrites \in Nat /\ MaxTrips <= MaxWrites
  /\ MaxVisits \in Nat /\ MaxDrags \in Nat /\ MaxTroubles \in Nat
  /\ Plans \subseteq Seq(Activities)

VARIABLES
  saved,        \* the aggregate of each trip, or None
  tab,          \* the page in each tab
  writing,      \* the save or update that a timeline has under way
  dialog,       \* the dialog that confirms, and then does, one change
  remembered,   \* the trip in the local storage, which the tabs share
  shown,        \* the stays that the details may be of which it holds
  created,      \* the id of the last trip
  writes, drags, visits, troubles

bounds   == <<drags, visits, troubles>>
storage  == <<remembered, shown>>
tripVars == <<saved, tab, writing, dialog, storage, created, writes, bounds>>

Trips == 1..MaxTrips
Views == {"profile", "plan", "loading", "missing", "timeline", "hotels", "detail"}

\* A stay is a row, which every write of the aggregate makes anew; added is the
\* write that brought the stay, and read the one that a page has read.
Stays == [hotel : Hotels, row : 0..MaxWrites, added : 0..MaxWrites]

Empty  == [view |-> "profile", trip |-> None, day |-> <<>>, slots |-> <<>>,
           stays |-> {}, read |-> 0, changed |-> FALSE, stay |-> None, card |-> None]
Silent == [leg |-> "idle", trip |-> None, day |-> <<>>, stays |-> {}, read |-> 0]
Closed == [leg |-> "closed", does |-> None, trip |-> None, what |-> None,
           day |-> <<>>, stays |-> {}, read |-> 0, dragged |-> FALSE]

\* What is in each tab and in the tables.
TripTypeOK ==
  /\ \A id \in Trips : saved[id] # None =>
       saved[id].stays \subseteq Stays /\ saved[id].version \in 1..MaxWrites
  /\ \A t \in Tabs :
       /\ tab[t].view \in Views /\ tab[t].stays \subseteq Stays
       /\ tab[t].card \in {None} \cup Trips
       /\ writing[t].leg \in {"idle", "sent", "served", "failed", "left"}
       /\ dialog[t].leg \in {"closed", "asking", "reading", "read", "served"}
  /\ remembered \in {None} \cup Trips /\ shown \subseteq Stays
  /\ created \in 0..MaxTrips /\ writes \in 0..MaxWrites /\ drags \in 0..MaxDrags
  /\ visits \in 0..MaxVisits /\ troubles \in 0..MaxTroubles

\* Nothing is saved yet, or every trip is, with the same plan.
TripInit ==
  /\ created \in {0, MaxTrips}
  /\ writes = created
  /\ \E p \in Plans :
       saved = [id \in Trips |-> IF id <= created
         THEN [day |-> p, stays |-> {}, version |-> id, dragged |-> FALSE] ELSE None]
  /\ tab = [t \in Tabs |-> Empty]
  /\ writing = [t \in Tabs |-> Silent]
  /\ dialog = [t \in Tabs |-> Closed]
  /\ remembered = None /\ shown = {}
  /\ drags = 0 /\ visits = 0 /\ troubles = 0

-----------------------------------------------------------------------------
\* POST: the trip gets the next id.  PUT: the children are replaced, so that
\* every stay gets a new row.
Inserted(stays, version) == {[s EXCEPT !.row = version] : s \in stays}

Write(id, day, stays, dragged) ==
  /\ writes < MaxWrites
  /\ writes' = writes + 1
  /\ saved' = [saved EXCEPT ![id] =
       [day |-> day, stays |-> Inserted(stays, writes + 1), version |-> writes + 1,
        dragged |-> dragged]]

Visit ==
  /\ visits < MaxVisits
  /\ visits' = visits + 1
  /\ UNCHANGED <<drags, troubles>>

Trouble ==
  /\ troubles < MaxTroubles
  /\ troubles' = troubles + 1
  /\ UNCHANGED <<drags, visits>>

\* The page of the generated plan: a navigation inside the app, which stops no
\* request.
OpenPlan(t, p) ==
  /\ dialog[t].leg = "closed"
  /\ Visit
  /\ tab' = [tab EXCEPT ![t] = [Empty EXCEPT !.view = "plan", !.day = p,
               !.slots = [i \in DOMAIN p |-> p[i].at]]]
  /\ UNCHANGED <<saved, writing, dialog, storage, created, writes>>

\* A new document: nobody hears of the request under way.
NewDocument(t) ==
  /\ dialog[t].leg = "closed"
  /\ writing[t].leg # "left"
  /\ Visit
  /\ writing' = [writing EXCEPT ![t] = IF @.leg = "sent" THEN [@ EXCEPT !.leg = "left"] ELSE Silent]

\* The link to a trip in the profile's list, which may be older than the trip's
\* deletion.
OpenTrip(t, id) ==
  /\ NewDocument(t)
  /\ tab' = [tab EXCEPT ![t] = [Empty EXCEPT !.view = "loading", !.trip = id]]
  /\ UNCHANGED <<saved, dialog, storage, created, writes>>

\* The page of a saved trip sorts each day by the start of its activities.
ByTime(day) == StableSort(day, LAMBDA a, b : a.at < b.at)

TripLoaded(t) ==
  LET id  == tab[t].trip
      day == ByTime(saved[id].day)
  IN  /\ tab[t].view = "loading"
      /\ tab' = [tab EXCEPT ![t] =
           IF saved[id] = None THEN [@ EXCEPT !.view = "missing"]
           ELSE [@ EXCEPT !.view = "timeline", !.day = day,
                   !.slots = [i \in DOMAIN day |-> day[i].at],
                   !.stays = saved[id].stays, !.read = saved[id].version]]
      /\ UNCHANGED <<saved, writing, dialog, storage, created, writes, bounds>>

LoadFails(t) ==
  /\ tab[t].view = "loading"
  /\ Trouble
  /\ tab' = [tab EXCEPT ![t].view = "missing"]
  /\ UNCHANGED <<saved, writing, dialog, storage, created, writes>>

-----------------------------------------------------------------------------
Moved(day, i, j) == InsertAt(RemoveAt(day, i), j, day[i])

\* Mutant: an activity takes its time along.
RetimedNot(day, slots) == day

\* handleDragEnd: the place has its time, and the activity takes it over.
Retimed(day, slots) ==
  [k \in DOMAIN day |->
     IF k \in DOMAIN slots THEN [day[k] EXCEPT !.at = slots[k]] ELSE day[k]]

Drag(t, i, j) ==
  /\ tab[t].view \in {"plan", "timeline"}
  /\ {i, j} \subseteq DOMAIN tab[t].day
  /\ i # j
  /\ drags < MaxDrags
  /\ drags' = drags + 1
  /\ UNCHANGED <<visits, troubles>>
  /\ tab' = [tab EXCEPT ![t].day = Retimed(Moved(@, i, j), tab[t].slots),
                        ![t].changed = TRUE]
  /\ UNCHANGED <<saved, writing, dialog, storage, created, writes>>

\* The button: SaveItinerary for a plan, UpdateItinerary for a saved trip.
SendWrite(t) ==
  /\ \/ tab[t].view = "plan"
     \/ tab[t].view = "timeline" /\ tab[t].changed
  /\ writing[t].leg = "idle"
  /\ writing' = [writing EXCEPT ![t] = [leg |-> "sent", trip |-> tab[t].trip,
       day |-> tab[t].day, stays |-> tab[t].stays, read |-> tab[t].read]]
  /\ UNCHANGED <<saved, tab, dialog, storage, created, writes, bounds>>

WriteServed(t) ==
  LET w == writing[t]
      answered == [writing EXCEPT ![t] = IF w.leg = "left" THEN Silent ELSE [w EXCEPT !.leg = "served"]]
  IN  /\ w.leg \in {"sent", "left"}
      /\ \/ /\ w.trip = None
            /\ created < MaxTrips
            /\ created' = created + 1
            /\ Write(created + 1, w.day, w.stays, FALSE)
            /\ writing' = answered
         \/ /\ w.trip # None /\ saved[w.trip] # None
            /\ Write(w.trip, w.day, w.stays, TRUE)
            /\ UNCHANGED created
            /\ writing' = answered
         \/ /\ w.trip # None /\ saved[w.trip] = None
            /\ writing' = [answered EXCEPT ![t].leg = IF w.leg = "left" THEN "idle" ELSE "failed"]
            /\ UNCHANGED <<saved, created, writes>>
      /\ UNCHANGED <<tab, dialog, storage, bounds>>

\* The request gets lost, or its answer does.
WriteFails(t) ==
  /\ writing[t].leg \in {"sent", "served", "left"}
  /\ Trouble
  /\ writing' = [writing EXCEPT ![t] =
       IF @.leg = "left" THEN Silent ELSE [@ EXCEPT !.leg = "failed"]]
  /\ UNCHANGED <<saved, tab, dialog, storage, created, writes>>

\* The continuation leads to the profile, from whatever page the reader has
\* gone to meanwhile; a failure is an alert.  Either way the button is back.
WriteArrives(t) ==
  /\ writing[t].leg \in {"served", "failed"}
  /\ tab' = [tab EXCEPT ![t] = IF writing[t].leg = "served" THEN Empty ELSE @]
  /\ writing' = [writing EXCEPT ![t] = Silent]
  /\ UNCHANGED <<saved, dialog, storage, created, writes, bounds>>

-----------------------------------------------------------------------------
\* From the timeline to the hotel pages; a drag that was not saved is gone.
GoToHotels(t) ==
  /\ tab[t].view = "timeline"
  /\ Visit
  /\ tab' = [tab EXCEPT ![t] = [Empty EXCEPT !.view = "hotels", !.trip = tab[t].trip]]
  /\ UNCHANGED <<saved, writing, dialog, storage, created, writes>>

GoToStay(t, s) ==
  /\ tab[t].view = "timeline"
  /\ s \in tab[t].stays
  /\ Visit
  /\ tab' = [tab EXCEPT ![t] = [Empty EXCEPT !.view = "detail", !.trip = tab[t].trip,
                                  !.stay = s]]
  /\ shown' = shown \cup {s}
  /\ UNCHANGED <<saved, writing, dialog, remembered, created, writes>>

\* When the page of a stay is reloaded, the local storage tells whose details it
\* shows: those that the last tab to write its store there had, of any stay that
\* was ever gone to, of this trip or another.
ReloadStay(t, s) ==
  /\ tab[t].view = "detail"
  /\ s \in shown
  /\ NewDocument(t)
  /\ tab' = [tab EXCEPT ![t].stay = s]
  /\ UNCHANGED <<saved, dialog, storage, created, writes>>

\* HotelSuggestion reads the trip of its address and keeps it in the local
\* storage; the cards with the hotels take the trip that is there when they
\* render, whoever has put it there.
SuggestionRead(t) ==
  /\ tab[t].view = "hotels" /\ tab[t].read = 0
  /\ saved[tab[t].trip] # None
  /\ tab' = [tab EXCEPT ![t].read = saved[tab[t].trip].version]
  /\ remembered' = tab[t].trip
  /\ UNCHANGED <<saved, writing, dialog, shown, created, writes, bounds>>

CardsRendered(t) ==
  /\ tab[t].view = "hotels" /\ tab[t].card # remembered
  /\ tab' = [tab EXCEPT ![t].card = remembered]
  /\ UNCHANGED <<saved, writing, dialog, storage, created, writes, bounds>>

\* A dialog asks: add this hotel, remove this stay, delete this trip.
Ask(t, does, trip, what) ==
  /\ dialog[t].leg = "closed"
  /\ dialog' = [dialog EXCEPT ![t] =
       [Closed EXCEPT !.leg = "asking", !.does = does, !.trip = trip, !.what = what]]
  /\ UNCHANGED <<saved, tab, writing, storage, created, writes, bounds>>

AskToAdd(t, h)       == tab[t].card # None /\ Ask(t, "add", tab[t].card, h)
AskToRemove(t)       == tab[t].view = "detail" /\ Ask(t, "remove", tab[t].trip, tab[t].stay)
AskToDelete(t, id)   == tab[t].view = "profile" /\ Ask(t, "delete", id, None)

\* "No", and also after the message of a failure.
Dismiss(t) ==
  /\ dialog[t].leg = "asking"
  /\ dialog' = [dialog EXCEPT ![t] = Closed]
  /\ UNCHANGED <<saved, tab, writing, storage, created, writes, bounds>>

\* Mutant: the list of stays is replaced by the new one.
WithStayAlone(stays, h, version) == {[hotel |-> h, row |-> 0, added |-> version]}

\* addHotelToItinerary: the stays that were read, and the new one.
WithStay(stays, h, version) == stays \cup {[hotel |-> h, row |-> 0, added |-> version]}

\* A confirmed addition reads the trip first ...
ReadForStay(t) ==
  LET d == dialog[t] IN
  /\ d.leg = "asking" /\ d.does = "add"
  /\ saved[d.trip] # None
  /\ dialog' = [dialog EXCEPT ![t] = [@ EXCEPT !.leg = "read", !.read = saved[d.trip].version,
       !.day = saved[d.trip].day, !.stays = saved[d.trip].stays,
       !.dragged = saved[d.trip].dragged]]
  /\ UNCHANGED <<saved, tab, writing, storage, created, writes, bounds>>

\* ... and then writes it; if it has been deleted, the message is shown.
AddStay(t) ==
  LET d == dialog[t] IN
  /\ d.leg = "read"
  /\ IF saved[d.trip] # None
     THEN /\ Write(d.trip, d.day, WithStay(d.stays, d.what, writes + 1), d.dragged)
          /\ dialog' = [dialog EXCEPT ![t].leg = "served"]
     ELSE /\ dialog' = [dialog EXCEPT ![t].leg = "asking"]
          /\ UNCHANGED <<saved, writes>>
  /\ UNCHANGED <<tab, writing, storage, created, bounds>>

\* DELETE of the row of a stay, whatever trip it is of: the row is gone after any
\* write of that trip.
RemoveStay(t) ==
  LET d == dialog[t] IN
  /\ d.leg = "asking" /\ d.does = "remove"
  /\ \E id \in {i \in Trips : saved[i] # None} : \E s \in saved[id].stays :
       /\ s.row = d.what.row /\ s.added = d.what.added
       /\ saved' = [saved EXCEPT ![id].stays = @ \ {s}]
  /\ dialog' = [dialog EXCEPT ![t].leg = "served"]
  /\ UNCHANGED <<tab, writing, storage, created, writes, bounds>>

DeleteTrip(t) ==
  LET d == dialog[t] IN
  /\ d.leg = "asking" /\ d.does = "delete"
  /\ saved[d.trip] # None
  /\ saved' = [saved EXCEPT ![d.trip] = None]
  /\ dialog' = [dialog EXCEPT ![t].leg = "served"]
  /\ UNCHANGED <<tab, writing, storage, created, writes, bounds>>

\* The answer of a change gets lost: the dialog shows a message and stays open.
DialogFails(t) ==
  /\ dialog[t].leg \in {"read", "served"}
  /\ Trouble
  /\ dialog' = [dialog EXCEPT ![t].leg = "asking"]
  /\ UNCHANGED <<saved, tab, writing, storage, created, writes>>

\* A change that worked leads back to the trip, or to the profile.
DialogDone(t) ==
  LET d == dialog[t] IN
  /\ d.leg = "served"
  /\ dialog' = [dialog EXCEPT ![t] = Closed]
  /\ tab' = [tab EXCEPT ![t] = IF d.does = "delete" THEN Empty
                               ELSE [Empty EXCEPT !.view = "loading", !.trip = d.trip]]
  /\ UNCHANGED <<saved, writing, storage, created, writes, bounds>>

-----------------------------------------------------------------------------
Dialogs(t) ==
  \/ \E h \in Hotels : AskToAdd(t, h)
  \/ AskToRemove(t)
  \/ \E id \in 1..created : AskToDelete(t, id)
  \/ Dismiss(t) \/ ReadForStay(t) \/ AddStay(t) \/ RemoveStay(t) \/ DeleteTrip(t)
  \/ DialogFails(t) \/ DialogDone(t)

TripStep(t) ==
  \/ \E p \in Plans : OpenPlan(t, p)
  \/ \E id \in 1..created : OpenTrip(t, id)
  \/ TripLoaded(t) \/ LoadFails(t)
  \/ \E i, j \in DOMAIN tab[t].day : Drag(t, i, j)
  \/ SendWrite(t) \/ WriteServed(t) \/ WriteFails(t) \/ WriteArrives(t)
  \/ GoToHotels(t) \/ SuggestionRead(t) \/ CardsRendered(t)
  \/ \E s \in tab[t].stays : GoToStay(t, s)
  \/ \E s \in shown : ReloadStay(t, s)
  \/ Dialogs(t)

TripSpec == TripInit /\ [][\E t \in Tabs : TripStep(t)]_tripVars

-----------------------------------------------------------------------------
\* What the reader dragged is what the page shows after the update: the order
\* in the tables is the order of the times, by which the page of a saved trip
\* sorts, with every activity once, whatever else is written to the trip.
DragSurvivesReload ==
  \A id \in Trips : saved[id] # None /\ saved[id].dragged =>
    /\ ByTime(saved[id].day) = saved[id].day
    /\ \E p \in Plans :
         /\ Len(saved[id].day) = Len(p)
         /\ {saved[id].day[i].act : i \in DOMAIN saved[id].day} = {p[i].act : i \in DOMAIN p}

\* Whoever writes r back has not seen the stay s: neither is its row as old as
\* what was read, nor was it among the stays read, under an older row.
Unseen(r, s) == r.read < s.row /\ \A z \in r.stays : z.added # s.added

\* A stay disappears from a trip only when it is the very one whose removal was
\* confirmed, with the trip, or under a write of somebody who has not seen it:
\* with nobody else at work, adding a stay or saving a drag never costs one, and
\* a removal never costs the stays next to it.
StaysAreKept ==
  [][\A id \in Trips :
       saved[id] # None /\ saved'[id] # None =>
         \A s \in saved[id].stays :
           \/ \E z \in saved'[id].stays : z.added = s.added
           \/ \E t \in Tabs :
                \/ dialog[t].leg = "asking" /\ dialog[t].does = "remove"
                   /\ dialog[t].what.row = s.row /\ dialog[t].what.added = s.added
                   /\ dialog'[t].leg = "served"
                \/ dialog[t].leg = "read" /\ dialog[t].trip = id
                   /\ dialog'[t].leg = "served" /\ Unseen(dialog[t], s)
                \/ writing[t].leg \in {"sent", "left"} /\ writing[t].trip = id
                   /\ writing'[t].leg # writing[t].leg /\ Unseen(writing[t], s)]_tripVars

=============================================================================
