--------------------------- MODULE ItineraryStore ---------------------------
(***************************************************************************)
(* itinerary-service: the requests of itineraryRoutes.ts on the aggregate  *)
(* of itineraryRepository.ts (an itinerary row with its demographics,      *)
(* accommodation, days and activities), through withTransaction (db.ts).   *)
(*                                                                         *)
(* A step is one SQL statement; the INSERTs of one loop, which nobody else *)
(* sees before the commit, are one step.  PostgreSQL runs at its default,  *)
(* READ COMMITTED: a statement sees what is committed when it starts and   *)
(* what its own transaction did, and it waits for the rows that another    *)
(* transaction has changed.                                                *)
(*                                                                         *)
(* A payload is named after the request that brought it, and each row is   *)
(* labelled with the payload it was written from.                          *)
(***************************************************************************)
EXTENDS Naturals, FiniteSets

CONSTANTS
  Requests,
  Kind,         \* [Requests -> {"post", "put", "get", "delete", "deleteHotel"}]
  Target,       \* itinerary a request is about; that of a post is named after it
  Seed,         \* the itinerary of db/init, and its payload
  None,
  Hotels, Days, \* numbers of the hotels and days of a payload
  PoolSize,     \* clients of the database pool
  MaxStarted,   \* bound: how many of the requests are made
  MaxFaults     \* bound: statements that fail, commits whose reply is lost and
                \* crashes of the service

Itineraries == {Target[r] : r \in Requests} \cup {Seed}
Payloads    == Requests \cup {Seed}

ASSUME StoreAssumption ==
  /\ Kind \in [Requests -> {"post", "put", "get", "delete", "deleteHotel"}]
  /\ \A r \in Requests : Target[r] = r <=> Kind[r] = "post"
  /\ \A r \in Requests : Target[r] \in Requests =>
       Kind[Target[r]] = "post"
  /\ Seed \notin Requests /\ None \notin Payloads
  /\ IsFiniteSet(Requests)
  /\ PoolSize \in Nat \ {0} /\ MaxStarted \in Nat /\ MaxFaults \in Nat

VARIABLES
  db,        \* committed rows
  pc,        \* the statement each request is at
  deleted,   \* committed rows a transaction deleted or replaced: it locks them
  inserted,  \* rows a transaction wrote
  found,     \* the demographics row that upsertDemographics selected
  got,       \* rows that getItineraryAggregate has read
  unread,    \* days whose activities it has yet to read
  ended,     \* how a transaction ended
  answer,    \* HTTP status of each request
  events,    \* itinerary.created events published
  faults,
  crashed    \* the service crashed at least once

vars == <<db, pc, deleted, inserted, found, got, unread, ended, answer, events,
          faults, crashed>>

txVars   == <<deleted, inserted, found>>
readVars == <<got, unread>>

(* Rows.  `key` is the primary key within its table.                       *)
Row(table, i, key, p) == [table |-> table, of |-> i, key |-> key, by |-> p]

ItineraryRow(i, p)        == Row("itinerary", i, i, p)
DemographicsRow(i, id, p) == Row("demographics", i, id, p)
HotelRows(i, p)    == {Row("hotel", i, <<p, n>>, p) : n \in Hotels}
DayRows(i, p)      == {Row("day", i, <<p, n>>, p) : n \in Days}
ActivityRows(i, p) == {Row("activity", i, <<p, n>>, p) : n \in Days}

Of(rows, i, table) == {x \in rows : x.of = i /\ x.table = table}

Rows ==
  UNION {    {ItineraryRow(i, p)} \cup {DemographicsRow(i, id, p) : id \in Payloads}
        \cup HotelRows(i, p) \cup DayRows(i, p) \cup ActivityRows(i, p) :
        i \in Itineraries, p \in Payloads}

Transaction == {"row", "findDemographics", "writeDemographics", "dropHotels",
                "addHotels", "dropDays", "addDays", "commit"}
Reading     == {"getRow", "getDemographics", "getHotels", "getDays", "getActivities"}
Active      == Transaction \cup Reading \cup {"remove", "publish"}

TypeOK ==
  /\ db \in SUBSET Rows
  /\ pc \in [Requests -> Active \cup {"new", "done"}]
  /\ deleted \in [Requests -> SUBSET Rows]
  /\ inserted \in [Requests -> SUBSET Rows]
  /\ found \in [Requests -> Payloads \cup {None}]
  /\ got \in [Requests -> SUBSET Rows]
  /\ unread \in [Requests -> SUBSET Rows]
  /\ ended \in [Requests -> {"none", "commit", "rollback", "unknown"}]
  /\ answer \in [Requests -> {0, 200, 201, 404, 500}]
  /\ events \in SUBSET Requests
  /\ faults \in 0..MaxFaults /\ crashed \in BOOLEAN
  /\ Cardinality({r \in Requests : pc[r] \in Transaction \cup {"remove"}}) <= PoolSize

Init ==
  /\ db = {ItineraryRow(Seed, Seed), DemographicsRow(Seed, Seed, Seed)}
            \cup HotelRows(Seed, Seed) \cup DayRows(Seed, Seed) \cup ActivityRows(Seed, Seed)
  /\ pc = [r \in Requests |-> "new"]
  /\ deleted = [r \in Requests |-> {}]
  /\ inserted = [r \in Requests |-> {}]
  /\ found = [r \in Requests |-> None]
  /\ got = [r \in Requests |-> {}]
  /\ unread = [r \in Requests |-> {}]
  /\ ended = [r \in Requests |-> "none"]
  /\ answer = [r \in Requests |-> 0]
  /\ events = {}
  /\ faults = 0 /\ crashed = FALSE

-----------------------------------------------------------------------------
(* PostgreSQL and the pool.                                                *)

View(r) == (db \ deleted[r]) \cup inserted[r]

(* Another transaction has changed a row of S and has not ended.           *)
Locked(r, S) ==
  \E o \in Requests \ {r} : \E x \in S, y \in deleted[o] :
    x.table = y.table /\ x.key = y.key

(* Transactions keep their client, and so does a DELETE that waits.        *)
ClientFree == Cardinality({r \in Requests : pc[r] \in Transaction \cup {"remove"}}) < PoolSize

(* The statement deletes S and writes T.                                   *)
Write(r, S, T) ==
  /\ deleted' = [deleted EXCEPT ![r] = @ \cup (S \cap db)]
  /\ inserted' = [inserted EXCEPT ![r] = (@ \ S) \cup T]

Goto(r, label) == pc' = [pc EXCEPT ![r] = label]

Answer(r, code) == answer' = [answer EXCEPT ![r] = code]

(* A request arrives.  A client knows the id of an itinerary when it was   *)
(* saved.                                                                  *)
Arrives(r) ==
  /\ pc[r] = "new"
  /\ Cardinality({o \in Requests : pc[o] # "new"}) < MaxStarted
  /\ Target[r] \in Requests \ {r} => answer[Target[r]] = 201

-----------------------------------------------------------------------------
(* POST and PUT: withTransaction, insertItinerary or updateItineraryRow,   *)
(* and saveChildren.                                                       *)

BeginSave(r) ==
  /\ Arrives(r) /\ Kind[r] \in {"post", "put"}
  /\ ClientFree
  /\ Goto(r, "row")
  /\ UNCHANGED <<db, txVars, readVars, ended, answer, events, faults, crashed>>

InsertItinerary(r) ==
  /\ pc[r] = "row" /\ Kind[r] = "post"
  /\ Write(r, {}, {ItineraryRow(r, r)})
  /\ Goto(r, "findDemographics")
  /\ UNCHANGED <<db, found, readVars, ended, answer, events, faults, crashed>>

(* UPDATE ... RETURNING id: it waits for the row and holds it then.        *)
UpdateItineraryRowUnlocked(r) ==
  /\ pc[r] = "row" /\ Kind[r] = "put"
  /\ Of(db, Target[r], "itinerary") # {}
  /\ inserted' = [inserted EXCEPT ![r] = {ItineraryRow(Target[r], r)}]
  /\ Goto(r, "findDemographics")
  /\ UNCHANGED <<db, deleted, found, readVars, ended, answer, events, faults, crashed>>

UpdateItineraryRow(r) ==
  /\ pc[r] = "row" /\ Kind[r] = "put"
  /\ Of(db, Target[r], "itinerary") # {}
  /\ ~Locked(r, Of(db, Target[r], "itinerary"))
  /\ Write(r, Of(db, Target[r], "itinerary"), {ItineraryRow(Target[r], r)})
  /\ Goto(r, "findDemographics")
  /\ UNCHANGED <<db, found, readVars, ended, answer, events, faults, crashed>>

(* No row: the transaction returns null, is committed and answered 404.    *)
UpdateMissing(r) ==
  /\ pc[r] = "row" /\ Kind[r] = "put"
  /\ Of(db, Target[r], "itinerary") = {}
  /\ ended' = [ended EXCEPT ![r] = "commit"]
  /\ Answer(r, 404)
  /\ Goto(r, "done")
  /\ UNCHANGED <<db, txVars, readVars, events, faults, crashed>>

(* upsertDemographics: SELECT, then UPDATE by id or INSERT.                *)
FindDemographicsOnPool(r) ==
  /\ pc[r] = "findDemographics"
  /\ ClientFree
  /\ \E x \in Of(db, Target[r], "demographics") : found' = [found EXCEPT ![r] = x.key]
  /\ Goto(r, "writeDemographics")
  /\ UNCHANGED <<db, deleted, inserted, readVars, ended, answer, events, faults, crashed>>

FindDemographics(r) ==
  /\ pc[r] = "findDemographics"
  /\ LET rows == Of(View(r), Target[r], "demographics") IN
     \/ rows = {} /\ found' = found
     \/ \E x \in rows : found' = [found EXCEPT ![r] = x.key]
  /\ Goto(r, "writeDemographics")
  /\ UNCHANGED <<db, deleted, inserted, readVars, ended, answer, events, faults, crashed>>

WriteDemographicsInserts(r) ==
  /\ pc[r] = "writeDemographics"
  /\ Write(r, {}, {DemographicsRow(Target[r], r, r)})
  /\ Goto(r, "dropHotels")
  /\ UNCHANGED <<db, found, readVars, ended, answer, events, faults, crashed>>

WriteDemographics(r) ==
  /\ pc[r] = "writeDemographics"
  /\ LET old == {x \in Of(View(r), Target[r], "demographics") : x.key = found[r]}
         id  == IF found[r] = None THEN r ELSE found[r] IN
     /\ ~Locked(r, old)
     /\ IF found[r] # None /\ old = {}
        THEN UNCHANGED <<deleted, inserted>>
        ELSE Write(r, old, {DemographicsRow(Target[r], id, r)})
  /\ Goto(r, "dropHotels")
  /\ UNCHANGED <<db, found, readVars, ended, answer, events, faults, crashed>>

(* replaceAccommodations.                                                  *)
DropHotelsKeeps(r) ==
  /\ pc[r] = "dropHotels"
  /\ Goto(r, "addHotels")
  /\ UNCHANGED <<db, txVars, readVars, ended, answer, events, faults, crashed>>

DropHotels(r) ==
  /\ pc[r] = "dropHotels"
  /\ LET rows == Of(View(r), Target[r], "hotel") IN
     ~Locked(r, rows) /\ Write(r, rows, {})
  /\ Goto(r, "addHotels")
  /\ UNCHANGED <<db, found, readVars, ended, answer, events, faults, crashed>>

AddHotels(r) ==
  /\ pc[r] = "addHotels"
  /\ Write(r, {}, HotelRows(Target[r], r))
  /\ Goto(r, "dropDays")
  /\ UNCHANGED <<db, found, readVars, ended, answer, events, faults, crashed>>

(* replaceDaysWithActivities; the activities of a deleted day cascade.     *)
DropDays(r) ==
  /\ pc[r] = "dropDays"
  /\ LET rows == Of(View(r), Target[r], "day") \cup Of(View(r), Target[r], "activity") IN
     ~Locked(r, rows) /\ Write(r, rows, {})
  /\ Goto(r, "addDays")
  /\ UNCHANGED <<db, found, readVars, ended, answer, events, faults, crashed>>

AddDays(r) ==
  /\ pc[r] = "addDays"
  /\ Write(r, {}, DayRows(Target[r], r) \cup ActivityRows(Target[r], r))
  /\ Goto(r, "commit")
  /\ UNCHANGED <<db, found, readVars, ended, answer, events, faults, crashed>>

Forget(r) ==
  /\ deleted' = [deleted EXCEPT ![r] = {}]
  /\ inserted' = [inserted EXCEPT ![r] = {}]
  /\ found' = [found EXCEPT ![r] = None]

(* COMMIT; a post goes on to publish before it is answered.                *)
Commit(r) ==
  /\ pc[r] = "commit"
  /\ db' = View(r)
  /\ Forget(r)
  /\ ended' = [ended EXCEPT ![r] = "commit"]
  /\ IF Kind[r] = "post"
     THEN Goto(r, "publish") /\ UNCHANGED answer
     ELSE Goto(r, "done") /\ Answer(r, 200)
  /\ UNCHANGED <<readVars, events, faults, crashed>>

(* It is committed and its reply is lost: ROLLBACK fails, too.             *)
CommitUnknown(r) ==
  /\ pc[r] = "commit" /\ faults < MaxFaults
  /\ faults' = faults + 1
  /\ db' = View(r)
  /\ Forget(r)
  /\ ended' = [ended EXCEPT ![r] = "unknown"]
  /\ Answer(r, 500)
  /\ Goto(r, "done")
  /\ UNCHANGED <<readVars, events, crashed>>

(* Any statement fails (a bad date, a lost connection): ROLLBACK.          *)
RollbackForgotten(r) ==
  /\ pc[r] \in Transaction /\ faults < MaxFaults
  /\ faults' = faults + 1
  /\ db' = View(r)
  /\ Forget(r)
  /\ ended' = [ended EXCEPT ![r] = "rollback"]
  /\ Answer(r, 500)
  /\ Goto(r, "done")
  /\ UNCHANGED <<readVars, events, crashed>>

Rollback(r) ==
  /\ pc[r] \in Transaction /\ faults < MaxFaults
  /\ faults' = faults + 1
  /\ Forget(r)
  /\ ended' = [ended EXCEPT ![r] = "rollback"]
  /\ Answer(r, 500)
  /\ Goto(r, "done")
  /\ UNCHANGED <<db, readVars, events, crashed>>

(* A statement outside a transaction fails: there is nothing to undo.      *)
StatementFails(r) ==
  /\ pc[r] \in Reading \cup {"remove"} /\ faults < MaxFaults
  /\ faults' = faults + 1
  /\ Answer(r, 500)
  /\ Goto(r, "done")
  /\ UNCHANGED <<db, txVars, readVars, ended, events, crashed>>

(* publishItineraryCreated never fails a save; the event may be dropped.   *)
PublishCreated(r) ==
  /\ pc[r] = "publish"
  /\ events' \in {events, events \cup {r}}
  /\ Answer(r, 201)
  /\ Goto(r, "done")
  /\ UNCHANGED <<db, txVars, readVars, ended, faults, crashed>>

-----------------------------------------------------------------------------
(* DELETE: one statement, which may wait; ON DELETE CASCADE does the rest. *)
BeginRemove(r) ==
  /\ Arrives(r) /\ Kind[r] \in {"delete", "deleteHotel"}
  /\ ClientFree
  /\ Goto(r, "remove")
  /\ UNCHANGED <<db, txVars, readVars, ended, answer, events, faults, crashed>>

(* ... of an itinerary, while nobody adds children to it;                  *)
DeleteItineraryById(r) ==
  /\ pc[r] = "remove" /\ Kind[r] = "delete"
  /\ LET rows == {x \in db : x.of = Target[r]} IN
     /\ ~Locked(r, rows)
     /\ \A o \in Requests : \A x \in inserted[o] : x.of # Target[r]
     /\ db' = db \ rows
     /\ Answer(r, IF rows = {} THEN 404 ELSE 200)
  /\ Goto(r, "done")
  /\ UNCHANGED <<txVars, readVars, ended, events, faults, crashed>>

(* ... of a hotel that the client saw in the itinerary as it was seeded or *)
(* first saved.                                                            *)
DeleteAccommodationById(r) ==
  /\ pc[r] = "remove" /\ Kind[r] = "deleteHotel"
  /\ \E n \in Hotels :
       LET rows == {x \in db : x.table = "hotel" /\ x.key = <<Target[r], n>>} IN
       /\ ~Locked(r, rows)
       /\ db' = db \ rows
       /\ Answer(r, IF rows = {} THEN 404 ELSE 200)
  /\ Goto(r, "done")
  /\ UNCHANGED <<txVars, readVars, ended, events, faults, crashed>>

-----------------------------------------------------------------------------
(* GET /:id: getItineraryAggregate, one statement after the other, each on *)
(* whatever client the pool has.                                           *)
BeginRead(r) ==
  /\ Arrives(r) /\ Kind[r] = "get"
  /\ Goto(r, "getRow")
  /\ UNCHANGED <<db, txVars, readVars, ended, answer, events, faults, crashed>>

Select(r, label, table, next) ==
  /\ pc[r] = label
  /\ ClientFree
  /\ got' = [got EXCEPT ![r] = @ \cup Of(db, Target[r], table)]
  /\ Goto(r, next)
  /\ UNCHANGED <<db, txVars, ended, events, faults, crashed>>

GetRow(r) ==
  /\ Select(r, "getRow", "itinerary",
            IF Of(db, Target[r], "itinerary") = {} THEN "done" ELSE "getDemographics")
  /\ IF Of(db, Target[r], "itinerary") = {} THEN Answer(r, 404) ELSE UNCHANGED answer
  /\ UNCHANGED unread

GetDemographics(r) ==
  /\ Select(r, "getDemographics", "demographics", "getHotels")
  /\ UNCHANGED <<unread, answer>>

GetHotels(r) ==
  /\ Select(r, "getHotels", "hotel", "getDays")
  /\ UNCHANGED <<unread, answer>>

GetDays(r) ==
  /\ Select(r, "getDays", "day", "getActivities")
  /\ unread' = [unread EXCEPT ![r] = Of(db, Target[r], "day")]
  /\ UNCHANGED answer

(* One query per day.                                                      *)
GetActivities(r) ==
  /\ pc[r] = "getActivities"
  /\ \E d \in unread[r] :
       /\ ClientFree
       /\ got' = [got EXCEPT ![r] =
                    @ \cup {x \in Of(db, Target[r], "activity") : x.key = d.key}]
       /\ unread' = [unread EXCEPT ![r] = @ \ {d}]
  /\ UNCHANGED <<db, pc, txVars, ended, answer, events, faults, crashed>>

AnswerRead(r) ==
  /\ pc[r] = "getActivities"
  /\ unread[r] = {}
  /\ Answer(r, 200)
  /\ Goto(r, "done")
  /\ UNCHANGED <<db, txVars, readVars, ended, events, faults, crashed>>

-----------------------------------------------------------------------------
(* The process dies, and PostgreSQL rolls back what it had open.           *)
Crash ==
  /\ faults < MaxFaults
  /\ faults' = faults + 1
  /\ crashed' = TRUE
  /\ pc' = [r \in Requests |-> IF pc[r] \in Active THEN "done" ELSE pc[r]]
  /\ deleted' = [r \in Requests |-> {}]
  /\ inserted' = [r \in Requests |-> {}]
  /\ found' = [r \in Requests |-> None]
  /\ got' = [r \in Requests |-> IF pc[r] \in Active THEN {} ELSE got[r]]
  /\ unread' = [r \in Requests |-> {}]
  /\ ended' = [r \in Requests |-> IF pc[r] \in Transaction THEN "rollback" ELSE ended[r]]
  /\ UNCHANGED <<db, answer, events>>

Save(r) ==
  \/ BeginSave(r) \/ InsertItinerary(r) \/ UpdateItineraryRow(r) \/ UpdateMissing(r)
  \/ FindDemographics(r) \/ WriteDemographics(r) \/ DropHotels(r) \/ AddHotels(r)
  \/ DropDays(r) \/ AddDays(r) \/ Commit(r) \/ PublishCreated(r)

Remove(r) == BeginRemove(r) \/ DeleteItineraryById(r) \/ DeleteAccommodationById(r)

Read(r) ==
  \/ BeginRead(r) \/ GetRow(r) \/ GetDemographics(r) \/ GetHotels(r) \/ GetDays(r)
  \/ GetActivities(r) \/ AnswerRead(r)

Next ==
  \/ \E r \in Requests :
       \/ Save(r) \/ Remove(r) \/ Read(r)
       \/ CommitUnknown(r) \/ Rollback(r) \/ StatementFails(r)
  \/ Crash

Spec == Init /\ [][Next]_vars

(* As long as some statement can end, one does.  Nothing is asked of the   *)
(* order in which the pool and PostgreSQL serve those who wait.            *)
Fairness == WF_vars(\E r \in Requests : Save(r) \/ Remove(r) \/ Read(r))

FairSpec == Spec /\ Fairness

-----------------------------------------------------------------------------
(* What the store guarantees.                                              *)

(* The committed rows of i are the whole of payload p: one itinerary row,  *)
(* one demographics row, its days with all their activities, and of its    *)
(* hotels what was not removed singly.                                     *)
Whole(i, p) ==
  /\ \A x \in db : x.of = i => x.by = p
  /\ Cardinality(Of(db, i, "itinerary")) = 1
  /\ Cardinality(Of(db, i, "demographics")) = 1
  /\ Of(db, i, "day") = DayRows(i, p)
  /\ Of(db, i, "activity") = ActivityRows(i, p)

(* However saves, deletes, failures and crashes interleave, what is        *)
(* committed of an itinerary is one payload or nothing: no mixture of two  *)
(* saves, no second demographics row (no UNIQUE constraint forbids one),   *)
(* no child without its itinerary (itineraryRepository.ts:184-186, 248-    *)
(* 251, 375-379).                                                          *)
AggregateIsWhole ==
  \A i \in Itineraries :
    {x \in db : x.of = i} = {} \/ \E p \in Payloads : Whole(i, p)

(* What is committed, as AggregateStore has it; a mixture maps to nothing  *)
(* that it knows.                                                          *)
Torn == <<>>

StoredPayload ==
  [i \in Itineraries |->
     IF {x \in db : x.of = i} = {} THEN None
     ELSE IF \E p \in Payloads : Whole(i, p)
          THEN CHOOSE p \in Payloads : Whole(i, p)
          ELSE Torn]

StoredHotels == [i \in Itineraries |-> {n \in Hotels : \E x \in Of(db, i, "hotel") : x.key[2] = n}]

Aggregates == INSTANCE AggregateStore WITH payload <- StoredPayload, hotels <- StoredHotels

(* The transactions are atomic: each commit saves its whole payload at     *)
(* once, over an itinerary that still exists, and nothing else changes     *)
(* what is stored (itineraryRepository.ts:375-402, db.ts:42-64).           *)
SavesAreAtomic == Aggregates!Spec

(* A save that failed left nothing behind, unless the failure is that of   *)
(* its COMMIT's reply, and was announced to nobody: an event is about an   *)
(* itinerary that was committed (itineraryRepository.ts:376-378,           *)
(* db.ts:58-60, itineraryCreatedPublisher.ts:49-50).                       *)
FailedSaveLeavesNothing ==
  /\ \A r \in Requests :
       ended[r] = "rollback" \/ answer[r] = 404 => \A x \in db : x.by # r
  /\ \A r \in events : ended[r] = "commit"

(* A GET may mix tables of two saves, but never the rows of one table, and *)
(* activities only ever come with their own day (itineraryRepository.ts:   *)
(* 413-460).                                                               *)
TablesDoNotMix ==
  \A r \in Requests : \A x, y \in got[r] :
    \/ x.table = y.table
    \/ {x.table, y.table} = {"day", "activity"}
    => x.by = y.by

(* Every request is answered, although saves wait for rows while they keep *)
(* a client of the pool, unless the service crashes (db.ts:42-64).         *)
EveryRequestAnswered ==
  <>[](\A r \in Requests : pc[r] # "new" => answer[r] # 0 \/ crashed)
=============================================================================
